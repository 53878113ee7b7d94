------------------------- MODULE RequestCreation_proofs -------------------------
(***************************************************************************)
(* However many callers allocate addresses at once, and wherever a call    *)
(* fails: derived addresses are not shared, a wallet that derives goes on  *)
(* without a gap, every address has the signer of its own wallet and index, *)
(* and the gas wallet of a network stays.                                  *)
(***************************************************************************)
EXTENDS RequestCreation, FiniteSetTheorems, SequenceTheorems, WellFoundedInduction, TLAPS

LEMMA Forms ==
  /\ NoKey \in Triples /\ ~IsHd(NoKey)
  /\ \A p \in Pairs, n \in Nat : VenueAddress(p, n) \in Triples /\ ~IsHd(VenueAddress(p, n))
  /\ \A v \in {"kucoin", "binance"}, p \in Pairs, n \in Nat :
       VenueKey(v, p, n) \in Triples /\ VenueKey(v, p, n)[1] = v /\ ~IsHd(VenueKey(v, p, n))
  /\ \A p : \A n \in Nat :
       GeneratedKey(p, n) \in Triples /\ IsHd(GeneratedKey(p, n)) /\ GeneratedKey(p, n)[2] = n
  /\ \A key \in Triples, n \in Nat :
       /\ HdAddress(key, n) \in Triples /\ (IsHd(key) => IsHd(HdAddress(key, n)))
       /\ HdAddress(key, n)[1] = key[1] /\ HdAddress(key, n)[2] = key[2] /\ HdAddress(key, n)[3] = n
<1> USE DEF Triples, IsHd
<1>1. \A a \in {"none", "hd", "pub", "venue", "kucoin", "binance"}, b \in Nat \cup Pairs, n \in Nat :
        <<a, b, n>> \in Triples /\ <<a, b, n>>[1] = a /\ <<a, b, n>>[2] = b /\ <<a, b, n>>[3] = n
  OBVIOUS
<1>2. NoKey \in Triples /\ ~IsHd(NoKey)
  BY <1>1 DEF NoKey
<1>3. ASSUME NEW p \in Pairs, NEW n \in Nat PROVE VenueAddress(p, n) \in Triples /\ ~IsHd(VenueAddress(p, n))
  BY <1>1 DEF VenueAddress
<1>4. ASSUME NEW v \in {"kucoin", "binance"}, NEW p \in Pairs, NEW n \in Nat
      PROVE  VenueKey(v, p, n) \in Triples /\ VenueKey(v, p, n)[1] = v /\ ~IsHd(VenueKey(v, p, n))
  BY <1>1 DEF VenueKey
<1>5. ASSUME NEW p, NEW n \in Nat
      PROVE  GeneratedKey(p, n) \in Triples /\ IsHd(GeneratedKey(p, n)) /\ GeneratedKey(p, n)[2] = n
  BY <1>1 DEF GeneratedKey
<1>6. ASSUME NEW key \in Triples, NEW n \in Nat
      PROVE  /\ HdAddress(key, n) \in Triples /\ (IsHd(key) => IsHd(HdAddress(key, n)))
             /\ HdAddress(key, n)[1] = key[1] /\ HdAddress(key, n)[2] = key[2] /\ HdAddress(key, n)[3] = n
  BY <1>1 DEF HdAddress
<1> QED BY <1>2, <1>3, <1>4, <1>5, <1>6

LEMMA GeneratedKeyFits ==
  ASSUME NEW p, NEW n \in Nat
  PROVE  GeneratedKey(p, n) \in Triples /\ IsHd(GeneratedKey(p, n)) /\ GeneratedKey(p, n)[2] = n
  BY Forms

LEMMA IdleFits == Idle \in CallState /\ ~IsHd(Idle.address) /\ ~IsHd(Idle.key) /\ Idle.at = "idle"
  BY Forms DEF Idle, CallState, Steps, Sources

LEMMA FeeFits ==
  ASSUME NEW gross \in Nat, NEW gas_ \in Nat PROVE Fee(gross, gas_) \in Nat
<1>1. gross * FeePercent \in Nat
  BY QuoteAssumption
<1>2. (gross * FeePercent) \div 100 \in Nat
  BY <1>1
<1> QED BY <1>2, QuoteAssumption DEF Fee

LEMMA QuoteFits ==
  ASSUME NEW amount \in Nat, NEW swept \in BOOLEAN, NEW q \in Quotes(amount, swept)
  PROVE  q.fee \in Nat /\ q.to \in Nat /\ q.to > 0
<1>1. amount * Rate \in Nat
  BY QuoteAssumption
<1>2. \A g \in GasFees(swept) : g \in Nat
  BY QuoteAssumption DEF GasFees
<1>3. PICK g \in GasFees(swept) :
        amount * Rate > Fee(amount * Rate, g)
        /\ q = [fee |-> Fee(amount * Rate, g), to |-> amount * Rate - Fee(amount * Rate, g)]
  BY DEF Quotes
<1>4. Fee(amount * Rate, g) \in Nat
  BY <1>1, <1>2, FeeFits
<1> HIDE DEF Fee
<1> QED BY <1>1, <1>3, <1>4
-------------------------------------------------------------------------------
(* A caller that goes on and leaves the rows alone. *)
LEMMA CallKeeps ==
  ASSUME CreationInv, NEW c \in Callers, NEW new \in CallState, Goes(c, new),
         UNCHANGED <<venue, wallet, deposits, requests, minted>>,
         new.address = call[c].address \/ ~IsHd(new.address),
         IsHd(new.key) => new.key[2] \in Nat /\ new.key[2] <= minted,
         new.at = "migrate" => new.source = "KUCOIN",
         new.at \in {"attachTo", "newWallet", "migrate", "attach"} => ~IsHd(new.address),
         \A p \in DOMAIN wallet : wallet[p].xpub = new.key /\ Derives(wallet[p]) =>
           (new.at = "store" => new.index <= wallet[p].generatedAddresses) /\ new.at # "count"
  PROVE  CreationInv'
<1>0. TypesInv /\ KeysInv /\ CallsInv /\ IndicesInv /\ HoldersInv
  BY DEF CreationInv
<1>1. call' = [call EXCEPT ![c] = new] /\ call' \in [Callers -> CallState]
      /\ call'[c] = new /\ \A b \in Callers \ {c} : call'[b] = call[b]
  BY <1>0 DEF Goes, TypesInv
<1>2. TypesInv'
  BY <1>0, <1>1 DEF TypesInv
<1>3. KeysInv'
  BY <1>0 DEF KeysInv
<1>4. \A w : Derives(w)' <=> Derives(w)
  BY DEF Derives, OwnOf
<1>5. CallsInv'
  <2> SUFFICES ASSUME NEW b \in Callers
               PROVE  /\ IsHd(call'[b].key) => call'[b].key[2] \in Nat /\ call'[b].key[2] <= minted
                      /\ call'[b].at = "migrate" => call'[b].source = "KUCOIN"
                      /\ call'[b].at \in {"attachTo", "newWallet", "migrate", "attach"} => ~IsHd(call'[b].address)
                      /\ \A p \in DOMAIN wallet : wallet[p].xpub = call'[b].key /\ Derives(wallet[p]) =>
                           /\ call'[b].at = "store" => call'[b].index <= wallet[p].generatedAddresses
                           /\ call'[b].at # "count"
    BY <1>4 DEF CallsInv, At, IsHd, Derives, OwnOf
  <2>1. CASE b = c
    BY <1>1, <2>1
  <2>2. CASE b # c
    BY <1>0, <1>1, <2>2 DEF CallsInv, At
  <2> QED BY <2>1, <2>2
<1>6. IndicesInv'
  BY <1>0 DEF IndicesInv, Derives, OwnOf
<1>7. HoldersInv'
  BY <1>0, <1>1 DEF HoldersInv, HdAddressesAreOwn, IsHd
<1> QED BY <1>2, <1>3, <1>5, <1>6, <1>7 DEF CreationInv

LEMMA CallParts ==
  ASSUME CreationInv, NEW c \in Callers
  PROVE  /\ call[c] \in CallState
         /\ IsHd(call[c].key) => call[c].key[2] \in Nat /\ call[c].key[2] <= minted
         /\ call[c].at = "migrate" => call[c].source = "KUCOIN"
         /\ call[c].at \in {"attachTo", "newWallet", "migrate", "attach"} => ~IsHd(call[c].address)
         /\ \A p \in DOMAIN wallet : wallet[p].xpub = call[c].key /\ Derives(wallet[p]) =>
              (call[c].at = "store" => call[c].index <= wallet[p].generatedAddresses) /\ call[c].at # "count"
  BY DEF CreationInv, TypesInv, CallsInv, At

(* A wallet that derives hands out as its next index what it gave so far. *)
LEMMA NextIndexFits ==
  ASSUME CreationInv, NEW p \in DOMAIN wallet
  PROVE  /\ wallet[p].xpub \in Triples /\ NextIndex(wallet[p]) \in Nat
         /\ Derives(wallet[p]) => NextIndex(wallet[p]) = wallet[p].generatedAddresses
<1>1. wallet[p] \in [xpub : Triples, surprise : Nat, currentIndex : Nat, generatedAddresses : Nat]
  BY DEF CreationInv, TypesInv
<1>2. Derives(wallet[p]) /\ wallet[p].generatedAddresses > 0
        => wallet[p].currentIndex = wallet[p].generatedAddresses - 1
  BY DEF CreationInv, IndicesInv
<1> QED BY <1>1, <1>2 DEF NextIndex

(* The key of a wallet, if it is derived, is that of a mnemonic. *)
LEMMA WalletKeys ==
  ASSUME CreationInv, NEW p \in DOMAIN wallet, IsHd(wallet[p].xpub)
  PROVE  wallet[p].xpub[2] \in 1..minted /\ wallet[p].xpub[2] = wallet[p].surprise
<1> QED BY DEF CreationInv, KeysInv, TypesInv

(* Steps of a caller that write no row the invariant speaks of. *)
LEMMA CallStartsKeeps ==
  ASSUME CreationInv, NEW c \in Callers, NEW p \in Pairs, NEW q \in Pairs, CallStarts(c, p, q),
         source \in [Networks -> Sources]
  PROVE  CreationInv'
<1> DEFINE s == source[NetworkOf[p]]
           new == [Idle EXCEPT !.at = IF s = "TATUM" THEN "lookup" ELSE "venue",
                    !.from = p, !.to = q, !.source = s, !.code = venue[p].code]
<1>1. Goes(c, new) /\ UNCHANGED <<venue, wallet, deposits, requests, minted>>
  BY DEF CallStarts
<1>2. s \in Sources /\ venue[p].code \in Nat
  BY CreationAssumption DEF CreationInv, TypesInv
<1>3. new \in CallState /\ ~IsHd(new.address) /\ ~IsHd(new.key) /\ new.at \in {"lookup", "venue"}
  BY <1>2, IdleFits DEF CallState, Steps
<1> HIDE DEF new
<1> QED BY <1>1, <1>3, CallKeeps

LEMMA CallFailsKeeps ==
  ASSUME CreationInv, NEW c \in Callers, CallFails(c) PROVE CreationInv'
  BY IdleFits, CallKeeps DEF CallFails

(* A step that changes only where the call is. *)
LEMMA StaysKeeps ==
  ASSUME CreationInv, NEW c \in Callers,
         NEW step \in {"mint", "newWallet", "gasTo", "mintFrom", "mintTo", "quote"},
         Goes(c, Stays(c, step)), step = "newWallet" => At(c, "attachTo"),
         UNCHANGED <<venue, wallet, deposits, requests, minted>>
  PROVE  CreationInv'
<1>1. Stays(c, step) \in CallState /\ Stays(c, step).at = step
      /\ Stays(c, step).address = call[c].address /\ Stays(c, step).key = call[c].key
  BY CallParts DEF Stays, CallState, Steps
<1>2. step = "newWallet" => ~IsHd(call[c].address)
  BY CallParts DEF At
<1> QED BY <1>1, <1>2, CallParts, CallKeeps

LEMMA LookUpKeeps ==
  ASSUME CreationInv, NEW c \in Callers, LookUpWallet(c) PROVE CreationInv'
<1>1. UNCHANGED <<venue, wallet, deposits, requests, minted>>
  BY DEF LookUpWallet
<1>2. CASE Goes(c, Stays(c, "mint"))
  BY <1>1, <1>2, StaysKeeps
<1>3. CASE call[c].from \in DOMAIN wallet /\ Goes(c, Planned(c, wallet[call[c].from]))
  <2> DEFINE w == wallet[call[c].from]
             new == Planned(c, w)
  <2>1. w.xpub \in Triples /\ NextIndex(w) \in Nat
        /\ (Derives(w) => NextIndex(w) = w.generatedAddresses)
        /\ (IsHd(w.xpub) => w.xpub[2] \in 1..minted)
    BY <1>3, NextIndexFits, WalletKeys
  <2>2. new \in CallState /\ new.at = "store" /\ new.key = w.xpub /\ new.index = NextIndex(w)
        /\ new.address = call[c].address
    BY <2>1, CallParts, ZenonT(60) DEF Planned, CallState, Steps
  <2>3. w.generatedAddresses \in Nat /\ minted \in Nat
    BY <1>3 DEF CreationInv, TypesInv
  <2>4. \A p \in DOMAIN wallet : wallet[p].xpub = new.key => p = call[c].from
    BY <1>3, <2>2 DEF CreationInv, KeysInv
  <2>5. Goes(c, new)
    BY <1>3
  <2>6. \A p \in DOMAIN wallet : wallet[p].xpub = new.key /\ Derives(wallet[p]) =>
           (new.at = "store" => new.index <= wallet[p].generatedAddresses) /\ new.at # "count"
    BY <2>1, <2>2, <2>3, <2>4
  <2> HIDE DEF new, w
  <2> QED BY <1>1, <2>1, <2>2, <2>3, <2>5, <2>6, CallKeeps
<1> QED BY <1>2, <1>3 DEF LookUpWallet

LEMMA AskVenueKeeps ==
  ASSUME CreationInv, NEW c \in Callers, AskVenue(c), call[c].from \in Pairs PROVE CreationInv'
<1> DEFINE address == VenueAddress(call[c].from, venue[call[c].from].address)
           known   == \E d \in deposits : d.address = address
           new     == [Stays(c, IF known THEN "gasTo" ELSE "attachTo") EXCEPT !.address = address]
<1>1. Goes(c, new) /\ UNCHANGED <<venue, wallet, deposits, requests, minted>>
  BY DEF AskVenue
<1>2. address \in Triples /\ ~IsHd(address)
  <2>1. venue[call[c].from].address \in Nat
    BY DEF CreationInv, TypesInv
  <2> QED BY <2>1, Forms
<1>3. new \in CallState /\ ~IsHd(new.address) /\ new.key = call[c].key /\ new.at \in {"gasTo", "attachTo"}
  <2> HIDE DEF address
  <2> QED BY <1>2, CallParts, ZenonT(60) DEF Stays, CallState, Steps
<1> HIDE DEF new
<1> QED BY <1>1, <1>3, CallParts, CallKeeps

LEMMA FindWalletKeeps ==
  ASSUME CreationInv, NEW c \in Callers, FindWallet(c) PROVE CreationInv'
<1> DEFINE p == call[c].from
           new(step) == [Stays(c, step) EXCEPT !.key = wallet[p].xpub]
<1>1. UNCHANGED <<venue, wallet, deposits, requests, minted>> /\ At(c, "attachTo")
  BY DEF FindWallet
<1>2. CASE Goes(c, Stays(c, "newWallet"))
  BY <1>1, <1>2, StaysKeeps
<1>3. ASSUME NEW step \in {"migrate", "attach"}, Goes(c, new(step)), p \in DOMAIN wallet,
             step = "migrate" => call[c].source = "KUCOIN"
      PROVE  CreationInv'
  <2>1. wallet[p].xpub \in Triples /\ (IsHd(wallet[p].xpub) => wallet[p].xpub[2] \in 1..minted)
    BY <1>3, NextIndexFits, WalletKeys
  <2>2. new(step) \in CallState /\ new(step).at = step /\ new(step).key = wallet[p].xpub
        /\ new(step).address = call[c].address /\ new(step).source = call[c].source
    BY <1>3, <2>1, CallParts, ZenonT(60) DEF Stays, CallState, Steps
  <2>3. ~IsHd(call[c].address) /\ minted \in Nat
    BY <1>1, CallParts DEF At, CreationInv, TypesInv
  <2> HIDE DEF new
  <2> QED BY <1>1, <1>3, <2>1, <2>2, <2>3, CallKeeps
<1>4. CASE p \in DOMAIN wallet
  BY <1>3, <1>4 DEF FindWallet
<1> QED BY <1>2, <1>4 DEF FindWallet

LEMMA GasWalletKeeps ==
  ASSUME CreationInv, NEW c \in Callers, FindGasWallet(c) \/ MintGasWallet(c) PROVE CreationInv'
<1>1. UNCHANGED <<venue, wallet, deposits, requests, minted>>
  BY DEF FindGasWallet, MintGasWallet
<1>2. PICK step \in {"gasTo", "mintFrom", "mintTo", "quote"} : Goes(c, Stays(c, step))
  BY DEF FindGasWallet, MintGasWallet, AfterGas
<1> QED BY <1>1, <1>2, StaysKeeps

LEMMA GetQuoteKeeps ==
  ASSUME CreationInv, NEW c \in Callers, GetQuote(c) PROVE CreationInv'
<1>1. UNCHANGED <<venue, wallet, deposits, requests, minted>>
  BY DEF GetQuote
<1>2. PICK amount \in FromAmounts, o \in {x \in OrderIds : ~Taken(x)} :
        \E q \in Quotes(amount, call[c].source = "TATUM") :
          Goes(c, [Stays(c, "create") EXCEPT !.order = o, !.amount = amount, !.fee = q.fee, !.quoted = q.to])
  BY DEF GetQuote
<1>3. PICK q \in Quotes(amount, call[c].source = "TATUM") :
          Goes(c, [Stays(c, "create") EXCEPT !.order = o, !.amount = amount, !.fee = q.fee, !.quoted = q.to])
  BY <1>2
<1> DEFINE new == [Stays(c, "create") EXCEPT !.order = o, !.amount = amount, !.fee = q.fee, !.quoted = q.to]
<1>4. amount \in Nat
  BY CreationAssumption
<1>5. q.fee \in Nat /\ q.to \in Nat
  BY <1>4, QuoteFits
<1>6. new \in CallState /\ new.at = "create" /\ new.address = call[c].address /\ new.key = call[c].key
  BY <1>4, <1>5, CallParts, ZenonT(60) DEF Stays, CallState, Steps
<1>7. Goes(c, new)
  BY <1>3
<1> HIDE DEF new
<1> QED BY <1>1, <1>6, <1>7, CallParts, CallKeeps
-------------------------------------------------------------------------------
(* A wallet is created: nobody has its key, and no address hangs on it. *)
LEMMA AddWalletKeeps ==
  ASSUME CreationInv, NEW c \in Callers, NEW p \in Pairs, NEW key \in Triples, NEW surprise \in Nat,
         AddWallet(p, Wallet(key, surprise)), UNCHANGED <<venue, deposits, requests>>,
         IF IsHd(key) THEN surprise = minted' /\ minted' = minted + 1 /\ key[2] = minted'
                      ELSE surprise = 0 /\ minted' = minted,
         NEW new \in CallState, Goes(c, new), new.address = call[c].address, new.key = key,
         (new.at = "store" /\ new.index = 0) \/ (new.at = "attach" /\ ~IsHd(new.address))
  PROVE  CreationInv'
<1>0. TypesInv /\ KeysInv /\ CallsInv /\ IndicesInv /\ HoldersInv
  BY DEF CreationInv
<1> DEFINE w == Wallet(key, surprise)
<1>1. /\ w \in [xpub : Triples, surprise : Nat, currentIndex : Nat, generatedAddresses : Nat]
      /\ w.xpub = key /\ w.surprise = surprise /\ w.generatedAddresses = 0
  BY DEF Wallet
<1>2. /\ p \notin DOMAIN wallet /\ \A q \in DOMAIN wallet : wallet[q].xpub # key
      /\ wallet' = [q \in DOMAIN wallet \cup {p} |-> IF q = p THEN w ELSE wallet[q]]
  BY <1>1 DEF AddWallet, OwnersOf
<1> HIDE DEF w
<1>3. /\ DOMAIN wallet' = DOMAIN wallet \cup {p} /\ wallet'[p] = w
      /\ \A q \in DOMAIN wallet : wallet'[q] = wallet[q] /\ q # p
  BY <1>2
<1>4. OwnOf(key) = {}
  BY <1>0, <1>2 DEF OwnOf, KeysInv
<1>5. minted \in Nat /\ minted' \in Nat /\ minted <= minted'
  BY <1>0 DEF TypesInv
<1>6. call' \in [Callers -> CallState] /\ call'[c] = new /\ \A b \in Callers \ {c} : call'[b] = call[b]
  BY <1>0 DEF Goes, TypesInv
<1>7. TypesInv'
  <2>1. wallet' \in [DOMAIN wallet' -> [xpub : Triples, surprise : Nat, currentIndex : Nat, generatedAddresses : Nat]]
    BY <1>0, <1>1, <1>2 DEF TypesInv
  <2> QED BY <1>0, <1>3, <1>5, <1>6, <2>1 DEF TypesInv
<1>8. KeysInv'
  <2>1. \A q, r \in DOMAIN wallet' : wallet'[q].xpub = wallet'[r].xpub => q = r
    BY <1>0, <1>1, <1>2, <1>3 DEF KeysInv
  <2>2. \A q \in DOMAIN wallet' :
          IF IsHd(wallet'[q].xpub)
          THEN wallet'[q].surprise \in 1..minted' /\ wallet'[q].xpub[2] = wallet'[q].surprise
          ELSE wallet'[q].surprise = 0
    <3> SUFFICES ASSUME NEW q \in DOMAIN wallet'
                 PROVE  IF IsHd(wallet'[q].xpub)
                        THEN wallet'[q].surprise \in 1..minted' /\ wallet'[q].xpub[2] = wallet'[q].surprise
                        ELSE wallet'[q].surprise = 0
      OBVIOUS
    <3>1. CASE q = p
      BY <1>1, <1>3, <1>5, <3>1
    <3>2. CASE q # p
      <4>1. q \in DOMAIN wallet /\ wallet'[q] = wallet[q]
        BY <1>3, <3>2
      <4> QED BY <1>0, <1>5, <4>1 DEF KeysInv
    <3> QED BY <3>1, <3>2
  <2>3. \A d \in deposits : \E q \in DOMAIN wallet' : wallet'[q].xpub = d.xpub
    BY <1>0, <1>3 DEF KeysInv
  <2> QED BY <1>0, <2>1, <2>2, <2>3 DEF KeysInv, IsHd
<1>9. CallsInv'
  <2> SUFFICES ASSUME NEW b \in Callers
               PROVE  /\ IsHd(call'[b].key) => call'[b].key[2] \in Nat /\ call'[b].key[2] <= minted'
                      /\ call'[b].at = "migrate" => call'[b].source = "KUCOIN"
                      /\ call'[b].at \in {"attachTo", "newWallet", "migrate", "attach"} => ~IsHd(call'[b].address)
                      /\ \A q \in DOMAIN wallet' : wallet'[q].xpub = call'[b].key /\ Derives(wallet'[q]) =>
                           /\ call'[b].at = "store" => call'[b].index <= wallet'[q].generatedAddresses
                           /\ call'[b].at # "count"
    BY DEF CallsInv, At, IsHd, Derives, OwnOf
  <2>1. CASE b = c
    <3>1. IsHd(key) => key[2] = minted'
      BY <1>5, GeneratedKeyFits
    <3> QED BY <1>1, <1>2, <1>3, <1>5, <1>6, <2>1, <3>1
  <2>2. CASE b # c
    <3>1. call'[b] = call[b] /\ (IsHd(call[b].key) => call[b].key[2] \in Nat /\ call[b].key[2] <= minted)
      BY <1>0, <1>6, <2>2 DEF CallsInv
    <3>2. IsHd(key) => key[2] = minted + 1
      BY <1>5, GeneratedKeyFits
    <3>3. wallet'[p].xpub = call[b].key => ~Derives(wallet'[p])
      BY <1>1, <1>3, <1>5, <3>1, <3>2 DEF Derives
    <3>4. \A q \in DOMAIN wallet : wallet[q].xpub = call[b].key /\ Derives(wallet[q]) =>
                           /\ call[b].at = "store" => call[b].index <= wallet[q].generatedAddresses
                           /\ call[b].at # "count"
      BY <1>0 DEF CallsInv, At
    <3>5. /\ call[b].at = "migrate" => call[b].source = "KUCOIN"
          /\ call[b].at \in {"attachTo", "newWallet", "migrate", "attach"} => ~IsHd(call[b].address)
      BY <1>0 DEF CallsInv, At
    <3> QED BY <1>3, <1>5, <3>1, <3>3, <3>4, <3>5
  <2> QED BY <2>1, <2>2
<1>10. IndicesInv'
  <2> SUFFICES ASSUME NEW q \in DOMAIN wallet', Derives(wallet'[q])
               PROVE  /\ {d.index : d \in OwnOf(wallet'[q].xpub)} = 0..(wallet'[q].generatedAddresses - 1)
                      /\ wallet'[q].generatedAddresses > 0 =>
                           wallet'[q].currentIndex = wallet'[q].generatedAddresses - 1
    BY DEF IndicesInv, Derives, OwnOf
  <2>1. CASE q = p
    BY <1>1, <1>3, <1>4, <2>1
  <2>2. CASE q # p
    <3>1. q \in DOMAIN wallet /\ wallet'[q] = wallet[q]
      BY <1>3, <2>2
    <3> QED BY <1>0, <3>1 DEF IndicesInv
  <2> QED BY <2>1, <2>2
<1>11. HoldersInv'
  BY <1>0, <1>6 DEF HoldersInv, HdAddressesAreOwn, IsHd
<1> QED BY <1>7, <1>8, <1>9, <1>10, <1>11 DEF CreationInv

LEMMA MintWalletKeeps ==
  ASSUME CreationInv, NEW c \in Callers, MintWallet(c), call[c].from \in Pairs PROVE CreationInv'
<1> DEFINE w == Wallet(GeneratedKey(call[c].from, minted'), minted')
           new == Planned(c, w)
<1>1. AddWallet(call[c].from, w) /\ Goes(c, new) /\ minted' = minted + 1
      /\ UNCHANGED <<venue, deposits, requests>> /\ minted' \in Nat
  BY DEF MintWallet, CreationInv, TypesInv
<1>2. /\ GeneratedKey(call[c].from, minted') \in Triples /\ IsHd(GeneratedKey(call[c].from, minted'))
      /\ GeneratedKey(call[c].from, minted')[2] = minted'
  BY <1>1, GeneratedKeyFits
<1>3. w.xpub = GeneratedKey(call[c].from, minted') /\ NextIndex(w) = 0
  BY DEF Wallet, NextIndex
<1>4. new \in CallState /\ new.address = call[c].address /\ new.key = GeneratedKey(call[c].from, minted')
      /\ new.at = "store" /\ new.index = 0
  <2>1. call[c] \in CallState
    BY CallParts
  <2>2. w.xpub \in Triples /\ NextIndex(w) \in Nat
    BY <1>2, <1>3
  <2>3. new = [call[c] EXCEPT !.at = "store", !.key = w.xpub, !.index = NextIndex(w)]
    BY DEF Planned
  <2> HIDE DEF w, new
  <2> QED BY <1>3, <2>1, <2>2, <2>3 DEF CallState, Steps
<1> HIDE DEF new
<1> QED BY <1>1, <1>2, <1>4, AddWalletKeeps

LEMMA KeyWantedFits ==
  ASSUME CreationInv, NEW c \in Callers, call[c].from \in Pairs
  PROVE  /\ KeyWanted(c) \in Triples /\ ~IsHd(KeyWanted(c))
         /\ call[c].source = "KUCOIN" => KeyWanted(c)[1] = "kucoin"
<1>1. call[c].code \in Nat
  BY CallParts DEF CallState
<1> DEFINE key(v) == VenueKey(v, call[c].from, call[c].code)
<1>2. \A v \in {"kucoin", "binance"} : key(v) \in Triples /\ key(v)[1] = v /\ ~IsHd(key(v))
  <2>1. \A v \in {"kucoin", "binance"}, p \in Pairs, n \in Nat :
          VenueKey(v, p, n) \in Triples /\ VenueKey(v, p, n)[1] = v /\ ~IsHd(VenueKey(v, p, n))
    BY Forms
  <2> QED BY <1>1, <2>1
<1>3. CASE call[c].source = "KUCOIN"
  <2>1. KeyWanted(c) = key("kucoin")
    BY <1>3 DEF KeyWanted
  <2> QED BY <1>2, <2>1
<1>4. CASE call[c].source # "KUCOIN"
  <2>1. KeyWanted(c) = key("binance")
    BY <1>4 DEF KeyWanted
  <2> QED BY <1>2, <1>4, <2>1
<1> QED BY <1>3, <1>4

LEMMA NewVenueWalletKeeps ==
  ASSUME CreationInv, NEW c \in Callers, NewVenueWallet(c), call[c].from \in Pairs PROVE CreationInv'
<1> DEFINE new == [Stays(c, "attach") EXCEPT !.key = KeyWanted(c)]
<1>1. AddWallet(call[c].from, Wallet(KeyWanted(c), 0)) /\ Goes(c, new) /\ At(c, "newWallet")
      /\ UNCHANGED <<venue, deposits, requests, minted>>
  BY DEF NewVenueWallet
<1>2. KeyWanted(c) \in Triples /\ ~IsHd(KeyWanted(c))
  BY KeyWantedFits
<1>3. new \in CallState /\ new.address = call[c].address /\ new.key = KeyWanted(c) /\ new.at = "attach"
  BY <1>2, CallParts, ZenonT(60) DEF Stays, CallState, Steps
<1>4. ~IsHd(new.address)
  BY <1>1, <1>3, CallParts DEF At
<1> HIDE DEF new
<1> QED BY <1>1, <1>2, <1>3, <1>4, AddWalletKeeps
-------------------------------------------------------------------------------
WalletRow == [xpub : Triples, surprise : Nat, currentIndex : Nat, generatedAddresses : Nat]

Counted(r, i, g) == [r EXCEPT !.currentIndex = i, !.generatedAddresses = g]

LEMMA CountedFits ==
  ASSUME NEW r \in WalletRow, NEW i \in Nat, NEW g \in Nat
  PROVE  /\ Counted(r, i, g) \in WalletRow /\ Counted(r, i, g).xpub = r.xpub
         /\ Counted(r, i, g).surprise = r.surprise /\ Counted(r, i, g).currentIndex = i
         /\ Counted(r, i, g).generatedAddresses = g
<1>1. Counted(r, i, g) \in WalletRow
  BY DEF Counted, WalletRow
<1>2. Counted(r, i, g).xpub = r.xpub /\ Counted(r, i, g).surprise = r.surprise
  BY DEF Counted, WalletRow
<1>3. Counted(r, i, g).currentIndex = i /\ Counted(r, i, g).generatedAddresses = g
  BY DEF Counted, WalletRow
<1> QED BY <1>1, <1>2, <1>3

(* An address is derived and stored: it is the next of its wallet, or the
   schema refuses it. *)
LEMMA StoreKeeps ==
  ASSUME CreationInv, NEW c \in Callers, StoreAddress(c) PROVE CreationInv'
<1>0. TypesInv /\ KeysInv /\ CallsInv /\ IndicesInv /\ HoldersInv
  BY DEF CreationInv
<1> DEFINE key == call[c].key
           index == call[c].index
           address == HdAddress(key, index)
           row == DepositRow(address, index, key)
           new == [Stays(c, "gasFrom") EXCEPT !.address = address, !.key = NoKey, !.index = 0]
<1>1. /\ key \in Triples /\ index \in Nat /\ IsHd(key) /\ call[c] \in CallState /\ At(c, "store")
      /\ address \in Triples /\ IsHd(address)
  <2>1. call[c] \in CallState
    BY CallParts
  <2>2. key \in Triples /\ index \in Nat
    BY <2>1 DEF CallState
  <2> HIDE DEF key, index
  <2> QED BY <2>1, <2>2, Forms DEF StoreAddress, key, index
<1>2. /\ OwnersOf(key) # {} /\ Free(address, index, key)
      /\ deposits' = deposits \cup {row}
      /\ wallet' = [p \in DOMAIN wallet |->
                     IF wallet[p].xpub = key
                     THEN [wallet[p] EXCEPT !.currentIndex = index, !.generatedAddresses = @ + 1]
                     ELSE wallet[p]]
      /\ Goes(c, new) /\ UNCHANGED <<venue, requests, minted>>
  BY DEF StoreAddress
<1>3. /\ new \in CallState /\ new.at = "gasFrom" /\ new.address = address /\ new.key = NoKey /\ ~IsHd(new.key)
  <2>1. NoKey \in Triples /\ ~IsHd(NoKey)
    BY Forms
  <2> HIDE DEF address, key, index
  <2> QED BY <1>1, <2>1 DEF Stays, CallState, Steps
<1>4. row.address = address /\ row.index = index /\ row.xpub = key
      /\ row \in [address : Triples, index : Nat, xpub : Triples]
  <2> HIDE DEF address, key, index
  <2> QED BY <1>1 DEF DepositRow
<1>5. PICK o \in DOMAIN wallet : wallet[o].xpub = key
  BY <1>2 DEF OwnersOf
<1> HIDE DEF address, key, index, row, new
<1>6. /\ call' \in [Callers -> CallState] /\ call'[c] = new /\ \A b \in Callers \ {c} : call'[b] = call[b]
  BY <1>0, <1>2, <1>3 DEF Goes, TypesInv
<1>7. /\ DOMAIN wallet' = DOMAIN wallet
      /\ \A q \in DOMAIN wallet \ {o} : wallet'[q] = wallet[q]
      /\ wallet'[o] = [wallet[o] EXCEPT !.currentIndex = index, !.generatedAddresses = @ + 1]
  BY <1>0, <1>2, <1>5 DEF KeysInv
<1>8. /\ wallet'[o].xpub = key /\ wallet'[o].surprise = wallet[o].surprise /\ wallet'[o].currentIndex = index
      /\ wallet'[o].generatedAddresses = wallet[o].generatedAddresses + 1
      /\ wallet[o].generatedAddresses \in Nat
      /\ wallet'[o] \in WalletRow
  <2>1. wallet[o] \in WalletRow
    BY <1>0 DEF TypesInv, WalletRow
  <2>2. wallet'[o] = Counted(wallet[o], index, wallet[o].generatedAddresses + 1)
    BY <1>7 DEF Counted
  <2>3. wallet[o].generatedAddresses \in Nat
    BY <2>1 DEF WalletRow
  <2> DEFINE g == wallet[o].generatedAddresses + 1
  <2>4. g \in Nat /\ index \in Nat
    BY <1>1, <2>3
  <2> HIDE DEF g
  <2>5. /\ Counted(wallet[o], index, g) \in WalletRow
        /\ Counted(wallet[o], index, g).xpub = wallet[o].xpub
        /\ Counted(wallet[o], index, g).surprise = wallet[o].surprise
        /\ Counted(wallet[o], index, g).currentIndex = index
        /\ Counted(wallet[o], index, g).generatedAddresses = g
    BY <2>1, <2>4, CountedFits
  <2> QED BY <1>5, <2>2, <2>3, <2>5 DEF g
<1>9. TypesInv'
  <2>1. wallet' \in [DOMAIN wallet' -> WalletRow]
    <3>1. \A q \in DOMAIN wallet : wallet'[q] \in WalletRow
      BY <1>0, <1>7, <1>8 DEF TypesInv, WalletRow
    <3> QED BY <1>2, <1>7, <3>1
  <2> QED BY <1>0, <1>2, <1>4, <1>6, <1>7, <2>1 DEF TypesInv, WalletRow
<1>10. KeysInv'
  <2>1. \A q \in DOMAIN wallet : wallet'[q].xpub = wallet[q].xpub /\ wallet'[q].surprise = wallet[q].surprise
    BY <1>5, <1>7, <1>8
  <2>2. \A d \in deposits' : \E p \in DOMAIN wallet' : wallet'[p].xpub = d.xpub
    <3>1. \A d \in deposits' : \E p \in DOMAIN wallet : wallet[p].xpub = d.xpub
      BY <1>0, <1>2, <1>4, <1>5 DEF KeysInv
    <3> QED BY <1>7, <2>1, <3>1
  <2>3. \A d, e \in deposits' : d.address = e.address => d = e
    BY <1>0, <1>2, <1>4 DEF KeysInv, Free
  <2>4. \A d \in deposits' : IsHd(d.address) =>
       d.xpub[1] = "kucoin" \/ (IsHd(d.xpub) /\ d.address = HdAddress(d.xpub, d.index))
    BY <1>0, <1>1, <1>2, <1>4 DEF KeysInv, address
  <2>5. \A q, r \in DOMAIN wallet' : wallet'[q].xpub = wallet'[r].xpub => q = r
    BY <1>0, <1>7, <2>1 DEF KeysInv
  <2>6. \A q \in DOMAIN wallet' :
          IF IsHd(wallet'[q].xpub)
          THEN wallet'[q].surprise \in 1..minted' /\ wallet'[q].xpub[2] = wallet'[q].surprise
          ELSE wallet'[q].surprise = 0
    <3>1. \A q \in DOMAIN wallet :
            IF IsHd(wallet[q].xpub)
            THEN wallet[q].surprise \in 1..minted /\ wallet[q].xpub[2] = wallet[q].surprise
            ELSE wallet[q].surprise = 0
      BY <1>0 DEF KeysInv
    <3> QED BY <1>2, <1>7, <2>1, <3>1, ZenonT(60)
  <2> QED BY <2>2, <2>3, <2>4, <2>5, <2>6 DEF KeysInv, IsHd
<1>11. \A q \in DOMAIN wallet : Derives(wallet[q])' => Derives(wallet[q])
  <2>1. \A q \in DOMAIN wallet : wallet'[q].xpub = wallet[q].xpub
    BY <1>5, <1>7, <1>8
  <2> QED BY <1>2, <2>1 DEF Derives, OwnOf, IsHd
<1>12. CallsInv'
  <2> SUFFICES ASSUME NEW b \in Callers
               PROVE  /\ IsHd(call'[b].key) => call'[b].key[2] \in Nat /\ call'[b].key[2] <= minted
                      /\ call'[b].at = "migrate" => call'[b].source = "KUCOIN"
                      /\ call'[b].at \in {"attachTo", "newWallet", "migrate", "attach"} => ~IsHd(call'[b].address)
                      /\ \A q \in DOMAIN wallet : wallet'[q].xpub = call'[b].key /\ Derives(wallet[q])' =>
                           /\ call'[b].at = "store" => call'[b].index <= wallet'[q].generatedAddresses
                           /\ call'[b].at # "count"
    BY <1>2, <1>7 DEF CallsInv, At, IsHd, Derives, OwnOf
  <2>1. CASE b = c
    BY <1>3, <1>6, <2>1 DEF Derives, IsHd
  <2>2. CASE b # c
    <3>1. \A q \in DOMAIN wallet : wallet[q].xpub = call[b].key /\ Derives(wallet[q]) =>
                           /\ call[b].at = "store" => call[b].index <= wallet[q].generatedAddresses
                           /\ call[b].at # "count"
      BY <1>0 DEF CallsInv, At
    <3>2. /\ IsHd(call[b].key) => call[b].key[2] \in Nat /\ call[b].key[2] <= minted
          /\ call[b].at = "migrate" => call[b].source = "KUCOIN"
          /\ call[b].at \in {"attachTo", "newWallet", "migrate", "attach"} => ~IsHd(call[b].address)
          /\ call'[b] = call[b] /\ call[b].index \in Nat
      BY <1>0, <1>6, <2>2 DEF CallsInv, At, TypesInv, CallState
    <3>3. \A q \in DOMAIN wallet : wallet'[q].xpub = wallet[q].xpub
            /\ wallet[q].generatedAddresses \in Nat /\ wallet'[q].generatedAddresses \in Nat
            /\ wallet[q].generatedAddresses <= wallet'[q].generatedAddresses
      <4>1. \A q \in DOMAIN wallet : wallet[q].generatedAddresses \in Nat
        BY <1>0 DEF TypesInv
      <4>2. \A q \in DOMAIN wallet \ {o} : wallet'[q] = wallet[q]
        BY <1>7
      <4>3. wallet'[o].xpub = wallet[o].xpub /\ wallet'[o].generatedAddresses = wallet[o].generatedAddresses + 1
        BY <1>5, <1>8
      <4> QED BY <4>1, <4>2, <4>3
    <3> QED BY <1>11, <3>1, <3>2, <3>3
  <2> QED BY <2>1, <2>2
<1>13. IndicesInv'
  <2> SUFFICES ASSUME NEW q \in DOMAIN wallet, Derives(wallet[q])'
               PROVE  /\ {d.index : d \in OwnOf(wallet[q].xpub)'} = 0..(wallet'[q].generatedAddresses - 1)
                      /\ wallet'[q].generatedAddresses > 0 =>
                           wallet'[q].currentIndex = wallet'[q].generatedAddresses - 1
    BY <1>7 DEF IndicesInv, Derives, OwnOf, IsHd
  <2>1. Derives(wallet[q])
    BY <1>11
  <2>2. /\ {d.index : d \in OwnOf(wallet[q].xpub)} = 0..(wallet[q].generatedAddresses - 1)
        /\ wallet[q].generatedAddresses > 0 => wallet[q].currentIndex = wallet[q].generatedAddresses - 1
    BY <1>0, <2>1 DEF IndicesInv
  <2>3. CASE q = o
    <3>1. index <= wallet[o].generatedAddresses
      BY <1>0, <1>1, <1>5, <2>1, <2>3 DEF CallsInv, key, index
    <3>2. index \notin {d.index : d \in OwnOf(key)}
      BY <1>2 DEF Free, OwnOf
    <3>3. index = wallet[o].generatedAddresses
      <4>1. index \notin 0..(wallet[o].generatedAddresses - 1)
        BY <1>5, <2>2, <2>3, <3>2
      <4> QED BY <1>1, <1>8, <3>1, <4>1
    <3>4. OwnOf(wallet[q].xpub)' = OwnOf(key) \cup {row}
      BY <1>2, <1>4, <1>8, <2>3 DEF OwnOf
    <3>5. {d.index : d \in OwnOf(wallet[q].xpub)'} = 0..(wallet[o].generatedAddresses - 1) \cup {wallet[o].generatedAddresses}
      BY <1>4, <1>5, <2>2, <2>3, <3>3, <3>4
    <3>6. 0..(wallet[o].generatedAddresses - 1) \cup {wallet[o].generatedAddresses}
            = 0..(wallet'[o].generatedAddresses - 1)
      BY <1>8
    <3> QED BY <1>8, <2>3, <3>3, <3>5, <3>6
  <2>4. CASE q # o
    <3>1. wallet'[q] = wallet[q] /\ wallet[q].xpub # key
      BY <1>0, <1>5, <1>7, <2>4 DEF KeysInv
    <3>2. OwnOf(wallet[q].xpub)' = OwnOf(wallet[q].xpub)
      BY <1>2, <1>4, <3>1 DEF OwnOf
    <3> QED BY <2>2, <3>1, <3>2
  <2> QED BY <2>3, <2>4
<1>14. HoldersInv'
  <2>1. \A d \in deposits : d.address # address
    BY <1>2 DEF Free
  <2>2. /\ \A b \in Callers : call[b].address # address
        /\ \A i \in DOMAIN requests : requests[i].address # address
    BY <1>0, <1>1, <2>1 DEF HoldersInv
  <2>3. /\ deposits \subseteq deposits' /\ row \in deposits' /\ row.address = address /\ requests' = requests
        /\ call'[c].address = address /\ \A b \in Callers \ {c} : call'[b].address = call[b].address
    BY <1>2, <1>3, <1>4, <1>6
  <2> QED BY <1>0, <2>2, <2>3 DEF HoldersInv, HdAddressesAreOwn, IsHd
<1> QED BY <1>9, <1>10, <1>12, <1>13, <1>14 DEF CreationInv

Turned(r, key) == [r EXCEPT !.xpub = key, !.surprise = 0]

LEMMA TurnedFits ==
  ASSUME NEW r \in WalletRow, NEW key \in Triples
  PROVE  Turned(r, key) \in WalletRow /\ Turned(r, key).xpub = key /\ Turned(r, key).surprise = 0
<1>1. Turned(r, key) \in WalletRow
  BY DEF Turned, WalletRow
<1>2. Turned(r, key).xpub = key /\ Turned(r, key).surprise = 0
  BY DEF Turned, WalletRow
<1> QED BY <1>1, <1>2

(* A wallet becomes KuCoin's, and its addresses follow it. *)
LEMMA MigrateKeeps ==
  ASSUME CreationInv, NEW c \in Callers, MigrateWallet(c), call[c].from \in Pairs PROVE CreationInv'
<1>0. TypesInv /\ KeysInv /\ CallsInv /\ IndicesInv /\ HoldersInv
  BY DEF CreationInv
<1> DEFINE old == call[c].key
           key == KeyWanted(c)
           new == [Stays(c, "attach") EXCEPT !.key = key]
           Follow(d) == IF d.xpub = old THEN [d EXCEPT !.xpub = key] ELSE d
<1>1. /\ key \in Triples /\ key[1] = "kucoin" /\ ~IsHd(key) /\ call[c] \in CallState /\ At(c, "migrate")
      /\ ~IsHd(call[c].address)
  <2>1. At(c, "migrate")
    BY DEF MigrateWallet
  <2>2. call[c] \in CallState /\ call[c].source = "KUCOIN" /\ ~IsHd(call[c].address)
    BY <2>1, CallParts DEF At
  <2> QED BY <2>1, <2>2, KeyWantedFits
<1>2. /\ OwnersOf(old) # {} /\ OwnersOf(key) = {}
      /\ wallet' = [p \in DOMAIN wallet |->
                     IF wallet[p].xpub = old THEN [wallet[p] EXCEPT !.xpub = key, !.surprise = 0]
                                             ELSE wallet[p]]
      /\ deposits' = {Follow(d) : d \in deposits}
      /\ Goes(c, new) /\ UNCHANGED <<venue, requests, minted>>
  BY DEF MigrateWallet
<1>3. new \in CallState /\ new.at = "attach" /\ new.key = key /\ new.address = call[c].address
  <2> HIDE DEF key
  <2> QED BY <1>1 DEF Stays, CallState, Steps
<1>4. PICK o \in DOMAIN wallet : wallet[o].xpub = old
  BY <1>2 DEF OwnersOf
<1>5. \A q \in DOMAIN wallet : wallet[q].xpub # key
  BY <1>2 DEF OwnersOf
<1>6. ASSUME NEW d \in deposits
      PROVE  /\ Follow(d) \in [address : Triples, index : Nat, xpub : Triples]
             /\ Follow(d).address = d.address /\ Follow(d).index = d.index
             /\ d.xpub = old => Follow(d).xpub = key
             /\ d.xpub # old => Follow(d) = d
  <2>1. d \in [address : Triples, index : Nat, xpub : Triples]
    BY <1>0 DEF TypesInv
  <2> HIDE DEF key, old
  <2> QED BY <1>1, <2>1
<1> HIDE DEF old, key, new, Follow
<1>7. /\ call' \in [Callers -> CallState] /\ call'[c] = new /\ \A b \in Callers \ {c} : call'[b] = call[b]
  BY <1>0, <1>2, <1>3 DEF Goes, TypesInv
<1>8. /\ DOMAIN wallet' = DOMAIN wallet
      /\ \A q \in DOMAIN wallet \ {o} : wallet'[q] = wallet[q] /\ wallet[q].xpub # old
      /\ wallet'[o] = [wallet[o] EXCEPT !.xpub = key, !.surprise = 0]
  BY <1>0, <1>2, <1>4 DEF KeysInv
<1>9. wallet'[o].xpub = key /\ wallet'[o].surprise = 0 /\ wallet'[o] \in WalletRow
  <2>1. wallet[o] \in WalletRow
    BY <1>0 DEF TypesInv, WalletRow
  <2>2. wallet'[o] = Turned(wallet[o], key)
    BY <1>8 DEF Turned
  <2> QED BY <1>1, <2>1, <2>2, TurnedFits
<1>10. /\ \A d \in deposits' : \E x \in deposits : d = Follow(x)
       /\ \A x \in deposits : Follow(x) \in deposits'
  BY <1>2
<1>11. TypesInv'
  <2>1. wallet' \in [DOMAIN wallet' -> WalletRow]
    <3>1. \A q \in DOMAIN wallet : wallet'[q] \in WalletRow
      BY <1>0, <1>8, <1>9 DEF TypesInv, WalletRow
    <3> QED BY <1>2, <1>8, <3>1
  <2>2. deposits' \subseteq [address : Triples, index : Nat, xpub : Triples]
    BY <1>6, <1>10
  <2> QED BY <1>0, <1>2, <1>7, <1>8, <2>1, <2>2 DEF TypesInv, WalletRow
<1>12. KeysInv'
  <2>1. \A q, r \in DOMAIN wallet' : wallet'[q].xpub = wallet'[r].xpub => q = r
    <3>1. \A q \in DOMAIN wallet : q # o => wallet'[q].xpub = wallet[q].xpub /\ wallet'[q].xpub # key
      BY <1>5, <1>8
    <3>2. \A q, r \in DOMAIN wallet : wallet[q].xpub = wallet[r].xpub => q = r
      BY <1>0 DEF KeysInv
    <3> QED BY <1>8, <1>9, <3>1, <3>2
  <2>2. \A q \in DOMAIN wallet' :
          IF IsHd(wallet'[q].xpub)
          THEN wallet'[q].surprise \in 1..minted' /\ wallet'[q].xpub[2] = wallet'[q].surprise
          ELSE wallet'[q].surprise = 0
    <3>1. \A q \in DOMAIN wallet :
            IF IsHd(wallet[q].xpub)
            THEN wallet[q].surprise \in 1..minted /\ wallet[q].xpub[2] = wallet[q].surprise
            ELSE wallet[q].surprise = 0
      BY <1>0 DEF KeysInv
    <3>2. ~IsHd(wallet'[o].xpub) /\ wallet'[o].surprise = 0
      BY <1>1, <1>9
    <3>3. \A q \in DOMAIN wallet : q # o => wallet'[q] = wallet[q]
      BY <1>8
    <3>4. DOMAIN wallet' = DOMAIN wallet /\ minted' = minted
      BY <1>2, <1>8
    <3> QED BY <3>1, <3>2, <3>3, <3>4
  <2>3. \A d \in deposits' : \E q \in DOMAIN wallet' : wallet'[q].xpub = d.xpub
    <3> SUFFICES ASSUME NEW x \in deposits PROVE \E q \in DOMAIN wallet' : wallet'[q].xpub = Follow(x).xpub
      BY <1>10
    <3>1. CASE x.xpub = old
      BY <1>4, <1>6, <1>8, <1>9, <3>1
    <3>2. CASE x.xpub # old
      <4>1. PICK q \in DOMAIN wallet : wallet[q].xpub = x.xpub
        BY <1>0 DEF KeysInv
      <4>2. wallet'[q] = wallet[q] /\ Follow(x) = x
        BY <1>4, <1>6, <1>8, <3>2, <4>1
      <4> QED BY <1>8, <4>1, <4>2
    <3> QED BY <3>1, <3>2
  <2>4. \A d, e \in deposits' : d.address = e.address => d = e
    <3> SUFFICES ASSUME NEW x \in deposits, NEW y \in deposits, Follow(x).address = Follow(y).address
                 PROVE  Follow(x) = Follow(y)
      BY <1>10
    <3>1. x = y
      BY <1>0, <1>6 DEF KeysInv
    <3> QED BY <3>1
  <2>5. \A d \in deposits' : IsHd(d.address) =>
       d.xpub[1] = "kucoin" \/ (IsHd(d.xpub) /\ d.address = HdAddress(d.xpub, d.index))
    <3> SUFFICES ASSUME NEW x \in deposits, IsHd(Follow(x).address)
                 PROVE  Follow(x).xpub[1] = "kucoin"
                          \/ (IsHd(Follow(x).xpub) /\ Follow(x).address = HdAddress(Follow(x).xpub, Follow(x).index))
      BY <1>10
    <3> QED BY <1>0, <1>1, <1>6 DEF KeysInv
  <2> QED BY <2>1, <2>2, <2>3, <2>4, <2>5 DEF KeysInv, IsHd
<1>13. ASSUME NEW q \in DOMAIN wallet, Derives(wallet[q])'
       PROVE  /\ Derives(wallet[q]) /\ wallet'[q] = wallet[q]
              /\ OwnOf(wallet[q].xpub)' = OwnOf(wallet[q].xpub)
  <2>1. q # o
    BY <1>1, <1>9, <1>13 DEF Derives, IsHd
  <2>2. wallet'[q] = wallet[q] /\ wallet[q].xpub # old /\ wallet[q].xpub # key
    BY <1>5, <1>8, <2>1
  <2>3. OwnOf(wallet[q].xpub)' = OwnOf(wallet[q].xpub)
    <3>1. ASSUME NEW x \in deposits PROVE Follow(x).xpub = wallet[q].xpub <=> x.xpub = wallet[q].xpub
      BY <1>6, <2>2
    <3>2. ASSUME NEW x \in deposits, x.xpub = wallet[q].xpub PROVE Follow(x) = x
      BY <1>6, <2>2, <3>2
    <3> QED BY <1>10, <2>2, <3>1, <3>2 DEF OwnOf
  <2> QED BY <1>13, <2>2, <2>3 DEF Derives, IsHd
<1>14. CallsInv'
  <2> SUFFICES ASSUME NEW b \in Callers
               PROVE  /\ IsHd(call'[b].key) => call'[b].key[2] \in Nat /\ call'[b].key[2] <= minted
                      /\ call'[b].at = "migrate" => call'[b].source = "KUCOIN"
                      /\ call'[b].at \in {"attachTo", "newWallet", "migrate", "attach"} => ~IsHd(call'[b].address)
                      /\ \A q \in DOMAIN wallet : wallet'[q].xpub = call'[b].key /\ Derives(wallet[q])' =>
                           /\ call'[b].at = "store" => call'[b].index <= wallet'[q].generatedAddresses
                           /\ call'[b].at # "count"
    BY <1>2, <1>8 DEF CallsInv, At, IsHd, Derives, OwnOf
  <2>1. CASE b = c
    BY <1>1, <1>3, <1>7, <2>1
  <2>2. CASE b # c
    BY <1>0, <1>7, <1>13, <2>2 DEF CallsInv, At
  <2> QED BY <2>1, <2>2
<1>15. IndicesInv'
  <2> SUFFICES ASSUME NEW q \in DOMAIN wallet, Derives(wallet[q])'
               PROVE  /\ {d.index : d \in OwnOf(wallet[q].xpub)'} = 0..(wallet'[q].generatedAddresses - 1)
                      /\ wallet'[q].generatedAddresses > 0 =>
                           wallet'[q].currentIndex = wallet'[q].generatedAddresses - 1
    BY <1>8 DEF IndicesInv, Derives, OwnOf, IsHd
  <2>1. /\ {d.index : d \in OwnOf(wallet[q].xpub)} = 0..(wallet[q].generatedAddresses - 1)
        /\ wallet[q].generatedAddresses > 0 => wallet[q].currentIndex = wallet[q].generatedAddresses - 1
    BY <1>0, <1>13 DEF IndicesInv
  <2> QED BY <1>13, <2>1
<1>16. HoldersInv'
  <2>1. \A x \in deposits : \E d \in deposits' : d.address = x.address
    BY <1>6, <1>10
  <2>2. \A b \in Callers : call'[b].address = call[b].address
    BY <1>3, <1>7
  <2>3. UNCHANGED requests
    BY <1>2
  <2> QED BY <1>0, <2>1, <2>2, <2>3 DEF HoldersInv, HdAddressesAreOwn, IsHd
<1> QED BY <1>11, <1>12, <1>14, <1>15, <1>16 DEF CreationInv

(* An address of the exchange is put under a wallet, which derives no more. *)
LEMMA AttachKeeps ==
  ASSUME CreationInv, NEW c \in Callers, AttachAddress(c) PROVE CreationInv'
<1>0. TypesInv /\ KeysInv /\ CallsInv /\ IndicesInv /\ HoldersInv
  BY DEF CreationInv
<1> DEFINE key == call[c].key
           address == call[c].address
           row == DepositRow(address, 0, key)
           new == Stays(c, "count")
<1>1. call[c] \in CallState /\ At(c, "attach") /\ key \in Triples /\ address \in Triples /\ ~IsHd(address)
      /\ (IsHd(key) => key[2] \in Nat /\ key[2] <= minted)
  <2>1. At(c, "attach")
    BY DEF AttachAddress
  <2>2. call[c] \in CallState /\ ~IsHd(address) /\ (IsHd(key) => key[2] \in Nat /\ key[2] <= minted)
    BY <2>1, CallParts DEF At
  <2> QED BY <2>1, <2>2 DEF CallState
<1>2. /\ OwnersOf(key) # {} /\ Free(address, 0, key) /\ deposits' = deposits \cup {row}
      /\ Goes(c, new) /\ UNCHANGED <<venue, wallet, requests, minted>>
  BY DEF AttachAddress
<1>3. new \in CallState /\ new.at = "count" /\ new.key = key /\ new.address = address
  BY <1>1 DEF Stays, CallState, Steps
<1>4. row.address = address /\ row.index = 0 /\ row.xpub = key
      /\ row \in [address : Triples, index : Nat, xpub : Triples]
  <2> HIDE DEF address, key
  <2> QED BY <1>1 DEF DepositRow
<1> HIDE DEF key, address, row, new
<1>5. /\ call' \in [Callers -> CallState] /\ call'[c] = new /\ \A b \in Callers \ {c} : call'[b] = call[b]
  BY <1>0, <1>2, <1>3 DEF Goes, TypesInv
<1>6. TypesInv'
  BY <1>0, <1>2, <1>4, <1>5 DEF TypesInv
<1>7. KeysInv'
  <2>1. \A d \in deposits' : \E p \in DOMAIN wallet : wallet[p].xpub = d.xpub
    BY <1>0, <1>2, <1>4 DEF KeysInv, OwnersOf
  <2>2. \A d, e \in deposits' : d.address = e.address => d = e
    BY <1>0, <1>2, <1>4 DEF KeysInv, Free
  <2>3. \A d \in deposits' : IsHd(d.address) =>
       d.xpub[1] = "kucoin" \/ (IsHd(d.xpub) /\ d.address = HdAddress(d.xpub, d.index))
    BY <1>0, <1>1, <1>2, <1>4 DEF KeysInv
  <2> QED BY <1>0, <1>2, <2>1, <2>2, <2>3 DEF KeysInv, IsHd
<1>8. ASSUME NEW q \in DOMAIN wallet, Derives(wallet[q])'
      PROVE  /\ Derives(wallet[q]) /\ wallet[q].xpub # key
             /\ OwnOf(wallet[q].xpub)' = OwnOf(wallet[q].xpub)
  <2>1. wallet[q].xpub # key
    BY <1>1, <1>2, <1>4, <1>8 DEF Derives, OwnOf, IsHd
  <2>2. OwnOf(wallet[q].xpub)' = OwnOf(wallet[q].xpub)
    BY <1>2, <1>4, <2>1 DEF OwnOf
  <2> QED BY <1>2, <1>8, <2>1, <2>2 DEF Derives, IsHd
<1>9. CallsInv'
  <2> SUFFICES ASSUME NEW b \in Callers
               PROVE  /\ IsHd(call'[b].key) => call'[b].key[2] \in Nat /\ call'[b].key[2] <= minted
                      /\ call'[b].at = "migrate" => call'[b].source = "KUCOIN"
                      /\ call'[b].at \in {"attachTo", "newWallet", "migrate", "attach"} => ~IsHd(call'[b].address)
                      /\ \A q \in DOMAIN wallet : wallet[q].xpub = call'[b].key /\ Derives(wallet[q])' =>
                           /\ call'[b].at = "store" => call'[b].index <= wallet[q].generatedAddresses
                           /\ call'[b].at # "count"
    BY <1>2 DEF CallsInv, At, IsHd, Derives, OwnOf
  <2>1. CASE b = c
    BY <1>1, <1>3, <1>5, <1>8, <2>1
  <2>2. CASE b # c
    BY <1>0, <1>5, <1>8, <2>2 DEF CallsInv, At
  <2> QED BY <2>1, <2>2
<1>10. IndicesInv'
  <2> SUFFICES ASSUME NEW q \in DOMAIN wallet, Derives(wallet[q])'
               PROVE  /\ {d.index : d \in OwnOf(wallet[q].xpub)'} = 0..(wallet[q].generatedAddresses - 1)
                      /\ wallet[q].generatedAddresses > 0 =>
                           wallet[q].currentIndex = wallet[q].generatedAddresses - 1
    BY <1>2 DEF IndicesInv, Derives, OwnOf, IsHd
  <2> QED BY <1>0, <1>8 DEF IndicesInv
<1>11. HoldersInv'
  <2>1. \A b \in Callers : call'[b].address = call[b].address
    BY <1>3, <1>5 DEF address
  <2>2. deposits \subseteq deposits' /\ requests' = requests
    BY <1>2
  <2> QED BY <1>0, <2>1, <2>2 DEF HoldersInv, HdAddressesAreOwn, IsHd
<1> QED BY <1>6, <1>7, <1>9, <1>10, <1>11 DEF CreationInv

(* The counter of a wallet an exchange's address was put under: it does not
   derive any more. *)
LEMMA CountKeeps ==
  ASSUME CreationInv, NEW c \in Callers, CountAddress(c) PROVE CreationInv'
<1>0. TypesInv /\ KeysInv /\ CallsInv /\ IndicesInv /\ HoldersInv
  BY DEF CreationInv
<1> DEFINE key == call[c].key
           new == [Stays(c, "gasTo") EXCEPT !.key = NoKey]
           More(r) == [r EXCEPT !.generatedAddresses = @ + 1]
<1>1. /\ call[c] \in CallState /\ At(c, "count")
      /\ \A q \in DOMAIN wallet : wallet[q].xpub = key => ~Derives(wallet[q])
  BY CallParts DEF CountAddress, At
<1>2. /\ wallet' = [p \in DOMAIN wallet |-> IF wallet[p].xpub = key THEN More(wallet[p]) ELSE wallet[p]]
      /\ Goes(c, new) /\ UNCHANGED <<venue, deposits, requests, minted>>
  BY DEF CountAddress
<1>3. new \in CallState /\ new.at = "gasTo" /\ ~IsHd(new.key) /\ new.address = call[c].address
  BY <1>1, Forms DEF Stays, CallState, Steps
<1>4. ASSUME NEW q \in DOMAIN wallet
      PROVE  /\ wallet'[q] \in WalletRow
             /\ wallet'[q].xpub = wallet[q].xpub /\ wallet'[q].surprise = wallet[q].surprise
             /\ Derives(wallet[q]) => wallet'[q] = wallet[q]
  <2>1. wallet[q] \in WalletRow
    BY <1>0 DEF TypesInv, WalletRow
  <2>2. More(wallet[q]) \in WalletRow /\ More(wallet[q]).xpub = wallet[q].xpub
        /\ More(wallet[q]).surprise = wallet[q].surprise
    BY <2>1 DEF WalletRow
  <2> HIDE DEF More, key
  <2> QED BY <1>1, <1>2, <2>1, <2>2
<1>5. DOMAIN wallet' = DOMAIN wallet
  BY <1>2
<1> HIDE DEF key, new, More
<1>6. /\ call' \in [Callers -> CallState] /\ call'[c] = new /\ \A b \in Callers \ {c} : call'[b] = call[b]
  BY <1>0, <1>2, <1>3 DEF Goes, TypesInv
<1>7. TypesInv'
  <2>1. wallet' \in [DOMAIN wallet' -> WalletRow]
    BY <1>2, <1>4, <1>5
  <2> QED BY <1>0, <1>2, <1>5, <1>6, <2>1 DEF TypesInv, WalletRow
<1>8. KeysInv'
  <2>1. \A q, r \in DOMAIN wallet' : wallet'[q].xpub = wallet'[r].xpub => q = r
    BY <1>0, <1>4, <1>5 DEF KeysInv
  <2>2. \A q \in DOMAIN wallet' :
          IF IsHd(wallet'[q].xpub)
          THEN wallet'[q].surprise \in 1..minted' /\ wallet'[q].xpub[2] = wallet'[q].surprise
          ELSE wallet'[q].surprise = 0
    BY <1>0, <1>2, <1>4, <1>5 DEF KeysInv
  <2>3. \A d \in deposits : \E q \in DOMAIN wallet' : wallet'[q].xpub = d.xpub
    BY <1>0, <1>4, <1>5 DEF KeysInv
  <2> QED BY <1>0, <1>2, <2>1, <2>2, <2>3 DEF KeysInv, IsHd
<1>9. ASSUME NEW q \in DOMAIN wallet
      PROVE  /\ Derives(wallet[q])' => Derives(wallet[q])
             /\ OwnOf(wallet[q].xpub)' = OwnOf(wallet[q].xpub)
  BY <1>2, <1>4 DEF Derives, OwnOf, IsHd
<1>10. CallsInv'
  <2> SUFFICES ASSUME NEW b \in Callers
               PROVE  /\ IsHd(call'[b].key) => call'[b].key[2] \in Nat /\ call'[b].key[2] <= minted
                      /\ call'[b].at = "migrate" => call'[b].source = "KUCOIN"
                      /\ call'[b].at \in {"attachTo", "newWallet", "migrate", "attach"} => ~IsHd(call'[b].address)
                      /\ \A q \in DOMAIN wallet : wallet'[q].xpub = call'[b].key /\ Derives(wallet[q])' =>
                           /\ call'[b].at = "store" => call'[b].index <= wallet'[q].generatedAddresses
                           /\ call'[b].at # "count"
    BY <1>2, <1>5 DEF CallsInv, At, IsHd, Derives, OwnOf
  <2>1. CASE b = c
    BY <1>3, <1>6, <2>1
  <2>2. CASE b # c
    BY <1>0, <1>4, <1>6, <1>9, <2>2 DEF CallsInv, At
  <2> QED BY <2>1, <2>2
<1>11. IndicesInv'
  <2> SUFFICES ASSUME NEW q \in DOMAIN wallet, Derives(wallet[q])'
               PROVE  /\ {d.index : d \in OwnOf(wallet[q].xpub)'} = 0..(wallet'[q].generatedAddresses - 1)
                      /\ wallet'[q].generatedAddresses > 0 =>
                           wallet'[q].currentIndex = wallet'[q].generatedAddresses - 1
    BY <1>5 DEF IndicesInv, Derives, OwnOf, IsHd
  <2> QED BY <1>0, <1>4, <1>9 DEF IndicesInv
<1>12. HoldersInv'
  <2>1. \A b \in Callers : call'[b].address = call[b].address
    BY <1>3, <1>6
  <2> QED BY <1>0, <1>2, <2>1 DEF HoldersInv, HdAddressesAreOwn, IsHd
<1> QED BY <1>7, <1>8, <1>10, <1>11, <1>12 DEF CreationInv

(* The row takes the address over from the call that created it. *)
LEMMA CreateKeeps ==
  ASSUME CreationInv, NEW c \in Callers, CreateRow(c) PROVE CreationInv'
<1>0. TypesInv /\ KeysInv /\ CallsInv /\ IndicesInv /\ HoldersInv
  BY DEF CreationInv
<1> DEFINE row == [pair |-> call[c].from, address |-> call[c].address, order |-> call[c].order,
                   fromAmount |-> call[c].amount, toAmount |-> call[c].quoted, feeAmount |-> call[c].fee]
<1>1. requests' = Append(requests, row) /\ Goes(c, Idle) /\ UNCHANGED <<venue, wallet, deposits, minted>>
  BY DEF CreateRow
<1>2. row \in RequestRow /\ row.address = call[c].address
  BY CallParts DEF RequestRow, CallState
<1> HIDE DEF row
<1>3. /\ call' \in [Callers -> CallState] /\ call'[c] = Idle /\ \A b \in Callers \ {c} : call'[b] = call[b]
  BY <1>0, <1>1, IdleFits DEF Goes, TypesInv
<1>4. /\ requests' \in Seq(RequestRow) /\ Len(requests) \in Nat /\ DOMAIN requests = 1..Len(requests)
      /\ DOMAIN requests' = DOMAIN requests \cup {Len(requests) + 1}
      /\ requests'[Len(requests) + 1] = row /\ \A i \in DOMAIN requests : requests'[i] = requests[i]
  BY <1>0, <1>1, <1>2 DEF TypesInv
<1>5. TypesInv'
  BY <1>0, <1>1, <1>3, <1>4 DEF TypesInv
<1>6. KeysInv'
  BY <1>0, <1>1 DEF KeysInv
<1>7. CallsInv'
  <2> SUFFICES ASSUME NEW b \in Callers
               PROVE  /\ IsHd(call'[b].key) => call'[b].key[2] \in Nat /\ call'[b].key[2] <= minted
                      /\ call'[b].at = "migrate" => call'[b].source = "KUCOIN"
                      /\ call'[b].at \in {"attachTo", "newWallet", "migrate", "attach"} => ~IsHd(call'[b].address)
                      /\ \A q \in DOMAIN wallet : wallet[q].xpub = call'[b].key /\ Derives(wallet[q]) =>
                           /\ call'[b].at = "store" => call'[b].index <= wallet[q].generatedAddresses
                           /\ call'[b].at # "count"
    BY <1>1 DEF CallsInv, At, IsHd, Derives, OwnOf
  <2>1. CASE b = c
    BY <1>3, <2>1, IdleFits
  <2>2. CASE b # c
    BY <1>0, <1>3, <2>2 DEF CallsInv, At
  <2> QED BY <2>1, <2>2
<1>8. IndicesInv'
  BY <1>0, <1>1 DEF IndicesInv, Derives, OwnOf
<1>9. HoldersInv'
  <2>1. ~IsHd(call'[c].address)
    BY <1>3, IdleFits
  <2>2. /\ \A b \in Callers : IsHd(call'[b].address) =>
            /\ \E d \in deposits' : d.address = call'[b].address
            /\ \A a \in Callers : call'[a].address = call'[b].address => a = b
            /\ \A i \in DOMAIN requests' : requests'[i].address # call'[b].address
    <3> SUFFICES ASSUME NEW b \in Callers, IsHd(call'[b].address)
                 PROVE  /\ \E d \in deposits' : d.address = call'[b].address
                        /\ \A a \in Callers : call'[a].address = call'[b].address => a = b
                        /\ \A i \in DOMAIN requests' : requests'[i].address # call'[b].address
      OBVIOUS
    <3>1. b # c /\ call'[b] = call[b]
      BY <1>3, <2>1
    <3>2. \E d \in deposits' : d.address = call'[b].address
      BY <1>0, <1>1, <3>1 DEF HoldersInv
    <3>3. \A a \in Callers : call'[a].address = call'[b].address => a = b
      BY <1>0, <1>3, <2>1, <3>1 DEF HoldersInv
    <3>4. \A i \in DOMAIN requests' : requests'[i].address # call'[b].address
      BY <1>0, <1>2, <1>4, <3>1 DEF HoldersInv
    <3> QED BY <3>2, <3>3, <3>4
  <2>3. \A i \in DOMAIN requests' : IsHd(requests'[i].address) =>
          \E d \in deposits' : d.address = requests'[i].address
    BY <1>0, <1>1, <1>2, <1>4 DEF HoldersInv
  <2>4. HdAddressesAreOwn'
    <3>1. \A i \in DOMAIN requests : IsHd(row.address) => requests[i].address # row.address
      BY <1>0, <1>2 DEF HoldersInv
    <3>2. \A i, j \in DOMAIN requests :
            i # j /\ IsHd(requests[i].address) => requests[i].address # requests[j].address
      BY <1>0 DEF HoldersInv, HdAddressesAreOwn
    <3>3. \A i, j \in DOMAIN requests' :
            i # j /\ IsHd(requests'[i].address) => requests'[i].address # requests'[j].address
      BY <1>4, <3>1, <3>2
    <3> QED BY <3>3 DEF HdAddressesAreOwn, IsHd
  <2> QED BY <2>2, <2>3, <2>4 DEF HoldersInv, IsHd
<1> QED BY <1>5, <1>6, <1>7, <1>8, <1>9 DEF CreationInv
-------------------------------------------------------------------------------
(* The operator and the exchange. *)
LEMMA VenueKeeps ==
  ASSUME CreationInv, NEW p \in Pairs, VenueChanges(p) PROVE CreationInv'
<1>1. UNCHANGED <<wallet, deposits, requests, call, minted>>
  BY DEF VenueChanges
<1>2. venue \in [Pairs -> [code : 0..1, address : 0..1]]
  BY DEF CreationInv, TypesInv
<1>3. venue' \in [Pairs -> [code : 0..1, address : 0..1]]
  <2> DEFINE coded   == [venue[p] EXCEPT !.code = 1 - @]
             renewed == [venue[p] EXCEPT !.address = 1 - @]
  <2>1. coded \in [code : 0..1, address : 0..1] /\ renewed \in [code : 0..1, address : 0..1]
    <3>1. venue[p] \in [code : 0..1, address : 0..1]
      BY <1>2
    <3>2. 1 - venue[p].code \in 0..1 /\ 1 - venue[p].address \in 0..1
      BY <3>1
    <3> QED BY <3>1, <3>2
  <2>2. venue' = [venue EXCEPT ![p] = coded] \/ venue' = [venue EXCEPT ![p] = renewed]
    BY DEF VenueChanges
  <2> HIDE DEF coded, renewed
  <2> QED BY <1>2, <2>1, <2>2
<1>4. TypesInv'
  BY <1>1, <1>3 DEF CreationInv, TypesInv
<1> QED BY <1>1, <1>4 DEF CreationInv, KeysInv, CallsInv, IndicesInv, HoldersInv,
     HdAddressesAreOwn, Derives, OwnOf, At, IsHd

LEMMA ProviderKeeps == ASSUME CreationInv, ProviderChanges PROVE CreationInv'
<1>1. /\ UNCHANGED <<venue, wallet, deposits, requests, minted>>
      /\ call' \in [Callers -> CallState] /\ \A c \in Callers : call'[c] = Idle
  BY IdleFits DEF ProviderChanges
<1>2. TypesInv' /\ KeysInv'
  BY <1>1 DEF CreationInv, TypesInv, KeysInv
<1>3. CallsInv'
  BY <1>1, IdleFits DEF CallsInv, At, IsHd
<1>4. IndicesInv'
  BY <1>1 DEF CreationInv, IndicesInv, Derives, OwnOf
<1>5. HoldersInv'
  BY <1>1, IdleFits DEF CreationInv, HoldersInv, HdAddressesAreOwn, IsHd
<1> QED BY <1>2, <1>3, <1>4, <1>5 DEF CreationInv

LEMMA StillKeeps ==
  ASSUME CreationInv, UNCHANGED <<venue, wallet, deposits, requests, call, minted>> PROVE CreationInv'
  BY DEF CreationInv, TypesInv, KeysInv, CallsInv, IndicesInv, HoldersInv,
     HdAddressesAreOwn, Derives, OwnOf, At, IsHd

LEMMA CreationInit == Init => CreationInv
<1> SUFFICES ASSUME Init PROVE CreationInv
  OBVIOUS
<1>1. call = [c \in Callers |-> Idle] /\ wallet = [p \in {} |-> Wallet(NoKey, 0)] /\ deposits = {}
      /\ requests = <<>> /\ minted = 0 /\ venue = [p \in Pairs |-> [code |-> 0, address |-> 0]]
  BY DEF Init
<1>2. DOMAIN wallet = {} /\ DOMAIN requests = {}
  BY <1>1
<1> QED BY <1>1, <1>2, IdleFits DEF CreationInv, TypesInv, KeysInv, CallsInv, IndicesInv, HoldersInv,
     HdAddressesAreOwn, At
-------------------------------------------------------------------------------
LEMMA PairsInit == Init => PairsInv
  BY IdleFits DEF Init, PairsInv, At

(* No step of a call forgets its pair before it ends. *)
LEMMA FromStays ==
  ASSUME TypesInv, NEW c \in Callers, NEW step, NEW key, NEW index, NEW address,
         NEW order, NEW amount, NEW fee, NEW quoted
  PROVE  /\ Stays(c, step).from = call[c].from
         /\ [call[c] EXCEPT !.at = step, !.key = key, !.index = index].from = call[c].from
         /\ [Stays(c, step) EXCEPT !.key = key].from = call[c].from
         /\ [Stays(c, step) EXCEPT !.address = address].from = call[c].from
         /\ [Stays(c, step) EXCEPT !.address = address, !.key = key, !.index = index].from = call[c].from
         /\ [Stays(c, step) EXCEPT !.order = order, !.amount = amount, !.fee = fee,
                                   !.quoted = quoted].from = call[c].from
<1>1. call[c] \in CallState
  BY DEF TypesInv
<1>2. Stays(c, step).from = call[c].from /\ DOMAIN Stays(c, step) = DOMAIN call[c]
  BY <1>1 DEF Stays, CallState
<1>3. "from" \in DOMAIN call[c]
  BY <1>1 DEF CallState
<1> HIDE DEF Stays
<1> QED BY <1>2, <1>3

LEMMA KeepsFrom ==
  ASSUME TypesInv, NEW c \in Callers, Await(c)
  PROVE  \E new : Goes(c, new) /\ (new = Idle \/ new.from = call[c].from)
<1>1. CASE CallFails(c) \/ CreateRow(c)
  BY <1>1 DEF CallFails, CreateRow
<1>2. ASSUME NEW w, Goes(c, Planned(c, w)) PROVE \E new : Goes(c, new) /\ (new = Idle \/ new.from = call[c].from)
  <2>1. Planned(c, w).from = call[c].from
    BY FromStays DEF Planned
  <2> QED BY <1>2, <2>1
<1>3. ASSUME NEW step, Goes(c, Stays(c, step))
      PROVE  \E new : Goes(c, new) /\ (new = Idle \/ new.from = call[c].from)
  BY <1>3, FromStays
<1>4. CASE LookUpWallet(c)
  BY <1>2, <1>3, <1>4 DEF LookUpWallet
<1>5. CASE MintWallet(c)
  <2>1. \E w : Goes(c, Planned(c, w))
    BY <1>5 DEF MintWallet
  <2> QED BY <1>2, <2>1
<1>6. CASE FindGasWallet(c) \/ MintGasWallet(c)
  <2>1. \E step : Goes(c, Stays(c, step))
    BY <1>6 DEF FindGasWallet, MintGasWallet
  <2> QED BY <1>3, <2>1
<1>7. CASE StoreAddress(c)
  <2> DEFINE new == [Stays(c, "gasFrom") EXCEPT !.address = HdAddress(call[c].key, call[c].index),
                                                !.key = NoKey, !.index = 0]
  <2>1. Goes(c, new)
    BY <1>7 DEF StoreAddress
  <2>2. new.from = call[c].from
    BY FromStays
  <2> HIDE DEF new
  <2> QED BY <2>1, <2>2
<1>8. CASE AskVenue(c)
  <2> DEFINE address == VenueAddress(call[c].from, venue[call[c].from].address)
             known   == \E d \in deposits : d.address = address
             new     == [Stays(c, IF known THEN "gasTo" ELSE "attachTo") EXCEPT !.address = address]
  <2>1. Goes(c, new)
    BY <1>8 DEF AskVenue
  <2>2. new.from = call[c].from
    <3> HIDE DEF address, known
    <3> QED BY FromStays
  <2> HIDE DEF new
  <2> QED BY <2>1, <2>2
<1>9. CASE FindWallet(c)
  <2> DEFINE new(step) == [Stays(c, step) EXCEPT !.key = wallet[call[c].from].xpub]
  <2>1. Goes(c, Stays(c, "newWallet")) \/ Goes(c, new("migrate")) \/ Goes(c, new("attach"))
    BY <1>9 DEF FindWallet
  <2>2. \A step : new(step).from = call[c].from
    BY FromStays
  <2> HIDE DEF new
  <2> QED BY <1>3, <2>1, <2>2
<1>10. CASE NewVenueWallet(c)
  <2> DEFINE new == [Stays(c, "attach") EXCEPT !.key = KeyWanted(c)]
  <2>1. Goes(c, new)
    BY <1>10 DEF NewVenueWallet
  <2>2. new.from = call[c].from
    BY FromStays
  <2> HIDE DEF new
  <2> QED BY <2>1, <2>2
<1>11. CASE MigrateWallet(c)
  <2> DEFINE new == [Stays(c, "attach") EXCEPT !.key = KeyWanted(c)]
  <2>1. Goes(c, new)
    BY <1>11 DEF MigrateWallet
  <2>2. new.from = call[c].from
    BY FromStays
  <2> HIDE DEF new
  <2> QED BY <2>1, <2>2
<1>12. CASE AttachAddress(c)
  BY <1>3, <1>12 DEF AttachAddress
<1>13. CASE CountAddress(c)
  <2> DEFINE new == [Stays(c, "gasTo") EXCEPT !.key = NoKey]
  <2>1. Goes(c, new)
    BY <1>13 DEF CountAddress
  <2>2. new.from = call[c].from
    BY FromStays
  <2> HIDE DEF new
  <2> QED BY <2>1, <2>2
<1>14. CASE GetQuote(c)
  <2> DEFINE new(o, a, q) ==
        [Stays(c, "create") EXCEPT !.order = o, !.amount = a, !.fee = q.fee, !.quoted = q.to]
  <2>1. \E o, a, q : Goes(c, new(o, a, q))
    BY <1>14 DEF GetQuote
  <2>2. \A o, a, q : new(o, a, q).from = call[c].from
    BY FromStays
  <2> HIDE DEF new
  <2> QED BY <2>1, <2>2
<1> QED BY <1>1, <1>4, <1>5, <1>6, <1>7, <1>8, <1>9, <1>10, <1>11, <1>12, <1>13, <1>14 DEF Await

LEMMA PairsNext == ASSUME TypesInv, PairsInv, [Next]_vars PROVE PairsInv'
<1>1. ASSUME NEW c \in Callers, NEW new, Goes(c, new), new = Idle \/ new.from \in Pairs,
             source' \in [Networks -> Sources]
      PROVE  PairsInv'
  <2>1. call' = [call EXCEPT ![c] = new] /\ call \in [Callers -> CallState]
    BY <1>1 DEF Goes, TypesInv
  <2> QED BY <1>1, <2>1, IdleFits DEF PairsInv, At
<1>2. ASSUME NEW c \in Callers, Await(c) PROVE PairsInv'
  <2>1. UNCHANGED source /\ ~At(c, "idle")
    BY <1>2 DEF Await, CallFails, LookUpWallet, MintWallet, StoreAddress, AskVenue, FindWallet, At,
       NewVenueWallet, MigrateWallet, AttachAddress, CountAddress, FindGasWallet, MintGasWallet, GetQuote, CreateRow
  <2>2. call[c].from \in Pairs
    BY <2>1 DEF PairsInv
  <2> QED BY <1>1, <1>2, <2>1, <2>2, KeepsFrom DEF PairsInv
<1>3. ASSUME NEW c \in Callers, NEW p \in Pairs, NEW q \in Pairs, CallStarts(c, p, q) PROVE PairsInv'
  <2> DEFINE s == source[NetworkOf[p]]
             new == [Idle EXCEPT !.at = IF s = "TATUM" THEN "lookup" ELSE "venue",
                      !.from = p, !.to = q, !.source = s, !.code = venue[p].code]
  <2>1. Goes(c, new) /\ UNCHANGED source
    BY <1>3 DEF CallStarts
  <2>2. new.from = p
    BY DEF Idle
  <2> HIDE DEF new
  <2> QED BY <1>1, <2>1, <2>2 DEF PairsInv
<1>4. ASSUME NEW n \in Networks, SourceChanges(n) PROVE PairsInv'
  BY <1>4 DEF SourceChanges, PairsInv, At
<1>5. CASE ProviderChanges
  BY <1>5, IdleFits DEF ProviderChanges, PairsInv, At
<1>6. CASE UNCHANGED <<source, call>>
  BY <1>6 DEF PairsInv, At
<1> QED BY <1>2, <1>3, <1>4, <1>5, <1>6 DEF Next, GasWalletDisabled, VenueChanges, vars

LEMMA CreationNext == ASSUME CreationInv, PairsInv, [Next]_vars PROVE CreationInv'
<1>1. ASSUME NEW c \in Callers, Await(c) PROVE CreationInv'
  <2>1. call[c].at # "idle" => call[c].from \in Pairs
    BY DEF PairsInv, At
  <2>2. CASE MintWallet(c) \/ AskVenue(c) \/ NewVenueWallet(c) \/ MigrateWallet(c)
    <3>1. call[c].from \in Pairs
      BY <2>1, <2>2 DEF MintWallet, AskVenue, NewVenueWallet, MigrateWallet, At
    <3> QED BY <2>2, <3>1, MintWalletKeeps, AskVenueKeeps, NewVenueWalletKeeps, MigrateKeeps
  <2> QED BY <1>1, <2>2, CallFailsKeeps, LookUpKeeps, StoreKeeps, FindWalletKeeps, AttachKeeps, CountKeeps,
       GasWalletKeeps, GetQuoteKeeps, CreateKeeps DEF Await
<1>2. ASSUME NEW c \in Callers, NEW p \in Pairs, NEW q \in Pairs, CallStarts(c, p, q) PROVE CreationInv'
  BY <1>2, CallStartsKeeps DEF PairsInv
<1>3. ASSUME NEW n \in Networks, SourceChanges(n) \/ GasWalletDisabled(n) PROVE CreationInv'
  BY <1>3, StillKeeps DEF SourceChanges, GasWalletDisabled
<1>4. CASE UNCHANGED vars
  BY <1>4, StillKeeps DEF vars
<1> QED BY <1>1, <1>2, <1>3, <1>4, VenueKeeps, ProviderKeeps DEF Next
-------------------------------------------------------------------------------
(* The rows, and what each call in the middle of an allocation may still do
   to them: createRequest and lib/depositAddress.ts keep both. *)
THEOREM CreationCorrect == Spec => [](CreationInv /\ PairsInv)
<1>1. Init => CreationInv /\ PairsInv
  BY CreationInit, PairsInit
<1>2. CreationInv /\ PairsInv /\ [Next]_vars => (CreationInv /\ PairsInv)'
  BY CreationNext, PairsNext DEF CreationInv
<1> QED BY <1>1, <1>2, PTL DEF Spec

(* Two requests never have one derived address, although the calls that
   derive read the wallet's counter before they store. *)
THEOREM AddressesAreOwn == Spec => []HdAddressesAreOwn
<1>1. CreationInv => HdAddressesAreOwn
  BY DEF CreationInv, HoldersInv
<1> QED BY <1>1, CreationCorrect, PTL

(* The counters of MasterWallet and the rows of DepositAddress agree, so that
   a wallet goes on without a gap wherever a call failed. *)
THEOREM WalletsGoOn == Spec => []HdWalletGoesOn
<1>1. CreationInv => HdWalletGoesOn
  <2> SUFFICES ASSUME CreationInv, NEW p \in DOMAIN wallet, Derives(wallet[p])
               PROVE  /\ {d.index : d \in OwnOf(wallet[p].xpub)} = 0..(wallet[p].generatedAddresses - 1)
                      /\ NextIndex(wallet[p]) = wallet[p].generatedAddresses
    BY DEF HdWalletGoesOn, Derives, OwnOf
  <2> QED BY NextIndexFits DEF CreationInv, IndicesInv
<1> QED BY <1>1, CreationCorrect, PTL

(* Whatever a caller did in between: the key that signs for a derived address
   controls it where the wallet derives from its mnemonic or extended key, is
   that of its own wallet and index where it derives from a public key, and is
   none after a migration. *)
THEOREM SignersRight == Spec => []SignersAreRight
<1>1. CreationInv => SignersAreRight
  <2> SUFFICES ASSUME CreationInv, NEW d \in deposits, IsHd(d.address)
               PROVE  \/ Controlled(Signer(d.address)) = d.address
                      \/ d.xpub[1] = "kucoin" /\ Signer(d.address) = NoSigner
                      \/ d.address[1] = "pub" /\ Signer(d.address) = <<d.address[2], d.address[3]>>
    BY DEF SignersAreRight
  <2>1. \A e \in deposits : e.address = d.address => e = d
    BY DEF CreationInv, KeysInv
  <2>2. PICK p \in DOMAIN wallet : wallet[p].xpub = d.xpub
    BY DEF CreationInv, KeysInv
  <2>3. \A q \in DOMAIN wallet : wallet[q].xpub = d.xpub => q = p
    BY <2>2 DEF CreationInv, KeysInv
  <2>4. CASE d.xpub[1] = "kucoin"
    <3>1. wallet[p].surprise = 0
      BY <2>2, <2>4 DEF CreationInv, KeysInv, IsHd
    <3>2. Signers(d.address) = {}
      BY <2>1, <2>2, <2>3, <3>1 DEF Signers
    <3> QED BY <2>4, <3>2 DEF Signer
  <2>5. CASE d.xpub[1] # "kucoin"
    <3>1. IsHd(d.xpub) /\ d.address = HdAddress(d.xpub, d.index)
      BY <2>5 DEF CreationInv, KeysInv
    <3>2. wallet[p].surprise \in 1..minted /\ d.xpub[2] = wallet[p].surprise /\ minted \in Nat
      BY <2>2, <3>1, WalletKeys DEF CreationInv, TypesInv
    <3>3. d.address[2] = wallet[p].surprise /\ d.address[3] = d.index
      <4>1. d.xpub \in Triples /\ d.index \in Nat
        BY DEF CreationInv, TypesInv
      <4>2. HdAddress(d.xpub, d.index)[2] = d.xpub[2] /\ HdAddress(d.xpub, d.index)[3] = d.index
        BY <4>1, Forms
      <4> QED BY <3>1, <3>2, <4>2
    <3>4. <<p, d>> \in {y \in (DOMAIN wallet) \X {e \in deposits : e.address = d.address} :
                          wallet[y[1]].xpub = y[2].xpub /\ wallet[y[1]].surprise # 0}
      BY <2>2, <3>2
    <3>5. Signers(d.address) = {<<wallet[p].surprise, d.index>>}
      BY <2>1, <2>3, <3>4 DEF Signers
    <3>6. Signer(d.address) = <<d.address[2], d.address[3]>>
      BY <3>3, <3>5 DEF Signer
    <3>7. d.address[1] = "pub" \/ d.address = <<"hd", d.address[2], d.address[3]>>
      BY <3>1 DEF HdAddress, IsHd
    <3> QED BY <3>6, <3>7 DEF Controlled
  <2> QED BY <2>4, <2>5
<1> QED BY <1>1, CreationCorrect, PTL
-------------------------------------------------------------------------------
(* Gas wallets. *)
LEMMA OldestIs ==
  ASSUME NEW S \in SUBSET Nat, NEW i \in S, \A j \in S : i <= j PROVE Oldest(S) = i
<1>1. \A k \in S : (\A j \in S : k <= j) => k = i
  <2> SUFFICES ASSUME NEW k \in S, \A j \in S : k <= j PROVE k = i
    OBVIOUS
  <2>1. k <= i /\ i <= k /\ i \in Nat /\ k \in Nat
    OBVIOUS
  <2> QED BY <2>1
<1> QED BY <1>1 DEF Oldest

LEMMA OldestExists ==
  ASSUME NEW S \in SUBSET Nat, S # {} PROVE Oldest(S) \in S /\ \A j \in S : Oldest(S) <= j
<1>1. PICK i \in S : \A y \in S : ~(<<y, i>> \in OpToRel(<, Nat))
  BY NatLessThanWellFounded, WFMin
<1>2. ASSUME NEW y \in S PROVE i <= y
  <2>1. y < i => <<y, i>> \in OpToRel(<, Nat)
    BY Zenon DEF OpToRel
  <2>2. ~(y < i)
    BY <1>1, <2>1
  <2> QED BY <2>2
<1> QED BY <1>2, OldestIs

(* Gas wallets are all made primary, so that the oldest active one is used. *)
LEMMA GasWalletIs ==
  ASSUME GasInv, NEW n \in Networks
  PROVE  GasWalletOf(n) = Oldest({i \in DOMAIN gas[n] : gas[n][i].active})
<1>1. {i \in {j \in DOMAIN gas[n] : gas[n][j].active} : gas[n][i].primary}
        = {i \in DOMAIN gas[n] : gas[n][i].active}
  BY DEF GasInv
<1> QED BY <1>1 DEF GasWalletOf

LEMMA DisabledRows ==
  ASSUME GasInv, NEW n \in Networks, NEW i \in DOMAIN gas[n]
  PROVE  /\ Disabled(gas[n], i) \in Seq([primary : BOOLEAN, active : BOOLEAN])
         /\ DOMAIN Disabled(gas[n], i) = DOMAIN gas[n]
         /\ \A j \in DOMAIN gas[n] : Disabled(gas[n], i)[j].primary
         /\ ~Disabled(gas[n], i)[i].active
         /\ \A j \in DOMAIN gas[n] \ {i} : Disabled(gas[n], i)[j] = gas[n][j]
<1>1. /\ gas[n] \in Seq([primary : BOOLEAN, active : BOOLEAN]) /\ i \in 1..Len(gas[n])
      /\ \A j \in DOMAIN gas[n] : gas[n][j].primary
  BY DEF GasInv
<1> DEFINE row == [primary |-> gas[n][i].primary, active |-> FALSE]
<1>2. row \in [primary : BOOLEAN, active : BOOLEAN] /\ row.primary /\ ~row.active
  BY <1>1
<1> HIDE DEF row
<1>3. Disabled(gas[n], i) = [gas[n] EXCEPT ![i] = row]
  BY DEF Disabled, row
<1> QED BY <1>1, <1>2, <1>3, ExceptSeq

LEMMA GasNext == ASSUME GasInv, [Next]_vars PROVE GasInv'
<1>1. ASSUME NEW n \in Networks, gas' = [gas EXCEPT ![n] = Append(@, NewGasWallet)]
      PROVE  GasInv'
  BY <1>1 DEF GasInv, NewGasWallet
<1>2. ASSUME NEW n \in Networks, GasWalletDisabled(n) PROVE GasInv'
  <2>1. PICK i \in DOMAIN gas[n] : gas' = [gas EXCEPT ![n] = Disabled(gas[n], i)]
    BY <1>2 DEF GasWalletDisabled
  <2>2. Disabled(gas[n], i) \in Seq([primary : BOOLEAN, active : BOOLEAN])
        /\ \A j \in DOMAIN Disabled(gas[n], i) : Disabled(gas[n], i)[j].primary
    BY DisabledRows
  <2> QED BY <2>1, <2>2 DEF GasInv
<1>3. CASE UNCHANGED gas
  BY <1>3 DEF GasInv
<1>4. ASSUME NEW c \in Callers, MintGasWallet(c) PROVE GasInv'
  <2> DEFINE n == NetworkAt(c)
  <2>1. gas' = [gas EXCEPT ![n] = Append(@, NewGasWallet)]
    BY <1>4 DEF MintGasWallet
  <2> HIDE DEF n
  <2>2. CASE n \notin Networks
    BY <1>3, <2>1, <2>2 DEF GasInv
  <2> QED BY <1>1, <2>1, <2>2
<1>5. ASSUME NEW c \in Callers, Await(c), ~MintGasWallet(c) PROVE UNCHANGED gas
  BY <1>5 DEF Await, CallFails, LookUpWallet, MintWallet, StoreAddress, AskVenue, FindWallet,
     NewVenueWallet, MigrateWallet, AttachAddress, CountAddress, FindGasWallet, GetQuote, CreateRow
<1> QED BY <1>2, <1>3, <1>4, <1>5 DEF Next, CallStarts, SourceChanges, VenueChanges, ProviderChanges, vars

(* The rows of a network after a step: one more, or one of them disabled. *)
LEMMA GasStep ==
  ASSUME GasInv, [Next]_vars, NEW n \in Networks
  PROVE  \/ gas'[n] = gas[n]
         \/ gas'[n] = Append(gas[n], NewGasWallet)
         \/ \E i \in DOMAIN gas[n] : gas'[n] = Disabled(gas[n], i)
<1>1. ASSUME NEW c \in Callers, MintGasWallet(c)
      PROVE  gas'[n] = gas[n] \/ gas'[n] = Append(gas[n], NewGasWallet)
  <2>1. gas' = [gas EXCEPT ![NetworkAt(c)] = Append(@, NewGasWallet)]
    BY <1>1 DEF MintGasWallet
  <2> QED BY <2>1 DEF GasInv
<1>2. ASSUME NEW m \in Networks, GasWalletDisabled(m)
      PROVE  gas'[n] = gas[n] \/ \E i \in DOMAIN gas[n] : gas'[n] = Disabled(gas[n], i)
  <2>1. PICK i \in DOMAIN gas[m] : gas' = [gas EXCEPT ![m] = Disabled(gas[m], i)]
    BY <1>2 DEF GasWalletDisabled
  <2> QED BY <2>1 DEF GasInv
<1>3. ASSUME NEW c \in Callers, Await(c), ~MintGasWallet(c) PROVE UNCHANGED gas
  BY <1>3 DEF Await, CallFails, LookUpWallet, MintWallet, StoreAddress, AskVenue, FindWallet,
     NewVenueWallet, MigrateWallet, AttachAddress, CountAddress, FindGasWallet, GetQuote, CreateRow
<1> QED BY <1>1, <1>2, <1>3 DEF Next, CallStarts, SourceChanges, VenueChanges, ProviderChanges, vars

(* The gas wallet the operator funded stays the one in use, although two first
   requests may each have created one. *)
THEOREM GasWalletRemains == Spec => GasWalletStays
<1>1. Init => GasInv
  BY DEF Init, GasInv
<1>2. GasInv /\ [Next]_vars => GasInv'
  BY GasNext
<1>3. ASSUME GasInv, GasInv', [Next]_vars, NEW n \in Networks,
             GasWalletOf(n) # 0, gas'[n][GasWalletOf(n)].active
      PROVE  GasWalletOf(n)' = GasWalletOf(n)
  <2> DEFINE i      == GasWalletOf(n)
             before == {j \in DOMAIN gas[n] : gas[n][j].active}
             after  == {j \in DOMAIN gas'[n] : gas'[n][j].active}
  <2>1. i = Oldest(before)
    BY <1>3, GasWalletIs
  <2>2. GasWalletOf(n)' = Oldest(after)
    <3>1. {j \in after : gas'[n][j].primary} = after
      BY <1>3 DEF GasInv
    <3> QED BY <3>1 DEF GasWalletOf
  <2>3. before \in SUBSET Nat /\ after \in SUBSET Nat
    BY <1>3 DEF GasInv
  <2>4. before # {}
    BY <1>3, <2>1 DEF Oldest
  <2>5. i \in before /\ \A j \in before : i <= j
    <3> HIDE DEF before, i
    <3> QED BY <2>1, <2>3, <2>4, OldestExists
  <2>6. gas[n] \in Seq([primary : BOOLEAN, active : BOOLEAN])
    BY <1>3 DEF GasInv
  <2>7. i \in after
    <3>1. i \in DOMAIN gas'[n]
      <4>1. CASE gas'[n] = Append(gas[n], NewGasWallet)
        BY <2>5, <2>6, <4>1
      <4> QED BY <1>3, <2>5, <4>1, GasStep, DisabledRows
    <3> QED BY <1>3, <3>1
  <2>8. \A j \in after : i <= j
    <3>1. CASE gas'[n] = gas[n]
      BY <2>5, <3>1
    <3>2. CASE gas'[n] = Append(gas[n], NewGasWallet)
      BY <2>5, <2>6, <3>2
    <3>3. ASSUME NEW k \in DOMAIN gas[n], gas'[n] = Disabled(gas[n], k) PROVE \A j \in after : i <= j
      <4>1. \A j \in after : j \in DOMAIN gas[n] \ {k} /\ gas'[n][j] = gas[n][j]
        BY <1>3, <3>3, DisabledRows
      <4> QED BY <2>5, <4>1
    <3> QED BY <1>3, <3>1, <3>2, <3>3, GasStep
  <2> HIDE DEF i, before, after
  <2>9. Oldest(after) = i
    BY <2>3, <2>7, <2>8, OldestIs
  <2> QED BY <2>2, <2>9 DEF i
<1>4. GasInv /\ GasInv' /\ [Next]_vars =>
        [\A n \in Networks :
           LET i == GasWalletOf(n)
           IN i # 0 /\ gas'[n][i].active => GasWalletOf(n)' = i]_vars
  BY <1>3
<1> QED BY <1>1, <1>2, <1>4, PTL DEF Spec, GasWalletStays
-------------------------------------------------------------------------------
(* The numbers and forms of the rows. *)
LEMMA KeyForms ==
  /\ NoKey \in KeysOrAddresses
  /\ \A p : \A m \in 1..MaxCalls : GeneratedKey(p, m) \in KeysOrAddresses
  /\ \A v \in {"kucoin", "binance"}, p \in Pairs, code \in 0..1 : VenueKey(v, p, code) \in KeysOrAddresses
  /\ \A p \in Pairs, n \in 0..1 : VenueAddress(p, n) \in KeysOrAddresses
  /\ \A key \in KeysOrAddresses, i \in 0..MaxCalls : IsHd(key) => HdAddress(key, i) \in KeysOrAddresses
<1> USE CreationAssumption DEF KeysOrAddresses
<1>1. NoKey \in KeysOrAddresses
  OBVIOUS
<1>2. ASSUME NEW p, NEW m \in 1..MaxCalls PROVE GeneratedKey(p, m) \in KeysOrAddresses
  <2>1. 0 \in 0..MaxCalls
    OBVIOUS
  <2> QED BY <2>1 DEF GeneratedKey
<1>3. ASSUME NEW v \in {"kucoin", "binance"}, NEW p \in Pairs, NEW code \in 0..1
      PROVE  VenueKey(v, p, code) \in KeysOrAddresses
  BY DEF VenueKey
<1>4. ASSUME NEW p \in Pairs, NEW n \in 0..1 PROVE VenueAddress(p, n) \in KeysOrAddresses
  BY DEF VenueAddress
<1>5. ASSUME NEW key \in KeysOrAddresses, NEW i \in 0..MaxCalls, IsHd(key)
      PROVE  HdAddress(key, i) \in KeysOrAddresses
  <2>1. key[1] \in {"hd", "pub"} /\ key[2] \in 1..MaxCalls
    BY <1>5 DEF IsHd, NoKey
  <2> QED BY <2>1 DEF HdAddress
<1> QED BY <1>1, <1>2, <1>3, <1>4, <1>5

(* How many calls are waiting at some steps, after a call moved. *)
LEMMA WaitingMoves ==
  ASSUME TypesInv, NEW steps, IsFiniteSet(Waiting(steps)), NEW c \in Callers, NEW new, Goes(c, new)
  PROVE  /\ IsFiniteSet(Waiting(steps)')
         /\ Cardinality(Waiting(steps)) \in Nat /\ Cardinality(Waiting(steps)') \in Nat
         /\ (new.at \in steps <=> call[c].at \in steps) =>
              Cardinality(Waiting(steps)') = Cardinality(Waiting(steps))
         /\ new.at \in steps /\ call[c].at \notin steps =>
              Cardinality(Waiting(steps)') = Cardinality(Waiting(steps)) + 1
         /\ new.at \notin steps /\ call[c].at \in steps =>
              Cardinality(Waiting(steps)') = Cardinality(Waiting(steps)) - 1
<1>1. call'[c] = new /\ \A b \in Callers \ {c} : call'[b] = call[b]
  BY DEF TypesInv, Goes
<1>2. c \in Waiting(steps) <=> call[c].at \in steps
  BY DEF Waiting
<1>3. CASE new.at \in steps
  <2>1. Waiting(steps)' = Waiting(steps) \cup {c}
    BY <1>1, <1>3 DEF Waiting
  <2> QED BY <1>2, <1>3, <2>1, FS_AddElement, FS_CardinalityType
<1>4. CASE new.at \notin steps
  <2>1. Waiting(steps)' = Waiting(steps) \ {c}
    BY <1>1, <1>4 DEF Waiting
  <2> QED BY <1>2, <1>4, <2>1, FS_RemoveElement, FS_CardinalityType
<1> QED BY <1>3, <1>4

LEMMA FiniteWaiting ==
  ASSUME CountsInv
  PROVE  /\ IsFiniteSet(Waiting(Minting)) /\ IsFiniteSet(Waiting(Allocating))
         /\ Cardinality(Waiting(Minting)) \in Nat /\ Cardinality(Waiting(Allocating)) \in Nat
         /\ calls \in Nat /\ Past(Minting) \in Int /\ Past(Allocating) \in Nat
<1>1. Waiting(Minting) \subseteq Waiting(Allocating)
  BY DEF Waiting, Allocating
<1>2. IsFiniteSet(Waiting(Minting)) /\ IsFiniteSet(Waiting(Allocating))
  BY <1>1, FS_Subset DEF CountsInv
<1>3. Cardinality(Waiting(Minting)) \in Nat /\ Cardinality(Waiting(Allocating)) \in Nat
  BY <1>2, FS_CardinalityType
<1> QED BY <1>2, <1>3 DEF CountsInv, Past

(* An address or a mnemonic more is one more call past its steps. *)
Gain(c, new) == IF call[c].at \in Allocating /\ new.at \notin Allocating THEN 1 ELSE 0

LEMMA CountsStep ==
  ASSUME CreationInv, CreationInv', CountsInv, NEW c \in Callers, NEW new \in CallState, Goes(c, new),
         UNCHANGED <<provider, calls, changes>>,
         new.at \in Minting => call[c].at \in Minting,
         new.at \in Allocating => call[c].at \in Allocating,
         minted' = minted \/ (minted' = minted + 1 /\ call[c].at \in Minting /\ new.at \notin Minting),
         \A p \in DOMAIN wallet' :
           /\ wallet'[p].generatedAddresses <= Past(Allocating) + Gain(c, new)
           /\ wallet'[p].currentIndex = 0 \/ wallet'[p].currentIndex < Past(Allocating) + Gain(c, new),
         new.index <= Past(Allocating)
  PROVE  CountsInv'
<1>0. TypesInv /\ minted \in Nat /\ calls \in Nat
  BY FiniteWaiting DEF CreationInv, TypesInv
<1>1. call'[c] = new /\ \A b \in Callers \ {c} : call'[b] = call[b]
  BY <1>0 DEF TypesInv, Goes
<1>2. /\ IsFiniteSet(Waiting(Allocating)')
      /\ Past(Allocating)' = Past(Allocating) + Gain(c, new)
  <2>1. Past(Allocating)' = calls - Cardinality(Waiting(Allocating)') /\ IsFiniteSet(Waiting(Allocating))
        /\ Past(Allocating) = calls - Cardinality(Waiting(Allocating))
    BY FiniteWaiting DEF Past
  <2> QED BY <1>0, <2>1, WaitingMoves DEF Gain
<1>3. minted' <= Past(Minting)'
  <2>1. Past(Minting)' = calls - Cardinality(Waiting(Minting)') /\ IsFiniteSet(Waiting(Minting))
        /\ Past(Minting) = calls - Cardinality(Waiting(Minting)) /\ minted <= Past(Minting)
    BY FiniteWaiting DEF Past, CountsInv
  <2> QED BY <1>0, <2>1, WaitingMoves
<1>4. Gain(c, new) \in {0, 1} /\ Past(Allocating) \in Nat
  BY FiniteWaiting DEF Gain
<1>5. ASSUME NEW b \in Callers PROVE call'[b].index <= Past(Allocating)'
  <2>1. call'[b].index <= Past(Allocating)
    BY <1>1 DEF CountsInv
  <2>2. call'[b].index \in Nat
    BY DEF CreationInv, TypesInv, CallState
  <2> HIDE DEF Gain
  <2> QED BY <1>2, <1>4, <2>1, <2>2
<1> QED BY <1>2, <1>3, <1>4, <1>5 DEF CountsInv

LEMMA FormsStep ==
  ASSUME TypesInv, FormsInv, NEW c \in Callers, NEW new, Goes(c, new),
         new.code \in 0..1, new.key \in KeysOrAddresses, new.address \in KeysOrAddresses,
         new.at = "create" => new.quoted > 0,
         \A p \in DOMAIN wallet' : wallet'[p].xpub \in KeysOrAddresses,
         \A d \in deposits' : d.address \in KeysOrAddresses /\ d.xpub \in KeysOrAddresses,
         \A i \in DOMAIN requests' : requests'[i].toAmount > 0
  PROVE  FormsInv'
<1>1. call'[c] = new /\ \A b \in Callers \ {c} : call'[b] = call[b]
  BY DEF TypesInv, Goes
<1> QED BY <1>1 DEF FormsInv, At

(* A step of a call that leaves wallets and rows alone. *)
LEMMA BoundsCall ==
  ASSUME CreationInv, CreationInv', BoundsInv, NEW c \in Callers, NEW new \in CallState, Goes(c, new),
         UNCHANGED <<provider, wallet, deposits, requests, minted, calls, changes>>,
         new.at \in Minting => call[c].at \in Minting,
         new.at \in Allocating => call[c].at \in Allocating,
         new.code \in 0..1, new.key \in KeysOrAddresses, new.address \in KeysOrAddresses,
         new.at = "create" => new.quoted > 0, new.index <= Past(Allocating)
  PROVE  BoundsInv'
<1>1. FormsInv /\ CountsInv /\ TypesInv
  BY DEF BoundsInv, CreationInv
<1>2. FormsInv'
  BY <1>1, FormsStep DEF FormsInv
<1>3. ASSUME NEW p \in DOMAIN wallet
      PROVE  /\ wallet[p].generatedAddresses <= Past(Allocating) + Gain(c, new)
             /\ wallet[p].currentIndex = 0 \/ wallet[p].currentIndex < Past(Allocating) + Gain(c, new)
  <2>1. wallet[p].generatedAddresses \in Nat /\ wallet[p].currentIndex \in Nat
    BY <1>1 DEF TypesInv
  <2>2. Gain(c, new) \in {0, 1} /\ Past(Allocating) \in Nat
    BY <1>1, FiniteWaiting DEF Gain
  <2>3. /\ wallet[p].generatedAddresses <= Past(Allocating)
        /\ wallet[p].currentIndex = 0 \/ wallet[p].currentIndex < Past(Allocating)
    BY <1>1 DEF CountsInv
  <2> HIDE DEF Gain
  <2> QED BY <2>1, <2>2, <2>3
<1>4. CountsInv'
  BY <1>1, <1>3, CountsStep
<1> QED BY <1>2, <1>4 DEF BoundsInv

(* What a call carries has the forms and the bounds. *)
LEMMA CarriedFits ==
  ASSUME CreationInv, BoundsInv, NEW c \in Callers
  PROVE  /\ call[c] \in CallState
         /\ call[c].code \in 0..1 /\ call[c].key \in KeysOrAddresses /\ call[c].address \in KeysOrAddresses
         /\ call[c].index \in Nat /\ call[c].index <= Past(Allocating)
         /\ call[c].at = "create" => call[c].quoted > 0
<1>1. call[c] \in CallState
  BY CallParts
<1> QED BY <1>1 DEF BoundsInv, FormsInv, CountsInv, At, CallState

(* A step that changes only where the call is. *)
LEMMA BoundsStays ==
  ASSUME CreationInv, CreationInv', BoundsInv, NEW c \in Callers, NEW step \in Steps,
         Goes(c, Stays(c, step)),
         UNCHANGED <<provider, wallet, deposits, requests, minted, calls, changes>>,
         step \in Minting => call[c].at \in Minting, step \in Allocating => call[c].at \in Allocating,
         step # "create"
  PROVE  BoundsInv'
<1> DEFINE new == Stays(c, step)
<1>1. /\ new \in CallState /\ new.at = step /\ new.code = call[c].code /\ new.key = call[c].key
      /\ new.address = call[c].address /\ new.index = call[c].index
  BY CarriedFits DEF Stays, CallState
<1>2. /\ new.code \in 0..1 /\ new.key \in KeysOrAddresses /\ new.address \in KeysOrAddresses
      /\ new.index <= Past(Allocating)
  BY <1>1, CarriedFits
<1>3. Goes(c, new)
  OBVIOUS
<1> HIDE DEF new
<1> QED BY <1>1, <1>2, <1>3, BoundsCall

LEMMA FailsBounds ==
  ASSUME CreationInv, CreationInv', BoundsInv, NEW c \in Callers, CallFails(c) PROVE BoundsInv'
<1>1. /\ Idle \in CallState /\ Idle.at = "idle" /\ Idle.code = 0 /\ Idle.key = NoKey /\ Idle.address = NoKey
      /\ Idle.index = 0
  BY IdleFits DEF Idle
<1>2. Past(Allocating) \in Nat
  BY FiniteWaiting DEF BoundsInv
<1> QED BY <1>1, <1>2, KeyForms, BoundsCall DEF CallFails, Minting, Allocating

(* The next index of a wallet is at most the number of calls past allocation. *)
LEMMA NextIndexBound ==
  ASSUME CreationInv, BoundsInv, NEW p \in DOMAIN wallet
  PROVE  NextIndex(wallet[p]) \in Nat /\ NextIndex(wallet[p]) <= Past(Allocating)
<1>1. wallet[p].generatedAddresses \in Nat /\ wallet[p].currentIndex \in Nat
  BY DEF CreationInv, TypesInv
<1>2. Past(Allocating) \in Nat
  BY FiniteWaiting DEF BoundsInv
<1> QED BY <1>1, <1>2 DEF BoundsInv, CountsInv, NextIndex

LEMMA LookUpBounds ==
  ASSUME CreationInv, CreationInv', BoundsInv, NEW c \in Callers, LookUpWallet(c) PROVE BoundsInv'
<1>1. At(c, "lookup") /\ UNCHANGED <<provider, wallet, deposits, requests, minted, calls, changes>>
  BY DEF LookUpWallet
<1>2. CASE Goes(c, Stays(c, "mint"))
  BY <1>1, <1>2, BoundsStays DEF At, Minting, Allocating, Steps
<1>3. CASE call[c].from \in DOMAIN wallet /\ Goes(c, Planned(c, wallet[call[c].from]))
  <2> DEFINE w == wallet[call[c].from]
             new == Planned(c, w)
  <2>1. w.xpub \in Triples /\ NextIndex(w) \in Nat /\ NextIndex(w) <= Past(Allocating)
    BY <1>3, NextIndexFits, NextIndexBound
  <2>2. w.xpub \in KeysOrAddresses
    BY <1>3 DEF BoundsInv, FormsInv
  <2> HIDE DEF w
  <2>3. /\ new \in CallState /\ new.at = "store" /\ new.code = call[c].code /\ new.key = w.xpub
        /\ new.address = call[c].address /\ new.index = NextIndex(w)
    <3> DEFINE key   == w.xpub
               index == NextIndex(w)
               old   == call[c]
    <3>1. old \in CallState /\ key \in Triples /\ index \in Nat
      BY <2>1, CarriedFits
    <3>2. new = [old EXCEPT !.at = "store", !.key = key, !.index = index]
      BY DEF Planned
    <3>3. new.code = old.code /\ new.key = key /\ new.address = old.address /\ new.index = index
      <4> HIDE DEF new, key, index, old
      <4> QED BY <3>1, <3>2 DEF CallState
    <3>4. new \in CallState /\ new.at = "store"
      <4> HIDE DEF new, key, index, old
      <4> QED BY <3>1, <3>2 DEF CallState, Steps
    <3> QED BY <3>3, <3>4
  <2>4. Goes(c, new)
    BY <1>3 DEF w
  <2> HIDE DEF new
  <2> QED BY <1>1, <2>1, <2>2, <2>3, <2>4, CarriedFits, BoundsCall DEF At, Minting, Allocating
<1> QED BY <1>2, <1>3 DEF LookUpWallet

LEMMA AskVenueBounds ==
  ASSUME CreationInv, CreationInv', BoundsInv, NEW c \in Callers, AskVenue(c), call[c].from \in Pairs
  PROVE  BoundsInv'
<1> DEFINE address == VenueAddress(call[c].from, venue[call[c].from].address)
           known   == \E d \in deposits : d.address = address
           new     == [Stays(c, IF known THEN "gasTo" ELSE "attachTo") EXCEPT !.address = address]
<1>1. /\ Goes(c, new) /\ At(c, "venue")
      /\ UNCHANGED <<provider, wallet, deposits, requests, minted, calls, changes>>
  BY DEF AskVenue
<1>2. address \in Triples /\ address \in KeysOrAddresses
  <2>1. venue[call[c].from].address \in 0..1
    BY DEF CreationInv, TypesInv
  <2>2. call[c].from \in Pairs /\ venue[call[c].from].address \in Nat
    BY <2>1
  <2>3. address \in Triples
    BY <2>2, Forms
  <2>4. address \in KeysOrAddresses
    BY <2>1, <2>2, KeyForms
  <2> QED BY <2>3, <2>4
<1>3. /\ new \in CallState /\ new.at \in {"gasTo", "attachTo"} /\ new.code = call[c].code
      /\ new.key = call[c].key /\ new.address = address /\ new.index = call[c].index
  <2> HIDE DEF address, known
  <2>1. new \in CallState /\ new.at \in {"gasTo", "attachTo"}
    BY <1>2, CarriedFits, ZenonT(60) DEF Stays, CallState, Steps
  <2>2. new.code = call[c].code /\ new.key = call[c].key /\ new.address = address /\ new.index = call[c].index
    BY CarriedFits DEF Stays, CallState
  <2> QED BY <2>1, <2>2
<1> HIDE DEF new
<1> QED BY <1>1, <1>2, <1>3, CarriedFits, BoundsCall DEF At, Minting, Allocating

LEMMA FindWalletBounds ==
  ASSUME CreationInv, CreationInv', BoundsInv, NEW c \in Callers, FindWallet(c) PROVE BoundsInv'
<1> DEFINE p == call[c].from
           new(step) == [Stays(c, step) EXCEPT !.key = wallet[p].xpub]
<1>1. At(c, "attachTo") /\ UNCHANGED <<provider, wallet, deposits, requests, minted, calls, changes>>
  BY DEF FindWallet
<1>2. CASE Goes(c, Stays(c, "newWallet"))
  BY <1>1, <1>2, BoundsStays DEF At, Minting, Allocating, Steps
<1>3. ASSUME NEW step \in {"migrate", "attach"}, Goes(c, new(step)), p \in DOMAIN wallet
      PROVE  BoundsInv'
  <2>1. wallet[p].xpub \in Triples /\ wallet[p].xpub \in KeysOrAddresses
    BY <1>3, NextIndexFits DEF BoundsInv, FormsInv
  <2>2. new(step) \in CallState
    BY <2>1, CarriedFits, ZenonT(60) DEF Stays, CallState, Steps
  <2>3. /\ new(step).at = step /\ new(step).code = call[c].code
        /\ new(step).key = wallet[p].xpub /\ new(step).address = call[c].address
        /\ new(step).index = call[c].index
    BY CarriedFits DEF Stays, CallState
  <2> HIDE DEF new
  <2> QED BY <1>1, <1>3, <2>1, <2>2, <2>3, CarriedFits, BoundsCall DEF At, Minting, Allocating
<1>4. CASE p \in DOMAIN wallet
  BY <1>3, <1>4 DEF FindWallet
<1> QED BY <1>2, <1>4 DEF FindWallet

LEMMA GasWalletBounds ==
  ASSUME CreationInv, CreationInv', BoundsInv, NEW c \in Callers, FindGasWallet(c) \/ MintGasWallet(c)
  PROVE  BoundsInv'
<1>1. UNCHANGED <<provider, wallet, deposits, requests, minted, calls, changes>>
  BY DEF FindGasWallet, MintGasWallet
<1>2. PICK step \in {"gasTo", "mintFrom", "mintTo", "quote"} : Goes(c, Stays(c, step))
  BY DEF FindGasWallet, MintGasWallet, AfterGas
<1> QED BY <1>1, <1>2, BoundsStays DEF Minting, Allocating, Steps

LEMMA GetQuoteBounds ==
  ASSUME CreationInv, CreationInv', BoundsInv, NEW c \in Callers, GetQuote(c) PROVE BoundsInv'
<1>1. UNCHANGED <<provider, wallet, deposits, requests, minted, calls, changes>>
  BY DEF GetQuote
<1>2. PICK amount \in FromAmounts, o \in {x \in OrderIds : ~Taken(x)} :
        \E q \in Quotes(amount, call[c].source = "TATUM") :
          Goes(c, [Stays(c, "create") EXCEPT !.order = o, !.amount = amount, !.fee = q.fee, !.quoted = q.to])
  BY ZenonT(60) DEF GetQuote
<1>3. PICK q \in Quotes(amount, call[c].source = "TATUM") :
          Goes(c, [Stays(c, "create") EXCEPT !.order = o, !.amount = amount, !.fee = q.fee, !.quoted = q.to])
  BY <1>2, ZenonT(60)
<1> DEFINE new == [Stays(c, "create") EXCEPT !.order = o, !.amount = amount, !.fee = q.fee, !.quoted = q.to]
<1>4. amount \in Nat
  BY CreationAssumption
<1>5. q.fee \in Nat /\ q.to \in Nat /\ q.to > 0
  BY <1>4, QuoteFits
<1>6. new \in CallState
  BY <1>4, <1>5, CarriedFits, ZenonT(60) DEF Stays, CallState, Steps
<1>7. /\ new.at = "create" /\ new.code = call[c].code /\ new.key = call[c].key
      /\ new.address = call[c].address /\ new.index = call[c].index /\ new.quoted = q.to
  BY CarriedFits, SMTT(30) DEF Stays, CallState
<1>8. Goes(c, new)
  BY <1>3
<1> HIDE DEF new
<1> QED BY <1>1, <1>5, <1>6, <1>7, <1>8, CarriedFits, BoundsCall DEF Minting, Allocating

(* A step of a call that writes: the wallets keep within their bounds, and
   what is stored has its form. *)
BoundedRow(r, n) ==
  r.generatedAddresses <= n /\ (r.currentIndex = 0 \/ r.currentIndex < n) /\ r.xpub \in KeysOrAddresses

LEMMA BoundsWrite ==
  ASSUME CreationInv, CreationInv', BoundsInv, NEW c \in Callers, NEW new \in CallState, Goes(c, new),
         UNCHANGED <<provider, calls, changes>>,
         new.at \in Minting => call[c].at \in Minting,
         new.at \in Allocating => call[c].at \in Allocating,
         minted' = minted \/ (minted' = minted + 1 /\ call[c].at \in Minting /\ new.at \notin Minting),
         \A p \in DOMAIN wallet' : BoundedRow(wallet'[p], Past(Allocating) + Gain(c, new)),
         \A d \in deposits' : d.address \in KeysOrAddresses /\ d.xpub \in KeysOrAddresses,
         \A i \in DOMAIN requests' : requests'[i].toAmount > 0,
         new.code \in 0..1, new.key \in KeysOrAddresses, new.address \in KeysOrAddresses,
         new.at # "create", new.index <= Past(Allocating)
  PROVE  BoundsInv'
<1>1. FormsInv /\ CountsInv /\ TypesInv
  BY DEF BoundsInv, CreationInv
<1>2. FormsInv'
  BY <1>1, FormsStep DEF BoundedRow
<1>3. CountsInv'
  <2>1. \A p \in DOMAIN wallet' :
          /\ wallet'[p].generatedAddresses <= Past(Allocating) + Gain(c, new)
          /\ wallet'[p].currentIndex = 0 \/ wallet'[p].currentIndex < Past(Allocating) + Gain(c, new)
    BY DEF BoundedRow
  <2> QED BY <1>1, <2>1, CountsStep
<1> QED BY <1>2, <1>3 DEF BoundsInv

(* A wallet that is left alone stays within its bounds. *)
LEMMA RowStays ==
  ASSUME CreationInv, BoundsInv, NEW p \in DOMAIN wallet, NEW n \in {0, 1}
  PROVE  BoundedRow(wallet[p], Past(Allocating) + n)
<1>1. wallet[p].generatedAddresses \in Nat /\ wallet[p].currentIndex \in Nat
  BY DEF CreationInv, TypesInv
<1>2. Past(Allocating) \in Nat
  BY FiniteWaiting DEF BoundsInv
<1>3. /\ wallet[p].generatedAddresses <= Past(Allocating) /\ wallet[p].xpub \in KeysOrAddresses
      /\ wallet[p].currentIndex = 0 \/ wallet[p].currentIndex < Past(Allocating)
  BY DEF BoundsInv, FormsInv, CountsInv
<1> QED BY <1>1, <1>2, <1>3 DEF BoundedRow

(* The numbers a call may still use. *)
LEMMA BoundOfPast ==
  ASSUME CreationInv, BoundsInv
  PROVE  /\ Past(Allocating) \in 0..MaxCalls /\ minted \in 0..MaxCalls
         /\ \A c \in Callers : call[c].at \in Minting => minted < MaxCalls
<1>1. CountsInv /\ minted \in Nat /\ MaxCalls \in Nat /\ calls \in 0..MaxCalls /\ minted <= Past(Minting)
  BY CreationAssumption DEF BoundsInv, CreationInv, TypesInv, CountsInv
<1>2. /\ Cardinality(Waiting(Minting)) \in Nat /\ Cardinality(Waiting(Allocating)) \in Nat
      /\ Past(Allocating) \in Nat /\ IsFiniteSet(Waiting(Minting))
  BY <1>1, FiniteWaiting
<1>3. ASSUME NEW c \in Callers, call[c].at \in Minting PROVE Cardinality(Waiting(Minting)) # 0
  <2>1. c \in Waiting(Minting)
    BY <1>3 DEF Waiting
  <2> QED BY <1>2, <2>1, FS_EmptySet
<1> QED BY <1>1, <1>2, <1>3 DEF Past

LEMMA MintBounds ==
  ASSUME CreationInv, CreationInv', BoundsInv, NEW c \in Callers, MintWallet(c) PROVE BoundsInv'
<1> DEFINE w == Wallet(GeneratedKey(call[c].from, minted'), minted')
           new == Planned(c, w)
           p == call[c].from
<1>1. /\ At(c, "mint") /\ Goes(c, new) /\ minted' = minted + 1
      /\ wallet' = [q \in DOMAIN wallet \cup {p} |-> IF q = p THEN w ELSE wallet[q]]
      /\ UNCHANGED <<provider, deposits, requests, calls, changes>>
  BY DEF MintWallet, AddWallet
<1>2. minted' \in 1..MaxCalls /\ Past(Allocating) \in 0..MaxCalls /\ MaxCalls \in Nat
  BY <1>1, BoundOfPast, CreationAssumption DEF At, Minting
<1>3. GeneratedKey(call[c].from, minted') \in Triples /\ GeneratedKey(call[c].from, minted') \in KeysOrAddresses
  <2>1. minted' \in Nat
    BY <1>2
  <2> QED BY <1>2, <2>1, GeneratedKeyFits, KeyForms
<1>4. /\ w.xpub = GeneratedKey(call[c].from, minted') /\ w.generatedAddresses = 0 /\ w.currentIndex = 0 /\ NextIndex(w) = 0
  BY DEF Wallet, NextIndex
<1>5. /\ new \in CallState /\ new.at = "store" /\ new.code = call[c].code /\ new.key = w.xpub
      /\ new.address = call[c].address /\ new.index = 0
  <2>1. call[c] \in CallState
    BY CarriedFits
  <2>2. w.xpub \in Triples /\ NextIndex(w) \in Nat
    BY <1>3, <1>4
  <2>3. new = [call[c] EXCEPT !.at = "store", !.key = w.xpub, !.index = NextIndex(w)]
    BY DEF Planned
  <2> HIDE DEF w, new
  <2> QED BY <1>4, <2>1, <2>2, <2>3 DEF CallState, Steps
<1> HIDE DEF w
<1> HIDE DEF new
<1>6. Gain(c, new) = 0
  BY <1>5 DEF Gain, Allocating
<1>7. \A q \in DOMAIN wallet' : BoundedRow(wallet'[q], Past(Allocating) + Gain(c, new))
  <2>1. BoundedRow(w, Past(Allocating) + Gain(c, new))
    BY <1>2, <1>3, <1>4, <1>6 DEF BoundedRow
  <2>2. \A q \in DOMAIN wallet : BoundedRow(wallet[q], Past(Allocating) + Gain(c, new))
    BY <1>6, RowStays
  <2> QED BY <1>1, <2>1, <2>2
<1>8. /\ \A d \in deposits' : d.address \in KeysOrAddresses /\ d.xpub \in KeysOrAddresses
      /\ \A i \in DOMAIN requests' : requests'[i].toAmount > 0
  BY <1>1 DEF BoundsInv, FormsInv
<1>9. new.code \in 0..1 /\ new.key \in KeysOrAddresses /\ new.address \in KeysOrAddresses
  BY <1>3, <1>4, <1>5, CarriedFits
<1>10. /\ new.at \in Minting => call[c].at \in Minting
       /\ call[c].at \in Minting /\ new.at \notin Minting /\ call[c].at \in Allocating
       /\ new.at # "create" /\ new.index <= Past(Allocating)
  BY <1>1, <1>2, <1>5 DEF At, Minting, Allocating
<1> QED BY <1>1, <1>5, <1>7, <1>8, <1>9, <1>10, BoundsWrite

LEMMA WantedForm ==
  ASSUME CreationInv, BoundsInv, NEW c \in Callers, call[c].from \in Pairs
  PROVE  KeyWanted(c) \in Triples /\ KeyWanted(c) \in KeysOrAddresses
BY CarriedFits, KeyWantedFits, KeyForms DEF KeyWanted

LEMMA NewVenueWalletBounds ==
  ASSUME CreationInv, CreationInv', BoundsInv, NEW c \in Callers, NewVenueWallet(c), call[c].from \in Pairs
  PROVE  BoundsInv'
<1> DEFINE key == KeyWanted(c)
           w == Wallet(key, 0)
           new == [Stays(c, "attach") EXCEPT !.key = key]
           p == call[c].from
<1>1. /\ At(c, "newWallet") /\ Goes(c, new)
      /\ wallet' = [q \in DOMAIN wallet \cup {p} |-> IF q = p THEN w ELSE wallet[q]]
      /\ UNCHANGED <<provider, deposits, requests, minted, calls, changes>>
  BY DEF NewVenueWallet, AddWallet
<1>2. key \in Triples /\ key \in KeysOrAddresses /\ Past(Allocating) \in 0..MaxCalls /\ MaxCalls \in Nat
  BY WantedForm, BoundOfPast, CreationAssumption
<1> HIDE DEF key
<1>3. w.xpub = key /\ w.generatedAddresses = 0 /\ w.currentIndex = 0
  BY DEF Wallet
<1> HIDE DEF w
<1>4. new \in CallState
  BY <1>2, CarriedFits, ZenonT(60) DEF Stays, CallState, Steps
<1>5. /\ new.at = "attach" /\ new.code = call[c].code /\ new.key = key
      /\ new.address = call[c].address /\ new.index = call[c].index
  BY CarriedFits DEF Stays, CallState
<1> HIDE DEF new
<1>6. Gain(c, new) = 0
  BY <1>5 DEF Gain, Allocating
<1>7. \A q \in DOMAIN wallet' : BoundedRow(wallet'[q], Past(Allocating) + Gain(c, new))
  <2>1. BoundedRow(w, Past(Allocating) + Gain(c, new))
    BY <1>2, <1>3, <1>6 DEF BoundedRow
  <2>2. \A q \in DOMAIN wallet : BoundedRow(wallet[q], Past(Allocating) + Gain(c, new))
    BY <1>6, RowStays
  <2> QED BY <1>1, <2>1, <2>2
<1>8. /\ \A d \in deposits' : d.address \in KeysOrAddresses /\ d.xpub \in KeysOrAddresses
      /\ \A i \in DOMAIN requests' : requests'[i].toAmount > 0
  BY <1>1 DEF BoundsInv, FormsInv
<1> QED BY <1>1, <1>2, <1>4, <1>5, <1>7, <1>8, CarriedFits, BoundsWrite DEF At, Minting, Allocating

LEMMA MigrateBounds ==
  ASSUME CreationInv, CreationInv', BoundsInv, NEW c \in Callers, MigrateWallet(c), call[c].from \in Pairs
  PROVE  BoundsInv'
<1> DEFINE old == call[c].key
           key == KeyWanted(c)
           new == [Stays(c, "attach") EXCEPT !.key = key]
           Follow(d) == IF d.xpub = old THEN [d EXCEPT !.xpub = key] ELSE d
           Turn(r) == [r EXCEPT !.xpub = key, !.surprise = 0]
<1>1. /\ wallet' = [p \in DOMAIN wallet |-> IF wallet[p].xpub = old THEN Turn(wallet[p]) ELSE wallet[p]]
      /\ deposits' = {Follow(d) : d \in deposits}
  <2>1. wallet' = [p \in DOMAIN wallet |-> IF wallet[p].xpub = old THEN Turn(wallet[p]) ELSE wallet[p]]
    BY DEF MigrateWallet
  <2>2. deposits' = {Follow(d) : d \in deposits}
    BY DEF MigrateWallet
  <2> QED BY <2>1, <2>2
<1>3. At(c, "migrate") /\ Goes(c, new) /\ UNCHANGED <<provider, requests, minted, calls, changes>>
  BY DEF MigrateWallet
<1>2. key \in Triples /\ key \in KeysOrAddresses /\ Past(Allocating) \in 0..MaxCalls /\ MaxCalls \in Nat
  BY WantedForm, BoundOfPast, CreationAssumption
<1> HIDE DEF key, old
<1>4. new \in CallState
  BY <1>2, CarriedFits, ZenonT(60) DEF Stays, CallState, Steps
<1>5. /\ new.at = "attach" /\ new.code = call[c].code /\ new.key = key
      /\ new.address = call[c].address /\ new.index = call[c].index
  BY CarriedFits DEF Stays, CallState
<1>6. Gain(c, new) = 0
  BY <1>5 DEF Gain, Allocating
<1> HIDE DEF new
<1>7. ASSUME NEW q \in DOMAIN wallet' PROVE BoundedRow(wallet'[q], Past(Allocating) + Gain(c, new))
  <2>1. q \in DOMAIN wallet /\ BoundedRow(wallet[q], Past(Allocating) + Gain(c, new))
    <3> HIDE DEF Turn
    <3>1. DOMAIN wallet' = DOMAIN wallet
      BY <1>1
    <3> QED BY <1>6, <3>1, RowStays
  <2>2. wallet[q] \in [xpub : Triples, surprise : Nat, currentIndex : Nat, generatedAddresses : Nat]
    BY <2>1 DEF CreationInv, TypesInv
  <2>4. /\ Turn(wallet[q]).xpub = key /\ Turn(wallet[q]).currentIndex = wallet[q].currentIndex
        /\ Turn(wallet[q]).generatedAddresses = wallet[q].generatedAddresses
    BY <2>2
  <2> HIDE DEF Turn
  <2>3. wallet'[q] = wallet[q] \/ wallet'[q] = Turn(wallet[q])
    BY <1>1, <2>1
  <2> QED BY <1>2, <2>1, <2>3, <2>4 DEF BoundedRow
<1>8. \A d \in deposits' : d.address \in KeysOrAddresses /\ d.xpub \in KeysOrAddresses
  <2>1. ASSUME NEW d \in deposits
        PROVE  Follow(d).address \in KeysOrAddresses /\ Follow(d).xpub \in KeysOrAddresses
    <3>1. /\ d \in [address : Triples, index : Nat, xpub : Triples]
          /\ d.address \in KeysOrAddresses /\ d.xpub \in KeysOrAddresses
      BY DEF CreationInv, TypesInv, BoundsInv, FormsInv
    <3> QED BY <1>2, <3>1
  <2>2. deposits' = {Follow(d) : d \in deposits}
    BY <1>1
  <2> HIDE DEF Follow, Turn
  <2> QED BY <2>1, <2>2
<1>9. \A i \in DOMAIN requests' : requests'[i].toAmount > 0
  BY <1>3 DEF BoundsInv, FormsInv
<1> HIDE DEF Follow, Turn
<1> QED BY <1>2, <1>3, <1>4, <1>5, <1>7, <1>8, <1>9, CarriedFits, BoundsWrite DEF At, Minting, Allocating

LEMMA AttachBounds ==
  ASSUME CreationInv, CreationInv', BoundsInv, NEW c \in Callers, AttachAddress(c) PROVE BoundsInv'
<1> DEFINE new == Stays(c, "count")
           row == DepositRow(call[c].address, 0, call[c].key)
<1>1. /\ At(c, "attach") /\ Goes(c, new) /\ deposits' = deposits \cup {row}
      /\ UNCHANGED <<provider, wallet, requests, minted, calls, changes>>
  BY DEF AttachAddress
<1>2. /\ new \in CallState /\ new.at = "count" /\ new.code = call[c].code /\ new.key = call[c].key
      /\ new.address = call[c].address /\ new.index = call[c].index
  BY CarriedFits DEF Stays, CallState, Steps
<1>3. row.address = call[c].address /\ row.xpub = call[c].key
  BY DEF DepositRow
<1> HIDE DEF new, row
<1>4. Gain(c, new) = 0
  BY <1>2 DEF Gain, Allocating
<1>5. \A q \in DOMAIN wallet' : BoundedRow(wallet'[q], Past(Allocating) + Gain(c, new))
  BY <1>1, <1>4, RowStays
<1>6. /\ \A d \in deposits' : d.address \in KeysOrAddresses /\ d.xpub \in KeysOrAddresses
      /\ \A i \in DOMAIN requests' : requests'[i].toAmount > 0
  BY <1>1, <1>3, CarriedFits DEF BoundsInv, FormsInv
<1> QED BY <1>1, <1>2, <1>5, <1>6, CarriedFits, BoundsWrite DEF At, Minting, Allocating

LEMMA CountBounds ==
  ASSUME CreationInv, CreationInv', BoundsInv, NEW c \in Callers, CountAddress(c) PROVE BoundsInv'
<1> DEFINE key == call[c].key
           new == [Stays(c, "gasTo") EXCEPT !.key = NoKey]
           More(r) == [r EXCEPT !.generatedAddresses = @ + 1]
<1>1. /\ At(c, "count") /\ Goes(c, new)
      /\ wallet' = [p \in DOMAIN wallet |-> IF wallet[p].xpub = key THEN More(wallet[p]) ELSE wallet[p]]
      /\ UNCHANGED <<provider, deposits, requests, minted, calls, changes>>
  BY DEF CountAddress
<1>2. new \in CallState
  <2>1. NoKey \in Triples /\ call[c] \in CallState
    BY Forms, CarriedFits
  <2> QED BY <2>1 DEF Stays, CallState, Steps
<1>3. /\ new.at = "gasTo" /\ new.code = call[c].code /\ new.key = NoKey
      /\ new.address = call[c].address /\ new.index = call[c].index
  BY CarriedFits DEF Stays, CallState
<1>4. Gain(c, new) = 1 /\ Past(Allocating) \in Nat
  BY <1>1, <1>3, FiniteWaiting DEF Gain, Allocating, Minting, At, BoundsInv
<1>5. ASSUME NEW q \in DOMAIN wallet' PROVE BoundedRow(wallet'[q], Past(Allocating) + 1)
  <2>1. q \in DOMAIN wallet /\ BoundedRow(wallet[q], Past(Allocating) + 1)
        /\ wallet[q].generatedAddresses <= Past(Allocating)
    BY <1>1, RowStays DEF BoundsInv, CountsInv
  <2>2. wallet[q] \in [xpub : Triples, surprise : Nat, currentIndex : Nat, generatedAddresses : Nat]
    BY <2>1 DEF CreationInv, TypesInv
  <2>3. wallet'[q] = wallet[q] \/ wallet'[q] = More(wallet[q])
    BY <1>1, <2>1
  <2>4. /\ More(wallet[q]).xpub = wallet[q].xpub /\ More(wallet[q]).currentIndex = wallet[q].currentIndex
        /\ More(wallet[q]).generatedAddresses = wallet[q].generatedAddresses + 1
    BY <2>2
  <2> HIDE DEF More, new
  <2> QED BY <1>4, <2>1, <2>2, <2>3, <2>4 DEF BoundedRow
<1>6. /\ \A d \in deposits' : d.address \in KeysOrAddresses /\ d.xpub \in KeysOrAddresses
      /\ \A i \in DOMAIN requests' : requests'[i].toAmount > 0
  BY <1>1 DEF BoundsInv, FormsInv
<1> HIDE DEF new, More
<1> QED BY <1>1, <1>2, <1>3, <1>4, <1>5, <1>6, KeyForms, CarriedFits, BoundsWrite DEF At, Minting, Allocating

LEMMA StoreBounds ==
  ASSUME CreationInv, CreationInv', BoundsInv, NEW c \in Callers, StoreAddress(c) PROVE BoundsInv'
<1> DEFINE key == call[c].key
           index == call[c].index
           address == HdAddress(key, index)
           row == DepositRow(address, index, key)
           new == [Stays(c, "gasFrom") EXCEPT !.address = address, !.key = NoKey, !.index = 0]
           More(r) == [r EXCEPT !.currentIndex = index, !.generatedAddresses = @ + 1]
<1>1. /\ deposits' = deposits \cup {row}
      /\ wallet' = [p \in DOMAIN wallet |-> IF wallet[p].xpub = key THEN More(wallet[p]) ELSE wallet[p]]
  <2>1. wallet' = [p \in DOMAIN wallet |-> IF wallet[p].xpub = key THEN More(wallet[p]) ELSE wallet[p]]
    BY DEF StoreAddress
  <2>2. deposits' = deposits \cup {row}
    BY DEF StoreAddress
  <2> QED BY <2>1, <2>2
<1>10. /\ At(c, "store") /\ Goes(c, new) /\ IsHd(key)
       /\ UNCHANGED <<provider, requests, minted, calls, changes>>
  BY DEF StoreAddress
<1>2. /\ key \in Triples /\ key \in KeysOrAddresses /\ index \in Nat /\ index <= Past(Allocating)
      /\ Past(Allocating) \in 0..MaxCalls /\ MaxCalls \in Nat
  BY CarriedFits, BoundOfPast, CreationAssumption DEF CallState
<1>3. address \in Triples /\ address \in KeysOrAddresses
  <2>1. index \in 0..MaxCalls
    BY <1>2
  <2>2. IsHd(key)
    BY <1>10
  <2> HIDE DEF key, index
  <2> QED BY <1>2, <2>1, <2>2, Forms, KeyForms
<1>4. row.address = address /\ row.xpub = key
  BY DEF DepositRow
<1> HIDE DEF key, index, address, row
<1>5. new \in CallState
  <2>1. NoKey \in Triples /\ call[c] \in CallState
    BY Forms, CarriedFits
  <2> QED BY <1>3, <2>1 DEF Stays, CallState, Steps
<1>6. /\ new.at = "gasFrom" /\ new.code = call[c].code /\ new.key = NoKey
      /\ new.address = address /\ new.index = 0
  BY CarriedFits DEF Stays, CallState
<1> HIDE DEF new
<1>7. Gain(c, new) = 1
  BY <1>6, <1>10 DEF Gain, Allocating, Minting, At
<1>8. ASSUME NEW q \in DOMAIN wallet' PROVE BoundedRow(wallet'[q], Past(Allocating) + 1)
  <2>1. q \in DOMAIN wallet /\ BoundedRow(wallet[q], Past(Allocating) + 1)
        /\ wallet[q].generatedAddresses <= Past(Allocating)
    <3> HIDE DEF More
    <3>1. DOMAIN wallet' = DOMAIN wallet
      BY <1>1
    <3> QED BY <3>1, RowStays DEF BoundsInv, CountsInv
  <2>2. wallet[q] \in [xpub : Triples, surprise : Nat, currentIndex : Nat, generatedAddresses : Nat]
    BY <2>1 DEF CreationInv, TypesInv
  <2>4. /\ More(wallet[q]).xpub = wallet[q].xpub /\ More(wallet[q]).currentIndex = index
        /\ More(wallet[q]).generatedAddresses = wallet[q].generatedAddresses + 1
    BY <2>2
  <2> HIDE DEF More
  <2>3. wallet'[q] = wallet[q] \/ wallet'[q] = More(wallet[q])
    BY <1>1, <2>1
  <2> QED BY <1>2, <2>1, <2>2, <2>3, <2>4 DEF BoundedRow
<1>9. /\ \A d \in deposits' : d.address \in KeysOrAddresses /\ d.xpub \in KeysOrAddresses
      /\ \A i \in DOMAIN requests' : requests'[i].toAmount > 0
  <2>1. deposits' = deposits \cup {row}
    BY <1>1
  <2> QED BY <1>2, <1>3, <1>4, <1>10, <2>1 DEF BoundsInv, FormsInv
<1> HIDE DEF More
<1> QED BY <1>2, <1>10, <1>3, <1>5, <1>6, <1>7, <1>8, <1>9, KeyForms, CarriedFits, BoundsWrite
    DEF At, Minting, Allocating

LEMMA CreateBounds ==
  ASSUME CreationInv, CreationInv', BoundsInv, NEW c \in Callers, CreateRow(c) PROVE BoundsInv'
<1> DEFINE row == [pair |-> call[c].from, address |-> call[c].address, order |-> call[c].order,
                   fromAmount |-> call[c].amount, toAmount |-> call[c].quoted, feeAmount |-> call[c].fee]
<1>1. /\ At(c, "create") /\ Goes(c, Idle) /\ requests' = Append(requests, row)
      /\ UNCHANGED <<provider, wallet, deposits, minted, calls, changes>>
  BY DEF CreateRow
<1>2. row.toAmount > 0 /\ row.toAmount = call[c].quoted
  BY <1>1, CarriedFits DEF At
<1>3. /\ Idle \in CallState /\ Idle.at = "idle" /\ Idle.code = 0 /\ Idle.key = NoKey /\ Idle.address = NoKey
      /\ Idle.index = 0
  BY IdleFits DEF Idle
<1> HIDE DEF row
<1>4. Gain(c, Idle) = 0 /\ Past(Allocating) \in Nat
  BY <1>1, <1>3, FiniteWaiting DEF Gain, Allocating, Minting, At, BoundsInv
<1>5. \A q \in DOMAIN wallet' : BoundedRow(wallet'[q], Past(Allocating) + Gain(c, Idle))
  BY <1>1, <1>4, RowStays
<1>6. \A i \in DOMAIN requests' : requests'[i].toAmount > 0
  <2>1. /\ requests \in Seq(RequestRow) /\ \A i \in DOMAIN requests : requests[i].toAmount > 0
    BY DEF CreationInv, TypesInv, BoundsInv, FormsInv
  <2> QED BY <1>1, <1>2, <2>1
<1>7. \A d \in deposits' : d.address \in KeysOrAddresses /\ d.xpub \in KeysOrAddresses
  BY <1>1 DEF BoundsInv, FormsInv
<1> QED BY <1>1, <1>3, <1>4, <1>5, <1>6, <1>7, KeyForms, BoundsWrite DEF Minting, Allocating

(* A call begins: one more is made, and one more is not past its steps. *)
LEMMA StartBounds ==
  ASSUME CreationInv, CreationInv', BoundsInv, NEW c \in Callers, NEW p \in Pairs, NEW q \in Pairs,
         CallStarts(c, p, q), source \in [Networks -> Sources]
  PROVE  BoundsInv'
<1> DEFINE s == source[NetworkOf[p]]
           new == [Idle EXCEPT !.at = IF s = "TATUM" THEN "lookup" ELSE "venue",
                    !.from = p, !.to = q, !.source = s, !.code = venue[p].code]
<1>1. /\ Goes(c, new) /\ calls < MaxCalls /\ calls' = calls + 1 /\ At(c, "idle")
      /\ UNCHANGED <<provider, wallet, deposits, requests, minted, changes>>
  BY DEF CallStarts
<1>2. s \in Sources /\ venue[p].code \in 0..1
  BY CreationAssumption DEF CreationInv, TypesInv
<1>3. /\ new.at \in {"lookup", "venue"} /\ new.code = venue[p].code /\ new.key = NoKey
      /\ new.address = NoKey /\ new.index = 0
  BY DEF Idle
<1> HIDE DEF new
<1>4. FormsInv /\ CountsInv /\ TypesInv
  BY DEF BoundsInv, CreationInv
<1>5. FormsInv'
  <2>1. \A i \in DOMAIN requests' : requests'[i].toAmount > 0
    BY <1>1, <1>4 DEF FormsInv
  <2>2. \A d \in deposits' : d.address \in KeysOrAddresses /\ d.xpub \in KeysOrAddresses
    BY <1>1, <1>4 DEF FormsInv
  <2>3. \A r \in DOMAIN wallet' : wallet'[r].xpub \in KeysOrAddresses
    BY <1>1, <1>4 DEF FormsInv
  <2>4. NoKey \in KeysOrAddresses
    BY KeyForms
  <2> QED BY <1>1, <1>2, <1>3, <1>4, <2>1, <2>2, <2>3, <2>4, FormsStep
<1>6. /\ call'[c] = new /\ \A b \in Callers \ {c} : call'[b] = call[b]
      /\ calls' \in 0..MaxCalls /\ calls \in Nat /\ minted \in Nat /\ MaxCalls \in Nat
      /\ new.at \in Allocating /\ call[c].at \notin Allocating /\ call[c].at \notin Minting
  BY <1>1, <1>3, <1>4, CreationAssumption DEF TypesInv, CountsInv, Goes, At, Minting, Allocating
<1>7. /\ IsFiniteSet(Waiting(Allocating)') /\ Past(Allocating)' = Past(Allocating) /\ Past(Allocating) \in Nat
  <2>1. Past(Allocating)' = calls' - Cardinality(Waiting(Allocating)') /\ IsFiniteSet(Waiting(Allocating))
        /\ Past(Allocating) = calls - Cardinality(Waiting(Allocating)) /\ Past(Allocating) \in Nat
    BY <1>4, FiniteWaiting DEF Past
  <2> QED BY <1>1, <1>4, <1>6, <2>1, WaitingMoves
<1>8. minted' <= Past(Minting)'
  <2>1. Past(Minting)' = calls' - Cardinality(Waiting(Minting)') /\ IsFiniteSet(Waiting(Minting))
        /\ Past(Minting) = calls - Cardinality(Waiting(Minting)) /\ minted <= Past(Minting)
    BY <1>4, FiniteWaiting DEF Past, CountsInv
  <2> QED BY <1>1, <1>4, <1>6, <2>1, WaitingMoves
<1>9. ASSUME NEW b \in Callers PROVE call'[b].index <= Past(Allocating)'
  BY <1>3, <1>4, <1>6, <1>7 DEF CountsInv
<1>10. ASSUME NEW r \in DOMAIN wallet'
       PROVE  /\ wallet'[r].generatedAddresses <= Past(Allocating)'
              /\ wallet'[r].currentIndex = 0 \/ wallet'[r].currentIndex < Past(Allocating)'
  <2>1. r \in DOMAIN wallet /\ wallet'[r] = wallet[r]
    BY <1>1, <1>10
  <2> QED BY <1>4, <1>7, <2>1 DEF CountsInv
<1>11. provider' \in Providers /\ changes' \in 0..MaxChanges
  BY <1>1, <1>4 DEF CountsInv
<1> QED BY <1>5, <1>6, <1>7, <1>8, <1>9, <1>10, <1>11 DEF BoundsInv, CountsInv

(* The process starts again: every call is past its steps. *)
LEMMA ProviderBounds ==
  ASSUME CreationInv, BoundsInv, ProviderChanges PROVE BoundsInv'
<1>1. /\ changes < MaxChanges /\ changes' = changes + 1 /\ provider' \in Providers
      /\ UNCHANGED <<wallet, deposits, requests, minted, calls>>
      /\ \A c \in Callers : call'[c] = Idle
  BY DEF ProviderChanges, Changes
<1>2. FormsInv /\ CountsInv
  BY DEF BoundsInv
<1>3. /\ Idle.at = "idle" /\ Idle.code = 0 /\ Idle.key = NoKey /\ Idle.address = NoKey /\ Idle.index = 0
  BY DEF Idle
<1>4. FormsInv'
  BY <1>1, <1>2, <1>3, KeyForms DEF FormsInv, At
<1>5. Waiting(Allocating)' = {} /\ Waiting(Minting)' = {} /\ calls \in Nat
  BY <1>1, <1>2, <1>3, FiniteWaiting DEF Waiting, Allocating, Minting
<1>6. /\ IsFiniteSet(Waiting(Allocating)') /\ Past(Allocating)' = calls /\ Past(Minting)' = calls
  BY <1>1, <1>5, FS_EmptySet DEF Past
<1>7. /\ Past(Allocating) <= calls /\ Past(Minting) <= calls /\ Past(Allocating) \in Nat /\ Past(Minting) \in Int
  BY <1>2, FiniteWaiting DEF Past
<1>8. minted \in Nat /\ minted <= calls
  BY <1>2, <1>5, <1>7 DEF CountsInv, CreationInv, TypesInv
<1>9. ASSUME NEW r \in DOMAIN wallet
      PROVE  wallet[r].generatedAddresses <= calls /\ (wallet[r].currentIndex = 0 \/ wallet[r].currentIndex < calls)
  <2>1. wallet[r].generatedAddresses \in Nat /\ wallet[r].currentIndex \in Nat
    BY DEF CreationInv, TypesInv
  <2> QED BY <1>2, <1>5, <1>7, <2>1 DEF CountsInv
<1>10. changes' \in 0..MaxChanges
  BY <1>1, <1>2, CreationAssumption DEF CountsInv
<1>11. CountsInv'
  BY <1>1, <1>2, <1>3, <1>5, <1>6, <1>8, <1>9, <1>10 DEF CountsInv
<1> QED BY <1>4, <1>11 DEF BoundsInv

(* The other changes from outside touch none of this. *)
LEMMA OtherBounds ==
  ASSUME BoundsInv, UNCHANGED <<provider, wallet, deposits, requests, call, minted, calls>>,
         changes' = changes \/ (changes < MaxChanges /\ changes' = changes + 1)
  PROVE  BoundsInv'
<1>1. changes' \in 0..MaxChanges
  BY CreationAssumption DEF BoundsInv, CountsInv
<1> QED BY <1>1 DEF BoundsInv, FormsInv, CountsInv, Past, Waiting, At

LEMMA BoundsInit == Init => BoundsInv
<1> SUFFICES ASSUME Init PROVE BoundsInv
  OBVIOUS
<1>1. /\ \A c \in Callers : call[c] = Idle
      /\ DOMAIN wallet = {} /\ deposits = {} /\ DOMAIN requests = {} /\ minted = 0 /\ calls = 0 /\ changes = 0
      /\ provider \in Providers
  BY DEF Init
<1>2. /\ Idle.at = "idle" /\ Idle.code = 0 /\ Idle.key = NoKey /\ Idle.address = NoKey /\ Idle.index = 0
  BY DEF Idle
<1>3. FormsInv
  BY <1>1, <1>2, KeyForms DEF FormsInv, At
<1>4. Waiting(Allocating) = {} /\ Waiting(Minting) = {}
  BY <1>1, <1>2 DEF Waiting, Allocating, Minting
<1>5. IsFiniteSet(Waiting(Allocating)) /\ Past(Allocating) = 0 /\ Past(Minting) = 0
  BY <1>1, <1>4, FS_EmptySet DEF Past
<1>6. CountsInv
  BY <1>1, <1>2, <1>5, CreationAssumption DEF CountsInv
<1> QED BY <1>3, <1>6 DEF BoundsInv

LEMMA BoundsNext ==
  ASSUME CreationInv, CreationInv', PairsInv, BoundsInv, [Next]_vars PROVE BoundsInv'
<1>1. ASSUME NEW c \in Callers, Await(c) PROVE BoundsInv'
  <2>1. call[c].at # "idle" => call[c].from \in Pairs
    BY DEF PairsInv, At
  <2>2. CASE AskVenue(c) \/ NewVenueWallet(c) \/ MigrateWallet(c)
    <3>1. call[c].from \in Pairs
      BY <2>1, <2>2 DEF AskVenue, NewVenueWallet, MigrateWallet, At
    <3> QED BY <2>2, <3>1, AskVenueBounds, NewVenueWalletBounds, MigrateBounds
  <2> QED BY <1>1, <2>2, FailsBounds, LookUpBounds, MintBounds, StoreBounds, FindWalletBounds, AttachBounds,
       CountBounds, GasWalletBounds, GetQuoteBounds, CreateBounds DEF Await
<1>2. ASSUME NEW c \in Callers, NEW p \in Pairs, NEW q \in Pairs, CallStarts(c, p, q) PROVE BoundsInv'
  BY <1>2, StartBounds DEF PairsInv
<1>3. ASSUME NEW n \in Networks, SourceChanges(n) \/ GasWalletDisabled(n) PROVE BoundsInv'
  BY <1>3, OtherBounds DEF SourceChanges, GasWalletDisabled, Changes
<1>4. ASSUME NEW p \in Pairs, VenueChanges(p) PROVE BoundsInv'
  BY <1>4, OtherBounds DEF VenueChanges, Changes
<1>5. CASE UNCHANGED vars
  BY <1>5, OtherBounds DEF vars
<1> QED BY <1>1, <1>2, <1>3, <1>4, <1>5, ProviderBounds DEF Next

(* Every row and every call keeps its type: no wallet, index or mnemonic is
   counted that no call of createRequest stands for, and no row is created
   that pays out nothing. *)
THEOREM TypesHold == Spec => []TypeOK
<1> DEFINE Inv == CreationInv /\ PairsInv /\ GasInv /\ BoundsInv
<1>1. Init => Inv
  BY CreationInit, PairsInit, BoundsInit DEF Init, GasInv
<1>2. Inv /\ [Next]_vars => Inv'
  BY CreationNext, PairsNext, GasNext, BoundsNext DEF CreationInv
<1>3. Inv => TypeOK
  <2> SUFFICES ASSUME Inv PROVE TypeOK
    OBVIOUS
  <2>1. TypesInv /\ KeysInv /\ FormsInv /\ CountsInv
    BY DEF CreationInv, BoundsInv
  <2>2. ASSUME NEW p \in DOMAIN wallet
        PROVE  wallet[p] \in [xpub : KeysOrAddresses, surprise : 0..minted, currentIndex : Nat, generatedAddresses : Nat]
    <3>1. wallet[p] \in [xpub : Triples, surprise : Nat, currentIndex : Nat, generatedAddresses : Nat]
      BY <2>1 DEF TypesInv
    <3>2. wallet[p].surprise \in 0..minted /\ wallet[p].xpub \in KeysOrAddresses
      <4>1. wallet[p].surprise \in 1..minted \/ wallet[p].surprise = 0
        BY <2>1 DEF KeysInv
      <4>2. minted \in Nat /\ wallet[p].xpub \in KeysOrAddresses
        BY <2>1 DEF TypesInv, FormsInv
      <4> QED BY <4>1, <4>2
    <3> QED BY <3>1, <3>2
  <2>3. ASSUME NEW d \in deposits
        PROVE  d \in [address : KeysOrAddresses, index : Nat, xpub : KeysOrAddresses]
    BY <2>1 DEF TypesInv, FormsInv
  <2>4. ASSUME NEW i \in DOMAIN requests
        PROVE  requests[i].toAmount \in Nat \ {0} /\ requests[i].feeAmount \in Nat
    <3>1. requests[i] \in RequestRow /\ requests[i].toAmount > 0
      BY <2>1 DEF TypesInv, FormsInv
    <3> QED BY <3>1 DEF RequestRow
  <2>5. ASSUME NEW c \in Callers
        PROVE  call[c].at \in Steps /\ call[c].from \in Pairs \cup {NoPair} /\ call[c].index \in Nat
    BY <2>1 DEF TypesInv, CallState
  <2>6. minted \in 0..MaxCalls /\ calls \in 0..MaxCalls /\ changes \in 0..MaxChanges
    BY <2>1, BoundOfPast DEF CountsInv
  <2>7. ASSUME NEW n \in Networks, NEW i \in DOMAIN gas[n]
        PROVE  gas[n][i] \in [primary : BOOLEAN, active : BOOLEAN]
    <3> DEFINE Row == [primary : BOOLEAN, active : BOOLEAN]
    <3>1. gas[n] \in Seq(Row)
      BY DEF GasInv
    <3> HIDE DEF Row
    <3>2. gas[n][i] \in Row
      BY <3>1, ElementOfSeq
    <3> QED BY <3>2 DEF Row
  <2>8. /\ provider \in Providers /\ source \in [Networks -> Sources] /\ DOMAIN wallet \subseteq Pairs
        /\ venue \in [Pairs -> [code : 0..1, address : 0..1]]
    BY <2>1 DEF CountsInv, PairsInv, TypesInv
  <2> QED BY <2>2, <2>3, <2>4, <2>5, <2>6, <2>7, <2>8 DEF TypeOK
<1> QED BY <1>1, <1>2, <1>3, PTL DEF Spec
-------------------------------------------------------------------------------
(* The quote on its way into the row. *)

(* What step 6 of createRequest works out adds up to the gross amount.  The
   settlement pays getRequestedPayoutAmount of it, which takes the fee off
   once more: the client gets the gross amount less twice the fee, and the
   settlement throws where the fee is more than half of it. *)
THEOREM QuoteAddsUp ==
  ASSUME NEW amount \in Nat, NEW swept \in BOOLEAN, NEW q \in Quotes(amount, swept)
  PROVE  /\ q.fee \in Nat /\ q.to \in Nat
         /\ IsQuoted(amount, q.fee, q.to)
         /\ Payout(q.to, q.fee) = amount * Rate - 2 * q.fee
         /\ PayoutIsLegal(q.to, q.fee) <=> 2 * q.fee <= amount * Rate
<1>1. amount * Rate \in Nat
  BY QuoteAssumption
<1>2. \A g \in GasFees(swept) : g \in Nat
  BY QuoteAssumption DEF GasFees
<1>3. PICK g \in GasFees(swept) :
        /\ WithinLimits(amount) /\ amount * Rate > Fee(amount * Rate, g)
        /\ q = [fee |-> Fee(amount * Rate, g), to |-> amount * Rate - Fee(amount * Rate, g)]
  BY DEF Quotes
<1>4. Fee(amount * Rate, g) \in Nat
  BY <1>1, <1>2, FeeFits
<1>5. Fee(amount * Rate, g) >= MinimumFee
  <2> DEFINE calculated == (amount * Rate * FeePercent) \div 100 + g
  <2>1. Fee(amount * Rate, g) = IF calculated > MinimumFee THEN calculated ELSE MinimumFee
    BY DEF Fee
  <2>2. calculated \in Int
    <3>1. amount * Rate * FeePercent \in Nat
      BY <1>1, QuoteAssumption
    <3>2. (amount * Rate * FeePercent) \div 100 \in Nat
      BY <3>1
    <3> QED BY <1>2, <3>2
  <2> HIDE DEF calculated
  <2> QED BY <2>1, <2>2, QuoteAssumption
<1> DEFINE gross == amount * Rate
           fee   == Fee(gross, g)
<1>6. q.fee = fee /\ q.to = gross - fee
  BY <1>3
<1>7. gross \in Nat /\ fee \in Nat /\ gross > fee /\ fee >= MinimumFee
  BY <1>1, <1>3, <1>4, <1>5
<1> HIDE DEF gross, fee
<1>8. Payout(q.to, q.fee) = gross - 2 * fee /\ (PayoutIsLegal(q.to, q.fee) <=> 2 * fee <= gross)
  BY <1>6, <1>7 DEF Payout, PayoutIsLegal
<1>9. q.to > 0 /\ q.to + q.fee = gross
  BY <1>6, <1>7
<1>10. IsQuoted(amount, q.fee, q.to)
  BY <1>3, <1>6, <1>7, <1>9 DEF IsQuoted, gross
<1> QED BY <1>6, <1>7, <1>8, <1>10 DEF gross

(* Only the quote takes a call to the row's creation. *)
LEMMA StepStays ==
  ASSUME TypesInv, NEW c \in Callers, NEW step, NEW key, NEW index, NEW address
  PROVE  /\ Stays(c, step).at = step
         /\ [call[c] EXCEPT !.at = step, !.key = key, !.index = index].at = step
         /\ [Stays(c, step) EXCEPT !.key = key].at = step
         /\ [Stays(c, step) EXCEPT !.address = address].at = step
         /\ [Stays(c, step) EXCEPT !.address = address, !.key = key, !.index = index].at = step
<1>1. call[c] \in CallState
  BY DEF TypesInv
<1>2. Stays(c, step).at = step /\ DOMAIN Stays(c, step) = DOMAIN call[c]
  BY <1>1 DEF Stays, CallState
<1>3. "at" \in DOMAIN call[c]
  BY <1>1 DEF CallState
<1> HIDE DEF Stays
<1> QED BY <1>2, <1>3

LEMMA NotCreating ==
  ASSUME TypesInv, NEW c \in Callers, Await(c), ~GetQuote(c)
  PROVE  \E new : Goes(c, new) /\ new.at # "create"
<1>1. CASE CallFails(c) \/ CreateRow(c)
  BY <1>1, IdleFits DEF CallFails, CreateRow
<1>2. ASSUME NEW w, Goes(c, Planned(c, w)) PROVE \E new : Goes(c, new) /\ new.at # "create"
  <2>1. Planned(c, w).at = "store"
    BY StepStays DEF Planned
  <2> QED BY <1>2, <2>1
<1>3. ASSUME NEW step, step # "create", Goes(c, Stays(c, step))
      PROVE  \E new : Goes(c, new) /\ new.at # "create"
  BY <1>3, StepStays
<1>4. CASE LookUpWallet(c)
  BY <1>2, <1>3, <1>4 DEF LookUpWallet
<1>5. CASE MintWallet(c)
  <2>1. \E w : Goes(c, Planned(c, w))
    BY <1>5 DEF MintWallet
  <2> QED BY <1>2, <2>1
<1>6. CASE FindGasWallet(c) \/ MintGasWallet(c)
  <2>1. \E step \in {"gasTo", "mintFrom", "mintTo", "quote"} : Goes(c, Stays(c, step))
    BY <1>6 DEF FindGasWallet, MintGasWallet, AfterGas
  <2> QED BY <1>3, <2>1
<1>7. CASE StoreAddress(c)
  <2> DEFINE new == [Stays(c, "gasFrom") EXCEPT !.address = HdAddress(call[c].key, call[c].index),
                                                !.key = NoKey, !.index = 0]
  <2>1. Goes(c, new)
    BY <1>7 DEF StoreAddress
  <2>2. new.at = "gasFrom"
    BY StepStays
  <2> HIDE DEF new
  <2> QED BY <2>1, <2>2
<1>8. CASE AskVenue(c)
  <2> DEFINE address == VenueAddress(call[c].from, venue[call[c].from].address)
             step    == IF \E d \in deposits : d.address = address THEN "gasTo" ELSE "attachTo"
             new     == [Stays(c, step) EXCEPT !.address = address]
  <2>1. Goes(c, new)
    BY <1>8 DEF AskVenue
  <2>2. step # "create"
    OBVIOUS
  <2>3. new.at = step
    <3> HIDE DEF address, step
    <3> QED BY StepStays
  <2> HIDE DEF new, step
  <2> QED BY <2>1, <2>2, <2>3
<1>9. CASE FindWallet(c)
  <2> DEFINE new(step) == [Stays(c, step) EXCEPT !.key = wallet[call[c].from].xpub]
  <2>1. Goes(c, Stays(c, "newWallet")) \/ Goes(c, new("migrate")) \/ Goes(c, new("attach"))
    BY <1>9 DEF FindWallet
  <2>2. \A step : new(step).at = step
    BY StepStays
  <2> HIDE DEF new
  <2> QED BY <1>3, <2>1, <2>2
<1>10. CASE NewVenueWallet(c) \/ MigrateWallet(c)
  <2> DEFINE new == [Stays(c, "attach") EXCEPT !.key = KeyWanted(c)]
  <2>1. Goes(c, new)
    BY <1>10 DEF NewVenueWallet, MigrateWallet
  <2>2. new.at = "attach"
    BY StepStays
  <2> HIDE DEF new
  <2> QED BY <2>1, <2>2
<1>11. CASE AttachAddress(c)
  BY <1>3, <1>11 DEF AttachAddress
<1>12. CASE CountAddress(c)
  <2> DEFINE new == [Stays(c, "gasTo") EXCEPT !.key = NoKey]
  <2>1. Goes(c, new)
    BY <1>12 DEF CountAddress
  <2>2. new.at = "gasTo"
    BY StepStays
  <2> HIDE DEF new
  <2> QED BY <2>1, <2>2
<1> QED BY <1>1, <1>4, <1>5, <1>6, <1>7, <1>8, <1>9, <1>10, <1>11, <1>12 DEF Await

(* A call that does not come to the creation owes nothing for its quote. *)
LEMMA QuotesStep ==
  ASSUME TypesInv, QuotesInv, NEW c \in Callers, NEW new, Goes(c, new), RowsAreQuoted',
         new.at = "create" => IsQuoted(new.amount, new.fee, new.quoted)
  PROVE  QuotesInv'
<1>1. call'[c] = new /\ \A b \in Callers : b # c => call'[b] = call[b]
  BY DEF TypesInv, Goes
<1> QED BY <1>1 DEF QuotesInv, At

LEMMA QuotesNext == ASSUME TypesInv, QuotesInv, [Next]_vars PROVE QuotesInv'
<1>1. ASSUME NEW c \in Callers, Await(c), ~GetQuote(c), ~CreateRow(c) PROVE QuotesInv'
  <2>1. requests' = requests
    BY <1>1 DEF Await, CallFails, LookUpWallet, MintWallet, StoreAddress, AskVenue, FindWallet,
       NewVenueWallet, MigrateWallet, AttachAddress, CountAddress, FindGasWallet, MintGasWallet
  <2>2. RowsAreQuoted'
    BY <2>1 DEF QuotesInv, RowsAreQuoted
  <2>3. PICK new : Goes(c, new) /\ new.at # "create"
    BY <1>1, NotCreating
  <2> QED BY <2>2, <2>3, QuotesStep
<1>2. ASSUME NEW c \in Callers, GetQuote(c) PROVE QuotesInv'
  <2>0. PICK amount \in FromAmounts, o \in {x \in OrderIds : ~Taken(x)} :
          \E q \in Quotes(amount, call[c].source = "TATUM") :
            Goes(c, [Stays(c, "create") EXCEPT !.order = o, !.amount = amount, !.fee = q.fee, !.quoted = q.to])
    BY <1>2, ZenonT(60) DEF GetQuote
  <2>1. PICK q \in Quotes(amount, call[c].source = "TATUM") :
          Goes(c, [Stays(c, "create") EXCEPT !.order = o, !.amount = amount, !.fee = q.fee, !.quoted = q.to])
    BY <2>0, ZenonT(60)
  <2> DEFINE new == [Stays(c, "create") EXCEPT !.order = o, !.amount = amount, !.fee = q.fee, !.quoted = q.to]
  <2>2. amount \in Nat
    BY CreationAssumption
  <2>3. IsQuoted(amount, q.fee, q.to)
    BY <2>2, QuoteAddsUp
  <2>4. new.amount = amount /\ new.fee = q.fee /\ new.quoted = q.to
    <3>1. call[c] \in CallState
      BY DEF TypesInv
    <3>2. DOMAIN Stays(c, "create") = DOMAIN call[c]
      BY DEF Stays
    <3>3. {"amount", "fee", "quoted"} \subseteq DOMAIN call[c]
      BY <3>1 DEF CallState
    <3> HIDE DEF Stays
    <3> QED BY <3>2, <3>3
  <2>5. Goes(c, new) /\ requests' = requests
    BY <1>2, <2>1 DEF GetQuote
  <2> HIDE DEF new
  <2>6. RowsAreQuoted'
    BY <2>5 DEF QuotesInv, RowsAreQuoted
  <2> QED BY <2>3, <2>4, <2>5, <2>6, QuotesStep
<1>3. ASSUME NEW c \in Callers, CreateRow(c) PROVE QuotesInv'
  <2> DEFINE row == [pair |-> call[c].from, address |-> call[c].address, order |-> call[c].order,
                     fromAmount |-> call[c].amount, toAmount |-> call[c].quoted, feeAmount |-> call[c].fee]
  <2>1. At(c, "create") /\ Goes(c, Idle) /\ requests' = Append(requests, row)
    BY <1>3 DEF CreateRow
  <2>2. IsQuoted(row.fromAmount, row.feeAmount, row.toAmount)
    BY <2>1 DEF QuotesInv
  <2> HIDE DEF row
  <2>3. RowsAreQuoted'
    <3>1. requests \in Seq(RequestRow) /\ RowsAreQuoted
      BY DEF TypesInv, QuotesInv
    <3>2. \A i \in DOMAIN requests' : requests'[i] = row \/ (i \in DOMAIN requests /\ requests'[i] = requests[i])
      BY <2>1, <3>1
    <3> QED BY <2>2, <3>1, <3>2 DEF RowsAreQuoted
  <2> QED BY <2>1, <2>3, IdleFits, QuotesStep
<1>4. ASSUME NEW c \in Callers, NEW p \in Pairs, NEW q \in Pairs, CallStarts(c, p, q) PROVE QuotesInv'
  <2> DEFINE s   == source[NetworkOf[p]]
             at  == IF s = "TATUM" THEN "lookup" ELSE "venue"
             new == [Idle EXCEPT !.at = at, !.from = p, !.to = q, !.source = s, !.code = venue[p].code]
  <2>1. Goes(c, new) /\ requests' = requests
    BY <1>4 DEF CallStarts
  <2>2. new.at # "create"
    BY DEF Idle
  <2>3. RowsAreQuoted'
    BY <2>1 DEF QuotesInv, RowsAreQuoted
  <2> HIDE DEF new
  <2> QED BY <2>1, <2>2, <2>3, QuotesStep
<1>5. CASE ProviderChanges
  <2>1. requests' = requests /\ \A c \in Callers : call'[c].at = "idle"
    BY <1>5, IdleFits DEF ProviderChanges
  <2> QED BY <2>1 DEF QuotesInv, RowsAreQuoted, At
<1>6. CASE UNCHANGED <<requests, call>>
  BY <1>6 DEF QuotesInv, RowsAreQuoted, At
<1> QED BY <1>1, <1>2, <1>3, <1>4, <1>5, <1>6 DEF Next, SourceChanges, GasWalletDisabled, VenueChanges, vars

(* Every request that was created carries a quote of step 6: within the
   limits of its coin, and what it promises and its fee add up to its gross
   amount, whatever the calls, their failures and the operator do between the
   quote and the row. *)
THEOREM QuotesAreKept == Spec => []RowsAreQuoted
<1> DEFINE Inv == CreationInv /\ PairsInv /\ QuotesInv
<1>1. Init => Inv
  <2>1. Init => QuotesInv
    BY IdleFits DEF Init, QuotesInv, RowsAreQuoted, At
  <2> QED BY <2>1, CreationInit, PairsInit
<1>2. Inv /\ [Next]_vars => Inv'
  BY CreationNext, PairsNext, QuotesNext DEF CreationInv
<1>3. Inv => RowsAreQuoted
  BY DEF QuotesInv
<1> QED BY <1>1, <1>2, <1>3, PTL DEF Spec
===============================================================================
