--------------------------------- MODULE Sweep ---------------------------------
(***************************************************************************)
(* performSweepToExchange of lib/sweep.ts as a function of what it reads:  *)
(* the asked amount, the fee estimate and the balances of the deposit      *)
(* address and of the gas wallet.  Amounts are integers of the smallest    *)
(* unit: the code scales its decimal strings to eighteen digits, which is  *)
(* exact for every amount the ledger can hold.                             *)
(***************************************************************************)
EXTENDS Integers

GasFeeMultiplier == 2     \* transfer.ts always asks for twice the estimate
GasMinReserve    == 0

(* The gas an address must hold before anything is sent from it. *)
RequiredGas(fee) ==
  IF GasFeeMultiplier * fee > GasMinReserve THEN GasFeeMultiplier * fee ELSE GasMinReserve

SweepStatus == {"SWEEP_SENT", "GAS_TOPUP_SENT", "ERROR"}

(* sent: what leaves the deposit address for the destination; reported: the
   amount the caller is told; gas: what leaves the gas wallet for the address. *)
SweepResult == [status : SweepStatus, sent : Nat, reported : Nat, gas : Nat]

SweepError        == [status |-> "ERROR", sent |-> 0, reported |-> 0, gas |-> 0]
TopUpOf(gas)      == [status |-> "GAS_TOPUP_SENT", sent |-> 0, reported |-> 0, gas |-> gas]
Swept(sent, told) == [status |-> "SWEEP_SENT", sent |-> sent, reported |-> told, gas |-> 0]

(* An address without the gas gets it from the gas wallet, if that has it. *)
GasTopUp(fee, gasWallet) ==
  IF gasWallet < RequiredGas(fee) THEN SweepError ELSE TopUpOf(RequiredGas(fee))

(* Mutant of NativeSweep: the gas is not taken off what is sent. *)
NativeSweepUnreduced(amount, fee, native) == Swept(amount, amount)

(* Gas comes out of the balance that is swept: what the two together do not
   cover is taken off the amount, and the caller is told the full amount. *)
NativeSweep(amount, fee, native) ==
  LET rest == native - RequiredGas(fee)
  IN IF amount <= 0 THEN SweepError
     ELSE IF amount <= rest THEN Swept(amount, amount)
     ELSE IF rest <= 0 THEN SweepError
     ELSE Swept(rest, amount)

(* sendToken is asked for the amount; a contract refuses what it lacks. *)
TokenSweep(amount, token) ==
  IF amount > token THEN SweepError ELSE Swept(amount, amount)

(* The sends get a private key and nothing else.  sendNative and sendToken of
   the UTXO families, Solana, Algorand, Near, MultiversX, Cosmos, Sui and TON
   ask for a mnemonic, and those of Polkadot and Cardano are not implemented:
   byKey is FALSE there, and the exception becomes an ERROR. *)
PerformSweep(byKey, isNative, amount, fee, native, token, gasWallet) ==
  IF ~byKey THEN SweepError
  ELSE IF native < RequiredGas(fee) THEN GasTopUp(fee, gasWallet)
  ELSE IF isNative THEN NativeSweep(amount, fee, native)
  ELSE TokenSweep(amount, token)
===============================================================================
