------------------------------- MODULE Actions -------------------------------
(***************************************************************************)
(* What a transaction does, read from its data: the metadata (who sends    *)
(* which tokens to whom, and the function called) and the action the first *)
(* recognizer that knows it makes of them.                                 *)
(*                                                                         *)
(* A transaction has its data decoded: a function and a sequence of        *)
(* arguments, "?" for an argument that is not hex.  A relayed one has      *)
(* `inner', the transactions it carries: the one in it, the one in that,   *)
(* and so on.  Amounts, nonces, addresses and identifiers are strings;     *)
(* texts of descriptions are left out.                                     *)
(***************************************************************************)
EXTENDS Naturals, Sequences, SequencesExt

CONSTANTS
    KnownTokens,    \* the identifiers that have properties
    SmartContracts, \* the addresses of contracts
    People,         \* the other valid addresses
    Providers,      \* the staking providers
    EsdtContract, MetabondingContract, DeployAddress,
    MexActive,      \* is the URL of the exchange configured
    MexSettings     \* the contracts of the exchange

ASSUME ActionsAssumption ==
    /\ MexActive \in BOOLEAN
    /\ Providers \subseteq SmartContracts /\ SmartContracts \cap People = {}

\* The count of transfers an argument holds, and the arguments short enough to be one.
TransferCount == [n \in {"01", "02"} |-> IF n = "01" THEN 1 ELSE 2]
IsShort(a) == a \in DOMAIN TransferCount
isValidHexAddress(a) == a \in SmartContracts \cup People

\* undefined, and what an exception leaves.
NoMetadata == [is |-> "undefined"]
NoAction == [category |-> "undefined"]
ThrownMetadata == [is |-> "thrown"]
Thrown == [category |-> "thrown"]

Metadata(s, r, v, f, args) ==
    [is |-> "metadata", sender |-> s, receiver |-> r, value |-> v, functionName |-> f, functionArgs |-> args,
     hasTransfers |-> FALSE, transfers |-> <<>>]

\* What the fields and the data of a transaction say; data that is not hex says nothing.
OwnMetadata(t) ==
    LET hex == "?" \notin Range(t.args)
    IN  Metadata(t.sender, t.receiver, t.value, IF hex THEN t.function ELSE "", IF hex THEN t.args ELSE <<>>)

HasCall(t, f, n) == OwnMetadata(t).functionName = f /\ Len(OwnMetadata(t).functionArgs) = n

\* The transaction `inner' that a relayed one, t, carries: version 2 has no sender and no
\* value of its own.
InnerV1(t, inner) == inner
InnerV2(t, inner) == [inner EXCEPT !.sender = t.receiver, !.value = "0", !.type = ""]

Carried(t) == IF "inner" \in DOMAIN t THEN t.inner ELSE <<>>

\* The transaction that the metadata is of; one that carries none that can be read is read
\* for itself.
Innermost(t) ==
    LET at[n \in 0..Len(Carried(t))] ==
          IF n = 0 THEN t
          ELSE IF HasCall(at[n - 1], "relayedTx", 1) THEN InnerV1(at[n - 1], Carried(t)[n])
          ELSE IF HasCall(at[n - 1], "relayedTxV2", 4) THEN InnerV2(at[n - 1], Carried(t)[n])
          ELSE at[n - 1]
    IN  at[Len(Carried(t))]

\* The token transfers of a contract's result go to its receiver: they are put as an account
\* that sends to itself puts them.
ScResultMetadata_NoAddress(m) ==
    IF m.functionName = "MultiESDTNFTTransfer" /\ Len(m.functionArgs) > 0
    THEN [m EXCEPT !.receiver = m.sender]
    ELSE IF m.functionName = "ESDTNFTTransfer" /\ Len(m.functionArgs) > 3
    THEN [m EXCEPT !.functionArgs[4] = m.receiver, !.receiver = m.sender]
    ELSE m

ScResultMetadata(m) ==
    IF m.functionName = "MultiESDTNFTTransfer" /\ Len(m.functionArgs) > 0
    THEN [m EXCEPT !.functionArgs = IF IsShort(@[1]) THEN <<m.receiver>> \o @ ELSE @,
                   !.receiver = m.sender]
    ELSE IF m.functionName = "ESDTNFTTransfer" /\ Len(m.functionArgs) > 3
    THEN [m EXCEPT !.functionArgs[4] = m.receiver, !.receiver = m.sender]
    ELSE m

getNormalTransactionMetadata(t) ==
    LET i == Innermost(t)
    IN  IF i.type = "SmartContractResult" THEN ScResultMetadata(OwnMetadata(i)) ELSE OwnMetadata(i)

\* The function called with the transfer, and its arguments, from the n-th argument on.
CallFrom(m, args, n) ==
    IF Len(args) < n THEN m
    ELSE [m EXCEPT !.functionName = args[n], !.functionArgs = SubSeq(args, n + 1, Len(args))]

WithTransfers(m, ts) == [m EXCEPT !.hasTransfers = TRUE, !.transfers = ts]
Transfer(i, n, v) == [identifier |-> i, nonce |-> n, value |-> v]
Fungible(i, v) == Transfer(i, "", v)

getEsdtTransactionMetadata(m) ==
    LET args == m.functionArgs
    IN  IF m.functionName # "ESDTTransfer" \/ Len(args) < 2 \/ args[1] \notin KnownTokens
        THEN NoMetadata
        ELSE WithTransfers(CallFrom(Metadata(m.sender, m.receiver, m.value, "", <<>>), args, 3), <<Fungible(args[1], args[2])>>)

getNftTransferMetadata(m) ==
    LET args == m.functionArgs
    IN  IF \/ m.sender # m.receiver \/ m.functionName # "ESDTNFTTransfer" \/ Len(args) < 4
           \/ ~isValidHexAddress(args[4]) \/ args[1] \notin KnownTokens
        THEN NoMetadata
        ELSE WithTransfers(CallFrom(Metadata(m.sender, args[4], args[3], "", <<>>), args, 5),
                           <<Transfer(args[1], args[2], args[3])>>)

\* Tokens without properties are left out of the transfers; arguments that run out throw.
getMultiTransferMetadata(m) ==
    LET args == m.functionArgs
        n == IF IsShort(args[2]) THEN TransferCount[args[2]] ELSE 0
        known == SelectSeq([i \in 1..n |-> SubSeq(args, 3 * i, 3 * i + 2)], LAMBDA a : a[1] \in KnownTokens)
    IN  IF \/ m.sender # m.receiver \/ m.functionName # "MultiESDTNFTTransfer" \/ Len(args) < 3
           \/ ~isValidHexAddress(args[1])
        THEN NoMetadata
        ELSE IF Len(args) < 2 + 3 * n THEN ThrownMetadata
        ELSE WithTransfers(CallFrom(Metadata(m.sender, args[1], "0", "", <<>>), args, 3 * n + 3),
                           [i \in 1..Len(known) |-> Transfer(known[i][1], IF known[i][2] = "00" THEN "" ELSE known[i][2], known[i][3])])

getTransactionMetadata(t) ==
    LET m == getNormalTransactionMetadata(t)
        esdt == getEsdtTransactionMetadata(m)
        nft == getNftTransferMetadata(m)
        multi == getMultiTransferMetadata(m)
    IN  IF esdt # NoMetadata THEN esdt ELSE IF nft # NoMetadata THEN nft ELSE IF multi # NoMetadata THEN multi ELSE m

-----------------------------------------------------------------------------
(* The recognizers.                                                        *)

Action(c, n, m, ts) ==
    [category |-> c, name |-> n, transfers |-> ts, receiver |-> m.receiver, functionName |-> m.functionName]

getMultiTransferAction(m, c, n) == IF m.hasTransfers THEN Action(c, n, m, m.transfers) ELSE NoAction

recognizeFreeze(m) ==
    IF m.functionName # "freeze" \/ m.receiver # EsdtContract THEN NoAction
    ELSE IF m.functionArgs = <<>> THEN Thrown
    ELSE IF m.functionArgs[1] \notin KnownTokens \/ Len(m.functionArgs) < 2 THEN NoAction
    ELSE IF ~isValidHexAddress(m.functionArgs[2]) THEN NoAction
    ELSE Action("esdtNft", "freeze", m, <<>>)

recognizeBurn(m) ==
    IF m.functionName # "ESDTNFTBurn" THEN NoAction
    ELSE IF m.functionArgs = <<>> THEN Thrown
    ELSE IF m.functionArgs[1] \notin KnownTokens THEN NoAction
    ELSE Action("esdtNft", "burn", m, <<>>)

FirstOf(as) ==
    LET found == {i \in DOMAIN as : as[i] # NoAction}
    IN  IF found = {} THEN NoAction ELSE as[CHOOSE i \in found : \A j \in found : i <= j]

esdtNftRecognize(m) ==
    FirstOf(<<getMultiTransferAction(m, "esdtNft", "transfer"), recognizeFreeze(m), recognizeBurn(m)>>)

stakeRecognize(m) ==
    CASE m.receiver \notin Providers -> NoAction
      [] m.functionName \in {"delegate", "stake"} -> Action("stake", "delegate", m, <<Fungible("EGLD", m.value)>>)
      [] m.functionName \in {"unDelegate", "claimRewards", "reDelegateRewards", "withdraw"} ->
            Action("stake", m.functionName, m, <<>>)
      [] OTHER -> NoAction

builtInSelfFunctions ==
    {"ESDTLocalMint", "ESDTLocalBurn", "ESDTNFTCreate", "ESDTNFTAddQuantity", "ESDTNFTAddURI", "ESDTNFTUpdateAttributes", "SaveKeyValue"}

isSmartContractCall(m) ==
    m.receiver \in SmartContracts \/ (m.sender = m.receiver /\ m.functionName \in builtInSelfFunctions)

scCallRecognize(m) ==
    CASE m.receiver = DeployAddress -> Action("scCall", "deploy", m, <<>>)
      [] m.receiver # DeployAddress /\ isSmartContractCall(m) /\ m.functionName # "" -> Action("scCall", m.functionName, m, <<>>)
      [] OTHER -> NoAction

metabondingRecognize(m) ==
    IF m.receiver = MetabondingContract /\ m.functionName = "claimRewards"
    THEN Action("mex", "claimRewards", m, <<>>) ELSE NoAction

\* The name of the action of each function of a farm; the proxies have those of what they stand for.
FarmActions ==
    [f \in {"enterFarm", "enterFarmAndLockRewards", "stakeFarm", "stakeFarmTokens"} |-> "enterFarm"]
    @@ [f \in {"exitFarm", "unstakeFarm", "unstakeFarmTokens"} |-> "exitFarm"]
    @@ [f \in {"claimRewards", "claimDualYield"} |-> "claimRewards"]
    @@ [f \in {"compoundRewards", "unbondFarm"} |-> f]

farmRecognize(m) ==
    IF m.receiver \in MexSettings.farmContracts /\ m.functionName \in DOMAIN FarmActions
    THEN getMultiTransferAction(m, "mex", FarmActions[m.functionName]) ELSE NoAction

wrapRecognize(m) ==
    CASE m.receiver \notin MexSettings.wrapContracts -> NoAction
      [] m.functionName = "wrapEgld" -> Action("mex", "wrapEgld", m, <<Fungible("EGLD", m.value)>>)
      [] m.functionName = "unwrapEgld" -> getMultiTransferAction(m, "mex", "unwrapEgld")
      [] OTHER -> NoAction

lockedAssetRecognize(m) ==
    CASE m.receiver # MexSettings.lockedAssetContract -> NoAction
      [] m.functionName \in {"lockAssets", "unlockAssets"} -> getMultiTransferAction(m, "mex", m.functionName)
      [] m.functionName = "mergeLockedAssetTokens" /\ m.transfers # <<>> -> getMultiTransferAction(m, "mex", m.functionName)
      [] OTHER -> NoAction

distributionRecognize(m) ==
    IF m.receiver = MexSettings.distributionContract /\ m.functionName = "claimLockedAssets"
    THEN Action("mex", "claimLockedAssets", m, <<>>) ELSE NoAction

\* What the pair recognizer answers, and the metadata it leaves: it adds the tokens that are
\* bought to the transfers.
Recognized(a, m) == [action |-> a, metadata |-> m]

getSwapAction(m) ==
    LET args == m.functionArgs
        bought == [m EXCEPT !.transfers = Append(@, Fungible(args[1], args[2]))]
    IN  IF m.transfers = <<>> THEN Recognized(NoAction, m)
        ELSE IF Len(args) < 2 THEN Recognized(Thrown, m)
        ELSE IF args[1] \notin KnownTokens THEN Recognized(NoAction, m)
        ELSE Recognized(getMultiTransferAction(bought, "mex", "swap"), bought)

\* Four arguments a swap; a token without properties ends it, with the ones before it added.
getMultiSwapAction(m) ==
    LET args == m.functionArgs
        swaps == Len(args) \div 4
        unknown == {i \in 1..swaps : args[4 * i - 1] \notin KnownTokens}
        upTo(n) == [m EXCEPT !.transfers = @ \o [i \in 1..n |-> Fungible(args[4 * i - 1], args[4 * i])]]
        first == CHOOSE i \in unknown : \A j \in unknown : i <= j
    IN  IF m.transfers = <<>> THEN Recognized(NoAction, m)
        ELSE IF unknown # {} THEN Recognized(NoAction, upTo(first - 1))
        ELSE IF Len(args) % 4 # 0 THEN Recognized(Thrown, m)
        ELSE Recognized(getMultiTransferAction(upTo(swaps), "mex", "multiSwap"), upTo(swaps))

pairRecognize(m) ==
    CASE m.receiver \notin MexSettings.pairContracts \cup {MexSettings.routerFactoryContract} -> Recognized(NoAction, m)
      [] m.functionName \in {"swapTokensFixedInput", "swapTokensFixedOutput"} -> getSwapAction(m)
      [] m.functionName \in {"addLiquidity", "removeLiquidity"} -> Recognized(getMultiTransferAction(m, "mex", m.functionName), m)
      [] m.functionName = "multiPairSwap" -> getMultiSwapAction(m)
      [] OTHER -> Recognized(NoAction, m)

isMexInteraction(m) ==
    m.receiver \in {MexSettings.distributionContract, MexSettings.lockedAssetContract, MexSettings.routerFactoryContract}
                   \cup MexSettings.farmContracts \cup MexSettings.pairContracts \cup MexSettings.wrapContracts

mexRecognize(m) ==
    LET pair == pairRecognize(m)
    IN  IF ~isMexInteraction(m) THEN Recognized(NoAction, m)
        ELSE IF distributionRecognize(m) # NoAction THEN Recognized(distributionRecognize(m), m)
        ELSE Recognized(FirstOf(<<pair.action, farmRecognize(pair.metadata), wrapRecognize(pair.metadata),
                                  lockedAssetRecognize(pair.metadata)>>), pair.metadata)

getTransactionAction(t) ==
    LET m == getTransactionMetadata(t)
        mex == IF MexActive THEN mexRecognize(m) ELSE Recognized(NoAction, m)
        left == mex.metadata
    IN  IF m = ThrownMetadata THEN Thrown
        ELSE FirstOf(<<mex.action, metabondingRecognize(left), esdtNftRecognize(left), stakeRecognize(left), scCallRecognize(left)>>)
=============================================================================
