-------------------------- MODULE MCTransactionView --------------------------
(* A swap whose results cross shards, sent with the nonce of a payment to  *)
(* oneself.  The results record the same transfer twice, the log of the    *)
(* first one has an event twice.                                           *)
EXTENDS TransactionView

Swap ==
    [sender |-> "alice", receiver |-> "alice", value |-> "0", type |-> "Transaction", nonce |-> 1,
     function |-> "MultiESDTNFTTransfer", args |-> <<"pair", "01", "TOK", "00", "5", "swapTokensFixedInput", "USD", "4">>]
Payment ==
    [sender |-> "alice", receiver |-> "bob", value |-> "1", type |-> "Transaction", nonce |-> 1, function |-> "", args |-> <<>>]

MCTx == [t \in Hashes |-> IF t = "swap" THEN Swap ELSE Payment]

MCResults ==
    [t \in Hashes |->
        IF t = "swap"
        THEN <<[hash |-> "s1", prevTxHash |-> "swap", nonce |-> 0, value |-> "7", sender |-> "pair", receiver |-> "alice"],
               [hash |-> "s2", prevTxHash |-> "s1", nonce |-> 0, value |-> "7", sender |-> "pair", receiver |-> "alice"],
               [hash |-> "s3", prevTxHash |-> "s2", nonce |-> 1, value |-> "2", sender |-> "pair", receiver |-> "alice"]>>
        ELSE <<>>]

Event(i, d, topics) == [identifier |-> i, address |-> "pair", data |-> d, topics |-> topics]

MCLogs ==
    [t \in Hashes |->
        IF t = "swap"
        THEN <<[id |-> "swap", address |-> "alice",
                events |-> <<Event("MultiESDTNFTTransfer", "", <<"TOK", "", "5", "USD", "", "4", "pair">>),
                             Event("transferValueOnly", "BackTransfer", <<"7", "alice">>),
                             Event("transferValueOnly", "AsyncCallback", <<"7", "alice">>)>>],
               [id |-> "s1", address |-> "pair",
                events |-> <<Event("ESDTTransfer", "", <<"USD", "", "4", "alice">>), Event("ESDTTransfer", "", <<"USD", "", "4", "alice">>),
                             Event("ESDTLocalBurn", "", <<"TOK", "", "5">>)>>],
               [id |-> "s2", address |-> "alice",
                events |-> <<Event("ESDTTransfer", "", <<"USD", "", "4", "alice">>), Event("writeLog", "", <<"alice">>), Event("signalError", "", <<"alice">>),
                             Event("completedTxEvent", "", <<>>)>>]>>
        ELSE <<>>]

MCMexSettings ==
    [distributionContract |-> "distribution", lockedAssetContract |-> "locked", routerFactoryContract |-> "router",
     farmContracts |-> {"farm"}, pairContracts |-> {"pair"}, wrapContracts |-> {"wrap"}]
=============================================================================
