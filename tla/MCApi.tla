-------------------------------- MODULE MCApi --------------------------------
(* A small index: in each of its parts a plain document and others that    *)
(* differ from it in the fields the filters are about.                     *)
EXTENDS Api

MCAddresses == {"alice", "bob", "sc"}
MCContracts == {"sc"}

Operation ==
    [hash |-> "h0", type |-> "normal", sender |-> "alice", receiver |-> "bob", receivers |-> {}, relayer |-> "",
     relayerAddr |-> "", isFirstResult |-> FALSE, function |-> "swap", operation |-> "transfer", value |-> "1",
     tokens |-> {}, senderShard |-> 0, receiverShard |-> 0, miniBlockHash |-> "m0", status |-> "success",
     timestamp |-> 1, round |-> 1, isScCall |-> FALSE, isRelayed |-> FALSE, canBeIgnored |-> FALSE,
     originalTxHash |-> ""]

MCOperations ==
    {r @@ Operation : r \in
        {[hash |-> "h0"],
         [hash |-> "h1", sender |-> "bob", receiver |-> "carol"],
         [hash |-> "h2", receiver |-> "carol", receivers |-> {"bob"}],
         [hash |-> "h3", function |-> "", operation |-> "swap"],
         [hash |-> "h4", function |-> "", tokens |-> {"TOK", "COL", "COL-01"}, value |-> "0", isScCall |-> TRUE, receiver |-> "sc"],
         [hash |-> "h5", tokens |-> {"TOK"}, senderShard |-> 1, receiverShard |-> 1, miniBlockHash |-> "m1",
          status |-> "fail", timestamp |-> 2, round |-> 2],
         [hash |-> "h6", tokens |-> {"COL", "COL-01"}, isRelayed |-> TRUE, relayer |-> "carol", relayerAddr |-> "carol"],
         [hash |-> "h7", type |-> "unsigned", sender |-> "sc", originalTxHash |-> "h4"],
         [hash |-> "h8", type |-> "unsigned", sender |-> "sc", receiver |-> "alice", receivers |-> {"bob"},
          relayerAddr |-> "carol", isFirstResult |-> TRUE, tokens |-> {"TOK"}, originalTxHash |-> "h6"],
         [hash |-> "h9", type |-> "unsigned", sender |-> "sc", canBeIgnored |-> TRUE, miniBlockHash |-> "m1",
          originalTxHash |-> "h5"]}}

Account ==
    [address |-> "alice", name |-> "", currentOwner |-> "", tags |-> {}, assets |-> FALSE, balance |-> 1]

MCAccounts ==
    {r @@ Account : r \in
        {[address |-> "alice"], [address |-> "bob", name |-> "Bob", tags |-> {"dex"}, assets |-> TRUE],
         [address |-> "carol", balance |-> 0, tags |-> {"dex", "bridge"}],
         [address |-> "sc", currentOwner |-> "alice", name |-> "Bob", balance |-> 0]}}

NoRoles == [r \in {CollectionRoles[k] : k \in DOMAIN CollectionRoles} \cup {"ESDTRoleLocalMint", "ESDTRoleLocalBurn"} |-> {}]

Token ==
    [token |-> "TOK", identifier |-> "", type |-> "FungibleESDT", name |-> "Tok", currentOwner |-> "alice", roles |-> NoRoles,
     timestamp |-> 1, nonce |-> 0, address |-> "", tags |-> {}, creator |-> "alice", nonEmptyURIs |-> FALSE,
     whiteListedStorage |-> FALSE, scamInfoType |-> "", traits |-> {}, nsfw_mark |-> 0, subType |-> "FungibleESDT",
     mexPairType |-> "", priceSource |-> ""]

Nft == [token |-> "COL", identifier |-> "COL-01", type |-> "NonFungibleESDT", name |-> "Nft", nonce |-> 1] @@ Token

MCTokens ==
    {r @@ Token : r \in
        {[token |-> "TOK", roles |-> [NoRoles EXCEPT !.ESDTRoleLocalMint = {"alice"}, !.ESDTRoleLocalBurn = {"bob"}]],
         [token |-> "OLD", currentOwner |-> "bob"],
         [token |-> "WEGLD", name |-> "Wegld"], [token |-> "CUSTOM"], [token |-> "THIN"],
         [token |-> "META", type |-> "MetaESDT", currentOwner |-> "bob", roles |-> [NoRoles EXCEPT !.ESDTRoleNFTCreate = {"alice"}]],
         [token |-> "COL", type |-> "NonFungibleESDT", name |-> "Col",
          roles |-> [NoRoles EXCEPT !.ESDTRoleNFTCreate = {"bob"}, !.ESDTRoleNFTBurn = {"alice", "bob"}, !.ESDTRoleNFTAddURI = {"alice"}]],
         [token |-> "SFT", type |-> "SemiFungibleESDT", timestamp |-> 2, currentOwner |-> "bob",
          roles |-> [NoRoles EXCEPT !.ESDTTransferRole = {"bob"}, !.ESDTRoleNFTAddQuantity = {"alice"}, !.ESDTRoleNFTUpdateAttributes = {"alice"}]],
         [token |-> "LOST", type |-> "NonFungibleESDT"]}}
    \cup {r @@ Nft : r \in
        {[identifier |-> "COL-01"],
         [identifier |-> "COL-02", nonce |-> 2, tags |-> {"art", "cat"}, nonEmptyURIs |-> TRUE, scamInfoType |-> "scam", timestamp |-> 2],
         [identifier |-> "COL-03", type |-> "DynamicNonFungibleESDT", nonce |-> 3, tags |-> {"art"}, creator |-> "bob", nsfw_mark |-> 2,
          whiteListedStorage |-> TRUE, traits |-> {"hat"}],
         [identifier |-> "SFT-01", token |-> "SFT", type |-> "SemiFungibleESDT", name |-> "Sft"],
         [identifier |-> "META-01", token |-> "META", type |-> "MetaESDT"]}}

\* The balances of an account: the tokens it holds.
MCAccountsEsdt ==
    {[address |-> "alice", balance |-> 1] @@ t : t \in {t \in MCTokens : t.token = "TOK" \/ t.identifier \in {"COL-01", "COL-02", "SFT-01"}}}
    \cup {[address |-> "bob", balance |-> 1] @@ t : t \in {t \in MCTokens : t.token = "OLD" \/ t.identifier \in {"COL-03", "SFT-01", "META-01"}}}
    \cup {[address |-> "sc", balance |-> 1] @@ t : t \in {t \in MCTokens : t.token \in {"TOK", "OLD"} \/ t.identifier = "META-01"}}
    \cup {[address |-> "pending", balance |-> 1] @@ t : t \in {t \in MCTokens : t.token = "TOK"}}

\* "OLD" is not among the tokens of the gateway, nor has "LOST" properties there.  "THIN" has
\* next to no liquidity on the exchange, and "HUGE" is worth more than can be.
MCFungibleTokens == {"TOK", "WEGLD", "CUSTOM", "THIN", "HUGE"}
MCProperties ==
    [i \in MCFungibleTokens \cup {"OLD", "META", "COL", "SFT"} |->
        [name |-> IF i = "WEGLD" THEN "Wegld" ELSE "Tok",
         type |-> CASE i = "META" -> "MetaESDT" [] i = "COL" -> "NonFungibleESDT" [] i = "SFT" -> "SemiFungibleESDT"
                    [] OTHER -> "FungibleESDT"]]

Asset == [name |-> "", priceSource |-> "", lockedAccounts |-> {}, extraTokens |-> {}]
MCAssets ==
    [WEGLD |-> [Asset EXCEPT !.priceSource = "dataApi"], TOK |-> [Asset EXCEPT !.lockedAccounts = {"sc", "pending"}],
     CUSTOM |-> [Asset EXCEPT !.priceSource = "customUrl", !.name = "Own"], META |-> [Asset EXCEPT !.priceSource = "customUrl"],
     OLD |-> [Asset EXCEPT !.extraTokens = {"TOK"}]]

MCSupplies == [i \in DOMAIN MCProperties |-> CASE i = "THIN" -> 500 [] i = "HUGE" -> 2000 [] OTHER -> 10]
MCDataApiPrices == [EGLD |-> 6, WEGLD |-> 6, TOK |-> 4, HUGE |-> 1]
MCCustomPrices == [CUSTOM |-> 2, META |-> 3]
MCMexTokenTypes == [WEGLD |-> "core", THIN |-> "experimental"]

Listed ==
    [token |-> "TOK", identifier |-> "", name |-> "Tok", type |-> "FungibleESDT", subType |-> "", mexPairType |-> "", priceSource |-> ""]
MCAllTokens ==
    {r @@ Listed : r \in
        {[token |-> "TOK"], [token |-> "HUGE"], [token |-> "EGLD-000000", name |-> "EGLD"],
         [token |-> "WEGLD", name |-> "Wegld", mexPairType |-> "core", priceSource |-> "dataApi"],
         [token |-> "CUSTOM", name |-> "Own", priceSource |-> "customUrl"], [token |-> "THIN", mexPairType |-> "experimental"],
         [token |-> "META", type |-> "MetaESDT", subType |-> "MetaESDT", priceSource |-> "customUrl"]}}

MCPublicKeys == (<<0, 1>> :> <<"v0", "v1">>) @@ (<<1, 1>> :> <<"v2">>) @@ (<<0, 2>> :> <<"v1", "v0">>) @@ (<<0, 0>> :> <<"v1">>)

\* The node at a position changes with the epoch; the last blocks have the key of the proposer.
Block ==
    [hash |-> "b0", nonce |-> 2, round |-> 2, timestamp |-> 2, shardId |-> 0, epoch |-> 1, proposer |-> 0, proposerBlsKey |-> "",
     validators |-> {0, 1}]

MCBlocks ==
    {r @@ Block : r \in
        {[hash |-> "b0"], [hash |-> "b1", nonce |-> 3, round |-> 3, timestamp |-> 3, proposer |-> 1],
         [hash |-> "b2", shardId |-> 1, validators |-> {0}],
         [hash |-> "b3", epoch |-> 2, nonce |-> 4, round |-> 4, timestamp |-> 4, proposerBlsKey |-> "v0", validators |-> {}],
         [hash |-> "b4", epoch |-> 0, nonce |-> 0, round |-> 0, timestamp |-> 0, validators |-> {}]}}

MCRounds ==
    {[shardId |-> b.shardId, epoch |-> b.epoch, round |-> b.round, signersIndexes |-> b.validators, signed |-> b.epoch < 2] : b \in MCBlocks}

Event ==
    [txHash |-> "h0", address |-> "alice", logAddress |-> "sc", identifier |-> "swap", shardID |-> 0, order |-> 0,
     timestamp |-> 1, topics |-> {}]

MCEvents ==
    {r @@ Event : r \in
        {[txHash |-> "h0"], [txHash |-> "h1", shardID |-> 1, order |-> 1, topics |-> {"t"}],
         [txHash |-> "h2", address |-> "bob", identifier |-> "claim", timestamp |-> 2, logAddress |-> "bob"]}}

MCScDeploys ==
    {[address |-> "sc", deployer |-> "alice", currentOwner |-> "bob", timestamp |-> 1],
     [address |-> "sc2", deployer |-> "bob", currentOwner |-> "bob", timestamp |-> 2]}

MCHistory ==
    {[address |-> a, token |-> t, identifier |-> i, timestamp |-> s] :
        a \in {"alice", "bob"}, t \in {"TOK", "COL"}, i \in {"TOK", "COL-01"}, s \in {1, 2}}

MCShardOf == [alice |-> 0, bob |-> 1, sc |-> 0]

MCTxPool ==
    [regularTransactions |->
        {[hash |-> "p0", sender |-> "alice", receiver |-> "bob", function |-> ""],
         [hash |-> "p1", sender |-> "bob", receiver |-> "bob", function |-> "swap"]},
     smartContractResults |-> {[hash |-> "p2", sender |-> "alice", receiver |-> "sc", function |-> "claim"]},
     rewards |-> {[hash |-> "p3", sender |-> "", receiver |-> "bob", function |-> ""]}]

\* The gateway knows an account the index does not have yet.
MCGatewayAccounts ==
    [a \in {"alice", "bob", "carol", "sc", "dan"} |-> [balance |-> 1, ownerAddress |-> IF a = "sc" THEN "alice" ELSE ""]]

-----------------------------------------------------------------------------
(* Nodes with and without an identity and a provider, one in auction.      *)

Node ==
    [bls |-> "n0", name |-> "Node", version |-> "v1", online |-> TRUE, type |-> "validator", status |-> "eligible", shard |-> 0,
     issues |-> {}, identity |-> "", provider |-> "", owner |-> "alice", auctioned |-> "", fullHistory |-> FALSE,
     isInDangerZone |-> FALSE, auctionQualified |-> ""]

MCNodeList ==
    {r @@ Node : r \in
        {[bls |-> "n0"],
         [bls |-> "n1", identity |-> "id", provider |-> "sc", owner |-> "sc", online |-> FALSE, issues |-> {"offline"}],
         [bls |-> "n2", identity |-> "id", provider |-> "sc", owner |-> "sc", status |-> "auction", auctioned |-> "true",
          auctionQualified |-> "true", shard |-> 1],
         [bls |-> "n3", type |-> "observer", version |-> "v2", fullHistory |-> TRUE, owner |-> ""],
         [bls |-> "n4", status |-> "auction", auctioned |-> "true", auctionQualified |-> "false", isInDangerZone |-> TRUE]}}

MCProviderList ==
    {[provider |-> "sc", identity |-> "id", owner |-> "alice"], [provider |-> "sc2", identity |-> "", owner |-> "bob"]}
MCIdentityList == {[identity |-> "id", locked |-> 2], [identity |-> "", locked |-> 1], [identity |-> "other", locked |-> 0]}
MCDelegators == {[contract |-> "sc", address |-> "bob"], [contract |-> "sc", address |-> "alice"], [contract |-> "sc2", address |-> "bob"]}

MCNodeStates == [a \in {"sc", "sc2"} |-> <<"staked", "n1", "n2", "notStaked", "n5", "n6", "jailed", "n7">>]
MCBlsKeysStatus == [alice |-> <<"n0", "staked", "n4", "jailed">>, bob |-> <<>>, sc |-> <<"n1", "staked", "n2", "queued">>]
MCWaitingListEncoded == <<"bob", 5, 1, "alice", 2, 1, "bob", 1, 2>>

Pair ==
    [id |-> "A", first |-> "MEX", second |-> "WEGLD", state |-> "Active", type |-> "Core", lockedValue |-> 4, volume24h |-> 1,
     tradesCount |-> 2, firstPrice |-> 2, secondPrice |-> 5, price |-> 1]
MCExchangePairs ==
    {r @@ Pair : r \in
        {[id |-> "A"], [id |-> "B", first |-> "WEGLD", second |-> "USDC", lockedValue |-> 9],
         [id |-> "C", first |-> "WEGLD", second |-> "TOK", type |-> "Community"], [id |-> "D", second |-> "USDC", lockedValue |-> 3],
         [id |-> "E", first |-> "MEX", second |-> "TOK", type |-> "Experimental"], [id |-> "F", state |-> "Inactive"],
         [id |-> "G", first |-> "OLD", type |-> "Unlisted"], [id |-> "H", first |-> "NEW", type |-> "Jungle"],
         [id |-> "I", first |-> "THIN", type |-> "Experimental"], [id |-> "J", first |-> "CUSTOM", lockedValue |-> 1]}}
MCExchangeFarms == {[type |-> "standard", id |-> "F1", price |-> 1], [type |-> "metastaking", id |-> "F2", price |-> 1]}

Auction ==
    [auctionId |-> 1, identifier |-> "COL-01", collection |-> "COL", owner |-> "alice", status |-> "running", started |-> TRUE]
MCAuctions ==
    {r @@ Auction : r \in
        {[auctionId |-> 1], [auctionId |-> 2, owner |-> "bob"], [auctionId |-> 3, identifier |-> "SFT-01", collection |-> "SFT"],
         [auctionId |-> 4, status |-> "ended"], [auctionId |-> 5, identifier |-> "COL-03", started |-> FALSE]}}

-----------------------------------------------------------------------------
(* Transactions to decode: each function of each contract, alone and with  *)
(* each kind of transfer.                                                  *)

MCMexSettings ==
    [distributionContract |-> "distribution", lockedAssetContract |-> "locked", routerFactoryContract |-> "router",
     farmContracts |-> {"farm"}, pairContracts |-> {"pair"}, wrapContracts |-> {"wrap"}]

Calls ==
    {<<"farm", f>> : f \in {<<"enterFarm">>, <<"claimRewards">>, <<"unknown">>}}
    \cup {<<"pair", f>> : f \in {<<"swapTokensFixedInput", "USD", "4">>, <<"swapTokensFixedInput", "NEW", "4">>,
                                <<"swapTokensFixedOutput">>, <<"addLiquidity">>}}
    \cup {<<"router", f>> : f \in {<<"multiPairSwap", "pair", "f", "USD", "4", "pair", "f", "TOK", "3">>,
                                  <<"multiPairSwap", "pair", "f", "USD", "4", "pair", "f", "NEW", "3">>,
                                  <<"multiPairSwap", "pair", "f", "USD", "4", "pair">>}}
    \cup {<<"wrap", f>> : f \in {<<"wrapEgld">>, <<"unwrapEgld">>}}
    \cup {<<"locked", f>> : f \in {<<"lockAssets">>, <<"mergeLockedAssetTokens">>}}
    \cup {<<"distribution", <<"claimLockedAssets">>>>, <<"metabonding", <<"claimRewards", "01", "1", "1", "s">>>>,
          <<"esdt", <<"freeze", "TOK", "bob">>>>, <<"esdt", <<"freeze", "TOK", "?">>>>, <<"esdt", <<"freeze">>>>,
          <<"alice", <<"ESDTNFTBurn", "COL", "01", "1">>>>, <<"alice", <<"ESDTNFTCreate", "COL">>>>,
          <<"deploy", <<"code">>>>, <<"bob", <<>>>>, <<"bob", <<"hello", "?">>>>}
    \cup {<<"provider", f>> : f \in {<<"delegate">>, <<"unDelegate", "1">>, <<"claimRewards">>, <<"other">>}}

Sent(r, v, f, args) ==
    [sender |-> "alice", receiver |-> r, value |-> v, type |-> "Transaction", function |-> f, args |-> args]

MCDecodable ==
    {Sent(c[1], v, IF c[2] = <<>> THEN "" ELSE Head(c[2]), IF c[2] = <<>> THEN <<>> ELSE Tail(c[2])) : c \in Calls, v \in {"0", "1"}}
    \cup {Sent(c[1], "0", "ESDTTransfer", <<t, "5">> \o c[2]) : c \in Calls, t \in {"TOK", "NEW"}}
    \cup {Sent("alice", "0", "ESDTNFTTransfer", <<"COL", "01", "1", c[1]>> \o c[2]) : c \in Calls}
    \cup {Sent("alice", "0", "MultiESDTNFTTransfer", <<c[1]>> \o ts \o c[2]) : c \in Calls,
            ts \in {<<"01", "TOK", "00", "5">>, <<"02", "TOK", "00", "5", "COL", "01", "1">>, <<"02", "NEW", "00", "5", "COL", "01", "1">>}}
    \cup {Sent("alice", "0", "MultiESDTNFTTransfer", <<"bob", "02", "TOK", "00">>), Sent("bob", "0", "ESDTNFTTransfer", <<"COL">>)}

\* The first sender pays more for the later transaction.
MCPoolTransactions ==
    {[sender |-> "alice", nonce |-> 1, gasLimit |-> 4, gasPrice |-> 1, dataLength |-> 0, rank |-> 1],
     [sender |-> "alice", nonce |-> 2, gasLimit |-> 8, gasPrice |-> 5, dataLength |-> 1, rank |-> 2],
     [sender |-> "bob", nonce |-> 1, gasLimit |-> 6, gasPrice |-> 3, dataLength |-> 0, rank |-> 3],
     [sender |-> "carol", nonce |-> 1, gasLimit |-> 10, gasPrice |-> 2, dataLength |-> 2, rank |-> 4],
     [sender |-> "dan", nonce |-> 1, gasLimit |-> 10, gasPrice |-> 2, dataLength |-> 2, rank |-> 5]}

-----------------------------------------------------------------------------
(* The values of the parameters: one or two that are met, one that is not. *)

Times == [before |-> {0, 1}, after |-> {2}]
Types == {{"NonFungibleESDT"}, {"SemiFungibleESDT", "MetaESDT"}}
Subtypes == {{"DynamicNonFungibleESDT"}, {"MetaESDT"}}

OperationValues ==
    [sender |-> {"alice", "bob"}, receiver |-> {{"bob"}, {"alice", "carol"}}, senderShard |-> {0, 1}, receiverShard |-> {1},
     miniBlockHash |-> {"m1"}, hashes |-> {{"h1", "h5"}, {"h7"}}, status |-> {"success"}, token |-> {"TOK", "EGLD"},
     function |-> {{"swap"}, {""}}, round |-> {0, 2}, senderOrReceiver |-> {"bob"}, isRelayed |-> BOOLEAN, isScCall |-> {TRUE},
     withRelayedScresults |-> {TRUE}, relayer |-> {"carol"}, condition |-> {"should"}, withRefunds |-> {TRUE},
     withTxsRelayedByAddress |-> {TRUE}] @@ Times

MCValues ==
    [none |-> <<>>,
     accounts |->
        [ownerAddress |-> {"alice"}, isSmartContract |-> BOOLEAN, name |-> {"Bob"}, tags |-> {{"bridge"}, {"dex"}},
         excludeTags |-> {{"dex"}}, hasAssets |-> BOOLEAN, search |-> {"Bob"}, sort |-> {"balance", "transfersLast24h"},
         addresses |-> {{"bob", "sc"}}, withBalance |-> BOOLEAN],
     tokens |->
        [type |-> {"FungibleESDT", "MetaESDT"}, subType |-> {"FungibleESDT"}, search |-> {"TOK", "Tok"}, name |-> {"Tok", "no"},
         identifier |-> {"TOK", "OLD"}, identifiers |-> {{"TOK", "META"}}, includeMetaESDT |-> {TRUE}, mexPairType |-> {{"core"}},
         priceSource |-> {"dataApi"}],
     collections |->
        [search |-> {"COL"}, type |-> Types, subType |-> Subtypes, owner |-> {"bob"}, creator |-> {"bob"}, identifiers |-> {{"COL", "SFT"}},
         canCreate |-> {"alice", "bob"}, canBurn |-> {"alice"}, canAddQuantity |-> {"alice"}, canUpdateAttributes |-> {"alice"},
         canAddUri |-> {"bob"}, canTransferRole |-> {"bob"}, excludeMetaESDT |-> {TRUE}] @@ Times,
     collectionRoles |->
        [search |-> {"COL"}, type |-> Types, subType |-> Subtypes, owner |-> {"bob"}, canCreate |-> {"true"}, canBurn |-> {"true", "false"},
         canAddQuantity |-> {"true"}, canUpdateAttributes |-> {"true"}, canAddUri |-> {"true"}, canTransferRole |-> {"false"},
         excludeMetaESDT |-> {TRUE}],
     tokenRoles |->
        [search |-> {"TOK"}, owner |-> {"bob"}, canMint |-> BOOLEAN, canBurn |-> BOOLEAN, includeMetaESDT |-> {TRUE}],
     nfts |->
        [search |-> {"COL", "COL-01"}, identifiers |-> {{"COL-01"}, {"COL-02", "COL-03"}}, name |-> {"Nft"}, tags |-> {{"art"}, {"art", "cat"}},
         creator |-> {"bob"}, hasUris |-> {TRUE}, type |-> Types, subType |-> Subtypes, collection |-> {"COL"},
         collections |-> {{"SFT", "META"}}, includeFlagged |-> {TRUE}, excludeMetaESDT |-> {TRUE}, isScam |-> BOOLEAN,
         scamType |-> {"scam"}, source |-> {"elastic"}, isWhitelistedStorage |-> {TRUE}, isNsfw |-> BOOLEAN, traits |-> {{"hat"}},
         nonceBefore |-> {2}, nonceAfter |-> {0, 2}] @@ Times,
     operations |-> OperationValues,
     transfers |-> [sender |-> {{"alice", "sc"}, {"bob"}}] @@ OperationValues,
     blocks |->
        [shard |-> {0, 1}, proposer |-> {"v1"}, validator |-> {"v1"}, epoch |-> {1}, nonce |-> {1}, hashes |-> {{"b0", "b2"}}],
     rounds |-> [validator |-> {"v1"}, condition |-> {"should"}, shard |-> {0, 1}, epoch |-> {1, 2}],
     events |->
        [address |-> {"bob"}, identifier |-> {"swap"}, txHash |-> {"h1"}, shard |-> {0, 1}, topics |-> {{"t"}},
         logAddress |-> {"sc"}, order |-> {0, 1}] @@ Times,
     results |->
        [miniBlockHash |-> {"m1"}, originalTxHashes |-> {{"h4", "h5"}}, sender |-> {"sc"}, receiver |-> {"bob"}, function |-> {{"swap"}}],
     history |-> [identifier |-> {{"TOK"}}, token |-> {"COL"}, withTxCount |-> {TRUE}] @@ Times,
     pool |->
        [sender |-> {"bob"}, receiver |-> {"sc"}, senderShard |-> {0}, receiverShard |-> {1}, type |-> {"Transaction"},
         function |-> {{"swap"}}],
     nodes |->
        [search |-> {"n0", "Node", "v2"}, online |-> BOOLEAN, type |-> {"observer"}, status |-> {"auction"}, shard |-> {0, 1},
         issues |-> BOOLEAN, identity |-> {"id"}, provider |-> {"sc"}, owner |-> {"alice"}, auctioned |-> {"true", "false"},
         fullHistory |-> BOOLEAN, isQualified |-> {"true", "false"}, isAuctioned |-> {"true"}, isAuctionDangerZone |-> BOOLEAN,
         keys |-> {{"n1", "n4"}}],
     providers |-> [identity |-> {"id"}, owner |-> {"alice", "bob"}, providers |-> {{"sc2"}, {"sc", "sc2"}}, withLatestInfo |-> BOOLEAN],
     identities |-> [identities |-> {{}, {"id", "other"}}],
     keys |-> [status |-> {{"notStaked"}, {"staked", "jailed"}}],
     mex |-> [exchange |-> {"xexchange", "unknown"}],
     auctions |-> [status |-> {"running", "ended"}]]

MCMaxParams == [k \in DOMAIN MCValues |-> 3]
=============================================================================
