SPECIFICATION Spec
CONSTANTS
    Operations <- MCOperations
    Accounts <- MCAccounts
    AccountsEsdt <- MCAccountsEsdt
    Tokens <- MCTokens
    Blocks <- MCBlocks
    Rounds <- MCRounds
    Events <- MCEvents
    ScDeploys <- MCScDeploys
    History <- MCHistory
    Contracts <- MCContracts
    NsfwThreshold = 2
    ScamInfoEnabled = TRUE
    TransfersLast24hUrl = FALSE
    PropertiesFromGateway = TRUE
    FungibleTokens <- MCFungibleTokens
    Properties <- MCProperties
    Assets <- MCAssets
    Supplies <- MCSupplies
    DataApiPrices <- MCDataApiPrices
    CustomPrices <- MCCustomPrices
    MexTokenTypes <- MCMexTokenTypes
    thresholdFaultyMarketCap = 1500
    LowLiquidity = 5
    AllTokens <- MCAllTokens
    ExtendedAttributes = TRUE
    GatewayAccounts <- MCGatewayAccounts
    VerifiedAccounts = {"sc"}
    PublicKeys <- MCPublicKeys
    TxPool <- MCTxPool
    ShardOf <- MCShardOf
    PoolEnabled = TRUE
    Andromeda = TRUE
    AndromedaEpoch = 2
    RoundsPerEpoch = 2
    KnownTokens = {"TOK", "USD", "COL"}
    SmartContracts = {"pair", "farm", "wrap", "router", "locked", "distribution", "provider", "esdt", "metabonding"}
    People = {"alice", "bob"}
    Providers = {"provider"}
    EsdtContract = "esdt"
    MetabondingContract = "metabonding"
    DeployAddress = "deploy"
    MexActive = TRUE
    MexSettings <- MCMexSettings
    NodeList <- MCNodeList
    ProviderList <- MCProviderList
    IdentityList <- MCIdentityList
    DelegationProviders = {"sc"}
    Delegators <- MCDelegators
    NodeStates <- MCNodeStates
    BlsKeysStatus <- MCBlsKeysStatus
    WaitingListEncoded <- MCWaitingListEncoded
    ExchangePairs <- MCExchangePairs
    ExchangeFarms <- MCExchangeFarms
    ExchangeEnabled = TRUE
    Auctions <- MCAuctions
    GAS_BUCKET_SIZE = 10
    minGasLimit = 1
    gasPerDataByte = 1
    gasPriceModifier = 2
    Decodable <- MCDecodable
    PoolTransactions <- MCPoolTransactions
    Addresses <- MCAddresses
    TokenIds = {"TOK", "OLD"}
    CollectionIds = {"COL", "LOST"}
    NftIds = {"COL-01", "SFT-01"}
    Values <- MCValues
    MaxParams <- MCMaxParams
CHECK_DEADLOCK FALSE
INVARIANTS CountIsOfTheList ListedIsFound ListedIsInPath SameAction PpuIsOfTheBucket TokensAddUp
PROPERTY FiltersNarrow
