------------------------------ MODULE TokenList ------------------------------
(***************************************************************************)
(* TokenService.getAllTokensRaw: the list of all tokens, which the warmer  *)
(* publishes and most endpoints start from, with the services it is made   *)
(* of: the properties of tokens and collections, the pairs and prices of   *)
(* the exchange, assets, supplies and counts.  What goes wrong while it is *)
(* computed is an argument, a set of Troubles: each is caught where it     *)
(* happens, and the computation goes on with what it has.  They hit all    *)
(* tokens alike, as a token is computed apart from the others.  A price or *)
(* a market cap that is undefined is 0: the code asks for neither but      *)
(* whether it is truthy.  (With the feature tokensFetch the list is that   *)
(* of another API.)                                                        *)
(***************************************************************************)
EXTENDS Index, FiniteSetsExt

CONSTANTS
    PropertiesFromGateway, \* getCollectionPropertiesFromGateway
    FungibleTokens,  \* the fungible tokens of the gateway
    Properties,      \* Properties[i]: the name and the type of i in the ESDT contract
    Assets,          \* Assets[i]: name, priceSource, lockedAccounts and extraTokens of i
    Supplies,        \* the supply of a token
    DataApiPrices, CustomPrices, \* the prices the data API and the custom URLs have
    ExchangePairs,   \* the pairs of the exchange service
    ExchangeFarms,   \* its farms and staking farms
    ExchangeEnabled, \* isExchangeEnabled, and the URL of its service is configured
    MexTokenTypes,   \* the types of its tokens
    thresholdFaultyMarketCap,
    LowLiquidity,    \* LOW_LIQUIDITY_THRESHOLD, in thousandths
    AllTokens        \* the list that was published, with the fields the filters look at

ASSUME TokenListAssumption ==
    /\ PropertiesFromGateway \in BOOLEAN /\ ExchangeEnabled \in BOOLEAN
    /\ thresholdFaultyMarketCap \in Nat /\ LowLiquidity \in Nat

Troubles ==
    {"list",         \* the gateway does not list the fungible tokens
     "counts",       \* the queries that count fail
     "noExtra",      \* the warmer has not counted the accounts of the extra tokens
     "pairs", "prices", "types", \* the exchange does not answer
     "pricesFirst",  \* the prices of the exchange are there before its pairs
     "mexSupply", "supply", \* a supply is not answered, at the first and at the second time
     "dataApi", "dataApiAgain", "customUrl"} \* a price is not answered

\* The identifier EGLD has in a multi transfer is kept among the tokens.
EgldIdentifier == "EGLD-000000"

ValueOr(f, k, default) == IF k \in DOMAIN f THEN f[k] ELSE default

-----------------------------------------------------------------------------
(* EsdtService: properties and supplies.                                   *)

\* The type a collection or an NFT is shown with.
TypeOf(t) ==
    CASE t \in nonFungibleEsdtTypes -> "NonFungibleESDT"
      [] t \in semiFungibleEsdtTypes -> "SemiFungibleESDT"
      [] t \in metaEsdtTypes -> "MetaESDT"
      [] OTHER -> t

\* Only a type that is shown as another one becomes the subtype.
applySubType(p) == IF TypeOf(p.type) = p.type THEN p ELSE [p EXCEPT !.type = TypeOf(p.type), !.subType = p.type]

getEsdtTokenPropertiesRawFromGateway(i) ==
    IF i \in DOMAIN Properties
    THEN {applySubType([token |-> i, name |-> Properties[i].name, type |-> Properties[i].type, subType |-> ""])}
    ELSE {}

mapEsdtTokenPropertiesFromElastic(d) ==
    applySubType([token |-> d.token, name |-> d.name, type |-> d.type, subType |-> d.type])

\* What is not in the index throws, and getEsdtTokenProperties takes that for no properties.
getEsdtTokenPropertiesRaw(g, i) ==
    IF g THEN getEsdtTokenPropertiesRawFromGateway(i) ELSE {mapEsdtTokenPropertiesFromElastic(d) : d \in getToken(i)}

getEsdtTokenProperties(i) == getEsdtTokenPropertiesRaw(PropertiesFromGateway, i)

getAllFungibleTokens == {d \in Tokens : d.type = "FungibleESDT" /\ ~Exists(d.identifier)}

\* The gateway's list is empty when it cannot be read; a failure of the index throws.
getAllFungibleTokenProperties(g, troubles) ==
    IF ~g THEN {mapEsdtTokenPropertiesFromElastic(d) : d \in getAllFungibleTokens}
    ELSE IF "list" \in troubles THEN {} ELSE UNION {getEsdtTokenPropertiesRawFromGateway(i) : i \in FungibleTokens}

getAccountEsdtByAddressesAndIdentifier(i, as) ==
    {d \in AccountsEsdt : d.token = i /\ d.address \in as /\ d.address # "pending"}

getLockedAccountsRaw(i) ==
    IF i \in DOMAIN Assets THEN getAccountEsdtByAddressesAndIdentifier(i, Assets[i].lockedAccounts) ELSE {}

\* What the assets call locked does not circulate.
EsdtService_getTokenSupply(i) ==
    [totalSupply |-> Supplies[i],
     circulatingSupply |-> Supplies[i] - MapThenSumSet(LAMBDA d : d.balance, getLockedAccountsRaw(i))]

\* The accounts that hold one of the tokens, each once.
countAllDistinctAccounts(is) == {[address |-> d.address] : d \in {d \in AccountsEsdt : d.token \in is}}

-----------------------------------------------------------------------------
(* CollectionService.                                                      *)

batchGetCollectionsProperties(g, i) ==
    IF g THEN getEsdtTokenPropertiesRawFromGateway(i) ELSE getEsdtTokenPropertiesRaw(g, i)

\* What has no properties is left out.
applyPropertiesToCollections(g, ds) == {d \in ds : batchGetCollectionsProperties(g, d.token) # {}}

CollectionService_getNftCollections(g, f) == applyPropertiesToCollections(g, getNftCollections(f, ""))

-----------------------------------------------------------------------------
(* MexPairService and MexTokenService.                                     *)

getPairType ==
    [Core |-> "core", Community |-> "community", Ecosystem |-> "ecosystem", Experimental |-> "experimental",
     Unlisted |-> "unlisted"]

\* The quote of a pair is WEGLD, or else its first token: but for WEGLD and USDC.
getPairInfo(p) ==
    LET asIs == p.second = "WEGLD" \/ (p.first = "WEGLD" /\ p.second = "USDC") IN
    [id |-> p.id, type |-> getPairType[p.type], exchange |-> "xexchange",
     baseId |-> IF asIs THEN p.first ELSE p.second, quoteId |-> IF asIs THEN p.second ELSE p.first,
     basePrice |-> IF asIs THEN p.firstPrice ELSE p.secondPrice, quotePrice |-> IF asIs THEN p.secondPrice ELSE p.firstPrice,
     price |-> p.price, totalValue |-> p.lockedValue, volume24h |-> p.volume24h, tradesCount |-> p.tradesCount]

\* Pairs of an unknown type, and unlisted ones, are left out; the service is asked for those that are active.
getAllMexPairsRaw ==
    {getPairInfo(p) : p \in {p \in ExchangePairs :
        p.state = "Active" /\ p.type \in DOMAIN getPairType \ {"Unlisted"}}}

getAllMexPairs == IF ExchangeEnabled THEN getAllMexPairsRaw ELSE {}

\* The tokens a pair gives a price to: the one that is not WEGLD or USDC, both of WEGLD and
\* USDC, and none of a pair without either.
getMexToken(p) ==
    CASE p.baseId = "WEGLD" /\ p.quoteId = "USDC" -> {"WEGLD", "USDC"}
      [] p.quoteId \in {"WEGLD", "USDC"} -> {p.baseId}
      [] p.baseId \in {"WEGLD", "USDC"} -> {p.quoteId}
      [] OTHER -> {}

\* A token is listed once, from the pair with the greatest value, with the volume and the
\* trades of all its pairs.
getAllMexTokensRaw ==
    LET tokens == UNION {getMexToken(p) : p \in getAllMexPairs}
        of(t) == {p \in getAllMexPairs : t \in {p.baseId, p.quoteId}}
        best(t) == CHOOSE p \in of(t) : t \in getMexToken(p) /\ \A o \in of(t) : t \in getMexToken(o) => o.totalValue <= p.totalValue
        price(t) == IF best(t).baseId = t THEN best(t).basePrice ELSE best(t).quotePrice
    IN  {[id |-> t, pricedBy |-> best(t).id, price |-> price(t), previous24hVolume |-> MapThenSumSet(LAMBDA p : p.volume24h, of(t)),
          tradesCount |-> MapThenSumSet(LAMBDA p : p.tradesCount, of(t))] : t \in tokens}

getAllMexFarms == IF ExchangeEnabled THEN ExchangeFarms ELSE {}

\* The prices by identifier; those of a pair and of a farm are of its own token, which is not
\* a token of the exchange.  (Those of locked MEX are of MetaESDTs, to which none is applied.)
getMexPricesRaw ==
    LET of(ds, isToken) == [i \in {d.id : d \in ds} |-> [price |-> (CHOOSE d \in ds : d.id = i).price, isToken |-> isToken]]
    IN  of(getAllMexFarms, FALSE) @@ of(getAllMexPairs, FALSE) @@ of(getAllMexTokensRaw, TRUE)

-----------------------------------------------------------------------------
(* TokenService: the steps of getAllTokensRaw.                             *)

\* A count that failed is not there; as in the endpoints it is the set it counts.  The assets are
\* not there yet, so that no extra tokens are counted but by the warmer.
getTotalTransactions(t, troubles) == IF "counts" \in troubles THEN {} ELSE {getTransactionCount([tokens |-> {t.token}], "")}
getTotalTransfers(t, troubles) == IF "counts" \in troubles THEN {} ELSE {getTransfersCount([tokens |-> {t.token}])}

\* handleTokenAssetsExtraInfoInvalidations, of the tokens that have assets.
TokenAccountsExtra(t) ==
    IF t.token \in DOMAIN Assets /\ (Assets[t.token].extraTokens # {} \/ t.type = "MetaESDT")
    THEN countAllDistinctAccounts({t.token} \cup Assets[t.token].extraTokens) ELSE {}

\* The balances are counted, unless the warmer counted accounts; none is taken for not counted.
getTotalAccounts(t, troubles) ==
    LET extra == IF "noExtra" \in troubles THEN {} ELSE TokenAccountsExtra(t)
        own == IF "counts" \in troubles THEN {} ELSE getTokenAccountsCount(t.token)
    IN  {IF extra # {} THEN extra ELSE own} \ {{}}

batchProcessTokens(ts, troubles) ==
    {[transactions |-> getTotalTransactions(t, troubles), accounts |-> getTotalAccounts(t, troubles),
      transfers |-> getTotalTransfers(t, troubles)] @@ t : t \in ts}

PairsOf(t) == {p \in getAllMexPairs : t.token \in {p.baseId, p.quoteId}}

applyMexLiquidity(t, troubles) ==
    IF "pairs" \in troubles \/ PairsOf(t) = {} THEN t
    ELSE [t EXCEPT !.totalLiquidity = MapThenSumSet(LAMBDA p : p.totalValue, PairsOf(t)) \div 2]

\* All pairs there are are active.
applyMexPairTradesCount(t, troubles) ==
    IF "pairs" \in troubles \/ PairsOf(t) = {} THEN t
    ELSE [t EXCEPT !.tradesCount = MapThenSumSet(LAMBDA p : p.tradesCount, PairsOf(t))]

applyMexPairType(t, troubles) ==
    IF "types" \in troubles THEN t ELSE [t EXCEPT !.mexPairType = ValueOr(MexTokenTypes, t.token, @)]

\* A market cap that cannot be right is none.
MarketCap(price, supply) ==
    IF price * supply.circulatingSupply > thresholdFaultyMarketCap THEN 0 ELSE price * supply.circulatingSupply

\* The correction for EGLDUSDC asks for assets, which are not there yet.
applyMexPrices(t, troubles) ==
    IF "prices" \in troubles \/ "mexSupply" \in troubles \/ t.token \notin DOMAIN getMexPricesRaw THEN t
    ELSE LET mex == getMexPricesRaw[t.token]
             supply == EsdtService_getTokenSupply(t.token)
             cap == MarketCap(mex.price, supply)
             low == t.totalLiquidity > 0 /\ cap > 0 /\ t.totalLiquidity * 1000 < cap * LowLiquidity
             supplied == supply @@ t
         IN  IF mex.isToken THEN [supplied EXCEPT !.price = mex.price, !.marketCap = cap, !.isLowLiquidity = @ \/ low] ELSE supplied

\* Mutant: the pairs come after the prices.
applyMexData_PricesFirst(t, troubles) ==
    IF t.type = "MetaESDT" THEN t
    ELSE applyMexPairTradesCount(applyMexPairType(applyMexLiquidity(applyMexPrices(t, troubles), troubles), troubles), troubles)

\* The four at once: it matters which of prices and liquidity is there first.
applyMexData(t, troubles) ==
    LET priced == IF "pricesFirst" \in troubles THEN applyMexLiquidity(applyMexPrices(t, troubles), troubles)
                  ELSE applyMexPrices(applyMexLiquidity(t, troubles), troubles)
    IN  IF t.type = "MetaESDT" THEN t ELSE applyMexPairTradesCount(applyMexPairType(priced, troubles), troubles)

applyAssets(t) ==
    IF t.token \in DOMAIN Assets THEN [t EXCEPT !.assets = TRUE, !.priceSource = Assets[t.token].priceSource] ELSE t

getEsdtTokenPrice(i, answered) == IF answered THEN ValueOr(DataApiPrices, i, 0) ELSE 0
fetchTokenDataFromUrl(i, answered) == IF answered THEN ValueOr(CustomPrices, i, 0) ELSE 0

\* The price of the source the assets name, which is none if the data API has none; a fungible
\* token without a price is looked for there (once more).
applyPriceSource(t, troubles) ==
    LET custom == fetchTokenDataFromUrl(t.token, "customUrl" \notin troubles)
        price == CASE t.priceSource = "dataApi" -> getEsdtTokenPrice(t.token, "dataApi" \notin troubles)
                   [] t.priceSource = "customUrl" /\ custom # 0 -> custom
                   [] OTHER -> t.price
    IN  [t EXCEPT !.price = IF price = 0 /\ t.type = "FungibleESDT"
                            THEN getEsdtTokenPrice(t.token, "dataApiAgain" \notin troubles) ELSE price]

\* Without a price the market cap of the exchange stays, and without the supply too.
applySupplyAndMarketCap(t, troubles) ==
    LET supply == EsdtService_getTokenSupply(t.token) IN
    IF "supply" \in troubles THEN t
    ELSE [supply @@ t EXCEPT !.marketCap = IF t.price # 0 THEN MarketCap(t.price, supply) ELSE @]

NewToken(i, name, type, subType) ==
    [token |-> i, identifier |-> "", name |-> name, type |-> type, subType |-> subType, mexPairType |-> "",
     transactions |-> {}, accounts |-> {}, transfers |-> {}, totalLiquidity |-> 0, tradesCount |-> 0,
     price |-> 0, marketCap |-> 0, isLowLiquidity |-> FALSE, totalSupply |-> 0, circulatingSupply |-> 0,
     assets |-> FALSE, priceSource |-> ""]

EgldToken ==
    [NewToken(EgldIdentifier, "EGLD", "FungibleESDT", "") EXCEPT !.price = getEsdtTokenPrice("EGLD", TRUE)]

getAllTokensRaw(g, troubles) ==
    LET NameOf(p) == IF p.token \in DOMAIN Assets /\ Exists(Assets[p.token].name) THEN Assets[p.token].name ELSE p.name
        fungible == {NewToken(p.token, NameOf(p), "FungibleESDT", p.subType) : p \in getAllFungibleTokenProperties(g, troubles)}
        meta == {NewToken(c.token, c.name, "MetaESDT", c.type) : c \in CollectionService_getNftCollections(g, [type |-> {"MetaESDT"}])}
        Finished(t) == applySupplyAndMarketCap(applyPriceSource(applyAssets(applyMexData(t, troubles)), troubles), troubles)
    IN  {Finished(t) : t \in batchProcessTokens(fungible \cup meta, troubles)} \cup {EgldToken}

\* The endpoints have the list TokenService.getAllTokens finds when nothing has gone wrong.
ASSUME AllTokensAssumption ==
    AllTokens = {[f \in {"token", "identifier", "name", "type", "subType", "mexPairType", "priceSource"} |-> t[f]] :
                    t \in getAllTokensRaw(PropertiesFromGateway, {})}

\* What is not trusted does not count.
CountsForMarketCap(t) == t.price # 0 /\ t.marketCap # 0 /\ ~t.isLowLiquidity /\ t.priceSource # "customUrl"
getTokenMarketCapRaw(ts) == MapThenSumSet(LAMBDA t : t.marketCap, {t \in ts : CountsForMarketCap(t)})
=============================================================================
