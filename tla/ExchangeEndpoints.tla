-------------------------- MODULE ExchangeEndpoints --------------------------
(***************************************************************************)
(* The handlers of MexController (pairs, tokens and farms of xExchange)    *)
(* and of NftMarketplaceController (auctions of NFTs), with their services *)
(* and what the second GraphQL service answers.                            *)
(***************************************************************************)
EXTENDS AccountEndpoints

CONSTANT
    Auctions         \* the auctions of the NFT service

ExchangeParams == [getMexPairs |-> {"exchange"}, getAccountAuctions |-> {"status"}, getAuctionsCount |-> {"status"}]

-----------------------------------------------------------------------------
(* MexPairService and MexTokenService.                                     *)

MexPairService_getMexPairs(f) == {p \in getAllMexPairs : IsSet(f, "exchange") => p.exchange = f.exchange}
MexPairService_getMexPairsCount(f) == {p \in getAllMexPairs : IsSet(f, "exchange") => p.exchange = f.exchange}
MexPairService_getMexPair(b, q) == {p \in getAllMexPairs : p.baseId = b /\ p.quoteId = q}

getMexTokenByIdentifier(i) == {t \in getAllMexTokensRaw : t.id = i}

-----------------------------------------------------------------------------
(* NftMarketplaceService.                                                  *)

\* Of an NFT that is in several auctions, one is shown; those that have not begun are not.
NftMarketplaceService_getAuctions ==
    LET shown == {a \in Auctions : a.status = "running" /\ a.started}
        of(i) == {a \in shown : a.identifier = i}
    IN  {CHOOSE a \in of(i) : \A o \in of(i) : o.auctionId <= a.auctionId : i \in {a.identifier : a \in shown}}

\* Without a status none is asked for, which no auction has.
NftMarketplaceService_getAuctionsCount(f) == {a \in Auctions : Given(f, "status") /\ a.status = f.status}
NftMarketplaceService_getAuctionId(i) == {a \in Auctions : a.auctionId = i}
NftMarketplaceService_getAccountAuctions(a, f) == {d \in Auctions : d.owner = a /\ (Given(f, "status") => d.status = f.status)}
NftMarketplaceService_getAccountAuctionsCount(a) == {d \in Auctions : d.status = "running" /\ d.owner = a}
NftMarketplaceService_getCollectionAuctions(c) == {d \in Auctions : d.status = "running" /\ d.collection = c}
NftMarketplaceService_getCollectionAuctionsCount(c) == {d \in Auctions : d.status = "running" /\ d.collection = c}

-----------------------------------------------------------------------------
(* The handlers.                                                           *)

MexController_getMexPairs(q) == MexPairService_getMexPairs(Pick(q, ExchangeParams.getMexPairs))
MexController_getMexPairsTemp(q) == MexPairService_getMexPairs(Pick(q, ExchangeParams.getMexPairs))
MexController_getMexPairsCount(q) == MexPairService_getMexPairsCount(Pick(q, ExchangeParams.getMexPairs))
MexController_getMexPair(b, q) == FoundOr404(MexPairService_getMexPair(b, q))
MexController_getMexTokens == getAllMexTokensRaw
MexController_getMexTokensCount == getAllMexTokensRaw
MexController_getMexTokenIdentifier(i) == FoundOr404(getMexTokenByIdentifier(i))
MexController_getMexFarms == getAllMexFarms
MexController_getMexFarmsCount == getAllMexFarms

NftMarketplaceController_getAuctions == NftMarketplaceService_getAuctions
NftMarketplaceController_getAuctionsCount(q) ==
    NftMarketplaceService_getAuctionsCount(Pick(q, ExchangeParams.getAuctionsCount))
NftMarketplaceController_getAuctionsCountAlternative(q) ==
    NftMarketplaceService_getAuctionsCount(Pick(q, ExchangeParams.getAuctionsCount))
NftMarketplaceController_getAuctionId(i) == FoundOr500(NftMarketplaceService_getAuctionId(i))
NftMarketplaceController_getAccountAuctions(a, q) ==
    NftMarketplaceService_getAccountAuctions(a, Pick(q, ExchangeParams.getAccountAuctions))
NftMarketplaceController_getAccountAuctionsCount(a) == NftMarketplaceService_getAccountAuctionsCount(a)
NftMarketplaceController_getCollectionAuctions(c) == NftMarketplaceService_getCollectionAuctions(c)
NftMarketplaceController_getCollectionAuctionsCount(c) == NftMarketplaceService_getCollectionAuctionsCount(c)
=============================================================================
