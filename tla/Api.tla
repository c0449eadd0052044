--------------------------------- MODULE Api ---------------------------------
(***************************************************************************)
(* The HTTP handlers of internal/api/handler over the market: one action   *)
(* for every statement or transaction a call runs, so that other clients   *)
(* and the settlement worker act in between, and the answer the client     *)
(* gets.  The writes pass the idempotency middleware first, which is the   *)
(* module Idempotency.                                                     *)
(*                                                                         *)
(* A call's decoding looks at nothing but the request: it and the first    *)
(* statement are one step.  A transaction is one step too, at the time it  *)
(* commits (AuctionTx and BuyTx take it apart).  Any statement may fail    *)
(* for reasons of the database, and a commit may lose its acknowledgement. *)
(* Most handlers answer that with 500; two drop the error of a later read  *)
(* and answer without what it should have added.  The Oracle's price in an *)
(* item's representation is left out.                                      *)
(***************************************************************************)
EXTENDS Market

CONSTANTS
  Clients,     \* clients whose calls are followed
  Strangers,   \* guild ids that no row has
  TooBig,      \* an id of 2^63 or more: a uint64, but no BIGINT
  Blank,       \* a name of nothing but spaces
  BadName,     \* one its column refuses: over 160 characters, or a zero byte
  IntMax       \* the largest stock an INT column holds

ASSUME ApiAssumption ==
  /\ Strangers \cap (Guilds \cup {Null}) = {}
  /\ ListingIds \subseteq Nat
  /\ TooBig \notin Guilds \cup Strangers \cup Items \cup Shop!Goods \cup Auctions \cup Bids
  /\ TooBig # Null
  /\ Blank \notin Products \cup {Null} /\ BadName \notin Products \cup {Null, Blank}
  /\ IntMax \in Nat /\ \A n \in Stocks : n <= IntMax

VARIABLE call  \* the call each client makes, or its answer

apivars == <<marketvars, call>>

(* Routes that only read, and routes behind the idempotency middleware.    *)
Reads == {"GetItem", "ListItems", "GetAuction", "ListAuctions", "GetWallet"}

Writes == {"CreateItem", "ListItemForSale", "OpenAuction", "BuyItem", "PlaceBid", "CancelBid"}

(* fault: what befell the call beside its own checks: "database", an error *)
(* of a statement, "key", which the middleware did not let it use, or      *)
(* "request", which the handler could not decode.                          *)
Idle == [op |-> "none", step |-> "idle", guild |-> Null, id |-> Null, value |-> Null,
         found |-> Null, body |-> Null, status |-> 0, fault |-> "none"]

ApiInit == MarketInit /\ call = [c \in Clients |-> Idle]

(* Fault: a closed listing is not among the errors that are mapped.        *)
StatusForErrorOnAuctions(e) ==
  CASE e \in {"NotFound", "PriceUnavailable"} -> 404
    [] e \in {"InsufficientFunds", "DailyCapExceeded"} -> 402
    [] e \in {"OutOfStock", "ActiveAuctionExists", "ItemNotAvailable", "AuctionNotActive",
              "AuctionEnded"} -> 409
    [] e = "internal" -> 500
    [] e = "ListingNotOpen" -> 500
    [] OTHER -> 400

StatusForError(e) ==
  CASE e \in {"NotFound", "PriceUnavailable"} -> 404
    [] e \in {"InsufficientFunds", "DailyCapExceeded"} -> 402
    [] e \in {"ListingNotOpen", "OutOfStock", "ActiveAuctionExists", "ItemNotAvailable",
              "AuctionNotActive", "AuctionEnded"} -> 409
    [] e \in {"InvalidAmount", "NameRequired", "InvalidTier", "InvalidStock", "SelfPurchase",
              "SelfBid", "ItemNotOwned", "LegendaryNeedsAuction", "NotLegendary", "BidTooLow",
              "CancelHighestBid", "InsufficientReserved"} -> 400
    [] OTHER -> 500

(* What a client asks for and what it has been told so far.                *)
Asks(op, g, id, value) ==
  [Idle EXCEPT !.op = op, !.guild = g, !.id = id, !.value = value]

Free(c) == call[c].step = "idle"

(* Who asked for what matters to no property once it is answered, except   *)
(* for an internal error.                                                  *)
Kept(k, status) == IF status = 500 THEN k ELSE [k EXCEPT !.guild = Null, !.value = Null]

Answers(c, k, status, body) ==
  call' = [call EXCEPT ![c] =
             [Kept(k, status) EXCEPT !.step = "done", !.status = status, !.body = body]]

(* The answer to a call that a fault has cut off; its arguments no longer  *)
(* matter.                                                                 *)
CutOff(c, op, fault, status) ==
  Answers(c, [Idle EXCEPT !.op = op, !.fault = fault], status, Null)

Fails(c, k) == CutOff(c, k.op, "database", 500)

(* A commit, whose acknowledgement may be lost.                            *)
Acknowledges(c, k, status) == Answers(c, k, status, Null) \/ Fails(c, k)

Refuses(c, k, error) == Answers(c, k, StatusForError(error), Null) /\ UNCHANGED marketvars

Shows(c, k, body) == Answers(c, k, 200, body) /\ UNCHANGED marketvars

(* The call goes on with what its last statement has read.                 *)
Continues(c, k) == call' = [call EXCEPT ![c] = k] /\ UNCHANGED marketvars

(* Checks that end in an error, or let the call go on.                     *)
Passes(c, k, error, Then) ==
  \/ error # "none" /\ Refuses(c, k, error)
  \/ error = "none" /\ Then

(* A statement or transaction that makes such checks, or fails.            *)
Runs(c, k, error, Then) ==
  \/ Passes(c, k, error, Then)
  \/ Fails(c, k) /\ UNCHANGED marketvars

At(c, op, step) == call[c].op = op /\ call[c].step = step
-----------------------------------------------------------------------------
(* Representations: NewAuctionResponse, NewBidResponse, NewListingResponse *)
(* and NewItemResponse without times and layout.                           *)
AuctionView(a) == [id |-> a, item |-> auction[a].item, seller |-> auction[a].seller,
                   status |-> auction[a].status, highest |-> auction[a].highest,
                   winner |-> auction[a].winner]

BidViews == [id : Bids, auction : Auctions, bidder : Guilds, amount : Int,
             status : {"active", "released", "cancelled", "won"}]

(* No representation of a bid is a null. *)
ASSUME NullIsNoView == Null \notin BidViews

BidView(b) == [id |-> b, auction |-> bid[b].auction, bidder |-> bid[b].bidder,
               amount |-> bid[b].amount, status |-> bid[b].status]

ListingView(l) == [id |-> l, item |-> listing[l].item, seller |-> listing[l].seller,
                   price |-> listing[l].price, status |-> listing[l].status,
                   buyer |-> listing[l].buyer]

(* The row of an item, a legendary or not.                                 *)
KnownItems == Items \cup {i \in Shop!Goods : good[i].status # "absent"}

Row(i) == IF i \in Items
          THEN [tier |-> Tier[i], owner |-> item[i].owner, stock |-> 1, status |-> item[i].status]
          ELSE [tier |-> good[i].tier, owner |-> good[i].owner, stock |-> good[i].stock,
                status |-> good[i].status]

ItemView(i) == [id |-> i, row |-> Row(i)]

ActiveAuctions == {a \in Auctions : auction[a].status = "active"}

(* At most one auction is active for an item, so that "the latest" is it.  *)
ActiveAuctionByItem(i) ==
  LET active == {a \in ActiveAuctions : auction[a].item = i}
  IN  IF active = {} THEN Null ELSE CHOOSE a \in active : TRUE

OpenListingByItem(i) ==
  LET open == {l \in ListingIds : listing[l].status = "open" /\ listing[l].item = i}
  IN  IF open = {} THEN Null ELSE CHOOSE l \in open : \A k \in open : k <= l
-----------------------------------------------------------------------------
(* The middleware turns away a write whose key is in flight or was another *)
(* request's.  (A replayed answer is one that the same request was given   *)
(* before, see ReplayFaithful, and is left out.)                           *)
TurnsAway(c, op) ==
  /\ Free(c)
  /\ CutOff(c, op, "key", 409)
  /\ UNCHANGED marketvars

(* A request that is malformed (a path that is no number, a body without a *)
(* required field: a guild or an amount of 0 is a missing one) is answered *)
(* with 400 by the handler itself; Serves is what any other one does.      *)
Asked(c, k, malformed, Serves) ==
  /\ Free(c)
  /\ \/ malformed /\ CutOff(c, k.op, "request", 400) /\ UNCHANGED marketvars
     \/ ~malformed /\ Serves

FormError(name, tier, stock) ==
  IF name = Blank THEN "NameRequired"
  ELSE IF tier \notin Shop!Tiers THEN "InvalidTier"
  ELSE IF tier # "legendary" /\ stock < 1 THEN "InvalidStock"
  ELSE "none"

CreateError(g, name, tier, stock) ==
  IF g = TooBig THEN "internal"
  ELSE IF g \notin Guilds THEN "NotFound"
  ELSE IF name = BadName \/ (tier # "legendary" /\ stock > IntMax) THEN "internal"
  ELSE "none"

(* An insert that fails may have drawn an id: to the tables it is any      *)
(* registration that is rolled back.                                       *)
DrawsInVain(g, tier) ==
  /\ g \in Guilds
  /\ UNCHANGED <<houseTables, good>>
  /\ \E p \in Products, n \in Stocks : Shop!CreateItem(g, p, tier, n)

(* The id of the new row may be taken: an internal error.                  *)
CreateItem(c, g, name, tier, stock) ==
  LET k == Asks("CreateItem", g, name, stock)
      error == CreateError(g, name, tier, stock)
      Inserts == /\ Shop!CreateItem(g, name, tier, stock)
                 /\ UNCHANGED houseTables
                 /\ \/ good' # good /\ Acknowledges(c, k, 201)
                    \/ ~Shop!CanInsert /\ Answers(c, k, 500, Null)
  IN  Asked(c, k, Null \in {g, name},
        Passes(c, k, FormError(name, tier, stock),
          \/ Runs(c, k, error, Inserts)
          \/ error = "none" /\ DrawsInVain(g, tier) /\ Fails(c, k)
          \/ error = "internal" /\ DrawsInVain(g, tier) /\ Answers(c, k, 500, Null)))

ListError(g, i) ==
  IF i = TooBig THEN "internal"
  ELSE IF i \notin KnownItems THEN "NotFound"
  ELSE IF Row(i).owner # g THEN "ItemNotOwned"
  ELSE IF Row(i).tier = "legendary" THEN "LegendaryNeedsAuction"
  ELSE IF Row(i).stock < 1 THEN "OutOfStock"
  ELSE "none"

ListItemForSale(c, g, i, p) ==
  LET k == Asks("ListItemForSale", g, i, p)
  IN  Asked(c, k, Null \in {g, i} \/ p = 0,
        Passes(c, k, IF EnsurePositive(p) THEN "none" ELSE "InvalidAmount",
          Runs(c, k, ListError(g, i),
            /\ \E l \in ListingIds : Shop!CreateListing(g, i, p, l)
            /\ UNCHANGED houseTables
            /\ Acknowledges(c, k, 201))))

OpenError(g, i) ==
  IF i = TooBig THEN "internal"
  ELSE IF i \notin KnownItems THEN "NotFound"
  ELSE IF Row(i).owner # g THEN "ItemNotOwned"
  ELSE IF Row(i).tier # "legendary" THEN "NotLegendary"
  ELSE IF Row(i).status = "in_auction" THEN "ActiveAuctionExists"
  ELSE IF Row(i).status # "available" THEN "ItemNotAvailable"
  ELSE "none"

OpenAuction(c, g, i) ==
  LET k == Asks("OpenAuction", g, i, Null)
  IN  Asked(c, k, Null \in {g, i},
        Runs(c, k, OpenError(g, i),
          /\ \E a \in Auctions : CreateAuction(g, i, a, now)
          /\ UNCHANGED shopTables
          /\ Acknowledges(c, k, 201)))
-----------------------------------------------------------------------------
(* A call on an item's offer resolves the offer without a lock: by the     *)
(* time its transaction runs the offer may have gone or been replaced.     *)
Resolves(c, k, found) ==
  Runs(c, k, IF k.id = TooBig THEN "internal" ELSE IF found = Null THEN "NotFound" ELSE "none",
    Continues(c, [k EXCEPT !.step = "commit", !.found = found]))

BuyItem(c, g, i) ==
  LET k == Asks("BuyItem", g, i, Null)
  IN  Asked(c, k, Null \in {g, i}, Resolves(c, k, OpenListingByItem(i)))

(* A guild without a wallet is an internal error, not an unknown one.      *)
BuyError(g, l) ==
  LET price == listing[l].price
  IN  IF listing[l].status # "open" THEN "ListingNotOpen"
      ELSE IF listing[l].seller = g THEN "SelfPurchase"
      ELSE IF good[listing[l].item].stock < 1 THEN "OutOfStock"
      ELSE IF g \notin Guilds THEN "internal"
      ELSE IF ~EnsureWithinDailyCap(Cap[g], spent[g][Day[now]], price) THEN "DailyCapExceeded"
      ELSE IF ~CanDebit(wallets, g, price) THEN "InsufficientFunds"
      ELSE "none"

AddsUp(k) == Shop!CanAddDailySpent(k.guild, Day[now], listing[k.found].price)

(* The purchase may still find the id of its new row taken, or the buyer's *)
(* total of the day too large for its column, or fail with that id drawn.  *)
Buy(c) ==
  LET k == call[c]
  IN  /\ At(c, "BuyItem", "commit")
      /\ Runs(c, k, BuyError(k.guild, k.found),
           /\ Shop!Buy(k.guild, k.found, now, now, now)
           /\ UNCHANGED houseTables
           /\ \/ listing' # listing /\ Acknowledges(c, k, 200)
              \/ listing' = listing /\ Fails(c, k)
              \/ ~Shop!CanInsert /\ Answers(c, k, 500, Null)
              \/ ~AddsUp(k) /\ Answers(c, k, 500, Null))

PlaceBidOnItem(c, g, i, x) ==
  LET k == Asks("PlaceBid", g, i, x)
  IN  Asked(c, k, Null \in {g, i} \/ x = 0, Resolves(c, k, ActiveAuctionByItem(i)))

BidError(a, g, x) ==
  LET prev == bid[auction[a].highest]
  IN  IF auction[a].status # "active" THEN "AuctionNotActive"
      ELSE IF AuctionEnded(now, auction[a].endsAt) THEN "AuctionEnded"
      ELSE IF ~EnsureNotSelfBid(auction[a].seller, g) THEN "SelfBid"
      ELSE IF ~EnsurePositive(x) THEN "InvalidAmount"
      ELSE IF ~EnsureBidBeatsCurrent(CurrentAmount(a), x) THEN "BidTooLow"
      ELSE IF g \notin Guilds THEN "internal"
      ELSE IF ~CanReserve(wallets, g, x) THEN "InsufficientFunds"
      ELSE IF auction[a].highest # Null /\
              ~CanRelease(Reserve(wallets, g, x, "reserve_bid"), prev.bidder, prev.amount)
           THEN "InsufficientReserved"
      ELSE "none"

Bid(c) ==
  LET k == call[c]
  IN  /\ At(c, "PlaceBid", "commit")
      /\ Runs(c, k, BidError(k.found, k.guild, k.value),
           /\ \E b \in Bids : PlaceBid(k.found, k.guild, k.value, b, now)
           /\ UNCHANGED shopTables
           /\ Acknowledges(c, k, 201))

CancelBidOnItem(c, g, i, b) ==
  LET k == Asks("CancelBid", g, i, b)
  IN  Asked(c, k, Null \in {g, i, b}, Resolves(c, k, ActiveAuctionByItem(i)))

CancelError(a, b, g) ==
  IF auction[a].status # "active" THEN "AuctionNotActive"
  ELSE IF b = TooBig THEN "internal"
  ELSE IF bid[b].auction # a \/ bid[b].bidder # g THEN "NotFound"
  ELSE IF ~EnsureCanCancelBid(auction[a].highest = b) THEN "CancelHighestBid"
  ELSE IF bid[b].status = "active" /\ ~CanRelease(wallets, g, bid[b].amount)
       THEN "InsufficientReserved"
  ELSE "none"

Cancel(c) ==
  LET k == call[c]
  IN  /\ At(c, "CancelBid", "commit")
      /\ Runs(c, k, CancelError(k.found, k.value, k.guild),
           /\ CancelBid(k.found, k.value, k.guild)
           /\ UNCHANGED shopTables
           /\ Acknowledges(c, k, 200))
-----------------------------------------------------------------------------
(* A representation to which a later statement adds a part.                *)
With(body, part, value) ==
  [p \in DOMAIN body \cup {part} |-> IF p = part THEN value ELSE body[p]]

(* An error of a later read is dropped: the part it would have added is    *)
(* left out as if there were none.                                         *)
ShowsWithout(c, part) ==
  Shows(c, [call[c] EXCEPT !.fault = "database"], With(call[c].body, part, Null))

ReadError(id, known) ==
  IF id = TooBig THEN "internal" ELSE IF id \notin known THEN "NotFound" ELSE "none"

(* An item, then its open listing, then its active auction: three          *)
(* statements, and no transaction around them.                             *)
GetItem(c, i) ==
  LET k == Asks("GetItem", Null, i, Null)
  IN  Asked(c, k, i = Null,
        Runs(c, k, ReadError(i, KnownItems),
          Continues(c, [k EXCEPT !.step = "listing", !.body = [item |-> ItemView(i)]])))

GetItemListing(c) ==
  LET l == OpenListingByItem(call[c].id)
  IN  /\ At(c, "GetItem", "listing")
      /\ \/ Continues(c, [call[c] EXCEPT !.step = "auction",
               !.body = With(@, "listing", IF l = Null THEN Null ELSE ListingView(l))])
         \/ Continues(c, [call[c] EXCEPT !.step = "auction", !.fault = "database",
               !.body = With(@, "listing", Null)])

GetItemAuction(c) ==
  LET a == ActiveAuctionByItem(call[c].id)
  IN  /\ At(c, "GetItem", "auction")
      /\ \/ Shows(c, call[c], With(call[c].body, "auction", IF a = Null THEN Null ELSE AuctionView(a)))
         \/ ShowsWithout(c, "auction")

(* An auction, then, for its leader, the auction again and the bid.        *)
GetAuction(c, a) ==
  LET k == Asks("GetAuction", Null, a, Null)
  IN  Asked(c, k, a = Null,
        Runs(c, k, ReadError(a, {x \in Auctions : auction[x].status # "absent"}),
          Continues(c, [k EXCEPT !.step = "row", !.body = [auction |-> AuctionView(a)]])))

HighestBidId(c) ==
  LET b == auction[call[c].id].highest
  IN  /\ At(c, "GetAuction", "row")
      /\ \/ b = Null /\ Shows(c, call[c], With(call[c].body, "leader", Null))
         \/ b # Null /\ Continues(c, [call[c] EXCEPT !.step = "bid", !.found = b])
         \/ ShowsWithout(c, "leader")

HighestBid(c) ==
  /\ At(c, "GetAuction", "bid")
  /\ \/ Shows(c, call[c], With(call[c].body, "leader", BidView(call[c].found)))
     \/ ShowsWithout(c, "leader")

ListItems(c) ==
  LET k == Asks("ListItems", Null, Null, Null)
  IN  Asked(c, k, FALSE, Runs(c, k, "none", Shows(c, k, {ItemView(i) : i \in KnownItems})))

ListAuctions(c) ==
  LET k == Asks("ListAuctions", Null, Null, Null)
  IN  Asked(c, k, FALSE, Runs(c, k, "none", Shows(c, k, {AuctionView(a) : a \in ActiveAuctions})))

Balance(g) == [total |-> wallets.total[g], reserved |-> wallets.reserved[g],
               available |-> Wrap(wallets.total[g] - wallets.reserved[g])]

GetWallet(c, g) ==
  LET k == Asks("GetWallet", Null, g, Null)
  IN  Asked(c, k, g = Null,
        Runs(c, k, ReadError(g, Guilds), Shows(c, k, Balance(g))))
-----------------------------------------------------------------------------
Senders == Guilds \cup Strangers \cup {TooBig, Null}

Targets == Items \cup Shop!Goods \cup {TooBig, Null}

Write(c) ==
  \E g \in Senders, i \in Targets :
    \/ \E p \in Prices \cup {0} : ListItemForSale(c, g, i, p)
    \/ OpenAuction(c, g, i)
    \/ BuyItem(c, g, i)
    \/ \E x \in Amounts \cup {0} : PlaceBidOnItem(c, g, i, x)
    \/ \E b \in Bids \cup {TooBig, Null} : CancelBidOnItem(c, g, i, b)

Register(c) ==
  \E g \in Senders, name \in Products \cup {Blank, BadName, Null},
     tier \in NewTiers \cup {"unknown"}, stock \in Stocks \cup {0, IntMax + 1} :
    CreateItem(c, g, name, tier, stock)

Read(c) ==
  \/ \E i \in Targets : GetItem(c, i)
  \/ \E a \in Auctions \cup {TooBig, Null} : GetAuction(c, a)
  \/ \E g \in Senders : GetWallet(c, g)
  \/ ListItems(c) \/ ListAuctions(c)

(* The steps of a call that has begun.                                     *)
Continue(c) ==
  \/ Buy(c) \/ Bid(c) \/ Cancel(c)
  \/ GetItemListing(c) \/ GetItemAuction(c)
  \/ HighestBidId(c) \/ HighestBid(c)

(* Everyone else, the settlement worker included.  An answer is looked at  *)
(* before the market moves on.                                             *)
Others ==
  /\ \A c \in Clients : call[c].step # "done"
  /\ MarketNext
  /\ UNCHANGED call

(* The client takes its answer.                                            *)
Returns(c) ==
  /\ call[c].step = "done"
  /\ Continues(c, Idle)

ApiNext ==
  \/ \E c \in Clients : Register(c) \/ Write(c) \/ Read(c) \/ Continue(c) \/ Returns(c)
  \/ \E c \in Clients, op \in Writes : TurnsAway(c, op)
  \/ Others

ApiSpec == ApiInit /\ [][ApiNext]_apivars
-----------------------------------------------------------------------------
(* The statuses the handlers' godoc declares.                              *)
Declared(op) ==
  CASE op = "CreateItem" -> {201, 400, 404}
    [] op \in {"ListItemForSale", "OpenAuction"} -> {201, 400, 404, 409}
    [] op = "BuyItem"    -> {200, 400, 402, 404, 409}
    [] op = "PlaceBid"   -> {201, 400, 402, 404, 409}
    [] op = "CancelBid"  -> {200, 400, 404}
    [] op \in {"GetItem", "GetAuction", "GetWallet"} -> {200, 404}
    [] OTHER -> {200}

(* An argument that the service lets through and its column does not hold. *)
Unfit(k) ==
  \/ TooBig \in {k.guild, k.id, k.value}
  \/ k.op = "CreateItem" /\ (k.id = BadName \/ k.value > IntMax)

(* Whatever happens between the steps of a call, the answer it is given is *)
(* one that is declared, but for these: a read of a malformed path, a key  *)
(* the middleware does not let it use, a bid that is cancelled when the    *)
(* auction has been settled since it was resolved; and an internal error   *)
(* only of a statement that failed by no fault of the call, for arguments  *)
(* that fit no column, for a purchase or bid of a guild that does not      *)
(* exist, where an insert draws an id of the seed, and where the day's     *)
(* total would overflow.                                                   *)
StatusesExplained ==
  [][\A c \in Clients : call[c].step # "done" /\ call'[c].step = "done" =>
       LET k == call'[c]
       IN  \/ k.status \in Declared(k.op)
           \/ k.status = 400 /\ k.op \in Reads /\ k.fault = "request"
           \/ k.status = 409 /\ k.op \in Writes /\ k.fault = "key"
           \/ k.status = 409 /\ k.op = "CancelBid" /\ auction[k.found].status = "settled"
           \/ k.status = 500 /\ (k.fault = "database" \/ Unfit(k))
           \/ k.status = 500 /\ k.op \in {"BuyItem", "PlaceBid"} /\ k.guild \in Strangers
           \/ /\ k.status = 500 /\ k.op \in {"BuyItem", "CreateItem"}
              /\ seq' # seq /\ seq' \in DOMAIN SeedGoods
           \/ k.status = 500 /\ k.op = "BuyItem" /\ k.guild \in Guilds /\ ~AddsUp(k)]_apivars

(* The leader GET /auctions/{id} shows beside an auction was read later    *)
(* than the auction, and fits it nevertheless: it is a bid on this auction *)
(* that is at least the leader recorded in the row shown, and no other one *)
(* if that row is settled.  A leader that is recorded is missing only if   *)
(* the later read failed.                                                  *)
LeaderNotOlder ==
  \A c \in Clients : call[c].step = "done" /\ call[c].op = "GetAuction" /\ call[c].status = 200 =>
    LET row == call[c].body.auction
        leader == call[c].body.leader
    IN  /\ leader = Null => row.highest = Null \/ call[c].fault = "database"
        /\ leader # Null =>
             /\ leader.auction = row.id
             /\ row.highest # Null => leader.amount >= bid[row.highest].amount
             /\ row.status = "settled" => leader.id = row.highest /\ leader.bidder = row.winner
=============================================================================
