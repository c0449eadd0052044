------------------------- MODULE AuctionTxTheorems -------------------------
(***************************************************************************)
(* AuctionTx implements AuctionHouse, for every number of clients, workers,*)
(* guilds, items, auctions and bids: what a transaction has copied stays   *)
(* what is committed until it ends, because of the rows it has locked.     *)
(***************************************************************************)
EXTENDS AuctionTx, AuctionHouseTheorems

(* The invariant says of a session s that the transaction t it runs, which *)
(* holds the locks that h gives it, fits the committed tables.             *)
Stages(op) ==
  CASE op = "none"   -> {"begin"}
    [] op = "open"   -> {"item", "commit"}
    [] op = "bid"    -> {"auction", "reserve", "release", "commit"}
    [] op = "cancel" -> {"auction", "commit"}
    [] OTHER         -> {"auction", "item", "pay", "credit", "commit"}

(* A transaction is at a stage of its operation and names rows.            *)
Named(t) ==
  /\ t.next \in Stages(t.op)
  /\ t.op = "open" => t.item \in Items /\ t.guild \in Guilds
  /\ t.op \in {"bid", "cancel", "settle"} => t.auction \in Auctions
  /\ t.op \in {"bid", "cancel"} => t.guild \in Guilds
  /\ t.op = "bid" => t.amount \in Amounts
  /\ t.op = "cancel" => t.bid \in Bids

(* The auction row has been locked, and copied. *)
HasAuction(t) == t.op \in {"bid", "settle"} /\ t.next # "auction"

(* So has the item row. *)
HasItem(t) ==
  \/ t.op = "open" /\ t.next = "commit"
  \/ t.op = "settle" /\ t.next \in {"pay", "credit", "commit"}

AuctionHeld(s, t, h) ==
  IF HasAuction(t)
  THEN h[t.auction] = s /\ auction[t.auction] = t.auctionRow /\ t.auctionRow.status = "active"
  ELSE t.auctionRow = NoAuction

ItemHeld(s, t, h) ==
  /\ IF HasItem(t)
     THEN h[t.item] = s /\ item[t.item] = t.itemRow
     ELSE t.itemRow = Null
  /\ t.op = "settle" /\ t.next # "auction" => t.item = t.auctionRow.item

(* No bid has been copied yet. *)
NoBidYet(t) == t.op \in {"none", "open"} \/ t.next = "auction" => t.bidRow = NoBid

(* What CreateAuction, PlaceBid, CancelBid and SettleAuction have checked. *)
OpenChecked(t) ==
  t.op = "open" /\ t.next = "commit" =>
    /\ t.itemRow.owner = t.guild /\ Tier[t.item] = "legendary" /\ t.itemRow.status = "available"
    /\ t.at \in 0 .. now /\ ReadAfterLastAuction(t.item, t.at)

Leader(row) == IF row.highest = Null THEN NoBid ELSE bid[row.highest]

BidChecked(t) ==
  t.op = "bid" /\ t.next # "auction" =>
    /\ t.bidRow = Leader(t.auctionRow)
    /\ t.at \in 0 .. now /\ t.auctionRow.updatedAt <= t.at
    /\ ~AuctionEnded(t.at, t.auctionRow.endsAt)
    /\ EnsureNotSelfBid(t.auctionRow.seller, t.guild)
    /\ EnsureBidBeatsCurrent(t.bidRow.amount, t.amount)
    /\ t.next = "release" => t.auctionRow.highest # Null

CancelChecked(s, t, h) ==
  t.op = "cancel" /\ t.next = "commit" =>
    /\ h[t.auction] = s /\ auction[t.auction].status = "active"
    /\ bid[t.bid] = t.bidRow
    /\ t.bidRow.auction = t.auction /\ t.bidRow.bidder = t.guild
    /\ t.bidRow.status # "active" /\ auction[t.auction].highest # t.bid

SettleChecked(t) ==
  t.op = "settle" /\ t.next # "auction" =>
    /\ AuctionEnded(now, t.auctionRow.endsAt)
    /\ t.bidRow = IF t.next = "item" THEN NoBid ELSE Leader(t.auctionRow)
    /\ t.next \in {"pay", "credit"} => t.auctionRow.highest # Null

(* The movements of money made so far. *)
Reserved(t) == t.op = "bid" /\ t.next \in {"release", "commit"}
Released(t) == t.op = "bid" /\ t.next = "commit" /\ t.auctionRow.highest # Null
Paid(t)     == t.op = "settle" /\ t.next \in {"credit", "commit"} /\ t.auctionRow.highest # Null
Credited(t) == t.op = "settle" /\ t.next = "commit" /\ t.auctionRow.highest # Null

(* The guilds they were made for, and the ledger rows they add. *)
Payers(t) ==
  {g \in Guilds : \/ Reserved(t) /\ g = t.guild
                  \/ (Released(t) \/ Paid(t)) /\ g = t.bidRow.bidder
                  \/ Credited(t) /\ g = t.auctionRow.seller}

Note(t, g, k) ==
  CASE k = "reserve_bid"    -> IF Reserved(t) /\ g = t.guild THEN t.amount ELSE 0
    [] k = "release_bid"    -> IF Released(t) /\ g = t.bidRow.bidder THEN t.bidRow.amount ELSE 0
    [] k = "debit_auction"  -> IF Paid(t) /\ g = t.bidRow.bidder THEN t.bidRow.amount ELSE 0
    [] k = "credit_auction" -> IF Credited(t) /\ g = t.auctionRow.seller THEN t.bidRow.amount ELSE 0
    [] OTHER -> 0

(* What they have done to a wallet. *)
TotalMoved(t, g) == Note(t, g, "credit_auction") - Note(t, g, "debit_auction")

ReservedMoved(t, g) ==
  Note(t, g, "reserve_bid") - Note(t, g, "release_bid") - Note(t, g, "debit_auction")

(* The money of t is the committed money, moved that way. *)
MoneyExact(s, t, h) ==
  /\ t.mine = Payers(t)
  /\ \A g \in Guilds, k \in LedgerKinds : t.w.ledger[g][k] = Note(t, g, k)
  /\ \A g \in t.mine :
       /\ h[g] = s
       /\ t.w.total[g] = wallets.total[g] + TotalMoved(t, g)
       /\ t.w.reserved[g] = wallets.reserved[g] + ReservedMoved(t, g)
  /\ Reserved(t) => CanReserve(wallets, t.guild, t.amount)

Fits(s, t, h) ==
  /\ Named(t) /\ AuctionHeld(s, t, h) /\ ItemHeld(s, t, h) /\ NoBidYet(t)
  /\ OpenChecked(t) /\ BidChecked(t) /\ CancelChecked(s, t, h) /\ SettleChecked(t)
  /\ MoneyExact(s, t, h)

(* No auction was changed in the future. *)
UpdatedInPast == \A a \in Auctions : auction[a].updatedAt <= now

SessionsTyped == tx \in [Sessions -> Tx] /\ DOMAIN holder = Rows

SessionsFit == \A s \in Sessions : Fits(s, tx[s], holder)

TxInv == MarketInv /\ UpdatedInPast /\ SessionsTyped /\ SessionsFit
-----------------------------------------------------------------------------
(* The tables have rows of their types. *)
LEMMA Tables ==
  ASSUME TxInv
  PROVE  /\ CoreInv /\ OneOpen /\ now \in Nat /\ wallets \in WalletsType
         /\ item \in [Items -> ItemRow] /\ auction \in [Auctions -> AuctionRow]
         /\ bid \in [Bids -> BidRow]
         /\ tx \in [Sessions -> Tx] /\ DOMAIN holder = Rows
  BY DEF TxInv, MarketInv, CoreInv, TypeOK, Time, SessionsTyped

(* The row a session has copied, and the leader recorded in it. *)
LEMMA Copied ==
  ASSUME TxInv, NEW s \in Sessions, HasAuction(tx[s])
  PROVE  LET t == tx[s]
             row == t.auctionRow
             b == row.highest
         IN  /\ t.auction \in Auctions /\ row = auction[t.auction] /\ row \in AuctionRow
             /\ holder[t.auction] = s /\ row.status = "active"
             /\ row.item \in Items /\ row.seller \in Guilds
             /\ b # Null =>
                  /\ b \in Bids /\ bid[b].status = "active" /\ bid[b].auction = t.auction
                  /\ bid[b] \in BidRow
                  /\ bid[b].bidder \in Guilds /\ bid[b].bidder # row.seller
                  /\ bid[b].amount \in Int /\ bid[b].amount > 0
                  /\ bid[b].amount <= wallets.reserved[bid[b].bidder]
<1> DEFINE t == tx[s]
           a == t.auction
           b == auction[a].highest
<1>1. Named(t) /\ AuctionHeld(s, t, holder)
  BY DEF TxInv, SessionsFit, Fits
<1>2. /\ a \in Auctions /\ holder[a] = s /\ auction[a] = t.auctionRow
      /\ auction[a].status = "active"
  BY <1>1 DEF Named, AuctionHeld, HasAuction
<1>3. TypeOK /\ RowsConsistent /\ ReservedBacked
  BY Tables DEF CoreInv
<1>4. auction[a] \in AuctionRow /\ auction[a].item \in Items /\ auction[a].seller \in Guilds
  BY <1>2, <1>3 DEF TypeOK, RowsConsistent
<1>5. ASSUME b # Null
      PROVE  /\ b \in Bids /\ bid[b].status = "active" /\ bid[b].auction = a
             /\ bid[b] \in BidRow
             /\ bid[b].bidder \in Guilds /\ bid[b].bidder # auction[a].seller
             /\ bid[b].amount \in Int /\ bid[b].amount > 0
             /\ bid[b].amount <= wallets.reserved[bid[b].bidder]
  <2>1. /\ b \in Bids /\ bid[b].status = "active" /\ bid[b].auction = a
        /\ bid[b].bidder # auction[a].seller
    BY <1>2, <1>3, <1>5, LeaderActive
  <2>2. /\ bid[b].bidder \in Guilds /\ bid[b].amount > 0 /\ bid[b].amount \in Int
        /\ bid[b].amount <= wallets.reserved[bid[b].bidder]
    BY <1>3, <2>1, ActiveCovered
  <2> QED BY <1>3, <2>1, <2>2 DEF TypeOK
<1> QED BY <1>2, <1>4, <1>5
-----------------------------------------------------------------------------
(* A movement of money: what its ledger row says of the two columns.       *)
LEMMA NoteInt ==
  ASSUME NEW t \in Tx, NEW g \in Guilds
  PROVE  /\ \A k \in LedgerKinds : Note(t, g, k) \in Int
         /\ TotalMoved(t, g) \in Int /\ ReservedMoved(t, g) \in Int
<1>1. t.amount \in Int /\ t.bidRow.amount \in Int
  BY DEF Tx, BidRow
<1>2. \A k \in LedgerKinds : Note(t, g, k) \in Int
  BY <1>1 DEF Note, LedgerKinds
<1> QED BY <1>2 DEF TotalMoved, ReservedMoved, LedgerKinds

(* The row a session is about to change is the committed one, moved by     *)
(* what the session has noted.                                             *)
LEMMA SeenExact ==
  ASSUME TxInv, NEW s \in Sessions, NEW g \in Guilds
  PROVE  LET t == tx[s]
             w == Seen(t, g)
         IN  /\ w \in WalletsType /\ w.ledger = t.w.ledger
             /\ \A h \in Guilds : h # g => w.total[h] = t.w.total[h]
                                           /\ w.reserved[h] = t.w.reserved[h]
             /\ w.total[g] = wallets.total[g] + TotalMoved(t, g)
             /\ w.reserved[g] = wallets.reserved[g] + ReservedMoved(t, g)
<1> DEFINE t == tx[s]
           w == Seen(t, g)
<1>1. t \in Tx /\ t.w \in WalletsType /\ wallets \in WalletsType
  BY Tables DEF Tx
<1>2. MoneyExact(s, t, holder)
  BY DEF TxInv, SessionsFit, Fits
<1>3. CASE g \in t.mine
  BY <1>1, <1>2, <1>3 DEF Seen, MoneyExact
<1>4. CASE g \notin t.mine
  <2>1. TotalMoved(t, g) = 0 /\ ReservedMoved(t, g) = 0
    <3>1. g \notin Payers(t)
      BY <1>2, <1>4 DEF MoneyExact
    <3> QED BY <3>1 DEF Payers, TotalMoved, ReservedMoved, Note, Reserved, Released, Paid, Credited
  <2>2. w = [t.w EXCEPT !.total[g] = wallets.total[g], !.reserved[g] = wallets.reserved[g]]
    BY <1>4 DEF Seen
  <2> HIDE DEF t, w
  <2>3. /\ w \in WalletsType /\ w.ledger = t.w.ledger
        /\ \A h \in Guilds : h # g => w.total[h] = t.w.total[h]
                                      /\ w.reserved[h] = t.w.reserved[h]
        /\ w.total[g] = wallets.total[g] /\ w.reserved[g] = wallets.reserved[g]
    BY <1>1, <2>2 DEF WalletsType
  <2>4. wallets.total[g] \in Int /\ wallets.reserved[g] \in Int
    BY <1>1 DEF WalletsType
  <2> QED BY <2>1, <2>3, <2>4 DEF t, w
<1> QED BY <1>3, <1>4

(* What a session that commits writes. *)
LEMMA WrittenExact ==
  ASSUME TxInv, NEW s \in Sessions
  PROVE  LET w == Written(tx[s])
         IN  /\ w \in WalletsType
             /\ \A g \in Guilds : /\ w.total[g] = wallets.total[g] + TotalMoved(tx[s], g)
                                  /\ w.reserved[g] = wallets.reserved[g] + ReservedMoved(tx[s], g)
             /\ \A g \in Guilds, k \in LedgerKinds :
                  w.ledger[g][k] = wallets.ledger[g][k] + Note(tx[s], g, k)
<1> DEFINE t == tx[s]
           w == Written(t)
<1>1. t \in Tx /\ t.w \in WalletsType /\ wallets \in WalletsType
  BY Tables DEF Tx
<1>2. MoneyExact(s, t, holder)
  BY DEF TxInv, SessionsFit, Fits
<1>3. w \in WalletsType
  BY <1>1 DEF Written, WalletsType
<1>4. ASSUME NEW g \in Guilds
      PROVE  /\ w.total[g] = wallets.total[g] + TotalMoved(t, g)
             /\ w.reserved[g] = wallets.reserved[g] + ReservedMoved(t, g)
  <2>1. CASE g \in t.mine
    BY <1>2, <2>1 DEF Written, MoneyExact
  <2>2. CASE g \notin t.mine
    <3>1. TotalMoved(t, g) = 0 /\ ReservedMoved(t, g) = 0
      <4>1. g \notin Payers(t)
        BY <1>2, <2>2 DEF MoneyExact
      <4> QED BY <4>1 DEF Payers, TotalMoved, ReservedMoved, Note, Reserved, Released, Paid, Credited
    <3>2. w.total[g] = wallets.total[g] /\ w.reserved[g] = wallets.reserved[g]
      BY <2>2 DEF Written
    <3>3. wallets.total[g] \in Int /\ wallets.reserved[g] \in Int
      BY <1>1 DEF WalletsType
    <3> HIDE DEF t, w
    <3> QED BY <3>1, <3>2, <3>3
  <2> QED BY <2>1, <2>2
<1>5. \A g \in Guilds, k \in LedgerKinds : w.ledger[g][k] = wallets.ledger[g][k] + Note(t, g, k)
  BY <1>2 DEF Written, MoneyExact
<1> QED BY <1>3, <1>4, <1>5
-----------------------------------------------------------------------------
(* What a ledger row of n coins does to the two columns of a wallet.        *)
TotalBy(kind, n) ==
  CASE kind = "credit_auction" -> n [] kind = "debit_auction" -> -n [] OTHER -> 0

ReservedBy(kind, n) ==
  CASE kind = "reserve_bid" -> n [] kind \in {"release_bid", "debit_auction"} -> -n [] OTHER -> 0

(* Session s moves n coins of guild g, noted as of this kind: c is its      *)
(* transaction afterwards, h the locks.                                    *)
MovesTo(s, g, kind, n, c, h) ==
  LET t == tx[s]
      w == Seen(t, g)
  IN  /\ h[g] = s /\ \A r \in Rows : holder[r] = s => h[r] = s
      /\ c.mine = t.mine \cup {g} /\ Payers(c) = Payers(t) \cup {g}
      /\ \A x \in Guilds, k \in LedgerKinds :
           Note(c, x, k) = Note(t, x, k) + (IF x = g /\ k = kind THEN n ELSE 0)
      /\ c.w.ledger = Recorded(w, g, kind, n)
      /\ \A x \in Guilds : x # g => c.w.total[x] = w.total[x] /\ c.w.reserved[x] = w.reserved[x]
      /\ c.w.total[g] = w.total[g] + TotalBy(kind, n)
      /\ c.w.reserved[g] = w.reserved[g] + ReservedBy(kind, n)
      /\ Reserved(c) => CanReserve(wallets, c.guild, c.amount)

LEMMA Moves ==
  ASSUME TxInv, NEW s \in Sessions, NEW g \in Guilds, NEW kind \in LedgerKinds, NEW n \in Nat,
         NEW c \in Tx, NEW h, MovesTo(s, g, kind, n, c, h)
  PROVE  MoneyExact(s, c, h)
<1> DEFINE t == tx[s]
           w == Seen(t, g)
<1> USE DEF MovesTo
<1>1. MoneyExact(s, t, holder) /\ t \in Tx /\ wallets \in WalletsType /\ Guilds \subseteq Rows
  BY Tables DEF TxInv, SessionsFit, Fits, Rows
<1>2. /\ w \in WalletsType /\ w.ledger = t.w.ledger
      /\ \A x \in Guilds : x # g => w.total[x] = t.w.total[x] /\ w.reserved[x] = t.w.reserved[x]
      /\ w.total[g] = wallets.total[g] + TotalMoved(t, g)
      /\ w.reserved[g] = wallets.reserved[g] + ReservedMoved(t, g)
  BY SeenExact
<1>3. c.mine = Payers(c)
  BY <1>1 DEF MoneyExact
<1>4. \A x \in Guilds, k \in LedgerKinds : c.w.ledger[x][k] = Note(c, x, k)
  <2> TAKE x \in Guilds, k \in LedgerKinds
  <2>1. c.w.ledger[x][k] = IF x = g /\ k = kind THEN w.ledger[x][k] + n ELSE w.ledger[x][k]
    BY <1>2, LedgerAfter
  <2>2. w.ledger[x][k] = Note(t, x, k) /\ Note(t, x, k) \in Int
    BY <1>1, <1>2, NoteInt DEF MoneyExact
  <2> QED BY <2>1, <2>2
<1>5. ASSUME NEW x \in c.mine
      PROVE  /\ h[x] = s
             /\ c.w.total[x] = wallets.total[x] + TotalMoved(c, x)
             /\ c.w.reserved[x] = wallets.reserved[x] + ReservedMoved(c, x)
  <2>1. x \in Guilds
    BY <1>3 DEF Payers
  <2>2. \A k \in LedgerKinds : Note(t, x, k) \in Int
    BY <1>1, <2>1, NoteInt
  <2>3. /\ "reserve_bid" \in LedgerKinds /\ "release_bid" \in LedgerKinds
        /\ "debit_auction" \in LedgerKinds /\ "credit_auction" \in LedgerKinds
    BY DEF LedgerKinds
  <2>4. wallets.total[x] \in Int /\ wallets.reserved[x] \in Int
    BY <1>1, <2>1 DEF WalletsType
  <2>5. CASE x = g
    <3>1. TotalMoved(c, x) = TotalMoved(t, x) + TotalBy(kind, n)
      BY <2>1, <2>2, <2>3, <2>5 DEF TotalMoved, TotalBy
    <3>2. ReservedMoved(c, x) = ReservedMoved(t, x) + ReservedBy(kind, n)
      BY <2>1, <2>2, <2>3, <2>5 DEF ReservedMoved, ReservedBy
    <3>3. /\ TotalMoved(t, x) \in Int /\ ReservedMoved(t, x) \in Int
          /\ TotalBy(kind, n) \in Int /\ ReservedBy(kind, n) \in Int
      BY <1>1, <2>1, NoteInt DEF TotalBy, ReservedBy
    <3> QED BY <1>2, <2>4, <2>5, <3>1, <3>2, <3>3
  <2>6. CASE x # g
    <3>1. TotalMoved(c, x) = TotalMoved(t, x) /\ ReservedMoved(c, x) = ReservedMoved(t, x)
      BY <2>1, <2>2, <2>3, <2>6 DEF TotalMoved, ReservedMoved
    <3>2. x \in t.mine /\ x \in Rows
      BY <1>1, <2>1, <2>6
    <3>3. c.w.total[x] = t.w.total[x] /\ c.w.reserved[x] = t.w.reserved[x]
      BY <1>2, <2>1, <2>6
    <3> QED BY <1>1, <3>1, <3>2, <3>3 DEF MoneyExact
  <2> QED BY <2>5, <2>6
<1> QED BY <1>3, <1>4, <1>5 DEF MoneyExact

(* A session that moves none. *)
LEMMA MovesNothing ==
  ASSUME TxInv, NEW s \in Sessions, NEW c \in Tx, NEW h,
         \A r \in Rows : holder[r] = s => h[r] = s,
         c.mine = tx[s].mine, c.w = tx[s].w,
         ~Reserved(tx[s]) /\ ~Paid(tx[s]), ~Reserved(c) /\ ~Paid(c)
  PROVE  MoneyExact(s, c, h)
<1>1. MoneyExact(s, tx[s], holder)
  BY DEF TxInv, SessionsFit, Fits
<1>2. Payers(c) = {} /\ Payers(tx[s]) = {}
  BY DEF Payers, Reserved, Released, Paid, Credited
<1>3. \A g \in Guilds, k \in LedgerKinds : Note(c, g, k) = 0 /\ Note(tx[s], g, k) = 0
  BY DEF Note, Reserved, Released, Paid, Credited
<1> QED BY <1>1, <1>2, <1>3 DEF MoneyExact
-----------------------------------------------------------------------------
(* What the sessions must keep in a step. *)
Kept == SessionsTyped' /\ SessionsFit'

(* A step that leaves the transaction of c, its locks and the rows they    *)
(* lock as they are, and lets nobody auction an item c has locked.         *)
Spares(c) ==
  /\ tx'[c] = tx[c]
  /\ \A r \in Rows : holder[r] = c => holder'[r] = c
  /\ now' \in Nat /\ now <= now'
  /\ \A a \in Auctions : holder[a] = c /\ auction[a].status = "active" =>
       /\ auction'[a] = auction[a]
       /\ \A b \in Bids : bid[b].auction = a => bid'[b] = bid[b]
  /\ \A i \in Items : holder[i] = c =>
       /\ item'[i] = item[i]
       /\ item[i].status = "available" =>
            \A a \in Auctions : auction'[a].item = i => auction'[a] = auction[a]
  /\ \A g \in Guilds : holder[g] = c =>
       wallets'.total[g] = wallets.total[g] /\ wallets'.reserved[g] = wallets.reserved[g]

LEMMA SparedSession ==
  ASSUME TxInv, NEW c \in Sessions, Spares(c)
  PROVE  Fits(c, tx[c], holder)'
<1> DEFINE t == tx[c]
           row == t.auctionRow
<1>1. /\ Named(t) /\ AuctionHeld(c, t, holder) /\ ItemHeld(c, t, holder) /\ NoBidYet(t)
      /\ OpenChecked(t) /\ BidChecked(t) /\ CancelChecked(c, t, holder) /\ SettleChecked(t)
      /\ MoneyExact(c, t, holder)
  BY DEF TxInv, SessionsFit, Fits
<1>2. /\ tx'[c] = t /\ now \in Nat /\ now' \in Nat /\ now <= now' /\ t \in Tx
      /\ \A r \in Rows : holder[r] = c => holder'[r] = c
      /\ Auctions \subseteq Rows /\ Items \subseteq Rows /\ Guilds \subseteq Rows
  BY Tables DEF Spares, Rows
<1>3. Named(tx[c])' /\ NoBidYet(tx[c])'
  BY <1>1, <1>2 DEF Named, NoBidYet, Stages
<1>4. HasAuction(t) => /\ t.auction \in Auctions /\ holder[t.auction] = c
                       /\ auction'[t.auction] = row
                       /\ Leader(row)' = Leader(row)
                       /\ row \in AuctionRow /\ row.seller \in Guilds
                       /\ row.highest # Null => bid[row.highest].bidder \in Guilds
  <2> SUFFICES ASSUME HasAuction(t)
               PROVE  /\ t.auction \in Auctions /\ holder[t.auction] = c
                      /\ auction'[t.auction] = row /\ Leader(row)' = Leader(row)
                      /\ row \in AuctionRow /\ row.seller \in Guilds
                      /\ row.highest # Null => bid[row.highest].bidder \in Guilds
    OBVIOUS
  <2>1. /\ t.auction \in Auctions /\ row = auction[t.auction] /\ holder[t.auction] = c
        /\ row \in AuctionRow /\ row.seller \in Guilds /\ row.status = "active"
        /\ row.highest # Null => /\ row.highest \in Bids /\ bid[row.highest].auction = t.auction
                                 /\ bid[row.highest].bidder \in Guilds
    BY Copied
  <2>2. /\ auction'[t.auction] = auction[t.auction]
        /\ \A b \in Bids : bid[b].auction = t.auction => bid'[b] = bid[b]
    BY <2>1 DEF Spares
  <2>3. Leader(row)' = Leader(row)
    <3>1. tx'[c].auctionRow = row
      BY <1>2
    <3> QED BY <2>1, <2>2, <3>1 DEF Leader
  <2> QED BY <2>1, <2>2, <2>3
<1>5. AuctionHeld(c, tx[c], holder)'
  BY <1>1, <1>2, <1>4 DEF AuctionHeld, HasAuction
<1>6. ItemHeld(c, tx[c], holder)' /\ OpenChecked(tx[c])'
  <2>1. HasItem(t) => t.item \in Items /\ holder[t.item] = c /\ item'[t.item] = item[t.item]
    <3> SUFFICES ASSUME HasItem(t) PROVE t.item \in Items /\ holder[t.item] = c
      BY DEF Spares
    <3>1. CASE t.op = "open"
      BY <1>1, <3>1 DEF Named, ItemHeld
    <3>2. CASE t.op = "settle"
      <4>1. HasAuction(t)
        BY <3>2 DEF HasItem, HasAuction
      <4>2. row.item \in Items
        BY <4>1, Copied
      <4> QED BY <1>1, <3>2, <4>2 DEF ItemHeld, HasItem
    <3> QED BY <3>1, <3>2 DEF HasItem
  <2>2. ItemHeld(c, tx[c], holder)'
    BY <1>1, <1>2, <2>1 DEF ItemHeld, HasItem
  <2>3. OpenChecked(tx[c])'
    <3>1. CASE t.op = "open" /\ t.next = "commit"
      <4>1. /\ t.itemRow.owner = t.guild /\ Tier[t.item] = "legendary"
            /\ t.itemRow.status = "available"
            /\ t.at \in 0 .. now /\ ReadAfterLastAuction(t.item, t.at)
        BY <1>1, <3>1 DEF OpenChecked
      <4>2. t.item \in Items /\ holder[t.item] = c /\ item[t.item] = t.itemRow
        BY <1>1, <2>1, <3>1 DEF HasItem, ItemHeld
      <4>3. \A a \in Auctions : auction'[a].item = t.item => auction'[a] = auction[a]
        BY <4>1, <4>2 DEF Spares
      <4>4. \A a \in Auctions : auction'[a].item = t.item => auction'[a].updatedAt <= t.at
        BY <4>1, <4>3 DEF ReadAfterLastAuction
      <4>5. t.at \in 0 .. now'
        BY <1>2, <4>1
      <4> QED BY <1>2, <4>1, <4>4, <4>5 DEF OpenChecked, ReadAfterLastAuction
    <3> QED BY <1>2, <3>1 DEF OpenChecked
  <2> QED BY <2>2, <2>3
<1>7. BidChecked(tx[c])'
  <2>1. CASE t.op = "bid" /\ t.next # "auction"
    <3>1. Leader(row)' = Leader(row) /\ t.at \in 0 .. now'
      BY <1>1, <1>2, <1>4, <2>1 DEF HasAuction, BidChecked
    <3> QED BY <1>1, <1>2, <2>1, <3>1 DEF BidChecked, Leader
  <2> QED BY <1>2, <2>1 DEF BidChecked
<1>8. CancelChecked(c, tx[c], holder)'
  <2>1. CASE t.op = "cancel" /\ t.next = "commit"
    <3>1. t.auction \in Auctions /\ holder[t.auction] = c /\ t.bid \in Bids
          /\ bid[t.bid].auction = t.auction /\ auction[t.auction].status = "active"
      BY <1>1, <2>1 DEF Named, CancelChecked
    <3>2. auction'[t.auction] = auction[t.auction] /\ bid'[t.bid] = bid[t.bid]
      BY <3>1 DEF Spares
    <3> QED BY <1>1, <1>2, <3>1, <3>2 DEF CancelChecked
  <2> QED BY <1>2, <2>1 DEF CancelChecked
<1>9. SettleChecked(tx[c])'
  <2>1. CASE t.op = "settle" /\ t.next # "auction"
    <3>1. Leader(row)' = Leader(row) /\ row.endsAt \in Nat
      BY <1>4, <2>1 DEF HasAuction, AuctionRow, Time
    <3>2. AuctionEnded(now', row.endsAt)
      BY <1>1, <1>2, <2>1, <3>1 DEF SettleChecked, AuctionEnded
    <3> QED BY <1>1, <1>2, <2>1, <3>1, <3>2 DEF SettleChecked, Leader, AuctionEnded
  <2> QED BY <1>2, <2>1 DEF SettleChecked
<1>10. MoneyExact(c, tx[c], holder)'
  <2>1. \A g \in t.mine : /\ g \in Guilds /\ holder[g] = c /\ holder'[g] = c
                          /\ wallets'.total[g] = wallets.total[g]
                          /\ wallets'.reserved[g] = wallets.reserved[g]
    <3>1. \A g \in t.mine : g \in Guilds /\ holder[g] = c
      BY <1>1 DEF MoneyExact, Payers
    <3> QED BY <1>2, <3>1 DEF Spares
  <2>2. Reserved(t) => t.guild \in t.mine
    BY <1>1 DEF MoneyExact, Payers, Named, Reserved
  <2>3. Reserved(t) => CanReserve(wallets, t.guild, t.amount)'
    <3> SUFFICES ASSUME Reserved(t) PROVE CanReserve(wallets, t.guild, t.amount)'
      OBVIOUS
    <3>1. wallets'.total[t.guild] = wallets.total[t.guild]
          /\ wallets'.reserved[t.guild] = wallets.reserved[t.guild]
      BY <2>1, <2>2
    <3> QED BY <1>1, <1>2, <3>1 DEF MoneyExact, CanReserve
  <2>4. /\ Payers(tx[c])' = Payers(t)
        /\ \A g \in Guilds, k \in LedgerKinds : Note(tx[c], g, k)' = Note(t, g, k)
        /\ \A g \in Guilds : /\ TotalMoved(tx[c], g)' = TotalMoved(t, g)
                             /\ ReservedMoved(tx[c], g)' = ReservedMoved(t, g)
        /\ Reserved(tx[c])' = Reserved(t)
    BY <1>2 DEF Payers, Note, TotalMoved, ReservedMoved, Reserved, Released, Paid, Credited
  <2> QED BY <1>1, <1>2, <2>1, <2>3, <2>4 DEF MoneyExact
<1> QED BY <1>3, <1>5, <1>6, <1>7, <1>8, <1>9, <1>10 DEF Fits

LEMMA NoTxTyped == NoTx \in Tx
<1>1. NoAuction \in AuctionRow /\ NoBid \in BidRow /\ NoWallets \in WalletsType
  BY DEF NoAuction, AuctionRow, NoBid, BidRow, NoWallets, WalletsType, Time
<1> QED BY <1>1 DEF NoTx, Tx, Time

(* A transaction that has locked nothing yet relies on nothing. *)
LEMMA FreshFits ==
  ASSUME NEW s \in Sessions, NEW h, NEW t, Named(t),
         t.mine = {}, t.w = NoWallets, t.itemRow = Null, t.auctionRow = NoAuction, t.bidRow = NoBid,
         \/ t.op = "none"
         \/ t.op = "open" /\ t.next = "item"
         \/ t.op \in {"bid", "cancel", "settle"} /\ t.next = "auction"
  PROVE  Fits(s, t, h)
<1>1. ~Reserved(t) /\ ~Released(t) /\ ~Paid(t) /\ ~Credited(t)
  BY DEF Reserved, Released, Paid, Credited
<1>2. AuctionHeld(s, t, h) /\ ItemHeld(s, t, h) /\ NoBidYet(t)
  BY DEF AuctionHeld, HasAuction, ItemHeld, HasItem, NoBidYet
<1>3. OpenChecked(t) /\ BidChecked(t) /\ CancelChecked(s, t, h) /\ SettleChecked(t)
  BY DEF OpenChecked, BidChecked, CancelChecked, SettleChecked
<1>4. Payers(t) = {}
  BY <1>1 DEF Payers
<1>5. \A g \in Guilds, k \in LedgerKinds : t.w.ledger[g][k] = Note(t, g, k)
  BY <1>1 DEF NoWallets, Note
<1>6. MoneyExact(s, t, h)
  BY <1>1, <1>4, <1>5 DEF MoneyExact
<1> QED BY <1>2, <1>3, <1>6 DEF Fits

LEMMA NoTxFits == \A s \in Sessions : \A h : Fits(s, NoTx, h)
<1> TAKE s \in Sessions
<1> TAKE h
<1> DEFINE t == NoTx
<1>1. /\ t.op = "none" /\ t.next = "begin" /\ t.mine = {} /\ t.w = NoWallets /\ t.itemRow = Null
      /\ t.auctionRow = NoAuction /\ t.bidRow = NoBid
  BY DEF NoTx
<1> HIDE DEF t
<1>2. Named(t)
  BY <1>1 DEF Named, Stages
<1>3. Fits(s, t, h)
  BY <1>1, <1>2, FreshFits
<1> QED BY <1>3 DEF t

LEMMA Frees ==
  ASSUME NEW s \in Sessions, ReleaseLocks(s)
  PROVE  /\ DOMAIN holder' = Rows
         /\ \A c \in Sessions \ {s}, r \in Rows : holder[r] = c => holder'[r] = c
  BY DEF ReleaseLocks

(* The tables are as they were: the others keep what they have. *)
LEMMA OthersKeep ==
  ASSUME TxInv, UNCHANGED vars, NEW c \in Sessions, tx'[c] = tx[c],
         \A r \in Rows : holder[r] = c => holder'[r] = c
  PROVE  Fits(c, tx[c], holder)'
<1>1. Spares(c)
  BY Tables DEF Spares, vars
<1> QED BY <1>1, SparedSession

(* Fits is about the tables, which have not changed. *)
LEMMA FitsOn ==
  ASSUME UNCHANGED vars, NEW s \in Sessions, Fits(s, tx'[s], holder')
  PROVE  Fits(s, tx[s], holder)'
  BY DEF Fits, Named, Stages, AuctionHeld, HasAuction, ItemHeld, HasItem, NoBidYet, OpenChecked,
         BidChecked, CancelChecked, SettleChecked, MoneyExact, Leader, ReadAfterLastAuction, vars,
         Payers, Note, TotalMoved, ReservedMoved, Reserved, Released, Paid, Credited, CanReserve

(* A transaction ends without a change. *)
LEMMA Quits ==
  ASSUME TxInv, NEW s \in Sessions, Ends(s), UNCHANGED vars
  PROVE  Kept
<1>1. tx' = [tx EXCEPT ![s] = NoTx] /\ ReleaseLocks(s) /\ tx \in [Sessions -> Tx]
  BY Tables DEF Ends
<1>2. SessionsTyped'
  BY <1>1, NoTxTyped, Frees DEF SessionsTyped
<1>3. Fits(s, tx[s], holder)'
  <2>1. tx'[s] = NoTx
    BY <1>1
  <2>2. Fits(s, tx'[s], holder')
    BY <2>1, NoTxFits
  <2> QED BY <2>2, FitsOn
<1>4. ASSUME NEW c \in Sessions, c # s PROVE Fits(c, tx[c], holder)'
  <2>1. tx'[c] = tx[c] /\ \A r \in Rows : holder[r] = c => holder'[r] = c
    BY <1>1, <1>4, Frees
  <2> QED BY <2>1, OthersKeep
<1> QED BY <1>2, <1>3, <1>4 DEF Kept, SessionsFit

(* A session locks a row and goes on. *)
LEMMA Advances ==
  ASSUME TxInv, NEW s \in Sessions, NEW r \in Rows, NEW changed \in Tx,
         CanLock(s, r), Proceeds(s, r, changed), UNCHANGED vars,
         Fits(s, changed, [holder EXCEPT ![r] = s])
  PROVE  Kept
<1>1. /\ holder[r] \in {s, Null} /\ holder' = [holder EXCEPT ![r] = s]
      /\ tx' = [tx EXCEPT ![s] = changed] /\ tx \in [Sessions -> Tx] /\ DOMAIN holder = Rows
  BY Tables DEF Proceeds, CanLock, Lock
<1>2. SessionsTyped'
  BY <1>1 DEF SessionsTyped
<1>3. Fits(s, tx[s], holder)'
  <2>1. tx'[s] = changed
    BY <1>1
  <2>2. Fits(s, tx'[s], holder')
    BY <1>1, <2>1
  <2> QED BY <2>2, FitsOn
<1>4. ASSUME NEW c \in Sessions, c # s PROVE Fits(c, tx[c], holder)'
  <2>1. tx'[c] = tx[c] /\ \A q \in Rows : holder[q] = c => holder'[q] = c
    BY <1>1, <1>4, SessionsAssumption
  <2> QED BY <2>1, OthersKeep
<1> QED BY <1>2, <1>3, <1>4 DEF Kept, SessionsFit

(* A request, or the next id of a settlement job. *)
LEMMA BeginsKeeps ==
  ASSUME TxInv, NEW s \in Sessions, NEW request \in Tx, Starts(s, request),
         \A h : Fits(s, request, h)
  PROVE  Kept /\ UNCHANGED vars
<1>1. /\ tx' = [tx EXCEPT ![s] = request] /\ UNCHANGED <<vars, holder>>
      /\ tx \in [Sessions -> Tx] /\ DOMAIN holder = Rows
  BY Tables DEF Starts, locks
<1>2. SessionsTyped'
  BY <1>1 DEF SessionsTyped
<1>3. Fits(s, tx[s], holder)'
  <2>1. tx'[s] = request
    BY <1>1
  <2>2. Fits(s, tx'[s], holder')
    BY <1>1, <2>1
  <2> QED BY <1>1, <2>2, FitsOn
<1>4. ASSUME NEW c \in Sessions, c # s PROVE Fits(c, tx[c], holder)'
  <2>1. tx'[c] = tx[c] /\ \A q \in Rows : holder[q] = c => holder'[q] = c
    BY <1>1, <1>4
  <2> QED BY <1>1, <2>1, OthersKeep
<1> QED BY <1>1, <1>2, <1>3, <1>4 DEF Kept, SessionsFit

LEMMA RequestKeeps ==
  ASSUME TxInv, NEW s \in Sessions, Request(s)
  PROVE  Kept /\ UNCHANGED vars
<1> USE NoTxTyped
<1>1. ASSUME NEW i \in Items, NEW a \in Auctions, NEW g \in Guilds, NEW x \in Amounts,
             RequestBid(s, i, a, g, x)
      PROVE  Kept /\ UNCHANGED vars
  <2> DEFINE t == [NoTx EXCEPT !.op = "bid", !.next = "auction", !.auction = a,
                               !.guild = g, !.amount = x]
  <2>1. x \in Int
    BY AuctionAssumption, HalfAssumption
  <2>2. t \in Tx /\ t.op = "bid" /\ t.next = "auction" /\ t.auction = a /\ t.guild = g /\ t.amount = x
        /\ t.mine = {} /\ t.w = NoWallets /\ t.itemRow = Null /\ t.auctionRow = NoAuction
        /\ t.bidRow = NoBid
    BY <2>1 DEF NoTx, Tx
  <2>3. Starts(s, t)
    BY <1>1 DEF RequestBid
  <2> HIDE DEF t
  <2>4. Named(t)
    BY <2>2 DEF Named, Stages
  <2> QED BY <2>2, <2>3, <2>4, FreshFits, BeginsKeeps
<1>2. ASSUME NEW i \in Items, NEW a \in Auctions, NEW b \in Bids, NEW g \in Guilds,
             RequestCancel(s, i, a, b, g)
      PROVE  Kept /\ UNCHANGED vars
  <2> DEFINE t == [NoTx EXCEPT !.op = "cancel", !.next = "auction", !.auction = a,
                               !.guild = g, !.bid = b]
  <2>2. t \in Tx /\ t.op = "cancel" /\ t.next = "auction" /\ t.auction = a /\ t.guild = g /\ t.bid = b
        /\ t.mine = {} /\ t.w = NoWallets /\ t.itemRow = Null /\ t.auctionRow = NoAuction
        /\ t.bidRow = NoBid
    BY DEF NoTx, Tx
  <2>3. Starts(s, t)
    BY <1>2 DEF RequestCancel
  <2> HIDE DEF t
  <2>4. Named(t)
    BY <2>2 DEF Named, Stages
  <2> QED BY <2>2, <2>3, <2>4, FreshFits, BeginsKeeps
<1>3. ASSUME NEW i \in Items, NEW g \in Guilds, RequestAuction(s, i, g)
      PROVE  Kept /\ UNCHANGED vars
  <2> DEFINE t == [NoTx EXCEPT !.op = "open", !.next = "item", !.item = i, !.guild = g]
  <2>2. t \in Tx /\ t.op = "open" /\ t.next = "item" /\ t.item = i /\ t.guild = g
        /\ t.mine = {} /\ t.w = NoWallets /\ t.itemRow = Null /\ t.auctionRow = NoAuction
        /\ t.bidRow = NoBid
    BY DEF NoTx, Tx
  <2>3. Starts(s, t)
    BY <1>3 DEF RequestAuction
  <2> HIDE DEF t
  <2>4. Named(t)
    BY <2>2 DEF Named, Stages
  <2> QED BY <2>2, <2>3, <2>4, FreshFits, BeginsKeeps
<1> QED BY <1>1, <1>2, <1>3 DEF Request

LEMMA JobKeeps ==
  ASSUME TxInv, NEW s \in Sessions, Job(s)
  PROVE  Kept /\ UNCHANGED vars
<1>1. CASE SettleDue(s)
  <2>1. UNCHANGED <<vars, holder, tx>>
    BY <1>1 DEF SettleDue, locks
  <2>2. \A c \in Sessions : Fits(c, tx[c], holder)'
    BY <2>1, OthersKeep
  <2> QED BY <2>1, <2>2 DEF Kept, SessionsFit, SessionsTyped, TxInv
<1>2. ASSUME NEW a \in Auctions, SettleNext(s, a)
      PROVE  Kept /\ UNCHANGED vars
  <2> DEFINE t == [NoTx EXCEPT !.op = "settle", !.next = "auction", !.auction = a]
  <2>2. t \in Tx /\ t.op = "settle" /\ t.next = "auction" /\ t.auction = a
        /\ t.mine = {} /\ t.w = NoWallets /\ t.itemRow = Null /\ t.auctionRow = NoAuction
        /\ t.bidRow = NoBid
    BY NoTxTyped DEF NoTx, Tx
  <2>3. Starts(s, t)
    BY <1>2 DEF SettleNext
  <2> HIDE DEF t
  <2>4. Named(t)
    BY <2>2 DEF Named, Stages
  <2> QED BY <2>2, <2>3, <2>4, FreshFits, BeginsKeeps
<1> QED BY <1>1, <1>2 DEF Job
-----------------------------------------------------------------------------
(* The statements that lock an auction or an item: what a session checks   *)
(* and copies there is so.                                                 *)
LEMMA LockAuctionForBidKeeps ==
  ASSUME TxInv, NEW s \in Sessions, LockAuctionForBid(s)
  PROVE  Kept /\ UNCHANGED vars
<1> DEFINE t == tx[s]
           a == t.auction
           row == auction[a]
           prev == Leader(row)
           c == [t EXCEPT !.next = "reserve", !.at = now, !.auctionRow = row, !.bidRow = prev]
           h == [holder EXCEPT ![a] = s]
<1>1. /\ t \in Tx /\ t.op = "bid" /\ t.next = "auction" /\ Fits(s, t, holder) /\ UpdatedInPast
      /\ now \in Nat /\ auction \in [Auctions -> AuctionRow] /\ bid \in [Bids -> BidRow]
      /\ DOMAIN holder = Rows /\ Auctions \subseteq Rows
  BY Tables DEF LockAuctionForBid, At, TxInv, SessionsFit, Rows
<1>2. /\ a \in Auctions /\ t.guild \in Guilds /\ t.amount \in Amounts /\ t.itemRow = Null
      /\ t.auctionRow = NoAuction
  BY <1>1 DEF Fits, Named, ItemHeld, HasItem, AuctionHeld, HasAuction
<1>3. CASE RollsBack(s)
  BY <1>3, Quits DEF RollsBack
<1>4. CASE /\ row.status = "active" /\ ~AuctionEnded(now, row.endsAt)
           /\ EnsureNotSelfBid(row.seller, t.guild)
           /\ EnsureBidBeatsCurrent(prev.amount, t.amount)
           /\ CanLock(s, a) /\ Proceeds(s, a, c) /\ UNCHANGED vars
  <2>1. row \in AuctionRow /\ prev \in BidRow
    <3>1. NoBid \in BidRow
      BY DEF NoBid, BidRow
    <3>2. row \in AuctionRow /\ row.highest \in Bids \cup {Null}
      BY <1>1, <1>2 DEF AuctionRow
    <3> QED BY <1>1, <3>1, <3>2 DEF Leader
  <2> HIDE DEF row, prev
  <2>2. /\ c \in Tx /\ c.op = "bid" /\ c.next = "reserve" /\ c.at = now /\ c.auctionRow = row
        /\ c.bidRow = prev /\ c.auction = a /\ c.guild = t.guild /\ c.amount = t.amount
        /\ c.itemRow = Null /\ c.mine = t.mine /\ c.w = t.w
    BY <1>1, <1>2, <2>1 DEF Tx, Time
  <2> HIDE DEF c
  <2>3. h[a] = s /\ \A r \in Rows : holder[r] = s => h[r] = s
    BY <1>1, <1>2
  <2> HIDE DEF h
  <2>4. Named(c)
    BY <1>2, <2>2 DEF Named, Stages
  <2>5. AuctionHeld(s, c, h) /\ ItemHeld(s, c, h) /\ NoBidYet(c)
    BY <1>4, <2>2, <2>3 DEF AuctionHeld, HasAuction, ItemHeld, HasItem, NoBidYet, row
  <2>6. BidChecked(c)
    <3>1. row.updatedAt <= now /\ now \in 0 .. now
      BY <1>1, <1>2 DEF UpdatedInPast, row
    <3> QED BY <1>4, <2>2, <3>1 DEF BidChecked, prev
  <2>7. OpenChecked(c) /\ CancelChecked(s, c, h) /\ SettleChecked(c)
    BY <2>2 DEF OpenChecked, CancelChecked, SettleChecked
  <2>8. MoneyExact(s, c, h)
    <3>1. ~Reserved(t) /\ ~Paid(t) /\ ~Reserved(c) /\ ~Paid(c)
      BY <1>1, <2>2 DEF Reserved, Paid
    <3> QED BY <2>2, <2>3, <3>1, MovesNothing
  <2>9. Fits(s, c, h)
    BY <2>4, <2>5, <2>6, <2>7, <2>8 DEF Fits
  <2> QED BY <1>1, <1>2, <1>4, <2>2, <2>9, Advances DEF h
<1> QED BY <1>3, <1>4 DEF LockAuctionForBid, Leader, RollsBack, vars

LEMMA LockAuctionForCancelKeeps ==
  ASSUME TxInv, NEW s \in Sessions, LockAuctionForCancel(s)
  PROVE  Kept /\ UNCHANGED vars
<1> DEFINE t == tx[s]
           a == t.auction
           own == bid[t.bid]
           c == [t EXCEPT !.next = IF own.status = "active" THEN "release" ELSE "commit",
                          !.bidRow = own]
           h == [holder EXCEPT ![a] = s]
<1>1. /\ t \in Tx /\ t.op = "cancel" /\ t.next = "auction" /\ Fits(s, t, holder)
      /\ CoreInv /\ bid \in [Bids -> BidRow]
      /\ DOMAIN holder = Rows /\ Auctions \subseteq Rows
  BY Tables DEF LockAuctionForCancel, At, TxInv, SessionsFit, Rows
<1>2. /\ a \in Auctions /\ t.guild \in Guilds /\ t.bid \in Bids /\ t.itemRow = Null
      /\ t.auctionRow = NoAuction
  BY <1>1 DEF Fits, Named, ItemHeld, HasItem, AuctionHeld, HasAuction
<1>3. CASE RollsBack(s)
  BY <1>3, Quits DEF RollsBack
<1>4. CASE /\ auction[a].status = "active" /\ own.auction = a /\ own.bidder = t.guild
           /\ EnsureCanCancelBid(auction[a].highest = t.bid)
           /\ CanLock(s, a) /\ Proceeds(s, a, c) /\ UNCHANGED vars
  (* An open bid leads its auction, and a leader is refused. *)
  <2>1. own.status # "active" /\ auction[a].highest # t.bid /\ own \in BidRow
    BY <1>1, <1>2, <1>4 DEF CoreInv, RowsConsistent, EnsureCanCancelBid
  <2>2. /\ c \in Tx /\ c.op = "cancel" /\ c.next = "commit" /\ c.bidRow = own /\ c.auction = a
        /\ c.guild = t.guild /\ c.bid = t.bid /\ c.auctionRow = NoAuction
        /\ c.itemRow = Null /\ c.mine = t.mine /\ c.w = t.w
    BY <1>1, <1>2, <2>1 DEF Tx
  <2> HIDE DEF c
  <2>3. h[a] = s /\ \A r \in Rows : holder[r] = s => h[r] = s
    BY <1>1, <1>2
  <2> HIDE DEF h
  <2>4. Named(c)
    BY <1>2, <2>2 DEF Named, Stages
  <2>5. AuctionHeld(s, c, h) /\ ItemHeld(s, c, h) /\ NoBidYet(c)
    BY <2>2 DEF AuctionHeld, HasAuction, ItemHeld, HasItem, NoBidYet
  <2>6. CancelChecked(s, c, h)
    BY <1>4, <2>1, <2>2, <2>3 DEF CancelChecked
  <2>7. OpenChecked(c) /\ BidChecked(c) /\ SettleChecked(c)
    BY <2>2 DEF OpenChecked, BidChecked, SettleChecked
  <2>8. MoneyExact(s, c, h)
    <3>1. ~Reserved(t) /\ ~Paid(t) /\ ~Reserved(c) /\ ~Paid(c)
      BY <1>1, <2>2 DEF Reserved, Paid
    <3> QED BY <2>2, <2>3, <3>1, MovesNothing
  <2>9. Fits(s, c, h)
    BY <2>4, <2>5, <2>6, <2>7, <2>8 DEF Fits
  <2> QED BY <1>1, <1>2, <1>4, <2>2, <2>9, Advances DEF h
<1> QED BY <1>3, <1>4 DEF LockAuctionForCancel, RollsBack, vars

LEMMA LockAuctionForSettleKeeps ==
  ASSUME TxInv, NEW s \in Sessions, LockAuctionForSettle(s)
  PROVE  Kept /\ UNCHANGED vars
<1> DEFINE t == tx[s]
           a == t.auction
           row == auction[a]
           c == [t EXCEPT !.next = "item", !.item = row.item, !.auctionRow = row]
           h == [holder EXCEPT ![a] = s]
<1>1. /\ t \in Tx /\ t.op = "settle" /\ t.next = "auction" /\ Fits(s, t, holder)
      /\ auction \in [Auctions -> AuctionRow]
      /\ DOMAIN holder = Rows /\ Auctions \subseteq Rows
  BY Tables DEF LockAuctionForSettle, At, TxInv, SessionsFit, Rows
<1>2. /\ a \in Auctions /\ t.itemRow = Null /\ t.auctionRow = NoAuction /\ t.bidRow = NoBid
  BY <1>1 DEF Fits, Named, ItemHeld, HasItem, AuctionHeld, HasAuction, NoBidYet
<1>3. CASE Ends(s) /\ UNCHANGED vars
  BY <1>3, Quits DEF vars
<1>4. CASE /\ row.status = "active" /\ AuctionEnded(now, row.endsAt)
           /\ CanLock(s, a) /\ Proceeds(s, a, c) /\ UNCHANGED vars
  <2>1. row \in AuctionRow /\ row.item \in Items \cup {Null}
    BY <1>1, <1>2 DEF AuctionRow
  <2> HIDE DEF row
  <2>2. /\ c \in Tx /\ c.op = "settle" /\ c.next = "item" /\ c.auctionRow = row /\ c.auction = a
        /\ c.item = row.item /\ c.bidRow = NoBid
        /\ c.itemRow = Null /\ c.mine = t.mine /\ c.w = t.w
    BY <1>1, <1>2, <2>1 DEF Tx
  <2> HIDE DEF c
  <2>3. h[a] = s /\ \A r \in Rows : holder[r] = s => h[r] = s
    BY <1>1, <1>2
  <2> HIDE DEF h
  <2>4. Named(c)
    BY <1>2, <2>2 DEF Named, Stages
  <2>5. AuctionHeld(s, c, h) /\ ItemHeld(s, c, h) /\ NoBidYet(c)
    BY <1>4, <2>2, <2>3 DEF AuctionHeld, HasAuction, ItemHeld, HasItem, NoBidYet, row
  <2>6. SettleChecked(c)
    BY <1>4, <2>2 DEF SettleChecked
  <2>7. OpenChecked(c) /\ BidChecked(c) /\ CancelChecked(s, c, h)
    BY <2>2 DEF OpenChecked, BidChecked, CancelChecked
  <2>8. MoneyExact(s, c, h)
    <3>1. ~Reserved(t) /\ ~Paid(t) /\ ~Reserved(c) /\ ~Paid(c)
      BY <1>1, <2>2 DEF Reserved, Paid
    <3> QED BY <2>2, <2>3, <3>1, MovesNothing
  <2>9. Fits(s, c, h)
    BY <2>4, <2>5, <2>6, <2>7, <2>8 DEF Fits
  <2> QED BY <1>1, <1>2, <1>4, <2>2, <2>9, Advances DEF h
<1> QED BY <1>3, <1>4 DEF LockAuctionForSettle

LEMMA LockItemForSettleKeeps ==
  ASSUME TxInv, NEW s \in Sessions, LockItemForSettle(s)
  PROVE  Kept /\ UNCHANGED vars
<1> DEFINE t == tx[s]
           row == t.auctionRow
           i == t.item
           lead == Leader(row)
           c == [t EXCEPT !.next = IF row.highest = Null THEN "commit" ELSE "pay",
                          !.itemRow = item[i], !.bidRow = lead]
           h == [holder EXCEPT ![i] = s]
<1>1. /\ t \in Tx /\ t.op = "settle" /\ t.next = "item" /\ Fits(s, t, holder) /\ HasAuction(t)
      /\ item \in [Items -> ItemRow]
      /\ DOMAIN holder = Rows /\ Items \subseteq Rows
  BY Tables DEF LockItemForSettle, At, TxInv, SessionsFit, Rows, HasAuction
<1>2. /\ i = row.item /\ i \in Items /\ t.auction \in Auctions /\ holder[t.auction] = s
      /\ auction[t.auction] = row /\ row.status = "active" /\ AuctionEnded(now, row.endsAt)
  BY <1>1, Copied DEF Fits, ItemHeld, SettleChecked
<1>3. lead \in BidRow /\ item[i] \in ItemRow
  <2>1. NoBid \in BidRow
    BY DEF NoBid, BidRow
  <2>2. row.highest # Null => bid[row.highest] \in BidRow
    BY <1>1, Copied
  <2> QED BY <1>1, <1>2, <2>1, <2>2 DEF Leader
<1>4. CanLock(s, i) /\ Proceeds(s, i, c) /\ UNCHANGED vars
  BY DEF LockItemForSettle, Leader
<1> HIDE DEF lead
<1>5. /\ c \in Tx /\ c.op = "settle" /\ c.auctionRow = row /\ c.auction = t.auction
      /\ c.next = IF row.highest = Null THEN "commit" ELSE "pay"
      /\ c.item = i /\ c.bidRow = lead
      /\ c.itemRow = item[i] /\ c.mine = t.mine /\ c.w = t.w
  BY <1>1, <1>3 DEF Tx
<1> HIDE DEF c
<1>6. h[i] = s /\ \A r \in Rows : holder[r] = s => h[r] = s
  BY <1>1, <1>2
<1> HIDE DEF h
<1>7. Named(c)
  BY <1>2, <1>5 DEF Named, Stages
<1>8. AuctionHeld(s, c, h) /\ ItemHeld(s, c, h) /\ NoBidYet(c)
  <2>1. h[t.auction] = s
    BY <1>2, <1>6 DEF Rows
  <2> QED BY <1>2, <1>5, <1>6, <2>1 DEF AuctionHeld, HasAuction, ItemHeld, HasItem, NoBidYet
<1>9. SettleChecked(c)
  BY <1>2, <1>5 DEF SettleChecked, lead
<1>10. OpenChecked(c) /\ BidChecked(c) /\ CancelChecked(s, c, h)
  BY <1>5 DEF OpenChecked, BidChecked, CancelChecked
<1>11. MoneyExact(s, c, h)
  <2>1. ~Reserved(t) /\ ~Paid(t) /\ ~Reserved(c) /\ ~Paid(c)
    BY <1>1, <1>5 DEF Reserved, Paid
  <2> QED BY <1>5, <1>6, <2>1, MovesNothing
<1>12. Fits(s, c, h)
  BY <1>7, <1>8, <1>9, <1>10, <1>11 DEF Fits
<1> QED BY <1>1, <1>2, <1>4, <1>5, <1>12, Advances DEF h

LEMMA LockItemForAuctionKeeps ==
  ASSUME TxInv, NEW s \in Sessions, LockItemForAuction(s)
  PROVE  Kept /\ UNCHANGED vars
<1> DEFINE t == tx[s]
           i == t.item
           row == item[i]
           c == [t EXCEPT !.next = "commit", !.at = now, !.itemRow = row]
           h == [holder EXCEPT ![i] = s]
<1>1. /\ t \in Tx /\ t.op = "open" /\ t.next = "item" /\ Fits(s, t, holder) /\ UpdatedInPast
      /\ now \in Nat /\ item \in [Items -> ItemRow]
      /\ DOMAIN holder = Rows /\ Items \subseteq Rows
  BY Tables DEF LockItemForAuction, At, TxInv, SessionsFit, Rows
<1>2. /\ i \in Items /\ t.guild \in Guilds /\ t.auctionRow = NoAuction /\ t.bidRow = NoBid
  BY <1>1 DEF Fits, Named, AuctionHeld, HasAuction, NoBidYet
<1>3. CASE RollsBack(s)
  BY <1>3, Quits DEF RollsBack
<1>4. CASE /\ row.owner = t.guild /\ Tier[i] = "legendary" /\ row.status = "available"
           /\ CanLock(s, i) /\ Proceeds(s, i, c) /\ UNCHANGED vars
  <2>1. row \in ItemRow
    BY <1>1, <1>2
  <2> HIDE DEF row
  <2>2. /\ c \in Tx /\ c.op = "open" /\ c.next = "commit" /\ c.at = now /\ c.item = i
        /\ c.guild = t.guild /\ c.auctionRow = NoAuction /\ c.bidRow = NoBid
        /\ c.itemRow = row /\ c.mine = t.mine /\ c.w = t.w
    BY <1>1, <1>2, <2>1 DEF Tx, Time
  <2> HIDE DEF c
  <2>3. h[i] = s /\ \A r \in Rows : holder[r] = s => h[r] = s
    BY <1>1, <1>2
  <2> HIDE DEF h
  <2>4. Named(c)
    BY <1>2, <2>2 DEF Named, Stages
  <2>5. AuctionHeld(s, c, h) /\ ItemHeld(s, c, h) /\ NoBidYet(c)
    BY <2>2, <2>3 DEF AuctionHeld, HasAuction, ItemHeld, HasItem, NoBidYet, row
  <2>6. OpenChecked(c)
    <3>1. ReadAfterLastAuction(i, now) /\ now \in 0 .. now
      BY <1>1 DEF UpdatedInPast, ReadAfterLastAuction
    <3> QED BY <1>4, <2>2, <3>1 DEF OpenChecked
  <2>7. BidChecked(c) /\ CancelChecked(s, c, h) /\ SettleChecked(c)
    BY <2>2 DEF BidChecked, CancelChecked, SettleChecked
  <2>8. MoneyExact(s, c, h)
    <3>1. ~Reserved(t) /\ ~Paid(t) /\ ~Reserved(c) /\ ~Paid(c)
      BY <1>1, <2>2 DEF Reserved, Paid
    <3> QED BY <2>2, <2>3, <3>1, MovesNothing
  <2>9. Fits(s, c, h)
    BY <2>4, <2>5, <2>6, <2>7, <2>8 DEF Fits
  <2> QED BY <1>1, <1>2, <1>4, <2>2, <2>9, Advances DEF h
<1> QED BY <1>3, <1>4 DEF LockItemForAuction, RollsBack, vars
-----------------------------------------------------------------------------
(* The statements that move money: everything but the money and the stage  *)
(* stays as it was.                                                        *)
LEMMA SameRows ==
  ASSUME TxInv, NEW s \in Sessions, NEW c \in Tx, NEW h,
         \A r \in Rows : holder[r] = s => h[r] = s,
         \/ tx[s].op = "bid" /\ tx[s].next \in {"reserve", "release"}
                             /\ c.next \in {"release", "commit"}
         \/ tx[s].op = "settle" /\ tx[s].next \in {"pay", "credit"}
                                /\ c.next \in {"credit", "commit"},
         c.next \in {"release", "credit"} => tx[s].auctionRow.highest # Null,
         c = [tx[s] EXCEPT !.next = c.next, !.mine = c.mine, !.w = c.w],
         MoneyExact(s, c, h)
  PROVE  Fits(s, c, h)
<1> DEFINE t == tx[s]
<1>1. /\ t \in Tx /\ Fits(s, t, holder) /\ HasAuction(t) /\ HasAuction(c)
      /\ c.op = t.op /\ c.item = t.item /\ c.auction = t.auction /\ c.guild = t.guild
      /\ c.amount = t.amount /\ c.bid = t.bid /\ c.at = t.at /\ c.itemRow = t.itemRow
      /\ c.auctionRow = t.auctionRow /\ c.bidRow = t.bidRow
  BY Tables DEF Tx, TxInv, SessionsFit, HasAuction
<1>2. Auctions \subseteq Rows /\ Items \subseteq Rows
  BY DEF Rows
<1>3. Named(c)
  BY <1>1 DEF Fits, Named, Stages
<1>4. AuctionHeld(s, c, h)
  <2>1. /\ t.auction \in Auctions /\ t.auctionRow = auction[t.auction]
        /\ holder[t.auction] = s /\ t.auctionRow.status = "active"
    BY <1>1, Copied
  <2>2. h[t.auction] = s
    BY <1>2, <2>1
  <2> HIDE DEF t
  <2> QED BY <1>1, <2>1, <2>2 DEF AuctionHeld
<1>5. ItemHeld(s, c, h)
  <2>1. CASE t.op = "bid"
    BY <1>1, <2>1 DEF Fits, ItemHeld, HasItem
  <2>2. CASE t.op = "settle"
    <3>1. t.item = t.auctionRow.item /\ t.item \in Items
      BY <1>1, <2>2, Copied DEF Fits, ItemHeld, HasAuction
    <3>2. HasItem(t) /\ HasItem(c)
      BY <1>1, <2>2 DEF HasItem
    <3> QED BY <1>1, <1>2, <3>1, <3>2 DEF Fits, ItemHeld
  <2> QED BY <2>1, <2>2
<1>6. NoBidYet(c) /\ OpenChecked(c) /\ CancelChecked(s, c, h)
  BY <1>1 DEF NoBidYet, OpenChecked, CancelChecked
<1>7. BidChecked(c)
  BY <1>1 DEF Fits, BidChecked
<1>8. SettleChecked(c)
  BY <1>1 DEF Fits, SettleChecked
<1> QED BY <1>3, <1>4, <1>5, <1>6, <1>7, <1>8 DEF Fits

LEMMA ReservesKeeps ==
  ASSUME TxInv, NEW s \in Sessions, Reserves(s)
  PROVE  Kept /\ UNCHANGED vars
<1> DEFINE t == tx[s]
           g == t.guild
           n == t.amount
           w == Seen(t, g)
           v == Reserve(w, g, n, "reserve_bid")
           c == [t EXCEPT !.w = v, !.mine = @ \cup {g},
                          !.next = IF t.auctionRow.highest = Null THEN "commit" ELSE "release"]
           h == [holder EXCEPT ![g] = s]
<1>1. /\ t \in Tx /\ t.op = "bid" /\ t.next = "reserve" /\ Fits(s, t, holder) /\ CoreInv
      /\ DOMAIN holder = Rows /\ Guilds \subseteq Rows /\ wallets \in WalletsType
  BY Tables DEF Reserves, At, TxInv, SessionsFit, Rows
<1>2. g \in Guilds /\ n \in Int /\ t.mine \subseteq Guilds
  BY <1>1 DEF Fits, Named, Tx
<1>3. CASE RollsBack(s)
  BY <1>3, Quits DEF RollsBack
<1>4. CASE CanReserve(w, g, n) /\ CanLock(s, g) /\ Proceeds(s, g, c) /\ UNCHANGED vars
  <2>1. w \in WalletsType /\ w.total[g] = wallets.total[g] /\ w.reserved[g] = wallets.reserved[g]
    <3>1. TotalMoved(t, g) = 0 /\ ReservedMoved(t, g) = 0
      BY <1>1 DEF TotalMoved, ReservedMoved, Note, Reserved, Released, Paid, Credited
    <3>2. wallets.total[g] \in Int /\ wallets.reserved[g] \in Int
      BY <1>1, <1>2 DEF WalletsType
    <3> QED BY <1>2, <3>1, <3>2, SeenExact
  <2>2. RowSound(w, g) /\ CanReserve(wallets, g, n)
    BY <1>1, <1>2, <1>4, <2>1, WalletBound DEF CoreInv, RowSound, CanReserve
  <2>3. "reserve_bid" \in LedgerKinds
    BY DEF LedgerKinds
  <2>4. /\ v \in WalletsType /\ v.total = w.total
        /\ v.reserved = [w.reserved EXCEPT ![g] = w.reserved[g] + n]
        /\ v.ledger = Recorded(w, g, "reserve_bid", n) /\ n > 0
    BY <1>2, <1>4, <2>1, <2>2, <2>3, ReserveExact
  <2> HIDE DEF v, w
  <2>5. /\ c \in Tx /\ c.op = "bid" /\ c.guild = g /\ c.amount = n
        /\ c.next = IF t.auctionRow.highest = Null THEN "commit" ELSE "release"
        /\ c.auctionRow = t.auctionRow /\ c.bidRow = t.bidRow
        /\ c.mine = t.mine \cup {g} /\ c.w = v
    BY <1>1, <1>2, <2>4 DEF Tx
  <2>6. c = [t EXCEPT !.next = c.next, !.mine = c.mine, !.w = c.w]
    BY <1>1, <2>5 DEF Tx
  <2> HIDE DEF c
  <2>7. h[g] = s /\ \A r \in Rows : holder[r] = s => h[r] = s
    BY <1>1, <1>2
  <2> HIDE DEF h
  <2>8. Reserved(c) /\ ~Released(c) /\ ~Paid(c) /\ ~Credited(c)
        /\ ~Reserved(t) /\ ~Released(t) /\ ~Paid(t) /\ ~Credited(t)
    BY <1>1, <2>5 DEF Reserved, Released, Paid, Credited
  <2>9. /\ Payers(c) = Payers(t) \cup {g}
        /\ \A x \in Guilds, k \in LedgerKinds :
             Note(c, x, k) = Note(t, x, k) + (IF x = g /\ k = "reserve_bid" THEN n ELSE 0)
    BY <1>2, <2>5, <2>8 DEF Payers, Note
  <2>10. /\ \A x \in Guilds : x # g => v.total[x] = w.total[x] /\ v.reserved[x] = w.reserved[x]
         /\ v.total[g] = w.total[g] + TotalBy("reserve_bid", n)
         /\ v.reserved[g] = w.reserved[g] + ReservedBy("reserve_bid", n)
    BY <1>2, <2>1, <2>4 DEF WalletsType, TotalBy, ReservedBy
  <2>11. MovesTo(s, g, "reserve_bid", n, c, h)
    BY <2>2, <2>4, <2>5, <2>7, <2>9, <2>10 DEF MovesTo, w
  <2>12. MoneyExact(s, c, h)
    <3>1. n \in Nat
      BY <1>2, <2>4
    <3> QED BY <1>2, <2>3, <2>5, <2>11, <3>1, Moves
  <2>13. Fits(s, c, h)
    BY <1>1, <2>5, <2>6, <2>7, <2>12, SameRows
  <2> QED BY <1>1, <1>2, <1>4, <2>5, <2>13, Advances DEF h
<1> QED BY <1>3, <1>4 DEF Reserves, RollsBack, vars

(* The bid a release or a payment is about. *)
LEMMA HeldBid ==
  ASSUME TxInv, NEW s \in Sessions,
         \/ tx[s].op = "bid" /\ tx[s].next = "release"
         \/ tx[s].op = "settle" /\ tx[s].next \in {"pay", "credit"}
  PROVE  LET t == tx[s]
             n == t.bidRow.amount
         IN  /\ HasAuction(t) /\ t.auctionRow.highest # Null
             /\ t.bidRow.bidder \in Guilds /\ n \in Nat /\ n > 0
             /\ n <= wallets.reserved[t.bidRow.bidder]
             /\ t.auctionRow.seller \in Guilds /\ t.bidRow.bidder # t.auctionRow.seller
<1> DEFINE t == tx[s]
<1>1. Fits(s, t, holder)
  BY DEF TxInv, SessionsFit
<1>2. HasAuction(t) /\ t.auctionRow.highest # Null /\ t.bidRow = Leader(t.auctionRow)
  BY <1>1 DEF Fits, HasAuction, BidChecked, SettleChecked
<1>3. t.bidRow = bid[t.auctionRow.highest]
  BY <1>2 DEF Leader
<1> QED BY <1>2, <1>3, Copied

LEMMA ReleasesKeeps ==
  ASSUME TxInv, NEW s \in Sessions, Releases(s)
  PROVE  Kept /\ UNCHANGED vars
<1> DEFINE t == tx[s]
           g == t.bidRow.bidder
           n == t.bidRow.amount
           w == Seen(t, g)
           v == Release(w, g, n, "release_bid")
           c == [t EXCEPT !.w = v, !.mine = @ \cup {g}, !.next = "commit"]
           h == [holder EXCEPT ![g] = s]
<1>1. /\ t \in Tx /\ t.next = "release" /\ Fits(s, t, holder) /\ CoreInv
      /\ DOMAIN holder = Rows /\ Guilds \subseteq Rows /\ wallets \in WalletsType
  BY Tables DEF Releases, TxInv, SessionsFit, Rows
<1>2. t.op = "bid"
  BY <1>1 DEF Fits, Named, Stages, Tx
<1>3. /\ g \in Guilds /\ n \in Nat /\ n > 0 /\ t.auctionRow.highest # Null
      /\ t.mine \subseteq Guilds /\ t.guild \in Guilds /\ t.amount \in Int
  BY <1>1, <1>2, HeldBid DEF Fits, Named, Tx
<1>4. CASE RollsBack(s)
  BY <1>4, Quits DEF RollsBack
<1>5. CASE CanRelease(w, g, n) /\ CanLock(s, g) /\ Proceeds(s, g, c) /\ UNCHANGED vars
  <2>1. /\ Reserved(t) /\ ~Released(t) /\ ~Paid(t) /\ ~Credited(t)
        /\ CanReserve(wallets, t.guild, t.amount)
    BY <1>1, <1>2 DEF Reserved, Released, Paid, Credited, Fits, MoneyExact
  <2>2. w \in WalletsType /\ RowSound(w, g)
    <3>1. TotalMoved(t, g) = 0 /\ ReservedMoved(t, g) = IF g = t.guild THEN t.amount ELSE 0
      BY <1>3, <2>1 DEF TotalMoved, ReservedMoved, Note
    <3>2. /\ wallets.total[g] \in Int /\ wallets.reserved[g] \in Int
          /\ RowSound(wallets, g) /\ RowSound(wallets, t.guild)
      BY <1>1, <1>3, WalletBound DEF WalletsType, CoreInv
    <3>3. "reserve_bid" \in LedgerKinds
      BY DEF LedgerKinds
    <3>4. t.amount > 0 /\ wallets.reserved[t.guild] + t.amount <= wallets.total[t.guild]
      BY <1>1, <1>3, <2>1, <3>2, <3>3, ReserveExact
    <3>5. /\ w \in WalletsType /\ w.total[g] = wallets.total[g] + TotalMoved(t, g)
          /\ w.reserved[g] = wallets.reserved[g] + ReservedMoved(t, g)
      BY <1>3, SeenExact
    <3> HIDE DEF w, g, n, t
    <3> QED BY <1>3, <3>1, <3>2, <3>4, <3>5 DEF RowSound
  <2>3. "release_bid" \in LedgerKinds
    BY DEF LedgerKinds
  <2>4. /\ v \in WalletsType /\ v.total = w.total
        /\ v.reserved = [w.reserved EXCEPT ![g] = w.reserved[g] - n]
        /\ v.ledger = Recorded(w, g, "release_bid", n)
    <3> HIDE DEF w, g, n, t
    <3> QED BY <1>3, <1>5, <2>2, <2>3, ReleaseExact
  <2> HIDE DEF v, w
  <2>5. /\ c \in Tx /\ c.op = "bid" /\ c.guild = t.guild /\ c.amount = t.amount
        /\ c.next = "commit" /\ c.auctionRow = t.auctionRow /\ c.bidRow = t.bidRow
        /\ c.mine = t.mine \cup {g} /\ c.w = v
    BY <1>1, <1>2, <1>3, <2>4 DEF Tx
  <2>6. c = [t EXCEPT !.next = c.next, !.mine = c.mine, !.w = c.w]
    BY <1>1, <2>5 DEF Tx
  <2> HIDE DEF c
  <2>7. h[g] = s /\ \A r \in Rows : holder[r] = s => h[r] = s
    BY <1>1, <1>3
  <2> HIDE DEF h
  <2>8. Reserved(c) /\ Released(c) /\ ~Paid(c) /\ ~Credited(c)
    BY <1>3, <2>5 DEF Reserved, Released, Paid, Credited
  <2>9. /\ Payers(c) = Payers(t) \cup {g}
        /\ \A x \in Guilds, k \in LedgerKinds :
             Note(c, x, k) = Note(t, x, k) + (IF x = g /\ k = "release_bid" THEN n ELSE 0)
    BY <1>3, <2>1, <2>5, <2>8 DEF Payers, Note
  <2>10. /\ \A x \in Guilds : x # g => v.total[x] = w.total[x] /\ v.reserved[x] = w.reserved[x]
         /\ v.total[g] = w.total[g] + TotalBy("release_bid", n)
         /\ v.reserved[g] = w.reserved[g] + ReservedBy("release_bid", n)
    BY <1>3, <2>2, <2>4 DEF WalletsType, TotalBy, ReservedBy
  <2>11. MovesTo(s, g, "release_bid", n, c, h)
    BY <2>1, <2>4, <2>5, <2>7, <2>9, <2>10 DEF MovesTo, w
  <2>12. MoneyExact(s, c, h)
    BY <1>3, <2>3, <2>5, <2>11, Moves
  <2>13. Fits(s, c, h)
    BY <1>1, <1>2, <1>3, <2>5, <2>6, <2>7, <2>12, SameRows
  <2> QED BY <1>1, <1>3, <1>5, <2>5, <2>13, Advances DEF h
<1> QED BY <1>4, <1>5 DEF Releases, RollsBack, vars

LEMMA PaysKeeps ==
  ASSUME TxInv, NEW s \in Sessions, Pays(s)
  PROVE  Kept /\ UNCHANGED vars
<1> DEFINE t == tx[s]
           g == t.bidRow.bidder
           n == t.bidRow.amount
           w == Seen(t, g)
           v == SettleReserved(w, g, n, "debit_auction")
           c == [t EXCEPT !.mine = @ \cup {g}, !.next = "credit", !.w = v]
           h == [holder EXCEPT ![g] = s]
<1>1. /\ t \in Tx /\ t.op = "settle" /\ t.next = "pay" /\ Fits(s, t, holder) /\ CoreInv
      /\ DOMAIN holder = Rows /\ Guilds \subseteq Rows /\ wallets \in WalletsType
  BY Tables DEF Pays, At, TxInv, SessionsFit, Rows
<1>3. /\ g \in Guilds /\ n \in Nat /\ n > 0 /\ t.auctionRow.highest # Null
      /\ t.mine \subseteq Guilds
  BY <1>1, HeldBid DEF Tx
<1>4. CASE RollsBack(s)
  BY <1>4, Quits DEF RollsBack
<1>5. CASE CanSettleReserved(w, g, n) /\ CanLock(s, g) /\ Proceeds(s, g, c) /\ UNCHANGED vars
  <2>1. ~Reserved(t) /\ ~Released(t) /\ ~Paid(t) /\ ~Credited(t)
    BY <1>1 DEF Reserved, Released, Paid, Credited
  <2>2. w \in WalletsType /\ RowSound(w, g)
    <3>1. TotalMoved(t, g) = 0 /\ ReservedMoved(t, g) = 0
      BY <1>3, <2>1 DEF TotalMoved, ReservedMoved, Note
    <3>2. wallets.total[g] \in Int /\ wallets.reserved[g] \in Int /\ RowSound(wallets, g)
      BY <1>1, <1>3, WalletBound DEF WalletsType, CoreInv
    <3>5. /\ w \in WalletsType /\ w.total[g] = wallets.total[g] + TotalMoved(t, g)
          /\ w.reserved[g] = wallets.reserved[g] + ReservedMoved(t, g)
      BY <1>3, SeenExact
    <3> HIDE DEF w, g, n, t
    <3> QED BY <1>3, <3>1, <3>2, <3>5 DEF RowSound
  <2>3. "debit_auction" \in LedgerKinds
    BY DEF LedgerKinds
  <2>4. /\ v \in WalletsType
        /\ v.total = [w.total EXCEPT ![g] = w.total[g] - n]
        /\ v.reserved = [w.reserved EXCEPT ![g] = w.reserved[g] - n]
        /\ v.ledger = Recorded(w, g, "debit_auction", n)
    <3> HIDE DEF w, g, n, t
    <3> QED BY <1>3, <1>5, <2>2, <2>3, SettleReservedExact
  <2> HIDE DEF v, w
  <2>5. /\ c \in Tx /\ c.op = "settle" /\ c.next = "credit"
        /\ c.auctionRow = t.auctionRow /\ c.bidRow = t.bidRow
        /\ c.mine = t.mine \cup {g} /\ c.w = v
    BY <1>1, <1>3, <2>4 DEF Tx
  <2>6. c = [t EXCEPT !.next = c.next, !.mine = c.mine, !.w = c.w]
    BY <1>1, <2>5 DEF Tx
  <2> HIDE DEF c
  <2>7. h[g] = s /\ \A r \in Rows : holder[r] = s => h[r] = s
    BY <1>1, <1>3
  <2> HIDE DEF h
  <2>8. ~Reserved(c) /\ ~Released(c) /\ Paid(c) /\ ~Credited(c)
    BY <1>3, <2>5 DEF Reserved, Released, Paid, Credited
  <2>9. /\ Payers(c) = Payers(t) \cup {g}
        /\ \A x \in Guilds, k \in LedgerKinds :
             Note(c, x, k) = Note(t, x, k) + (IF x = g /\ k = "debit_auction" THEN n ELSE 0)
    BY <1>3, <2>1, <2>5, <2>8 DEF Payers, Note
  <2>10. /\ \A x \in Guilds : x # g => v.total[x] = w.total[x] /\ v.reserved[x] = w.reserved[x]
         /\ v.total[g] = w.total[g] + TotalBy("debit_auction", n)
         /\ v.reserved[g] = w.reserved[g] + ReservedBy("debit_auction", n)
    BY <1>3, <2>2, <2>4 DEF WalletsType, TotalBy, ReservedBy
  <2>11. MovesTo(s, g, "debit_auction", n, c, h)
    BY <2>4, <2>5, <2>7, <2>8, <2>9, <2>10 DEF MovesTo, w
  <2>12. MoneyExact(s, c, h)
    BY <1>3, <2>3, <2>5, <2>11, Moves
  <2>13. Fits(s, c, h)
    BY <1>1, <1>3, <2>5, <2>6, <2>7, <2>12, SameRows
  <2> QED BY <1>1, <1>3, <1>5, <2>5, <2>13, Advances DEF h
<1> QED BY <1>4, <1>5 DEF Pays, RollsBack, vars

LEMMA CreditsKeeps ==
  ASSUME TxInv, NEW s \in Sessions, Credits(s)
  PROVE  Kept /\ UNCHANGED vars
<1> DEFINE t == tx[s]
           g == t.auctionRow.seller
           payer == t.bidRow.bidder
           n == t.bidRow.amount
           w == Seen(t, g)
           v == Credit(w, g, n, "credit_auction")
           c == [t EXCEPT !.mine = @ \cup {g}, !.next = "commit", !.w = v]
           h == [holder EXCEPT ![g] = s]
<1>1. /\ t \in Tx /\ t.op = "settle" /\ t.next = "credit" /\ Fits(s, t, holder) /\ CoreInv
      /\ DOMAIN holder = Rows /\ Guilds \subseteq Rows /\ wallets \in WalletsType
  BY Tables DEF Credits, At, TxInv, SessionsFit, Rows
<1>3. /\ g \in Guilds /\ payer \in Guilds /\ payer # g /\ n \in Nat /\ n > 0
      /\ n <= wallets.reserved[payer] /\ t.auctionRow.highest # Null /\ t.mine \subseteq Guilds
  BY <1>1, HeldBid DEF Tx
<1>4. CASE RollsBack(s)
  BY <1>4, Quits DEF RollsBack
<1>5. CASE CanCredit(n) /\ CanLock(s, g) /\ Proceeds(s, g, c) /\ UNCHANGED vars
  <2>1. ~Reserved(t) /\ ~Released(t) /\ Paid(t) /\ ~Credited(t)
    BY <1>1, <1>3 DEF Reserved, Released, Paid, Credited
  (* The two balances together are money of the market: no overflow. *)
  <2>2. w \in WalletsType /\ 0 <= w.total[g] /\ w.total[g] + n < Half
    <3>1. TotalMoved(t, g) = 0
      BY <1>3, <2>1 DEF TotalMoved, Note
    <3>2. /\ wallets.total[g] \in Nat /\ wallets.total[payer] \in Nat
          /\ wallets.reserved[payer] \in Nat
          /\ wallets.reserved[payer] <= wallets.total[payer]
      BY <1>1, <1>3, WalletBound DEF CoreInv, RowSound
    <3>3. wallets.total[g] + wallets.total[payer] <= Money
      BY <1>1, <1>3, TwoBalances
    <3>4. w \in WalletsType /\ w.total[g] = wallets.total[g] + TotalMoved(t, g)
      BY <1>3, SeenExact
    <3> HIDE DEF w, g, n, t, payer
    <3> QED BY <1>3, <3>1, <3>2, <3>3, <3>4, MoneyNat, HalfAssumption
  <2>3. "credit_auction" \in LedgerKinds
    BY DEF LedgerKinds
  <2>4. /\ v \in WalletsType
        /\ v.total = [w.total EXCEPT ![g] = w.total[g] + n]
        /\ v.reserved = w.reserved
        /\ v.ledger = Recorded(w, g, "credit_auction", n)
    <3> HIDE DEF w, g, n, t, payer
    <3> QED BY <1>3, <1>5, <2>2, <2>3, CreditExact
  <2> HIDE DEF v, w
  <2>5. /\ c \in Tx /\ c.op = "settle" /\ c.next = "commit"
        /\ c.auctionRow = t.auctionRow /\ c.bidRow = t.bidRow
        /\ c.mine = t.mine \cup {g} /\ c.w = v
    BY <1>1, <1>3, <2>4 DEF Tx
  <2>6. c = [t EXCEPT !.next = c.next, !.mine = c.mine, !.w = c.w]
    BY <1>1, <2>5 DEF Tx
  <2> HIDE DEF c
  <2>7. h[g] = s /\ \A r \in Rows : holder[r] = s => h[r] = s
    BY <1>1, <1>3
  <2> HIDE DEF h
  <2>8. ~Reserved(c) /\ ~Released(c) /\ Paid(c) /\ Credited(c)
    BY <1>3, <2>5 DEF Reserved, Released, Paid, Credited
  <2>9. /\ Payers(c) = Payers(t) \cup {g}
        /\ \A x \in Guilds, k \in LedgerKinds :
             Note(c, x, k) = Note(t, x, k) + (IF x = g /\ k = "credit_auction" THEN n ELSE 0)
    BY <1>3, <2>1, <2>5, <2>8 DEF Payers, Note
  <2>10. /\ \A x \in Guilds : x # g => v.total[x] = w.total[x] /\ v.reserved[x] = w.reserved[x]
         /\ v.total[g] = w.total[g] + TotalBy("credit_auction", n)
         /\ v.reserved[g] = w.reserved[g] + ReservedBy("credit_auction", n)
    BY <1>3, <2>2, <2>4 DEF WalletsType, TotalBy, ReservedBy
  <2>11. MovesTo(s, g, "credit_auction", n, c, h)
    BY <2>4, <2>5, <2>7, <2>8, <2>9, <2>10 DEF MovesTo, w
  <2>12. MoneyExact(s, c, h)
    BY <1>3, <2>3, <2>5, <2>11, Moves
  <2>13. Fits(s, c, h)
    BY <1>1, <1>3, <2>5, <2>6, <2>7, <2>12, SameRows
  <2> QED BY <1>1, <1>3, <1>5, <2>5, <2>13, Advances DEF h
<1> QED BY <1>4, <1>5 DEF Credits, RollsBack, vars
-----------------------------------------------------------------------------
(* A commit writes the rows its session has locked, and new ones. *)
LEMMA EndKeeps ==
  ASSUME TxInv, NEW s \in Sessions, Ends(s), \A c \in Sessions \ {s} :
           tx'[c] = tx[c] /\ (\A r \in Rows : holder[r] = c => holder'[r] = c) => Spares(c)
  PROVE  Kept
<1>1. tx' = [tx EXCEPT ![s] = NoTx] /\ ReleaseLocks(s) /\ tx \in [Sessions -> Tx]
  BY Tables DEF Ends
<1>2. SessionsTyped'
  BY <1>1, NoTxTyped, Frees DEF SessionsTyped
<1>3. Fits(s, tx[s], holder)'
  <2>1. tx'[s] = NoTx
    BY <1>1
  <2>2. Named(tx[s])' /\ AuctionHeld(s, tx[s], holder)' /\ ItemHeld(s, tx[s], holder)'
    BY <2>1 DEF NoTx, Named, Stages, AuctionHeld, HasAuction, ItemHeld, HasItem
  <2>3. NoBidYet(tx[s])' /\ OpenChecked(tx[s])' /\ BidChecked(tx[s])'
        /\ CancelChecked(s, tx[s], holder)' /\ SettleChecked(tx[s])'
    BY <2>1 DEF NoTx, NoBidYet, OpenChecked, BidChecked, CancelChecked, SettleChecked
  <2>4. MoneyExact(s, tx[s], holder)'
    BY <2>1 DEF NoTx, MoneyExact, Payers, Note, Reserved, Released, Paid, Credited, NoWallets
  <2> QED BY <2>2, <2>3, <2>4 DEF Fits
<1>4. ASSUME NEW c \in Sessions, c # s PROVE Fits(c, tx[c], holder)'
  <2>1. tx'[c] = tx[c] /\ \A r \in Rows : holder[r] = c => holder'[r] = c
    BY <1>1, <1>4, Frees
  <2>2. Spares(c)
    BY <1>4, <2>1
  <2> QED BY <2>2, SparedSession
<1> QED BY <1>2, <1>3, <1>4 DEF Kept, SessionsFit

(* Tables of wallets that agree on every row are the same. *)
LEMMA SameWallets ==
  ASSUME NEW v \in WalletsType, NEW w \in WalletsType,
         \A g \in Guilds : v.total[g] = w.total[g] /\ v.reserved[g] = w.reserved[g],
         \A g \in Guilds, k \in LedgerKinds : v.ledger[g][k] = w.ledger[g][k]
  PROVE  v = w
<1>1. /\ v = [total |-> v.total, reserved |-> v.reserved, ledger |-> v.ledger]
      /\ w = [total |-> w.total, reserved |-> w.reserved, ledger |-> w.ledger]
      /\ v.total \in [Guilds -> Int] /\ w.total \in [Guilds -> Int]
      /\ v.reserved \in [Guilds -> Int] /\ w.reserved \in [Guilds -> Int]
      /\ v.ledger \in [Guilds -> [LedgerKinds -> Nat]] /\ w.ledger \in [Guilds -> [LedgerKinds -> Nat]]
  BY DEF WalletsType
<1>2. v.total = w.total
  BY <1>1
<1>3. v.reserved = w.reserved
  BY <1>1
<1>4. v.ledger = w.ledger
  <2>1. ASSUME NEW g \in Guilds PROVE v.ledger[g] = w.ledger[g]
    <3>1. v.ledger[g] \in [LedgerKinds -> Nat] /\ w.ledger[g] \in [LedgerKinds -> Nat]
      BY <1>1
    <3>2. \A k \in LedgerKinds : v.ledger[g][k] = w.ledger[g][k]
      OBVIOUS
    <3> QED BY <3>1, <3>2
  <2> QED BY <1>1, <2>1
<1> QED BY <1>1, <1>2, <1>3, <1>4

(* What a commit does to the wallets the others have locked: nothing. *)
LEMMA OthersMoney ==
  ASSUME TxInv, NEW s \in Sessions, wallets' = Written(tx[s])
  PROVE  \A c \in Sessions \ {s} : \A g \in Guilds : holder[g] = c =>
           wallets'.total[g] = wallets.total[g] /\ wallets'.reserved[g] = wallets.reserved[g]
<1>1. \A g \in tx[s].mine : holder[g] = s
  BY DEF TxInv, SessionsFit, Fits, MoneyExact
<1> QED BY <1>1 DEF Written

(* A transaction that has moved no money writes the wallets as they are. *)
LEMMA WritesNothing ==
  ASSUME TxInv, NEW s \in Sessions, ~Reserved(tx[s]), ~Paid(tx[s])
  PROVE  Written(tx[s]) = wallets
<1>1. /\ \A g \in Guilds : TotalMoved(tx[s], g) = 0 /\ ReservedMoved(tx[s], g) = 0
      /\ \A g \in Guilds, k \in LedgerKinds : Note(tx[s], g, k) = 0
  BY DEF TotalMoved, ReservedMoved, Note, Reserved, Released, Paid, Credited
<1>2. wallets \in WalletsType
  BY Tables
<1>3. \A g \in Guilds : /\ wallets.total[g] \in Int /\ wallets.reserved[g] \in Int
                        /\ \A k \in LedgerKinds : wallets.ledger[g][k] \in Nat
  BY <1>2 DEF WalletsType
<1> DEFINE w == Written(tx[s])
<1>4. /\ w \in WalletsType
      /\ \A g \in Guilds : /\ w.total[g] = wallets.total[g] + TotalMoved(tx[s], g)
                           /\ w.reserved[g] = wallets.reserved[g] + ReservedMoved(tx[s], g)
      /\ \A g \in Guilds, k \in LedgerKinds : w.ledger[g][k] = wallets.ledger[g][k] + Note(tx[s], g, k)
  BY WrittenExact
<1> HIDE DEF w
<1>5. w = wallets
  <2>1. \A g \in Guilds : w.total[g] = wallets.total[g] /\ w.reserved[g] = wallets.reserved[g]
    BY <1>1, <1>3, <1>4
  <2>2. \A g \in Guilds, k \in LedgerKinds : w.ledger[g][k] = wallets.ledger[g][k]
    BY <1>1, <1>3, <1>4
  <2> QED BY <1>2, <1>4, <2>1, <2>2, SameWallets
<1> QED BY <1>5 DEF w
-----------------------------------------------------------------------------
(* Each commit is the operation of AuctionHouse. *)
LEMMA CommitAuctionKeeps ==
  ASSUME TxInv, NEW s \in Sessions, NEW a \in Auctions, CommitAuction(s, a)
  PROVE  Kept /\ CreateAuction(tx[s].guild, tx[s].item, a, tx[s].at)
           /\ tx[s].guild \in Guilds /\ tx[s].item \in Items /\ tx[s].at \in 0 .. now
<1> DEFINE t == tx[s]
           i == t.item
<1>1. /\ t.op = "open" /\ t.next = "commit" /\ Fits(s, t, holder) /\ Ends(s)
      /\ now \in Nat /\ item \in [Items -> ItemRow] /\ auction \in [Auctions -> AuctionRow]
      /\ UNCHANGED <<now, wallets, bid>>
  BY Tables DEF CommitAuction, At, TxInv, SessionsFit
<1>2. /\ i \in Items /\ t.guild \in Guilds /\ holder[i] = s /\ item[i] = t.itemRow
      /\ t.itemRow.owner = t.guild /\ Tier[i] = "legendary" /\ t.itemRow.status = "available"
      /\ t.at \in 0 .. now /\ ReadAfterLastAuction(i, t.at)
  BY <1>1 DEF Fits, Named, ItemHeld, HasItem, OpenChecked
<1>3. /\ auction[a].status = "absent"
      /\ auction' = [auction EXCEPT ![a] =
           [item |-> i, seller |-> t.guild, status |-> "active", endsAt |-> t.at + Window,
            highest |-> Null, winner |-> Null, updatedAt |-> t.at]]
      /\ item' = [item EXCEPT ![i] = [t.itemRow EXCEPT !.status = "in_auction"]]
  BY DEF CommitAuction
<1>4. item' = [item EXCEPT ![i].status = "in_auction"]
  BY <1>1, <1>2, <1>3
<1>5. CreateAuction(t.guild, i, a, t.at)
  BY <1>1, <1>2, <1>3, <1>4 DEF CreateAuction
<1>6. \A c \in Auctions : c # a => auction'[c] = auction[c]
  BY <1>1, <1>3
<1>7. auction'[a].item = i /\ \A j \in Items : j # i => item'[j] = item[j]
  BY <1>1, <1>3
<1>8. ASSUME NEW c \in Sessions \ {s}, tx'[c] = tx[c],
             \A r \in Rows : holder[r] = c => holder'[r] = c
      PROVE  Spares(c)
  <2>1. \A d \in Auctions : auction[d].status = "active" => auction'[d] = auction[d]
    BY <1>3, <1>6
  <2>2. ASSUME NEW j \in Items, holder[j] = c
        PROVE  item'[j] = item[j] /\ \A d \in Auctions : auction'[d].item = j => auction'[d] = auction[d]
    BY <1>2, <1>6, <1>7, <2>2
  <2> QED BY <1>1, <1>8, <2>1, <2>2 DEF Spares
<1>9. Kept
  BY <1>1, <1>8, EndKeeps
<1> QED BY <1>2, <1>5, <1>9

LEMMA CommitCancelKeeps ==
  ASSUME TxInv, NEW s \in Sessions, CommitCancel(s)
  PROVE  Kept /\ CancelBid(tx[s].auction, tx[s].bid, tx[s].guild)
           /\ tx[s].auction \in Auctions /\ tx[s].bid \in Bids /\ tx[s].guild \in Guilds
<1> DEFINE t == tx[s]
           a == t.auction
           b == t.bid
<1>1. /\ t.op = "cancel" /\ t.next = "commit" /\ Fits(s, t, holder) /\ Ends(s)
      /\ now \in Nat /\ bid \in [Bids -> BidRow] /\ UNCHANGED <<now, item, auction>>
  BY Tables DEF CommitCancel, At, TxInv, SessionsFit
<1>2. /\ a \in Auctions /\ b \in Bids /\ t.guild \in Guilds
      /\ holder[a] = s /\ auction[a].status = "active" /\ bid[b] = t.bidRow
      /\ bid[b].auction = a /\ bid[b].bidder = t.guild
      /\ bid[b].status # "active" /\ auction[a].highest # b
  BY <1>1 DEF Fits, Named, CancelChecked
<1>3. bid' = [bid EXCEPT ![b].status = "cancelled"]
  BY <1>2 DEF CommitCancel
<1>4. wallets' = wallets
  <2>1. wallets' = Written(t)
    BY DEF CommitCancel
  <2>2. ~Reserved(t) /\ ~Paid(t)
    BY <1>1 DEF Reserved, Paid
  <2> QED BY <2>1, <2>2, WritesNothing
<1>5. CancelBid(a, b, t.guild)
  BY <1>1, <1>2, <1>3, <1>4 DEF CancelBid, EnsureCanCancelBid
<1>6. \A d \in Bids : bid[d].auction # a => bid'[d] = bid[d]
  BY <1>1, <1>2, <1>3
<1>7. ASSUME NEW c \in Sessions \ {s}, tx'[c] = tx[c],
             \A r \in Rows : holder[r] = c => holder'[r] = c
      PROVE  Spares(c)
  BY <1>1, <1>2, <1>4, <1>6, <1>7 DEF Spares
<1>8. Kept
  BY <1>1, <1>7, EndKeeps
<1> QED BY <1>2, <1>5, <1>8

(* The copies of a bid that is about to be committed. *)
LEMMA BidReady ==
  ASSUME TxInv, NEW s \in Sessions, At(s, "bid", "commit")
  PROVE  LET t == tx[s]
             a == t.auction
             b == auction[a].highest
         IN  /\ a \in Auctions /\ t.guild \in Guilds /\ t.amount \in Amounts /\ t.amount \in Int
             /\ holder[a] = s /\ auction[a] = t.auctionRow /\ auction[a].status = "active"
             /\ t.bidRow = Leader(auction[a])
             /\ t.at \in 0 .. now /\ auction[a].updatedAt <= t.at
             /\ ~AuctionEnded(t.at, auction[a].endsAt)
             /\ EnsureNotSelfBid(auction[a].seller, t.guild)
             /\ EnsureBidBeatsCurrent(CurrentAmount(a), t.amount)
             /\ CanReserve(wallets, t.guild, t.amount)
             /\ b # Null => /\ b \in Bids /\ bid[b].status = "active" /\ bid[b].auction = a
                            /\ t.bidRow = bid[b] /\ t.bidRow.bidder \in Guilds
                            /\ t.bidRow.amount \in Nat /\ t.bidRow.amount > 0
                            /\ t.bidRow.amount <= wallets.reserved[t.bidRow.bidder]
<1> DEFINE t == tx[s]
           row == t.auctionRow
<1>1. t.op = "bid" /\ t.next = "commit" /\ Fits(s, t, holder) /\ HasAuction(t) /\ t \in Tx
  BY Tables DEF At, TxInv, SessionsFit, HasAuction
<1>2. /\ t.guild \in Guilds /\ t.amount \in Amounts /\ t.amount \in Int
      /\ CanReserve(wallets, t.guild, t.amount)
  BY <1>1 DEF Fits, Named, MoneyExact, Reserved, Tx
<1>3. /\ t.bidRow = Leader(row) /\ t.at \in 0 .. now /\ row.updatedAt <= t.at
      /\ ~AuctionEnded(t.at, row.endsAt) /\ EnsureNotSelfBid(row.seller, t.guild)
      /\ EnsureBidBeatsCurrent(t.bidRow.amount, t.amount)
  BY <1>1 DEF Fits, BidChecked
<1>4. /\ t.auction \in Auctions /\ row = auction[t.auction] /\ holder[t.auction] = s
      /\ row.status = "active"
      /\ row.highest # Null =>
           /\ row.highest \in Bids /\ bid[row.highest].status = "active"
           /\ bid[row.highest].auction = t.auction
           /\ bid[row.highest].bidder \in Guilds
           /\ bid[row.highest].amount \in Int /\ bid[row.highest].amount > 0
           /\ bid[row.highest].amount <= wallets.reserved[bid[row.highest].bidder]
  BY <1>1, Copied
<1>5. t.bidRow.amount = CurrentAmount(t.auction)
  <2>1. CASE row.highest = Null
    <3>1. t.bidRow = NoBid
      BY <1>3, <2>1 DEF Leader
    <3>2. CurrentAmount(t.auction) = 0
      BY <1>4, <2>1 DEF CurrentAmount
    <3> QED BY <3>1, <3>2 DEF NoBid
  <2>2. CASE row.highest # Null
    <3>1. t.bidRow = bid[row.highest]
      BY <1>3, <2>2 DEF Leader
    <3>2. CurrentAmount(t.auction) = bid[row.highest].amount
      BY <1>4, <2>2 DEF CurrentAmount
    <3> QED BY <3>1, <3>2
  <2> QED BY <2>1, <2>2
<1>6. row.highest # Null => t.bidRow = bid[row.highest]
  BY <1>3 DEF Leader
<1>7. EnsureBidBeatsCurrent(CurrentAmount(t.auction), t.amount)
  BY <1>3, <1>5
<1> DEFINE a == t.auction
           b == auction[a].highest
<1>8. /\ t.bidRow = Leader(auction[a]) /\ t.at \in 0 .. now /\ auction[a].updatedAt <= t.at
      /\ ~AuctionEnded(t.at, auction[a].endsAt) /\ EnsureNotSelfBid(auction[a].seller, t.guild)
  BY <1>3, <1>4
<1>9. b # Null => /\ b \in Bids /\ bid[b].status = "active" /\ bid[b].auction = a
                  /\ t.bidRow = bid[b] /\ t.bidRow.bidder \in Guilds
                  /\ t.bidRow.amount \in Nat /\ t.bidRow.amount > 0
                  /\ t.bidRow.amount <= wallets.reserved[t.bidRow.bidder]
  BY <1>4, <1>6
<1>10. /\ a \in Auctions /\ holder[a] = s /\ auction[a] = t.auctionRow
       /\ auction[a].status = "active"
  BY <1>4
<1> QED BY <1>2, <1>7, <1>8, <1>9, <1>10

(* Its money: the reservation, and the release of the outbid leader. *)
LEMMA BidMoney ==
  ASSUME TxInv, NEW s \in Sessions, At(s, "bid", "commit")
  PROVE  LET t == tx[s]
             prev == t.bidRow
             held == Reserve(wallets, t.guild, t.amount, "reserve_bid")
         IN  IF auction[t.auction].highest = Null
             THEN Written(t) = held
             ELSE /\ CanRelease(held, prev.bidder, prev.amount)
                  /\ Written(t) = Release(held, prev.bidder, prev.amount, "release_bid")
<1> DEFINE t == tx[s]
           g == t.guild
           x == t.amount
           p == t.bidRow.bidder
           n == t.bidRow.amount
           held == Reserve(wallets, g, x, "reserve_bid")
           freed == Release(held, p, n, "release_bid")
           w == Written(t)
<1>1. /\ g \in Guilds /\ x \in Int /\ CanReserve(wallets, g, x)
      /\ t.auctionRow = auction[t.auction]
      /\ t.auctionRow.highest # Null => /\ p \in Guilds /\ n \in Nat /\ n > 0
                                        /\ n <= wallets.reserved[p]
  BY BidReady
<1>2. Reserved(t) /\ ~Paid(t) /\ ~Credited(t) /\ (Released(t) <=> t.auctionRow.highest # Null)
  BY DEF At, Reserved, Released, Paid, Credited
<1>3. /\ w \in WalletsType
      /\ \A h \in Guilds : /\ w.total[h] = wallets.total[h] + TotalMoved(t, h)
                           /\ w.reserved[h] = wallets.reserved[h] + ReservedMoved(t, h)
      /\ \A h \in Guilds, k \in LedgerKinds : w.ledger[h][k] = wallets.ledger[h][k] + Note(t, h, k)
  BY WrittenExact
<1>4. /\ wallets \in WalletsType
      /\ \A h \in Guilds : RowSound(wallets, h)
      /\ "reserve_bid" \in LedgerKinds /\ "release_bid" \in LedgerKinds
  BY Tables, WalletBound DEF CoreInv, LedgerKinds
<1> DEFINE r1(h) == IF h = g THEN x ELSE 0
           r2(h) == IF t.auctionRow.highest # Null /\ h = p THEN n ELSE 0
<1>5. /\ \A h \in Guilds : TotalMoved(t, h) = 0 /\ ReservedMoved(t, h) = r1(h) - r2(h)
      /\ \A h \in Guilds, k \in LedgerKinds :
           Note(t, h, k) = IF k = "reserve_bid" THEN r1(h)
                           ELSE IF k = "release_bid" THEN r2(h) ELSE 0
  <2>1. \A h \in Guilds, k \in LedgerKinds :
           Note(t, h, k) = IF k = "reserve_bid" THEN r1(h)
                           ELSE IF k = "release_bid" THEN r2(h) ELSE 0
    BY <1>2 DEF Note, LedgerKinds
  <2>2. \A h \in Guilds : r1(h) \in Int /\ r2(h) \in Int
    BY <1>1
  <2>3. "debit_auction" \in LedgerKinds /\ "credit_auction" \in LedgerKinds
    BY DEF LedgerKinds
  <2> HIDE DEF r1, r2
  <2> QED BY <1>4, <2>1, <2>2, <2>3 DEF TotalMoved, ReservedMoved
<1> HIDE DEF t, w, g, x, p, n
<1>6. /\ held \in WalletsType /\ held.total = wallets.total
      /\ held.reserved = [wallets.reserved EXCEPT ![g] = wallets.reserved[g] + x]
      /\ held.ledger = Recorded(wallets, g, "reserve_bid", x)
      /\ x > 0 /\ wallets.reserved[g] + x <= wallets.total[g]
  BY <1>1, <1>4, ReserveExact
<1> HIDE DEF held
<1>7. \A h \in Guilds : /\ wallets.total[h] \in Int /\ wallets.reserved[h] \in Int
                        /\ \A k \in LedgerKinds : wallets.ledger[h][k] \in Nat
                        /\ held.reserved[h] = wallets.reserved[h] + r1(h)
                        /\ held.total[h] = wallets.total[h]
  BY <1>1, <1>4, <1>6 DEF WalletsType
<1>8. \A h \in Guilds, k \in LedgerKinds :
        held.ledger[h][k] = wallets.ledger[h][k] + (IF k = "reserve_bid" THEN r1(h) ELSE 0)
  <2>1. x \in Nat
    BY <1>1, <1>6
  <2>2. \A h \in Guilds, k \in LedgerKinds :
          held.ledger[h][k] = IF h = g /\ k = "reserve_bid" THEN wallets.ledger[h][k] + x
                              ELSE wallets.ledger[h][k]
    BY <1>1, <1>4, <1>6, <2>1, LedgerAfter
  <2> QED BY <1>7, <2>1, <2>2
<1>9. CASE t.auctionRow.highest = Null
  <2>1. \A h \in Guilds : w.total[h] = held.total[h] /\ w.reserved[h] = held.reserved[h]
    <3>1. \A h \in Guilds : r2(h) = 0 /\ r1(h) \in Int
      BY <1>1, <1>9
    <3> HIDE DEF r1, r2
    <3> QED BY <1>3, <1>5, <1>7, <3>1
  <2>2. \A h \in Guilds, k \in LedgerKinds : w.ledger[h][k] = held.ledger[h][k]
    <3>1. \A h \in Guilds : r2(h) = 0 /\ r1(h) \in Int
      BY <1>1, <1>9
    <3> HIDE DEF r1, r2
    <3> QED BY <1>3, <1>5, <1>7, <1>8, <3>1
  <2>3. w = held
    BY <1>3, <1>6, <2>1, <2>2, SameWallets
  <2> QED BY <1>1, <1>9, <2>3 DEF t, w, g, x, held
<1>10. CASE t.auctionRow.highest # Null
  <2>1. RowSound(held, p) /\ CanRelease(held, p, n)
    BY <1>1, <1>4, <1>6, <1>7, <1>10 DEF RowSound, CanRelease, EnsureCanRelease, EnsurePositive
  <2>2. /\ freed \in WalletsType /\ freed.total = held.total
        /\ freed.reserved = [held.reserved EXCEPT ![p] = held.reserved[p] - n]
        /\ freed.ledger = Recorded(held, p, "release_bid", n)
    BY <1>1, <1>4, <1>6, <1>10, <2>1, ReleaseExact
  <2> HIDE DEF freed
  <2>3. \A h \in Guilds, k \in LedgerKinds :
          freed.ledger[h][k] = held.ledger[h][k] + (IF k = "release_bid" THEN r2(h) ELSE 0)
    <3>1. \A h \in Guilds, k \in LedgerKinds :
            freed.ledger[h][k] = IF h = p /\ k = "release_bid" THEN held.ledger[h][k] + n
                                 ELSE held.ledger[h][k]
      BY <1>1, <1>4, <1>6, <1>10, <2>2, LedgerAfter
    <3>2. \A h \in Guilds, k \in LedgerKinds : held.ledger[h][k] \in Nat
      BY <1>6 DEF WalletsType
    <3> QED BY <1>1, <1>10, <3>1, <3>2
  <2>4. \A h \in Guilds : freed.total[h] = held.total[h] /\ freed.reserved[h] = held.reserved[h] - r2(h)
    <3>1. \A h \in Guilds : held.reserved[h] \in Int /\ held.reserved \in [Guilds -> Int]
      BY <1>6 DEF WalletsType
    <3> QED BY <1>1, <1>10, <2>2, <3>1
  <2>5. \A h \in Guilds : r2(h) \in Int /\ r1(h) \in Int
    BY <1>1, <1>10
  <2> HIDE DEF r1, r2
  <2>6. \A h \in Guilds : w.total[h] = freed.total[h] /\ w.reserved[h] = freed.reserved[h]
    BY <1>3, <1>5, <1>7, <2>4, <2>5
  <2>7. \A h \in Guilds, k \in LedgerKinds : w.ledger[h][k] = freed.ledger[h][k]
    BY <1>3, <1>5, <1>7, <1>8, <2>3, <2>5
  <2>8. w = freed
    BY <1>3, <2>2, <2>6, <2>7, SameWallets
  <2> QED BY <1>1, <1>10, <2>1, <2>8 DEF t, w, g, x, p, n, held, freed
<1> QED BY <1>9, <1>10

LEMMA CommitBidKeeps ==
  ASSUME TxInv, NEW s \in Sessions, NEW b \in Bids, CommitBid(s, b)
  PROVE  Kept /\ PlaceBid(tx[s].auction, tx[s].guild, tx[s].amount, b, tx[s].at)
           /\ tx[s].auction \in Auctions /\ tx[s].guild \in Guilds /\ tx[s].amount \in Amounts
           /\ tx[s].at \in 0 .. now
<1> DEFINE t == tx[s]
           a == t.auction
           prev == auction[a].highest
           new == NewBid(a, t.guild, t.amount)
<1>1. /\ At(s, "bid", "commit") /\ bid[b].status = "absent" /\ wallets' = Written(t) /\ Ends(s)
      /\ UNCHANGED <<now, item>> /\ now \in Nat /\ bid \in [Bids -> BidRow]
      /\ auction \in [Auctions -> AuctionRow] /\ RowsConsistent /\ OneOpen
      /\ Null \notin Bids
  BY Tables, AuctionAssumption DEF CommitBid, CoreInv
<1>2. /\ a \in Auctions /\ t.guild \in Guilds /\ t.amount \in Amounts
      /\ holder[a] = s /\ auction[a] = t.auctionRow /\ auction[a].status = "active"
      /\ t.at \in 0 .. now /\ auction[a].updatedAt <= t.at
      /\ ~AuctionEnded(t.at, auction[a].endsAt)
      /\ EnsureNotSelfBid(auction[a].seller, t.guild)
      /\ EnsureBidBeatsCurrent(CurrentAmount(a), t.amount)
      /\ CanReserve(wallets, t.guild, t.amount)
      /\ prev # Null => prev \in Bids /\ bid[prev].status = "active" /\ bid[prev].auction = a
                        /\ t.bidRow = bid[prev]
  BY <1>1, BidReady
<1>3. bid' = [c \in Bids |-> CASE c = b -> new
                                [] c = prev -> [t.bidRow EXCEPT !.status = "released"]
                                [] OTHER -> bid[c]]
  BY <1>2 DEF CommitBid
<1>4. prev = Null => bid' = [bid EXCEPT ![b] = new]
  BY <1>1, <1>3
<1>5. prev # Null => bid' = [bid EXCEPT ![prev].status = "released", ![b] = new]
  <2> SUFFICES ASSUME prev # Null
               PROVE  bid' = [bid EXCEPT ![prev].status = "released", ![b] = new]
    OBVIOUS
  <2>1. b # prev
    BY <1>1, <1>2
  <2>2. bid' = [c \in Bids |-> IF c = b THEN new
                               ELSE IF c = prev THEN [bid[prev] EXCEPT !.status = "released"]
                               ELSE bid[c]]
    <3>1. t.bidRow = bid[prev]
      BY <1>2
    <3>2. \A c \in Bids : (CASE c = b -> new
                           [] c = prev -> [t.bidRow EXCEPT !.status = "released"]
                           [] OTHER -> bid[c])
                        = IF c = b THEN new
                          ELSE IF c = prev THEN [bid[prev] EXCEPT !.status = "released"]
                          ELSE bid[c]
      BY <2>1, <3>1
    <3> HIDE DEF new, prev
    <3> QED BY <1>3, <3>2
  <2> QED BY <1>1, <1>2, <2>1, <2>2
<1>6. auction' = Led(a, b, t.at)
  <2> DEFINE e == MaybeExtend(t.at, auction[a].endsAt, Extension, Extension)
             led == [auction[a] EXCEPT !.highest = b, !.endsAt = e, !.updatedAt = t.at]
  <2>1. auction' = [auction EXCEPT ![a] =
           [auction[a] EXCEPT !.highest = b, !.updatedAt = t.at, !.endsAt = e]]
    BY <1>2 DEF CommitBid
  <2>2. [auction[a] EXCEPT !.highest = b, !.updatedAt = t.at, !.endsAt = e] = led
    BY <1>1, <1>2 DEF AuctionRow
  <2>3. Led(a, b, t.at) = [auction EXCEPT ![a] = led]
    BY <1>1, <1>2 DEF Led, AuctionRow
  <2> HIDE DEF led, e
  <2> QED BY <2>1, <2>2, <2>3
<1>7. PlaceBid(a, t.guild, t.amount, b, t.at)
  <2> DEFINE held == Reserve(wallets, t.guild, t.amount, "reserve_bid")
  <2>1. CASE prev = Null
    <3>1. wallets' = held
      BY <1>1, <2>1, BidMoney
    <3> QED BY <1>1, <1>2, <1>4, <1>6, <2>1, <3>1 DEF PlaceBid
  <2>2. CASE prev # Null
    <3>1. CanRelease(held, bid[prev].bidder, bid[prev].amount)
          /\ wallets' = Release(held, bid[prev].bidder, bid[prev].amount, "release_bid")
      BY <1>1, <1>2, <2>2, BidMoney
    <3> QED BY <1>1, <1>2, <1>5, <1>6, <2>2, <3>1 DEF PlaceBid
  <2> QED BY <2>1, <2>2
<1>8. \A d \in Auctions : d # a => auction'[d] = auction[d]
  BY <1>1, <1>6 DEF Led
<1>9. auction'[a].item = auction[a].item
  BY <1>1, <1>2, <1>6 DEF Led, AuctionRow
<1>10. item[auction[a].item].status = "in_auction"
  BY <1>1, <1>2 DEF OneOpen
<1>11. \A d \in Auctions : d # a => \A e \in Bids : bid[e].auction = d => bid'[e] = bid[e]
  <2>1. bid[b].auction = Null /\ Null \notin Auctions
    BY <1>1, AuctionAssumption DEF RowsConsistent
  <2>2. \A e \in Bids : e # b /\ e # prev => bid'[e] = bid[e]
    BY <1>3
  <2>3. \A e \in Bids : e = prev => bid[e].auction = a
    BY <1>1, <1>2
  <2> QED BY <2>1, <2>2, <2>3
<1>12. ASSUME NEW c \in Sessions \ {s}, tx'[c] = tx[c],
              \A r \in Rows : holder[r] = c => holder'[r] = c
       PROVE  Spares(c)
  <2>1. \A g \in Guilds : holder[g] = c =>
          wallets'.total[g] = wallets.total[g] /\ wallets'.reserved[g] = wallets.reserved[g]
    BY <1>1, <1>12, OthersMoney
  <2>2. \A d \in Auctions : holder[d] = c =>
          auction'[d] = auction[d] /\ \A e \in Bids : bid[e].auction = d => bid'[e] = bid[e]
    BY <1>2, <1>8, <1>11
  <2>3. \A i \in Items : item[i].status = "available" =>
          \A d \in Auctions : auction'[d].item = i => auction'[d] = auction[d]
    BY <1>8, <1>9, <1>10
  <2> QED BY <1>1, <1>12, <2>1, <2>2, <2>3 DEF Spares
<1>13. Kept
  BY <1>1, <1>12, EndKeeps
<1> QED BY <1>2, <1>7, <1>13

(* The copies of a settlement that is about to be committed. *)
LEMMA SettlementReady ==
  ASSUME TxInv, NEW s \in Sessions, At(s, "settle", "commit")
  PROVE  LET t == tx[s]
             a == t.auction
             b == auction[a].highest
         IN  /\ a \in Auctions /\ holder[a] = s /\ auction[a] = t.auctionRow
             /\ auction[a].status = "active" /\ AuctionEnded(now, auction[a].endsAt)
             /\ auction[a].item \in Items /\ holder[auction[a].item] = s
             /\ item[auction[a].item] = t.itemRow /\ auction[a].seller \in Guilds
             /\ b # Null => /\ b \in Bids /\ bid[b].status = "active" /\ bid[b].auction = a
                            /\ t.bidRow = bid[b] /\ bid[b].bidder \in Guilds
                            /\ bid[b].bidder # auction[a].seller
                            /\ bid[b].amount \in Nat /\ bid[b].amount > 0
                            /\ bid[b].amount <= wallets.reserved[bid[b].bidder]
<1> DEFINE t == tx[s]
           a == t.auction
           row == t.auctionRow
<1>1. t.op = "settle" /\ t.next = "commit" /\ Fits(s, t, holder) /\ HasAuction(t) /\ HasItem(t)
  BY DEF At, TxInv, SessionsFit, HasAuction, HasItem
<1>2. /\ AuctionEnded(now, row.endsAt) /\ t.bidRow = Leader(row)
      /\ t.item = row.item /\ holder[t.item] = s /\ item[t.item] = t.itemRow
  BY <1>1 DEF Fits, SettleChecked, ItemHeld
<1>3. /\ a \in Auctions /\ row = auction[a] /\ holder[a] = s /\ row.status = "active"
      /\ row.item \in Items /\ row.seller \in Guilds
      /\ row.highest # Null =>
           /\ row.highest \in Bids /\ bid[row.highest].status = "active"
           /\ bid[row.highest].auction = a
           /\ bid[row.highest].bidder \in Guilds /\ bid[row.highest].bidder # row.seller
           /\ bid[row.highest].amount \in Int /\ bid[row.highest].amount > 0
           /\ bid[row.highest].amount <= wallets.reserved[bid[row.highest].bidder]
  BY <1>1, Copied
<1>4. row.highest # Null => t.bidRow = bid[row.highest]
  BY <1>2 DEF Leader
<1> QED BY <1>2, <1>3, <1>4

(* Its money: the reservation is spent, and the seller paid. *)
LEMMA SettlementMoney ==
  ASSUME TxInv, NEW s \in Sessions, At(s, "settle", "commit"),
         auction[tx[s].auction].highest # Null
  PROVE  LET a == tx[s].auction
             won == bid[auction[a].highest]
             paid == SettleReserved(wallets, won.bidder, won.amount, "debit_auction")
         IN  /\ CanSettleReserved(wallets, won.bidder, won.amount) /\ CanCredit(won.amount)
             /\ Written(tx[s]) = Credit(paid, auction[a].seller, won.amount, "credit_auction")
<1> DEFINE t == tx[s]
           won == bid[auction[t.auction].highest]
           p == won.bidder
           n == won.amount
           g == auction[t.auction].seller
           paid == SettleReserved(wallets, p, n, "debit_auction")
           moved == Credit(paid, g, n, "credit_auction")
           w == Written(t)
<1>1. /\ p \in Guilds /\ g \in Guilds /\ p # g /\ n \in Nat /\ n > 0
      /\ n <= wallets.reserved[p] /\ t.bidRow = won
      /\ t.auctionRow = auction[t.auction] /\ t.auctionRow.highest # Null
      /\ t.auctionRow.seller = g
  BY SettlementReady
<1>2. ~Reserved(t) /\ ~Released(t) /\ Paid(t) /\ Credited(t)
  BY <1>1 DEF At, Reserved, Released, Paid, Credited
<1>3. /\ w \in WalletsType
      /\ \A h \in Guilds : /\ w.total[h] = wallets.total[h] + TotalMoved(t, h)
                           /\ w.reserved[h] = wallets.reserved[h] + ReservedMoved(t, h)
      /\ \A h \in Guilds, k \in LedgerKinds : w.ledger[h][k] = wallets.ledger[h][k] + Note(t, h, k)
  BY WrittenExact
<1>4. /\ wallets \in WalletsType /\ CoreInv
      /\ RowSound(wallets, p)
      /\ wallets.total[g] \in Nat /\ wallets.total[p] \in Nat /\ wallets.reserved[p] \in Nat
      /\ "debit_auction" \in LedgerKinds /\ "credit_auction" \in LedgerKinds
  BY <1>1, Tables, WalletBound DEF CoreInv, LedgerKinds
<1> DEFINE r1(h) == IF h = p THEN n ELSE 0
           r2(h) == IF h = g THEN n ELSE 0
<1>5. /\ \A h \in Guilds : TotalMoved(t, h) = r2(h) - r1(h) /\ ReservedMoved(t, h) = 0 - r1(h)
      /\ \A h \in Guilds, k \in LedgerKinds :
           Note(t, h, k) = IF k = "debit_auction" THEN r1(h)
                           ELSE IF k = "credit_auction" THEN r2(h) ELSE 0
  <2>1. \A h \in Guilds, k \in LedgerKinds :
           Note(t, h, k) = IF k = "debit_auction" THEN r1(h)
                           ELSE IF k = "credit_auction" THEN r2(h) ELSE 0
    BY <1>1, <1>2 DEF Note, LedgerKinds
  <2>2. \A h \in Guilds : r1(h) \in Int /\ r2(h) \in Int
    BY <1>1
  <2>3. "reserve_bid" \in LedgerKinds /\ "release_bid" \in LedgerKinds
    BY DEF LedgerKinds
  <2> HIDE DEF r1, r2
  <2>4. \A h \in Guilds : TotalMoved(t, h) = r2(h) - r1(h)
    BY <1>4, <2>1, <2>2 DEF TotalMoved
  <2>5. ASSUME NEW h \in Guilds PROVE ReservedMoved(t, h) = 0 - r1(h)
    <3>1. /\ Note(t, h, "reserve_bid") = 0 /\ Note(t, h, "release_bid") = 0
          /\ Note(t, h, "debit_auction") = r1(h)
      BY <1>4, <2>1, <2>3
    <3> QED BY <2>2, <3>1 DEF ReservedMoved
  <2> QED BY <2>1, <2>4, <2>5
<1>6. CanSettleReserved(wallets, p, n) /\ CanCredit(n)
  BY <1>1 DEF CanSettleReserved, CanCredit, EnsureCanRelease, EnsurePositive
<1>7. wallets.total[g] + wallets.total[p] <= Money
  BY <1>1, <1>4, TwoBalances
<1> HIDE DEF t, w, g, p, n, won
<1>8. /\ paid \in WalletsType
      /\ paid.total = [wallets.total EXCEPT ![p] = wallets.total[p] - n]
      /\ paid.reserved = [wallets.reserved EXCEPT ![p] = wallets.reserved[p] - n]
      /\ paid.ledger = Recorded(wallets, p, "debit_auction", n)
  BY <1>1, <1>4, <1>6, SettleReservedExact
<1> HIDE DEF paid
<1>9. \A h \in Guilds : /\ wallets.total[h] \in Int /\ wallets.reserved[h] \in Int
                        /\ \A k \in LedgerKinds : wallets.ledger[h][k] \in Nat
                        /\ paid.reserved[h] = wallets.reserved[h] - r1(h)
                        /\ paid.total[h] = wallets.total[h] - r1(h)
  BY <1>1, <1>4, <1>8 DEF WalletsType
<1>10. \A h \in Guilds, k \in LedgerKinds :
         paid.ledger[h][k] = wallets.ledger[h][k] + (IF k = "debit_auction" THEN r1(h) ELSE 0)
  <2>1. \A h \in Guilds, k \in LedgerKinds :
          paid.ledger[h][k] = IF h = p /\ k = "debit_auction" THEN wallets.ledger[h][k] + n
                              ELSE wallets.ledger[h][k]
    BY <1>1, <1>4, <1>8, LedgerAfter
  <2> QED BY <1>1, <1>9, <2>1
<1>11. 0 <= paid.total[g] /\ paid.total[g] + n < Half
  <2>1. paid.total[g] = wallets.total[g]
    BY <1>1, <1>9
  <2>2. n <= wallets.total[p]
    BY <1>1, <1>4 DEF RowSound
  <2> QED BY <1>1, <1>4, <1>7, <2>1, <2>2, MoneyNat, HalfAssumption
<1>12. /\ moved \in WalletsType /\ moved.reserved = paid.reserved
       /\ moved.total = [paid.total EXCEPT ![g] = paid.total[g] + n]
       /\ moved.ledger = Recorded(paid, g, "credit_auction", n)
  <2>1. n \in Int /\ g \in Guilds /\ CanCredit(n) /\ "credit_auction" \in LedgerKinds
        /\ paid \in WalletsType
    BY <1>1, <1>4, <1>6, <1>8
  <2> QED BY ONLY <1>11, <2>1, CreditExact
<1> HIDE DEF moved
<1>13. \A h \in Guilds : moved.total[h] = paid.total[h] + r2(h) /\ moved.reserved[h] = paid.reserved[h]
  <2>1. paid.total \in [Guilds -> Int]
    BY <1>8 DEF WalletsType
  <2> QED BY <1>1, <1>12, <2>1
<1>14. \A h \in Guilds, k \in LedgerKinds :
         moved.ledger[h][k] = paid.ledger[h][k] + (IF k = "credit_auction" THEN r2(h) ELSE 0)
  <2>1. \A h \in Guilds, k \in LedgerKinds :
          moved.ledger[h][k] = IF h = g /\ k = "credit_auction" THEN paid.ledger[h][k] + n
                               ELSE paid.ledger[h][k]
    BY <1>1, <1>4, <1>8, <1>12, LedgerAfter
  <2>2. \A h \in Guilds, k \in LedgerKinds : paid.ledger[h][k] \in Nat
    BY <1>8 DEF WalletsType
  <2> QED BY <1>1, <2>1, <2>2
<1>15. \A h \in Guilds : r2(h) \in Int /\ r1(h) \in Int
  BY <1>1
<1> HIDE DEF r1, r2
<1>16. \A h \in Guilds : w.total[h] = moved.total[h] /\ w.reserved[h] = moved.reserved[h]
  BY <1>3, <1>5, <1>9, <1>13, <1>15
<1>17. \A h \in Guilds, k \in LedgerKinds : w.ledger[h][k] = moved.ledger[h][k]
  BY <1>3, <1>5, <1>9, <1>10, <1>14, <1>15
<1>18. w = moved
  BY <1>3, <1>12, <1>16, <1>17, SameWallets
<1> QED BY <1>6, <1>18 DEF t, w, g, p, n, won, paid, moved

LEMMA CommitSettlementKeeps ==
  ASSUME TxInv, NEW s \in Sessions, CommitSettlement(s)
  PROVE  Kept /\ SettleAuction(tx[s].auction, now) /\ tx[s].auction \in Auctions
<1> DEFINE t == tx[s]
           a == t.auction
           i == auction[a].item
           b == auction[a].highest
           Moved == /\ SettleAuction(a, now)
                    /\ \A d \in Auctions : d # a => auction'[d] = auction[d]
                    /\ auction'[a].item = i
                    /\ \A j \in Items : j # i => item'[j] = item[j]
                    /\ \A e \in Bids : bid[e].auction # a => bid'[e] = bid[e]
<1>1. /\ At(s, "settle", "commit") /\ wallets' = Written(t) /\ Ends(s) /\ now' = now
      /\ now \in Nat /\ bid \in [Bids -> BidRow] /\ item \in [Items -> ItemRow]
      /\ auction \in [Auctions -> AuctionRow] /\ UpdatedInPast /\ OneOpen
  BY Tables DEF CommitSettlement, TxInv
<1>2. /\ a \in Auctions /\ holder[a] = s /\ auction[a] = t.auctionRow
      /\ auction[a].status = "active" /\ AuctionEnded(now, auction[a].endsAt)
      /\ i \in Items /\ holder[i] = s /\ item[i] = t.itemRow
      /\ b # Null => b \in Bids /\ bid[b].auction = a /\ t.bidRow = bid[b]
  BY <1>1, SettlementReady
<1>3. auction[a].updatedAt <= now
  BY <1>1, <1>2 DEF UpdatedInPast
<1>4. ASSUME b # Null PROVE Moved
  <2> DEFINE buyer == bid[b].bidder
  <2>1. /\ item' = [item EXCEPT ![i] = [owner |-> buyer, status |-> "available"]]
        /\ bid' = [bid EXCEPT ![b] = [bid[b] EXCEPT !.status = "won"]]
        /\ auction' = [auction EXCEPT ![a] =
             [[auction[a] EXCEPT !.status = "settled", !.updatedAt = now] EXCEPT !.winner = buyer]]
    BY <1>2, <1>4 DEF CommitSettlement
  <2>2. /\ CanSettleReserved(wallets, buyer, bid[b].amount) /\ CanCredit(bid[b].amount)
        /\ wallets' = Credit(SettleReserved(wallets, buyer, bid[b].amount, "debit_auction"),
                             auction[a].seller, bid[b].amount, "credit_auction")
    BY <1>1, <1>4, SettlementMoney
  <2>3. bid' = [bid EXCEPT ![b].status = "won"]
    BY <1>1, <1>2, <1>4, <2>1
  <2>4. auction' = [auction EXCEPT ![a].winner = buyer, ![a].status = "settled", ![a].updatedAt = now]
    <3> DEFINE closed == [auction[a] EXCEPT !.winner = buyer, !.status = "settled", !.updatedAt = now]
    <3>1. [[auction[a] EXCEPT !.status = "settled", !.updatedAt = now] EXCEPT !.winner = buyer] = closed
      BY <1>1, <1>2 DEF AuctionRow
    <3>2. [auction EXCEPT ![a].winner = buyer, ![a].status = "settled", ![a].updatedAt = now]
            = [auction EXCEPT ![a] = closed]
      BY <1>1, <1>2 DEF AuctionRow
    <3> HIDE DEF closed
    <3> QED BY <2>1, <3>1, <3>2
  <2>5. SettleAuction(a, now)
    BY <1>1, <1>2, <1>3, <1>4, <2>1, <2>2, <2>3, <2>4 DEF SettleAuction
  <2>6. /\ \A d \in Auctions : d # a => auction'[d] = auction[d]
        /\ auction'[a].item = i
        /\ \A j \in Items : j # i => item'[j] = item[j]
        /\ \A e \in Bids : bid[e].auction # a => bid'[e] = bid[e]
    BY <1>1, <1>2, <1>4, <2>1 DEF AuctionRow
  <2> QED BY <2>5, <2>6
<1>5. ASSUME b = Null PROVE Moved
  <2>1. /\ item' = [item EXCEPT ![i] = [item[i] EXCEPT !.status = "available"]]
        /\ auction' = [auction EXCEPT ![a] =
             [auction[a] EXCEPT !.status = "settled", !.updatedAt = now]]
        /\ bid' = bid
    BY <1>2, <1>5 DEF CommitSettlement
  <2>2. wallets' = wallets
    <3>1. ~Reserved(t) /\ ~Paid(t)
      BY <1>1, <1>2, <1>5 DEF At, Reserved, Paid
    <3> QED BY <1>1, <3>1, WritesNothing
  <2>3. item' = [item EXCEPT ![i].status = "available"]
    BY <1>1, <1>2, <2>1
  <2>4. auction' = [auction EXCEPT ![a].status = "settled", ![a].updatedAt = now]
    BY <1>1, <1>2, <2>1 DEF AuctionRow
  <2>5. SettleAuction(a, now)
    BY <1>1, <1>2, <1>3, <1>5, <2>1, <2>2, <2>3, <2>4 DEF SettleAuction
  <2>6. /\ \A d \in Auctions : d # a => auction'[d] = auction[d]
        /\ auction'[a].item = i
        /\ \A j \in Items : j # i => item'[j] = item[j]
        /\ \A e \in Bids : bid[e].auction # a => bid'[e] = bid[e]
    BY <1>1, <1>2, <2>1 DEF AuctionRow
  <2> QED BY <2>5, <2>6
<1>6. Moved
  BY <1>4, <1>5
<1>7. ASSUME NEW c \in Sessions \ {s}, tx'[c] = tx[c],
             \A r \in Rows : holder[r] = c => holder'[r] = c
      PROVE  Spares(c)
  <2>1. \A g \in Guilds : holder[g] = c =>
          wallets'.total[g] = wallets.total[g] /\ wallets'.reserved[g] = wallets.reserved[g]
    BY <1>1, <1>7, OthersMoney
  <2>2. \A d \in Auctions : holder[d] = c =>
          auction'[d] = auction[d] /\ \A e \in Bids : bid[e].auction = d => bid'[e] = bid[e]
    BY <1>2, <1>6
  <2>3. \A j \in Items : holder[j] = c =>
          item'[j] = item[j] /\ \A d \in Auctions : auction'[d].item = j => auction'[d] = auction[d]
    BY <1>2, <1>6
  <2> QED BY <1>1, <1>7, <2>1, <2>2, <2>3 DEF Spares
<1>8. Kept
  BY <1>1, <1>7, EndKeeps
<1> QED BY <1>2, <1>6, <1>8
-----------------------------------------------------------------------------
(* A commit of AuctionHouse stamps the auction with a time that has passed. *)
LEMMA UpdatedStep ==
  ASSUME TypeOK, UpdatedInPast, Next
  PROVE  UpdatedInPast'
<1>1. now \in Nat /\ auction \in [Auctions -> AuctionRow]
  BY DEF TypeOK, Time
<1>2. ASSUME NEW g \in Guilds, NEW i \in Items, NEW a \in Auctions, NEW t \in 0 .. now,
             CreateAuction(g, i, a, t)
      PROVE  UpdatedInPast'
  BY <1>1, <1>2 DEF CreateAuction, UpdatedInPast, AuctionRow
<1>3. ASSUME NEW a \in Auctions, NEW g \in Guilds, NEW x \in Amounts, NEW b \in Bids,
             NEW t \in 0 .. now, PlaceBid(a, g, x, b, t)
      PROVE  UpdatedInPast'
  <2>1. auction' = Led(a, b, t) /\ now' = now
    BY <1>3 DEF PlaceBid
  <2>2. \A c \in Auctions : auction'[c].updatedAt = IF c = a THEN t ELSE auction[c].updatedAt
    BY <1>1, <2>1 DEF Led, AuctionRow
  <2> QED BY <1>1, <2>1, <2>2 DEF UpdatedInPast
<1>4. ASSUME NEW a \in Auctions, NEW b \in Bids, NEW g \in Guilds, CancelBid(a, b, g)
      PROVE  UpdatedInPast'
  BY <1>4 DEF CancelBid, UpdatedInPast
<1>5. ASSUME NEW a \in Auctions, NEW t \in 0 .. now, SettleAuction(a, t)
      PROVE  UpdatedInPast'
  <2>1. now' = now /\ \E w : \/ auction' = [auction EXCEPT ![a].winner = w,
                                 ![a].status = "settled", ![a].updatedAt = t]
                             \/ auction' = [auction EXCEPT ![a].status = "settled", ![a].updatedAt = t]
    BY <1>5 DEF SettleAuction
  <2>2. \A c \in Auctions : auction'[c].updatedAt = IF c = a THEN t ELSE auction[c].updatedAt
    BY <1>1, <2>1 DEF AuctionRow
  <2> QED BY <1>1, <2>1, <2>2 DEF UpdatedInPast
<1>6. CASE Tick
  BY <1>1, <1>6 DEF Tick, UpdatedInPast, AuctionRow, Time
<1> QED BY <1>2, <1>3, <1>4, <1>5, <1>6 DEF Next

(* A step of AuctionHouse that keeps the sessions keeps the invariant. *)
LEMMA HouseKeeps ==
  ASSUME TxInv, Kept, [Next]_vars
  PROVE  TxInv'
<1>1. MarketInv'
  BY HouseStep DEF TxInv
<1>2. UpdatedInPast'
  <2>1. TypeOK /\ UpdatedInPast
    BY Tables DEF TxInv, CoreInv
  <2>2. CASE Next
    BY <2>1, <2>2, UpdatedStep
  <2>3. CASE UNCHANGED vars
    BY <2>1, <2>3 DEF UpdatedInPast, vars
  <2> QED BY <2>2, <2>3
<1> QED BY <1>1, <1>2 DEF TxInv, Kept

(* Nothing that a session does while the tables and its locks stay. *)
LEMMA IdleKeeps ==
  ASSUME TxInv, UNCHANGED <<vars, tx, holder>>
  PROVE  Kept /\ UNCHANGED vars
<1>1. \A c \in Sessions : Fits(c, tx[c], holder)'
  BY OthersKeep
<1> QED BY <1>1 DEF Kept, SessionsFit, SessionsTyped, TxInv

LEMMA ClockKeeps ==
  ASSUME TxInv, Clock
  PROVE  Kept /\ Next
<1>1. /\ Tick /\ UNCHANGED <<wallets, item, auction, bid, tx, holder>> /\ now' = now + 1
      /\ now \in Nat
  BY Tables DEF Clock, Tick, locks
<1>2. ASSUME NEW c \in Sessions PROVE Fits(c, tx[c], holder)'
  <2>1. Spares(c)
    BY <1>1 DEF Spares
  <2> QED BY <2>1, SparedSession
<1> QED BY <1>1, <1>2 DEF Kept, SessionsFit, SessionsTyped, TxInv, Next

(* A statement of a session is a step of AuctionHouse or changes no table. *)
LEMMA StatementSteps ==
  ASSUME TxInv, NEW s \in Sessions, Statement(s)
  PROVE  Kept /\ [Next]_vars
<1>0. now \in Nat /\ now \in 0 .. now
  BY Tables
<1>1. CASE LockAuctionForBid(s)
  BY <1>1, LockAuctionForBidKeeps
<1>2. CASE LockAuctionForCancel(s)
  BY <1>2, LockAuctionForCancelKeeps
<1>3. CASE LockAuctionForSettle(s)
  BY <1>3, LockAuctionForSettleKeeps
<1>4. CASE LockItemForSettle(s)
  BY <1>4, LockItemForSettleKeeps
<1>5. CASE LockItemForAuction(s)
  BY <1>5, LockItemForAuctionKeeps
<1>6. CASE Reserves(s)
  BY <1>6, ReservesKeeps
<1>7. CASE Releases(s)
  BY <1>7, ReleasesKeeps
<1>8. CASE Pays(s)
  BY <1>8, PaysKeeps
<1>9. CASE Credits(s)
  BY <1>9, CreditsKeeps
<1>10. ASSUME NEW a \in Auctions, CommitAuction(s, a)
       PROVE  Kept /\ [Next]_vars
  BY <1>10, CommitAuctionKeeps DEF Next
<1>11. ASSUME NEW b \in Bids, CommitBid(s, b)
       PROVE  Kept /\ [Next]_vars
  BY <1>11, CommitBidKeeps DEF Next
<1>12. CASE CommitCancel(s)
  BY <1>12, CommitCancelKeeps DEF Next
<1>13. CASE CommitSettlement(s)
  BY <1>0, <1>13, CommitSettlementKeeps DEF Next
<1> QED BY <1>1, <1>2, <1>3, <1>4, <1>5, <1>6, <1>7, <1>8, <1>9, <1>10, <1>11, <1>12, <1>13
        DEF Statement

LEMMA TxStep == TxInv /\ [TxNext]_txvars => TxInv' /\ [Next]_vars
<1> SUFFICES ASSUME TxInv, [TxNext]_txvars PROVE TxInv' /\ [Next]_vars
  OBVIOUS
<1> SUFFICES Kept /\ [Next]_vars
  BY HouseKeeps
<1>1. ASSUME NEW s \in Clients, Request(s) PROVE Kept /\ [Next]_vars
  BY <1>1, RequestKeeps DEF Sessions
<1>2. ASSUME NEW s \in Workers, Job(s) PROVE Kept /\ [Next]_vars
  BY <1>2, JobKeeps DEF Sessions
<1>3. ASSUME NEW s \in Sessions, Statement(s) PROVE Kept /\ [Next]_vars
  BY <1>3, StatementSteps
<1>4. ASSUME NEW s \in Sessions, Waits(s) PROVE Kept /\ [Next]_vars
  BY <1>4, IdleKeeps DEF Waits, WaitFor
<1>5. ASSUME NEW s \in Sessions, DeadlockVictim(s) \/ Fails(s) PROVE Kept /\ [Next]_vars
  BY <1>5, Quits DEF DeadlockVictim, Fails, RollsBack
<1>6. CASE Clock
  BY <1>6, ClockKeeps
<1>7. CASE UNCHANGED txvars
  BY <1>7, IdleKeeps DEF txvars, locks
<1> QED BY <1>1, <1>2, <1>3, <1>4, <1>5, <1>6, <1>7 DEF TxNext

LEMMA TxInitial == TxInit => TxInv /\ Init
<1> SUFFICES ASSUME TxInit PROVE TxInv /\ Init
  OBVIOUS
<1>1. Init /\ MarketInv
  BY HouseInitial DEF TxInit
<1>2. UpdatedInPast
  BY <1>1 DEF Init, UpdatedInPast, NoAuction
<1>3. tx = [s \in Sessions |-> NoTx] /\ SessionsTyped
  BY NoTxTyped DEF TxInit, LocksInit, SessionsTyped
<1>4. SessionsFit
  BY <1>3, NoTxFits DEF SessionsFit
<1> QED BY <1>1, <1>2, <1>3, <1>4 DEF TxInv
-----------------------------------------------------------------------------
(* The invariant says more than that no copy is stale. *)
LEMMA CopiesFresh == TxInv => NothingStale
<1> SUFFICES ASSUME TxInv, NEW s \in Sessions
             PROVE  /\ tx[s].auctionRow.status = "active" =>
                         auction[tx[s].auction] = tx[s].auctionRow
                    /\ tx[s].itemRow # Null => item[tx[s].item] = tx[s].itemRow
                    /\ tx[s].bidRow # NoBid =>
                         bid[IF tx[s].op = "cancel" THEN tx[s].bid
                             ELSE tx[s].auctionRow.highest] = tx[s].bidRow
                    /\ \A g \in tx[s].mine :
                         LET l == tx[s].w.ledger[g]
                         IN  /\ tx[s].w.total[g] - wallets.total[g] =
                                  l["credit_auction"] - l["debit_auction"]
                             /\ tx[s].w.reserved[g] - wallets.reserved[g] =
                                  l["reserve_bid"] - l["release_bid"] - l["debit_auction"]
  BY DEF NothingStale
<1> DEFINE t == tx[s]
<1>1. /\ Named(t) /\ AuctionHeld(s, t, holder) /\ ItemHeld(s, t, holder) /\ NoBidYet(t)
      /\ BidChecked(t) /\ CancelChecked(s, t, holder) /\ SettleChecked(t)
      /\ MoneyExact(s, t, holder) /\ t \in Tx /\ wallets \in WalletsType
  BY Tables DEF TxInv, SessionsFit, Fits
<1> HIDE DEF t
<1>2. t.auctionRow.status = "active" => auction[t.auction] = t.auctionRow
  BY <1>1 DEF AuctionHeld, NoAuction
<1>3. t.itemRow # Null => item[t.item] = t.itemRow
  BY <1>1 DEF ItemHeld
<1>4. t.bidRow # NoBid => bid[IF t.op = "cancel" THEN t.bid ELSE t.auctionRow.highest] = t.bidRow
  BY <1>1 DEF NoBidYet, BidChecked, CancelChecked, SettleChecked, Leader, Named, Stages, Tx
<1>5. ASSUME NEW g \in t.mine
      PROVE  LET l == t.w.ledger[g]
             IN  /\ t.w.total[g] - wallets.total[g] = l["credit_auction"] - l["debit_auction"]
                 /\ t.w.reserved[g] - wallets.reserved[g] =
                      l["reserve_bid"] - l["release_bid"] - l["debit_auction"]
  <2>1. g \in Guilds /\ \A k \in LedgerKinds : Note(t, g, k) \in Int /\ t.w.ledger[g][k] = Note(t, g, k)
    BY <1>1, NoteInt DEF MoneyExact, Payers
  <2>2. /\ "reserve_bid" \in LedgerKinds /\ "release_bid" \in LedgerKinds
        /\ "debit_auction" \in LedgerKinds /\ "credit_auction" \in LedgerKinds
    BY DEF LedgerKinds
  <2>3. /\ t.w.total[g] = wallets.total[g] + TotalMoved(t, g)
        /\ t.w.reserved[g] = wallets.reserved[g] + ReservedMoved(t, g)
        /\ wallets.total[g] \in Int /\ wallets.reserved[g] \in Int
    BY <1>1, <2>1 DEF MoneyExact, WalletsType
  <2> QED BY <2>1, <2>2, <2>3 DEF TotalMoved, ReservedMoved
<1> QED BY <1>2, <1>3, <1>4, <1>5 DEF t

(* The invariant of the concurrent sessions. *)
THEOREM SessionsInvariant == TxSpec => []TxInv
<1>1. TxInit => TxInv
  BY TxInitial
<1>2. TxInv /\ [TxNext]_txvars => TxInv'
  BY TxStep
<1> QED BY <1>1, <1>2, PTL DEF TxSpec

(* What a transaction of PlaceBid, CancelBid, SettleAuction or             *)
(* CreateAuction has read is what it finds when it commits: every          *)
(* read-modify-write of auction.go is covered by a row lock, whatever      *)
(* waits, fails or deadlocks in between.                                   *)
THEOREM NothingEverStale == TxSpec => []NothingStale
BY SessionsInvariant, CopiesFresh, PTL

(* The transactions of auction.go are serializable, although nothing asks  *)
(* the database for more than its default isolation level: whatever the    *)
(* sessions interleave, the committed tables go through a behaviour of     *)
(* AuctionHouse, in which each operation is one step.                      *)
THEOREM SessionsImplementAuctionHouse == TxSpec => ImplementsAuctionHouse
<1>1. TxInit => TxInv /\ Init
  BY TxInitial
<1>2. TxInv /\ [TxNext]_txvars => TxInv' /\ [Next]_vars
  BY TxStep
<1> QED BY <1>1, <1>2, PTL DEF TxSpec, ImplementsAuctionHouse, Spec

(* So what is proved of AuctionHouse holds of the concurrent sessions: no  *)
(* interleaving over-commits or loses money, leaves a reservation behind,  *)
(* sells an item twice or takes a bid too late.                            *)
THEOREM SessionsKeepMarket ==
  TxSpec => /\ []WalletSound /\ []ReservedBacked /\ []MoneyConserved /\ []LedgerReconciles
            /\ []ItemInOneAuction /\ []HighestIsMax /\ []NeverSettledEarly
            /\ AntiSnipe /\ RaisedByFivePercent /\ TransferWithPayment /\ PaidOnce
<1>1. TxSpec => Spec
  BY SessionsImplementAuctionHouse DEF ImplementsAuctionHouse
<1> QED BY <1>1, WalletsAlwaysSound, ReservedAlwaysBacked, MoneyAlwaysConserved,
        LedgerAlwaysReconciles, ItemsAlwaysInOneAuction, HighestAlwaysMax, NeverSettledBeforeEnd,
        AlwaysAntiSnipe, AlwaysRaisedByFivePercent, AlwaysTransferWithPayment, AlwaysPaidOnce
=============================================================================
