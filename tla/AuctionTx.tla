----------------------------- MODULE AuctionTx -----------------------------
(***************************************************************************)
(* The auction flow of internal/service/auction.go statement by statement: *)
(* concurrent sessions run the transactions of AuctionHouse, each one      *)
(* locking a row with SELECT ... FOR UPDATE before it copies it, computing *)
(* on its copies, and writing whole rows that the others see when it       *)
(* commits.  A transaction may wait for a lock, deadlock, fail or lose its *)
(* client between any two statements.                                      *)
(*                                                                         *)
(* Clients serve requests, which first resolve the item's auction without  *)
(* a lock; workers run the settlement job of worker/settlement.go.         *)
(*                                                                         *)
(* The tables are the variables of AuctionHouse and hold what is           *)
(* committed; Spec, the specification of AuctionHouse, is what TxSpec has  *)
(* to implement.                                                           *)
(***************************************************************************)
EXTENDS AuctionHouse, WalletCopies

CONSTANTS
  Clients,     \* sessions that serve requests
  Workers,     \* sessions of settlement workers
  MayFail      \* do statements fail?

Sessions == Clients \cup Workers

Rows == Auctions \cup Items \cup Guilds

ASSUME SessionsAssumption ==
  /\ Clients \cap Workers = {} /\ Null \notin Sessions /\ MayFail \in BOOLEAN
  /\ Auctions \cap Items = {} /\ Auctions \cap Guilds = {} /\ Items \cap Guilds = {}

VARIABLES
  holder,      \* of each row lock
  waiting,     \* for each row lock
  tx,          \* the transaction each session runs
  due          \* ids a worker has plucked and not looked at yet

INSTANCE RowLocks WITH Nobody <- Null

locks == <<holder, waiting>>

txvars == <<vars, locks, tx, due>>

tables == <<wallets, item, auction, bid>>

NoTx == [op |-> "none", next |-> "begin", item |-> Null, auction |-> Null, guild |-> Null,
         amount |-> 0, bid |-> Null, at |-> 0, mine |-> {}, w |-> NoWallets,
         itemRow |-> Null, auctionRow |-> NoAuction, bidRow |-> NoBid]

Tx == [op : {"none", "open", "bid", "cancel", "settle"},
       next : {"begin", "auction", "item", "reserve", "release", "pay", "credit", "commit"},
       item : Items \cup {Null}, auction : Auctions \cup {Null}, guild : Guilds \cup {Null},
       amount : Int, bid : Bids \cup {Null}, at : Time, mine : SUBSET Guilds, w : WalletsType,
       itemRow : ItemRow \cup {Null}, auctionRow : AuctionRow, bidRow : BidRow]

TxTypeOK ==
  /\ LocksTypeOK
  /\ tx \in [Sessions -> Tx]
  /\ due \in [Workers -> SUBSET Auctions]
  /\ \A r \in Rows : holder[r] # Null => tx[holder[r]].op # "none"

TxInit ==
  /\ Init
  /\ LocksInit
  /\ tx = [s \in Sessions |-> NoTx]
  /\ due = [s \in Workers |-> {}]
-----------------------------------------------------------------------------
At(s, op, next) == tx[s].op = op /\ tx[s].next = next

Starts(s, request) ==
  /\ tx[s] = NoTx
  /\ tx' = [tx EXCEPT ![s] = request]
  /\ UNCHANGED <<vars, locks>>

Ends(s) ==
  /\ tx' = [tx EXCEPT ![s] = NoTx]
  /\ ReleaseLocks(s)

Proceeds(s, row, changed) ==
  /\ tx' = [tx EXCEPT ![s] = changed]
  /\ Lock(s, row)

(* An error of the service: nothing was written.  It ends SettleDue, so    *)
(* that the ids after it wait for the next round.                          *)
RollsBack(s) ==
  /\ Ends(s)
  /\ due' = [u \in Workers |-> IF u = s THEN {} ELSE due[u]]
  /\ UNCHANGED vars
-----------------------------------------------------------------------------
(* The bound on ids: a request finds one left for its new row. *)
IdLeft(op, ids) == Cardinality({s \in Sessions : tx[s].op = op}) < Cardinality(ids)

(* ActiveAuctionByItem, outside the transaction: with no active auction    *)
(* the request is rejected and nothing starts.                             *)
Resolves(i, a) == auction[a].status = "active" /\ auction[a].item = i

RequestBid(s, i, a, g, amount) ==
  /\ Resolves(i, a)
  /\ IdLeft("bid", {b \in Bids : bid[b].status = "absent"})
  /\ Starts(s, [NoTx EXCEPT !.op = "bid", !.next = "auction", !.auction = a,
                            !.guild = g, !.amount = amount])
  /\ UNCHANGED due

RequestCancel(s, i, a, b, g) ==
  /\ Resolves(i, a)
  /\ Starts(s, [NoTx EXCEPT !.op = "cancel", !.next = "auction", !.auction = a,
                            !.guild = g, !.bid = b])
  /\ UNCHANGED due

RequestAuction(s, i, g) ==
  /\ IdLeft("open", {a \in Auctions : auction[a].status = "absent"})
  /\ Starts(s, [NoTx EXCEPT !.op = "open", !.next = "item", !.item = i, !.guild = g])
  /\ UNCHANGED due

(* Fault: auctions without a bid are not plucked. *)
DueWithBids ==
  {a \in Auctions : auction[a].status = "active" /\ auction[a].endsAt <= now
                    /\ auction[a].highest # Null}

(* The select of SettleDue. *)
DueAuctions == {a \in Auctions : auction[a].status = "active" /\ auction[a].endsAt <= now}

(* SettleDue plucks the due ids without a lock, then settles them in turn, *)
(* each in a transaction of its own; the ids may be stale by then.         *)
SettleDue(s) ==
  /\ tx[s] = NoTx /\ due[s] = {}
  /\ DueAuctions # {}
  /\ due' = [due EXCEPT ![s] = DueAuctions]
  /\ UNCHANGED <<vars, locks, tx>>

SettleNext(s, a) ==
  /\ a \in due[s]
  /\ Starts(s, [NoTx EXCEPT !.op = "settle", !.next = "auction", !.auction = a])
  /\ due' = [due EXCEPT ![s] = @ \ {a}]
-----------------------------------------------------------------------------
(* Fault: the auction row is read without taking its lock. *)
LockAuctionForBidUnlocked(s) ==
  /\ At(s, "bid", "auction")
  /\ LET row == auction[tx[s].auction]
         prev == IF row.highest = Null THEN NoBid ELSE bid[row.highest]
     IN  IF /\ row.status = "active"
            /\ ~AuctionEnded(now, row.endsAt)
            /\ EnsureNotSelfBid(row.seller, tx[s].guild)
            /\ EnsureBidBeatsCurrent(prev.amount, tx[s].amount)
         THEN /\ tx' = [tx EXCEPT ![s] = [@ EXCEPT !.next = "reserve", !.at = now,
                                             !.auctionRow = row, !.bidRow = prev]]
              /\ UNCHANGED <<vars, locks, due>>
         ELSE RollsBack(s)

LockAuctionForBid(s) ==
  /\ At(s, "bid", "auction")
  /\ CanLock(s, tx[s].auction)
  /\ LET row == auction[tx[s].auction]
         prev == IF row.highest = Null THEN NoBid ELSE bid[row.highest]
     IN  IF /\ row.status = "active"
            /\ ~AuctionEnded(now, row.endsAt)
            /\ EnsureNotSelfBid(row.seller, tx[s].guild)
            /\ EnsureBidBeatsCurrent(prev.amount, tx[s].amount)
         THEN /\ Proceeds(s, tx[s].auction,
                   [tx[s] EXCEPT !.next = "reserve", !.at = now,
                                 !.auctionRow = row, !.bidRow = prev])
              /\ UNCHANGED <<vars, due>>
         ELSE RollsBack(s)

LockAuctionForCancel(s) ==
  /\ At(s, "cancel", "auction")
  /\ CanLock(s, tx[s].auction)
  /\ LET row == auction[tx[s].auction]
         own == bid[tx[s].bid]
     IN  IF /\ row.status = "active"
            /\ own.auction = tx[s].auction /\ own.bidder = tx[s].guild
            /\ EnsureCanCancelBid(row.highest = tx[s].bid)
         THEN /\ Proceeds(s, tx[s].auction,
                   [tx[s] EXCEPT !.next = IF own.status = "active" THEN "release" ELSE "commit",
                                 !.bidRow = own])
              /\ UNCHANGED <<vars, due>>
         ELSE RollsBack(s)

(* An auction that another session has settled or extended since is left   *)
(* alone, which is no error.                                               *)
LockAuctionForSettle(s) ==
  /\ At(s, "settle", "auction")
  /\ CanLock(s, tx[s].auction)
  /\ LET row == auction[tx[s].auction]
     IN  IF row.status = "active" /\ AuctionEnded(now, row.endsAt)
         THEN Proceeds(s, tx[s].auction,
                [tx[s] EXCEPT !.next = "item", !.item = row.item, !.auctionRow = row])
         ELSE Ends(s)
  /\ UNCHANGED <<vars, due>>

LockItemForSettle(s) ==
  /\ At(s, "settle", "item")
  /\ CanLock(s, tx[s].item)
  /\ LET win == tx[s].auctionRow.highest
     IN  Proceeds(s, tx[s].item,
           [tx[s] EXCEPT !.next = IF win = Null THEN "commit" ELSE "pay",
                         !.itemRow = item[tx[s].item],
                         !.bidRow = IF win = Null THEN NoBid ELSE bid[win]])
  /\ UNCHANGED <<vars, due>>

LockItemForAuction(s) ==
  /\ At(s, "open", "item")
  /\ CanLock(s, tx[s].item)
  /\ LET row == item[tx[s].item]
     IN  IF row.owner = tx[s].guild /\ Tier[tx[s].item] = "legendary" /\ row.status = "available"
         THEN /\ Proceeds(s, tx[s].item,
                   [tx[s] EXCEPT !.next = "commit", !.at = now, !.itemRow = row])
              /\ UNCHANGED <<vars, due>>
         ELSE RollsBack(s)
-----------------------------------------------------------------------------
Reserves(s) ==
  /\ At(s, "bid", "reserve")
  /\ LET g == tx[s].guild
         w == Seen(tx[s], g)
         amount == tx[s].amount
     IN  /\ CanLock(s, g)
         /\ IF CanReserve(w, g, amount)
            THEN /\ Proceeds(s, g, [tx[s] EXCEPT !.w = Reserve(w, g, amount, "reserve_bid"),
                   !.mine = @ \cup {g},
                   !.next = IF tx[s].auctionRow.highest = Null THEN "commit" ELSE "release"])
                 /\ UNCHANGED <<vars, due>>
            ELSE RollsBack(s)

(* The outbid leader's money in PlaceBid, the bidder's own in CancelBid. *)
Releases(s) ==
  /\ tx[s].next = "release"
  /\ LET g == tx[s].bidRow.bidder
         w == Seen(tx[s], g)
         amount == tx[s].bidRow.amount
     IN  /\ CanLock(s, g)
         /\ IF CanRelease(w, g, amount)
            THEN /\ Proceeds(s, g, [tx[s] EXCEPT !.w = Release(w, g, amount, "release_bid"),
                                                 !.mine = @ \cup {g}, !.next = "commit"])
                 /\ UNCHANGED <<vars, due>>
            ELSE RollsBack(s)

Pays(s) ==
  /\ At(s, "settle", "pay")
  /\ LET g == tx[s].bidRow.bidder
         w == Seen(tx[s], g)
         amount == tx[s].bidRow.amount
     IN  /\ CanLock(s, g)
         /\ IF CanSettleReserved(w, g, amount)
            THEN /\ Proceeds(s, g, [tx[s] EXCEPT !.mine = @ \cup {g}, !.next = "credit",
                      !.w = SettleReserved(w, g, amount, "debit_auction")])
                 /\ UNCHANGED <<vars, due>>
            ELSE RollsBack(s)

Credits(s) ==
  /\ At(s, "settle", "credit")
  /\ LET g == tx[s].auctionRow.seller
         w == Seen(tx[s], g)
         amount == tx[s].bidRow.amount
     IN  /\ CanLock(s, g)
         /\ IF CanCredit(amount)
            THEN /\ Proceeds(s, g, [tx[s] EXCEPT !.mine = @ \cup {g}, !.next = "commit",
                      !.w = Credit(w, g, amount, "credit_auction")])
                 /\ UNCHANGED <<vars, due>>
            ELSE RollsBack(s)
-----------------------------------------------------------------------------
CommitAuction(s, a) ==
  /\ At(s, "open", "commit")
  /\ auction[a].status = "absent"
  /\ auction' = [auction EXCEPT ![a] =
       [item |-> tx[s].item, seller |-> tx[s].guild, status |-> "active",
        endsAt |-> tx[s].at + Window, highest |-> Null, winner |-> Null, updatedAt |-> tx[s].at]]
  /\ item' = [item EXCEPT ![tx[s].item] = [tx[s].itemRow EXCEPT !.status = "in_auction"]]
  /\ Ends(s)
  /\ UNCHANGED <<now, wallets, bid, due>>

CommitBid(s, b) ==
  /\ At(s, "bid", "commit")
  /\ bid[b].status = "absent"
  /\ LET row == tx[s].auctionRow
         new == NewBid(tx[s].auction, tx[s].guild, tx[s].amount)
     IN  /\ bid' = [c \in Bids |-> CASE c = b -> new
                                     [] c = row.highest -> [tx[s].bidRow EXCEPT !.status = "released"]
                                     [] OTHER -> bid[c]]
         /\ auction' = [auction EXCEPT ![tx[s].auction] =
              [row EXCEPT !.highest = b, !.updatedAt = tx[s].at,
                          !.endsAt = MaybeExtend(tx[s].at, @, Extension, Extension)]]
  /\ wallets' = Written(tx[s])
  /\ Ends(s)
  /\ UNCHANGED <<now, item, due>>

CommitCancel(s) ==
  /\ At(s, "cancel", "commit")
  /\ bid' = [bid EXCEPT ![tx[s].bid] = [tx[s].bidRow EXCEPT !.status = "cancelled"]]
  /\ wallets' = Written(tx[s])
  /\ Ends(s)
  /\ UNCHANGED <<now, item, auction, due>>

CommitSettlement(s) ==
  /\ At(s, "settle", "commit")
  /\ LET row == tx[s].auctionRow
         closed == [row EXCEPT !.status = "settled", !.updatedAt = now]
     IN  \/ /\ row.highest # Null
            /\ item' = [item EXCEPT ![row.item] =
                 [owner |-> tx[s].bidRow.bidder, status |-> "available"]]
            /\ bid' = [bid EXCEPT ![row.highest] = [tx[s].bidRow EXCEPT !.status = "won"]]
            /\ auction' = [auction EXCEPT ![tx[s].auction] =
                 [closed EXCEPT !.winner = tx[s].bidRow.bidder]]
         \/ /\ row.highest = Null
            /\ item' = [item EXCEPT ![row.item] = [tx[s].itemRow EXCEPT !.status = "available"]]
            /\ auction' = [auction EXCEPT ![tx[s].auction] = closed]
            /\ UNCHANGED bid
  /\ wallets' = Written(tx[s])
  /\ Ends(s)
  /\ UNCHANGED <<now, due>>
-----------------------------------------------------------------------------
(* A statement fails, the client disconnects or the process dies. *)
Fails(s) ==
  /\ MayFail
  /\ tx[s].op # "none"
  /\ RollsBack(s)

(* The row the next statement of a session locks. *)
Wants(s) ==
  CASE tx[s].next = "auction" -> tx[s].auction
    [] tx[s].next = "item"    -> tx[s].item
    [] tx[s].next = "reserve" -> tx[s].guild
    [] tx[s].next \in {"release", "pay"} -> tx[s].bidRow.bidder
    [] tx[s].next = "credit"  -> tx[s].auctionRow.seller
    [] OTHER -> Null

(* The row is another's: the session queues for it. *)
Waits(s) ==
  /\ Wants(s) # Null
  /\ WaitFor(s, Wants(s))
  /\ UNCHANGED <<vars, tx, due>>

(* The server aborts a transaction of a deadlock. *)
DeadlockVictim(s) ==
  /\ Deadlocked(s)
  /\ RollsBack(s)

Statement(s) ==
  \/ LockAuctionForBid(s) \/ LockAuctionForCancel(s) \/ LockAuctionForSettle(s)
  \/ LockItemForSettle(s) \/ LockItemForAuction(s)
  \/ Reserves(s) \/ Releases(s) \/ Pays(s) \/ Credits(s)
  \/ \E a \in Auctions : CommitAuction(s, a)
  \/ \E b \in Bids : CommitBid(s, b)
  \/ CommitCancel(s) \/ CommitSettlement(s)

Job(s) == SettleDue(s) \/ \E a \in Auctions : SettleNext(s, a)

Request(s) ==
  \/ \E i \in Items, a \in Auctions, g \in Guilds, x \in Amounts : RequestBid(s, i, a, g, x)
  \/ \E i \in Items, a \in Auctions, b \in Bids, g \in Guilds : RequestCancel(s, i, a, b, g)
  \/ \E i \in Items, g \in Guilds : RequestAuction(s, i, g)

Clock == Tick /\ UNCHANGED <<locks, tx, due>>

TxNext ==
  \/ \E s \in Clients : Request(s)
  \/ \E s \in Workers : Job(s)
  \/ \E s \in Sessions : Statement(s) \/ Waits(s) \/ DeadlockVictim(s) \/ Fails(s)
  \/ Clock

TxSpec == TxInit /\ [][TxNext]_txvars

(* A session that can run its next statement runs it, the server breaks    *)
(* deadlocks, the ticker of a worker never stops, and time goes on.        *)
FairTxSpec ==
  /\ TxSpec
  /\ \A s \in Sessions : WF_txvars(Statement(s) \/ Waits(s) \/ DeadlockVictim(s))
  /\ \A s \in Workers : WF_txvars(Job(s))
  /\ WF_txvars(Clock)
-----------------------------------------------------------------------------
(* What the concurrent sessions commit is what AuctionHouse does in whole  *)
(* steps, one commit a step: no interleaving of locks, copies, whole-row   *)
(* writes, failures and deadlocks loses or doubles an update, or lets a    *)
(* check pass on a row that has changed since.  All that is checked and    *)
(* proved of AuctionHouse then holds of the committed tables.              *)
ImplementsAuctionHouse == Spec

(* A transaction's copy of a row is the committed row for as long as it    *)
(* runs, the money it has moved itself apart: what it checked still holds  *)
(* when it commits.                                                        *)
NothingStale ==
  \A s \in Sessions :
    /\ tx[s].auctionRow.status = "active" => auction[tx[s].auction] = tx[s].auctionRow
    /\ tx[s].itemRow # Null => item[tx[s].item] = tx[s].itemRow
    /\ tx[s].bidRow # NoBid =>
         bid[IF tx[s].op = "cancel" THEN tx[s].bid ELSE tx[s].auctionRow.highest] = tx[s].bidRow
    /\ \A g \in tx[s].mine :
         LET l == tx[s].w.ledger[g]
         IN  /\ tx[s].w.total[g] - wallets.total[g] = l["credit_auction"] - l["debit_auction"]
             /\ tx[s].w.reserved[g] - wallets.reserved[g] =
                  l["reserve_bid"] - l["release_bid"] - l["debit_auction"]

(* Every auction that has ended is settled, whatever the other sessions    *)
(* lock in the meantime, although a failed settlement makes the worker     *)
(* drop the rest of its round, and although a bid that read the clock in   *)
(* time may still give it a later end (unless that is out of the bound).   *)
DueSettled ==
  \A a \in Auctions :
    (auction[a].status = "active" /\ auction[a].endsAt <= now) ~>
      (auction[a].status = "settled" \/ auction[a].endsAt > MaxTime)
=============================================================================
