------------------------------- MODULE BuyTx -------------------------------
(***************************************************************************)
(* The fixed-price flow of internal/service/listing.go statement by        *)
(* statement: sessions that buy items while others are listed.  A          *)
(* purchase resolves the item's open listing without a lock, then locks    *)
(* the listing, the item, the buyer's wallet and the seller's wallet, in   *)
(* this order, checks what it reads under each lock, and writes whole rows *)
(* when it commits.  A session may wait for a lock, deadlock, fail or lose *)
(* its client between any two statements.                                  *)
(*                                                                         *)
(* The tables are the variables of Listings and hold what is committed;    *)
(* ListingsSpec is what BuySpec has to implement.                          *)
(***************************************************************************)
EXTENDS Listings, WalletCopies

CONSTANTS
  Sessions,    \* database sessions that serve purchases
  MayFail      \* do statements fail?

(* The rows that are locked, named by their table and id.                  *)
ListingLock(l) == <<"listing", l>>
ItemLock(i) == <<"item", i>>
WalletLock(g) == <<"wallet", g>>

Rows == {ListingLock(l) : l \in ListingIds} \cup {ItemLock(i) : i \in Goods}
        \cup {WalletLock(g) : g \in Guilds}

ASSUME SessionsAssumption ==
  /\ ListingIds \subseteq Nat /\ Null \notin Sessions \cup ListingIds /\ MayFail \in BOOLEAN

VARIABLES
  holder,      \* of each row lock
  waiting,     \* for each row lock
  tx           \* the transaction each session runs

INSTANCE RowLocks WITH Nobody <- Null

locks == <<holder, waiting>>

buyvars == <<lvars, locks, tx>>

NoTx == [next |-> "begin", guild |-> Null, listing |-> Null, item |-> Null,
         price |-> 0, at |-> 0, listingRow |-> NoListing, itemRow |-> NoGood,
         mine |-> {}, w |-> NoWallets]

BuyInit ==
  /\ ListingsInit
  /\ LocksInit
  /\ tx = [s \in Sessions |-> NoTx]
-----------------------------------------------------------------------------
At(s, next) == tx[s].next = next

Starts(s, request) ==
  /\ tx[s] = NoTx
  /\ tx' = [tx EXCEPT ![s] = request]
  /\ UNCHANGED <<lvars, locks>>

Proceeds(s, row, changed) ==
  /\ CanLock(s, row)
  /\ Lock(s, row)
  /\ tx' = [tx EXCEPT ![s] = changed]
  /\ UNCHANGED lvars

(* Fault: a transaction ends and keeps its locks.                          *)
EndsLocked(s) ==
  /\ tx' = [tx EXCEPT ![s] = NoTx]
  /\ UNCHANGED locks

Ends(s) ==
  /\ tx' = [tx EXCEPT ![s] = NoTx]
  /\ ReleaseLocks(s)

(* An error of the service: nothing was written.                           *)
RollsBack(s) == Ends(s) /\ UNCHANGED lvars

(* A statement that locks a row and checks it: the session goes on as      *)
(* changed, or ends with an error.                                         *)
Checks(s, row, ok, changed) ==
  /\ CanLock(s, row)
  /\ IF ok THEN Proceeds(s, row, changed) ELSE RollsBack(s)
-----------------------------------------------------------------------------
(* OpenListingByItem: the open listing of the item with the highest id.    *)
OpenListings(i) == {l \in ListingIds : listing[l].status = "open" /\ listing[l].item = i}

OpenListingByItem(i) == CHOOSE l \in OpenListings(i) : \A k \in OpenListings(i) : k <= l

(* The listing is resolved outside the transaction; without one the        *)
(* request is rejected and nothing starts.                                 *)
BuyByItem(s, g, i) ==
  /\ OpenListings(i) # {}
  /\ Starts(s, [NoTx EXCEPT !.next = "listing", !.guild = g,
                            !.listing = OpenListingByItem(i)])

(* Listing an item locks one row, the item's, from its only check to its   *)
(* commit: one step while nobody holds that lock.  Ids come from a         *)
(* sequence: each new listing has the next one.                            *)
Lists(g, i, p) ==
  /\ holder[ItemLock(i)] = Null
  /\ \E l \in ListingIds :
       /\ \A k \in ListingIds : k < l => listing[k].status # "absent"
       /\ CreateListing(g, i, p, l)
  /\ UNCHANGED <<locks, tx>>
-----------------------------------------------------------------------------
LockListing(s) ==
  /\ At(s, "listing")
  /\ LET row == listing[tx[s].listing]
     IN  Checks(s, ListingLock(tx[s].listing),
                row.status = "open" /\ row.seller # tx[s].guild,
                [tx[s] EXCEPT !.next = "item", !.item = row.item, !.price = row.price,
                              !.listingRow = row])

LockItem(s) ==
  /\ At(s, "item")
  /\ LET row == good[tx[s].item]
     IN  Checks(s, ItemLock(tx[s].item), row.stock >= 1,
                [tx[s] EXCEPT !.next = "buyer", !.itemRow = row])

(* Fault: the day's total is read beside the lock of the buyer's wallet.   *)
LockBuyerUnlocked(s) ==
  /\ At(s, "buyer")
  /\ IF EnsureWithinDailyCap(Cap[tx[s].guild], spent[tx[s].guild][Day[now]], tx[s].price)
     THEN /\ tx' = [tx EXCEPT ![s].next = "debit", ![s].at = now]
          /\ UNCHANGED <<lvars, locks>>
     ELSE RollsBack(s)

(* The buyer's wallet is locked before the day's total is read.            *)
LockBuyer(s) ==
  /\ At(s, "buyer")
  /\ Checks(s, WalletLock(tx[s].guild),
            EnsureWithinDailyCap(Cap[tx[s].guild], spent[tx[s].guild][Day[now]], tx[s].price),
            [tx[s] EXCEPT !.next = "debit", !.at = now])

DebitBuyer(s) ==
  /\ At(s, "debit")
  /\ LET g == tx[s].guild
         w == Seen(tx[s], g)
     IN  Checks(s, WalletLock(g), CanDebit(w, g, tx[s].price),
                [tx[s] EXCEPT !.next = "credit", !.mine = @ \cup {g},
                              !.w = Debit(w, g, tx[s].price, "debit_listing")])

CreditSeller(s) ==
  /\ At(s, "credit")
  /\ LET g == tx[s].listingRow.seller
         w == Seen(tx[s], g)
     IN  Checks(s, WalletLock(g), CanCredit(tx[s].price),
                [tx[s] EXCEPT !.next = "commit", !.mine = @ \cup {g},
                              !.w = Credit(w, g, tx[s].price, "credit_listing")])

(* Item rows are saved whole, the buyer's unit is a new row, the day's     *)
(* total is added to by the database.  The insert may find its id taken,   *)
(* the upsert overflow, or the commit fail: the id is spent all the same.  *)
CommitPurchase(s) ==
  /\ At(s, "commit")
  /\ TakesId
  /\ LET t == tx[s]
         g == t.guild
     IN  \E u, sold \in t.at .. now :
           /\ u <= sold
           /\ \/ /\ CanInsert /\ CanAddDailySpent(g, Day[u], t.price)
                 /\ wallets' = Written(t)
                 /\ good' = [good EXCEPT
                      ![t.item] = [t.itemRow EXCEPT !.stock = @ - 1,
                                     !.status = IF t.itemRow.stock = 1 THEN "sold" ELSE @],
                      ![NextId] = NewGood(t.itemRow.product, t.itemRow.tier, g, 1)]
                 /\ spent' = AddDailySpent(g, Day[u], t.price)
                 /\ listing' = [listing EXCEPT ![t.listing] =
                      [t.listingRow EXCEPT !.status = "sold", !.buyer = g, !.soldAt = sold]]
              \/ /\ MayFail \/ ~CanInsert \/ ~CanAddDailySpent(g, Day[u], t.price)
                 /\ UNCHANGED <<wallets, good, spent, listing>>
  /\ Ends(s)
  /\ UNCHANGED now
-----------------------------------------------------------------------------
(* A statement fails, the client disconnects or the process dies.          *)
Fails(s) ==
  /\ MayFail
  /\ tx[s] # NoTx
  /\ RollsBack(s)

(* The row the next statement of a session locks.                          *)
Wants(s) ==
  CASE tx[s].next = "listing" -> ListingLock(tx[s].listing)
    [] tx[s].next = "item"    -> ItemLock(tx[s].item)
    [] tx[s].next \in {"buyer", "debit"} -> WalletLock(tx[s].guild)
    [] tx[s].next = "credit"  -> WalletLock(tx[s].listingRow.seller)
    [] OTHER -> Null

Waits(s) ==
  /\ tx[s].next \notin {"begin", "commit"}
  /\ WaitFor(s, Wants(s))
  /\ UNCHANGED <<lvars, tx>>

DeadlockVictim(s) ==
  /\ Deadlocked(s)
  /\ RollsBack(s)

Statement(s) ==
  \/ LockListing(s) \/ LockItem(s) \/ LockBuyer(s) \/ DebitBuyer(s) \/ CreditSeller(s)
  \/ CommitPurchase(s)

Request(s) == \E g \in Guilds, i \in Goods : BuyByItem(s, g, i)

(* Registering and seeding lock no row: one step each.                     *)
Registers ==
  /\ \/ Seed
     \/ \E g \in Guilds, p \in Products, tier \in NewTiers, n \in Stocks : CreateItem(g, p, tier, n)
  /\ UNCHANGED <<locks, tx>>

Clock == ClockTick /\ UNCHANGED <<locks, tx>>

BuyNext ==
  \/ \E s \in Sessions : Request(s) \/ Statement(s) \/ Waits(s) \/ DeadlockVictim(s) \/ Fails(s)
  \/ \E g \in Guilds, i \in Goods, p \in Prices : Lists(g, i, p)
  \/ Registers
  \/ Clock

(* A session that can run its next statement runs it, and the server       *)
(* breaks deadlocks.                                                       *)
BuySpec ==
  /\ BuyInit /\ [][BuyNext]_buyvars
  /\ \A s \in Sessions : WF_buyvars(Statement(s) \/ Waits(s) \/ DeadlockVictim(s))
-----------------------------------------------------------------------------
(* What concurrent sessions commit is what Listings does in whole steps:   *)
(* no interleaving sells a listing twice or a unit that is gone, lets two  *)
(* purchases of one buyer pass the cap or the balance together, or buys    *)
(* anything but an open listing although it was resolved without a lock.   *)
(* All that is checked of Listings then holds of the committed tables.     *)
ImplementsListings == ListingsSpec

(* Every request ends, although guilds that buy from each other lock each  *)
(* other's wallets crosswise, unless ids run out under it.                 *)
RequestsEnd ==
  \A s \in Sessions :
    tx[s] # NoTx ~> (tx[s] = NoTx \/ seq = MaxItems)
=============================================================================
