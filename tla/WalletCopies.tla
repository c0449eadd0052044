---------------------------- MODULE WalletCopies ----------------------------
(***************************************************************************)
(* The wallet rows a transaction has read and not yet committed            *)
(* (internal/service/wallet.go: withWalletTx, saveAndRecord).  A           *)
(* transaction t keeps its own version t.w of the rows of the guilds in    *)
(* t.mine and the ledger rows it adds, counted from 0.                     *)
(***************************************************************************)
EXTENDS Wallets

NoWallets ==
  [total    |-> [g \in Guilds |-> 0],
   reserved |-> [g \in Guilds |-> 0],
   ledger   |-> [g \in Guilds |-> [k \in LedgerKinds |-> 0]]]

(* Fault: the row is read outside the transaction.                         *)
SeenOutside(t, g) ==
  [t.w EXCEPT !.total[g] = wallets.total[g], !.reserved[g] = wallets.reserved[g]]

(* The wallets as the transaction sees them: the committed row, or what it *)
(* has written to it.                                                      *)
Seen(t, g) ==
  IF g \in t.mine THEN t.w
  ELSE [t.w EXCEPT !.total[g] = wallets.total[g], !.reserved[g] = wallets.reserved[g]]

(* What its commit leaves: wallet rows are written whole, ledger rows are  *)
(* added.                                                                  *)
Written(t) ==
  [total    |-> [g \in Guilds |-> IF g \in t.mine THEN t.w.total[g] ELSE wallets.total[g]],
   reserved |-> [g \in Guilds |-> IF g \in t.mine THEN t.w.reserved[g] ELSE wallets.reserved[g]],
   ledger   |-> [g \in Guilds |-> [k \in LedgerKinds |->
                   wallets.ledger[g][k] + t.w.ledger[g][k]]]]
=============================================================================
