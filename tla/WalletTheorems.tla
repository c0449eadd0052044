--------------------------- MODULE WalletTheorems ---------------------------
(***************************************************************************)
(* Facts about the business rules and the wallet movements, for every      *)
(* width of the integers, and about SumFunctionOnSet of the community      *)
(* modules: what a sum over the rows of a table does when one row changes. *)
(***************************************************************************)
EXTENDS Wallets, Functions, FiniteSets, FiniteSetTheorems, TLAPS

(* A result that fits the width does not wrap. *)
LEMMA WrapInRange ==
  ASSUME NEW x \in Int, -Half <= x, x < Half
  PROVE  Wrap(x) = x
  BY HalfAssumption DEF Wrap

(* MinNextBid is the exact ceiling of current + 5% as long as the product  *)
(* fits an int64: beating it is beating the leader by 5%.                  *)
THEOREM MinNextBidExact ==
  ASSUME NEW current \in Nat, 105 * current + 99 < Half, NEW amount \in Int
  PROVE  amount >= MinNextBid(current) <=> 100 * amount >= 105 * current
<1> DEFINE n == 105 * current + 99
<1>1. n \in Nat /\ n < Half
  OBVIOUS
<1>2. Wrap(current * (100 + BidIncrementPercent)) = 105 * current
  <2>1. current * (100 + BidIncrementPercent) = 105 * current
    BY DEF BidIncrementPercent
  <2>2. 105 * current \in Int /\ -Half <= 105 * current /\ 105 * current < Half
    BY HalfAssumption
  <2> QED BY <2>1, <2>2, WrapInRange
<1>3. Wrap(105 * current + 99) = n
  BY <1>1, HalfAssumption, WrapInRange
<1>4. MinNextBid(current) = n \div 100
  BY <1>1, <1>2, <1>3 DEF MinNextBid, Quotient
<1>5. n \div 100 \in Int /\ 100 * (n \div 100) <= n /\ n < 100 * (n \div 100) + 100
  BY <1>1
<1> QED BY <1>4, <1>5

(* A bid taken before the end leaves at least `extension` on the clock, and *)
(* the end never moves backwards.                                           *)
THEOREM MaybeExtendBounds ==
  ASSUME NEW now \in Nat, NEW endsAt \in Nat, NEW extension \in Nat
  PROVE  LET e == MaybeExtend(now, endsAt, extension, extension)
         IN  /\ e \in Nat
             /\ e >= endsAt
             /\ e >= now + extension
             /\ e \in {endsAt, now + extension}
  BY DEF MaybeExtend

(* What a wallet must look like for int64 arithmetic on it to be exact. *)
RowSound(w, g) ==
  0 <= w.reserved[g] /\ w.reserved[g] <= w.total[g] /\ w.total[g] < Half

(* Recording a movement changes one entry of the ledger. *)
LEMMA RecordedType ==
  ASSUME NEW w \in WalletsType, NEW g \in Guilds, NEW k \in LedgerKinds, NEW x \in Nat
  PROVE  /\ Recorded(w, g, k, x) \in [Guilds -> [LedgerKinds -> Nat]]
         /\ \A h \in Guilds, j \in LedgerKinds :
              Recorded(w, g, k, x)[h][j] =
                IF h = g /\ j = k THEN w.ledger[h][j] + x ELSE w.ledger[h][j]
  BY DEF Recorded, WalletsType

(* The same, of a ledger known to be the recorded one. *)
LEMMA LedgerAfter ==
  ASSUME NEW w \in WalletsType, NEW g \in Guilds, NEW k \in LedgerKinds, NEW x \in Nat,
         NEW l, l = Recorded(w, g, k, x)
  PROVE  \A h \in Guilds, j \in LedgerKinds :
           l[h][j] = IF h = g /\ j = k THEN w.ledger[h][j] + x ELSE w.ledger[h][j]
  BY RecordedType

(* ReserveTx of a sound wallet is exact and keeps reserved <= total. *)
LEMMA ReserveExact ==
  ASSUME NEW w \in WalletsType, NEW g \in Guilds, NEW k \in LedgerKinds,
         NEW x \in Int, RowSound(w, g), CanReserve(w, g, x)
  PROVE  LET v == Reserve(w, g, x, k)
         IN  /\ v \in WalletsType
             /\ v.total = w.total
             /\ v.reserved = [w.reserved EXCEPT ![g] = w.reserved[g] + x]
             /\ v.ledger = Recorded(w, g, k, x)
             /\ x > 0 /\ w.reserved[g] + x <= w.total[g]
<1>1. w.total[g] \in Int /\ w.reserved[g] \in Int /\ w.total \in [Guilds -> Int]
      /\ w.reserved \in [Guilds -> Int]
  BY DEF WalletsType
<1>2. AvailableBalance(w.total[g], w.reserved[g]) = w.total[g] - w.reserved[g]
  BY <1>1, WrapInRange, HalfAssumption DEF AvailableBalance, RowSound
<1>3. x > 0 /\ w.reserved[g] + x <= w.total[g]
  BY <1>1, <1>2 DEF CanReserve, EnsureCanReserve, EnsureSufficientAvailable, EnsurePositive
<1>4. Wrap(w.reserved[g] + x) = w.reserved[g] + x
  BY <1>1, <1>3, WrapInRange, HalfAssumption DEF RowSound
<1>5. Recorded(w, g, k, x) \in [Guilds -> [LedgerKinds -> Nat]]
  BY <1>3, RecordedType
<1> QED BY <1>1, <1>3, <1>4, <1>5 DEF Reserve, WalletsType

(* ReleaseTx of a sound wallet is exact and never goes below zero. *)
LEMMA ReleaseExact ==
  ASSUME NEW w \in WalletsType, NEW g \in Guilds, NEW k \in LedgerKinds,
         NEW x \in Int, RowSound(w, g), CanRelease(w, g, x)
  PROVE  LET v == Release(w, g, x, k)
         IN  /\ v \in WalletsType
             /\ v.total = w.total
             /\ v.reserved = [w.reserved EXCEPT ![g] = w.reserved[g] - x]
             /\ v.ledger = Recorded(w, g, k, x)
             /\ x > 0 /\ x <= w.reserved[g]
<1>1. w.total[g] \in Int /\ w.reserved[g] \in Int /\ w.total \in [Guilds -> Int]
      /\ w.reserved \in [Guilds -> Int]
  BY DEF WalletsType
<1>2. x > 0 /\ x <= w.reserved[g]
  BY <1>1 DEF CanRelease, EnsureCanRelease, EnsurePositive
<1>3. Wrap(w.reserved[g] - x) = w.reserved[g] - x
  BY <1>1, <1>2, WrapInRange, HalfAssumption DEF RowSound
<1>4. Recorded(w, g, k, x) \in [Guilds -> [LedgerKinds -> Nat]]
  BY <1>2, RecordedType
<1>5. Release(w, g, x, k) =
        [total |-> w.total, reserved |-> [w.reserved EXCEPT ![g] = w.reserved[g] - x],
         ledger |-> Recorded(w, g, k, x)]
  BY <1>3 DEF Release
<1> QED BY <1>1, <1>2, <1>4, <1>5 DEF WalletsType

(* SettleReservedTx of a sound wallet is exact: both columns go down by x. *)
LEMMA SettleReservedExact ==
  ASSUME NEW w \in WalletsType, NEW g \in Guilds, NEW k \in LedgerKinds,
         NEW x \in Int, RowSound(w, g), CanSettleReserved(w, g, x)
  PROVE  LET v == SettleReserved(w, g, x, k)
         IN  /\ v \in WalletsType
             /\ v.total = [w.total EXCEPT ![g] = w.total[g] - x]
             /\ v.reserved = [w.reserved EXCEPT ![g] = w.reserved[g] - x]
             /\ v.ledger = Recorded(w, g, k, x)
             /\ x > 0 /\ x <= w.reserved[g]
<1>1. w.total[g] \in Int /\ w.reserved[g] \in Int /\ w.total \in [Guilds -> Int]
      /\ w.reserved \in [Guilds -> Int]
  BY DEF WalletsType
<1>2. x > 0 /\ x <= w.reserved[g]
  BY <1>1 DEF CanSettleReserved, EnsureCanRelease, EnsurePositive
<1>3. Wrap(w.reserved[g] - x) = w.reserved[g] - x /\ Wrap(w.total[g] - x) = w.total[g] - x
  BY <1>1, <1>2, WrapInRange, HalfAssumption DEF RowSound
<1>4. Recorded(w, g, k, x) \in [Guilds -> [LedgerKinds -> Nat]]
  BY <1>2, RecordedType
<1>5. SettleReserved(w, g, x, k) =
        [total |-> [w.total EXCEPT ![g] = w.total[g] - x],
         reserved |-> [w.reserved EXCEPT ![g] = w.reserved[g] - x],
         ledger |-> Recorded(w, g, k, x)]
  BY <1>3 DEF SettleReserved
<1> QED BY <1>1, <1>2, <1>4, <1>5 DEF WalletsType

(* DebitTx of a sound wallet is exact and leaves the reserve covered. *)
LEMMA DebitExact ==
  ASSUME NEW w \in WalletsType, NEW g \in Guilds, NEW k \in LedgerKinds,
         NEW x \in Int, RowSound(w, g), CanDebit(w, g, x)
  PROVE  LET v == Debit(w, g, x, k)
         IN  /\ v \in WalletsType
             /\ v.total = [w.total EXCEPT ![g] = w.total[g] - x]
             /\ v.reserved = w.reserved
             /\ v.ledger = Recorded(w, g, k, x)
             /\ x > 0 /\ w.reserved[g] + x <= w.total[g]
<1>1. w.total[g] \in Int /\ w.reserved[g] \in Int /\ w.total \in [Guilds -> Int]
      /\ w.reserved \in [Guilds -> Int]
  BY DEF WalletsType
<1>2. AvailableBalance(w.total[g], w.reserved[g]) = w.total[g] - w.reserved[g]
  BY <1>1, WrapInRange, HalfAssumption DEF AvailableBalance, RowSound
<1>3. x > 0 /\ w.reserved[g] + x <= w.total[g]
  BY <1>1, <1>2 DEF CanDebit, EnsureSufficientAvailable, EnsurePositive
<1>4. Wrap(w.total[g] - x) = w.total[g] - x
  BY <1>1, <1>3, WrapInRange, HalfAssumption DEF RowSound
<1>5. Recorded(w, g, k, x) \in [Guilds -> [LedgerKinds -> Nat]]
  BY <1>3, RecordedType
<1> QED BY <1>1, <1>3, <1>4, <1>5 DEF Debit, WalletsType

(* CreditTx is exact as long as the new balance fits. *)
LEMMA CreditExact ==
  ASSUME NEW w \in WalletsType, NEW g \in Guilds, NEW k \in LedgerKinds,
         NEW x \in Int, CanCredit(x), 0 <= w.total[g], w.total[g] + x < Half
  PROVE  LET v == Credit(w, g, x, k)
         IN  /\ v \in WalletsType
             /\ v.total = [w.total EXCEPT ![g] = w.total[g] + x]
             /\ v.reserved = w.reserved
             /\ v.ledger = Recorded(w, g, k, x)
             /\ x > 0
<1>1. w.total[g] \in Int /\ w.total \in [Guilds -> Int] /\ w.reserved \in [Guilds -> Int]
  BY DEF WalletsType
<1>2. x > 0
  BY DEF CanCredit, EnsurePositive
<1>3. Wrap(w.total[g] + x) = w.total[g] + x
  BY <1>1, <1>2, WrapInRange, HalfAssumption
<1>4. Recorded(w, g, k, x) \in [Guilds -> [LedgerKinds -> Nat]]
  BY <1>2, RecordedType
<1> QED BY <1>1, <1>2, <1>3, <1>4 DEF Credit, WalletsType
-----------------------------------------------------------------------------
Chosen(s) == CHOOSE x \in s : TRUE

(* h is the table of all partial sums of f over the subsets of S. *)
IsSumTable(h, f, S) ==
  h = [s \in SUBSET S |-> IF s = {} THEN 0 ELSE f[Chosen(s)] + h[s \ {Chosen(s)}]]

SumTable(f, S) == CHOOSE h : IsSumTable(h, f, S)

(* A non-empty family of subsets of a finite set has a minimal member.     *)
LEMMA MinimalSubset ==
  ASSUME NEW S, IsFiniteSet(S), NEW B, B \subseteq SUBSET S, B # {}
  PROVE  \E T \in B : \A U \in B : U \subseteq T => U = T
<1>1. IsWellFoundedOn(StrictSubsetOrdering(S), SUBSET S)
  BY FS_StrictSubsetOrderingWellFounded, FS_FiniteSubsetsOfFinite
<1>2. PICK T \in B : \A U \in B : ~(<<U, T>> \in StrictSubsetOrdering(S))
  BY <1>1, WFMin
<1>3. ASSUME NEW U \in B, U \subseteq T, U # T PROVE FALSE
  <2>1. <<U, T>> \in (SUBSET S) \X (SUBSET S) /\ <<U, T>>[1] = U /\ <<U, T>>[2] = T
    OBVIOUS
  <2>2. <<U, T>> \in StrictSubsetOrdering(S)
    BY <1>3, <2>1, Zenon DEF StrictSubsetOrdering
  <2> QED BY <1>2, <2>2
<1> QED BY <1>3

(* The chosen element is an element. *)
LEMMA ChosenIn == \A s : s # {} => Chosen(s) \in s
  BY DEF Chosen

(* Two tables of partial sums agree wherever both are defined. *)
LEMMA SumTablesAgree ==
  ASSUME NEW S, IsFiniteSet(S), NEW f, NEW T \in SUBSET S, NEW U \in SUBSET S,
         NEW g, NEW h, IsSumTable(g, f, T), IsSumTable(h, f, U),
         NEW s, s \subseteq T, s \subseteq U
  PROVE  g[s] = h[s]
<1> DEFINE B == {t \in SUBSET S : t \subseteq T /\ t \subseteq U /\ g[t] # h[t]}
<1> SUFFICES ASSUME g[s] # h[s] PROVE FALSE
  OBVIOUS
<1>1. B # {} /\ B \subseteq SUBSET S
  OBVIOUS
<1> HIDE DEF B
<1>2. PICK t \in B : \A u \in B : u \subseteq t => u = t
  BY <1>1, MinimalSubset
<1>3. t \subseteq T /\ t \subseteq U /\ g[t] # h[t]
  BY <1>2 DEF B
<1>4. /\ g[t] = IF t = {} THEN 0 ELSE f[Chosen(t)] + g[t \ {Chosen(t)}]
      /\ h[t] = IF t = {} THEN 0 ELSE f[Chosen(t)] + h[t \ {Chosen(t)}]
  BY <1>3, Zenon DEF IsSumTable
<1>5. t # {}
  BY <1>3, <1>4
<1>6. Chosen(t) \in t
  BY <1>5, ChosenIn
<1>7. t \ {Chosen(t)} \notin B
  BY <1>2, <1>6
<1>8. g[t \ {Chosen(t)}] = h[t \ {Chosen(t)}]
  BY <1>3, <1>7, t \in SUBSET S, t \ {Chosen(t)} \in SUBSET S DEF B
<1> QED BY <1>3, <1>4, <1>8, <1>5

(* The table of partial sums over a finite set exists. *)
LEMMA SumTableExists ==
  ASSUME NEW S, IsFiniteSet(S), NEW f
  PROVE  IsSumTable(SumTable(f, S), f, S)
<1> DEFINE B == {T \in SUBSET S : ~ \E h : IsSumTable(h, f, T)}
<1> SUFFICES ASSUME ~ \E h : IsSumTable(h, f, S) PROVE FALSE
  BY DEF SumTable
<1>1. B # {} /\ B \subseteq SUBSET S
  OBVIOUS
<1> HIDE DEF B
<1>2. PICK T \in B : \A U \in B : U \subseteq T => U = T
  BY <1>1, MinimalSubset
<1>3. T \subseteq S /\ ~ \E h : IsSumTable(h, f, T)
  BY <1>2 DEF B
<1>4. \A U : U \subseteq T /\ U # T => IsSumTable(SumTable(f, U), f, U)
  <2> TAKE U
  <2> HAVE U \subseteq T /\ U # T
  <2>1. U \notin B
    BY <1>2
  <2>2. \E h : IsSumTable(h, f, U)
    BY <1>3, <2>1 DEF B
  <2> QED BY <2>2 DEF SumTable
<1> DEFINE H == [s \in SUBSET T |->
        IF s = {} THEN 0
        ELSE f[Chosen(s)] + SumTable(f, s \ {Chosen(s)})[s \ {Chosen(s)}]]
<1>5. ASSUME NEW s \in SUBSET T, s # T
      PROVE  H[s] = SumTable(f, s)[s]
  <2>1. IsSumTable(SumTable(f, s), f, s)
    BY <1>4, <1>5
  <2>2. SumTable(f, s)[s] = IF s = {} THEN 0 ELSE f[Chosen(s)] + SumTable(f, s)[s \ {Chosen(s)}]
    BY <2>1, Zenon DEF IsSumTable
  <2>3. CASE s = {}
    BY <2>2, <2>3
  <2>4. CASE s # {}
    <3> DEFINE r == s \ {Chosen(s)}
    <3>1. r \subseteq s /\ r \subseteq T /\ r # T
      BY <1>5, <2>4, ChosenIn
    <3>2. IsSumTable(SumTable(f, r), f, r)
      BY <1>4, <3>1
    <3>3. SumTable(f, r)[r] = SumTable(f, s)[r]
      <4>1. r \in SUBSET S /\ s \in SUBSET S /\ r \subseteq r /\ r \subseteq s
        BY <1>3, <3>1
      <4> HIDE DEF r
      <4> QED BY <4>1, <2>1, <3>2, SumTablesAgree
    <3> QED BY <2>2, <2>4, <3>3
  <2> QED BY <2>3, <2>4
<1>6. ASSUME NEW s \in SUBSET T
      PROVE  H[s] = IF s = {} THEN 0 ELSE f[Chosen(s)] + H[s \ {Chosen(s)}]
  <2>1. CASE s = {}
    BY <2>1
  <2>2. CASE s # {}
    <3>1. Chosen(s) \in s
      BY <2>2, ChosenIn
    <3> DEFINE r == s \ {Chosen(s)}
    <3>2. r \in SUBSET T /\ r # T
      BY <3>1
    <3>3. H[s] = f[Chosen(s)] + SumTable(f, r)[r]
      BY <2>2
    <3>4. H[r] = SumTable(f, r)[r]
      <4> HIDE DEF H, r
      <4> QED BY <1>5, <3>2
    <3> HIDE DEF H
    <3> QED BY <2>2, <3>3, <3>4
  <2> QED BY <2>1, <2>2
<1>7. H = [s \in SUBSET T |-> H[s]]
  OBVIOUS
<1> HIDE DEF H
<1>8. IsSumTable(H, f, T)
  BY <1>6, <1>7, Zenon DEF IsSumTable
<1> QED BY <1>3, <1>8

(* The sum over a set is the value of the table at that set. *)
LEMMA SumIsTable ==
  ASSUME NEW f, NEW S
  PROVE  SumFunctionOnSet(f, S) = SumTable(f, S)[S]
  BY Zenon DEF SumFunctionOnSet, FoldFunctionOnSet, MapThenFoldSet, SumTable, IsSumTable, Chosen

(* The sum over a nonempty set takes one element off. *)
LEMMA SumStep ==
  ASSUME NEW S, IsFiniteSet(S), NEW f
  PROVE  SumFunctionOnSet(f, S) =
           IF S = {} THEN 0 ELSE f[Chosen(S)] + SumFunctionOnSet(f, S \ {Chosen(S)})
<1> DEFINE R == S \ {Chosen(S)}
<1>1. IsFiniteSet(R) /\ R \subseteq S
  BY FS_Subset
<1> HIDE DEF R
<1>2. SumTable(f, S)[S] = IF S = {} THEN 0 ELSE f[Chosen(S)] + SumTable(f, S)[S \ {Chosen(S)}]
  <2>1. IsSumTable(SumTable(f, S), f, S)
    BY SumTableExists
  <2> QED BY <2>1, Zenon DEF IsSumTable
<1>3. SumTable(f, S)[R] = SumTable(f, R)[R]
  BY <1>1, SumTableExists, SumTablesAgree
<1> QED BY <1>2, <1>3, SumIsTable DEF R

(* The sum of integers is an integer. *)
LEMMA SumInt ==
  ASSUME NEW S, IsFiniteSet(S), NEW f, \A x \in S : f[x] \in Int
  PROVE  SumFunctionOnSet(f, S) \in Int
<1> DEFINE B == {T \in SUBSET S : SumFunctionOnSet(f, T) \notin Int}
<1> SUFFICES ASSUME SumFunctionOnSet(f, S) \notin Int PROVE FALSE
  OBVIOUS
<1>1. B # {} /\ B \subseteq SUBSET S
  OBVIOUS
<1> HIDE DEF B
<1>2. PICK T \in B : \A U \in B : U \subseteq T => U = T
  BY <1>1, MinimalSubset
<1>3. T \subseteq S /\ SumFunctionOnSet(f, T) \notin Int
  BY <1>2 DEF B
<1>4. IsFiniteSet(T)
  BY <1>3, FS_Subset
<1>5. T # {}
  BY <1>3, <1>4, SumStep
<1>6. Chosen(T) \in T
  BY <1>5, ChosenIn
<1>7. T \ {Chosen(T)} \notin B
  BY <1>2, <1>6
<1>8. SumFunctionOnSet(f, T \ {Chosen(T)}) \in Int
  BY <1>3, <1>7 DEF B
<1>9. SumFunctionOnSet(f, T) = f[Chosen(T)] + SumFunctionOnSet(f, T \ {Chosen(T)})
  BY <1>4, <1>5, SumStep
<1>10. f[Chosen(T)] \in Int
  BY <1>3, <1>6
<1> QED BY <1>3, <1>8, <1>9, <1>10

(* Any summand can be taken out of a sum. *)
LEMMA SumRemove ==
  ASSUME NEW S, IsFiniteSet(S), NEW f, \A x \in S : f[x] \in Int, NEW e \in S
  PROVE  SumFunctionOnSet(f, S) = f[e] + SumFunctionOnSet(f, S \ {e})
<1> DEFINE Sum(T) == SumFunctionOnSet(f, T)
<1> DEFINE B == {T \in SUBSET S : \E x \in T : Sum(T) # f[x] + Sum(T \ {x})}
<1> SUFFICES ASSUME Sum(S) # f[e] + Sum(S \ {e}) PROVE FALSE
  OBVIOUS
<1>1. B # {} /\ B \subseteq SUBSET S
  OBVIOUS
<1>0. \A T \in SUBSET S : IsFiniteSet(T) /\ Sum(T) \in Int
  <2> TAKE T \in SUBSET S
  <2>1. IsFiniteSet(T)
    BY FS_Subset
  <2> QED BY <2>1, SumInt
<1>a. \A T \in SUBSET S : T # {} => Sum(T) = f[Chosen(T)] + Sum(T \ {Chosen(T)})
  BY <1>0, SumStep
<1> HIDE DEF B, Sum
<1>2. PICK T \in B : \A U \in B : U \subseteq T => U = T
  BY <1>1, MinimalSubset
<1>3. T \subseteq S
  BY <1>2 DEF B
<1>4. PICK x \in T : Sum(T) # f[x] + Sum(T \ {x})
  BY <1>2 DEF B
<1> DEFINE p == Chosen(T)
           R == T \ {p}
           X == T \ {x}
<1>5. p \in T
  BY ChosenIn
<1>6. Sum(T) = f[p] + Sum(R)
  BY <1>3, <1>a
<1>7. x # p
  BY <1>4, <1>6
<1>8. R \in SUBSET S /\ X \in SUBSET S /\ R \notin B /\ X \notin B
  BY <1>2, <1>3, <1>5
<1>9. x \in R /\ p \in X /\ R \ {x} = X \ {p}
  BY <1>5, <1>7
<1>10. Sum(R) = f[x] + Sum(R \ {x}) /\ Sum(X) = f[p] + Sum(X \ {p})
  <2> HIDE DEF R, X, p
  <2> QED BY <1>8, <1>9 DEF B
<1>11. f[x] \in Int /\ f[p] \in Int /\ Sum(R \ {x}) \in Int
  <2>1. R \ {x} \in SUBSET S
    BY <1>3
  <2> HIDE DEF R, X
  <2> QED BY <1>0, <1>3, <1>5, <2>1
<1>12. Sum(T) = f[x] + Sum(X)
  <2> HIDE DEF R, X, p
  <2>1. Sum(R \ {x}) = Sum(X \ {p})
    BY <1>9, Zenon
  <2> DEFINE c == Sum(R \ {x})
  <2>2. Sum(T) = f[p] + (f[x] + c) /\ Sum(X) = f[p] + c /\ c \in Int
    BY <1>6, <1>10, <1>11, <2>1
  <2> HIDE DEF c
  <2> QED BY <1>11, <2>2
<1> QED BY <1>4, <1>12

(* Sums over the same rows are equal. *)
LEMMA SumSame ==
  ASSUME NEW S, IsFiniteSet(S), NEW f, NEW g, \A x \in S : f[x] = g[x]
  PROVE  SumFunctionOnSet(f, S) = SumFunctionOnSet(g, S)
<1> DEFINE B == {T \in SUBSET S : SumFunctionOnSet(f, T) # SumFunctionOnSet(g, T)}
<1> SUFFICES ASSUME SumFunctionOnSet(f, S) # SumFunctionOnSet(g, S) PROVE FALSE
  OBVIOUS
<1>1. B # {} /\ B \subseteq SUBSET S
  OBVIOUS
<1> HIDE DEF B
<1>2. PICK T \in B : \A U \in B : U \subseteq T => U = T
  BY <1>1, MinimalSubset
<1>3. T \subseteq S /\ SumFunctionOnSet(f, T) # SumFunctionOnSet(g, T)
  BY <1>2 DEF B
<1>4. IsFiniteSet(T)
  BY <1>3, FS_Subset
<1>5. T # {}
  BY <1>3, <1>4, SumStep
<1>6. Chosen(T) \in T
  BY <1>5, ChosenIn
<1>7. T \ {Chosen(T)} \notin B
  BY <1>2, <1>6
<1>8. SumFunctionOnSet(f, T \ {Chosen(T)}) = SumFunctionOnSet(g, T \ {Chosen(T)})
  BY <1>3, <1>7 DEF B
<1> QED BY <1>3, <1>4, <1>5, <1>6, <1>8, SumStep

(* A sum of naturals is a natural, and no summand exceeds it. *)
LEMMA SumNat ==
  ASSUME NEW S, IsFiniteSet(S), NEW f, \A x \in S : f[x] \in Nat
  PROVE  SumFunctionOnSet(f, S) \in Nat
<1> DEFINE B == {T \in SUBSET S : SumFunctionOnSet(f, T) \notin Nat}
<1> SUFFICES ASSUME SumFunctionOnSet(f, S) \notin Nat PROVE FALSE
  OBVIOUS
<1>1. B # {} /\ B \subseteq SUBSET S
  OBVIOUS
<1> HIDE DEF B
<1>2. PICK T \in B : \A U \in B : U \subseteq T => U = T
  BY <1>1, MinimalSubset
<1>3. T \subseteq S /\ SumFunctionOnSet(f, T) \notin Nat
  BY <1>2 DEF B
<1>4. IsFiniteSet(T)
  BY <1>3, FS_Subset
<1>5. T # {}
  BY <1>3, <1>4, SumStep
<1>6. Chosen(T) \in T
  BY <1>5, ChosenIn
<1>7. T \ {Chosen(T)} \notin B
  BY <1>2, <1>6
<1>8. SumFunctionOnSet(f, T \ {Chosen(T)}) \in Nat
  BY <1>3, <1>7 DEF B
<1>9. SumFunctionOnSet(f, T) = f[Chosen(T)] + SumFunctionOnSet(f, T \ {Chosen(T)})
  BY <1>4, <1>5, SumStep
<1>10. f[Chosen(T)] \in Nat
  BY <1>3, <1>6
<1> QED BY <1>3, <1>8, <1>9, <1>10

(* A summand of a sum of naturals is at most the sum. *)
LEMMA SumBoundsSummand ==
  ASSUME NEW S, IsFiniteSet(S), NEW f, \A x \in S : f[x] \in Nat, NEW e \in S
  PROVE  f[e] <= SumFunctionOnSet(f, S)
<1>1. IsFiniteSet(S \ {e})
  BY FS_Subset
<1>2. SumFunctionOnSet(f, S \ {e}) \in Nat
  BY <1>1, SumNat
<1>3. SumFunctionOnSet(f, S) = f[e] + SumFunctionOnSet(f, S \ {e})
  BY SumRemove
<1> QED BY <1>2, <1>3

(* Two summands are at most the sum. *)
LEMMA SumBoundsTwo ==
  ASSUME NEW S, IsFiniteSet(S), NEW f, \A x \in S : f[x] \in Nat,
         NEW d \in S, NEW e \in S, d # e
  PROVE  f[d] + f[e] <= SumFunctionOnSet(f, S)
<1> DEFINE rest == S \ {d}
<1>1. IsFiniteSet(rest) /\ e \in rest
  BY FS_Subset
<1>2. SumFunctionOnSet(f, S) = f[d] + SumFunctionOnSet(f, rest)
  BY SumRemove
<1>3. f[e] <= SumFunctionOnSet(f, rest) /\ SumFunctionOnSet(f, rest) \in Nat
  <2>1. \A x \in rest : f[x] \in Nat
    OBVIOUS
  <2> HIDE DEF rest
  <2> QED BY <1>1, <2>1, SumBoundsSummand, SumNat
<1> QED BY <1>2, <1>3

(* Changing one row changes the sum by the difference. *)
LEMMA SumChangeOne ==
  ASSUME NEW S, IsFiniteSet(S), NEW f, \A x \in S : f[x] \in Int,
         NEW g, \A x \in S : g[x] \in Int,
         NEW e \in S, \A x \in S \ {e} : g[x] = f[x]
  PROVE  SumFunctionOnSet(g, S) = SumFunctionOnSet(f, S) - f[e] + g[e]
<1> DEFINE R == S \ {e}
<1>1. IsFiniteSet(R)
  BY FS_Subset
<1>2. SumFunctionOnSet(f, R) = SumFunctionOnSet(g, R)
  BY <1>1, SumSame
<1>3. SumFunctionOnSet(f, R) \in Int
  BY <1>1, SumInt
<1>4. /\ SumFunctionOnSet(f, S) = f[e] + SumFunctionOnSet(f, R)
      /\ SumFunctionOnSet(g, S) = g[e] + SumFunctionOnSet(g, R)
  BY SumRemove
<1> QED BY <1>2, <1>3, <1>4

(* A sum whose summands are all 0 is 0. *)
LEMMA SumZero ==
  ASSUME NEW S, IsFiniteSet(S), NEW f, \A x \in S : f[x] = 0
  PROVE  SumFunctionOnSet(f, S) = 0
<1> DEFINE B == {T \in SUBSET S : SumFunctionOnSet(f, T) # 0}
<1> SUFFICES ASSUME SumFunctionOnSet(f, S) # 0 PROVE FALSE
  OBVIOUS
<1>1. B # {} /\ B \subseteq SUBSET S
  OBVIOUS
<1> HIDE DEF B
<1>2. PICK T \in B : \A U \in B : U \subseteq T => U = T
  BY <1>1, MinimalSubset
<1>3. T \subseteq S /\ SumFunctionOnSet(f, T) # 0
  BY <1>2 DEF B
<1>4. IsFiniteSet(T)
  BY <1>3, FS_Subset
<1>5. T # {}
  BY <1>3, <1>4, SumStep
<1>6. Chosen(T) \in T
  BY <1>5, ChosenIn
<1>7. T \ {Chosen(T)} \notin B
  BY <1>2, <1>6
<1>8. SumFunctionOnSet(f, T \ {Chosen(T)}) = 0
  BY <1>3, <1>7 DEF B
<1> QED BY <1>3, <1>4, <1>5, <1>6, <1>8, SumStep

(* Changing two rows changes the sum by both differences. *)
LEMMA SumChangeTwo ==
  ASSUME NEW S, IsFiniteSet(S), NEW f, \A x \in S : f[x] \in Int,
         NEW g, \A x \in S : g[x] \in Int,
         NEW d \in S, NEW e \in S, d # e,
         \A x \in S \ {d, e} : g[x] = f[x]
  PROVE  SumFunctionOnSet(g, S) = SumFunctionOnSet(f, S) - f[d] - f[e] + g[d] + g[e]
<1> DEFINE h == [x \in S |-> IF x = d THEN g[x] ELSE f[x]]
<1>1. \A x \in S : h[x] \in Int
  OBVIOUS
<1>2. \A x \in S \ {d} : h[x] = f[x]
  OBVIOUS
<1>3. \A x \in S \ {e} : g[x] = h[x]
  OBVIOUS
<1>4. h[d] = g[d] /\ h[e] = f[e]
  OBVIOUS
<1> HIDE DEF h
<1>5. SumFunctionOnSet(h, S) = SumFunctionOnSet(f, S) - f[d] + h[d]
  BY <1>1, <1>2, SumChangeOne
<1>6. SumFunctionOnSet(g, S) = SumFunctionOnSet(h, S) - h[e] + g[e]
  BY <1>1, <1>3, SumChangeOne
<1>7. SumFunctionOnSet(f, S) \in Int
  BY SumInt
<1>8. f[d] \in Int /\ f[e] \in Int /\ g[d] \in Int /\ g[e] \in Int
  OBVIOUS
<1> QED BY <1>4, <1>5, <1>6, <1>7, <1>8
=============================================================================
