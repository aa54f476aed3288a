---------------------------- MODULE PaymentProofs ----------------------------
(***************************************************************************)
(* Proofs about PeriodPayment, for every price, any number of runs, tabs   *)
(* and faults, and every scene the hypotheses allow: types, that credit is *)
(* neither made nor lost, that a saved method is charged at most once and  *)
(* a payment grants at most one period, and that a payment that was given  *)
(* up holds no credit.                                                     *)
(***************************************************************************)
EXTENDS PeriodPayment, FiniteSetTheorems, TLAPS

-----------------------------------------------------------------------------
(* Sums over a finite set.                                                 *)

\* Induction over the subsets of a finite set, with the set of those it holds for.
LEMMA SubsetInduction ==
    ASSUME NEW S, IsFiniteSet(S), NEW G,
           \A T \in SUBSET S : (\A U \in SUBSET T : U # T => U \in G) => T \in G
    PROVE  \A T \in SUBSET S : T \in G
<1> DEFINE Bad == (SUBSET S) \ G
           R == StrictSubsetOrdering(S)
<1>1. FiniteSubsetsOf(S) = SUBSET S
  BY FS_FiniteSubsetsOfFinite
<1>2. IsWellFoundedOn(R, FiniteSubsetsOf(S))
  BY FS_StrictSubsetOrderingWellFounded
<1>3. Bad # {} => \E T \in Bad : \A U \in Bad : ~(<<U, T>> \in R)
  <2> SUFFICES ASSUME Bad # {} PROVE \E T \in Bad : \A U \in Bad : ~(<<U, T>> \in R)
    OBVIOUS
  <2>1. IsWellFoundedOn(R, SUBSET S) /\ Bad \subseteq SUBSET S
    BY <1>1, <1>2
  <2> HIDE DEF Bad, R
  <2> QED BY <2>1, WFMin
<1>4. ASSUME NEW T \in Bad, \A U \in Bad : ~(<<U, T>> \in R) PROVE FALSE
  <2>1. \A U \in SUBSET T : U # T => U \in G
    <3> SUFFICES ASSUME NEW U \in SUBSET T, U # T, U \notin G PROVE FALSE
      OBVIOUS
    <3>1. U \in Bad
      OBVIOUS
    <3>2. <<U, T>> \in R
      BY <3>1 DEF StrictSubsetOrdering
    <3> QED BY <1>4, <3>1, <3>2
  <2> QED BY <2>1
<1> QED BY <1>3, <1>4

\* The partial sums that MapThenSumSet builds, one for each subset.
Some(s) == CHOOSE x \in s : TRUE
Sums(f, g, T) == g = [s \in SUBSET T |-> IF s = {} THEN 0 ELSE f[Some(s)] + g[s \ {Some(s)}]]
SumOf(f, T) == MapThenSumSet(LAMBDA p : f[p], T)
Partial(f, T) == (CHOOSE g : Sums(f, g, T))[T]

LEMMA SumIsPartial == \A f, T : SumOf(f, T) = Partial(f, T)
BY DEF SumOf, MapThenSumSet, MapThenFoldSet, Partial, Sums, Some

LEMMA SomeIn == \A s : s # {} => Some(s) \in s
BY DEF Some

LEMMA SumsAt ==
    ASSUME NEW f, NEW g, NEW T, Sums(f, g, T)
    PROVE  \A s \in SUBSET T : g[s] = IF s = {} THEN 0 ELSE f[Some(s)] + g[s \ {Some(s)}]
BY DEF Sums

LEMMA SumsRestrict ==
    ASSUME NEW f, NEW g, NEW T, NEW U \in SUBSET T, Sums(f, g, T)
    PROVE  Sums(f, [s \in SUBSET U |-> g[s]], U)
<1> DEFINE h == [s \in SUBSET U |-> g[s]]
<1>1. \A s \in SUBSET U : h[s] = IF s = {} THEN 0 ELSE f[Some(s)] + h[s \ {Some(s)}]
  <2> SUFFICES ASSUME NEW s \in SUBSET U PROVE h[s] = IF s = {} THEN 0 ELSE f[Some(s)] + h[s \ {Some(s)}]
    OBVIOUS
  <2>1. s \in SUBSET T /\ s \ {Some(s)} \in SUBSET U
    OBVIOUS
  <2>2. g[s] = IF s = {} THEN 0 ELSE f[Some(s)] + g[s \ {Some(s)}]
    BY <2>1, SumsAt
  <2> QED BY <2>1, <2>2
<1>2. h = [s \in SUBSET U |-> IF s = {} THEN 0 ELSE f[Some(s)] + h[s \ {Some(s)}]]
  <2>1. h = [s \in SUBSET U |-> h[s]]
    OBVIOUS
  <2> HIDE DEF h
  <2> QED BY <1>1, <2>1
<1> QED BY <1>2 DEF Sums

LEMMA SumsUnique ==
    ASSUME NEW f, NEW g, NEW h, NEW T, IsFiniteSet(T), Sums(f, g, T), Sums(f, h, T)
    PROVE  g[T] = h[T]
<1> DEFINE G == {s \in SUBSET T : g[s] = h[s]}
<1>1. ASSUME NEW s \in SUBSET T, \A u \in SUBSET s : u # s => u \in G PROVE s \in G
  <2>1. s # {} => Some(s) \in s
    BY SomeIn
  <2>2. s # {} => g[s \ {Some(s)}] = h[s \ {Some(s)}]
    <3>1. s # {} => s \ {Some(s)} \in SUBSET s /\ s \ {Some(s)} # s
      BY <2>1
    <3> QED BY <1>1, <3>1
  <2> QED BY <2>2, SumsAt
<1> HIDE DEF G
<1>2. \A s \in SUBSET T : s \in G
  BY <1>1, SubsetInduction
<1> QED BY <1>2 DEF G

LEMMA SumsExist ==
    ASSUME NEW f, NEW S, IsFiniteSet(S)
    PROVE  \E g : Sums(f, g, S)
<1> DEFINE G == {T \in SUBSET S : \E g : Sums(f, g, T)}
<1>1. ASSUME NEW T \in SUBSET S, \A U \in SUBSET T : U # T => U \in G PROVE T \in G
  <2> DEFINE V(u) == Partial(f, u)
             h == [u \in SUBSET T |-> IF u # T THEN V(u)
                                      ELSE IF T = {} THEN 0 ELSE f[Some(T)] + V(T \ {Some(T)})]
  <2>1. ASSUME NEW U \in SUBSET T, U # T, U # {} PROVE V(U) = f[Some(U)] + V(U \ {Some(U)})
    <3> DEFINE g == CHOOSE x : Sums(f, x, U)
               W == U \ {Some(U)}
    <3>1. Sums(f, g, U)
      BY <1>1, <2>1
    <3>2. Some(U) \in U /\ W \in SUBSET U /\ W \in SUBSET T /\ W # T
      BY <2>1, SomeIn
    <3> DEFINE k == CHOOSE x : Sums(f, x, W)
    <3>3. Sums(f, k, W)
      BY <1>1, <3>2
    <3>4. V(U) = g[U] /\ V(W) = k[W]
      BY DEF Partial
    <3> HIDE DEF g, k
    <3>5. Sums(f, [s \in SUBSET W |-> g[s]], W)
      BY <3>1, <3>2, SumsRestrict
    <3>6. IsFiniteSet(W)
      BY FS_Subset
    <3>7. k[W] = [s \in SUBSET W |-> g[s]][W]
      <4> DEFINE r == [s \in SUBSET W |-> g[s]]
      <4> HIDE DEF r, W
      <4>1. Sums(f, r, W)
        BY <3>5 DEF r
      <4>2. k[W] = r[W]
        BY <3>3, <3>6, <4>1, SumsUnique
      <4> QED BY <4>2 DEF r
    <3>8. g[U] = f[Some(U)] + g[W]
      BY <2>1, <3>1, SumsAt
    <3> QED BY <3>4, <3>7, <3>8
  <2>2. \A u \in SUBSET T : h[u] = IF u = {} THEN 0 ELSE f[Some(u)] + h[u \ {Some(u)}]
    <3> SUFFICES ASSUME NEW u \in SUBSET T PROVE h[u] = IF u = {} THEN 0 ELSE f[Some(u)] + h[u \ {Some(u)}]
      OBVIOUS
    <3>1. u # {} => Some(u) \in u /\ u \ {Some(u)} \in SUBSET T /\ u \ {Some(u)} # T
      BY SomeIn
    <3>2. u # {} => h[u \ {Some(u)}] = V(u \ {Some(u)})
      BY <3>1
    <3>3. CASE u = {}
      <4>1. T # {} => V({}) = 0
        <5> SUFFICES ASSUME T # {} PROVE V({}) = 0
          OBVIOUS
        <5>1. PICK g : Sums(f, g, {})
          BY <1>1
        <5> DEFINE k == CHOOSE x : Sums(f, x, {})
        <5>2. Sums(f, k, {})
          BY <5>1
        <5>3. V({}) = k[{}]
          BY DEF Partial
        <5> HIDE DEF k
        <5> QED BY <5>2, <5>3, SumsAt
      <4> QED BY <3>3, <4>1
    <3>4. CASE u # {} /\ u # T
      BY <2>1, <3>2, <3>4
    <3>5. CASE u # {} /\ u = T
      BY <3>2, <3>5
    <3> QED BY <3>3, <3>4, <3>5
  <2>3. h = [u \in SUBSET T |-> h[u]]
    OBVIOUS
  <2> HIDE DEF h
  <2>4. Sums(f, h, T)
    BY <2>2, <2>3 DEF Sums
  <2> QED BY <2>4
<1> HIDE DEF G
<1>2. \A T \in SUBSET S : T \in G
  BY <1>1, SubsetInduction
<1> QED BY <1>2 DEF G

\* A sum is the last of a family of partial sums.
Adds(f, g, S) == \A s \in SUBSET S : g[s] = IF s = {} THEN 0 ELSE f[Some(s)] + g[s \ {Some(s)}]

LEMMA SumUnfolds ==
    ASSUME NEW f, NEW S, IsFiniteSet(S)
    PROVE  \E g : Adds(f, g, S) /\ SumOf(f, S) = g[S]
<1> DEFINE g == CHOOSE x : Sums(f, x, S)
<1>1. Sums(f, g, S)
  BY SumsExist
<1>2. SumOf(f, S) = g[S]
  BY SumIsPartial DEF Partial
<1> HIDE DEF g
<1>3. Adds(f, g, S)
  BY <1>1, SumsAt DEF Adds
<1> QED BY <1>2, <1>3

\* A sum of naturals is one, and at least each of them.
LEMMA SumBounds ==
    ASSUME NEW S, IsFiniteSet(S), NEW f \in [S -> Nat]
    PROVE  SumOf(f, S) \in Nat /\ \A p \in S : f[p] <= SumOf(f, S)
<1>1. PICK g : Adds(f, g, S) /\ SumOf(f, S) = g[S]
  BY SumUnfolds
<1> DEFINE G == {T \in SUBSET S : g[T] \in Nat /\ \A p \in T : f[p] <= g[T]}
<1>2. ASSUME NEW T \in SUBSET S, \A U \in SUBSET T : U # T => U \in G PROVE T \in G
  <2>0. g[T] = IF T = {} THEN 0 ELSE f[Some(T)] + g[T \ {Some(T)}]
    BY <1>1 DEF Adds
  <2>1. CASE T = {}
    BY <2>0, <2>1
  <2>2. CASE T # {}
    <3> DEFINE x == Some(T)
               U == T \ {x}
    <3>1. x \in T /\ U \in SUBSET T /\ U # T
      BY <2>2, SomeIn
    <3>2. g[U] \in Nat /\ \A p \in U : f[p] <= g[U]
      BY <1>2, <3>1
    <3>3. g[T] = f[x] + g[U]
      BY <2>0, <2>2
    <3>4. \A p \in T : p = x \/ p \in U
      OBVIOUS
    <3>5. \A p \in T : f[p] \in Nat
      OBVIOUS
    <3> HIDE DEF x, U
    <3> QED BY <3>1, <3>2, <3>3, <3>4, <3>5
  <2> QED BY <2>1, <2>2
<1> HIDE DEF G
<1>3. \A T \in SUBSET S : T \in G
  BY <1>2, SubsetInduction
<1> QED BY <1>1, <1>3 DEF G

\* A sum changes by what one of its terms changes.
LEMMA SumChanges ==
    ASSUME NEW S, IsFiniteSet(S), NEW f \in [S -> Int], NEW h \in [S -> Int], NEW q \in S,
           \A p \in S \ {q} : h[p] = f[p]
    PROVE  SumOf(f, S) \in Int /\ SumOf(h, S) = SumOf(f, S) + h[q] - f[q]
<1>1. PICK g : Adds(f, g, S) /\ SumOf(f, S) = g[S]
  BY SumUnfolds
<1>2. PICK k : Adds(h, k, S) /\ SumOf(h, S) = k[S]
  BY SumUnfolds
<1> DEFINE G == {T \in SUBSET S : g[T] \in Int /\ k[T] = g[T] + (IF q \in T THEN h[q] - f[q] ELSE 0)}
<1>3. ASSUME NEW T \in SUBSET S, \A U \in SUBSET T : U # T => U \in G PROVE T \in G
  <2>0. g[T] = IF T = {} THEN 0 ELSE f[Some(T)] + g[T \ {Some(T)}]
    BY <1>1 DEF Adds
  <2>k. k[T] = IF T = {} THEN 0 ELSE h[Some(T)] + k[T \ {Some(T)}]
    BY <1>2 DEF Adds
  <2>1. CASE T = {}
    BY <2>0, <2>k, <2>1
  <2>2. CASE T # {}
    <3> DEFINE x == Some(T)
               U == T \ {x}
    <3>1. x \in T /\ U \in SUBSET T /\ U # T
      BY <2>2, SomeIn
    <3>2. g[U] \in Int /\ k[U] = g[U] + (IF q \in U THEN h[q] - f[q] ELSE 0)
      BY <1>3, <3>1
    <3>3. g[T] = f[x] + g[U] /\ k[T] = h[x] + k[U]
      BY <2>0, <2>k, <2>2
    <3>4. (q \in T <=> q = x \/ q \in U) /\ (q = x => q \notin U)
      BY <3>1
    <3>5. f[x] \in Int /\ h[x] \in Int /\ f[q] \in Int /\ h[q] \in Int /\ (q # x => h[x] = f[x])
      BY <3>1
    <3> HIDE DEF x, U
    <3>6. g[T] \in Int /\ k[T] = g[T] + (IF q \in T THEN h[q] - f[q] ELSE 0)
      BY <3>2, <3>3, <3>4, <3>5
    <3> QED BY <3>6
  <2> QED BY <2>1, <2>2
<1> HIDE DEF G
<1>4. \A T \in SUBSET S : T \in G
  BY <1>3, SubsetInduction
<1> QED BY <1>1, <1>2, <1>4 DEF G

LEMMA SumOfZeros ==
    ASSUME NEW S, IsFiniteSet(S)
    PROVE  SumOf([p \in S |-> 0], S) = 0
<1> DEFINE f == [p \in S |-> 0]
<1>1. PICK g : Adds(f, g, S) /\ SumOf(f, S) = g[S]
  BY SumUnfolds
<1> DEFINE G == {T \in SUBSET S : g[T] = 0}
<1>2. ASSUME NEW T \in SUBSET S, \A U \in SUBSET T : U # T => U \in G PROVE T \in G
  <2>1. CASE T = {}
    <3>1. g[T] = IF T = {} THEN 0 ELSE f[Some(T)] + g[T \ {Some(T)}]
      BY <1>1 DEF Adds
    <3> QED BY <2>1, <3>1
  <2>2. CASE T # {}
    <3>1. Some(T) \in T /\ T \ {Some(T)} \in SUBSET T /\ T \ {Some(T)} # T
      BY <2>2, SomeIn
    <3>2. g[T \ {Some(T)}] = 0
      BY <1>2, <3>1
    <3>3. g[T] = f[Some(T)] + g[T \ {Some(T)}]
      BY <1>1, <2>2 DEF Adds
    <3>4. f[Some(T)] = 0
      BY <3>1
    <3> QED BY <3>2, <3>3, <3>4
  <2> QED BY <2>1, <2>2
<1> HIDE DEF G
<1>3. \A T \in SUBSET S : T \in G
  BY <1>2, SubsetInduction
<1> QED BY <1>1, <1>3 DEF G

-----------------------------------------------------------------------------
(* What a transaction may do to the payment p.                             *)

Db == [rows : [Payments -> Row \cup {None}], balance : Nat, ledger : [Payments -> Nat],
       granted : [Payments -> Nat], sub : Subscription]
Renewable(sub) == sub.ended /\ sub.status \in {"active", "past_due"}

\* c differs from b only in p and the subscription, no credit is made or lost,
\* and a period that needs no renewal needs none afterwards.
OnlyAt(b, c, p) ==
    /\ c \in Db
    /\ \A q \in Payments \ {p} : /\ c.rows[q] = b.rows[q] /\ c.ledger[q] = b.ledger[q]
                                 /\ c.granted[q] = b.granted[q]
    /\ b.rows[p] # None => c.rows[p] # None
    /\ c.balance + c.ledger[p] = b.balance + b.ledger[p]
    /\ b.ledger[p] <= Price => c.ledger[p] <= Price
    /\ Renewable(c.sub) => Renewable(b.sub)

SameBooks(b, c, p) == c.ledger[p] = b.ledger[p] /\ c.granted[p] = b.granted[p]
\* Marks of the row change; it is given up; it is paid.
Marked(b, c, p) ==
    /\ b.rows[p] \in Row /\ c.rows[p] \in Row /\ SameBooks(b, c, p)
    /\ c.rows[p].status = b.rows[p].status /\ c.rows[p].provider = b.rows[p].provider
    /\ c.rows[p].claimed = b.rows[p].claimed
Dropped(b, c, p) ==
    /\ c.rows[p] \in Row /\ c.rows[p].status \in GivenUp
    /\ c.ledger[p] = 0 /\ c.granted[p] = b.granted[p]
Paid(b, c, p) ==
    /\ c.rows[p] \in Row /\ c.rows[p].status = "succeeded" /\ c.granted[p] = b.granted[p] + 1

\* What the code does with a result, or when it gives a payment up, under the
\* row lock: nothing to a payment that succeeded.
SameAt(b, c, p) == c.rows[p] = b.rows[p] /\ SameBooks(b, c, p)
Effect(b, c, p, said) ==
    \/ SameAt(b, c, p)
    \/ Marked(b, c, p)
    \/ /\ b.rows[p] \in Row /\ b.rows[p].status # "succeeded" /\ c.rows[p].provider = b.rows[p].provider
       /\ Dropped(b, c, p) \/ (said = "succeeded" /\ Paid(b, c, p))
Ruled(b, c, p, said) == OnlyAt(b, c, p) /\ Effect(b, c, p, said)

\* The renewal that is still pending has no new mark of age or of a charge.
Aged(row) == row.day \/ row.lag \/ row.unresolved
NoOlder(b, c) ==
    c.rows[Renewal] # None /\ c.rows[Renewal].status = "pending" =>
        /\ b.rows[Renewal] # None /\ b.rows[Renewal].status = "pending"
        /\ c.rows[Renewal].started => b.rows[Renewal].started
        /\ Aged(c.rows[Renewal]) => Aged(b.rows[Renewal])

-----------------------------------------------------------------------------
(* The helpers.                                                            *)

LEMMA PriceTyped == Price \in Nat \ {0} /\ IsFiniteSet(Payments)
<1>1. IsFiniteSet(Tabs \cup {Renewal})
  BY PaymentAssumption, FS_AddElement
<1> QED BY <1>1, PaymentAssumption DEF Payments

LEMMA DbTyped ==
    ASSUME NEW b \in Db, NEW p \in Payments
    PROVE  /\ b.rows[p] \in Row \cup {None} /\ (b.rows[p] # None => b.rows[p] \in Row)
           /\ b.balance \in Nat /\ b.ledger[p] \in Nat /\ b.granted[p] \in Nat /\ b.sub \in Subscription
BY DEF Db

LEMMA SavedDb ==
    ASSUME NEW b \in Db, NEW p \in Payments, NEW row \in Row
    PROVE  /\ OnlyAt(b, Saved(b, p, row), p) /\ SameBooks(b, Saved(b, p, row), p)
           /\ Saved(b, p, row).rows[p] = row /\ Saved(b, p, row).balance = b.balance
           /\ Saved(b, p, row).sub = b.sub
<1> DEFINE c == Saved(b, p, row)
<1>1. c = [b EXCEPT !.rows = [b.rows EXCEPT ![p] = row]]
  BY DEF Saved
<1>2. c \in Db /\ c.rows = [b.rows EXCEPT ![p] = row] /\ c.balance = b.balance /\ c.ledger = b.ledger
      /\ c.granted = b.granted /\ c.sub = b.sub
  BY <1>1 DEF Db
<1>3. c.rows[p] = row /\ \A q \in Payments \ {p} : c.rows[q] = b.rows[q]
  BY <1>2 DEF Db
<1> HIDE DEF c
<1>4. OnlyAt(b, c, p) /\ SameBooks(b, c, p)
  BY <1>2, <1>3, NoneAssumption DEF OnlyAt, SameBooks
<1> QED BY <1>2, <1>3, <1>4 DEF c

LEMMA RestoredDb ==
    ASSUME NEW b \in Db, NEW p \in Payments
    PROVE  /\ OnlyAt(b, Restored(b, p), p) /\ Restored(b, p).rows = b.rows
           /\ Restored(b, p).ledger[p] = 0 /\ Restored(b, p).granted = b.granted
           /\ Restored(b, p).sub = b.sub
<1> DEFINE c == Restored(b, p)
<1>1. c = [b EXCEPT !.balance = b.balance + b.ledger[p], !.ledger = [b.ledger EXCEPT ![p] = 0]]
  BY DEF Restored
<1>2. b.balance \in Nat /\ b.ledger[p] \in Nat /\ b.ledger \in [Payments -> Nat]
  BY DEF Db
<1>3. b.balance + b.ledger[p] \in Nat /\ [b.ledger EXCEPT ![p] = 0] \in [Payments -> Nat]
  BY <1>2
<1>4. c \in Db /\ c.rows = b.rows /\ c.balance = b.balance + b.ledger[p]
      /\ c.ledger = [b.ledger EXCEPT ![p] = 0] /\ c.granted = b.granted /\ c.sub = b.sub
  BY <1>1, <1>3 DEF Db
<1>5. c.ledger[p] = 0 /\ \A q \in Payments \ {p} : c.ledger[q] = b.ledger[q]
  BY <1>2, <1>4
<1> HIDE DEF c
<1>6. OnlyAt(b, c, p)
  BY <1>2, <1>4, <1>5, PriceTyped DEF OnlyAt
<1> QED BY <1>4, <1>5, <1>6 DEF c

LEMMA AppliedDb ==
    ASSUME NEW b \in Db, NEW p \in Payments, NEW max \in 0..Price
    PROVE  /\ OnlyAt(b, Applied(b, p, max), p) /\ Applied(b, p, max).rows = b.rows
           /\ Applied(b, p, max).granted = b.granted /\ Applied(b, p, max).sub = b.sub
           /\ b.ledger[p] = 0 => Applied(b, p, max).ledger[p] <= max
<1> DEFINE c == Applied(b, p, max)
           used == Least(b.balance, max)
<1>1. b.balance \in Nat /\ b.ledger[p] \in Nat /\ b.ledger \in [Payments -> Nat] /\ max \in Nat /\ max <= Price
  BY PriceTyped DEF Db
<1>2. CASE b.ledger[p] > 0
  <2>1. c = b
    BY <1>2 DEF Applied
  <2> HIDE DEF c
  <2> QED BY <1>1, <1>2, <2>1 DEF c, OnlyAt
<1>3. CASE ~(b.ledger[p] > 0)
  <2>1. used \in Nat /\ used <= b.balance /\ used <= max
    BY <1>1 DEF Least
  <2>2. c = [b EXCEPT !.balance = b.balance - used, !.ledger = [b.ledger EXCEPT ![p] = used]]
    BY <1>3 DEF Applied
  <2> HIDE DEF used
  <2>3. b.balance - used \in Nat /\ [b.ledger EXCEPT ![p] = used] \in [Payments -> Nat]
    BY <1>1, <2>1
  <2>4. c \in Db /\ c.rows = b.rows /\ c.balance = b.balance - used
        /\ c.ledger = [b.ledger EXCEPT ![p] = used] /\ c.granted = b.granted /\ c.sub = b.sub
    BY <2>2, <2>3 DEF Db
  <2>5. c.ledger[p] = used /\ \A q \in Payments \ {p} : c.ledger[q] = b.ledger[q]
    BY <1>1, <2>4
  <2> HIDE DEF c
  <2>6. b.ledger[p] = 0 /\ used <= Price /\ c.balance + c.ledger[p] = b.balance + b.ledger[p]
    BY <1>1, <1>3, <2>1, <2>4, <2>5, PriceTyped
  <2>7. OnlyAt(b, c, p)
    BY <2>4, <2>5, <2>6 DEF OnlyAt
  <2> QED BY <2>1, <2>4, <2>5, <2>7 DEF c
<1> QED BY <1>2, <1>3

LEMMA ActivatedDb ==
    ASSUME NEW b \in Db, NEW p \in Payments
    PROVE  /\ OnlyAt(b, Activated(b, p), p) /\ Activated(b, p).rows = b.rows
           /\ Activated(b, p).ledger = b.ledger /\ Activated(b, p).granted[p] = b.granted[p] + 1
<1> DEFINE c == Activated(b, p)
           fresh == [status |-> "active", ended |-> FALSE, atEnd |-> FALSE, overdue |-> FALSE]
<1>1. c = [b EXCEPT !.granted = [b.granted EXCEPT ![p] = b.granted[p] + 1], !.sub = fresh]
  BY DEF Activated
<1>2. b.granted \in [Payments -> Nat] /\ b.ledger[p] \in Nat
  BY DEF Db
<1>3. [b.granted EXCEPT ![p] = b.granted[p] + 1] \in [Payments -> Nat]
  BY <1>2
<1>4. fresh \in Subscription /\ ~fresh.ended
  BY DEF Subscription
<1> HIDE DEF fresh
<1>5. c \in Db /\ c.rows = b.rows /\ c.balance = b.balance /\ c.ledger = b.ledger
      /\ c.granted = [b.granted EXCEPT ![p] = b.granted[p] + 1] /\ c.sub = fresh
  BY <1>1, <1>3, <1>4 DEF Db
<1>6. c.granted[p] = b.granted[p] + 1 /\ \A q \in Payments \ {p} : c.granted[q] = b.granted[q]
  BY <1>2, <1>5
<1> HIDE DEF c
<1>7. OnlyAt(b, c, p)
  BY <1>4, <1>5, <1>6 DEF OnlyAt, Renewable
<1> QED BY <1>5, <1>6, <1>7 DEF c

LEMMA PastDueDb ==
    ASSUME NEW b \in Db, NEW p \in Payments
    PROVE  /\ OnlyAt(b, PastDue(b), p) /\ PastDue(b).rows = b.rows
           /\ PastDue(b).ledger = b.ledger /\ PastDue(b).granted = b.granted
<1> DEFINE c == PastDue(b)
           late == [b.sub EXCEPT !.status = "past_due"]
<1>1. CASE b.sub.status \in {"active", "past_due"}
  <2>1. c = [b EXCEPT !.sub = late]
    BY <1>1 DEF PastDue
  <2>2. b.sub \in Subscription
    BY DEF Db
  <2>3. late \in Subscription /\ late.ended = b.sub.ended
    BY <2>2 DEF Subscription
  <2> HIDE DEF late
  <2>4. c \in Db /\ c.rows = b.rows /\ c.balance = b.balance /\ c.ledger = b.ledger /\ c.granted = b.granted
        /\ c.sub = late
    BY <2>1, <2>3 DEF Db
  <2> HIDE DEF c
  <2>5. OnlyAt(b, c, p)
    BY <1>1, <2>3, <2>4 DEF OnlyAt, Renewable
  <2> QED BY <2>4, <2>5 DEF c
<1>2. CASE ~(b.sub.status \in {"active", "past_due"})
  <2>1. c = b
    BY <1>2 DEF PastDue
  <2>2. OnlyAt(b, b, p)
    BY DEF OnlyAt
  <2> QED BY <2>1, <2>2
<1> QED BY <1>1, <1>2

LEMMA OnlyTrans ==
    ASSUME NEW b \in Db, NEW c, NEW d, NEW p \in Payments, OnlyAt(b, c, p), OnlyAt(c, d, p)
    PROVE  OnlyAt(b, d, p)
BY DEF OnlyAt

LEMMA OnlySelf == ASSUME NEW b \in Db, NEW p \in Payments PROVE OnlyAt(b, b, p)
BY DEF OnlyAt

LEMMA RowEdits ==
    ASSUME NEW row \in Row
    PROVE  /\ \A to \in OpenStatus \cup GivenUp \cup {"succeeded"} :
                 /\ [row EXCEPT !.status = to] \in Row /\ [row EXCEPT !.status = to].status = to
                 /\ [row EXCEPT !.status = to].provider = row.provider
                 /\ [row EXCEPT !.status = to].held = row.held
           /\ [row EXCEPT !.unresolved = FALSE] \in Row
           /\ [row EXCEPT !.unresolved = FALSE].status = row.status
           /\ [row EXCEPT !.unresolved = FALSE].provider = row.provider
           /\ [row EXCEPT !.day = FALSE] \in Row
           /\ [row EXCEPT !.day = FALSE].status = row.status
           /\ [row EXCEPT !.day = FALSE].provider = row.provider
           /\ [row EXCEPT !.day = FALSE].claimed = row.claimed
           /\ [row EXCEPT !.day = FALSE].started = row.started
           /\ Aged([row EXCEPT !.day = FALSE]) => Aged(row)
           /\ row.held \in 0..Price /\ row.status \in OpenStatus \cup GivenUp \cup {"succeeded"}
BY DEF Row, Aged

LEMMA FailedDb ==
    ASSUME NEW b \in Db, NEW p \in Payments, NEW row \in Row, NEW status \in {"failed", "action"}
    PROVE  /\ OnlyAt(b, Failed(b, p, row, status), p) /\ Dropped(b, Failed(b, p, row, status), p)
           /\ Failed(b, p, row, status).rows[p].provider = row.provider
<1> DEFINE new == [row EXCEPT !.status = status]
           b1 == Saved(b, p, new)
           b2 == Restored(b1, p)
           c == IF p = Renewal THEN PastDue(b2) ELSE b2
<1>1. new \in Row /\ new.status \in GivenUp /\ new.provider = row.provider
  BY RowEdits DEF OpenStatus, GivenUp
<1>2. Failed(b, p, row, status) = c
  BY DEF Failed
<1> HIDE DEF new
<1>3. OnlyAt(b, b1, p) /\ SameBooks(b, b1, p) /\ b1.rows[p] = new /\ b1 \in Db
  BY <1>1, SavedDb DEF OnlyAt
<1> HIDE DEF b1
<1>4. OnlyAt(b1, b2, p) /\ b2.rows = b1.rows /\ b2.ledger[p] = 0 /\ b2.granted = b1.granted /\ b2 \in Db
  BY <1>3, RestoredDb DEF OnlyAt
<1> HIDE DEF b2
<1>5. OnlyAt(b2, c, p) /\ c.rows = b2.rows /\ c.ledger = b2.ledger /\ c.granted = b2.granted
  BY <1>4, PastDueDb, OnlySelf
<1> HIDE DEF c
<1>6. OnlyAt(b, c, p)
  BY <1>3, <1>4, <1>5, OnlyTrans
<1>7. Dropped(b, c, p) /\ c.rows[p].provider = row.provider
  BY <1>1, <1>3, <1>4, <1>5 DEF Dropped, SameBooks
<1> QED BY <1>2, <1>6, <1>7

LEMMA SucceededDb ==
    ASSUME NEW b \in Db, NEW p \in Payments, NEW row \in Row
    PROVE  /\ OnlyAt(b, Succeeded(b, p, row), p) /\ Paid(b, Succeeded(b, p, row), p)
           /\ Succeeded(b, p, row).rows[p].provider = row.provider
<1> DEFINE new == [row EXCEPT !.status = "succeeded"]
           b1 == Saved(b, p, new)
           b2 == IF row.status \in GivenUp /\ row.held > 0 THEN Applied(b1, p, row.held) ELSE b1
           c == Activated(b2, p)
<1>1. new \in Row /\ new.status = "succeeded" /\ new.provider = row.provider /\ row.held \in 0..Price
  BY RowEdits
<1>2. Succeeded(b, p, row) = c
  BY DEF Succeeded
<1> HIDE DEF new
<1>3. OnlyAt(b, b1, p) /\ SameBooks(b, b1, p) /\ b1.rows[p] = new /\ b1 \in Db
  BY <1>1, SavedDb DEF OnlyAt
<1> HIDE DEF b1
<1>4. OnlyAt(b1, b2, p) /\ b2.rows = b1.rows /\ b2.granted = b1.granted /\ b2 \in Db
  BY <1>1, <1>3, AppliedDb, OnlySelf DEF OnlyAt
<1> HIDE DEF b2
<1>5. OnlyAt(b2, c, p) /\ c.rows = b2.rows /\ c.granted[p] = b2.granted[p] + 1
  BY <1>4, ActivatedDb
<1> HIDE DEF c
<1>6. OnlyAt(b, c, p)
  BY <1>3, <1>4, <1>5, OnlyTrans
<1>7. Paid(b, c, p) /\ c.rows[p].provider = row.provider
  BY <1>1, <1>3, <1>4, <1>5 DEF Paid, SameBooks
<1> QED BY <1>2, <1>6, <1>7

\* A payment's row is replaced by one that differs in its marks.
LEMMA MarkedDb ==
    ASSUME NEW b \in Db, NEW p \in Payments, NEW row \in Row, b.rows[p] \in Row,
           row.status = b.rows[p].status, row.provider = b.rows[p].provider, row.claimed = b.rows[p].claimed
    PROVE  /\ OnlyAt(b, Saved(b, p, row), p) /\ Marked(b, Saved(b, p, row), p)
           /\ p # Renewal \/ ((row.started => b.rows[p].started) /\ (Aged(row) => Aged(b.rows[p])))
                 => NoOlder(b, Saved(b, p, row))
<1> DEFINE c == Saved(b, p, row)
<1>1. OnlyAt(b, c, p) /\ SameBooks(b, c, p) /\ c.rows[p] = row
  BY SavedDb
<1> HIDE DEF c
<1>2. Marked(b, c, p)
  BY <1>1 DEF Marked
<1>3. p # Renewal => c.rows[Renewal] = b.rows[Renewal]
  BY <1>1 DEF OnlyAt, Payments
<1>4. p # Renewal \/ ((row.started => b.rows[p].started) /\ (Aged(row) => Aged(b.rows[p]))) => NoOlder(b, c)
  BY <1>1, <1>3, NoneAssumption DEF NoOlder
<1> QED BY <1>1, <1>2, <1>4 DEF c

\* What is decided is not pending.
LEMMA DecidedNoOlder ==
    ASSUME NEW b \in Db, NEW c, NEW p \in Payments, OnlyAt(b, c, p), Dropped(b, c, p) \/ Paid(b, c, p)
    PROVE  NoOlder(b, c)
<1>1. c.rows[p].status # "pending"
  BY DEF Dropped, Paid, GivenUp
<1>2. p # Renewal => c.rows[Renewal] = b.rows[Renewal]
  BY DEF OnlyAt, Payments
<1> QED BY <1>1, <1>2 DEF NoOlder

LEMMA SelfRules == ASSUME NEW b \in Db, NEW p \in Payments, NEW said PROVE Ruled(b, b, p, said) /\ NoOlder(b, b)
BY OnlySelf DEF Ruled, Effect, SameAt, SameBooks, NoOlder

LEMMA RecordedRules ==
    ASSUME NEW b \in Db, NEW p \in Payments, NEW provider, NEW said \in {"succeeded", "failed", "action", "pending"}
    PROVE  Ruled(b, Recorded(b, p, provider, said), p, said) /\ NoOlder(b, Recorded(b, p, provider, said))
<1> DEFINE row == b.rows[p]
           known == [row EXCEPT !.unresolved = FALSE]
           c == Recorded(b, p, provider, said)
<1>1. CASE row = None \/ row.provider # provider \/ row.status = "succeeded"
  <2>1. c = b
    BY <1>1 DEF Recorded
  <2> QED BY <2>1, SelfRules
<1>2. CASE ~(row = None \/ row.provider # provider \/ row.status = "succeeded")
  <2>1. row \in Row /\ row.status # "succeeded"
    BY <1>2, DbTyped
  <2>2. known \in Row /\ known.provider = row.provider
    <3> HIDE DEF row
    <3> QED BY <2>1, RowEdits
  <2>3. CASE said = "succeeded"
    <3>1. c = Succeeded(b, p, known)
      BY <1>2, <2>3 DEF Recorded
    <3> HIDE DEF c, known, row
    <3>2. OnlyAt(b, c, p) /\ Paid(b, c, p) /\ c.rows[p].provider = row.provider
      BY <2>2, <3>1, SucceededDb
    <3>3. Ruled(b, c, p, said)
      BY <2>1, <2>3, <3>2 DEF Ruled, Effect, row
    <3>4. NoOlder(b, c)
      BY <3>2, DecidedNoOlder
    <3> QED BY <3>3, <3>4 DEF c
  <2>4. CASE said \in {"failed", "action"}
    <3>1. c = Failed(b, p, known, said)
      BY <1>2, <2>4 DEF Recorded
    <3> HIDE DEF c, known, row
    <3>2. OnlyAt(b, c, p) /\ Dropped(b, c, p) /\ c.rows[p].provider = row.provider
      BY <2>2, <2>4, <3>1, FailedDb
    <3>3. Ruled(b, c, p, said)
      BY <2>1, <3>2 DEF Ruled, Effect, row
    <3>4. NoOlder(b, c)
      BY <3>2, DecidedNoOlder
    <3> QED BY <3>3, <3>4 DEF c
  <2>5. CASE said = "pending"
    <3> DEFINE new == IF p = Renewal THEN [row EXCEPT !.day = FALSE] ELSE row
    <3>1. c = Saved(b, p, new)
      BY <1>2, <2>5 DEF Recorded
    <3>2. /\ new \in Row /\ new.status = row.status /\ new.provider = row.provider /\ new.claimed = row.claimed
          /\ (new.started => row.started) /\ (Aged(new) => Aged(row))
      <4> HIDE DEF row
      <4> QED BY <2>1, RowEdits
    <3> HIDE DEF c, new
    <3>3. OnlyAt(b, c, p) /\ Marked(b, c, p) /\ NoOlder(b, c)
      BY <2>1, <3>1, <3>2, MarkedDb
    <3> QED BY <3>3 DEF Ruled, Effect, c
  <2> QED BY <2>3, <2>4, <2>5
<1> QED BY <1>1, <1>2

\* Two of them in one transaction.
LEMMA MarkThenRule ==
    ASSUME NEW b \in Db, NEW c \in Db, NEW d, NEW p \in Payments, NEW said,
           OnlyAt(b, c, p), Marked(b, c, p), Ruled(c, d, p, said)
    PROVE  Ruled(b, d, p, said) /\ (NoOlder(b, c) /\ NoOlder(c, d) => NoOlder(b, d))
<1>1. OnlyAt(b, d, p)
  BY OnlyTrans DEF Ruled, Effect
<1>2. CASE SameAt(c, d, p)
  <2>1. Marked(b, d, p)
    BY <1>2 DEF Marked, SameAt, SameBooks
  <2> QED BY <1>1, <2>1 DEF Ruled, Effect, NoOlder
<1>3. CASE Marked(c, d, p)
  <2>1. Marked(b, d, p)
    BY <1>3 DEF Marked, SameBooks
  <2> QED BY <1>1, <2>1 DEF Ruled, Effect, NoOlder
<1>4. CASE /\ c.rows[p] \in Row /\ c.rows[p].status # "succeeded" /\ d.rows[p].provider = c.rows[p].provider
           /\ Dropped(c, d, p) \/ (said = "succeeded" /\ Paid(c, d, p))
  <2>1. b.rows[p] \in Row /\ b.rows[p].status # "succeeded" /\ d.rows[p].provider = b.rows[p].provider
    BY <1>4 DEF Marked
  <2>2. Dropped(b, d, p) \/ (said = "succeeded" /\ Paid(b, d, p))
    BY <1>4 DEF Marked, SameBooks, Dropped, Paid
  <2> QED BY <1>1, <2>1, <2>2 DEF Ruled, Effect, NoOlder
<1> QED BY <1>2, <1>3, <1>4 DEF Ruled, Effect

LEMMA AbandonedRules ==
    ASSUME NEW b \in Db, NEW p \in Payments, b.rows[p] \in Row, NEW said
    PROVE  Ruled(b, Abandoned(b, p), p, said) /\ NoOlder(b, Abandoned(b, p))
<1> DEFINE row == b.rows[p]
           new == [row EXCEPT !.status = "abandoned"]
           b1 == Saved(b, p, new)
           c == Abandoned(b, p)
<1>1. CASE row.status \notin OpenStatus
  <2>1. c = b
    BY <1>1 DEF Abandoned
  <2> QED BY <2>1, SelfRules
<1>2. CASE row.status \in OpenStatus
  <2>1. c = Restored(b1, p)
    BY <1>2 DEF Abandoned
  <2>2. new \in Row /\ new.status \in GivenUp /\ new.provider = row.provider
    <3> HIDE DEF row
    <3> QED BY RowEdits DEF row, GivenUp
  <2> HIDE DEF new
  <2>3. OnlyAt(b, b1, p) /\ SameBooks(b, b1, p) /\ b1.rows[p] = new /\ b1 \in Db
    BY <2>2, SavedDb DEF OnlyAt
  <2> HIDE DEF b1, c
  <2>4. OnlyAt(b1, c, p) /\ c.rows = b1.rows /\ c.ledger[p] = 0 /\ c.granted = b1.granted
    BY <2>1, <2>3, RestoredDb
  <2>5. OnlyAt(b, c, p)
    BY <2>3, <2>4, OnlyTrans
  <2>6. Dropped(b, c, p) /\ c.rows[p].provider = row.provider
    BY <2>2, <2>3, <2>4 DEF Dropped, SameBooks
  <2>7. Ruled(b, c, p, said)
    BY <1>2, <2>5, <2>6 DEF Ruled, Effect, OpenStatus
  <2>8. NoOlder(b, c)
    BY <2>5, <2>6, DecidedNoOlder
  <2> QED BY <2>7, <2>8 DEF c
<1> QED BY <1>1, <1>2

\* mark_unresolved makes the row older, whatever it was.
LEMMA UnresolvedRules ==
    ASSUME NEW b \in Db, NEW p \in Payments, b.rows[p] \in Row, NEW said
    PROVE  /\ Ruled(b, MarkedUnresolved(b, p), p, said)
           /\ MarkedUnresolved(b, p) = b \/ Marked(b, MarkedUnresolved(b, p), p)
           /\ MarkedUnresolved(b, p).rows[p].started = b.rows[p].started
<1> DEFINE row == b.rows[p]
           new == [row EXCEPT !.unresolved = TRUE, !.day = (row.day /\ p # Renewal)]
           c == MarkedUnresolved(b, p)
<1>1. CASE c = b
  BY <1>1, SelfRules
<1>2. CASE c = Saved(b, p, new)
  <2>1. new \in Row /\ new.status = row.status /\ new.provider = row.provider /\ new.claimed = row.claimed
        /\ new.started = row.started
    BY DEF Row
  <2> HIDE DEF new, c
  <2>2. OnlyAt(b, c, p) /\ Marked(b, c, p) /\ c.rows[p] = new
    BY <1>2, <2>1, MarkedDb, SavedDb
  <2> QED BY <2>1, <2>2 DEF Ruled, Effect, c
<1>3. c = b \/ c = Saved(b, p, new)
  BY DEF MarkedUnresolved
<1> QED BY <1>1, <1>2, <1>3

\* mark_charge_started is called for a checkout only.
LEMMA StartedRules ==
    ASSUME NEW b \in Db, NEW p \in Tabs, b.rows[p] \in Row
    PROVE  /\ OnlyAt(b, MarkedStarted(b, p), p) /\ Marked(b, MarkedStarted(b, p), p)
           /\ NoOlder(b, MarkedStarted(b, p))
<1> DEFINE row == b.rows[p]
           new == [row EXCEPT !.started = TRUE, !.lag = FALSE]
           c == MarkedStarted(b, p)
<1>0. p \in Payments /\ p # Renewal
  BY PaymentAssumption DEF Payments
<1>1. CASE c = b
  <2>1. Marked(b, b, p)
    BY DEF Marked, SameBooks
  <2> QED BY <1>0, <1>1, <2>1, SelfRules, OnlySelf
<1>2. CASE c = Saved(b, p, new)
  <2>1. new \in Row /\ new.status = row.status /\ new.provider = row.provider /\ new.claimed = row.claimed
    BY DEF Row
  <2> HIDE DEF new, c
  <2> QED BY <1>0, <1>2, <2>1, MarkedDb DEF c
<1>3. c = b \/ c = Saved(b, p, new)
  BY DEF MarkedStarted
<1> QED BY <1>1, <1>2, <1>3

LEMMA ClearedRules ==
    ASSUME NEW b \in Db, NEW p \in Payments, b.rows[p] \in Row
    PROVE  OnlyAt(b, Cleared(b, p), p) /\ Marked(b, Cleared(b, p), p) /\ NoOlder(b, Cleared(b, p))
<1> DEFINE row == b.rows[p]
           new == [row EXCEPT !.started = FALSE, !.lag = FALSE]
<1>1. Cleared(b, p) = Saved(b, p, new)
  BY DEF Cleared
<1>2. /\ new \in Row /\ new.status = row.status /\ new.provider = row.provider /\ new.claimed = row.claimed
      /\ (new.started => row.started) /\ (Aged(new) => Aged(row))
  BY DEF Row, Aged
<1> HIDE DEF new
<1> QED BY <1>1, <1>2, MarkedDb

\* What the return, the APPROVED webhook and the sweep hear from PayPal.
Heard == {"uncaptured", "action", "succeeded", "failed", "pending"}
LEMMA CaptureRules ==
    ASSUME NEW b \in Db, NEW p \in Payments, b.rows[p] \in Row, NEW got \in Heard
    PROVE  Ruled(b, CaptureRecorded(b, p, got), p, got) /\ NoOlder(b, CaptureRecorded(b, p, got))
<1> DEFINE b1 == Cleared(b, p)
<1>1. OnlyAt(b, b1, p) /\ Marked(b, b1, p) /\ NoOlder(b, b1) /\ b1 \in Db
  BY ClearedRules DEF OnlyAt
<1>2. CASE got = "uncaptured"
  BY <1>1, <1>2 DEF CaptureRecorded, Ruled, Effect
<1>3. CASE got = "action"
  <2> DEFINE c == Recorded(b1, p, "paypal", got)
  <2>1. CaptureRecorded(b, p, got) = c
    BY <1>3 DEF CaptureRecorded
  <2> HIDE DEF b1
  <2>2. Ruled(b1, c, p, got) /\ NoOlder(b1, c)
    BY <1>1, <1>3, RecordedRules
  <2> HIDE DEF c
  <2> QED BY <1>1, <2>1, <2>2, MarkThenRule
<1>4. CASE got \in {"succeeded", "failed", "pending"}
  <2>1. CaptureRecorded(b, p, got) = Recorded(b, p, "paypal", got)
    BY <1>4 DEF CaptureRecorded
  <2> QED BY <1>4, <2>1, RecordedRules
<1> QED BY <1>2, <1>3, <1>4 DEF Heard

-----------------------------------------------------------------------------
(* The invariant.                                                          *)

Places == {"idle", "clear", "create", "apply", "save", "settle", "grant", "open", "claim", "charge",
           "answer", "verify", "mark", "capture", "record", "ask", "reconcile", "give_up"}
Hand == [pay : Payments \cup {None}, copy : Row \cup {None}, got : Results, todo : SUBSET Tabs]
RunPlaces == {"idle", "create", "apply", "save", "settle", "grant", "claim", "charge", "answer"}
TabPlaces == {"idle", "clear", "create", "apply", "save", "settle", "grant", "open"}
Crediting == {"apply", "save", "settle", "grant"}
Charging == {"charge", "answer"}
PaidEvent == Event(Renewal, "succeeded", 1)
Good(row) == row \in Row /\ row.provider \in {scene.provider, "credit"}

\* Where each process is, and what it has in hand there.
RunAt(r) ==
    /\ at[r] \in RunPlaces
    /\ my[r].pay = IF at[r] = "idle" THEN None ELSE Renewal
    /\ at[r] # "idle" => r \in scene.runs
    /\ at[r] \notin {"idle", "create"} => Exists(Renewal) /\ Good(my[r].copy)
    /\ at[r] = "apply" => my[r].copy.due = Price
    /\ at[r] = "answer" => my[r].got \in {"succeeded", "failed", "pending", "action", "lost"}
TabAt(t) ==
    /\ at[t] \in TabPlaces
    /\ my[t].pay = IF at[t] = "idle" THEN None ELSE t
    /\ at[t] # "idle" => t \in scene.tabs /\ page[t] = "none" /\ db.granted[t] = 0
    /\ at[t] \in {"clear", "create"} => ~Exists(t)
    /\ at[t] \notin {"idle", "clear", "create"} => Exists(t) /\ Good(my[t].copy)
    /\ at[t] = "apply" => my[t].copy.due = Price
    /\ at[t] = "grant" => db.rows[t].status = "succeeded"
    /\ \A q \in my[t].todo : Exists(q)
\* A checkout grants once: by credit before its page opens, or once it succeeded.
TabRow(t) ==
    /\ ~Exists(t) => page[t] = "none"
    /\ db.granted[t] <= 1 /\ (db.granted[t] = 1 => Exists(t) /\ db.rows[t].status = "succeeded")
    /\ page[t] = "none" => money[t] = "none" /\ (\A e \in events : e[1] # t)
                           /\ my["return"].pay # t /\ my["hook"].pay # t
ReturnAt ==
    /\ at["return"] \in {"idle", "verify", "mark", "capture", "record"}
    /\ IF at["return"] = "idle" THEN my["return"].pay = None
       ELSE my["return"].pay \in Tabs /\ Exists(my["return"].pay)
    /\ at["return"] = "mark" => my["return"].copy \in Row
    /\ at["return"] = "record" => my["return"].got \in Heard
HookAt ==
    /\ at["hook"] \in {"idle", "capture"}
    /\ IF at["hook"] = "idle" THEN my["hook"].pay = None
       ELSE /\ my["hook"].pay \in Tabs /\ Exists(my["hook"].pay)
            /\ Event(my["hook"].pay, "approved", 1) \in events
SweepAt ==
    /\ at["sweep"] \in {"idle", "ask", "reconcile", "give_up"}
    /\ IF at["sweep"] = "idle" THEN my["sweep"].pay = None
       ELSE my["sweep"].pay \in Payments /\ Exists(my["sweep"].pay)
    /\ at["sweep"] = "give_up" /\ my["sweep"].pay = Renewal => Good(my["sweep"].copy)
    /\ at["sweep"] \in {"ask", "reconcile"} => scene.provider = "paypal"
    /\ at["sweep"] = "reconcile" => my["sweep"].got \in Heard \cup {"unknown"}
    /\ at["sweep"] = "reconcile" /\ my["sweep"].got = "succeeded" => money[my["sweep"].pay] = "taken"
HandsOK == /\ \A r \in Runs : RunAt(r)
           /\ \A t \in Tabs : TabAt(t) /\ TabRow(t)
           /\ ReturnAt /\ HookAt /\ SweepAt
RowsOK == \A p \in Payments : db.ledger[p] <= Price /\ (Exists(p) => Good(db.rows[p]))

\* The saved method is charged by whoever claimed the row, and nothing opens
\* the claim again.
Closed == Exists(Renewal) /\ ~Claimable(db.rows[Renewal])
ChargeInv ==
    /\ \A t \in Tabs : charges[t] = 0
    /\ charges[Renewal] <= 1
    /\ charges[Renewal] = 1 => Closed
    /\ \A r \in Runs : /\ at[r] = "charge" => charges[Renewal] = 0 /\ Closed
                       /\ at[r] = "answer" => charges[Renewal] = 1
    /\ \A r, s \in Runs : at[r] \in Charging /\ at[s] \in Charging => r = s
    /\ money[Renewal] # "none" => charges[Renewal] = 1 /\ scene.provider \in Cards
    /\ \A e \in events : e[1] = Renewal => /\ charges[Renewal] = 1
                                           /\ e[2] = "succeeded" => e = PaidEvent /\ money[Renewal] = "taken"

\* The sweep takes up the renewal payment when no run works on it and none will.
Cold == /\ Exists(Renewal) /\ \A r \in Runs : at[r] \notin Crediting \cup Charging
        /\ Closed \/ (~Renewable(db.sub) /\ \A r \in Runs : at[r] = "idle")
AgeInv ==
    /\ Exists(Renewal) /\ db.rows[Renewal].status = "pending" =>
          /\ Aged(db.rows[Renewal]) => Cold
          /\ db.rows[Renewal].started => db.rows[Renewal].claimed
    /\ my["sweep"].pay = Renewal => Cold

\* Once the renewal payment has granted, it is paid, or it was failed by a copy
\* and every way to grant again is spent.
OneRun == scene.credit = 0 \/ \A r, s \in scene.runs : r = s
Holding == my["sweep"].pay = Renewal \/ \E r \in Runs : at[r] = "answer"
Spent == PaidEvent \in handled /\ \A r \in Runs : at[r] = "answer" => my[r].got # "succeeded"
GrantInv ==
    /\ db.granted[Renewal] <= 1
    /\ db.granted[Renewal] = 1 =>
          /\ Closed /\ \A r \in Runs : at[r] # "charge"
          /\ Holding => PaidEvent \in handled
          /\ db.rows[Renewal].status = "succeeded" \/ Spent
    /\ \A r \in Runs : at[r] \in Crediting =>
          /\ scene.credit = 0 => at[r] = "apply"
          /\ scene.credit # 0 => charges[Renewal] = 0 /\ db.granted[Renewal] = 0
          /\ at[r] = "grant" => db.rows[Renewal].status = "succeeded"

\* A payment is given up by nobody while its credit is being taken.
NoneShare == scene.credit = 0 \/ ((\A r, s \in scene.runs : r = s) /\ \A t, u \in scene.tabs : t = u)
Fresh(p) == /\ db.rows[p].status = "pending" /\ ~db.rows[p].day /\ ~db.rows[p].started
            /\ my["sweep"].pay # p
CreditInv ==
    /\ \A p \in Payments : Exists(p) /\ db.rows[p].status \in GivenUp => db.ledger[p] = 0
    /\ scene.credit # 0 => \A x \in Runs \cup Tabs : at[x] = "apply" => Fresh(my[x].pay)

\* What is left and what payments hold add up to the credit that was granted.
Balanced == db.balance + SumOf(db.ledger, Payments) = scene.credit

Base == TypeOK /\ Balanced /\ RowsOK /\ HandsOK /\ ChargeInv /\ AgeInv
IInv == Base /\ (OneRun => GrantInv) /\ (NoneShare => CreditInv)

-----------------------------------------------------------------------------
(* Types of a step.                                                        *)

LEMMA TypeParts ==
    ASSUME TypeOK
    PROVE  /\ scene \in Scene /\ scene.credit \in Nat
           /\ db \in Db /\ db.balance \in 0..scene.credit /\ db.ledger \in [Payments -> 0..scene.credit]
           /\ at \in [Procs -> Places] /\ my \in [Procs -> Hand]
           /\ page \in [Payments -> {"none", "open", "approved"}]
           /\ money \in [Payments -> {"none", "pending", "taken", "refused"}]
           /\ charges \in [Payments -> Nat]
<1>1. scene \in Scene /\ scene.credit \in Nat
  BY PaymentAssumption DEF TypeOK, Scene
<1>2. \A n \in 0..scene.credit : n \in Nat
  BY <1>1
<1>3. db \in Db /\ db.balance \in 0..scene.credit /\ db.ledger \in [Payments -> 0..scene.credit]
  BY <1>2 DEF TypeOK, Db
<1> QED BY <1>1, <1>3 DEF TypeOK, Places, Hand

\* One payment's books change by a transfer: the types and the balance hold.
LEMMA BooksKept ==
    ASSUME TypeOK, Balanced, scene' = scene, NEW p \in Payments, OnlyAt(db, db', p)
    PROVE  /\ Balanced'
           /\ db' \in [rows : [Payments -> Row \cup {None}], balance : 0..scene'.credit,
                      ledger : [Payments -> 0..scene'.credit], granted : [Payments -> Nat], sub : Subscription]
<1>1. /\ db \in Db /\ db' \in Db /\ scene.credit \in Nat
      /\ \A q \in Payments \ {p} : db'.ledger[q] = db.ledger[q]
      /\ db'.balance + db'.ledger[p] = db.balance + db.ledger[p]
  BY TypeParts DEF OnlyAt
<1> DEFINE f == db.ledger
           h == db'.ledger
<1>2. f \in [Payments -> Nat] /\ h \in [Payments -> Nat] /\ db.balance \in Nat /\ db'.balance \in Nat
  BY <1>1 DEF Db
<1>3. f \in [Payments -> Int] /\ h \in [Payments -> Int] /\ f[p] \in Nat /\ h[p] \in Nat
  BY <1>2
<1>4. SumOf(f, Payments) \in Int /\ SumOf(h, Payments) = SumOf(f, Payments) + h[p] - f[p]
  <2>1. \A q \in Payments \ {p} : h[q] = f[q]
    BY <1>1
  <2> HIDE DEF f, h
  <2> QED BY <1>3, <2>1, PriceTyped, SumChanges
<1>5. db.balance + SumOf(f, Payments) = scene.credit
  BY DEF Balanced
<1>6. db'.balance + SumOf(h, Payments) = scene.credit
  BY <1>1, <1>2, <1>3, <1>4, <1>5
<1>7. SumOf(h, Payments) \in Nat /\ \A q \in Payments : h[q] <= SumOf(h, Payments)
  <2> HIDE DEF h
  <2> QED BY <1>2, PriceTyped, SumBounds
<1>8. db'.balance \in 0..scene.credit /\ \A q \in Payments : h[q] \in 0..scene.credit
  BY <1>1, <1>2, <1>6, <1>7
<1>9. h \in [Payments -> 0..scene.credit]
  BY <1>2, <1>8
<1> QED BY <1>1, <1>6, <1>8, <1>9 DEF Balanced, Db

LEMMA IdleTyped == Idle \in Hand /\ Idle.pay = None /\ Idle.todo = {} /\ Idle.got = "none"
BY DEF Idle, Hand, Results

LEMMA LeaveMoves ==
    ASSUME TypeOK, NEW x \in Procs, Leave(x)
    PROVE  /\ at' \in [Procs -> Places] /\ my' \in [Procs -> Hand]
           /\ at'[x] = "idle" /\ my'[x] = Idle
           /\ \A y \in Procs \ {x} : at'[y] = at[y] /\ my'[y] = my[y]
BY TypeParts, IdleTyped DEF Leave, Places

LEMMA GotoMoves ==
    ASSUME TypeOK, NEW x \in Procs, NEW to \in Places, Goto(x, to)
    PROVE  /\ at' \in [Procs -> Places] /\ at'[x] = to
           /\ \A y \in Procs \ {x} : at'[y] = at[y]
BY TypeParts DEF Goto

LEMMA HandMoves ==
    ASSUME TypeOK, NEW x \in Procs, NEW hand \in Hand, my' = [my EXCEPT ![x] = hand]
    PROVE  /\ my' \in [Procs -> Hand] /\ my'[x] = hand
           /\ \A y \in Procs \ {x} : my'[y] = my[y]
BY TypeParts

LEMMA TakeMoves ==
    ASSUME TypeOK, NEW x \in Procs, NEW p \in Payments, NEW row \in Row \cup {None}, NEW to \in Places,
           Take(x, p, row, to)
    PROVE  /\ at' \in [Procs -> Places] /\ my' \in [Procs -> Hand]
           /\ at'[x] = to /\ my'[x].pay = p /\ my'[x].copy = row /\ my'[x].todo = {}
           /\ \A y \in Procs \ {x} : at'[y] = at[y] /\ my'[y] = my[y]
<1>1. PICK hand \in Hand : hand = [Idle EXCEPT !.pay = p, !.copy = row]
  BY DEF Idle, Hand, Results
<1>2. hand.pay = p /\ hand.copy = row /\ hand.todo = {}
  BY <1>1 DEF Idle
<1>3. Goto(x, to) /\ my' = [my EXCEPT ![x] = hand]
  BY <1>1 DEF Take
<1> QED BY <1>2, <1>3, GotoMoves, HandMoves

LEMMA GotMoves ==
    ASSUME TypeOK, NEW x \in Procs, NEW got \in Results, NEW to \in Places,
           my' = [my EXCEPT ![x].got = got], Goto(x, to)
    PROVE  /\ at' \in [Procs -> Places] /\ my' \in [Procs -> Hand]
           /\ at'[x] = to /\ my'[x].pay = my[x].pay /\ my'[x].copy = my[x].copy
           /\ my'[x].todo = my[x].todo /\ my'[x].got = got
           /\ \A y \in Procs \ {x} : at'[y] = at[y] /\ my'[y] = my[y]
<1>1. my[x] \in Hand
  BY TypeParts
<1>2. PICK hand \in Hand : hand = [my[x] EXCEPT !.got = got]
  BY <1>1 DEF Hand
<1>3. hand.pay = my[x].pay /\ hand.copy = my[x].copy /\ hand.todo = my[x].todo /\ hand.got = got
  BY <1>1, <1>2 DEF Hand
<1>4. my' = [my EXCEPT ![x] = hand]
  BY <1>2
<1> QED BY <1>3, <1>4, GotoMoves, HandMoves

-----------------------------------------------------------------------------
(* What a step leaves as it was.                                           *)

Stays(x) == at'[x] = at[x] /\ my'[x] = my[x]
There == \A p \in Payments : Exists(p) => db'.rows[p] # None
MoneyStays == \A p \in Payments : money[p] = "taken" => money'[p] = "taken"

\* Nothing new is said of a checkout whose page nobody opened, and it succeeds
\* only on what was said.
TabTold(t) ==
    /\ page'[t] = "none" <=> page[t] = "none"
    /\ page[t] = "none" => /\ money'[t] = money[t] /\ \A e \in events' : e[1] = t => e \in events
                           /\ my'["return"].pay = t => my["return"].pay = t
                           /\ my'["hook"].pay = t => my["hook"].pay = t
TabRuled(t) == \E said : Effect(db, db', t, said) /\ (said = "succeeded" => page[t] # "none")

LEMMA ProcTyped ==
    /\ Runs \subseteq Procs /\ Tabs \subseteq Procs /\ Watchers \subseteq Procs
    /\ "return" \in Watchers /\ "hook" \in Watchers /\ "sweep" \in Watchers
    /\ Tabs \subseteq Payments /\ Renewal \in Payments /\ Renewal \notin Tabs /\ None \notin Payments
    /\ \A r \in Runs : r \notin Tabs /\ r \notin Watchers
    /\ \A t \in Tabs : t \notin Watchers
BY PaymentAssumption DEF Procs, Watchers, Payments

LEMMA RunKept ==
    ASSUME NEW r \in Runs, RunAt(r), Stays(r), scene' = scene, There
    PROVE  RunAt(r)'
BY ProcTyped DEF RunAt, Stays, There, Exists, Good

LEMMA TabKept ==
    ASSUME TypeOK, NEW t \in Tabs, TabAt(t), TabRow(t), Stays(t), TabTold(t), TabRuled(t), scene' = scene, There
    PROVE  TabAt(t)' /\ TabRow(t)'
<1>1. PICK said : Effect(db, db', t, said) /\ (said = "succeeded" => page[t] # "none")
  BY DEF TabRuled
<1>2. t \in Payments /\ t \in Procs /\ db \in Db /\ db.granted[t] \in Nat
  BY TypeParts, ProcTyped, DbTyped
<1>3. Exists(t)' <=> Exists(t)
  BY <1>1, <1>2, NoneAssumption DEF Effect, SameAt, Marked, Dropped, Paid, Exists
<1>4. db.rows[t].status = "succeeded" /\ Exists(t) => db'.rows[t].status = "succeeded"
  BY <1>1 DEF Effect, SameAt, Marked, Exists
<1>5. at[t] # "idle" => page[t] = "none"
  BY DEF TabAt
<1>6. page[t] = "none" => db'.granted[t] = db.granted[t]
  BY <1>1 DEF Effect, SameAt, SameBooks, Marked, Dropped
<1>7. TabAt(t)'
  <2>1. \A q \in my'[t].todo : Exists(q)'
    BY <1>2, TypeParts, ProcTyped DEF TabAt, Stays, There, Exists, Hand
  <2>2. at[t] = "grant" => Exists(t)
    BY DEF TabAt
  <2>3. page'[t] = "none" <=> page[t] = "none"
    BY DEF TabTold
  <2> QED BY <1>3, <1>4, <1>5, <1>6, <2>1, <2>2, <2>3 DEF TabAt, Stays, Good
<1>8. TabRow(t)'
  <2>1. db'.granted[t] <= 1 /\ (db'.granted[t] = 1 => Exists(t)' /\ db'.rows[t].status = "succeeded")
    <3>1. db.granted[t] <= 1 /\ (db.granted[t] = 1 => Exists(t) /\ db.rows[t].status = "succeeded")
      BY DEF TabRow
    <3>2. CASE db'.granted[t] = db.granted[t]
      BY <1>3, <1>4, <3>1, <3>2
    <3>3. CASE db'.granted[t] # db.granted[t]
      <4>1. db.rows[t] \in Row /\ db.rows[t].status # "succeeded" /\ Paid(db, db', t)
        BY <1>1, <3>3 DEF Effect, SameAt, SameBooks, Marked, Dropped
      <4>2. db.granted[t] = 0
        BY <1>2, <3>1, <4>1
      <4>3. db'.granted[t] = 1 /\ db'.rows[t].status = "succeeded" /\ db'.rows[t] # None
        BY <4>1, <4>2, NoneAssumption DEF Paid
      <4> QED BY <4>3 DEF Exists
    <3> QED BY <3>2, <3>3
  <2>2. /\ ~Exists(t)' => page'[t] = "none"
        /\ page'[t] = "none" => page[t] = "none"
    BY <1>3 DEF TabRow, TabTold
  <2>3. page[t] = "none" => /\ money'[t] = "none" /\ (\A e \in events' : e[1] # t)
                            /\ my'["return"].pay # t /\ my'["hook"].pay # t
    BY DEF TabRow, TabTold
  <2> QED BY <2>1, <2>2, <2>3 DEF TabRow
<1> QED BY <1>7, <1>8

LEMMA WatchersKept ==
    ASSUME There, scene' = scene, MoneyStays, events \subseteq events'
    PROVE  /\ ReturnAt /\ Stays("return") => ReturnAt'
           /\ HookAt /\ Stays("hook") => HookAt'
           /\ SweepAt /\ Stays("sweep") => SweepAt'
<1>1. ReturnAt /\ Stays("return") => ReturnAt'
  BY ProcTyped DEF ReturnAt, Stays, There, Exists, Heard
<1>2. HookAt /\ Stays("hook") => HookAt'
  BY ProcTyped DEF HookAt, Stays, There, Exists, Event
<1>3. SweepAt /\ Stays("sweep") => SweepAt'
  BY ProcTyped DEF SweepAt, Stays, There, Exists, Good, MoneyStays, Heard
<1> QED BY <1>1, <1>2, <1>3

\* Everybody's hands, when all but the one who moves stay as they were.
LEMMA HandsKept ==
    ASSUME TypeOK, HandsOK, There, scene' = scene, MoneyStays, events \subseteq events',
           \A r \in Runs : Stays(r) \/ RunAt(r)',
           \A t \in Tabs : (Stays(t) /\ TabTold(t) /\ TabRuled(t)) \/ (TabAt(t)' /\ TabRow(t)'),
           Stays("return") \/ ReturnAt', Stays("hook") \/ HookAt', Stays("sweep") \/ SweepAt'
    PROVE  HandsOK'
<1>1. \A r \in Runs : RunAt(r)'
  BY RunKept DEF HandsOK
<1>2. \A t \in Tabs : TabAt(t)' /\ TabRow(t)'
  BY TabKept DEF HandsOK
<1>3. ReturnAt' /\ HookAt' /\ SweepAt'
  BY WatchersKept DEF HandsOK
<1> QED BY <1>1, <1>2, <1>3 DEF HandsOK

\* The row of a payment after a step that may have changed p.
LEMMA RowsKept ==
    ASSUME TypeOK, RowsOK, scene' = scene, NEW p \in Payments, OnlyAt(db, db', p),
           (\E said : Effect(db, db', p, said)) \/ (db'.rows[p] # None => Good(db'.rows[p]))
    PROVE  RowsOK'
<1>0. db \in Db /\ db' \in Db /\ Price \in Nat
  BY TypeParts, PriceTyped DEF OnlyAt
<1>1. \A q \in Payments : db.ledger[q] \in Nat /\ db'.ledger[q] \in Nat
  BY <1>0, DbTyped
<1>2. ASSUME NEW q \in Payments PROVE db'.ledger[q] <= Price
  <2>1. db.ledger[q] <= Price /\ db.ledger[p] <= Price
    BY DEF RowsOK
  <2>2. q # p => db'.ledger[q] = db.ledger[q]
    BY DEF OnlyAt
  <2>3. db'.ledger[p] <= Price
    BY <2>1 DEF OnlyAt
  <2> QED BY <1>0, <1>1, <2>1, <2>2, <2>3
<1>3. ASSUME NEW q \in Payments, db'.rows[q] # None PROVE Good(db.rows[q])'
  <2>1. db.rows[q] # None => Good(db.rows[q])
    BY DEF RowsOK, Exists
  <2>2. q # p => db'.rows[q] = db.rows[q]
    BY DEF OnlyAt
  <2>3. q = p => Good(db'.rows[q])
    BY <1>3, <2>1, NoneAssumption DEF Effect, SameAt, Marked, Dropped, Paid, Good
  <2> QED BY <1>3, <2>1, <2>2, <2>3 DEF Good
<1> QED BY <1>2, <1>3 DEF RowsOK, Exists

ClosedStays == Closed => Closed'

LEMMA EffectCloses ==
    ASSUME NEW said, Effect(db, db', Renewal, said)
    PROVE  /\ ClosedStays
           /\ Exists(Renewal) /\ db.rows[Renewal].status = "succeeded" => db'.rows[Renewal].status = "succeeded"
BY NoneAssumption DEF Effect, SameAt, Marked, Dropped, Paid, ClosedStays, Closed, Claimable, Exists, GivenUp

\* Nothing new is said of the renewal unless it was charged.
RenewalTold ==
    /\ money'[Renewal] # "none" => money[Renewal] # "none"
    /\ \A e \in events' : e[1] = Renewal /\ e \notin events =>
          charges[Renewal] = 1 /\ (e[2] = "succeeded" => e = PaidEvent /\ money'[Renewal] = "taken")

LEMMA ChargeKept ==
    ASSUME ChargeInv, scene' = scene, charges' = charges, ClosedStays, MoneyStays, RenewalTold,
           \A r \in Runs : at'[r] \in Charging => at'[r] = at[r]
    PROVE  ChargeInv'
<1>1. /\ \A t \in Tabs : charges'[t] = 0
      /\ charges'[Renewal] <= 1
      /\ charges'[Renewal] = 1 => Closed'
  BY DEF ChargeInv, ClosedStays
<1>2. \A r \in Runs : /\ at'[r] = "charge" => charges'[Renewal] = 0 /\ Closed'
                      /\ at'[r] = "answer" => charges'[Renewal] = 1
  BY DEF ChargeInv, ClosedStays, Charging
<1>3. \A r, s \in Runs : at'[r] \in Charging /\ at'[s] \in Charging => r = s
  BY DEF ChargeInv
<1>4. money'[Renewal] # "none" => charges'[Renewal] = 1 /\ scene'.provider \in Cards
  BY DEF ChargeInv, RenewalTold
<1>5. \A e \in events' : e[1] = Renewal => /\ charges'[Renewal] = 1
                                           /\ e[2] = "succeeded" => e = PaidEvent' /\ money'[Renewal] = "taken"
  <2>1. PaidEvent' = PaidEvent
    BY DEF PaidEvent, Event
  <2>2. money[Renewal] = "taken" => money'[Renewal] = "taken"
    BY ProcTyped DEF MoneyStays
  <2> QED BY <2>1, <2>2 DEF ChargeInv, RenewalTold
<1> QED BY <1>1, <1>2, <1>3, <1>4, <1>5 DEF ChargeInv

\* A renewal that is pending after the step was pending before, and as old and
\* as started as now, or it is cold.
AgeTold ==
    Exists(Renewal)' /\ db'.rows[Renewal].status = "pending" =>
        \/ /\ Exists(Renewal) /\ db.rows[Renewal].status = "pending"
           /\ db'.rows[Renewal].started => db.rows[Renewal].started
           /\ db.rows[Renewal].claimed => db'.rows[Renewal].claimed
           /\ Aged(db'.rows[Renewal]) => Aged(db.rows[Renewal]) \/ Cold'
        \/ /\ db'.rows[Renewal].started => db'.rows[Renewal].claimed
           /\ ~Aged(db'.rows[Renewal])

LEMMA AgeKept ==
    ASSUME AgeInv, AgeTold, Cold => Cold', my'["sweep"].pay = Renewal => my["sweep"].pay = Renewal \/ Cold'
    PROVE  AgeInv'
BY DEF AgeInv, AgeTold

LEMMA ColdKept ==
    ASSUME Cold, There, ClosedStays, Renewable(db'.sub) => Renewable(db.sub),
           \A r \in Runs : at'[r] = at[r]
                           \/ (at'[r] \notin Crediting \cup Charging /\ (at[r] = "idle" => Closed))
    PROVE  Cold'
<1>1. Exists(Renewal)'
  BY ProcTyped DEF Cold, There, Exists
<1>2. \A r \in Runs : at'[r] \notin Crediting \cup Charging
  BY DEF Cold
<1>3. Closed' \/ (~Renewable(db'.sub) /\ \A r \in Runs : at'[r] = "idle")
  <2>1. CASE Closed
    BY <2>1 DEF ClosedStays
  <2>2. CASE ~Closed
    BY <2>2 DEF Cold
  <2> QED BY <2>1, <2>2
<1> QED BY <1>1, <1>2, <1>3 DEF Cold

\* What holds of a run that pays the renewal with credit.
CreditingAt(r) ==
    at[r] \in Crediting =>
          /\ scene.credit = 0 => at[r] = "apply"
          /\ scene.credit # 0 => charges[Renewal] = 0 /\ db.granted[Renewal] = 0
          /\ at[r] = "grant" => db.rows[Renewal].status = "succeeded"

\* The renewal grants nothing in the step, and holds on to what it was.
LEMMA GrantKept ==
    ASSUME GrantInv, db'.granted[Renewal] = db.granted[Renewal], ClosedStays,
           PaidEvent \in handled => PaidEvent \in handled',
           \A r \in Runs : at'[r] \in Charging => at'[r] = at[r] /\ my'[r].got = my[r].got,
           db.granted[Renewal] = 1 =>
               /\ my'["sweep"].pay = Renewal => my["sweep"].pay = Renewal \/ db.rows[Renewal].status # "succeeded"
               /\ db.rows[Renewal].status = "succeeded" =>
                     db'.rows[Renewal].status = "succeeded"
                     \/ (PaidEvent \in handled /\ \A r \in Runs : at'[r] # "answer"),
           \A r \in Runs : CreditingAt(r)'
    PROVE  GrantInv'
<1>1. db'.granted[Renewal] <= 1
  BY DEF GrantInv
<1>2. ASSUME db'.granted[Renewal] = 1
      PROVE  /\ Closed' /\ \A r \in Runs : at'[r] # "charge"
             /\ Holding' => PaidEvent \in handled'
             /\ db'.rows[Renewal].status = "succeeded" \/ Spent'
  <2>1. /\ Closed /\ \A r \in Runs : at[r] # "charge"
        /\ Holding => PaidEvent \in handled
        /\ db.rows[Renewal].status = "succeeded" \/ Spent
    BY <1>2 DEF GrantInv
  <2>2. Closed' /\ \A r \in Runs : at'[r] # "charge"
    BY <2>1 DEF ClosedStays, Charging
  <2>3. ASSUME Holding' PROVE PaidEvent \in handled'
    <3>1. Holding \/ db.rows[Renewal].status # "succeeded"
      BY <1>2, <2>3 DEF Holding, Charging
    <3> QED BY <2>1, <3>1 DEF Spent
  <2>4. db'.rows[Renewal].status = "succeeded" \/ Spent'
    <3>1. Spent => Spent'
      BY DEF Spent, Charging, PaidEvent, Event
    <3>2. PaidEvent \in handled /\ (\A r \in Runs : at'[r] # "answer") => Spent'
      BY DEF Spent, PaidEvent, Event
    <3> QED BY <1>2, <2>1, <3>1, <3>2
  <2> QED BY <2>2, <2>3, <2>4
<1>3. \A r \in Runs : CreditingAt(r)'
  OBVIOUS
<1> QED BY <1>1, <1>2, <1>3 DEF GrantInv, CreditingAt, PaidEvent, Event

\* A run that pays with credit as before.
LEMMA CreditingKept ==
    ASSUME NEW r \in Runs, CreditingAt(r), Stays(r), scene' = scene, charges' = charges,
           scene.credit # 0 /\ at[r] \in Crediting => db'.granted[Renewal] = db.granted[Renewal],
           db.rows[Renewal].status = "succeeded" /\ at[r] = "grant" => db'.rows[Renewal].status = "succeeded"
    PROVE  CreditingAt(r)'
BY DEF CreditingAt, Stays, Crediting

\* No payment that was given up holds credit, after a step that changed p.
LEMMA GivenUpKept ==
    ASSUME CreditInv, NEW p \in Payments, OnlyAt(db, db', p),
           \/ \E said : Effect(db, db', p, said)
           \/ db'.ledger[p] = 0
           \/ db'.rows[p] = None
           \/ db'.rows[p] # None /\ db'.rows[p].status \notin GivenUp
           \/ SameBooks(db, db', p) /\ db.rows[p] # None /\ db'.rows[p].status = db.rows[p].status,
           scene'.credit # 0 => \A x \in Runs \cup Tabs : at'[x] = "apply" => Fresh(my[x].pay)'
    PROVE  CreditInv'
<1>1. ASSUME NEW q \in Payments, db'.rows[q] # None, db'.rows[q].status \in GivenUp PROVE db'.ledger[q] = 0
  <2>1. db.rows[q] # None /\ db.rows[q].status \in GivenUp => db.ledger[q] = 0
    BY DEF CreditInv, Exists
  <2>2. CASE q # p
    BY <1>1, <2>1, <2>2 DEF OnlyAt
  <2>3. CASE q = p
    BY <1>1, <2>1, <2>3, NoneAssumption DEF Effect, SameAt, SameBooks, Marked, Dropped, Paid, GivenUp
  <2> QED BY <2>2, <2>3
<1> QED BY <1>1 DEF CreditInv, Exists

LEMMA FreshKept ==
    ASSUME NEW q, Fresh(q), db'.rows[q] = db.rows[q], my'["sweep"].pay = q => my["sweep"].pay = q
    PROVE  Fresh(q)'
BY DEF Fresh

-----------------------------------------------------------------------------
(* Steps of the provider, the customer, the return, the webhooks, the      *)
(* sweep and time: no run and no checkout moves.                           *)

Touches(p) == \/ my["sweep"].pay = p \/ Untouched(p)
              \/ p \in Tabs /\ page[p] # "none"
              \/ p = Renewal /\ charges[Renewal] = 1
Watch(p, said) ==
    /\ scene' = scene /\ charges' = charges /\ handled \subseteq handled' /\ events \subseteq events'
    /\ \A x \in Runs \cup Tabs : Stays(x)
    /\ \A t \in Tabs : TabTold(t)
    /\ MoneyStays /\ RenewalTold
    /\ \A q \in Payments : my'["sweep"].pay = q => my["sweep"].pay = q \/ Listed(q)
    /\ Ruled(db, db', p, said) /\ (SameAt(db, db', p) \/ Touches(p))
    /\ said = "succeeded" => IF p = Renewal THEN PaidEvent \in events /\ PaidEvent \in handled' \ handled
                             ELSE page[p] # "none"
    /\ NoOlder(db, db') \/ (Cold /\ (db'.rows[Renewal].started => db.rows[Renewal].started))

LEMMA BaseParts ==
    ASSUME IInv
    PROVE  /\ TypeOK /\ Balanced /\ RowsOK /\ HandsOK /\ ChargeInv /\ AgeInv
           /\ (OneRun => GrantInv) /\ (NoneShare => CreditInv)
BY DEF IInv, Base

LEMMA WatchBase ==
    ASSUME IInv, TypeOK', NEW p \in Payments, NEW said, Watch(p, said),
           Stays("return") \/ ReturnAt', Stays("hook") \/ HookAt', Stays("sweep") \/ SweepAt'
    PROVE  Base' /\ ClosedStays /\ Effect(db, db', Renewal, IF p = Renewal THEN said ELSE "failed")
<1>1. TypeOK /\ Balanced /\ RowsOK /\ HandsOK /\ ChargeInv /\ AgeInv
  BY BaseParts
<1>2. OnlyAt(db, db', p) /\ Effect(db, db', p, said) /\ scene' = scene /\ charges' = charges
  BY DEF Watch, Ruled
<1>3. Balanced'
  BY <1>1, <1>2, BooksKept
<1>4. There
  BY <1>2 DEF OnlyAt, There, Exists
<1>5. \A q \in Payments \ {p} : SameAt(db, db', q)
  BY <1>2 DEF OnlyAt, SameAt, SameBooks
<1>6. Effect(db, db', Renewal, IF p = Renewal THEN said ELSE "failed")
  BY <1>2, <1>5, ProcTyped DEF Effect
<1>7. ClosedStays
  BY <1>6, EffectCloses
<1>8. RowsOK'
  BY <1>1, <1>2, RowsKept
<1>9. HandsOK'
  <2>1. \A t \in Tabs : Stays(t) /\ TabTold(t)
    BY DEF Watch
  <2>2. \A t \in Tabs : TabRuled(t)
    <3> SUFFICES ASSUME NEW t \in Tabs PROVE TabRuled(t)
      OBVIOUS
    <3>1. CASE t = p
      <4>1. said = "succeeded" => page[t] # "none"
        BY <3>1, ProcTyped DEF Watch
      <4> QED BY <1>2, <3>1, <4>1 DEF TabRuled
    <3>2. CASE t # p
      <4>1. Effect(db, db', t, "failed")
        BY <1>5, <3>2, ProcTyped DEF Effect
      <4> QED BY <4>1 DEF TabRuled
    <3> QED BY <3>1, <3>2
  <2>3. (\A r \in Runs : Stays(r)) /\ MoneyStays /\ events \subseteq events'
    BY DEF Watch
  <2> QED BY <1>1, <1>2, <1>4, <2>1, <2>2, <2>3, HandsKept
<1>10. ChargeInv'
  <2>1. MoneyStays /\ RenewalTold /\ \A r \in Runs : at'[r] = at[r]
    BY DEF Watch, Stays
  <2> QED BY <1>1, <1>2, <1>7, <2>1, ChargeKept
<1>11. AgeInv'
  <2>1. \A r \in Runs : at'[r] = at[r]
    BY DEF Watch, Stays
  <2>2. Cold => Cold'
    BY <1>2, <1>4, <1>7, <2>1, ColdKept DEF OnlyAt
  <2>3. my'["sweep"].pay = Renewal => my["sweep"].pay = Renewal \/ Cold
    <3>1. Listed(Renewal) => Cold
      <4>1. Listed(Renewal) => Exists(Renewal) /\ db.rows[Renewal].status = "pending" /\ Aged(db.rows[Renewal])
        BY DEF Listed, Overdue, Recheck, Aged
      <4> QED BY <1>1, <4>1 DEF AgeInv
    <3> QED BY <3>1, ProcTyped DEF Watch
  <2>4. AgeTold
    <3> SUFFICES ASSUME Exists(Renewal)', db'.rows[Renewal].status = "pending" PROVE AgeTold
      BY DEF AgeTold
    <3>1. /\ Exists(Renewal) /\ db.rows[Renewal].status = "pending"
          /\ db.rows[Renewal].claimed => db'.rows[Renewal].claimed
      BY <1>6, NoneAssumption DEF Effect, SameAt, Marked, Dropped, Paid, GivenUp, Exists
    <3>2. NoOlder(db, db') \/ (Cold /\ (db'.rows[Renewal].started => db.rows[Renewal].started))
      BY DEF Watch
    <3>3. /\ db'.rows[Renewal].started => db.rows[Renewal].started
          /\ Aged(db'.rows[Renewal]) => Aged(db.rows[Renewal]) \/ Cold
      BY <3>2 DEF NoOlder, Exists
    <3> QED BY <2>2, <3>1, <3>3 DEF AgeTold
  <2> QED BY <1>1, <2>2, <2>3, <2>4, AgeKept
<1> QED BY <1>3, <1>6, <1>7, <1>8, <1>9, <1>10, <1>11 DEF Base

\* A webhook of the renewal finds nothing left to grant twice.
LEMMA WatchGrant ==
    ASSUME IInv, OneRun, TypeOK', NEW p \in Payments, NEW said, Watch(p, said), ClosedStays,
           Effect(db, db', Renewal, IF p = Renewal THEN said ELSE "failed")
    PROVE  GrantInv'
<1>1. TypeOK /\ ChargeInv /\ AgeInv /\ GrantInv
  BY BaseParts
<1>2. scene' = scene /\ charges' = charges /\ handled \subseteq handled' /\ \A r \in Runs : Stays(r)
  BY DEF Watch
<1>3. db.granted[Renewal] \in Nat /\ db.granted[Renewal] <= 1 /\ Renewal \in Payments
  BY <1>1, TypeParts, ProcTyped, DbTyped DEF GrantInv
<1>4. my'["sweep"].pay = Renewal => my["sweep"].pay = Renewal \/ db.rows[Renewal].status # "succeeded"
  BY <1>3 DEF Watch, Listed
<1>5. db.granted[Renewal] = 1 => Exists(Renewal)
  BY <1>1 DEF GrantInv, Closed
<1>6. CASE db'.granted[Renewal] = db.granted[Renewal]
  <2>1. \A r \in Runs : CreditingAt(r)'
    <3> SUFFICES ASSUME NEW r \in Runs PROVE CreditingAt(r)'
      OBVIOUS
    <3>1. CreditingAt(r) /\ Stays(r)
      BY <1>1, <1>2 DEF GrantInv, CreditingAt
    <3>2. db.rows[Renewal].status = "succeeded" /\ at[r] = "grant" => db'.rows[Renewal].status = "succeeded"
      <4>1. at[r] = "grant" => Exists(Renewal)
        BY <1>1, BaseParts DEF HandsOK, RunAt
      <4> QED BY <4>1, EffectCloses
    <3> QED BY <1>2, <1>6, <3>1, <3>2, CreditingKept
  <2>2. db.granted[Renewal] = 1 /\ db.rows[Renewal].status = "succeeded" => db'.rows[Renewal].status = "succeeded"
    BY <1>5, EffectCloses
  <2>3. \A r \in Runs : at'[r] \in Charging => at'[r] = at[r] /\ my'[r].got = my[r].got
    BY <1>2 DEF Stays
  <2> QED BY <1>1, <1>2, <1>4, <1>6, <2>1, <2>2, <2>3, GrantKept
<1>7. CASE db'.granted[Renewal] # db.granted[Renewal]
  <2>1. p = Renewal /\ said = "succeeded"
    BY <1>7 DEF Effect, SameAt, SameBooks, Marked, Dropped
  <2>2. db.rows[Renewal] \in Row /\ db.rows[Renewal].status # "succeeded" /\ Paid(db, db', Renewal)
    BY <1>7 DEF Effect, SameAt, SameBooks, Marked, Dropped
  <2>3. PaidEvent \in events /\ PaidEvent \in handled' /\ PaidEvent \notin handled
    BY <2>1 DEF Watch
  <2>4. charges[Renewal] = 1
    <3>1. PaidEvent[1] = Renewal
      BY DEF PaidEvent, Event
    <3> QED BY <1>1, <2>3, <3>1 DEF ChargeInv
  <2>5. db.granted[Renewal] = 0 /\ db'.granted[Renewal] = 1
    <3>1. db.granted[Renewal] # 1
      BY <1>1, <2>2, <2>3 DEF GrantInv, Spent
    <3> QED BY <1>3, <2>2, <3>1 DEF Paid
  <2>6. Closed' /\ db'.rows[Renewal].status = "succeeded"
    BY <2>2, NoneAssumption DEF Paid, Closed, Claimable, Exists
  <2>7. \A r \in Runs : at'[r] # "charge"
    BY <1>1, <1>2, <2>4 DEF Stays, ChargeInv
  <2>8. \A r \in Runs : CreditingAt(r)'
    <3> SUFFICES ASSUME NEW r \in Runs PROVE CreditingAt(r)'
      OBVIOUS
    <3>1. CreditingAt(r) /\ Stays(r)
      BY <1>1, <1>2 DEF GrantInv, CreditingAt
    <3> QED BY <1>2, <2>4, <2>6, <3>1 DEF CreditingAt, Stays
  <2>9. PaidEvent' = PaidEvent
    BY DEF PaidEvent, Event
  <2> QED BY <2>3, <2>5, <2>6, <2>7, <2>8, <2>9 DEF GrantInv, CreditingAt
<1> QED BY <1>6, <1>7

\* The credit that is being taken is out of everybody's reach.
LEMMA ApplyingFresh ==
    ASSUME IInv, NoneShare, scene.credit # 0, NEW x \in Runs \cup Tabs, at[x] = "apply"
    PROVE  /\ Fresh(my[x].pay) /\ my[x].pay \in Payments
           /\ ~Touches(my[x].pay)
           /\ my[x].pay = IF x \in Runs THEN Renewal ELSE x
           /\ x \in Runs => charges[Renewal] = 0
<1>1. HandsOK /\ CreditInv /\ (OneRun => GrantInv)
  BY BaseParts
<1>2. OneRun
  BY DEF OneRun, NoneShare
<1>3. Fresh(my[x].pay)
  BY <1>1 DEF CreditInv
<1>4. x \in Runs => my[x].pay = Renewal /\ charges[Renewal] = 0
  BY <1>1, <1>2 DEF HandsOK, RunAt, GrantInv, Crediting
<1>5. x \in Tabs => my[x].pay = x /\ page[x] = "none"
  BY <1>1 DEF HandsOK, TabAt
<1>6. ~Untouched(my[x].pay)
  BY ProcTyped DEF Untouched, Watchers
<1>7. x \in Runs => x \notin Tabs
  BY ProcTyped
<1> QED BY <1>3, <1>4, <1>5, <1>6, <1>7, ProcTyped DEF Touches, Fresh

LEMMA WatchCredit ==
    ASSUME IInv, NoneShare, NEW p \in Payments, NEW said, Watch(p, said)
    PROVE  CreditInv'
<1>1. CreditInv
  BY BaseParts
<1>2. OnlyAt(db, db', p) /\ Effect(db, db', p, said) /\ scene' = scene
  BY DEF Watch, Ruled
<1>3. ASSUME scene'.credit # 0, NEW x \in Runs \cup Tabs, at'[x] = "apply" PROVE Fresh(my[x].pay)'
  <2>1. Stays(x)
    BY DEF Watch
  <2>2. at[x] = "apply" /\ my'[x].pay = my[x].pay /\ scene.credit # 0
    BY <1>2, <1>3, <2>1 DEF Stays
  <2>3. Fresh(my[x].pay) /\ my[x].pay \in Payments /\ ~Touches(my[x].pay)
    BY <2>2, ApplyingFresh
  <2>4. PICK q \in Payments : q = my[x].pay
    BY <2>3
  <2>5. db'.rows[q] = db.rows[q]
    BY <2>3, <2>4 DEF Watch, Ruled, OnlyAt, SameAt
  <2>6. my'["sweep"].pay = q => my["sweep"].pay = q
    <3>1. ~Listed(q)
      BY <2>3, <2>4 DEF Fresh, Listed, Overdue, Recheck
    <3> QED BY <3>1 DEF Watch
  <2>7. Fresh(q)'
    BY <2>3, <2>4, <2>5, <2>6, FreshKept
  <2> QED BY <2>2, <2>4, <2>7
<1> QED BY <1>1, <1>2, <1>3, GivenUpKept

LEMMA WatchKeeps ==
    ASSUME IInv, TypeOK', NEW p \in Payments, NEW said, Watch(p, said),
           Stays("return") \/ ReturnAt', Stays("hook") \/ HookAt', Stays("sweep") \/ SweepAt'
    PROVE  IInv'
<1>1. Base' /\ ClosedStays /\ Effect(db, db', Renewal, IF p = Renewal THEN said ELSE "failed")
  BY WatchBase
<1>2. scene' = scene
  BY DEF Watch
<1>3. OneRun' => GrantInv'
  BY <1>1, <1>2, WatchGrant DEF OneRun
<1>4. NoneShare' => CreditInv'
  BY <1>2, WatchCredit DEF NoneShare
<1> QED BY <1>1, <1>3, <1>4 DEF IInv

LEMMA TypesKept ==
    ASSUME TypeOK, Balanced, scene' = scene, NEW p \in Payments, OnlyAt(db, db', p),
           at' \in [Procs -> Places], my' \in [Procs -> Hand],
           page' \in [Payments -> {"none", "open", "approved"}],
           money' \in [Payments -> {"none", "pending", "taken", "refused"}],
           events' \subseteq Payments \X {"succeeded", "failed", "approved"} \X {1, 2},
           handled' \subseteq events', charges' \in [Payments -> Nat], faults' \in 0..MaxFaults
    PROVE  TypeOK'
<1>1. db' \in [rows : [Payments -> Row \cup {None}], balance : 0..scene'.credit,
               ledger : [Payments -> 0..scene'.credit], granted : [Payments -> Nat], sub : Subscription]
  BY BooksKept
<1>2. scene' \in Scenes
  BY DEF TypeOK
<1>3. /\ at' \in [Procs -> {"idle", "clear", "create", "apply", "save", "settle", "grant", "open", "claim",
                            "charge", "answer", "verify", "mark", "capture", "record", "ask", "reconcile",
                            "give_up"}]
      /\ my' \in [Procs -> [pay : Payments \cup {None}, copy : Row \cup {None}, got : Results,
                            todo : SUBSET Tabs]]
  BY DEF Places, Hand
<1> QED BY <1>1, <1>2, <1>3 DEF TypeOK

\* A watcher moves, and nothing happens at the provider.
ToldOf(p) == p \in Tabs /\ page[p] # "none"
Quietly(x, p, said) ==
    /\ \A y \in Procs \ {x} : Stays(y)
    /\ at' \in [Procs -> Places] /\ my' \in [Procs -> Hand]
    /\ UNCHANGED <<page, money, events, handled, charges, scene>> /\ faults' \in 0..MaxFaults
    /\ \A y \in {"return", "hook"} : my'[y].pay \in {my[y].pay, None} \/ ToldOf(my'[y].pay)
    /\ \A q \in Payments : my'["sweep"].pay = q => my["sweep"].pay = q \/ Listed(q)
    /\ Ruled(db, db', p, said) /\ (SameAt(db, db', p) \/ Touches(p))
    /\ said = "succeeded" => ToldOf(p)
    /\ NoOlder(db, db') \/ (Cold /\ (db'.rows[Renewal].started => db.rows[Renewal].started))

LEMMA QuietKeeps ==
    ASSUME IInv, NEW x \in Watchers, NEW p \in Payments, NEW said, Quietly(x, p, said),
           Stays("return") \/ ReturnAt', Stays("hook") \/ HookAt', Stays("sweep") \/ SweepAt'
    PROVE  IInv'
<1>1. TypeOK /\ Balanced
  BY BaseParts
<1>2. UNCHANGED <<page, money, events, handled, charges, scene>>
  BY DEF Quietly
<1>3. TypeOK'
  <2>1. /\ page \in [Payments -> {"none", "open", "approved"}]
        /\ money \in [Payments -> {"none", "pending", "taken", "refused"}]
        /\ events \subseteq Payments \X {"succeeded", "failed", "approved"} \X {1, 2}
        /\ handled \subseteq events /\ charges \in [Payments -> Nat]
    BY <1>1 DEF TypeOK
  <2>2. OnlyAt(db, db', p) /\ at' \in [Procs -> Places] /\ my' \in [Procs -> Hand] /\ faults' \in 0..MaxFaults
    BY DEF Quietly, Ruled
  <2> QED BY <1>1, <1>2, <2>1, <2>2, TypesKept
<1>4. Watch(p, said)
  <2>1. \A y \in Runs \cup Tabs : Stays(y)
    BY ProcTyped DEF Quietly
  <2>2. \A t \in Tabs : TabTold(t)
    BY <1>2, ProcTyped DEF Quietly, TabTold, ToldOf
  <2>3. MoneyStays /\ RenewalTold
    BY <1>2 DEF MoneyStays, RenewalTold
  <2>4. said = "succeeded" => p # Renewal /\ page[p] # "none"
    BY ProcTyped DEF Quietly, ToldOf
  <2>5. \A q \in Payments : my'["sweep"].pay = q => my["sweep"].pay = q \/ Listed(q)
    BY DEF Quietly
  <2> QED BY <1>2, <2>1, <2>2, <2>3, <2>4, <2>5 DEF Watch, Quietly
<1> QED BY <1>3, <1>4, WatchKeeps

\* What a process in hand of a tab's payment knows of it.
LEMMA HandTold ==
    ASSUME IInv, NEW x \in {"return", "hook"}, at[x] # "idle"
    PROVE  /\ my[x].pay \in Tabs /\ my[x].pay \in Payments /\ ToldOf(my[x].pay) /\ Exists(my[x].pay)
           /\ db.rows[my[x].pay] \in Row /\ Touches(my[x].pay)
<1>1. my[x].pay \in Tabs /\ Exists(my[x].pay)
  BY BaseParts DEF HandsOK, ReturnAt, HookAt
<1>2. page[my[x].pay] # "none"
  BY <1>1, BaseParts DEF HandsOK, TabRow
<1>3. db.rows[my[x].pay] \in Row
  BY <1>1, BaseParts, TypeParts, ProcTyped, DbTyped DEF Exists
<1> QED BY <1>1, <1>2, <1>3, ProcTyped DEF ToldOf, Touches

\* A watcher moves and the database does not change.
LEMMA UnruledKeeps ==
    ASSUME IInv, NEW x \in Watchers, db' = db,
           \A y \in Procs \ {x} : Stays(y), at' \in [Procs -> Places], my' \in [Procs -> Hand],
           UNCHANGED <<page, money, events, handled, charges, scene>>, faults' \in 0..MaxFaults,
           \A y \in {"return", "hook"} : my'[y].pay \in {my[y].pay, None} \/ ToldOf(my'[y].pay),
           \A q \in Payments : my'["sweep"].pay = q => my["sweep"].pay = q \/ Listed(q),
           Stays("return") \/ ReturnAt', Stays("hook") \/ HookAt', Stays("sweep") \/ SweepAt'
    PROVE  IInv'
<1>1. db \in Db /\ Renewal \in Payments
  BY BaseParts, TypeParts, ProcTyped
<1>2. Ruled(db, db', Renewal, "failed") /\ SameAt(db, db', Renewal) /\ NoOlder(db, db')
  BY <1>1, SelfRules DEF SameAt, SameBooks
<1>3. Quietly(x, Renewal, "failed")
  BY <1>2 DEF Quietly
<1> QED BY <1>1, <1>3, QuietKeeps

LEMMA QuietParts == \* what `quiet' abbreviates
    ASSUME quiet' = quiet
    PROVE  UNCHANGED <<page, money, events, handled, charges, scene>> /\ faults' = faults
BY DEF quiet, outside

LEMMA FaultsTyped == ASSUME TypeOK PROVE faults \in 0..MaxFaults /\ \A kind : Fault(kind) => faults' \in 0..MaxFaults
BY PaymentAssumption DEF TypeOK, Fault

LEMMA CustomerReturnsKeeps ==
    ASSUME IInv, NEW t \in Tabs, CustomerReturns(t)
    PROVE  IInv'
<1>1. TypeOK /\ HandsOK /\ "return" \in Procs /\ "return" \in Watchers /\ t \in Payments
  BY BaseParts, ProcTyped
<1>2. PICK row \in Row \cup {None}, to \in {"mark", "verify"} :
          Take("return", t, row, to) /\ (to = "mark" => row \in Row)
  <2>1. db.rows[t] \in Row
    BY <1>1, TypeParts, DbTyped DEF CustomerReturns, Exists
  <2> QED BY <2>1 DEF CustomerReturns
<1>3. /\ at' \in [Procs -> Places] /\ my' \in [Procs -> Hand]
      /\ at'["return"] = to /\ my'["return"].pay = t /\ my'["return"].copy = row
      /\ \A y \in Procs \ {"return"} : Stays(y)
  BY <1>1, <1>2, TakeMoves DEF Places, Stays
<1>4. db' = db /\ UNCHANGED <<page, money, events, handled, charges, scene>> /\ faults' \in 0..MaxFaults
  BY <1>1, QuietParts, FaultsTyped DEF CustomerReturns
<1>5. ReturnAt'
  BY <1>2, <1>3, <1>4 DEF ReturnAt, Exists, CustomerReturns
<1>6. Stays("hook") /\ Stays("sweep")
  BY <1>3, ProcTyped
<1>7. ToldOf(my'["return"].pay)
  BY <1>3 DEF ToldOf, CustomerReturns
<1> QED BY <1>1, <1>3, <1>4, <1>5, <1>6, <1>7, UnruledKeeps DEF Stays

LEMMA VerifyKeeps ==
    ASSUME IInv, Verify
    PROVE  IInv'
<1>1. TypeOK /\ HandsOK /\ "return" \in Procs /\ "return" \in Watchers
  BY BaseParts, ProcTyped
<1>2. PICK got \in {"succeeded", "failed", "pending"} : my' = [my EXCEPT !["return"].got = got]
  BY DEF Verify, Said
<1>3. /\ at' \in [Procs -> Places] /\ my' \in [Procs -> Hand]
      /\ at'["return"] = "record" /\ my'["return"].pay = my["return"].pay /\ my'["return"].got = got
      /\ \A y \in Procs \ {"return"} : Stays(y)
  <2>1. got \in Results /\ "record" \in Places /\ Goto("return", "record")
    BY DEF Results, Places, Verify
  <2> QED BY <1>1, <1>2, <2>1, GotMoves DEF Stays
<1>4. db' = db /\ UNCHANGED <<page, money, events, handled, charges, scene>> /\ faults' \in 0..MaxFaults
  BY <1>1, QuietParts, FaultsTyped DEF Verify
<1>5. ReturnAt'
  BY <1>1, <1>3, <1>4 DEF ReturnAt, Exists, Verify, HandsOK, Heard
<1>6. Stays("hook") /\ Stays("sweep")
  BY <1>3, ProcTyped
<1> QED BY <1>1, <1>3, <1>4, <1>5, <1>6, UnruledKeeps DEF Stays

LEMMA MarkChargeStartedKeeps ==
    ASSUME IInv, MarkChargeStarted
    PROVE  IInv'
<1> DEFINE p == my["return"].pay
<1>1. TypeOK /\ HandsOK /\ "return" \in Procs /\ "return" \in Watchers /\ db \in Db
  BY BaseParts, TypeParts, ProcTyped
<1>2. p \in Tabs /\ p \in Payments /\ Exists(p) /\ db.rows[p] \in Row /\ Touches(p)
  BY HandTold DEF MarkChargeStarted
<1>3. /\ at' \in [Procs -> Places] /\ my' = my /\ at'["return"] = "capture"
      /\ \A y \in Procs \ {"return"} : Stays(y)
  BY <1>1, GotoMoves DEF MarkChargeStarted, Places, Stays
<1>4. UNCHANGED <<page, money, events, handled, charges, scene>> /\ faults' \in 0..MaxFaults
  BY <1>1, QuietParts, FaultsTyped DEF MarkChargeStarted
<1>5. Ruled(db, db', p, "failed") /\ NoOlder(db, db')
  <2>1. CASE db' = db
    BY <1>1, <1>2, <2>1, SelfRules
  <2>2. CASE db' = MarkedStarted(db, p)
    BY <1>1, <1>2, <2>2, StartedRules DEF Ruled, Effect
  <2> QED BY <2>1, <2>2 DEF MarkChargeStarted
<1>6. ReturnAt'
  <2>1. db'.rows[p] # None
    BY <1>2, <1>5 DEF Ruled, OnlyAt, Exists
  <2> QED BY <1>2, <1>3, <2>1 DEF ReturnAt, Exists
<1>7. Stays("hook") /\ Stays("sweep")
  BY <1>3, ProcTyped
<1>8. my' \in [Procs -> Hand]
  BY <1>1, <1>3, TypeParts
<1>9. Quietly("return", p, "failed")
  BY <1>2, <1>3, <1>4, <1>5, <1>8 DEF Quietly
<1> HIDE DEF p
<1> QED BY <1>1, <1>2, <1>6, <1>7, <1>9, QuietKeeps

LEMMA RecordReturnKeeps ==
    ASSUME IInv, RecordReturn
    PROVE  IInv'
<1> DEFINE p == my["return"].pay
           got == my["return"].got
<1>1. TypeOK /\ HandsOK /\ "return" \in Procs /\ "return" \in Watchers /\ db \in Db
  BY BaseParts, TypeParts, ProcTyped
<1>2. p \in Tabs /\ p \in Payments /\ db.rows[p] \in Row /\ Touches(p) /\ ToldOf(p)
  BY HandTold DEF RecordReturn
<1>3. /\ at' \in [Procs -> Places] /\ my' \in [Procs -> Hand]
      /\ at'["return"] = "idle" /\ my'["return"].pay = None
      /\ \A y \in Procs \ {"return"} : Stays(y)
  BY <1>1, LeaveMoves, IdleTyped DEF RecordReturn, Stays
<1>4. UNCHANGED <<page, money, events, handled, charges, scene>> /\ faults' \in 0..MaxFaults
  BY <1>1, QuietParts, FaultsTyped DEF RecordReturn
<1>5. Ruled(db, db', p, got) /\ NoOlder(db, db')
  <2>1. got \in Heard
    BY <1>1 DEF HandsOK, ReturnAt, RecordReturn
  <2>2. db' = CaptureRecorded(db, p, got)
    BY DEF RecordReturn
  <2> HIDE DEF p, got
  <2> QED BY <1>1, <1>2, <2>1, <2>2, CaptureRules
<1>6. ReturnAt'
  BY <1>3 DEF ReturnAt
<1>7. Stays("hook") /\ Stays("sweep")
  BY <1>3, ProcTyped
<1>8. my'["sweep"] = my["sweep"] /\ my'["hook"] = my["hook"]
  BY <1>7 DEF Stays
<1> HIDE DEF p, got
<1>9. Quietly("return", p, got)
  BY <1>2, <1>3, <1>4, <1>5, <1>8 DEF Quietly
<1> QED BY <1>1, <1>2, <1>6, <1>7, <1>9, QuietKeeps

LEMMA SweepReadsKeeps ==
    ASSUME IInv, NEW p \in Payments, SweepReads(p)
    PROVE  IInv'
<1>1. TypeOK /\ HandsOK /\ RowsOK /\ AgeInv /\ "sweep" \in Procs /\ "sweep" \in Watchers
  BY BaseParts, ProcTyped
<1>2. PICK row \in Row \cup {None}, to \in {"ask", "give_up"} :
          /\ Take("sweep", p, row, to)
          /\ p = Renewal => row = db.rows[p]
          /\ to = "ask" => Recheck(db.rows[p])
  <2>1. db.rows[p] \in Row \cup {None}
    BY <1>1, TypeParts, DbTyped
  <2> QED BY <2>1 DEF SweepReads
<1>3. /\ at' \in [Procs -> Places] /\ my' \in [Procs -> Hand]
      /\ at'["sweep"] = to /\ my'["sweep"].pay = p /\ my'["sweep"].copy = row
      /\ \A y \in Procs \ {"sweep"} : Stays(y)
  BY <1>1, <1>2, TakeMoves DEF Places, Stays
<1>4. db' = db /\ UNCHANGED <<page, money, events, handled, charges, scene>> /\ faults' \in 0..MaxFaults
  BY <1>1, QuietParts, FaultsTyped DEF SweepReads
<1>5. Exists(p) /\ Listed(p) /\ Good(db.rows[p])
  BY <1>1 DEF SweepReads, Listed, RowsOK
<1>6. to = "ask" => scene.provider = "paypal"
  BY <1>2, <1>5 DEF Recheck, CanReconcile, Good
<1>7. SweepAt'
  BY <1>2, <1>3, <1>4, <1>5, <1>6 DEF SweepAt, Exists, Good
<1>8. Stays("hook") /\ Stays("return")
  BY <1>3, ProcTyped
<1>9. my'["hook"] = my["hook"] /\ my'["return"] = my["return"]
  BY <1>8 DEF Stays
<1> QED BY <1>1, <1>3, <1>4, <1>5, <1>7, <1>8, <1>9, UnruledKeeps

LEMMA AskProviderKeeps ==
    ASSUME IInv, AskProvider
    PROVE  IInv'
<1> DEFINE p == my["sweep"].pay
<1>1. TypeOK /\ HandsOK /\ "sweep" \in Procs /\ "sweep" \in Watchers
  BY BaseParts, ProcTyped
<1>2. PICK got \in {"unknown", "uncaptured", Said(p)} :
          /\ my' = [my EXCEPT !["sweep"].got = got]
          /\ IF page[p] = "none" THEN got = "unknown" /\ UNCHANGED faults
             ELSE IF got = "unknown" THEN Fault("lost")
             ELSE (got = "uncaptured" <=> money[p] = "none") /\ UNCHANGED faults
  BY DEF AskProvider
<1>3. got \in Heard \cup {"unknown"} /\ got \in Results /\ (got = "succeeded" => money[p] = "taken")
  BY DEF Said, Heard, Results
<1>4. /\ at' \in [Procs -> Places] /\ my' \in [Procs -> Hand]
      /\ at'["sweep"] = "reconcile" /\ my'["sweep"].pay = p /\ my'["sweep"].got = got
      /\ \A y \in Procs \ {"sweep"} : Stays(y)
  <2>1. Goto("sweep", "reconcile") /\ "reconcile" \in Places
    BY DEF AskProvider, Places
  <2> QED BY <1>1, <1>2, <1>3, <2>1, GotMoves DEF Stays
<1>5. db' = db /\ UNCHANGED <<page, money, events, handled, charges, scene>> /\ faults' \in 0..MaxFaults
  BY <1>1, <1>2, FaultsTyped DEF AskProvider, outside
<1>6. SweepAt'
  BY <1>1, <1>3, <1>4, <1>5 DEF SweepAt, Exists, HandsOK, AskProvider
<1>7. Stays("hook") /\ Stays("return")
  BY <1>4, ProcTyped
<1>8. my'["hook"] = my["hook"] /\ my'["return"] = my["return"]
  BY <1>7 DEF Stays
<1> QED BY <1>1, <1>4, <1>5, <1>6, <1>7, <1>8, UnruledKeeps

LEMMA ReconcileKeeps ==
    ASSUME IInv, Reconcile
    PROVE  IInv'
<1> DEFINE p == my["sweep"].pay
           got == my["sweep"].got
<1>1. TypeOK /\ HandsOK /\ ChargeInv /\ AgeInv /\ "sweep" \in Procs /\ "sweep" \in Watchers /\ db \in Db
  BY BaseParts, TypeParts, ProcTyped
<1>2. /\ p \in Payments /\ Exists(p) /\ Touches(p) /\ got \in Heard \cup {"unknown"}
      /\ scene.provider = "paypal" /\ (got = "succeeded" => money[p] = "taken")
  BY <1>1 DEF HandsOK, SweepAt, Reconcile, Touches
<1>3. db.rows[p] \in Row
  BY <1>1, <1>2, DbTyped DEF Exists
<1>4. /\ at' \in [Procs -> Places] /\ my' \in [Procs -> Hand]
      /\ at'["sweep"] = "idle" /\ my'["sweep"].pay = None
      /\ \A y \in Procs \ {"sweep"} : Stays(y)
  BY <1>1, LeaveMoves, IdleTyped DEF Reconcile, Stays
<1>5. UNCHANGED <<page, money, events, handled, charges, scene>> /\ faults' \in 0..MaxFaults
  BY <1>1, QuietParts, FaultsTyped DEF Reconcile
<1>6. got = "succeeded" => ToldOf(p)
  <2>1. p = Renewal => money[p] = "none"
    BY <1>1, <1>2 DEF ChargeInv, Cards
  <2>2. p \in Tabs /\ money[p] = "taken" => page[p] # "none"
    BY <1>1 DEF HandsOK, TabRow
  <2> QED BY <1>2, <2>1, <2>2 DEF ToldOf, Payments
<1>7. Ruled(db, db', p, got) /\ (NoOlder(db, db') \/ (Cold /\ (db'.rows[Renewal].started => db.rows[Renewal].started)))
  <2>1. CASE db' = db
    BY <1>1, <1>2, <2>1, SelfRules
  <2>2. CASE db' = MarkedUnresolved(db, p)
    <3> HIDE DEF p, got
    <3>1. Ruled(db, db', p, got) /\ db'.rows[p].started = db.rows[p].started
      BY <1>1, <1>2, <1>3, <2>2, UnresolvedRules
    <3>2. CASE p = Renewal
      <4>1. Cold
        BY <1>1, <3>2 DEF AgeInv, p
      <4> QED BY <3>1, <3>2, <4>1
    <3>3. CASE p # Renewal
      <4>1. db'.rows[Renewal] = db.rows[Renewal]
        BY <3>1, <3>3, ProcTyped DEF Ruled, OnlyAt
      <4> QED BY <3>1, <4>1 DEF NoOlder
    <3> QED BY <3>2, <3>3
  <2>3. CASE got \in Heard /\ db' = CaptureRecorded(db, p, got)
    <3> HIDE DEF p, got
    <3> QED BY <1>1, <1>2, <1>3, <2>3, CaptureRules
  <2>4. db' = db \/ db' = MarkedUnresolved(db, p) \/ (got \in Heard /\ db' = CaptureRecorded(db, p, got))
    BY <1>2 DEF Reconcile
  <2> QED BY <2>1, <2>2, <2>3, <2>4
<1>8. SweepAt'
  BY <1>4 DEF SweepAt
<1>9. Stays("hook") /\ Stays("return")
  BY <1>4, ProcTyped
<1>10. my'["hook"] = my["hook"] /\ my'["return"] = my["return"]
  BY <1>9 DEF Stays
<1>11. \A q \in Payments : my'["sweep"].pay # q
  BY <1>4, ProcTyped
<1> HIDE DEF p, got
<1>12. Quietly("sweep", p, got)
  BY <1>2, <1>4, <1>5, <1>6, <1>7, <1>10, <1>11 DEF Quietly
<1> QED BY <1>1, <1>2, <1>8, <1>9, <1>12, QuietKeeps

\* A step on the renewal, of a run or of the sweep, leaves every checkout alone.
LEMMA RenewalBase ==
    ASSUME IInv, NEW x \in Runs \cup {"sweep"}, \A y \in Procs \ {x} : Stays(y),
           OnlyAt(db, db', Renewal), UNCHANGED <<page, scene>>, MoneyStays, events \subseteq events',
           \A t \in Tabs : money'[t] = money[t], \A e \in events' : e[1] \in Tabs => e \in events,
           IF x = "sweep" THEN SweepAt' ELSE RunAt(x)',
           (\E said : Effect(db, db', Renewal, said)) \/ (db'.rows[Renewal] # None => Good(db'.rows[Renewal]))
    PROVE  Balanced' /\ RowsOK' /\ HandsOK' /\ There
<1>1. TypeOK /\ Balanced /\ RowsOK /\ HandsOK /\ Renewal \in Payments /\ scene' = scene
  BY BaseParts, ProcTyped
<1>2. Balanced'
  BY <1>1, BooksKept
<1>3. RowsOK'
  BY <1>1, RowsKept
<1>4. There
  BY DEF OnlyAt, There, Exists
<1>5. \A y \in Tabs \cup {"return", "hook"} : Stays(y)
  BY ProcTyped DEF Watchers
<1>6. \A t \in Tabs : TabTold(t) /\ TabRuled(t)
  <2> SUFFICES ASSUME NEW t \in Tabs PROVE TabTold(t) /\ TabRuled(t)
    OBVIOUS
  <2>1. TabTold(t)
    BY <1>5 DEF TabTold, Stays
  <2>2. SameAt(db, db', t)
    BY ProcTyped DEF OnlyAt, SameAt, SameBooks
  <2>3. Effect(db, db', t, "failed")
    BY <2>2 DEF Effect
  <2> QED BY <2>1, <2>3 DEF TabRuled
<1>7. \A r \in Runs : Stays(r) \/ RunAt(r)'
  BY ProcTyped
<1>8. Stays("sweep") \/ SweepAt'
  BY ProcTyped
<1>9. HandsOK'
  BY <1>1, <1>4, <1>5, <1>6, <1>7, <1>8, HandsKept
<1> QED BY <1>2, <1>3, <1>4, <1>9

LEMMA GiveUpKeeps ==
    ASSUME IInv, GiveUp
    PROVE  IInv'
<1> DEFINE p == my["sweep"].pay
<1>1. /\ TypeOK /\ Balanced /\ HandsOK /\ ChargeInv /\ AgeInv /\ db \in Db
      /\ "sweep" \in Procs /\ "sweep" \in Watchers /\ Renewal \in Payments
  BY BaseParts, TypeParts, ProcTyped
<1>2. p \in Payments /\ Exists(p) /\ Touches(p) /\ (p = Renewal => Good(my["sweep"].copy))
  BY <1>1 DEF HandsOK, SweepAt, GiveUp, Touches
<1>3. db.rows[p] \in Row
  BY <1>1, <1>2, DbTyped DEF Exists
<1>4. /\ at' \in [Procs -> Places] /\ my' \in [Procs -> Hand]
      /\ at'["sweep"] = "idle" /\ my'["sweep"].pay = None
      /\ \A y \in Procs \ {"sweep"} : Stays(y)
  BY <1>1, LeaveMoves, IdleTyped DEF GiveUp, Stays
<1>5. UNCHANGED <<page, money, events, handled, charges, scene>> /\ faults' \in 0..MaxFaults
  BY <1>1, QuietParts, FaultsTyped DEF GiveUp
<1>6. SweepAt'
  BY <1>4 DEF SweepAt
<1>7. Stays("hook") /\ Stays("return")
  BY <1>4, ProcTyped
<1>8. my'["hook"] = my["hook"] /\ my'["return"] = my["return"]
  BY <1>7 DEF Stays
<1>9. \A q \in Payments : my'["sweep"].pay # q
  BY <1>4, ProcTyped
<1>10. CASE p # Renewal
  <2>1. Ruled(db, db', p, "failed") /\ NoOlder(db, db')
    <3>1. db' = Abandoned(db, p)
      BY <1>10 DEF GiveUp
    <3> HIDE DEF p
    <3> QED BY <1>1, <1>2, <1>3, <3>1, AbandonedRules
  <2> HIDE DEF p
  <2>2. Quietly("sweep", p, "failed")
    BY <1>2, <1>4, <1>5, <1>8, <1>9, <2>1 DEF Quietly
  <2> QED BY <1>1, <1>2, <1>6, <1>7, <2>2, QuietKeeps
<1>11. CASE p = Renewal
  <2>1. Cold
    BY <1>1, <1>11 DEF AgeInv
  <2>2. PICK copy \in Row : copy.provider \in {scene.provider, "credit"} /\ db' = Failed(db, Renewal, copy, "failed")
    BY <1>2, <1>11 DEF GiveUp, Good
  <2>3. /\ OnlyAt(db, db', Renewal) /\ Dropped(db, db', Renewal)
        /\ db'.rows[Renewal].provider \in {scene.provider, "credit"}
    BY <1>1, <2>2, FailedDb
  <2>4. db'.rows[Renewal] \in Row /\ db'.rows[Renewal].status \in GivenUp /\ db'.rows[Renewal] # None
    BY <2>3, NoneAssumption DEF Dropped
  <2>5. Good(db'.rows[Renewal])
    BY <2>3, <2>4 DEF Good
  <2>6. Balanced' /\ RowsOK' /\ HandsOK' /\ There
    <3>1. MoneyStays
      BY <1>5 DEF MoneyStays
    <3> QED BY <1>4, <1>5, <1>6, <2>3, <2>5, <3>1, RenewalBase
  <2>7. TypeOK'
    <3>1. /\ page \in [Payments -> {"none", "open", "approved"}]
          /\ money \in [Payments -> {"none", "pending", "taken", "refused"}]
          /\ events \subseteq Payments \X {"succeeded", "failed", "approved"} \X {1, 2}
          /\ handled \subseteq events /\ charges \in [Payments -> Nat]
      BY <1>1 DEF TypeOK
    <3> QED BY <1>1, <1>4, <1>5, <2>3, <3>1, TypesKept
  <2>8. ClosedStays
    BY <2>4 DEF ClosedStays, Closed, Claimable, Exists, GivenUp
  <2>9. \A r \in Runs : Stays(r)
    BY <1>4, ProcTyped
  <2>10. ChargeInv'
    <3>1. MoneyStays /\ RenewalTold
      BY <1>5 DEF MoneyStays, RenewalTold
    <3> QED BY <1>1, <1>5, <2>8, <2>9, <3>1, ChargeKept DEF Stays
  <2>11. AgeInv'
    BY <1>9, <2>4, ProcTyped DEF AgeInv, GivenUp
  <2>12. ASSUME OneRun' PROVE GrantInv'
    <3>1. GrantInv
      BY <1>5, <2>12, BaseParts DEF OneRun
    <3>2. \A r \in Runs : at[r] \notin Crediting \cup Charging
      BY <2>1 DEF Cold
    <3>3. \A r \in Runs : CreditingAt(r)'
      BY <2>9, <3>2 DEF CreditingAt, Stays
    <3>4. db.granted[Renewal] = 1 => PaidEvent \in handled /\ \A r \in Runs : at'[r] # "answer"
      <4>1. Holding
        BY <1>11 DEF Holding
      <4> QED BY <2>9, <3>1, <3>2, <4>1 DEF GrantInv, Charging, Stays
    <3>5. db'.granted[Renewal] = db.granted[Renewal]
      BY <2>3 DEF Dropped
    <3>6. \A r \in Runs : at'[r] \in Charging => at'[r] = at[r] /\ my'[r].got = my[r].got
      BY <2>9 DEF Stays
    <3> QED BY <1>5, <1>9, <2>8, <3>1, <3>3, <3>4, <3>5, <3>6, ProcTyped, GrantKept
  <2>13. ASSUME NoneShare' PROVE CreditInv'
    <3>1. CreditInv /\ NoneShare
      BY <1>5, <2>13, BaseParts DEF NoneShare
    <3>2. ASSUME scene'.credit # 0, NEW x \in Runs \cup Tabs, at'[x] = "apply" PROVE Fresh(my[x].pay)'
      <4>1. Stays(x)
        BY <1>4, ProcTyped
      <4>2. at[x] = "apply" /\ scene.credit # 0 /\ my'[x].pay = my[x].pay
        BY <1>5, <3>2, <4>1 DEF Stays
      <4>3. Fresh(my[x].pay) /\ my[x].pay \in Payments /\ ~Touches(my[x].pay)
        BY <3>1, <4>2, ApplyingFresh
      <4>4. PICK q \in Payments : q = my[x].pay
        BY <4>3
      <4>5. db'.rows[q] = db.rows[q]
        BY <1>2, <1>11, <2>3, <4>3, <4>4 DEF OnlyAt
      <4>6. Fresh(q)'
        BY <1>9, <4>3, <4>4, <4>5, FreshKept
      <4> QED BY <4>2, <4>4, <4>6
    <3>3. db'.ledger[Renewal] = 0
      BY <2>3 DEF Dropped
    <3> QED BY <1>1, <2>3, <3>1, <3>2, <3>3, GivenUpKept
  <2> QED BY <2>6, <2>7, <2>10, <2>11, <2>12, <2>13 DEF IInv, Base
<1> QED BY <1>10, <1>11

\* Nobody moves: time leaves marks on a payment, or on the subscription.
LEMMA TimeKeeps ==
    ASSUME IInv, at' = at, my' = my, quiet' = quiet, NEW p \in Payments, Ruled(db, db', p, "failed"),
           SameAt(db, db', p) \/ Touches(p),
           NoOlder(db, db') \/ (Cold /\ (db'.rows[Renewal].started => db.rows[Renewal].started))
    PROVE  IInv'
<1>1. TypeOK /\ "sweep" \in Watchers
  BY BaseParts, ProcTyped
<1>2. \A y : Stays(y)
  BY DEF Stays
<1>3. UNCHANGED <<page, money, events, handled, charges, scene>> /\ faults' \in 0..MaxFaults
  BY <1>1, QuietParts, FaultsTyped
<1>4. at' \in [Procs -> Places] /\ my' \in [Procs -> Hand]
  BY <1>1, TypeParts
<1>5. Quietly("sweep", p, "failed")
  BY <1>2, <1>3, <1>4 DEF Quietly
<1> QED BY <1>1, <1>2, <1>5, QuietKeeps

LEMMA UntouchedCold ==
    ASSUME IInv, Exists(Renewal), Untouched(Renewal), db.rows[Renewal].claimed \/ ~Renewable(db.sub) \/ Closed
    PROVE  Cold
<1>1. \A r \in Runs : at[r] # "idle" => my[r].pay = Renewal
  BY BaseParts DEF HandsOK, RunAt
<1>2. \A r \in Runs : at[r] \in {"idle", "create", "claim"} /\ (~db.rows[Renewal].claimed => at[r] = "idle")
  BY <1>1, ProcTyped DEF Untouched, Watchers
<1>3. db.rows[Renewal].claimed => Closed
  BY DEF Closed, Claimable
<1> QED BY <1>2, <1>3 DEF Cold, Crediting, Charging

LEMMA ADayPassesKeeps ==
    ASSUME IInv, NEW p \in Payments, ADayPasses(p)
    PROVE  IInv'
<1> DEFINE row == [db.rows[p] EXCEPT !.day = TRUE]
<1>1. db \in Db /\ db.rows[p] \in Row
  BY BaseParts, TypeParts, DbTyped DEF ADayPasses, Exists
<1>2. db' = Saved(db, p, row)
  BY DEF ADayPasses, Saved
<1>3. /\ row \in Row /\ row.status = db.rows[p].status /\ row.provider = db.rows[p].provider
      /\ row.claimed = db.rows[p].claimed /\ row.started = db.rows[p].started
  BY <1>1 DEF Row
<1> HIDE DEF row
<1>4. OnlyAt(db, db', p) /\ Marked(db, db', p) /\ (p # Renewal => NoOlder(db, db')) /\ db'.rows[p] = row
  BY <1>1, <1>2, <1>3, MarkedDb, SavedDb
<1>5. p = Renewal => Cold /\ (db'.rows[Renewal].started => db.rows[Renewal].started)
  BY <1>3, <1>4, UntouchedCold DEF ADayPasses, RunDue, Renewable
<1>6. Ruled(db, db', p, "failed") /\ Touches(p)
  BY <1>4 DEF Ruled, Effect, Touches, ADayPasses
<1> QED BY <1>4, <1>5, <1>6, TimeKeeps DEF ADayPasses

LEMMA AQuarterPassesKeeps ==
    ASSUME IInv, NEW p \in Payments, AQuarterPasses(p)
    PROVE  IInv'
<1> DEFINE row == [db.rows[p] EXCEPT !.lag = TRUE]
<1>1. db \in Db /\ db.rows[p] \in Row /\ AgeInv
  BY BaseParts, TypeParts, DbTyped DEF AQuarterPasses, Exists
<1>2. db' = Saved(db, p, row)
  BY DEF AQuarterPasses, Saved
<1>3. /\ row \in Row /\ row.status = db.rows[p].status /\ row.provider = db.rows[p].provider
      /\ row.claimed = db.rows[p].claimed /\ row.started = db.rows[p].started
  BY <1>1 DEF Row
<1> HIDE DEF row
<1>4. OnlyAt(db, db', p) /\ Marked(db, db', p) /\ (p # Renewal => NoOlder(db, db')) /\ db'.rows[p] = row
  BY <1>1, <1>2, <1>3, MarkedDb, SavedDb
<1>5. p = Renewal => Cold /\ (db'.rows[Renewal].started => db.rows[Renewal].started)
  <2> SUFFICES ASSUME p = Renewal PROVE Cold /\ (db'.rows[Renewal].started => db.rows[Renewal].started)
    OBVIOUS
  <2>1. Exists(Renewal) /\ db.rows[Renewal].started
    BY DEF AQuarterPasses
  <2>2. Closed
    BY <1>1, <2>1 DEF AgeInv, Closed, Claimable
  <2> QED BY <1>3, <1>4, <2>1, <2>2, UntouchedCold DEF AQuarterPasses
<1>6. Ruled(db, db', p, "failed") /\ Touches(p)
  BY <1>4 DEF Ruled, Effect, Touches, AQuarterPasses
<1> QED BY <1>4, <1>5, <1>6, TimeKeeps DEF AQuarterPasses

\* The subscription changes, and what needs no renewal needs none afterwards.
LEMMA SubDb ==
    ASSUME NEW b \in Db, NEW sub \in Subscription, NEW p \in Payments, Renewable(sub) => Renewable(b.sub)
    PROVE  Ruled(b, [b EXCEPT !.sub = sub], p, "failed") /\ SameAt(b, [b EXCEPT !.sub = sub], p)
           /\ NoOlder(b, [b EXCEPT !.sub = sub])
<1> DEFINE c == [b EXCEPT !.sub = sub]
<1>1. c \in Db /\ c.rows = b.rows /\ c.balance = b.balance /\ c.ledger = b.ledger /\ c.granted = b.granted
      /\ c.sub = sub
  BY DEF Db
<1> HIDE DEF c
<1>2. OnlyAt(b, c, p) /\ SameAt(b, c, p) /\ NoOlder(b, c)
  BY <1>1 DEF OnlyAt, SameAt, SameBooks, NoOlder
<1> QED BY <1>2 DEF Ruled, Effect, c

LEMMA GraceEndsKeeps ==
    ASSUME IInv, GraceEnds
    PROVE  IInv'
<1>1. db \in Db /\ db.sub \in Subscription /\ Renewal \in Payments
  BY BaseParts, TypeParts, ProcTyped, DbTyped
<1>2. PICK sub \in Subscription : sub = [db.sub EXCEPT !.overdue = TRUE]
  BY <1>1 DEF Subscription
<1>3. Renewable(sub) => Renewable(db.sub)
  BY <1>1, <1>2 DEF Renewable, Subscription
<1>4. db' = [db EXCEPT !.sub = sub]
  BY <1>2 DEF GraceEnds
<1>5. Ruled(db, db', Renewal, "failed") /\ SameAt(db, db', Renewal) /\ NoOlder(db, db')
  BY <1>1, <1>3, <1>4, SubDb
<1> QED BY <1>1, <1>5, TimeKeeps DEF GraceEnds

LEMMA WatcherCrashKeeps ==
    ASSUME IInv, NEW x \in Watchers, Crash(x)
    PROVE  IInv'
<1>1. TypeOK /\ x \in Procs
  BY BaseParts, ProcTyped
<1>2. /\ at' \in [Procs -> Places] /\ my' \in [Procs -> Hand]
      /\ at'[x] = "idle" /\ my'[x].pay = None
      /\ \A y \in Procs \ {x} : Stays(y)
  BY <1>1, LeaveMoves, IdleTyped DEF Crash, Stays
<1>3. db' = db /\ UNCHANGED <<page, money, events, handled, charges, scene>> /\ faults' \in 0..MaxFaults
  BY <1>1, FaultsTyped DEF Crash, outside
<1>4. \A y \in Watchers : (at'[y] = "idle" /\ my'[y].pay = None) \/ Stays(y)
  BY <1>2, ProcTyped
<1>5. /\ Stays("return") \/ ReturnAt'
      /\ Stays("hook") \/ HookAt'
      /\ Stays("sweep") \/ SweepAt'
  BY <1>4, ProcTyped DEF ReturnAt, HookAt, SweepAt
<1>6. \A y \in Watchers : my'[y].pay = None \/ my'[y].pay = my[y].pay
  BY <1>4 DEF Stays
<1>7. \A y \in {"return", "hook"} : my'[y].pay \in {my[y].pay, None} \/ ToldOf(my'[y].pay)
  BY <1>6, ProcTyped
<1>8. \A q \in Payments : my'["sweep"].pay = q => my["sweep"].pay = q \/ Listed(q)
  BY <1>6, ProcTyped
<1> QED BY <1>2, <1>3, <1>5, <1>7, <1>8, UnruledKeeps

\* Something happens at the provider for the payment q: a checkout whose page
\* was opened, or the renewal once it was charged.
Happens(q) ==
    /\ page' \in [Payments -> {"none", "open", "approved"}]
    /\ money' \in [Payments -> {"none", "pending", "taken", "refused"}]
    /\ events' \subseteq Payments \X {"succeeded", "failed", "approved"} \X {1, 2}
    /\ events \subseteq events'
    /\ \A u \in Payments \ {q} : page'[u] = page[u] /\ money'[u] = money[u]
    /\ page'[q] = "none" <=> page[q] = "none"
    /\ money[q] = "taken" => money'[q] = "taken"
    /\ \A e \in events' : e \notin events =>
          e[1] = q /\ (q = Renewal /\ e[2] = "succeeded" => e = PaidEvent /\ money'[q] = "taken")
    /\ IF q = Renewal THEN charges[q] = 1 /\ (money'[q] # "none" => money[q] # "none") ELSE page[q] # "none"

Loudly(x, q, p, said) ==
    /\ \A y \in Procs \ {x} : Stays(y)
    /\ at' \in [Procs -> Places] /\ my' \in [Procs -> Hand]
    /\ Happens(q) /\ UNCHANGED <<charges, scene>> /\ faults' \in 0..MaxFaults
    /\ handled \subseteq handled' /\ handled' \subseteq events'
    /\ \A y \in {"return", "hook"} : my'[y].pay \in {my[y].pay, None} \/ ToldOf(my'[y].pay)
    /\ \A u \in Payments : my'["sweep"].pay = u => my["sweep"].pay = u
    /\ Ruled(db, db', p, said) /\ (SameAt(db, db', p) \/ Touches(p)) /\ NoOlder(db, db')
    /\ said = "succeeded" => IF p = Renewal THEN PaidEvent \in events /\ PaidEvent \in handled' \ handled
                             ELSE page[p] # "none"

LEMMA LoudKeeps ==
    ASSUME IInv, NEW x \in Watchers, NEW q \in Payments, NEW p \in Payments, NEW said, Loudly(x, q, p, said),
           Stays("return") \/ ReturnAt', Stays("hook") \/ HookAt', Stays("sweep") \/ SweepAt'
    PROVE  IInv'
<1>1. TypeOK /\ Balanced
  BY BaseParts
<1>2. TypeOK'
  <2>1. charges' \in [Payments -> Nat] /\ scene' = scene
    BY <1>1, TypeParts DEF Loudly
  <2>2. OnlyAt(db, db', p) /\ at' \in [Procs -> Places] /\ my' \in [Procs -> Hand] /\ faults' \in 0..MaxFaults
    BY DEF Loudly, Ruled
  <2>3. /\ page' \in [Payments -> {"none", "open", "approved"}]
        /\ money' \in [Payments -> {"none", "pending", "taken", "refused"}]
        /\ events' \subseteq Payments \X {"succeeded", "failed", "approved"} \X {1, 2}
        /\ handled' \subseteq events'
    BY DEF Loudly, Happens
  <2> QED BY <1>1, <2>1, <2>2, <2>3, TypesKept
<1>3. Happens(q)
  BY DEF Loudly
<1>4. \A t \in Tabs : TabTold(t)
  <2> SUFFICES ASSUME NEW t \in Tabs PROVE TabTold(t)
    OBVIOUS
  <2>1. t \in Payments /\ t # Renewal
    BY ProcTyped
  <2>2. page'[t] = "none" <=> page[t] = "none"
    BY <1>3, <2>1 DEF Happens
  <2>3. page[t] = "none" => t # q
    BY <1>3, <2>1 DEF Happens
  <2>4. page[t] = "none" => money'[t] = money[t] /\ \A e \in events' : e[1] = t => e \in events
    BY <1>3, <2>1, <2>3 DEF Happens
  <2>5. page[t] = "none" => /\ my'["return"].pay = t => my["return"].pay = t
                            /\ my'["hook"].pay = t => my["hook"].pay = t
    BY <2>1, ProcTyped DEF Loudly, ToldOf
  <2> QED BY <2>2, <2>4, <2>5 DEF TabTold
<1>5. MoneyStays
  BY <1>3 DEF Happens, MoneyStays
<1>6. RenewalTold
  <2>1. money'[Renewal] # "none" => money[Renewal] # "none"
    BY <1>3, ProcTyped DEF Happens
  <2>2. ASSUME NEW e \in events', e[1] = Renewal, e \notin events
        PROVE  charges[Renewal] = 1 /\ (e[2] = "succeeded" => e = PaidEvent /\ money'[Renewal] = "taken")
    <3>1. q = Renewal
      BY <1>3, <2>2 DEF Happens
    <3> QED BY <1>3, <2>2, <3>1 DEF Happens
  <2> QED BY <2>1, <2>2 DEF RenewalTold
<1>7. Watch(p, said)
  <2>1. \A y \in Runs \cup Tabs : Stays(y)
    BY ProcTyped DEF Loudly
  <2>2. events \subseteq events'
    BY <1>3 DEF Happens
  <2> QED BY <1>4, <1>5, <1>6, <2>1, <2>2 DEF Watch, Loudly
<1> QED BY <1>2, <1>7, WatchKeeps

LEMMA ToldEvents ==
    ASSUME TypeOK, NEW p \in Payments, NEW to
    PROVE  /\ events \subseteq Told(p, to)
           /\ Told(p, to) \subseteq Payments \X {"succeeded", "failed", "approved"} \X {1, 2}
           /\ \A e \in Told(p, to) : e \notin events =>
                 e[1] = p /\ (p = Renewal /\ e[2] = "succeeded" => e = PaidEvent /\ to = "taken")
<1>1. events \subseteq Payments \X {"succeeded", "failed", "approved"} \X {1, 2}
  BY DEF TypeOK
<1>2. ASSUME NEW said \in {"succeeded", "failed"}, NEW e \in Reported(p, said)
      PROVE  /\ e \in Payments \X {"succeeded", "failed", "approved"} \X {1, 2}
             /\ e[1] = p /\ e[2] = said /\ (p = Renewal /\ said = "succeeded" => e = PaidEvent)
  BY <1>2 DEF Reported, Event, PaidEvent
<1>3. CASE to = "taken"
  <2>1. Told(p, to) = events \cup Reported(p, "succeeded")
    BY <1>3 DEF Told
  <2> QED BY <1>1, <1>2, <1>3, <2>1
<1>4. CASE to = "refused"
  <2>1. Told(p, to) = events \cup Reported(p, "failed")
    BY <1>4 DEF Told
  <2> QED BY <1>1, <1>2, <2>1
<1>5. CASE to # "taken" /\ to # "refused"
  <2>1. Told(p, to) = events
    BY <1>5 DEF Told
  <2> QED BY <1>1, <2>1
<1> QED BY <1>3, <1>4, <1>5

LEMMA SaidKeeps ==
    ASSUME IInv, NEW q \in Payments, Happens(q), UNCHANGED <<db, at, my, handled, charges, faults, scene>>
    PROVE  IInv'
<1>1. TypeOK /\ db \in Db /\ "return" \in Watchers
  BY BaseParts, TypeParts, ProcTyped
<1>2. Ruled(db, db', q, "failed") /\ NoOlder(db, db') /\ SameAt(db, db', q)
  BY <1>1, SelfRules DEF SameAt, SameBooks
<1>3. \A y : Stays(y)
  BY DEF Stays
<1>4. at' \in [Procs -> Places] /\ my' \in [Procs -> Hand] /\ faults' \in 0..MaxFaults
  BY <1>1, TypeParts, FaultsTyped
<1>5. handled' \subseteq events'
  BY <1>1 DEF TypeOK, Happens
<1>6. Loudly("return", q, q, "failed")
  BY <1>2, <1>3, <1>4, <1>5 DEF Loudly
<1> QED BY <1>1, <1>3, <1>6, LoudKeeps

LEMMA CustomerPaysKeeps ==
    ASSUME IInv, NEW t \in Tabs, CustomerPays(t)
    PROVE  IInv'
<1>1. TypeOK /\ t \in Payments /\ t # Renewal
  BY BaseParts, ProcTyped
<1>2. PICK to \in {"taken", "refused", "pending"} : money' = [money EXCEPT ![t] = to] /\ events' = Told(t, to)
  BY DEF CustomerPays
<1>3. /\ money' \in [Payments -> {"none", "pending", "taken", "refused"}]
      /\ \A u \in Payments \ {t} : money'[u] = money[u]
  BY <1>1, <1>2, TypeParts
<1>4. page' = page /\ page \in [Payments -> {"none", "open", "approved"}] /\ page[t] = "open" /\ money[t] # "taken"
  BY <1>1, TypeParts DEF CustomerPays
<1>5. Happens(t)
  BY <1>1, <1>2, <1>3, <1>4, ToldEvents DEF Happens
<1> QED BY <1>1, <1>5, SaidKeeps DEF CustomerPays

LEMMA CustomerApprovesKeeps ==
    ASSUME IInv, NEW t \in Tabs, CustomerApproves(t)
    PROVE  IInv'
<1>1. TypeOK /\ t \in Payments /\ t # Renewal
  BY BaseParts, ProcTyped
<1>2. page' = [page EXCEPT ![t] = "approved"] /\ events' = events \cup {Event(t, "approved", 1)} /\ page[t] = "open"
  BY DEF CustomerApproves
<1>3. /\ page' \in [Payments -> {"none", "open", "approved"}] /\ page'[t] = "approved"
      /\ \A u \in Payments \ {t} : page'[u] = page[u]
  BY <1>1, <1>2, TypeParts
<1>4. events' \subseteq Payments \X {"succeeded", "failed", "approved"} \X {1, 2}
  BY <1>1, <1>2 DEF TypeOK, Event
<1>5. \A e \in events' : e \notin events => e[1] = t
  BY <1>2 DEF Event
<1>6. money' = money /\ money \in [Payments -> {"none", "pending", "taken", "refused"}]
  BY <1>1, TypeParts DEF CustomerApproves
<1>7. Happens(t)
  BY <1>1, <1>2, <1>3, <1>4, <1>5, <1>6 DEF Happens
<1> QED BY <1>1, <1>7, SaidKeeps DEF CustomerApproves

LEMMA ProviderDecidesKeeps ==
    ASSUME IInv, NEW p \in Payments, ProviderDecides(p)
    PROVE  IInv'
<1>1. TypeOK /\ ChargeInv /\ HandsOK
  BY BaseParts
<1>2. PICK to \in {"taken", "refused"} : money' = [money EXCEPT ![p] = to] /\ events' = Told(p, to)
  BY DEF ProviderDecides
<1>3. /\ money' \in [Payments -> {"none", "pending", "taken", "refused"}] /\ money'[p] = to
      /\ \A u \in Payments \ {p} : money'[u] = money[u]
  BY <1>1, <1>2, TypeParts
<1>4. page' = page /\ page \in [Payments -> {"none", "open", "approved"}] /\ money[p] = "pending"
  BY <1>1, TypeParts DEF ProviderDecides
<1>5. IF p = Renewal THEN charges[p] = 1 ELSE page[p] # "none"
  BY <1>1, <1>4, ProcTyped DEF ChargeInv, HandsOK, TabRow, Payments
<1>6. Happens(p)
  BY <1>1, <1>2, <1>3, <1>4, <1>5, ToldEvents DEF Happens
<1> QED BY <1>6, SaidKeeps DEF ProviderDecides

LEMMA SilentHappens ==
    ASSUME IInv, NEW e \in events, UNCHANGED <<page, money, events>>
    PROVE  e[1] \in Payments /\ Happens(e[1])
<1>1. TypeOK /\ ChargeInv /\ HandsOK
  BY BaseParts
<1>2. e[1] \in Payments
  BY <1>1 DEF TypeOK
<1>3. IF e[1] = Renewal THEN charges[e[1]] = 1 ELSE page[e[1]] # "none"
  BY <1>1, <1>2 DEF ChargeInv, HandsOK, TabRow, Payments
<1> QED BY <1>1, <1>2, <1>3 DEF Happens, TypeOK

LEMMA WebhookKeeps ==
    ASSUME IInv, NEW e \in events, Webhook(e)
    PROVE  IInv'
<1> DEFINE p == e[1]
           said == e[2]
<1>1. TypeOK /\ ChargeInv /\ HandsOK /\ db \in Db /\ "return" \in Watchers
  BY BaseParts, TypeParts, ProcTyped
<1>2. p \in Payments /\ said \in {"succeeded", "failed"}
  BY <1>1 DEF TypeOK, Webhook
<1>3. Happens(p)
  BY SilentHappens DEF Webhook
<1>4. Ruled(db, db', p, said) /\ NoOlder(db, db')
  <2>1. db' = Recorded(db, p, scene.provider, said)
    BY DEF Webhook
  <2> HIDE DEF p, said
  <2> QED BY <1>1, <1>2, <2>1, RecordedRules
<1>5. Touches(p)
  BY <1>2, <1>3 DEF Happens, Touches, Payments
<1>6. said = "succeeded" => IF p = Renewal THEN PaidEvent \in events /\ PaidEvent \in handled' \ handled
                            ELSE page[p] # "none"
  <2>1. p = Renewal /\ said = "succeeded" => e = PaidEvent
    BY <1>1 DEF ChargeInv
  <2>2. e \in events /\ e \in handled' \ handled
    BY DEF Webhook
  <2>3. p # Renewal => page[p] # "none"
    BY <1>3 DEF Happens
  <2> QED BY <2>1, <2>2, <2>3
<1>7. \A y : Stays(y)
  BY DEF Stays, Webhook
<1>8. at' \in [Procs -> Places] /\ my' \in [Procs -> Hand] /\ faults' \in 0..MaxFaults
  BY <1>1, TypeParts, FaultsTyped DEF Webhook
<1>9. handled \subseteq handled' /\ handled' \subseteq events' /\ UNCHANGED <<my, charges, scene>>
  BY <1>1 DEF TypeOK, Webhook
<1> HIDE DEF p, said
<1>10. Loudly("return", p, p, said)
  BY <1>3, <1>4, <1>5, <1>6, <1>7, <1>8, <1>9 DEF Loudly
<1> QED BY <1>1, <1>2, <1>7, <1>10, LoudKeeps

LEMMA HookReadsKeeps ==
    ASSUME IInv, NEW t \in Tabs, HookReads(t)
    PROVE  IInv'
<1> DEFINE e == Event(t, "approved", 1)
<1>1. TypeOK /\ HandsOK /\ db \in Db /\ t \in Payments /\ t # Renewal /\ "hook" \in Procs /\ "hook" \in Watchers
  BY BaseParts, TypeParts, ProcTyped
<1>2. e \in events /\ e[1] = t
  BY DEF HookReads, Event
<1>3. Happens(t)
  BY <1>2, SilentHappens DEF HookReads
<1>4. page[t] # "none"
  BY <1>1, <1>3 DEF Happens
<1>5. /\ at' \in [Procs -> Places] /\ my' \in [Procs -> Hand]
      /\ \A y \in Procs \ {"hook"} : Stays(y)
      /\ Stays("hook") \/ (at'["hook"] = "capture" /\ my'["hook"].pay = t /\ Exists(t) /\ events' = events)
  <2>1. CASE Take("hook", t, None, "capture") /\ Exists(t)
    BY <1>1, <2>1, TakeMoves DEF Places, Stays, HookReads
  <2>2. CASE UNCHANGED <<at, my>>
    BY <1>1, <2>2, TypeParts DEF Stays
  <2> QED BY <2>1, <2>2 DEF HookReads
<1>6. handled \subseteq handled' /\ handled' \subseteq events' /\ UNCHANGED <<db, charges, scene>> /\ faults' \in 0..MaxFaults
  <2>1. handled' = handled \/ handled' = handled \cup {e}
    BY DEF HookReads
  <2>2. handled \subseteq events /\ events' = events
    BY <1>1 DEF TypeOK, HookReads
  <2> HIDE DEF e
  <2> QED BY <1>1, <1>2, <2>1, <2>2, FaultsTyped DEF HookReads
<1>7. Ruled(db, db', t, "failed") /\ NoOlder(db, db') /\ SameAt(db, db', t)
  BY <1>1, <1>6, SelfRules DEF SameAt, SameBooks
<1>8. HookAt' \/ Stays("hook")
  BY <1>2, <1>5, <1>6 DEF HookAt, Exists, Event
<1>9. Stays("return") /\ Stays("sweep")
  BY <1>5, ProcTyped
<1>10. \A y \in {"return", "hook"} : my'[y].pay \in {my[y].pay, None} \/ ToldOf(my'[y].pay)
  BY <1>4, <1>5, <1>9 DEF Stays, ToldOf
<1>11. my'["sweep"] = my["sweep"]
  BY <1>9 DEF Stays
<1>12. Loudly("hook", t, t, "failed")
  BY <1>3, <1>5, <1>6, <1>7, <1>10, <1>11 DEF Loudly
<1> QED BY <1>1, <1>8, <1>9, <1>12, LoudKeeps

\* A capture, or another look at what was captured before.
LEMMA CaptureHappens ==
    ASSUME IInv, NEW p \in Tabs, page[p] # "none", NEW to \in {"taken", "refused", "pending", "none"},
           NEW got \in Results, Capture(p, to, got)
    PROVE  Happens(p) /\ got \in Heard \cup {"lost"}
<1>1. TypeOK /\ p \in Payments /\ p # Renewal
  BY BaseParts, ProcTyped
<1>2. /\ money' \in [Payments -> {"none", "pending", "taken", "refused"}] /\ money'[p] = to
      /\ \A u \in Payments \ {p} : money'[u] = money[u]
  BY <1>1, TypeParts DEF Capture
<1>3. /\ page' \in [Payments -> {"none", "open", "approved"}] /\ page'[p] # "none"
      /\ \A u \in Payments \ {p} : page'[u] = page[u]
  <2>1. CASE page' = page
    BY <1>1, <2>1, TypeParts
  <2>2. CASE page' = [page EXCEPT ![p] = "open"]
    BY <1>1, <2>2, TypeParts
  <2> QED BY <2>1, <2>2 DEF Capture
<1>4. money[p] = "taken" => money'[p] = "taken"
  BY <1>2 DEF Capture
<1>5. /\ events \subseteq events' /\ events' \subseteq Payments \X {"succeeded", "failed", "approved"} \X {1, 2}
      /\ \A e \in events' : e \notin events => e[1] = p
  <2>1. CASE events' = events
    BY <1>1, <2>1 DEF TypeOK
  <2>2. CASE events' = Told(p, to)
    BY <1>1, <2>2, ToldEvents
  <2> QED BY <2>1, <2>2 DEF Capture
<1>6. got \in Heard \cup {"lost"}
  <2>1. got \in {Said(p), "lost", "succeeded", "pending", "failed", "action", "uncaptured"}
    BY DEF Capture
  <2>2. Said(p) \in Heard
    BY DEF Said, Heard
  <2> QED BY <2>1, <2>2 DEF Heard
<1> QED BY <1>1, <1>2, <1>3, <1>4, <1>5, <1>6 DEF Happens

LEMMA CaptureOnReturnKeeps ==
    ASSUME IInv, CaptureOnReturn
    PROVE  IInv'
<1> DEFINE p == my["return"].pay
<1>1. TypeOK /\ HandsOK /\ db \in Db /\ "return" \in Procs /\ "return" \in Watchers
  BY BaseParts, TypeParts, ProcTyped
<1>2. p \in Tabs /\ p \in Payments /\ ToldOf(p) /\ Exists(p)
  BY HandTold DEF CaptureOnReturn
<1>3. PICK to \in {"taken", "refused", "pending", "none"}, got \in Results :
         /\ Capture(p, to, got)
         /\ IF got = "lost" THEN Fault("lost") /\ Leave("return")
            ELSE /\ my' = [my EXCEPT !["return"].got = got]
                 /\ Goto("return", "record") /\ UNCHANGED faults
  BY DEF CaptureOnReturn
<1>4. Happens(p) /\ got \in Heard \cup {"lost"}
  <2>1. page[p] # "none"
    BY <1>2 DEF ToldOf
  <2> HIDE DEF p
  <2> QED BY <1>2, <1>3, <2>1, CaptureHappens
<1>5. UNCHANGED <<db, handled, charges, scene>> /\ faults' \in 0..MaxFaults
  BY <1>1, <1>3, FaultsTyped DEF CaptureOnReturn
<1>6. /\ at' \in [Procs -> Places] /\ my' \in [Procs -> Hand]
      /\ \A y \in Procs \ {"return"} : Stays(y)
      /\ \/ at'["return"] = "idle" /\ my'["return"].pay = None
         \/ at'["return"] = "record" /\ my'["return"].pay = p /\ my'["return"].got = got /\ got \in Heard
  <2>1. CASE got = "lost"
    BY <1>1, <1>3, <2>1, LeaveMoves, IdleTyped DEF Stays
  <2>2. CASE got # "lost"
    <3>1. "record" \in Places
      BY DEF Places
    <3> QED BY <1>1, <1>3, <1>4, <2>2, <3>1, GotMoves DEF Stays
  <2> QED BY <2>1, <2>2
<1>7. ReturnAt'
  BY <1>2, <1>5, <1>6 DEF ReturnAt, Exists
<1>8. Ruled(db, db', p, "failed") /\ NoOlder(db, db') /\ SameAt(db, db', p)
  BY <1>1, <1>2, <1>5, SelfRules DEF SameAt, SameBooks
<1>9. Stays("hook") /\ Stays("sweep")
  BY <1>6, ProcTyped
<1>10. my'["hook"] = my["hook"] /\ my'["sweep"] = my["sweep"] /\ my'["return"].pay \in {my["return"].pay, None}
  BY <1>6, <1>9 DEF Stays
<1>11. handled \subseteq handled' /\ handled' \subseteq events'
  BY <1>1, <1>4, <1>5 DEF TypeOK, Happens
<1> HIDE DEF p
<1>12. Loudly("return", p, p, "failed")
  BY <1>4, <1>5, <1>6, <1>8, <1>10, <1>11 DEF Loudly
<1> QED BY <1>1, <1>2, <1>7, <1>9, <1>12, LoudKeeps

LEMMA HookCapturesKeeps ==
    ASSUME IInv, HookCaptures
    PROVE  IInv'
<1> DEFINE p == my["hook"].pay
           e == Event(p, "approved", 1)
<1>1. TypeOK /\ HandsOK /\ db \in Db /\ "hook" \in Procs /\ "hook" \in Watchers
  BY BaseParts, TypeParts, ProcTyped
<1>2. p \in Tabs /\ p \in Payments /\ p # Renewal /\ ToldOf(p) /\ db.rows[p] \in Row /\ Touches(p)
  BY HandTold, ProcTyped DEF HookCaptures
<1>3. PICK to \in {"taken", "refused", "pending", "none"}, got \in Results :
         /\ Capture(p, to, got)
         /\ IF got = "lost" THEN Fault("lost") /\ UNCHANGED <<db, handled>>
            ELSE /\ db' = CaptureRecorded(MarkedStarted(db, p), p, got)
                 /\ handled' = handled \cup {e} /\ UNCHANGED faults
  BY DEF HookCaptures
<1>4. Happens(p) /\ got \in Heard \cup {"lost"}
  <2>1. page[p] # "none"
    BY <1>2 DEF ToldOf
  <2> HIDE DEF p
  <2> QED BY <1>2, <1>3, <2>1, CaptureHappens
<1>5. UNCHANGED <<charges, scene>> /\ faults' \in 0..MaxFaults
  BY <1>1, <1>3, FaultsTyped DEF HookCaptures
<1>6. /\ at' \in [Procs -> Places] /\ my' \in [Procs -> Hand]
      /\ at'["hook"] = "idle" /\ my'["hook"].pay = None
      /\ \A y \in Procs \ {"hook"} : Stays(y)
  BY <1>1, LeaveMoves, IdleTyped DEF HookCaptures, Stays
<1>7. HookAt'
  BY <1>6 DEF HookAt
<1>8. \E said : Ruled(db, db', p, said) /\ NoOlder(db, db')
  <2>1. CASE db' = db
    BY <1>1, <1>2, <2>1, SelfRules
  <2>2. CASE got \in Heard /\ db' = CaptureRecorded(MarkedStarted(db, p), p, got)
    <3> HIDE DEF p
    <3>1. PICK b : b = MarkedStarted(db, p)
      OBVIOUS
    <3>2. OnlyAt(db, b, p) /\ Marked(db, b, p) /\ NoOlder(db, b)
      BY <1>1, <1>2, <3>1, StartedRules
    <3>3. b \in Db /\ b.rows[p] \in Row
      BY <3>2 DEF OnlyAt, Marked
    <3>4. Ruled(b, db', p, got) /\ NoOlder(b, db')
      BY <1>2, <2>2, <3>1, <3>3, CaptureRules
    <3>5. Ruled(db, db', p, got) /\ NoOlder(db, db')
      BY <1>1, <1>2, <3>2, <3>3, <3>4, MarkThenRule
    <3> QED BY <3>5
  <2> QED BY <1>3, <1>4, <2>1, <2>2
<1>9. PICK said : Ruled(db, db', p, said) /\ NoOlder(db, db')
  BY <1>8
<1>10. Stays("return") /\ Stays("sweep")
  BY <1>6, ProcTyped
<1>11. my'["return"] = my["return"] /\ my'["sweep"] = my["sweep"]
  BY <1>10 DEF Stays
<1>12. handled \subseteq handled' /\ handled' \subseteq events'
  <2>1. e \in events
    BY <1>1 DEF HandsOK, HookAt, HookCaptures
  <2>2. handled' = handled \/ handled' = handled \cup {e}
    BY <1>3
  <2>3. handled \subseteq events /\ events \subseteq events'
    BY <1>1, <1>4 DEF TypeOK, Happens
  <2> HIDE DEF e, p
  <2> QED BY <2>1, <2>2, <2>3
<1>13. page[p] # "none"
  BY <1>2 DEF ToldOf
<1> HIDE DEF p
<1>14. Loudly("hook", p, p, said)
  BY <1>2, <1>4, <1>5, <1>6, <1>9, <1>11, <1>12, <1>13 DEF Loudly
<1> QED BY <1>1, <1>2, <1>7, <1>10, <1>14, LoudKeeps

-----------------------------------------------------------------------------
(* The steps that a run and a checkout share: the row and its credit.      *)

Own(x) == IF x \in Runs THEN Renewal ELSE x

\* What a creator has in hand.
LEMMA CreatorHas ==
    ASSUME IInv, NEW x \in Runs \cup Tabs, at[x] # "idle"
    PROVE  /\ my[x].pay = Own(x) /\ Own(x) \in Payments /\ x \in Procs
           /\ at[x] \notin {"idle", "clear", "create"} =>
                 Exists(Own(x)) /\ db.rows[Own(x)] \in Row /\ my[x].copy \in Row /\ Good(my[x].copy)
           /\ at[x] = "apply" => my[x].copy.due = Price
<1>1. TypeOK /\ HandsOK /\ db \in Db
  BY BaseParts, TypeParts
<1>2. Own(x) \in Payments /\ x \in Procs
  BY ProcTyped DEF Own
<1>3. CASE x \in Runs
  <2>1. RunAt(x)
    BY <1>1, <1>3 DEF HandsOK
  <2> QED BY <1>1, <1>2, <1>3, <2>1, DbTyped DEF RunAt, Own, Good, Exists
<1>4. CASE x \in Tabs
  <2>1. TabAt(x) /\ x \notin Runs
    BY <1>1, <1>4, ProcTyped DEF HandsOK
  <2> QED BY <1>1, <1>2, <1>4, <2>1, DbTyped DEF TabAt, Own, Good, Exists
<1> QED BY <1>3, <1>4

NewRow == NewPayment \in Row /\ Good(NewPayment) /\ NewPayment.status = "pending" /\ ~NewPayment.started
          /\ ~Aged(NewPayment) /\ NewPayment.due = Price /\ ~NewPayment.day /\ ~NewPayment.claimed
LEMMA NewTyped == ASSUME TypeOK PROVE NewRow
BY TypeParts, PriceTyped DEF NewRow, NewPayment, Row, Good, Aged, Scene, OpenStatus

LEMMA CreateMoves ==
    ASSUME IInv, NEW x \in Runs \cup Tabs, Create(x)
    PROVE  /\ at' \in [Procs -> Places] /\ my' \in [Procs -> Hand] /\ my'[x].todo = {}
           /\ \A y \in Procs \ {x} : Stays(y)
           /\ \/ /\ Exists(Own(x)) /\ db' = db
                 /\ at'[x] = "claim" /\ my'[x].pay = Own(x) /\ my'[x].copy = db.rows[Own(x)]
              \/ ~Exists(Own(x)) /\ Own(x) # Renewal /\ db' = db /\ at'[x] = "idle" /\ my'[x].pay = None
              \/ /\ ~Exists(Own(x)) /\ db' = Saved(db, Own(x), NewPayment)
                 /\ at'[x] = "apply" /\ my'[x].pay = Own(x) /\ my'[x].copy = NewPayment
<1> DEFINE p == my[x].pay
<1>1. TypeOK /\ x \in Procs /\ p = Own(x) /\ p \in Payments /\ db \in Db
  BY BaseParts, TypeParts, CreatorHas DEF Create
<1>2. db.rows[p] \in Row \cup {None} /\ NewPayment \in Row
  BY <1>1, DbTyped, NewTyped DEF NewRow
<1> DEFINE Moved == /\ at' \in [Procs -> Places] /\ my' \in [Procs -> Hand] /\ my'[x].todo = {}
                    /\ \A y \in Procs \ {x} : Stays(y)
<1>3. CASE Exists(p) /\ Take(x, p, db.rows[p], "claim") /\ UNCHANGED db
  <2>1. Moved /\ at'[x] = "claim" /\ my'[x].pay = p /\ my'[x].copy = db.rows[p]
    BY <1>1, <1>2, <1>3, TakeMoves DEF Places, Stays
  <2> QED BY <1>1, <1>3, <2>1
<1>4. CASE ~Exists(p) /\ p # Renewal /\ Leave(x) /\ UNCHANGED db
  <2>1. Moved /\ at'[x] = "idle" /\ my'[x].pay = None
    BY <1>1, <1>4, LeaveMoves, IdleTyped DEF Stays
  <2> QED BY <1>1, <1>4, <2>1
<1>5. CASE ~Exists(p) /\ db' = Saved(db, p, NewPayment) /\ Take(x, p, NewPayment, "apply")
  <2>1. Moved /\ at'[x] = "apply" /\ my'[x].pay = p /\ my'[x].copy = NewPayment
    BY <1>1, <1>2, <1>5, TakeMoves DEF Places, Stays
  <2> QED BY <1>1, <1>5, <2>1
<1> QED BY <1>3, <1>4, <1>5 DEF Create

LEMMA CopyEdit ==
    ASSUME NEW hand \in Hand, hand.copy \in Row, hand.copy.due = Price, NEW used \in 0..Price
    PROVE  \E h \in Hand : /\ h = [hand EXCEPT !.copy = [hand.copy EXCEPT !.held = used, !.due = Price - used]]
                           /\ h.pay = hand.pay /\ h.todo = hand.todo /\ h.copy \in Row
                           /\ h.copy.provider = hand.copy.provider /\ h.copy.status = hand.copy.status
<1>1. Price - used \in 0..Price
  BY PriceTyped
<1>2. [hand.copy EXCEPT !.held = used, !.due = Price - used] \in Row
  BY <1>1 DEF Row
<1> DEFINE row == [hand.copy EXCEPT !.held = used, !.due = Price - used]
           h == [hand EXCEPT !.copy = row]
<1>3. row.provider = hand.copy.provider /\ row.status = hand.copy.status
  BY DEF Row
<1> HIDE DEF row
<1>4. row \in Row
  BY <1>2 DEF row
<1>5. h \in Hand /\ h.pay = hand.pay /\ h.todo = hand.todo /\ h.copy = row
  BY <1>4 DEF Hand
<1> HIDE DEF h
<1>6. h = [hand EXCEPT !.copy = [hand.copy EXCEPT !.held = used, !.due = Price - used]]
  BY DEF h, row
<1> QED BY <1>3, <1>4, <1>5, <1>6

LEMMA ApplyMoves ==
    ASSUME IInv, NEW x \in Runs \cup Tabs, ApplyCredit(x)
    PROVE  /\ at' \in [Procs -> Places] /\ my' \in [Procs -> Hand] /\ my'[x].todo = my[x].todo
           /\ \A y \in Procs \ {x} : Stays(y)
           /\ OnlyAt(db, db', Own(x)) /\ db'.rows = db.rows /\ db'.granted = db.granted /\ db'.sub = db.sub
           /\ my'[x].pay = Own(x) /\ Good(my'[x].copy) /\ my'[x].copy.status = my[x].copy.status
           /\ at'[x] \in IF Own(x) = Renewal THEN {"save", "claim"} ELSE {"save", "open"}
           /\ scene.credit = 0 => at'[x] # "save" /\ db'.ledger[Own(x)] = 0
<1> DEFINE p == my[x].pay
           after == Applied(db, p, my[x].copy.due)
           used == after.ledger[p]
<1>1. TypeOK /\ Balanced /\ RowsOK /\ db \in Db
  BY BaseParts, TypeParts
<1>2. x \in Procs /\ p = Own(x) /\ p \in Payments /\ my[x].copy \in Row /\ Good(my[x].copy) /\ my[x].copy.due = Price
  BY CreatorHas DEF ApplyCredit
<1>3. db' = after /\ quiet' = quiet /\ my' = [my EXCEPT ![x].copy.held = used, ![x].copy.due = my[x].copy.due - used]
      /\ Goto(x, IF used > 0 THEN "save" ELSE IF p = Renewal THEN "claim" ELSE "open")
  BY DEF ApplyCredit
<1>4. OnlyAt(db, db', p) /\ db'.rows = db.rows /\ db'.granted = db.granted /\ db'.sub = db.sub
  <2>1. Price \in 0..Price
    BY PriceTyped
  <2> HIDE DEF p
  <2> QED BY <1>1, <1>2, <1>3, <2>1, AppliedDb
<1>5. used \in Nat /\ used <= Price /\ (scene.credit = 0 => used = 0)
  <2>1. scene' = scene
    BY <1>3, QuietParts
  <2>2. db'.ledger \in [Payments -> 0..scene'.credit] /\ scene.credit \in Nat
    BY <1>1, <1>2, <1>4, <2>1, BooksKept, TypeParts
  <2>3. db'.ledger[p] <= Price
    BY <1>1, <1>2, <1>4 DEF RowsOK, OnlyAt
  <2>4. db'.ledger[p] \in Nat /\ db'.ledger[p] <= scene.credit
    BY <1>2, <2>1, <2>2
  <2>5. used = db'.ledger[p]
    BY <1>3
  <2> HIDE DEF used, after
  <2> QED BY <2>2, <2>3, <2>4, <2>5
<1>6. my[x] \in Hand
  BY <1>1, <1>2, TypeParts
<1> HIDE DEF used, after
<1>7. used \in 0..Price
  BY <1>5, PriceTyped
<1>8. PICK h \in Hand : /\ h = [my[x] EXCEPT !.copy = [my[x].copy EXCEPT !.held = used, !.due = Price - used]]
                        /\ h.pay = my[x].pay /\ h.todo = my[x].todo /\ h.copy \in Row
                        /\ h.copy.provider = my[x].copy.provider /\ h.copy.status = my[x].copy.status
  BY <1>2, <1>6, <1>7, CopyEdit
<1>9. my' = [my EXCEPT ![x] = h]
  BY <1>2, <1>3, <1>8
<1>10. my' \in [Procs -> Hand] /\ my'[x] = h /\ \A y \in Procs \ {x} : my'[y] = my[y]
  BY <1>1, <1>2, <1>9, HandMoves
<1>11. PICK to : to = IF used > 0 THEN "save" ELSE IF p = Renewal THEN "claim" ELSE "open"
  OBVIOUS
<1>12. /\ to \in Places /\ to \in IF p = Renewal THEN {"save", "claim"} ELSE {"save", "open"}
       /\ used = 0 => to # "save"
  BY <1>5, <1>11 DEF Places
<1>13. at' \in [Procs -> Places] /\ at'[x] = to /\ \A y \in Procs \ {x} : at'[y] = at[y]
  BY <1>1, <1>2, <1>3, <1>11, <1>12, GotoMoves
<1>14. Good(h.copy)
  BY <1>2, <1>8 DEF Good
<1>15. scene.credit = 0 => at'[x] # "save" /\ db'.ledger[p] = 0
  BY <1>3, <1>5, <1>12, <1>13 DEF used
<1> QED BY <1>2, <1>4, <1>8, <1>10, <1>12, <1>13, <1>14, <1>15 DEF Stays

LEMMA SaveMoves ==
    ASSUME IInv, NEW x \in Runs \cup Tabs, SaveCredit(x)
    PROVE  /\ at' \in [Procs -> Places] /\ my' = my
           /\ \A y \in Procs \ {x} : Stays(y)
           /\ OnlyAt(db, db', Own(x)) /\ Marked(db, db', Own(x)) /\ NoOlder(db, db')
           /\ db'.rows[Own(x)].started = db.rows[Own(x)].started
           /\ at'[x] \in IF Own(x) = Renewal THEN {"settle", "claim"} ELSE {"settle", "open"}
<1> DEFINE p == my[x].pay
           copy == my[x].copy
           row == [db.rows[p] EXCEPT !.held = copy.held, !.due = copy.due]
<1>1. TypeOK /\ db \in Db
  BY BaseParts, TypeParts
<1>2. x \in Procs /\ p = Own(x) /\ p \in Payments /\ copy \in Row /\ db.rows[p] \in Row
  BY CreatorHas DEF SaveCredit
<1>3. db' = Saved(db, p, row) /\ my' = my
  BY DEF SaveCredit
<1>4. /\ row \in Row /\ row.status = db.rows[p].status /\ row.provider = db.rows[p].provider
      /\ row.claimed = db.rows[p].claimed /\ row.started = db.rows[p].started /\ (Aged(row) => Aged(db.rows[p]))
  BY <1>2 DEF Row, Aged
<1>5. PICK to : to = IF copy.due = 0 THEN "settle" ELSE IF p = Renewal THEN "claim" ELSE "open"
  OBVIOUS
<1>6. Goto(x, to) /\ to \in Places /\ to \in IF p = Renewal THEN {"settle", "claim"} ELSE {"settle", "open"}
  BY <1>5 DEF Places, SaveCredit
<1> HIDE DEF p, copy, row
<1>7. at' \in [Procs -> Places] /\ at'[x] = to /\ \A y \in Procs \ {x} : at'[y] = at[y]
  BY <1>1, <1>2, <1>6, GotoMoves
<1>8. OnlyAt(db, db', p) /\ Marked(db, db', p) /\ NoOlder(db, db') /\ db'.rows[p] = row
  BY <1>1, <1>2, <1>3, <1>4, MarkedDb, SavedDb
<1> QED BY <1>2, <1>3, <1>4, <1>6, <1>7, <1>8 DEF Stays

LEMMA SettleMoves ==
    ASSUME IInv, NEW x \in Runs \cup Tabs, SettleByCredit(x)
    PROVE  /\ at' \in [Procs -> Places] /\ my' = my /\ at'[x] = "grant"
           /\ \A y \in Procs \ {x} : Stays(y)
           /\ OnlyAt(db, db', Own(x)) /\ SameBooks(db, db', Own(x))
           /\ Good(db'.rows[Own(x)]) /\ db'.rows[Own(x)].status = "succeeded"
<1> DEFINE p == my[x].pay
           row == [db.rows[p] EXCEPT !.status = "succeeded", !.provider = "credit"]
<1>1. TypeOK /\ db \in Db
  BY BaseParts, TypeParts
<1>2. x \in Procs /\ p = Own(x) /\ p \in Payments /\ db.rows[p] \in Row
  BY CreatorHas DEF SettleByCredit
<1>3. db' = Saved(db, p, row) /\ my' = my /\ Goto(x, "grant") /\ "grant" \in Places
  BY DEF SettleByCredit, Places
<1>4. row \in Row /\ Good(row) /\ row.status = "succeeded"
  BY <1>2 DEF Row, Good
<1> HIDE DEF p, row
<1>5. at' \in [Procs -> Places] /\ at'[x] = "grant" /\ \A y \in Procs \ {x} : at'[y] = at[y]
  BY <1>1, <1>2, <1>3, GotoMoves
<1>6. OnlyAt(db, db', p) /\ SameBooks(db, db', p) /\ db'.rows[p] = row
  BY <1>1, <1>2, <1>3, <1>4, SavedDb
<1> QED BY <1>2, <1>3, <1>4, <1>5, <1>6 DEF Stays

LEMMA GrantMoves ==
    ASSUME IInv, NEW x \in Runs \cup Tabs, GrantByCredit(x)
    PROVE  /\ at' \in [Procs -> Places] /\ my' \in [Procs -> Hand] /\ at'[x] = "idle" /\ my'[x] = Idle
           /\ \A y \in Procs \ {x} : Stays(y)
           /\ OnlyAt(db, db', Own(x)) /\ db'.rows = db.rows /\ db'.ledger = db.ledger
           /\ db'.granted[Own(x)] = db.granted[Own(x)] + 1
<1>1. TypeOK /\ db \in Db
  BY BaseParts, TypeParts
<1>2. x \in Procs /\ my[x].pay = Own(x) /\ Own(x) \in Payments
  BY CreatorHas DEF GrantByCredit
<1>3. db' = Activated(db, Own(x)) /\ Leave(x)
  BY <1>2 DEF GrantByCredit
<1>4. /\ at' \in [Procs -> Places] /\ my' \in [Procs -> Hand] /\ at'[x] = "idle" /\ my'[x] = Idle
      /\ \A y \in Procs \ {x} : Stays(y)
  BY <1>1, <1>2, <1>3, LeaveMoves DEF Stays
<1>5. OnlyAt(db, db', Own(x)) /\ db'.rows = db.rows /\ db'.ledger = db.ledger
      /\ db'.granted[Own(x)] = db.granted[Own(x)] + 1
  BY <1>1, <1>2, <1>3, ActivatedDb
<1> QED BY <1>4, <1>5

-----------------------------------------------------------------------------
(* Steps of a checkout.                                                    *)

\* The checkout t moves, and changes its own payment, or gives up another.
Visits(t, p) ==
    /\ \A y \in Procs \ {t} : Stays(y)
    /\ at' \in [Procs -> Places] /\ my' \in [Procs -> Hand]
    /\ page' \in [Payments -> {"none", "open", "approved"}]
    /\ UNCHANGED <<money, events, handled, charges, scene>> /\ faults' \in 0..MaxFaults
    /\ \A u \in Payments \ {t} : page'[u] = page[u]
    /\ OnlyAt(db, db', p)
    /\ \/ p = t /\ (db'.rows[t] # None => Good(db'.rows[t]))
       \/ Effect(db, db', p, "failed")
    /\ TabAt(t)' /\ TabRow(t)'
    /\ t \in scene.tabs /\ (at'[t] = "apply" => my'[t].pay = t /\ Fresh(t)')
    /\ \/ Effect(db, db', p, "failed")
       \/ db'.rows[p] # None /\ db'.rows[p].status \notin GivenUp
       \/ SameBooks(db, db', p) /\ db.rows[p] # None /\ db'.rows[p].status = db.rows[p].status
       \/ NoneShare => db'.ledger[p] = 0 \/ db'.rows[p].status \notin GivenUp

LEMMA VisitBase ==
    ASSUME IInv, NEW t \in Tabs, NEW p \in Tabs, Visits(t, p)
    PROVE  Base' /\ SameAt(db, db', Renewal) /\ ClosedStays /\ (\A r \in Runs : Stays(r)) /\ my'["sweep"] = my["sweep"]
<1>1. TypeOK /\ Balanced /\ RowsOK /\ HandsOK /\ ChargeInv /\ AgeInv
  BY BaseParts
<1>2. t \in Payments /\ p \in Payments /\ p # Renewal /\ scene' = scene /\ OnlyAt(db, db', p)
  BY ProcTyped DEF Visits
<1>3. Balanced'
  BY <1>1, <1>2, BooksKept
<1>4. RowsOK'
  BY <1>1, <1>2, RowsKept DEF Visits
<1>5. TypeOK'
  <2>1. /\ money \in [Payments -> {"none", "pending", "taken", "refused"}]
        /\ events \subseteq Payments \X {"succeeded", "failed", "approved"} \X {1, 2}
        /\ handled \subseteq events /\ charges \in [Payments -> Nat]
    BY <1>1 DEF TypeOK
  <2> QED BY <1>1, <1>2, <2>1, TypesKept DEF Visits
<1>6. There /\ MoneyStays /\ events \subseteq events'
  BY <1>2 DEF OnlyAt, There, Exists, MoneyStays, Visits
<1>7. \A y \in Runs \cup Watchers : Stays(y)
  BY ProcTyped DEF Visits
<1>8. SameAt(db, db', Renewal)
  BY <1>2, ProcTyped DEF OnlyAt, SameAt, SameBooks
<1>9. HandsOK'
  <2>1. ASSUME NEW u \in Tabs, u # t PROVE Stays(u) /\ TabTold(u) /\ TabRuled(u)
    <3>1. Stays(u) /\ page'[u] = page[u]
      BY <2>1, ProcTyped DEF Visits
    <3>2. TabTold(u)
      BY <1>7, <3>1, ProcTyped DEF TabTold, Visits, Stays
    <3>3. Effect(db, db', u, "failed")
      <4>1. CASE u = p
        BY <2>1, <4>1 DEF Visits
      <4>2. CASE u # p
        <5>1. SameAt(db, db', u)
          BY <1>2, <4>2, ProcTyped DEF OnlyAt, SameAt, SameBooks
        <5> QED BY <5>1 DEF Effect
      <4> QED BY <4>1, <4>2
    <3>4. TabRuled(u)
      BY <3>3 DEF TabRuled
    <3> QED BY <3>1, <3>2, <3>4
  <2>2. \A u \in Tabs : (Stays(u) /\ TabTold(u) /\ TabRuled(u)) \/ (TabAt(u)' /\ TabRow(u)')
    BY <2>1 DEF Visits
  <2> QED BY <1>1, <1>2, <1>6, <1>7, <2>2, ProcTyped, HandsKept
<1>10. ClosedStays
  BY <1>8 DEF SameAt, ClosedStays, Closed, Claimable, Exists
<1>11. RenewalTold /\ charges' = charges
  BY DEF RenewalTold, Visits
<1>12. \A r \in Runs : at'[r] = at[r]
  BY <1>7 DEF Stays
<1>13. ChargeInv'
  BY <1>1, <1>2, <1>6, <1>10, <1>11, <1>12, ChargeKept
<1>14. my'["sweep"] = my["sweep"]
  BY <1>7, ProcTyped DEF Stays
<1>15. AgeInv'
  <2>1. Cold => Cold'
    BY <1>2, <1>6, <1>10, <1>12, ColdKept DEF OnlyAt
  <2>2. AgeTold
    BY <1>8 DEF SameAt, AgeTold, Exists
  <2> QED BY <1>1, <1>14, <2>1, <2>2, AgeKept
<1> QED BY <1>3, <1>4, <1>5, <1>7, <1>8, <1>9, <1>10, <1>13, <1>14, <1>15 DEF Base

LEMMA VisitKeeps ==
    ASSUME IInv, NEW t \in Tabs, NEW p \in Tabs, Visits(t, p)
    PROVE  IInv'
<1>1. Base' /\ SameAt(db, db', Renewal) /\ ClosedStays /\ (\A r \in Runs : Stays(r)) /\ my'["sweep"] = my["sweep"]
  BY VisitBase
<1>2. scene' = scene /\ charges' = charges /\ handled' = handled
  BY DEF Visits
<1>3. p \in Payments /\ p # Renewal /\ t \notin Runs /\ t \in Payments /\ t # Renewal
  BY ProcTyped
<1>4. ASSUME OneRun' PROVE GrantInv'
  <2>1. GrantInv
    BY <1>2, <1>4, BaseParts DEF OneRun
  <2>2. \A r \in Runs : CreditingAt(r)'
    BY <1>1, <1>2, <2>1, CreditingKept DEF GrantInv, CreditingAt, SameAt, SameBooks
  <2>3. \A r \in Runs : at'[r] \in Charging => at'[r] = at[r] /\ my'[r].got = my[r].got
    BY <1>1 DEF Stays
  <2> QED BY <1>1, <1>2, <2>1, <2>2, <2>3, GrantKept DEF SameAt, SameBooks
<1>5. ASSUME NoneShare' PROVE CreditInv'
  <2>1. NoneShare /\ CreditInv
    BY <1>2, <1>5, BaseParts DEF NoneShare
  <2>2. ASSUME scene'.credit # 0, NEW x \in Runs \cup Tabs, at'[x] = "apply" PROVE Fresh(my[x].pay)'
    <3>1. CASE x = t
      BY <2>2, <3>1 DEF Visits
    <3>2. CASE x # t
      <4>1. Stays(x) /\ scene.credit # 0
        BY <1>2, <2>2, <3>2, ProcTyped DEF Visits
      <4>2. at[x] = "apply" /\ my'[x].pay = my[x].pay
        BY <2>2, <4>1 DEF Stays
      <4>3. x \in Runs
        <5>1. x \in Tabs => x \in scene.tabs
          BY <4>2, BaseParts DEF HandsOK, TabAt
        <5> QED BY <2>1, <3>2, <4>1, <5>1 DEF NoneShare, Visits
      <4>4. Fresh(Renewal) /\ my[x].pay = Renewal
        BY <2>1, <4>1, <4>2, <4>3, ApplyingFresh
      <4>5. Fresh(Renewal)'
        BY <1>1, <4>4, FreshKept DEF SameAt
      <4> QED BY <4>2, <4>4, <4>5
    <3> QED BY <3>1, <3>2
  <2>3. db.rows[p] # None => db'.rows[p] # None
    BY DEF Visits, OnlyAt
  <2>4. \/ \E said : Effect(db, db', p, said)
        \/ db'.ledger[p] = 0
        \/ db'.rows[p] = None
        \/ db'.rows[p] # None /\ db'.rows[p].status \notin GivenUp
        \/ SameBooks(db, db', p) /\ db.rows[p] # None /\ db'.rows[p].status = db.rows[p].status
    BY <2>1 DEF Visits
  <2>5. OnlyAt(db, db', p)
    BY DEF Visits
  <2> QED BY <1>3, <2>1, <2>2, <2>4, <2>5, GivenUpKept
<1> QED BY <1>1, <1>4, <1>5 DEF IInv

LEMMA VisitRow ==
    ASSUME IInv, NEW t \in Tabs, \A y \in Procs \ {t} : Stays(y), UNCHANGED <<money, events>>,
           page'[t] \in {page[t], "open"}, page'[t] # "none" => db'.rows[t] # None,
           db'.granted[t] <= 1, db'.granted[t] = 1 => db'.rows[t] # None /\ db'.rows[t].status = "succeeded"
    PROVE  TabRow(t)'
<1>1. TabRow(t)
  BY BaseParts DEF HandsOK
<1>2. Stays("return") /\ Stays("hook")
  BY ProcTyped
<1> QED BY <1>1, <1>2 DEF TabRow, Stays, Exists

\* What a checkout under way knows of itself.
LEMMA CheckoutHas ==
    ASSUME IInv, NEW t \in Tabs, at[t] # "idle"
    PROVE  /\ TabAt(t) /\ TabRow(t) /\ t \in scene.tabs /\ page[t] = "none" /\ db.granted[t] = 0
           /\ t \in Payments /\ t \in Procs /\ t # Renewal /\ Own(t) = t
           /\ page \in [Payments -> {"none", "open", "approved"}]
           /\ db \in Db /\ TypeOK
           /\ at[t] \notin {"idle", "clear", "create"} => Exists(t) /\ Good(db.rows[t])
           /\ at[t] = "clear" \/ at[t] = "create" => ~Exists(t) /\ my["sweep"].pay # t
<1>1. TabAt(t) /\ TabRow(t) /\ SweepAt /\ RowsOK /\ TypeOK
  BY BaseParts DEF HandsOK
<1>2. t \in Payments /\ t \in Procs /\ t # Renewal /\ Own(t) = t /\ t # None
  BY ProcTyped DEF Own
<1> QED BY <1>1, <1>2, TypeParts DEF TabAt, SweepAt, RowsOK, Exists

LEMMA CreateVisits ==
    ASSUME IInv, NEW t \in Tabs, Create(t)
    PROVE  Visits(t, t)
<1>1. /\ TabAt(t) /\ t \in scene.tabs /\ page[t] = "none" /\ db.granted[t] = 0
      /\ t \in Payments /\ t # Renewal /\ Own(t) = t /\ page \in [Payments -> {"none", "open", "approved"}]
      /\ db \in Db /\ TypeOK /\ ~Exists(t) /\ my["sweep"].pay # t
  BY CheckoutHas DEF Create
<1>2. UNCHANGED <<page, money, events, handled, charges, scene>> /\ faults' \in 0..MaxFaults
  BY <1>1, QuietParts, FaultsTyped DEF Create
<1>3. /\ at' \in [Procs -> Places] /\ my' \in [Procs -> Hand] /\ my'[t].todo = {}
      /\ \A y \in Procs \ {t} : Stays(y)
  BY CreateMoves
<1>4. my'["sweep"] = my["sweep"]
  BY <1>3, ProcTyped DEF Stays
<1>5. CASE db' = db /\ at'[t] = "idle" /\ my'[t].pay = None
  <2>1. Effect(db, db', t, "failed") /\ OnlyAt(db, db', t)
    BY <1>1, <1>5, SelfRules DEF Ruled
  <2>2. TabAt(t)'
    BY <1>3, <1>5 DEF TabAt, TabPlaces
  <2>3. TabRow(t)'
    BY <1>1, <1>2, <1>3, <1>5, VisitRow
  <2> QED BY <1>1, <1>2, <1>3, <1>5, <2>1, <2>2, <2>3 DEF Visits
<1>6. CASE db' = Saved(db, t, NewPayment) /\ at'[t] = "apply" /\ my'[t].pay = t /\ my'[t].copy = NewPayment
  <2>1. NewRow
    BY <1>1, NewTyped
  <2>2. OnlyAt(db, db', t) /\ SameBooks(db, db', t) /\ db'.rows[t] = NewPayment
    BY <1>1, <1>6, <2>1, SavedDb DEF NewRow
  <2>3. db'.rows[t] # None /\ Good(db'.rows[t]) /\ db'.rows[t].status \notin GivenUp /\ db'.granted[t] = 0
    BY <1>1, <2>1, <2>2, NoneAssumption DEF NewRow, GivenUp, SameBooks
  <2>4. TabAt(t)'
    BY <1>1, <1>2, <1>3, <1>6, <2>1, <2>2, <2>3 DEF TabAt, TabPlaces, NewRow, Exists, Good
  <2>5. TabRow(t)'
    BY <1>2, <1>3, <2>3, VisitRow
  <2>6. Fresh(t)'
    BY <1>1, <1>4, <2>1, <2>2 DEF Fresh, NewRow
  <2> QED BY <1>1, <1>2, <1>3, <1>6, <2>2, <2>3, <2>4, <2>5, <2>6 DEF Visits
<1> QED BY <1>1, <1>5, <1>6, CreateMoves

LEMMA ApplyVisits ==
    ASSUME IInv, NEW t \in Tabs, ApplyCredit(t)
    PROVE  Visits(t, t)
<1>1. /\ TabAt(t) /\ t \in scene.tabs /\ page[t] = "none" /\ db.granted[t] = 0
      /\ t # Renewal /\ Own(t) = t /\ page \in [Payments -> {"none", "open", "approved"}]
      /\ TypeOK /\ Exists(t) /\ Good(db.rows[t]) /\ at[t] = "apply"
  BY CheckoutHas DEF ApplyCredit
<1>2. UNCHANGED <<page, money, events, handled, charges, scene>> /\ faults' \in 0..MaxFaults
  BY <1>1, QuietParts, FaultsTyped DEF ApplyCredit
<1>3. /\ at' \in [Procs -> Places] /\ my' \in [Procs -> Hand] /\ my'[t].todo = my[t].todo
      /\ \A y \in Procs \ {t} : Stays(y)
      /\ OnlyAt(db, db', t) /\ db'.rows = db.rows /\ db'.granted = db.granted
      /\ my'[t].pay = t /\ Good(my'[t].copy) /\ at'[t] \in {"save", "open"}
      /\ scene.credit = 0 => db'.ledger[t] = 0
  BY <1>1, ApplyMoves
<1>4. TabAt(t)'
  BY <1>1, <1>2, <1>3 DEF TabAt, TabPlaces, Exists, Good
<1>5. TabRow(t)'
  BY <1>1, <1>2, <1>3, VisitRow DEF Exists
<1>6. NoneShare => db'.ledger[t] = 0 \/ db'.rows[t].status \notin GivenUp
  <2>1. NoneShare /\ scene.credit # 0 => db.rows[t].status = "pending"
    BY <1>1, ApplyingFresh, ProcTyped DEF Fresh
  <2> QED BY <1>3, <2>1 DEF GivenUp
<1> QED BY <1>1, <1>2, <1>3, <1>4, <1>5, <1>6 DEF Visits

LEMMA SaveVisits ==
    ASSUME IInv, NEW t \in Tabs, SaveCredit(t)
    PROVE  Visits(t, t)
<1>1. /\ TabAt(t) /\ t \in scene.tabs /\ page[t] = "none" /\ db.granted[t] = 0
      /\ t # Renewal /\ Own(t) = t /\ page \in [Payments -> {"none", "open", "approved"}]
      /\ TypeOK /\ Exists(t) /\ Good(db.rows[t]) /\ at[t] = "save"
  BY CheckoutHas DEF SaveCredit
<1>2. UNCHANGED <<page, money, events, handled, charges, scene>> /\ faults' \in 0..MaxFaults
  BY <1>1, QuietParts, FaultsTyped DEF SaveCredit
<1>3. /\ at' \in [Procs -> Places] /\ my' = my /\ at'[t] \in {"settle", "open"}
      /\ \A y \in Procs \ {t} : Stays(y)
      /\ OnlyAt(db, db', t) /\ Marked(db, db', t)
  BY <1>1, SaveMoves
<1>4. my' \in [Procs -> Hand] /\ Effect(db, db', t, "failed") /\ db'.rows[t] # None /\ db'.granted[t] = 0
  BY <1>1, <1>3, TypeParts, NoneAssumption DEF Effect, Marked, SameBooks
<1>5. TabAt(t)'
  <2>1. \A q \in my[t].todo : db'.rows[q] # None
    BY <1>1, <1>3, <1>4, TypeParts, ProcTyped DEF TabAt, Exists, OnlyAt, Hand
  <2> QED BY <1>1, <1>2, <1>3, <1>4, <2>1 DEF TabAt, TabPlaces, Exists, Good
<1>6. TabRow(t)'
  BY <1>1, <1>2, <1>3, <1>4, VisitRow
<1> QED BY <1>1, <1>2, <1>3, <1>4, <1>5, <1>6 DEF Visits

LEMMA SettleVisits ==
    ASSUME IInv, NEW t \in Tabs, SettleByCredit(t)
    PROVE  Visits(t, t)
<1>1. /\ TabAt(t) /\ t \in scene.tabs /\ page[t] = "none" /\ db.granted[t] = 0
      /\ t # Renewal /\ Own(t) = t /\ page \in [Payments -> {"none", "open", "approved"}]
      /\ TypeOK /\ Exists(t) /\ at[t] = "settle"
  BY CheckoutHas DEF SettleByCredit
<1>2. UNCHANGED <<page, money, events, handled, charges, scene>> /\ faults' \in 0..MaxFaults
  BY <1>1, QuietParts, FaultsTyped DEF SettleByCredit
<1>3. /\ at' \in [Procs -> Places] /\ my' = my /\ at'[t] = "grant"
      /\ \A y \in Procs \ {t} : Stays(y)
      /\ OnlyAt(db, db', t) /\ SameBooks(db, db', t)
      /\ Good(db'.rows[t]) /\ db'.rows[t].status = "succeeded"
  BY <1>1, SettleMoves
<1>4. my' \in [Procs -> Hand] /\ db'.rows[t] # None /\ db'.granted[t] = 0 /\ db'.rows[t].status \notin GivenUp
  BY <1>1, <1>3, TypeParts, NoneAssumption DEF Good, SameBooks, GivenUp
<1>5. TabAt(t)'
  <2>1. \A q \in my[t].todo : db'.rows[q] # None
    BY <1>1, <1>3, <1>4, TypeParts, ProcTyped DEF TabAt, Exists, OnlyAt, Hand
  <2> QED BY <1>1, <1>2, <1>3, <1>4, <2>1 DEF TabAt, TabPlaces, Exists, Good
<1>6. TabRow(t)'
  BY <1>1, <1>2, <1>3, <1>4, VisitRow
<1> QED BY <1>1, <1>2, <1>3, <1>4, <1>5, <1>6 DEF Visits

LEMMA GrantVisits ==
    ASSUME IInv, NEW t \in Tabs, GrantByCredit(t)
    PROVE  Visits(t, t)
<1>1. /\ TabAt(t) /\ t \in scene.tabs /\ page[t] = "none" /\ db.granted[t] = 0
      /\ t # Renewal /\ Own(t) = t /\ page \in [Payments -> {"none", "open", "approved"}]
      /\ TypeOK /\ Exists(t) /\ Good(db.rows[t]) /\ at[t] = "grant"
  BY CheckoutHas DEF GrantByCredit
<1>2. UNCHANGED <<page, money, events, handled, charges, scene>> /\ faults' \in 0..MaxFaults
  BY <1>1, QuietParts, FaultsTyped DEF GrantByCredit
<1>3. /\ at' \in [Procs -> Places] /\ my' \in [Procs -> Hand] /\ at'[t] = "idle" /\ my'[t] = Idle
      /\ \A y \in Procs \ {t} : Stays(y)
      /\ OnlyAt(db, db', t) /\ db'.rows = db.rows /\ db'.granted[t] = db.granted[t] + 1
  BY <1>1, GrantMoves
<1>4. db.rows[t].status = "succeeded" /\ db'.granted[t] = 1 /\ db'.rows[t].status \notin GivenUp /\ db'.rows[t] # None
  BY <1>1, <1>3 DEF TabAt, GivenUp, Exists
<1>5. TabAt(t)'
  BY <1>3, IdleTyped DEF TabAt, TabPlaces
<1>6. TabRow(t)'
  BY <1>1, <1>2, <1>3, <1>4, VisitRow
<1> QED BY <1>1, <1>2, <1>3, <1>4, <1>5, <1>6 DEF Visits

LEMMA OpenPageVisits ==
    ASSUME IInv, NEW t \in Tabs, OpenPage(t)
    PROVE  Visits(t, t)
<1>1. /\ TabAt(t) /\ t \in scene.tabs /\ db.granted[t] = 0
      /\ t \in Payments /\ t \in Procs /\ page \in [Payments -> {"none", "open", "approved"}]
      /\ db \in Db /\ TypeOK /\ Exists(t)
  BY CheckoutHas DEF OpenPage
<1>2. UNCHANGED <<db, money, events, handled, charges, scene>> /\ faults' \in 0..MaxFaults
  BY <1>1, FaultsTyped DEF OpenPage
<1>3. /\ page' \in [Payments -> {"none", "open", "approved"}] /\ page'[t] = "open"
      /\ \A u \in Payments \ {t} : page'[u] = page[u]
  BY <1>1 DEF OpenPage
<1>4. /\ at' \in [Procs -> Places] /\ my' \in [Procs -> Hand] /\ at'[t] = "idle" /\ my'[t] = Idle
      /\ \A y \in Procs \ {t} : Stays(y)
  BY <1>1, LeaveMoves DEF OpenPage, Stays
<1>5. Effect(db, db', t, "failed") /\ OnlyAt(db, db', t)
  BY <1>1, <1>2, SelfRules DEF Ruled
<1>6. TabAt(t)'
  BY <1>4, IdleTyped DEF TabAt, TabPlaces
<1>7. TabRow(t)'
  BY <1>1, <1>2, <1>3, <1>4, VisitRow DEF Exists
<1> QED BY <1>1, <1>2, <1>3, <1>4, <1>5, <1>6, <1>7 DEF Visits

LEMMA TabCrashVisits ==
    ASSUME IInv, NEW t \in Tabs, Crash(t)
    PROVE  Visits(t, t)
<1>1. /\ TabAt(t) /\ t \in scene.tabs /\ db.granted[t] = 0 /\ page[t] = "none"
      /\ t \in Payments /\ t \in Procs /\ page \in [Payments -> {"none", "open", "approved"}]
      /\ db \in Db /\ TypeOK
  BY CheckoutHas DEF Crash
<1>2. UNCHANGED <<db, page, money, events, handled, charges, scene>> /\ faults' \in 0..MaxFaults
  BY <1>1, FaultsTyped DEF Crash, outside
<1>3. /\ at' \in [Procs -> Places] /\ my' \in [Procs -> Hand] /\ at'[t] = "idle" /\ my'[t] = Idle
      /\ \A y \in Procs \ {t} : Stays(y)
  BY <1>1, LeaveMoves DEF Crash, Stays
<1>4. Effect(db, db', t, "failed") /\ OnlyAt(db, db', t)
  BY <1>1, <1>2, SelfRules DEF Ruled
<1>5. TabAt(t)'
  BY <1>3, IdleTyped DEF TabAt, TabPlaces
<1>6. TabRow(t)'
  BY <1>1, <1>2, <1>3, VisitRow
<1> QED BY <1>1, <1>2, <1>3, <1>4, <1>5, <1>6 DEF Visits

LEMMA StartCheckoutVisits ==
    ASSUME IInv, NEW t \in Tabs, StartCheckout(t)
    PROVE  Visits(t, t)
<1>1. /\ TypeOK /\ TabRow(t) /\ db \in Db /\ t \in Payments /\ t \in Procs /\ t # Renewal
      /\ page \in [Payments -> {"none", "open", "approved"}] /\ t \in scene.tabs /\ ~Exists(t)
  BY BaseParts, TypeParts, ProcTyped DEF HandsOK, StartCheckout
<1>2. db.granted[t] = 0 /\ page[t] = "none"
  BY <1>1, DbTyped DEF TabRow
<1>3. UNCHANGED <<db, page, money, events, handled, charges, scene>> /\ faults' \in 0..MaxFaults
  BY <1>1, QuietParts, FaultsTyped DEF StartCheckout
<1>4. PICK todo \in SUBSET Tabs : /\ my' = [my EXCEPT ![t] = [Idle EXCEPT !.pay = t, !.todo = todo]]
                                  /\ \A q \in todo : Exists(q)
  <2> DEFINE open == {p \in Tabs : /\ Exists(p) /\ db.rows[p].status \in OpenStatus
                                  /\ ~InFlight(db.rows[p])}
  <2>1. open \in SUBSET Tabs /\ \A q \in open : Exists(q)
    OBVIOUS
  <2>2. my' = [my EXCEPT ![t] = [Idle EXCEPT !.pay = t, !.todo = open]]
    BY DEF StartCheckout
  <2> HIDE DEF open
  <2> QED BY <2>1, <2>2
<1>5. PICK hand \in Hand : hand = [Idle EXCEPT !.pay = t, !.todo = todo]
  BY <1>1 DEF Idle, Hand, Results
<1>6. hand.pay = t /\ hand.todo = todo
  BY <1>5 DEF Idle
<1>7. /\ my' \in [Procs -> Hand] /\ my'[t] = hand /\ \A y \in Procs \ {t} : my'[y] = my[y]
  BY <1>1, <1>4, <1>5, HandMoves
<1>8. /\ at' \in [Procs -> Places] /\ at'[t] = "clear" /\ \A y \in Procs \ {t} : at'[y] = at[y]
  BY <1>1, GotoMoves DEF StartCheckout, Places
<1>9. \A y \in Procs \ {t} : Stays(y)
  BY <1>7, <1>8 DEF Stays
<1>10. Effect(db, db', t, "failed") /\ OnlyAt(db, db', t)
  BY <1>1, <1>3, SelfRules DEF Ruled
<1>11. TabAt(t)'
  BY <1>1, <1>2, <1>3, <1>4, <1>6, <1>7, <1>8 DEF TabAt, TabPlaces, Exists
<1>12. TabRow(t)'
  BY <1>1, <1>2, <1>3, <1>9, VisitRow
<1> QED BY <1>1, <1>3, <1>7, <1>8, <1>9, <1>10, <1>11, <1>12 DEF Visits

LEMMA AbandonOpenVisits ==
    ASSUME IInv, NEW t \in Tabs, AbandonOpen(t)
    PROVE  \E p \in Tabs : Visits(t, p)
<1>1. /\ TabAt(t) /\ t \in scene.tabs /\ page[t] = "none" /\ db.granted[t] = 0
      /\ t \in Payments /\ t \in Procs /\ page \in [Payments -> {"none", "open", "approved"}]
      /\ db \in Db /\ TypeOK /\ ~Exists(t) /\ at[t] = "clear"
  BY CheckoutHas DEF AbandonOpen
<1>2. UNCHANGED <<page, money, events, handled, charges, scene>> /\ faults' \in 0..MaxFaults
  BY <1>1, QuietParts, FaultsTyped DEF AbandonOpen
<1>3. CASE Goto(t, "create") /\ UNCHANGED <<db, my>>
  <2>1. /\ at' \in [Procs -> Places] /\ at'[t] = "create" /\ my' \in [Procs -> Hand]
        /\ \A y \in Procs \ {t} : Stays(y)
    BY <1>1, <1>3, GotoMoves, TypeParts DEF Places, Stays
  <2>2. Effect(db, db', t, "failed") /\ OnlyAt(db, db', t)
    BY <1>1, <1>3, SelfRules DEF Ruled
  <2>3. TabAt(t)'
    BY <1>1, <1>2, <1>3, <2>1 DEF TabAt, TabPlaces, Exists
  <2>4. TabRow(t)'
    BY <1>1, <1>2, <1>3, <2>1, VisitRow
  <2>5. Visits(t, t)
    BY <1>1, <1>2, <2>1, <2>2, <2>3, <2>4 DEF Visits
  <2> QED BY <2>5
<1>4. ASSUME NEW p \in my[t].todo, db' = Abandoned(db, p), my' = [my EXCEPT ![t].todo = my[t].todo \ {p}], at' = at
      PROVE  \E q \in Tabs : Visits(t, q)
  <2>1. my[t] \in Hand /\ p \in Tabs /\ p \in Payments /\ p # t /\ db.rows[p] \in Row
    <3>1. my[t] \in Hand /\ Exists(p)
      BY <1>1, TypeParts DEF TabAt
    <3>2. p \in Tabs /\ p \in Payments
      BY <3>1, ProcTyped DEF Hand
    <3> QED BY <1>1, <3>1, <3>2, DbTyped DEF Exists
  <2>2. PICK hand \in Hand : hand = [my[t] EXCEPT !.todo = my[t].todo \ {p}]
    BY <2>1 DEF Hand
  <2>3. hand.pay = my[t].pay /\ hand.copy = my[t].copy /\ hand.todo = my[t].todo \ {p}
    BY <2>1, <2>2 DEF Hand
  <2>4. my' = [my EXCEPT ![t] = hand]
    BY <1>4, <2>2
  <2>5. my' \in [Procs -> Hand] /\ my'[t] = hand /\ \A y \in Procs \ {t} : my'[y] = my[y]
    BY <1>1, <2>4, HandMoves
  <2>6. at' \in [Procs -> Places] /\ \A y \in Procs \ {t} : Stays(y)
    BY <1>1, <1>4, <2>5, TypeParts DEF Stays
  <2>7. Effect(db, db', p, "failed") /\ OnlyAt(db, db', p)
    BY <1>1, <1>4, <2>1, AbandonedRules DEF Ruled
  <2>8. db'.rows[t] = db.rows[t] /\ db'.granted[t] = 0
    BY <1>1, <2>1, <2>7 DEF OnlyAt
  <2>9. TabAt(t)'
    <3>1. \A q \in my'[t].todo : db'.rows[q] # None
      <4>1. \A q \in my[t].todo : q \in Payments /\ db.rows[q] # None
        BY <1>1, <2>1, ProcTyped DEF TabAt, Exists, Hand
      <4> QED BY <2>3, <2>5, <2>7, <4>1 DEF OnlyAt
    <3> QED BY <1>1, <1>2, <1>4, <2>3, <2>5, <2>8, <3>1 DEF TabAt, TabPlaces, Exists
  <2>10. TabRow(t)'
    BY <1>1, <1>2, <2>6, <2>8, VisitRow
  <2>11. Visits(t, p)
    BY <1>1, <1>2, <1>4, <2>5, <2>6, <2>7, <2>9, <2>10 DEF Visits
  <2> QED BY <2>1, <2>11
<1> QED BY <1>3, <1>4 DEF AbandonOpen

LEMMA CheckoutKeeps ==
    ASSUME IInv, NEW t \in Tabs, StartCheckout(t) \/ CheckingOut(t) \/ Crash(t)
    PROVE  IInv'
<1>1. \E p \in Tabs : Visits(t, p)
  BY StartCheckoutVisits, AbandonOpenVisits, OpenPageVisits, TabCrashVisits, CreateVisits, ApplyVisits,
     SaveVisits, SettleVisits, GrantVisits DEF CheckingOut, Creating
<1> QED BY <1>1, VisitKeeps

-----------------------------------------------------------------------------
(* Steps of a renewal run.                                                 *)

\* The run r moves, and changes the renewal payment alone.
Renews(r) ==
    /\ r \in scene.runs /\ RunAt(r)' /\ \A y \in Procs \ {r} : Stays(y)
    /\ at' \in [Procs -> Places] /\ my' \in [Procs -> Hand]
    /\ UNCHANGED <<page, handled, scene>> /\ faults' \in 0..MaxFaults
    /\ charges' \in [Payments -> Nat]
    /\ money' \in [Payments -> {"none", "pending", "taken", "refused"}]
    /\ MoneyStays /\ \A t \in Tabs : money'[t] = money[t]
    /\ events \subseteq events' /\ events' \subseteq Payments \X {"succeeded", "failed", "approved"} \X {1, 2}
    /\ \A e \in events' : e[1] \in Tabs => e \in events
    /\ OnlyAt(db, db', Renewal) /\ ClosedStays /\ AgeTold
    /\ (\E said : Effect(db, db', Renewal, said)) \/ (db'.rows[Renewal] # None => Good(db'.rows[Renewal]))
    /\ Cold => at'[r] = at[r] \/ (at'[r] \notin Crediting \cup Charging /\ (at[r] = "idle" => Closed))
    /\ at'[r] = "apply" => at[r] = "create" /\ my'[r].pay = Renewal /\ Fresh(Renewal)'
    /\ \/ \E said : Effect(db, db', Renewal, said)
       \/ db'.rows[Renewal] = None \/ db'.rows[Renewal].status \notin GivenUp \/ Dropped(db, db', Renewal)
       \/ NoneShare => db'.ledger[Renewal] = 0

LEMMA RenewKeeps ==
    ASSUME IInv, NEW r \in Runs, Renews(r), ChargeInv', OneRun => GrantInv'
    PROVE  IInv'
<1>1. TypeOK /\ Balanced /\ HandsOK /\ AgeInv /\ Renewal \in Payments /\ scene' = scene
  BY BaseParts, ProcTyped DEF Renews
<1>2. OnlyAt(db, db', Renewal) /\ ClosedStays /\ \A y \in Procs \ {r} : Stays(y)
  BY DEF Renews
<1>3. Balanced' /\ RowsOK' /\ HandsOK' /\ There
  <2>1. r # "sweep"
    BY ProcTyped
  <2> QED BY <2>1, RenewalBase DEF Renews
<1>4. TypeOK'
  <2>1. page \in [Payments -> {"none", "open", "approved"}] /\ handled \subseteq events
    BY <1>1 DEF TypeOK
  <2> QED BY <1>1, <2>1, TypesKept DEF Renews
<1>5. my'["sweep"] = my["sweep"] /\ \A s \in Runs : s # r => at'[s] = at[s]
  BY <1>2, ProcTyped DEF Stays
<1>6. AgeInv'
  <2>1. Cold => Cold'
    <3>1. Cold => \A s \in Runs : at'[s] = at[s]
                           \/ (at'[s] \notin Crediting \cup Charging /\ (at[s] = "idle" => Closed))
      BY <1>5 DEF Renews
    <3>2. Renewable(db'.sub) => Renewable(db.sub)
      BY <1>2 DEF OnlyAt
    <3> QED BY <1>2, <1>3, <3>1, <3>2, ColdKept
  <2> QED BY <1>1, <1>5, <2>1, AgeKept DEF Renews
<1>7. ASSUME NoneShare' PROVE CreditInv'
  <2>1. NoneShare /\ CreditInv
    BY <1>1, <1>7, BaseParts DEF NoneShare
  <2>2. ASSUME scene'.credit # 0, NEW x \in Runs \cup Tabs, at'[x] = "apply" PROVE Fresh(my[x].pay)'
    <3>1. CASE x = r
      BY <2>2, <3>1 DEF Renews
    <3>2. CASE x # r
      <4>1. Stays(x) /\ scene.credit # 0
        BY <1>1, <1>2, <2>2, <3>2, ProcTyped
      <4>2. at[x] = "apply" /\ my'[x].pay = my[x].pay
        BY <2>2, <4>1 DEF Stays
      <4>3. x \in Tabs
        <5>1. x \in Runs => x \in scene.runs
          BY <1>1, <4>2 DEF HandsOK, RunAt
        <5> QED BY <2>1, <3>2, <4>1, <5>1 DEF NoneShare, Renews
      <4>4. Fresh(my[x].pay) /\ my[x].pay = x /\ x \in Payments /\ x # Renewal
        BY <2>1, <4>1, <4>2, <4>3, ApplyingFresh, ProcTyped
      <4>5. db'.rows[x] = db.rows[x]
        BY <1>2, <4>4 DEF OnlyAt
      <4>6. Fresh(x)'
        BY <1>5, <4>4, <4>5, FreshKept
      <4> QED BY <4>2, <4>4, <4>6
    <3> QED BY <3>1, <3>2
  <2>3. \/ \E said : Effect(db, db', Renewal, said)
        \/ db'.ledger[Renewal] = 0
        \/ db'.rows[Renewal] = None
        \/ db'.rows[Renewal] # None /\ db'.rows[Renewal].status \notin GivenUp
    BY <2>1 DEF Renews, Dropped
  <2> QED BY <1>1, <1>2, <2>1, <2>2, <2>3, GivenUpKept
<1>8. OneRun' => GrantInv'
  BY <1>1 DEF OneRun
<1> QED BY <1>3, <1>4, <1>6, <1>7, <1>8 DEF IInv, Base

\* The provider hears nothing of the step.
LEMMA RunSilent ==
    ASSUME IInv, NEW r \in Runs, UNCHANGED <<page, money, events, handled, charges, scene>>,
           \A y \in Procs \ {r} : Stays(y), ClosedStays, at'[r] \in Charging => at'[r] = at[r]
    PROVE  /\ ChargeInv' /\ charges' \in [Payments -> Nat]
           /\ money' \in [Payments -> {"none", "pending", "taken", "refused"}]
           /\ MoneyStays /\ \A t \in Tabs : money'[t] = money[t]
           /\ events \subseteq events' /\ events' \subseteq Payments \X {"succeeded", "failed", "approved"} \X {1, 2}
           /\ \A e \in events' : e[1] \in Tabs => e \in events
<1>1. TypeOK /\ ChargeInv
  BY BaseParts
<1>2. MoneyStays /\ RenewalTold
  BY DEF MoneyStays, RenewalTold
<1>3. \A s \in Runs : at'[s] \in Charging => at'[s] = at[s]
  BY ProcTyped DEF Stays
<1>4. ChargeInv'
  BY <1>1, <1>2, <1>3, ChargeKept
<1> QED BY <1>1, <1>2, <1>4 DEF TypeOK

\* The step grants nothing.
LEMMA RunGrant ==
    ASSUME IInv, OneRun, NEW r \in Runs, UNCHANGED <<handled, charges, scene>>,
           \A y \in Procs \ {r} : Stays(y), ClosedStays, at'[r] \notin Charging,
           db'.granted[Renewal] = db.granted[Renewal], CreditingAt(r)',
           Exists(Renewal) /\ db.rows[Renewal].status = "succeeded" =>
               db'.rows[Renewal].status = "succeeded"
               \/ db.granted[Renewal] = 0
               \/ at[r] = "answer",
           \A s \in Runs \ {r} : at[s] = "grant" => scene.credit = 0
    PROVE  GrantInv'
<1>1. GrantInv /\ ChargeInv /\ HandsOK
  BY BaseParts
<1>2. my'["sweep"] = my["sweep"] /\ \A s \in Runs \ {r} : Stays(s)
  BY ProcTyped DEF Stays
<1>3. \A s \in Runs : at'[s] \in Charging => at'[s] = at[s] /\ my'[s].got = my[s].got
  BY <1>2 DEF Stays
<1>4. \A s \in Runs : CreditingAt(s)'
  <2> SUFFICES ASSUME NEW s \in Runs, s # r PROVE CreditingAt(s)'
    OBVIOUS
  <2>1. CreditingAt(s) /\ Stays(s)
    BY <1>1, <1>2 DEF GrantInv, CreditingAt
  <2>2. at[s] # "grant"
    BY <2>1 DEF CreditingAt, Crediting
  <2> QED BY <2>1, <2>2, CreditingKept
<1>5. db.granted[Renewal] = 1 => Exists(Renewal)
  BY <1>1 DEF GrantInv, Closed
<1>6. at[r] = "answer" /\ db.granted[Renewal] = 1 => PaidEvent \in handled /\ \A s \in Runs : at'[s] # "answer"
  <2> SUFFICES ASSUME at[r] = "answer", db.granted[Renewal] = 1
               PROVE  PaidEvent \in handled /\ \A s \in Runs : at'[s] # "answer"
    OBVIOUS
  <2>1. PaidEvent \in handled
    BY <1>1 DEF GrantInv, Holding
  <2>2. ASSUME NEW s \in Runs PROVE at'[s] # "answer"
    BY <1>1, <1>3 DEF ChargeInv, Charging
  <2> QED BY <2>1, <2>2
<1> QED BY <1>1, <1>2, <1>3, <1>4, <1>5, <1>6, GrantKept

\* One run at a time has credit in hand.
LEMMA OneCreditor ==
    ASSUME IInv, OneRun, NEW r \in Runs, r \in scene.runs
    PROVE  \A s \in Runs \ {r} : /\ at[s] = "grant" => scene.credit = 0
                                 /\ at[s] # "idle" => scene.credit = 0
BY BaseParts DEF HandsOK, RunAt, OneRun

\* What a run under way knows.
LEMMA RunHas ==
    ASSUME IInv, NEW r \in Runs, at[r] # "idle"
    PROVE  /\ RunAt(r) /\ r \in scene.runs /\ my[r].pay = Renewal /\ Own(r) = Renewal
           /\ Renewal \in Payments /\ r \in Procs /\ TypeOK /\ db \in Db
           /\ at[r] \notin {"idle", "create"} =>
                 Exists(Renewal) /\ Good(db.rows[Renewal]) /\ db.rows[Renewal] \in Row /\ Good(my[r].copy)
           /\ at[r] \in Crediting \cup Charging => ~Cold
<1>1. RunAt(r) /\ RowsOK /\ TypeOK
  BY BaseParts DEF HandsOK
<1>2. Renewal \in Payments /\ r \in Procs /\ Own(r) = Renewal
  BY ProcTyped DEF Own
<1> QED BY <1>1, <1>2, TypeParts DEF RunAt, RowsOK, Good, Cold

\* A step of the run r of which the provider hears nothing.
SilentRun(r) ==
    /\ r \in scene.runs /\ RunAt(r)' /\ \A y \in Procs \ {r} : Stays(y)
    /\ at' \in [Procs -> Places] /\ my' \in [Procs -> Hand]
    /\ UNCHANGED <<page, money, events, handled, charges, scene>> /\ faults' \in 0..MaxFaults
    /\ OnlyAt(db, db', Renewal) /\ ClosedStays /\ AgeTold
    /\ (\E said : Effect(db, db', Renewal, said)) \/ (db'.rows[Renewal] # None => Good(db'.rows[Renewal]))
    /\ Cold => at'[r] = at[r] \/ (at'[r] \notin Crediting \cup Charging /\ (at[r] = "idle" => Closed))
    /\ at'[r] = "apply" => at[r] = "create" /\ my'[r].pay = Renewal /\ Fresh(Renewal)'
    /\ \/ \E said : Effect(db, db', Renewal, said)
       \/ db'.rows[Renewal] = None \/ db'.rows[Renewal].status \notin GivenUp \/ Dropped(db, db', Renewal)
       \/ NoneShare => db'.ledger[Renewal] = 0

LEMMA SilentKeeps ==
    ASSUME IInv, NEW r \in Runs, SilentRun(r), at'[r] \notin Charging, OneRun => GrantInv'
    PROVE  IInv'
<1>1. /\ ChargeInv' /\ charges' \in [Payments -> Nat]
      /\ money' \in [Payments -> {"none", "pending", "taken", "refused"}]
      /\ MoneyStays /\ \A t \in Tabs : money'[t] = money[t]
      /\ events \subseteq events' /\ events' \subseteq Payments \X {"succeeded", "failed", "approved"} \X {1, 2}
      /\ \A e \in events' : e[1] \in Tabs => e \in events
  BY RunSilent DEF SilentRun
<1>2. Renews(r)
  BY <1>1 DEF SilentRun, Renews
<1> QED BY <1>1, <1>2, RenewKeeps

\* The age of a payment whose status, claim and charge are as they were.
LEMMA SameAge ==
    ASSUME NEW row, db.rows[Renewal] # None, row = db.rows[Renewal], db'.rows[Renewal] # None,
           LET new == db'.rows[Renewal] IN
              new.status = "pending" => /\ row.status = "pending" /\ (new.started => row.started)
                                        /\ (row.claimed => new.claimed) /\ (Aged(new) => Aged(row))
    PROVE  AgeTold
BY DEF AgeTold, Exists

LEMMA RunCrashKeeps ==
    ASSUME IInv, NEW r \in Runs, Crash(r)
    PROVE  IInv'
<1>1. /\ r \in scene.runs /\ Renewal \in Payments /\ r \in Procs /\ TypeOK /\ db \in Db
  BY RunHas DEF Crash
<1>2. UNCHANGED <<db, page, money, events, handled, charges, scene>> /\ faults' \in 0..MaxFaults
  BY <1>1, FaultsTyped DEF Crash, outside
<1>3. /\ at' \in [Procs -> Places] /\ my' \in [Procs -> Hand] /\ at'[r] = "idle" /\ my'[r] = Idle
      /\ \A y \in Procs \ {r} : Stays(y)
  BY <1>1, LeaveMoves DEF Crash, Stays
<1>4. Effect(db, db', Renewal, "failed") /\ OnlyAt(db, db', Renewal)
  BY <1>1, <1>2, SelfRules DEF Ruled
<1>5. RunAt(r)'
  BY <1>3, IdleTyped DEF RunAt, RunPlaces
<1>6. ClosedStays /\ AgeTold
  BY <1>2 DEF ClosedStays, AgeTold, Closed, Claimable, Exists
<1>7. at'[r] \notin Charging /\ at'[r] \notin Crediting
  BY <1>3 DEF Charging, Crediting
<1>8. SilentRun(r)
  BY <1>1, <1>2, <1>3, <1>4, <1>5, <1>6, <1>7 DEF SilentRun, Crash
<1>9. ASSUME OneRun PROVE GrantInv'
  <2>1. CreditingAt(r)'
    BY <1>7 DEF CreditingAt
  <2>2. \A s \in Runs \ {r} : at[s] = "grant" => scene.credit = 0
    BY <1>1, <1>9, OneCreditor
  <2> QED BY <1>2, <1>3, <1>6, <1>7, <1>9, <2>1, <2>2, RunGrant
<1> QED BY <1>7, <1>8, <1>9, SilentKeeps

LEMMA StartRenewalKeeps ==
    ASSUME IInv, NEW r \in Runs, StartRenewal(r)
    PROVE  IInv'
<1>1. /\ r \in scene.runs /\ Renewal \in Payments /\ r \in Procs /\ TypeOK /\ db \in Db
      /\ RunAt(r) /\ db.sub \in Subscription /\ Renewable(db.sub) /\ at[r] = "idle"
  BY BaseParts, ProcTyped, TypeParts, DbTyped DEF HandsOK, StartRenewal, RunDue, Renewable
<1>2. UNCHANGED <<page, money, events, handled, charges, scene>> /\ faults' \in 0..MaxFaults
  BY <1>1, QuietParts, FaultsTyped DEF StartRenewal
<1> DEFINE Started == /\ at' \in [Procs -> Places] /\ my' \in [Procs -> Hand]
                      /\ \A y \in Procs \ {r} : Stays(y)
                      /\ at'[r] \in {"idle", "create"} /\ RunAt(r)'
                      /\ OnlyAt(db, db', Renewal) /\ SameAt(db, db', Renewal)
<1>3. Started
  <2>1. CASE Take(r, Renewal, None, "create") /\ UNCHANGED db
    <3>1. /\ at' \in [Procs -> Places] /\ my' \in [Procs -> Hand] /\ at'[r] = "create" /\ my'[r].pay = Renewal
          /\ \A y \in Procs \ {r} : Stays(y)
      BY <1>1, <2>1, TakeMoves DEF Places, Stays
    <3>2. RunAt(r)'
      BY <1>1, <1>2, <3>1 DEF RunAt, RunPlaces
    <3>3. OnlyAt(db, db', Renewal) /\ SameAt(db, db', Renewal)
      BY <1>1, <2>1, SelfRules DEF Ruled, SameAt, SameBooks
    <3> QED BY <3>1, <3>2, <3>3
  <2>2. ASSUME NEW status \in {"cancelled", "expired"}, db' = [db EXCEPT !.sub.status = status], UNCHANGED <<at, my>>
        PROVE  Started
    <3>1. PICK sub \in Subscription : sub = [db.sub EXCEPT !.status = status]
      BY <1>1 DEF Subscription
    <3>2. db' = [db EXCEPT !.sub = sub]
      BY <2>2, <3>1
    <3>3. OnlyAt(db, db', Renewal) /\ SameAt(db, db', Renewal)
      BY <1>1, <3>1, <3>2, SubDb DEF Ruled
    <3>4. at' \in [Procs -> Places] /\ my' \in [Procs -> Hand] /\ \A y : Stays(y)
      BY <1>1, <2>2, TypeParts DEF Stays
    <3>5. RunAt(r)'
      BY <1>1, <2>2 DEF RunAt
    <3> QED BY <1>1, <2>2, <3>3, <3>4, <3>5
  <2> QED BY <2>1, <2>2 DEF StartRenewal
<1>4. Effect(db, db', Renewal, "failed") /\ ClosedStays /\ AgeTold
  BY <1>3 DEF Effect, SameAt, ClosedStays, AgeTold, Closed, Claimable, Exists
<1>5. at'[r] \notin Charging /\ at'[r] \notin Crediting
  BY <1>3 DEF Charging, Crediting
<1>6. Cold => Closed
  BY <1>1 DEF Cold
<1>7. SilentRun(r)
  BY <1>1, <1>2, <1>3, <1>4, <1>5, <1>6 DEF SilentRun, Crediting
<1>8. ASSUME OneRun PROVE GrantInv'
  <2>1. CreditingAt(r)'
    BY <1>5 DEF CreditingAt
  <2>2. \A s \in Runs \ {r} : at[s] = "grant" => scene.credit = 0
    BY <1>1, <1>8, OneCreditor
  <2> QED BY <1>2, <1>3, <1>4, <1>5, <1>8, <2>1, <2>2, RunGrant DEF SameAt, SameBooks
<1> QED BY <1>5, <1>7, <1>8, SilentKeeps

LEMMA CreateRenews ==
    ASSUME IInv, NEW r \in Runs, Create(r)
    PROVE  IInv'
<1>1. /\ RunAt(r) /\ r \in scene.runs /\ Own(r) = Renewal /\ Renewal \in Payments /\ TypeOK /\ db \in Db
      /\ at[r] = "create"
  BY RunHas DEF Create
<1>2. UNCHANGED <<page, money, events, handled, charges, scene>> /\ faults' \in 0..MaxFaults
  BY <1>1, QuietParts, FaultsTyped DEF Create
<1>3. /\ at' \in [Procs -> Places] /\ my' \in [Procs -> Hand] /\ my'[r].pay = Renewal
      /\ \A y \in Procs \ {r} : Stays(y)
  BY <1>1, CreateMoves
<1>4. ASSUME OneRun, ClosedStays, CreditingAt(r)', db'.granted[Renewal] = db.granted[Renewal], at'[r] \notin Charging,
             Exists(Renewal) => db'.rows[Renewal] = db.rows[Renewal]
      PROVE  GrantInv'
  <2>1. \A s \in Runs \ {r} : at[s] = "grant" => scene.credit = 0
    BY <1>1, <1>4, OneCreditor
  <2> QED BY <1>2, <1>3, <1>4, <2>1, RunGrant
<1>5. CASE /\ Exists(Renewal) /\ db' = db
           /\ at'[r] = "claim" /\ my'[r].copy = db.rows[Renewal]
  <2>1. Good(my'[r].copy)
    BY <1>1, <1>5, BaseParts DEF RowsOK
  <2>2. RunAt(r)'
    BY <1>1, <1>2, <1>3, <1>5, <2>1 DEF RunAt, RunPlaces, Exists, Good
  <2>3. Effect(db, db', Renewal, "failed") /\ OnlyAt(db, db', Renewal)
    BY <1>1, <1>5, SelfRules DEF Ruled
  <2>4. ClosedStays /\ AgeTold
    BY <1>5 DEF ClosedStays, AgeTold, Closed, Claimable, Exists
  <2>5. at'[r] \notin Charging /\ at'[r] \notin Crediting /\ at[r] # "idle" /\ at'[r] # "apply"
    BY <1>1, <1>5 DEF Charging, Crediting
  <2>6. SilentRun(r)
    BY <1>1, <1>2, <1>3, <2>2, <2>3, <2>4, <2>5 DEF SilentRun
  <2>7. OneRun => GrantInv'
    BY <1>4, <1>5, <2>4, <2>5 DEF CreditingAt
  <2> QED BY <2>5, <2>6, <2>7, SilentKeeps
<1>6. CASE /\ ~Exists(Renewal) /\ db' = Saved(db, Renewal, NewPayment)
           /\ at'[r] = "apply" /\ my'[r].copy = NewPayment
  <2>1. NewRow
    BY <1>1, NewTyped
  <2>2. OnlyAt(db, db', Renewal) /\ SameBooks(db, db', Renewal) /\ db'.rows[Renewal] = NewPayment
    BY <1>1, <1>6, <2>1, SavedDb DEF NewRow
  <2>3. db'.rows[Renewal] # None /\ Good(db'.rows[Renewal]) /\ db'.rows[Renewal].status \notin GivenUp
    BY <2>1, <2>2, NoneAssumption DEF NewRow, GivenUp
  <2>4. RunAt(r)'
    BY <1>1, <1>2, <1>3, <1>6, <2>1, <2>3 DEF RunAt, RunPlaces, NewRow, Exists, Good
  <2>5. ~Closed /\ ~Cold /\ ClosedStays
    BY <1>6 DEF Closed, Cold, ClosedStays
  <2>6. AgeTold
    BY <2>1, <2>2 DEF AgeTold, NewRow
  <2>7. Fresh(Renewal)'
    <3>1. my["sweep"].pay # Renewal
      BY <1>6, BaseParts, ProcTyped DEF HandsOK, SweepAt
    <3>2. my'["sweep"] = my["sweep"]
      BY <1>3, ProcTyped DEF Stays
    <3> QED BY <2>1, <2>2, <3>1, <3>2 DEF Fresh, NewRow
  <2>8. SilentRun(r)
    BY <1>1, <1>2, <1>3, <1>6, <2>2, <2>3, <2>4, <2>5, <2>6, <2>7 DEF SilentRun
  <2>9. at'[r] \notin Charging
    BY <1>6 DEF Charging
  <2>10. ASSUME OneRun PROVE GrantInv'
    <3>1. charges[Renewal] = 0 /\ db.granted[Renewal] = 0
      <4>1. charges[Renewal] \in Nat /\ db.granted[Renewal] \in Nat
        BY <1>1, TypeParts, DbTyped
      <4>2. charges[Renewal] <= 1 /\ charges[Renewal] # 1
        BY <2>5, BaseParts DEF ChargeInv
      <4>3. db.granted[Renewal] <= 1 /\ db.granted[Renewal] # 1
        BY <2>5, <2>10, BaseParts DEF GrantInv
      <4> QED BY <4>1, <4>2, <4>3
    <3>2. db'.granted[Renewal] = db.granted[Renewal]
      BY <2>2 DEF SameBooks
    <3>3. CreditingAt(r)'
      BY <1>2, <1>6, <3>1, <3>2 DEF CreditingAt
    <3> QED BY <1>4, <1>6, <2>5, <2>9, <2>10, <3>2, <3>3
  <2> QED BY <2>8, <2>9, <2>10, SilentKeeps
<1> QED BY <1>1, <1>5, <1>6, CreateMoves

LEMMA ApplyRenews ==
    ASSUME IInv, NEW r \in Runs, ApplyCredit(r)
    PROVE  IInv'
<1>1. /\ RunAt(r) /\ r \in scene.runs /\ Own(r) = Renewal /\ Renewal \in Payments /\ TypeOK /\ db \in Db
      /\ at[r] = "apply" /\ my[r].pay = Renewal
      /\ Exists(Renewal) /\ Good(db.rows[Renewal]) /\ ~Cold
  BY RunHas DEF ApplyCredit, Crediting
<1>2. UNCHANGED <<page, money, events, handled, charges, scene>> /\ faults' \in 0..MaxFaults
  BY <1>1, QuietParts, FaultsTyped DEF ApplyCredit
<1>3. /\ at' \in [Procs -> Places] /\ my' \in [Procs -> Hand] /\ my'[r].pay = Renewal
      /\ \A y \in Procs \ {r} : Stays(y)
      /\ OnlyAt(db, db', Renewal) /\ db'.rows = db.rows /\ db'.granted = db.granted
      /\ Good(my'[r].copy) /\ at'[r] \in {"save", "claim"}
      /\ scene.credit = 0 => at'[r] # "save" /\ db'.ledger[Renewal] = 0
  BY <1>1, ApplyMoves
<1>4. RunAt(r)'
  BY <1>1, <1>2, <1>3 DEF RunAt, RunPlaces, Exists, Good
<1>5. ClosedStays /\ AgeTold
  BY <1>3 DEF ClosedStays, AgeTold, Closed, Claimable, Exists
<1>6. db'.rows[Renewal].status \notin GivenUp \/ (NoneShare => db'.ledger[Renewal] = 0)
  <2>1. NoneShare /\ scene.credit # 0 => db.rows[Renewal].status = "pending"
    BY <1>1, ApplyingFresh DEF Fresh
  <2> QED BY <1>3, <2>1 DEF GivenUp
<1>7. db'.rows[Renewal] # None /\ Good(db'.rows[Renewal]) /\ at'[r] # "apply"
  BY <1>1, <1>3 DEF Exists
<1>8. SilentRun(r)
  BY <1>1, <1>2, <1>3, <1>4, <1>5, <1>6, <1>7 DEF SilentRun
<1>9. at'[r] \notin Charging
  BY <1>3 DEF Charging
<1>10. ASSUME OneRun PROVE GrantInv'
  <2>1. CreditingAt(r)'
    <3>1. CreditingAt(r)
      BY <1>10, BaseParts DEF GrantInv, CreditingAt
    <3> QED BY <1>1, <1>2, <1>3, <3>1 DEF CreditingAt, Crediting
  <2>2. \A s \in Runs \ {r} : at[s] = "grant" => scene.credit = 0
    BY <1>1, <1>10, OneCreditor
  <2> QED BY <1>2, <1>3, <1>5, <1>9, <1>10, <2>1, <2>2, RunGrant
<1> QED BY <1>8, <1>9, <1>10, SilentKeeps

LEMMA SaveRenews ==
    ASSUME IInv, NEW r \in Runs, SaveCredit(r)
    PROVE  IInv'
<1>1. /\ RunAt(r) /\ r \in scene.runs /\ Own(r) = Renewal /\ Renewal \in Payments /\ TypeOK /\ db \in Db
      /\ at[r] = "save" /\ my[r].pay = Renewal
      /\ Exists(Renewal) /\ Good(my[r].copy) /\ ~Cold
  BY RunHas DEF SaveCredit, Crediting
<1>2. UNCHANGED <<page, money, events, handled, charges, scene>> /\ faults' \in 0..MaxFaults
  BY <1>1, QuietParts, FaultsTyped DEF SaveCredit
<1>3. /\ at' \in [Procs -> Places] /\ my' = my
      /\ \A y \in Procs \ {r} : Stays(y)
      /\ OnlyAt(db, db', Renewal) /\ Marked(db, db', Renewal) /\ NoOlder(db, db')
      /\ at'[r] \in {"settle", "claim"}
  BY <1>1, SaveMoves
<1>4. my' \in [Procs -> Hand] /\ Effect(db, db', Renewal, "failed") /\ db'.rows[Renewal] # None
  BY <1>1, <1>3, TypeParts, NoneAssumption DEF Effect, Marked
<1>5. RunAt(r)'
  BY <1>1, <1>2, <1>3, <1>4 DEF RunAt, RunPlaces, Exists, Good
<1>6. ClosedStays /\ AgeTold
  <2>1. ClosedStays
    BY <1>4, EffectCloses
  <2>2. AgeTold
    BY <1>1, <1>3, <1>4 DEF AgeTold, NoOlder, Marked, Exists
  <2> QED BY <2>1, <2>2
<1>7. at'[r] \notin Charging /\ at'[r] # "apply"
  BY <1>3 DEF Charging
<1>8. SilentRun(r)
  BY <1>1, <1>2, <1>3, <1>4, <1>5, <1>6, <1>7 DEF SilentRun
<1>9. ASSUME OneRun PROVE GrantInv'
  <2>1. db'.granted[Renewal] = db.granted[Renewal] /\ db'.rows[Renewal].status = db.rows[Renewal].status
    BY <1>3 DEF Marked, SameBooks
  <2>2. CreditingAt(r)'
    <3>1. CreditingAt(r)
      BY <1>9, BaseParts DEF GrantInv, CreditingAt
    <3> QED BY <1>1, <1>2, <1>3, <2>1, <3>1 DEF CreditingAt, Crediting
  <2>3. \A s \in Runs \ {r} : at[s] = "grant" => scene.credit = 0
    BY <1>1, <1>9, OneCreditor
  <2> QED BY <1>2, <1>3, <1>6, <1>7, <1>9, <2>1, <2>2, <2>3, RunGrant
<1> QED BY <1>7, <1>8, <1>9, SilentKeeps

LEMMA SettleRenews ==
    ASSUME IInv, NEW r \in Runs, SettleByCredit(r)
    PROVE  IInv'
<1>1. /\ RunAt(r) /\ r \in scene.runs /\ Own(r) = Renewal /\ Renewal \in Payments /\ TypeOK /\ db \in Db
      /\ at[r] = "settle" /\ my[r].pay = Renewal
      /\ Exists(Renewal) /\ Good(my[r].copy) /\ ~Cold
  BY RunHas DEF SettleByCredit, Crediting
<1>2. UNCHANGED <<page, money, events, handled, charges, scene>> /\ faults' \in 0..MaxFaults
  BY <1>1, QuietParts, FaultsTyped DEF SettleByCredit
<1>3. /\ at' \in [Procs -> Places] /\ my' = my /\ at'[r] = "grant"
      /\ \A y \in Procs \ {r} : Stays(y)
      /\ OnlyAt(db, db', Renewal) /\ SameBooks(db, db', Renewal)
      /\ Good(db'.rows[Renewal]) /\ db'.rows[Renewal].status = "succeeded"
  BY <1>1, SettleMoves
<1>4. my' \in [Procs -> Hand] /\ db'.rows[Renewal] # None /\ db'.rows[Renewal].status \notin GivenUp
  BY <1>1, <1>3, TypeParts, NoneAssumption DEF Good, GivenUp
<1>5. RunAt(r)'
  BY <1>1, <1>2, <1>3, <1>4 DEF RunAt, RunPlaces, Exists, Good
<1>6. ClosedStays /\ AgeTold
  BY <1>3, <1>4 DEF ClosedStays, AgeTold, Closed, Claimable, Exists
<1>7. at'[r] \notin Charging /\ at'[r] # "apply"
  BY <1>3 DEF Charging
<1>8. SilentRun(r)
  BY <1>1, <1>2, <1>3, <1>4, <1>5, <1>6, <1>7 DEF SilentRun
<1>9. ASSUME OneRun PROVE GrantInv'
  <2>1. db'.granted[Renewal] = db.granted[Renewal]
    BY <1>3 DEF SameBooks
  <2>2. CreditingAt(r)'
    <3>1. CreditingAt(r)
      BY <1>9, BaseParts DEF GrantInv, CreditingAt
    <3> QED BY <1>1, <1>2, <1>3, <2>1, <3>1 DEF CreditingAt, Crediting
  <2>3. \A s \in Runs \ {r} : at[s] = "grant" => scene.credit = 0
    BY <1>1, <1>9, OneCreditor
  <2> QED BY <1>2, <1>3, <1>6, <1>7, <1>9, <2>1, <2>2, <2>3, RunGrant
<1> QED BY <1>7, <1>8, <1>9, SilentKeeps

LEMMA GrantRenews ==
    ASSUME IInv, NEW r \in Runs, GrantByCredit(r)
    PROVE  IInv'
<1>1. /\ RunAt(r) /\ r \in scene.runs /\ Own(r) = Renewal /\ Renewal \in Payments /\ TypeOK /\ db \in Db
      /\ at[r] = "grant" /\ Exists(Renewal) /\ Good(db.rows[Renewal]) /\ ~Cold
  BY RunHas DEF GrantByCredit, Crediting
<1>2. UNCHANGED <<page, money, events, handled, charges, scene>> /\ faults' \in 0..MaxFaults
  BY <1>1, QuietParts, FaultsTyped DEF GrantByCredit
<1>3. /\ at' \in [Procs -> Places] /\ my' \in [Procs -> Hand] /\ at'[r] = "idle" /\ my'[r] = Idle
      /\ \A y \in Procs \ {r} : Stays(y)
      /\ OnlyAt(db, db', Renewal) /\ db'.rows = db.rows /\ db'.ledger = db.ledger
      /\ db'.granted[Renewal] = db.granted[Renewal] + 1
  BY <1>1, GrantMoves
<1>4. RunAt(r)'
  BY <1>3, IdleTyped DEF RunAt, RunPlaces
<1>5. ClosedStays /\ AgeTold
  BY <1>3 DEF ClosedStays, AgeTold, Closed, Claimable, Exists
<1>6. at'[r] \notin Charging /\ at'[r] # "apply" /\ Good(db'.rows[Renewal])
  BY <1>1, <1>3 DEF Charging
<1>7. db'.rows[Renewal].status \notin GivenUp \/ (NoneShare => db'.ledger[Renewal] = 0)
  <2>1. NoneShare => (db.rows[Renewal].status \in GivenUp => db.ledger[Renewal] = 0)
    BY <1>1, BaseParts DEF CreditInv
  <2> QED BY <1>3, <2>1
<1>8. SilentRun(r)
  BY <1>1, <1>2, <1>3, <1>4, <1>5, <1>6, <1>7 DEF SilentRun
<1>9. ASSUME OneRun PROVE GrantInv'
  <2>1. CreditingAt(r) /\ "grant" \in Crediting
    BY <1>9, BaseParts DEF GrantInv, CreditingAt, Crediting
  <2>2. scene.credit # 0 /\ db.granted[Renewal] = 0 /\ db.rows[Renewal].status = "succeeded"
    BY <1>1, <2>1 DEF CreditingAt
  <2>3. \A s \in Runs : at'[s] = "idle"
    <3>1. \A s \in Runs \ {r} : at[s] = "idle"
      BY <1>1, <1>9, <2>2, OneCreditor
    <3> QED BY <1>3, <3>1, ProcTyped DEF Stays
  <2>4. db'.granted[Renewal] <= 1
    BY <1>3, <2>2
  <2>5. my'["sweep"].pay # Renewal
    <3>1. my'["sweep"] = my["sweep"]
      BY <1>3, ProcTyped DEF Stays
    <3> QED BY <1>1, <3>1, BaseParts DEF AgeInv
  <2>6. db'.rows[Renewal].status = "succeeded" /\ Closed'
    BY <1>1, <1>3, <2>2 DEF Closed, Claimable, Exists
  <2> QED BY <2>3, <2>4, <2>5, <2>6 DEF GrantInv, Holding, Crediting
<1> QED BY <1>6, <1>8, <1>9, SilentKeeps

\* The claim closes the row, and one run has it.
LEMMA ClaimRenews ==
    ASSUME IInv, NEW r \in Runs, ClaimForCharge(r)
    PROVE  IInv'
<1> DEFINE row == db.rows[Renewal]
<1>1. /\ RunAt(r) /\ r \in scene.runs /\ Renewal \in Payments /\ r \in Procs /\ TypeOK /\ db \in Db
      /\ at[r] = "claim" /\ my[r].pay = Renewal
      /\ Exists(Renewal) /\ Good(row) /\ row \in Row /\ Good(my[r].copy)
  BY RunHas DEF ClaimForCharge
<1>2. UNCHANGED <<page, money, events, handled, charges, scene>> /\ faults' \in 0..MaxFaults
  BY <1>1, QuietParts, FaultsTyped DEF ClaimForCharge
<1>3. CASE Leave(r) /\ UNCHANGED db
  <2>1. /\ at' \in [Procs -> Places] /\ my' \in [Procs -> Hand] /\ at'[r] = "idle" /\ my'[r] = Idle
        /\ \A y \in Procs \ {r} : Stays(y)
    BY <1>1, <1>3, LeaveMoves DEF Stays
  <2>2. Effect(db, db', Renewal, "failed") /\ OnlyAt(db, db', Renewal)
    BY <1>1, <1>3, SelfRules DEF Ruled
  <2>3. RunAt(r)'
    BY <2>1, IdleTyped DEF RunAt, RunPlaces
  <2>4. ClosedStays /\ AgeTold
    BY <1>3 DEF ClosedStays, AgeTold, Closed, Claimable, Exists
  <2>5. at'[r] \notin Charging /\ at'[r] \notin Crediting /\ at[r] # "idle" /\ at'[r] # "apply"
    BY <1>1, <2>1 DEF Charging, Crediting
  <2>6. SilentRun(r)
    BY <1>1, <1>2, <2>1, <2>2, <2>3, <2>4, <2>5 DEF SilentRun
  <2>7. ASSUME OneRun PROVE GrantInv'
    <3>1. CreditingAt(r)'
      BY <2>5 DEF CreditingAt
    <3>2. \A s \in Runs \ {r} : at[s] = "grant" => scene.credit = 0
      BY <1>1, <2>7, OneCreditor
    <3> QED BY <1>2, <1>3, <2>1, <2>4, <2>5, <2>7, <3>1, <3>2, RunGrant
  <2> QED BY <2>5, <2>6, <2>7, SilentKeeps
<1>4. ASSUME Claimable(row),
             db' = Saved(db, Renewal, [row EXCEPT !.claimed = TRUE, !.started = TRUE, !.lag = FALSE, !.day = FALSE]),
             Goto(r, "charge"), my' = my
      PROVE  IInv'
  <2>1. ~Closed /\ row.status = "pending"
    BY <1>4 DEF Closed, Claimable
  <2>2. ~Cold /\ ~Aged(row)
    <3>1. ~Cold
      BY <1>1, <2>1 DEF Cold
    <3> QED BY <1>1, <2>1, <3>1, BaseParts DEF AgeInv
  <2>3. PICK new : new = [row EXCEPT !.claimed = TRUE, !.started = TRUE, !.lag = FALSE, !.day = FALSE]
    OBVIOUS
  <2>4. /\ new \in Row /\ Good(new) /\ new.claimed /\ new.status = "pending" /\ new.provider = row.provider
        /\ ~Aged(new)
    BY <1>1, <2>1, <2>2, <2>3 DEF Row, Good, Aged
  <2>5. OnlyAt(db, db', Renewal) /\ SameBooks(db, db', Renewal) /\ db'.rows[Renewal] = new
    BY <1>1, <1>4, <2>3, <2>4, SavedDb
  <2>6. new # None /\ new.status \notin GivenUp
    BY <2>4, NoneAssumption DEF GivenUp
  <2>7. ClosedStays /\ Closed'
    BY <2>4, <2>5, <2>6 DEF ClosedStays, Closed, Claimable, Exists
  <2>8. AgeTold
    BY <2>4, <2>5 DEF AgeTold
  <2>9. /\ at' \in [Procs -> Places] /\ at'[r] = "charge" /\ my' \in [Procs -> Hand]
        /\ \A y \in Procs \ {r} : Stays(y)
    BY <1>1, <1>4, GotoMoves, TypeParts DEF Places, Stays
  <2>10. RunAt(r)'
    BY <1>1, <1>2, <1>4, <2>5, <2>6, <2>9 DEF RunAt, RunPlaces, Exists, Good
  <2>11. ChargeInv /\ HandsOK /\ charges[Renewal] \in Nat
    BY <1>1, BaseParts, TypeParts
  <2>12. charges[Renewal] = 0
    BY <2>1, <2>11 DEF ChargeInv
  <2>13. \A s \in Runs : at[s] \notin Charging
    BY <2>1, <2>11 DEF ChargeInv, Charging
  <2>14. \A s \in Runs : s # r => at'[s] = at[s] /\ at'[s] \notin Charging
    BY <2>9, <2>13, ProcTyped DEF Stays
  <2>15. ChargeInv'
    <3>1. \A s \in Runs : at'[s] \in Charging => s = r
      BY <2>14
    <3>2. \A s \in Runs : at'[s] # "answer" /\ (at'[s] = "charge" => charges'[Renewal] = 0 /\ Closed')
      BY <1>2, <2>7, <2>9, <2>12, <2>14 DEF Charging
    <3>3. \A e \in events' : e[1] = Renewal => /\ charges'[Renewal] = 1
                                               /\ e[2] = "succeeded" => e = PaidEvent' /\ money'[Renewal] = "taken"
      BY <1>2, <2>11 DEF ChargeInv, PaidEvent, Event
    <3> QED BY <1>2, <2>7, <2>11, <2>12, <3>1, <3>2, <3>3 DEF ChargeInv
  <2>16. ASSUME OneRun PROVE GrantInv'
    <3>1. GrantInv /\ db.granted[Renewal] \in Nat
      BY <1>1, <2>16, BaseParts, DbTyped
    <3>2. db'.granted[Renewal] = 0 /\ db.granted[Renewal] = 0
      BY <2>1, <2>5, <3>1 DEF GrantInv, SameBooks
    <3>3. ASSUME NEW s \in Runs PROVE CreditingAt(s)'
      <4>1. CASE s = r
        BY <2>9, <4>1 DEF CreditingAt, Crediting
      <4>2. CASE s # r
        <5>1. CreditingAt(s) /\ Stays(s)
          BY <2>9, <3>1, <4>2, ProcTyped DEF GrantInv, CreditingAt
        <5> QED BY <1>2, <2>1, <3>2, <5>1, CreditingKept
      <4> QED BY <4>1, <4>2
    <3> QED BY <3>2, <3>3 DEF GrantInv, CreditingAt
  <2>17. /\ charges' \in [Payments -> Nat] /\ money' \in [Payments -> {"none", "pending", "taken", "refused"}]
         /\ events' \subseteq Payments \X {"succeeded", "failed", "approved"} \X {1, 2}
         /\ MoneyStays
    BY <1>1, <1>2 DEF TypeOK, MoneyStays
  <2>18. Good(db'.rows[Renewal]) /\ db'.rows[Renewal].status \notin GivenUp
    BY <2>4, <2>5, <2>6
  <2> HIDE DEF row
  <2>19. Renews(r)
    BY <1>1, <1>2, <2>2, <2>5, <2>7, <2>8, <2>9, <2>10, <2>17, <2>18 DEF Renews
  <2> QED BY <2>15, <2>16, <2>19, RenewKeeps
<1> QED BY <1>3, <1>4 DEF ClaimForCharge

\* The renewal payment is given up by the copy of the run that has its claim.
LEMMA RunFails ==
    ASSUME IInv, NEW r \in Runs, at[r] \in Charging, db' = Failed(db, Renewal, my[r].copy, "failed"), Leave(r),
           quiet' = quiet
    PROVE  IInv'
<1>1. /\ RunAt(r) /\ r \in scene.runs /\ Renewal \in Payments /\ r \in Procs /\ TypeOK /\ db \in Db
      /\ Exists(Renewal) /\ Good(my[r].copy) /\ ~Cold
  BY RunHas DEF Charging
<1>2. UNCHANGED <<page, money, events, handled, charges, scene>> /\ faults' \in 0..MaxFaults
  BY <1>1, QuietParts, FaultsTyped
<1>3. /\ at' \in [Procs -> Places] /\ my' \in [Procs -> Hand] /\ at'[r] = "idle" /\ my'[r] = Idle
      /\ \A y \in Procs \ {r} : Stays(y)
  BY <1>1, LeaveMoves DEF Stays
<1>4. /\ OnlyAt(db, db', Renewal) /\ Dropped(db, db', Renewal)
      /\ db'.rows[Renewal].provider = my[r].copy.provider
  BY <1>1, FailedDb DEF Good
<1>5. Good(db'.rows[Renewal])
  BY <1>1, <1>4 DEF Good, Dropped
<1>6. RunAt(r)'
  BY <1>3, IdleTyped DEF RunAt, RunPlaces
<1>7. ClosedStays /\ AgeTold
  BY <1>4, NoneAssumption DEF ClosedStays, AgeTold, Closed, Claimable, Exists, Dropped, GivenUp
<1>8. at'[r] \notin Charging /\ at'[r] \notin Crediting /\ at'[r] # "apply"
  BY <1>3 DEF Charging, Crediting
<1>9. SilentRun(r)
  BY <1>1, <1>2, <1>3, <1>4, <1>5, <1>6, <1>7, <1>8 DEF SilentRun
<1>10. ASSUME OneRun PROVE GrantInv'
  <2>1. CreditingAt(r)'
    BY <1>8 DEF CreditingAt
  <2>2. \A s \in Runs \ {r} : at[s] = "grant" => scene.credit = 0
    BY <1>1, <1>10, OneCreditor
  <2>3. at[r] = "charge" => db.granted[Renewal] = 0
    <3>1. GrantInv /\ db.granted[Renewal] \in Nat
      BY <1>1, <1>10, BaseParts, DbTyped
    <3> QED BY <3>1 DEF GrantInv
  <2>4. db.granted[Renewal] = 0 \/ at[r] = "answer"
    BY <2>3 DEF Charging
  <2>5. db'.granted[Renewal] = db.granted[Renewal]
    BY <1>4 DEF Dropped
  <2> QED BY <1>2, <1>3, <1>7, <1>8, <1>10, <2>1, <2>2, <2>4, <2>5, RunGrant
<1> QED BY <1>8, <1>9, <1>10, SilentKeeps

LEMMA NoMethodRenews ==
    ASSUME IInv, NEW r \in Runs, NoMethod(r)
    PROVE  IInv'
<1>1. at[r] \in Charging
  BY DEF NoMethod, Charging
<1> QED BY <1>1, RunFails DEF NoMethod

\* The one charge of the saved method.
LEMMA ChargeRenews ==
    ASSUME IInv, NEW r \in Runs, Charge(r)
    PROVE  IInv'
<1>1. /\ RunAt(r) /\ r \in scene.runs /\ Renewal \in Payments /\ r \in Procs /\ TypeOK /\ db \in Db
      /\ at[r] = "charge" /\ my[r].pay = Renewal /\ Exists(Renewal) /\ Good(my[r].copy) /\ ~Cold
  BY RunHas DEF Charge, Charging
<1>2. db' = db /\ page' = page /\ handled' = handled /\ scene' = scene /\ scene.provider \in Cards
      /\ charges' = [charges EXCEPT ![Renewal] = charges[Renewal] + 1] /\ Goto(r, "answer")
  BY DEF Charge, Chargeable
<1>3. PICK to \in {"taken", "refused", "pending", "none"}, got \in {"succeeded", "failed", "pending", "action", "lost"} :
         /\ IF got = "lost" THEN Fault("lost") ELSE UNCHANGED faults
         /\ money' = [money EXCEPT ![Renewal] = to]
         /\ events' = Told(Renewal, to)
         /\ my' = [my EXCEPT ![r].got = got]
  BY DEF Charge
<1>4. ChargeInv /\ charges \in [Payments -> Nat] /\ money \in [Payments -> {"none", "pending", "taken", "refused"}]
  BY <1>1, BaseParts, TypeParts
<1>5. /\ charges[Renewal] = 0 /\ Closed /\ money[Renewal] = "none" /\ \A e \in events : e[1] # Renewal
      /\ \A s \in Runs : s # r => at[s] \notin Charging
  <2>1. at[r] \in Charging
    BY <1>1 DEF Charging
  <2> QED BY <1>1, <1>4, <2>1 DEF ChargeInv
<1>6. charges' \in [Payments -> Nat] /\ charges'[Renewal] = 1 /\ \A t \in Tabs : charges'[t] = 0
  <2>1. charges' = [charges EXCEPT ![Renewal] = 1]
    BY <1>2, <1>5
  <2> QED BY <1>1, <1>4, <2>1, ProcTyped DEF ChargeInv
<1>7. /\ money' \in [Payments -> {"none", "pending", "taken", "refused"}] /\ money'[Renewal] = to
      /\ \A t \in Tabs : money'[t] = money[t]
      /\ MoneyStays
  BY <1>1, <1>3, <1>4, <1>5, ProcTyped DEF MoneyStays
<1>8. /\ events \subseteq events' /\ events' \subseteq Payments \X {"succeeded", "failed", "approved"} \X {1, 2}
      /\ \A e \in events' : e \notin events =>
            e[1] = Renewal /\ (e[2] = "succeeded" => e = PaidEvent /\ to = "taken")
  BY <1>1, <1>3, ToldEvents
<1>9. /\ at' \in [Procs -> Places] /\ my' \in [Procs -> Hand]
      /\ at'[r] = "answer" /\ my'[r].pay = Renewal /\ my'[r].copy = my[r].copy /\ my'[r].got = got
      /\ \A y \in Procs \ {r} : Stays(y)
  BY <1>1, <1>2, <1>3, GotMoves DEF Places, Results, Stays
<1>10. RunAt(r)'
  BY <1>1, <1>2, <1>9 DEF RunAt, RunPlaces, Exists, Good
<1>11. faults' \in 0..MaxFaults
  BY <1>1, <1>3, FaultsTyped
<1>12. Effect(db, db', Renewal, "failed") /\ OnlyAt(db, db', Renewal) /\ ClosedStays /\ AgeTold /\ Closed'
  BY <1>1, <1>2, <1>5, SelfRules DEF Ruled, ClosedStays, AgeTold, Closed, Claimable, Exists
<1>13. Renews(r)
  BY <1>1, <1>2, <1>6, <1>7, <1>8, <1>9, <1>10, <1>11, <1>12, ProcTyped DEF Renews
<1>14. \A s \in Runs : s # r => at'[s] = at[s] /\ at'[s] \notin Charging
  BY <1>5, <1>9, ProcTyped DEF Stays
<1>15. ChargeInv'
  <2>1. \A s \in Runs : at'[s] \in Charging => s = r
    BY <1>14
  <2>2. \A s \in Runs : at'[s] # "charge"
    BY <1>9, <1>14 DEF Charging
  <2>3. \A e \in events' : e[1] = Renewal => /\ charges'[Renewal] = 1
                                             /\ e[2] = "succeeded" => e = PaidEvent' /\ money'[Renewal] = "taken"
    BY <1>5, <1>6, <1>7, <1>8 DEF PaidEvent, Event
  <2> QED BY <1>2, <1>6, <1>12, <2>1, <2>2, <2>3 DEF ChargeInv
<1>16. ASSUME OneRun PROVE GrantInv'
  <2>1. GrantInv /\ db.granted[Renewal] \in Nat
    BY <1>1, <1>16, BaseParts, DbTyped
  <2>2. db'.granted[Renewal] = 0
    BY <1>1, <1>2, <2>1 DEF GrantInv
  <2>3. ASSUME NEW s \in Runs, at'[s] \in Crediting
        PROVE  scene'.credit = 0 /\ at'[s] = "apply"
    <3>1. s # r /\ Stays(s)
      BY <1>9, <2>3, ProcTyped DEF Crediting
    <3>2. CreditingAt(s) /\ at[s] \in Crediting /\ at[s] # "idle"
      BY <2>1, <2>3, <3>1 DEF GrantInv, CreditingAt, Stays, Crediting
    <3>3. scene.credit = 0
      BY <1>1, <1>16, <3>1, <3>2, OneCreditor
    <3> QED BY <1>2, <3>1, <3>2, <3>3 DEF CreditingAt, Stays
  <2> QED BY <2>2, <2>3 DEF GrantInv
<1> QED BY <1>13, <1>15, <1>16, RenewKeeps

\* The run records what it was told.
LEMMA AnswerRenews ==
    ASSUME IInv, NEW r \in Runs, ChargeAnswered(r)
    PROVE  IInv'
<1> DEFINE said == IF my[r].got = "lost" THEN "failed" ELSE my[r].got
<1>1. /\ RunAt(r) /\ r \in scene.runs /\ Renewal \in Payments /\ r \in Procs /\ TypeOK /\ db \in Db
      /\ at[r] = "answer" /\ Exists(Renewal) /\ ~Cold
      /\ my[r].got \in {"succeeded", "failed", "pending", "action", "lost"}
  BY RunHas DEF ChargeAnswered, Charging, RunAt
<1>2. Leave(r) /\ quiet' = quiet
  BY DEF ChargeAnswered
<1>3. CASE db' = Failed(db, Renewal, my[r].copy, "failed")
  <2>1. at[r] \in Charging
    BY <1>1 DEF Charging
  <2> QED BY <1>2, <1>3, <2>1, RunFails
<1>4. CASE db' = Recorded(db, Renewal, scene.provider, said)
  <2>1. UNCHANGED <<page, money, events, handled, charges, scene>> /\ faults' \in 0..MaxFaults
    BY <1>1, <1>2, QuietParts, FaultsTyped
  <2>2. /\ at' \in [Procs -> Places] /\ my' \in [Procs -> Hand] /\ at'[r] = "idle" /\ my'[r] = Idle
        /\ \A y \in Procs \ {r} : Stays(y)
    BY <1>1, <1>2, LeaveMoves DEF Stays
  <2>3. said \in {"succeeded", "failed", "action", "pending"} /\ (said = "succeeded" => my[r].got = "succeeded")
    BY <1>1
  <2> HIDE DEF said
  <2>4. Ruled(db, db', Renewal, said) /\ NoOlder(db, db')
    BY <1>1, <1>4, <2>3, RecordedRules
  <2>5. OnlyAt(db, db', Renewal) /\ Effect(db, db', Renewal, said)
    BY <2>4 DEF Ruled
  <2>6. RunAt(r)'
    BY <2>2, IdleTyped DEF RunAt, RunPlaces
  <2>7. ClosedStays /\ (db.rows[Renewal].status = "succeeded" => db'.rows[Renewal].status = "succeeded")
    BY <1>1, <2>5, EffectCloses
  <2>8. AgeTold
    BY <1>1, <2>4, <2>5 DEF AgeTold, NoOlder, Effect, SameAt, Marked, Dropped, Paid, Exists, GivenUp
  <2>9. at'[r] \notin Charging /\ at'[r] \notin Crediting /\ at'[r] # "apply"
    BY <2>2 DEF Charging, Crediting
  <2>10. SilentRun(r)
    BY <1>1, <2>1, <2>2, <2>5, <2>6, <2>7, <2>8, <2>9 DEF SilentRun
  <2>11. ASSUME OneRun PROVE GrantInv'
    <3>1. GrantInv /\ ChargeInv /\ AgeInv /\ db.granted[Renewal] \in Nat
      BY <1>1, <2>11, BaseParts, DbTyped
    <3>2. CASE db'.granted[Renewal] = db.granted[Renewal]
      <4>1. CreditingAt(r)'
        BY <2>9 DEF CreditingAt
      <4>2. \A s \in Runs \ {r} : at[s] = "grant" => scene.credit = 0
        BY <1>1, <2>11, OneCreditor
      <4> QED BY <1>1, <2>1, <2>2, <2>7, <2>9, <2>11, <3>2, <4>1, <4>2, RunGrant
    <3>3. CASE db'.granted[Renewal] # db.granted[Renewal]
      <4>1. said = "succeeded" /\ db.rows[Renewal].status # "succeeded" /\ Paid(db, db', Renewal)
        BY <2>5, <3>3 DEF Effect, SameAt, SameBooks, Marked, Dropped
      <4>2. db.granted[Renewal] = 0
        BY <1>1, <2>3, <3>1, <4>1 DEF GrantInv, Spent
      <4>3. db'.granted[Renewal] = 1 /\ db'.rows[Renewal].status = "succeeded" /\ Closed'
        BY <4>1, <4>2, NoneAssumption DEF Paid, Closed, Claimable, Exists
      <4>4. \A s \in Runs : at'[s] \notin Charging
        <5>1. \A s \in Runs \ {r} : at[s] \notin Charging
          BY <1>1, <3>1 DEF ChargeInv, Charging
        <5> QED BY <2>2, <2>9, <5>1, ProcTyped DEF Stays
      <4>5. my'["sweep"].pay # Renewal
        <5>1. my'["sweep"] = my["sweep"]
          BY <2>2, ProcTyped DEF Stays
        <5> QED BY <1>1, <3>1, <5>1 DEF AgeInv
      <4>6. ASSUME NEW s \in Runs, at'[s] \in Crediting
            PROVE  scene'.credit = 0 /\ at'[s] = "apply"
        <5>1. s # r /\ Stays(s)
          BY <2>2, <2>9, <4>6, ProcTyped
        <5>2. CreditingAt(s) /\ at[s] \in Crediting /\ at[s] # "idle"
          BY <3>1, <4>6, <5>1 DEF GrantInv, CreditingAt, Stays, Crediting
        <5>3. scene.credit = 0
          BY <1>1, <2>11, <5>1, <5>2, OneCreditor
        <5> QED BY <2>1, <5>1, <5>2, <5>3 DEF CreditingAt, Stays
      <4>7. ~Holding'
        BY <4>4, <4>5 DEF Holding, Charging
      <4> QED BY <4>3, <4>4, <4>6, <4>7 DEF GrantInv, Charging
    <3> QED BY <3>2, <3>3
  <2> QED BY <2>9, <2>10, <2>11, SilentKeeps
<1> QED BY <1>3, <1>4 DEF ChargeAnswered

LEMMA RenewingKeeps ==
    ASSUME IInv, NEW r \in Runs, Renewing(r) \/ Crash(r)
    PROVE  IInv'
BY StartRenewalKeeps, CreateRenews, ApplyRenews, SaveRenews, SettleRenews, GrantRenews, ClaimRenews, NoMethodRenews,
   ChargeRenews, AnswerRenews, RunCrashKeeps DEF Renewing, Creating

-----------------------------------------------------------------------------
(* The invariant holds, and what follows from it.                          *)

LEMMA StepKeeps ==
    ASSUME IInv, Next
    PROVE  IInv'
<1>1. ASSUME NEW r \in Runs, Renewing(r) PROVE IInv'
  BY <1>1, RenewingKeeps
<1>2. ASSUME NEW t \in Tabs, StartCheckout(t) \/ CheckingOut(t) PROVE IInv'
  BY <1>2, CheckoutKeeps
<1>3. ASSUME NEW t \in Tabs, CustomerPays(t) \/ CustomerApproves(t) \/ CustomerReturns(t) PROVE IInv'
  BY <1>3, CustomerPaysKeeps, CustomerApprovesKeeps, CustomerReturnsKeeps
<1>4. ASSUME NEW p \in Payments, ProviderDecides(p) \/ SweepReads(p) \/ AQuarterPasses(p) \/ ADayPasses(p) PROVE IInv'
  BY <1>4, ProviderDecidesKeeps, SweepReadsKeeps, AQuarterPassesKeeps, ADayPassesKeeps
<1>5. CASE Returning
  BY <1>5, VerifyKeeps, MarkChargeStartedKeeps, CaptureOnReturnKeeps, RecordReturnKeeps DEF Returning
<1>6. CASE Hooking
  BY <1>6, HookCapturesKeeps, HookReadsKeeps DEF Hooking
<1>7. CASE Sweeping
  BY <1>7, AskProviderKeeps, ReconcileKeeps, GiveUpKeeps DEF Sweeping
<1>8. CASE GraceEnds
  BY <1>8, GraceEndsKeeps
<1>9. ASSUME NEW e \in events, Webhook(e) PROVE IInv'
  BY <1>9, WebhookKeeps
<1>10. ASSUME NEW x \in Procs, Crash(x) PROVE IInv'
  BY <1>10, RenewingKeeps, CheckoutKeeps, WatcherCrashKeeps DEF Procs
<1> QED BY <1>1, <1>2, <1>3, <1>4, <1>5, <1>6, <1>7, <1>8, <1>9, <1>10 DEF Next

LEMMA InitHolds ==
    ASSUME Init
    PROVE  IInv
<1>1. scene \in Scene /\ scene \in Scenes /\ scene.credit \in Nat
  BY PaymentAssumption DEF Init, Scene
<1>2. PICK sub \in Subscription :
         /\ db = [rows |-> [p \in Payments |-> None], balance |-> scene.credit,
                  ledger |-> [p \in Payments |-> 0], granted |-> [p \in Payments |-> 0], sub |-> sub]
  <2>1. PICK atEnd \in {FALSE, scene.cancels} :
           db = [rows |-> [p \in Payments |-> None], balance |-> scene.credit,
                 ledger |-> [p \in Payments |-> 0], granted |-> [p \in Payments |-> 0],
                 sub |-> [status |-> "active", ended |-> scene.runs # {}, atEnd |-> atEnd, overdue |-> FALSE]]
    BY DEF Init
  <2>2. atEnd \in BOOLEAN
    BY <1>1 DEF Scene
  <2>3. [status |-> "active", ended |-> scene.runs # {}, atEnd |-> atEnd, overdue |-> FALSE] \in Subscription
    BY <2>2 DEF Subscription
  <2> QED BY <2>1, <2>3
<1>3. /\ \A p \in Payments : db.rows[p] = None /\ db.ledger[p] = 0 /\ db.granted[p] = 0
      /\ db.ledger = [p \in Payments |-> 0] /\ db.balance = scene.credit
  BY <1>2
<1>4. /\ \A x \in Procs : at[x] = "idle" /\ my[x] = Idle
      /\ \A p \in Payments : page[p] = "none" /\ money[p] = "none" /\ charges[p] = 0
      /\ events = {} /\ handled = {} /\ faults = 0
  BY DEF Init
<1>5. TypeOK
  <2>1. db \in [rows : [Payments -> Row \cup {None}], balance : 0..scene.credit,
               ledger : [Payments -> 0..scene.credit], granted : [Payments -> Nat], sub : Subscription]
    <3>1. 0 \in 0..scene.credit /\ scene.credit \in 0..scene.credit
      BY <1>1
    <3> QED BY <1>2, <3>1
  <2>2. at \in [Procs -> Places] /\ my \in [Procs -> Hand]
    BY IdleTyped DEF Init, Places
  <2>3. /\ page \in [Payments -> {"none", "open", "approved"}]
        /\ money \in [Payments -> {"none", "pending", "taken", "refused"}]
        /\ charges \in [Payments -> Nat] /\ faults \in 0..MaxFaults
    BY PaymentAssumption DEF Init
  <2> QED BY <1>1, <1>4, <2>1, <2>2, <2>3 DEF TypeOK, Places, Hand
<1>6. Balanced
  <2>1. SumOf(db.ledger, Payments) = 0
    BY <1>3, PriceTyped, SumOfZeros
  <2> QED BY <1>1, <1>3, <2>1 DEF Balanced
<1>7. RowsOK
  BY <1>3, PriceTyped DEF RowsOK, Exists
<1>8. \A p \in Payments : ~Exists(p)
  BY <1>3 DEF Exists
<1>9. HandsOK
  <2>1. \A r \in Runs : RunAt(r)
    BY <1>4, IdleTyped, ProcTyped DEF RunAt, RunPlaces
  <2>2. \A t \in Tabs : TabAt(t)
    BY <1>4, IdleTyped, ProcTyped DEF TabAt, TabPlaces
  <2>3. \A t \in Tabs : TabRow(t)
    BY <1>3, <1>4, <1>8, IdleTyped, ProcTyped DEF TabRow
  <2>4. ReturnAt /\ HookAt /\ SweepAt
    BY <1>4, IdleTyped, ProcTyped DEF ReturnAt, HookAt, SweepAt
  <2> QED BY <2>1, <2>2, <2>3, <2>4 DEF HandsOK
<1>10. \A r \in Runs : at[r] = "idle" /\ my[r] = Idle
  BY <1>4, ProcTyped
<1>11. ChargeInv
  BY <1>4, <1>10, ProcTyped DEF ChargeInv, Charging
<1>12. AgeInv
  BY <1>4, <1>8, IdleTyped, ProcTyped DEF AgeInv
<1>13. GrantInv
  BY <1>3, <1>10, ProcTyped DEF GrantInv, Crediting
<1>14. CreditInv
  BY <1>4, <1>8, ProcTyped DEF CreditInv
<1> QED BY <1>5, <1>6, <1>7, <1>9, <1>11, <1>12, <1>13, <1>14 DEF IInv, Base

LEMMA StandStill ==
    ASSUME IInv, UNCHANGED vars
    PROVE  IInv'
<1> USE DEF vars
<1>1. TypeOK' /\ Balanced' /\ RowsOK'
  BY BaseParts DEF TypeOK, Balanced, RowsOK, Exists, Good
<1>2. HandsOK'
  BY BaseParts DEF HandsOK, RunAt, TabAt, TabRow, ReturnAt, HookAt, SweepAt, Exists, Good
<1>3. ChargeInv' /\ AgeInv'
  BY BaseParts DEF ChargeInv, AgeInv, Cold, Closed, Claimable, Exists, PaidEvent, Event
<1>4. OneRun' => GrantInv'
  BY BaseParts DEF OneRun, GrantInv, Closed, Claimable, Exists, Holding, Spent, PaidEvent, Event
<1>5. NoneShare' => CreditInv'
  BY BaseParts DEF NoneShare, CreditInv, Fresh, Exists
<1> QED BY <1>1, <1>2, <1>3, <1>4, <1>5 DEF IInv, Base

LEMMA Invariant == Spec => []IInv
<1>1. Init => IInv
  BY InitHolds
<1>2. IInv /\ [Next]_vars => IInv'
  BY StepKeeps, StandStill
<1> QED BY <1>1, <1>2, PTL DEF Spec

\* Every variable has its type: no balance falls below nothing and no ledger
\* holds more than the account's credit, whoever restores and applies it
\* (credit.py:103-131).
THEOREM TypeCorrect == Spec => []TypeOK
<1>1. IInv => TypeOK
  BY BaseParts
<1> QED BY <1>1, Invariant, PTL

\* Credit is neither made nor lost: in every state what the payments hold and
\* what is left add up to what the account was granted, however many runs,
\* tabs, webhooks and sweeps restore, apply and restore again (credit.py:129-131).
THEOREM CreditConserved ==
    Spec => [](db.balance + MapThenSumSet(LAMBDA p : db.ledger[p], Payments) = scene.credit)
<1>1. IInv => db.balance + MapThenSumSet(LAMBDA p : db.ledger[p], Payments) = scene.credit
  BY BaseParts DEF Balanced, SumOf
<1> QED BY <1>1, Invariant, PTL

\* A saved method is charged at most once for a payment, whatever overlaps,
\* crashes or is lost: claim_for_charge hands the row to one run, and nothing
\* opens the claim again (payments.py:167-170).
THEOREM ChargedOnce == Spec => [](\A p \in Payments : charges[p] <= 1)
<1>1. IInv => \A p \in Payments : charges[p] <= 1
  <2> SUFFICES ASSUME IInv, NEW p \in Payments PROVE charges[p] <= 1
    OBVIOUS
  <2>1. \A t \in Tabs : charges[t] = 0
    BY BaseParts DEF ChargeInv
  <2>2. charges[Renewal] <= 1
    BY BaseParts DEF ChargeInv
  <2> QED BY <2>1, <2>2 DEF Payments
<1> QED BY <1>1, Invariant, PTL

\* A payment grants at most one period and its method is charged at most once,
\* whatever runs, returns, webhooks and the sweep do (payments.py:4-6, 167-170).
\* With credit on the account the renewal has one run at a time, which
\* GrantByCredit needs: it takes no lock, and two runs on full credit grant twice.
THEOREM PaidOnce == Spec => [](OneRun => OncePerPayment)
<1>1. IInv => (OneRun => OncePerPayment)
  <2> SUFFICES ASSUME IInv, OneRun, NEW p \in Payments PROVE charges[p] <= 1 /\ db.granted[p] <= 1
    BY DEF OncePerPayment
  <2>1. CASE p = Renewal
    BY <2>1, BaseParts DEF ChargeInv, GrantInv
  <2>2. CASE p \in Tabs
    <3>1. charges[p] = 0
      BY <2>2, BaseParts DEF ChargeInv
    <3>2. db.granted[p] <= 1
      BY <2>2, BaseParts DEF HandsOK, TabRow
    <3> QED BY <3>1, <3>2
  <2> QED BY <2>1, <2>2 DEF Payments
<1> QED BY <1>1, Invariant, PTL

\* A payment that was given up holds no credit, and credit is conserved
\* (credit.py:129-131).  While the credit of a payment is being taken nobody may
\* give that payment up, so with credit on the account one run and one tab create
\* payments; _create_payment writes the row, the ledger and the row again in
\* transactions of their own, and two tabs leave credit with an abandoned payment.
THEOREM CreditSafe == Spec => [](NoneShare => CreditKept)
<1>1. IInv => (NoneShare => CreditKept)
  BY BaseParts DEF CreditInv, CreditKept, Balanced, SumOf
<1> QED BY <1>1, Invariant, PTL
=============================================================================
