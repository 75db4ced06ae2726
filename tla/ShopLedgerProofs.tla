-------------------------- MODULE ShopLedgerProofs --------------------------
(***************************************************************************)
(* What the shop's books guarantee: theorems about ShopLedger, for any     *)
(* buyers, any finite set of orders and any plans.                         *)
(***************************************************************************)
EXTENDS ShopLedger, TLAPS, FiniteSetTheorems, WellFoundedInduction

-----------------------------------------------------------------------------
(* Sums over finite sets of orders.                                        *)

\* What holds of a finite set whenever it holds of all its proper subsets, holds
\* of every finite set: here as a statement about the sets it holds of.
LEMMA BySubsets ==
  ASSUME NEW S, IsFiniteSet(S), NEW Good,
         \A T \in SUBSET S : (\A U \in SUBSET T : U # T => U \in Good) => T \in Good
  PROVE  \A T \in SUBSET S : T \in Good
  <1>. DEFINE Bad == (SUBSET S) \ Good
  <1>1. ASSUME Bad # {} PROVE FALSE
    <2>1. IsWellFoundedOn(StrictSubsetOrdering(S), FiniteSubsetsOf(S))
      BY FS_StrictSubsetOrderingWellFounded
    <2>2. Bad \subseteq FiniteSubsetsOf(S)
      BY FS_Subset DEF FiniteSubsetsOf
    <2>3. PICK T \in Bad : \A U \in Bad : ~(<<U, T>> \in StrictSubsetOrdering(S))
      <3>. DEFINE R == StrictSubsetOrdering(S)
                  F == FiniteSubsetsOf(S)
      <3>1. IsWellFoundedOn(R, F) /\ Bad \subseteq F /\ Bad # {}
        BY <1>1, <2>1, <2>2
      <3>. HIDE DEF Bad, R, F
      <3>2. \E T \in Bad : \A U \in Bad : ~(<<U, T>> \in R)
        BY <3>1, WFMin
      <3>. QED
        BY <3>2 DEF R
    <2>4. ASSUME NEW U \in SUBSET T, U # T, U \notin Good PROVE FALSE
      <3>1. U \in Bad /\ <<U, T>> \in StrictSubsetOrdering(S)
        BY <2>4 DEF StrictSubsetOrdering
      <3>. QED
        BY <2>3, <3>1
    <2>. QED
      BY <2>3, <2>4
  <1>. QED
    BY <1>1

\* The quota of a set of orders.
Total(g, S) == MapThenSumSet(LAMBDA sn : g[sn].gb, S)

\* One step of the sum: an order is picked and the rest summed.
Add(g, f, T) ==
    IF T = {} THEN 0 ELSE LET x == CHOOSE x \in T : TRUE IN g[x].gb + f[T \ {x}]

Sums(g, f, S) == \A T \in SUBSET S : f[T] = Add(g, f, T)

LEMMA SumsUnique ==
  ASSUME NEW g, NEW f, NEW h, NEW S, IsFiniteSet(S), Sums(g, f, S), Sums(g, h, S)
  PROVE  f[S] = h[S]
  <1>. DEFINE Good == {T \in SUBSET S : f[T] = h[T]}
  <1>1. ASSUME NEW T \in SUBSET S, \A U \in SUBSET T : U # T => U \in Good PROVE T \in Good
    <2>1. CASE T = {}
      BY <2>1 DEF Sums, Add
    <2>2. CASE T # {}
      <3>. DEFINE x == CHOOSE x \in T : TRUE
      <3>1. x \in T
        BY <2>2
      <3>2. T \ {x} \in Good
        BY <1>1, <3>1
      <3>3. f[T] = g[x].gb + f[T \ {x}] /\ h[T] = g[x].gb + h[T \ {x}]
        BY <2>2 DEF Sums, Add
      <3>. QED
        BY <3>2, <3>3
    <2>. QED
      BY <2>1, <2>2
  <1>. HIDE DEF Good
  <1>2. S \in Good
    BY <1>1, BySubsets, Zenon
  <1>. QED
    BY <1>2 DEF Good

LEMMA SumsExist ==
  ASSUME NEW g, NEW S, IsFiniteSet(S)
  PROVE  \E f : f = [T \in SUBSET S |-> Add(g, f, T)]
  <1>. DEFINE On(T) == CHOOSE f : f = [U \in SUBSET T |-> Add(g, f, U)]
              Good == {T \in SUBSET S : \E f : f = [U \in SUBSET T |-> Add(g, f, U)]}
  <1>1. ASSUME NEW T \in SUBSET S, \A U \in SUBSET T : U # T => U \in Good PROVE T \in Good
    <2>. DEFINE v == [U \in SUBSET T |-> On(U)[U]]
                f == [U \in SUBSET T |-> IF U = T THEN Add(g, v, T) ELSE v[U]]
    <2>1. ASSUME NEW U \in SUBSET T, U # T
          PROVE  On(U) = [W \in SUBSET U |-> Add(g, On(U), W)] /\ Sums(g, On(U), U)
      <3>1. \E h : h = [W \in SUBSET U |-> Add(g, h, W)]
        BY <1>1, <2>1
      <3>2. On(U) = [W \in SUBSET U |-> Add(g, On(U), W)]
        BY <3>1
      <3>. HIDE DEF On
      <3>. QED
        BY <3>2 DEF Sums
    <2>2. ASSUME NEW U \in SUBSET T, U # T, NEW W \in SUBSET U
          PROVE  On(U)[W] = v[W]
      <3>1. Sums(g, On(U), W)
        BY <2>1, <2>2 DEF Sums
      <3>2. W \in SUBSET T /\ W # T
        BY <2>2
      <3>3. Sums(g, On(W), W) /\ IsFiniteSet(W)
        BY <2>1, <3>2, FS_Subset
      <3>. HIDE DEF On
      <3>4. On(U)[W] = On(W)[W]
        BY <3>1, <3>3, SumsUnique
      <3>. QED
        BY <3>2, <3>4
    <2>. HIDE DEF On
    <2>3. ASSUME NEW U \in SUBSET T PROVE f[U] = Add(g, f, U)
      <3>1. \A x \in U : f[U \ {x}] = v[U \ {x}]
        OBVIOUS
      <3>2. Add(g, f, U) = Add(g, v, U)
        <4>1. CASE U = {}
          BY <4>1 DEF Add
        <4>2. CASE U # {}
          <5>1. (CHOOSE x \in U : TRUE) \in U
            BY <4>2
          <5>. HIDE DEF f, v
          <5>. QED
            BY <3>1, <4>2, <5>1 DEF Add
        <4>. QED
          BY <4>1, <4>2
      <3>3. CASE U = T
        BY <3>2, <3>3
      <3>4. CASE U # T
        <4>1. f[U] = On(U)[U]
          BY <3>4
        <4>2. On(U)[U] = Add(g, On(U), U)
          BY <2>1, <3>4 DEF Sums
        <4>3. Add(g, On(U), U) = Add(g, v, U)
          <5>1. CASE U = {}
            BY <5>1 DEF Add
          <5>2. CASE U # {}
            <6>1. (CHOOSE x \in U : TRUE) \in U
              BY <5>2
            <6>2. \A x \in U : On(U)[U \ {x}] = v[U \ {x}]
              BY <2>2, <3>4
            <6>. HIDE DEF v
            <6>. QED
              BY <5>2, <6>1, <6>2 DEF Add
          <5>. QED
            BY <5>1, <5>2
        <4>. QED
          BY <3>2, <4>1, <4>2, <4>3
      <3>. QED
        BY <3>3, <3>4
    <2>4. f = [U \in SUBSET T |-> f[U]]
      OBVIOUS
    <2>. HIDE DEF f
    <2>5. f = [U \in SUBSET T |-> Add(g, f, U)]
      BY <2>3, <2>4
    <2>6. \E h : h = [U \in SUBSET T |-> Add(g, h, U)]
      BY <2>5
    <2>. QED
      BY <2>6
  <1>. HIDE DEF Good
  <1>2. S \in Good
    BY <1>1, BySubsets, Zenon
  <1>. QED
    BY <1>2 DEF Good

\* The fold of the community modules, unfolded.
LEMMA TotalSums ==
  ASSUME NEW g, NEW S, IsFiniteSet(S)
  PROVE  \E f : Sums(g, f, S) /\ Total(g, S) = f[S]
  <1>. DEFINE f == CHOOSE f : f = [T \in SUBSET S |-> Add(g, f, T)]
  <1>1. f = [T \in SUBSET S |-> Add(g, f, T)]
    BY SumsExist
  <1>2. Total(g, S) = f[S]
    BY DEF Total, MapThenSumSet, MapThenFoldSet, Add
  <1>. HIDE DEF f
  <1>3. Sums(g, f, S)
    BY <1>1 DEF Sums
  <1>. QED
    BY <1>2, <1>3

LEMMA TotalStep ==
  ASSUME NEW g, NEW S, IsFiniteSet(S)
  PROVE  Total(g, S) = IF S = {} THEN 0
                       ELSE LET x == CHOOSE x \in S : TRUE IN g[x].gb + Total(g, S \ {x})
  <1>1. PICK f : Sums(g, f, S) /\ Total(g, S) = f[S]
    BY TotalSums
  <1>2. CASE S = {}
    BY <1>1, <1>2 DEF Sums, Add
  <1>3. CASE S # {}
    <2>. DEFINE x == CHOOSE x \in S : TRUE
                R == S \ {x}
    <2>1. f[S] = g[x].gb + f[R]
      BY <1>1, <1>3 DEF Sums, Add
    <2>2. IsFiniteSet(R) /\ R \in SUBSET S
      BY FS_Subset
    <2>. HIDE DEF R
    <2>3. PICK h : Sums(g, h, R) /\ Total(g, R) = h[R]
      BY <2>2, TotalSums
    <2>4. Sums(g, f, R)
      BY <1>1, <2>2 DEF Sums
    <2>5. f[R] = Total(g, R)
      BY <2>2, <2>3, <2>4, SumsUnique
    <2>. QED
      BY <1>1, <1>3, <2>1, <2>5 DEF R
  <1>. QED
    BY <1>2, <1>3

\* A sum of natural numbers is one.
LEMMA TotalNat ==
  ASSUME NEW g, NEW S, IsFiniteSet(S), \A x \in S : g[x].gb \in Nat
  PROVE  Total(g, S) \in Nat
  <1>. DEFINE Good == {T \in SUBSET S : Total(g, T) \in Nat}
  <1>1. ASSUME NEW T \in SUBSET S, \A U \in SUBSET T : U # T => U \in Good PROVE T \in Good
    <2>0. IsFiniteSet(T)
      BY FS_Subset
    <2>1. CASE T = {}
      <3>1. Total(g, T) = 0
        BY <2>0, <2>1, TotalStep
      <3>. QED
        BY <3>1
    <2>2. CASE T # {}
      <3>. DEFINE x == CHOOSE x \in T : TRUE
      <3>1. x \in T /\ Total(g, T) = g[x].gb + Total(g, T \ {x})
        BY <2>0, <2>2, TotalStep
      <3>. HIDE DEF x
      <3>2. T \ {x} \in Good
        BY <1>1, <3>1
      <3>. QED
        BY <3>1, <3>2
    <2>. QED
      BY <2>1, <2>2
  <1>. HIDE DEF Good
  <1>2. S \in Good
    BY <1>1, BySubsets, Zenon
  <1>. QED
    BY <1>2 DEF Good

\* The sum does not depend on the order that is picked first.
LEMMA TotalRemove ==
  ASSUME NEW g, NEW S, IsFiniteSet(S), \A x \in S : g[x].gb \in Nat, NEW y \in S
  PROVE  Total(g, S) = g[y].gb + Total(g, S \ {y})
  <1>. DEFINE Good == {T \in SUBSET S : \A z \in T : Total(g, T) = g[z].gb + Total(g, T \ {z})}
  <1>1. ASSUME NEW T \in SUBSET S, \A U \in SUBSET T : U # T => U \in Good PROVE T \in Good
    <2>. SUFFICES ASSUME NEW z \in T PROVE Total(g, T) = g[z].gb + Total(g, T \ {z})
      OBVIOUS
    <2>. DEFINE x == CHOOSE x \in T : TRUE
    <2>0. IsFiniteSet(T) /\ IsFiniteSet(T \ {z}) /\ IsFiniteSet(T \ {x})
      BY FS_Subset
    <2>1. x \in T /\ Total(g, T) = g[x].gb + Total(g, T \ {x})
      BY <2>0, TotalStep
    <2>. HIDE DEF x
    <2>2. CASE x = z
      BY <2>1, <2>2
    <2>3. CASE x # z
      <3>. DEFINE R == (T \ {x}) \ {z}
      <3>1. T \ {x} \in Good /\ T \ {z} \in Good
        BY <1>1, <2>1
      <3>2. Total(g, T \ {x}) = g[z].gb + Total(g, R)
        BY <2>3, <3>1
      <3>3. (T \ {z}) \ {x} = R /\ x \in T \ {z}
        BY <2>1, <2>3
      <3>4. Total(g, T \ {z}) = g[x].gb + Total(g, R)
        BY <3>1, <3>3
      <3>5. IsFiniteSet(R) /\ R \in SUBSET S
        BY FS_Subset
      <3>6. Total(g, R) \in Nat /\ g[x].gb \in Nat /\ g[z].gb \in Nat
        <4>. HIDE DEF R
        <4>. QED
          BY <2>1, <3>5, TotalNat
      <3>. HIDE DEF R
      <3>. QED
        BY <2>1, <3>2, <3>4, <3>6
    <2>. QED
      BY <2>2, <2>3
  <1>. HIDE DEF Good
  <1>2. S \in Good
    BY <1>1, BySubsets, Zenon
  <1>. QED
    BY <1>2 DEF Good

\* The sum depends on the orders summed only.
LEMMA TotalSame ==
  ASSUME NEW g, NEW h, NEW S, IsFiniteSet(S), \A x \in S : g[x] = h[x]
  PROVE  Total(g, S) = Total(h, S)
  <1>. DEFINE Good == {T \in SUBSET S : Total(g, T) = Total(h, T)}
  <1>1. ASSUME NEW T \in SUBSET S, \A U \in SUBSET T : U # T => U \in Good PROVE T \in Good
    <2>0. IsFiniteSet(T)
      BY FS_Subset
    <2>1. CASE T = {}
      BY <2>0, <2>1, TotalStep
    <2>2. CASE T # {}
      <3>. DEFINE x == CHOOSE x \in T : TRUE
      <3>1. /\ x \in T /\ Total(g, T) = g[x].gb + Total(g, T \ {x})
            /\ Total(h, T) = h[x].gb + Total(h, T \ {x})
        BY <2>0, <2>2, TotalStep
      <3>. HIDE DEF x
      <3>2. T \ {x} \in Good
        BY <1>1, <3>1
      <3>. QED
        BY <3>1, <3>2
    <2>. QED
      BY <2>1, <2>2
  <1>. HIDE DEF Good
  <1>2. S \in Good
    BY <1>1, BySubsets, Zenon
  <1>. QED
    BY <1>2 DEF Good

-----------------------------------------------------------------------------
(* The books.                                                              *)

\* What is assumed of the constants: finitely many orders, and plans whose traffic
\* is a number of bytes.
Sensible ==
    /\ IsFiniteSet(Serials)
    /\ \A plan \in Plans : plan.gb \in Nat

Statuses == {"none", "pending", "approved", "rejected", "expired", "revoked"}

Items == [buyer : Buyers, gb : Nat]

BooksOK ==
    /\ book \in [Serials -> Statuses]
    /\ item \in [Serials -> Items \cup {Nobody}]
    /\ \A sn \in Serials : book[sn] # "none" => item[sn] \in Items
    /\ quota \in [Buyers -> Nat]
    /\ used \in [Buyers -> Nat]

Standing(b) == {sn \in Serials : book[sn] = "approved" /\ item[sn].buyer = b}

Clamped(b) == {sn \in Serials : book[sn] = "revoked" /\ item[sn].buyer = b}

LEMMA BooksInit == Init => BooksOK
  <1>. SUFFICES ASSUME Init PROVE BooksOK
    OBVIOUS
  <1>1. item \in [Serials -> Items \cup {Nobody}]
    <2>. HIDE DEF Nobody
    <2>. QED
      BY DEF Init
  <1>. QED
    BY <1>1 DEF Init, BooksOK, Statuses

LEMMA BooksStep ==
  ASSUME Sensible, BooksOK, [Next]_vars
  PROVE  BooksOK'
  <1>1. CASE UNCHANGED vars
    BY <1>1 DEF vars, BooksOK
  <1>2. ASSUME NEW sn \in Serials, Place(sn) PROVE BooksOK'
    <2>1. PICK b \in Buyers, plan \in Plans :
             item' = [item EXCEPT ![sn] = [buyer |-> b, gb |-> plan.gb]]
      BY <1>2 DEF Place
    <2>2. [buyer |-> b, gb |-> plan.gb] \in Items
      BY DEF Sensible, Items
    <2>3. item' \in [Serials -> Items \cup {Nobody}] /\ item'[sn] \in Items
          /\ \A k \in Serials \ {sn} : item'[k] = item[k]
      <3>. DEFINE new == [buyer |-> b, gb |-> plan.gb]
      <3>. HIDE DEF new
      <3>. QED
        BY <2>1, <2>2 DEF BooksOK, new
    <2>. QED
      BY <1>2, <2>3 DEF Place, BooksOK, Statuses
  <1>3. ASSUME NEW sn \in Serials, Settle(sn) PROVE BooksOK'
    <2>1. item[sn] \in Items
      BY <1>3 DEF Settle, BooksOK
    <2>2. quota' \in [Buyers -> Nat]
      BY <1>3, <2>1 DEF Settle, BooksOK, Items
    <2>. QED
      BY <1>3, <2>1, <2>2 DEF Settle, BooksOK, Statuses
  <1>4. ASSUME NEW sn \in Serials, Close(sn) PROVE BooksOK'
    BY <1>4 DEF Close, BooksOK, Statuses
  <1>5. ASSUME NEW sn \in Serials, Revoke(sn) PROVE BooksOK'
    <2>. DEFINE b == item[sn].buyer
    <2>1. item[sn] \in Items /\ b \in Buyers
      BY <1>5 DEF Revoke, BooksOK, Items
    <2>2. PICK reading \in 0..used[b] : quota' = [quota EXCEPT ![b] = Clamp(quota[b] - item[sn].gb, reading)]
      BY <1>5 DEF Revoke
    <2>3. Clamp(quota[b] - item[sn].gb, reading) \in Nat
      BY <2>1 DEF Clamp, BooksOK, Items
    <2>4. quota' \in [Buyers -> Nat]
      BY <2>1, <2>2, <2>3 DEF BooksOK
    <2>. QED
      BY <1>5, <2>1, <2>4 DEF Revoke, BooksOK, Statuses
  <1>6. ASSUME NEW S \in SUBSET Buyers, Use(S) PROVE BooksOK'
    <2>1. used' \in [Buyers -> Nat]
      BY <1>6 DEF Use, BooksOK
    <2>. QED
      BY <1>6, <2>1 DEF Use, BooksOK
  <1>. QED
    BY <1>1, <1>2, <1>3, <1>4, <1>5, <1>6 DEF Next

\* What a buyer has bought is the sum over the orders that stand, a number.
LEMMA BoughtTotal ==
  ASSUME Sensible, BooksOK, NEW b
  PROVE  /\ Bought(b) = Total(item, Standing(b)) /\ Bought(b) \in Nat
         /\ IsFiniteSet(Standing(b)) /\ IsFiniteSet(Clamped(b))
         /\ \A sn \in Standing(b) : item[sn].gb \in Nat
  <1>1. Bought(b) = Total(item, Standing(b))
    BY DEF Bought, Total, Standing
  <1>2. IsFiniteSet(Standing(b)) /\ IsFiniteSet(Clamped(b))
    BY FS_Subset DEF Sensible, Standing, Clamped
  <1>3. \A sn \in Standing(b) : item[sn].gb \in Nat
    BY DEF BooksOK, Standing, Items
  <1>4. Total(item, Standing(b)) \in Nat
    BY <1>2, <1>3, TotalNat
  <1>. QED
    BY <1>1, <1>2, <1>3, <1>4

\* How the quota a buyer has bought changes: by the order that is settled, or that
\* is revoked, and by nothing else.
LEMMA BoughtKept ==
  ASSUME Sensible, BooksOK, BooksOK', NEW b,
         Standing(b)' = Standing(b), \A sn \in Standing(b) : item'[sn] = item[sn]
  PROVE  Bought(b)' = Bought(b)
  <1>. DEFINE T == Standing(b)
  <1>1. Bought(b)' = Total(item', Standing(b)')
    BY DEF Bought, Total, Standing, MapThenSumSet, MapThenFoldSet
  <1>2. Total(item', T) = Total(item, T)
    <2>1. IsFiniteSet(T)
      BY BoughtTotal
    <2>. HIDE DEF T
    <2>. QED
      BY <2>1, TotalSame DEF T
  <1>. QED
    BY <1>1, <1>2, BoughtTotal

LEMMA BoughtMore ==
  ASSUME Sensible, BooksOK, BooksOK', NEW b, NEW sn \in Serials, UNCHANGED item,
         sn \notin Standing(b), Standing(b)' = Standing(b) \cup {sn}, item[sn] \in Items
  PROVE  Bought(b)' = Bought(b) + item[sn].gb
  <1>. DEFINE T == Standing(b) \cup {sn}
  <1>0. Bought(b)' = Total(item', Standing(b)')
    BY DEF Bought, Total, Standing, MapThenSumSet, MapThenFoldSet
  <1>1. Bought(b)' = Total(item, T)
    BY <1>0
  <1>2. IsFiniteSet(T) /\ (\A x \in T : item[x].gb \in Nat) /\ sn \in T
    <2>1. IsFiniteSet(T)
      BY BoughtTotal, FS_AddElement
    <2>. QED
      BY <2>1, BoughtTotal DEF Items
  <1>3. T \ {sn} = Standing(b)
    OBVIOUS
  <1>4. Total(item, T) = item[sn].gb + Total(item, T \ {sn})
    <2>. HIDE DEF T
    <2>. QED
      BY <1>2, TotalRemove
  <1>5. Bought(b)' = item[sn].gb + Bought(b)
    BY <1>1, <1>3, <1>4, BoughtTotal
  <1>6. item[sn].gb \in Nat /\ Bought(b) \in Nat
    BY BoughtTotal DEF Items
  <1>. QED
    BY <1>5, <1>6

LEMMA BoughtLess ==
  ASSUME Sensible, BooksOK, BooksOK', NEW b, NEW sn \in Standing(b), UNCHANGED item,
         Standing(b)' = Standing(b) \ {sn}
  PROVE  Bought(b)' = Bought(b) - item[sn].gb
  <1>. DEFINE T == Standing(b)
  <1>0. Bought(b)' = Total(item', Standing(b)')
    BY DEF Bought, Total, Standing, MapThenSumSet, MapThenFoldSet
  <1>1. Bought(b)' = Total(item, T \ {sn})
    BY <1>0
  <1>2. IsFiniteSet(T) /\ (\A x \in T : item[x].gb \in Nat) /\ sn \in T
    BY BoughtTotal
  <1>3. Total(item, T) = item[sn].gb + Total(item, T \ {sn})
    <2>. HIDE DEF T
    <2>. QED
      BY <1>2, TotalRemove
  <1>4. Total(item, T \ {sn}) \in Nat
    <2>1. IsFiniteSet(T \ {sn})
      BY <1>2, FS_Subset
    <2>. HIDE DEF T
    <2>. QED
      BY <1>2, <2>1, TotalNat
  <1>. QED
    BY <1>1, <1>2, <1>3, <1>4, BoughtTotal

-----------------------------------------------------------------------------
(* The two rules, step by step.                                            *)

Ruled(b) ==
    /\ quota[b] >= Bought(b)
    /\ quota[b] - used[b] <= Bought(b) + Cardinality(Clamped(b))

\* Steps that change neither what stands nor the quota of b.
LEMMA RuledKept ==
  ASSUME Sensible, BooksOK, BooksOK', NEW b \in Buyers, Ruled(b),
         Standing(b)' = Standing(b), Clamped(b)' = Clamped(b),
         \A sn \in Standing(b) : item'[sn] = item[sn],
         quota'[b] = quota[b], used'[b] >= used[b]
  PROVE  Ruled(b)'
  <1>1. Bought(b)' = Bought(b) /\ Bought(b) \in Nat
    BY BoughtKept, BoughtTotal
  <1>2. Cardinality(Clamped(b))' = Cardinality(Clamped(b)) /\ Cardinality(Clamped(b)) \in Nat
    BY BoughtTotal, FS_CardinalityType
  <1>3. quota[b] \in Nat /\ used[b] \in Nat /\ used'[b] \in Nat
    BY DEF BooksOK
  <1>. QED
    BY <1>1, <1>2, <1>3 DEF Ruled

LEMMA RuledSettle ==
  ASSUME Sensible, BooksOK, BooksOK', NEW b \in Buyers, Ruled(b), NEW sn \in Serials, Settle(sn)
  PROVE  Ruled(b)'
  <1>1. /\ item[sn] \in Items /\ book[sn] = "pending" /\ book' = [book EXCEPT ![sn] = "approved"]
        /\ quota' = [quota EXCEPT ![item[sn].buyer] = quota[item[sn].buyer] + item[sn].gb]
        /\ UNCHANGED <<item, used>>
    BY DEF Settle, BooksOK
  <1>2. \A k \in Serials : book'[k] = IF k = sn THEN "approved" ELSE book[k]
    BY <1>1 DEF BooksOK
  <1>3. Clamped(b)' = Clamped(b)
    BY <1>1, <1>2 DEF Clamped
  <1>4. CASE item[sn].buyer # b
    <2>1. Standing(b)' = Standing(b)
      BY <1>1, <1>2, <1>4 DEF Standing
    <2>2. quota'[b] = quota[b] /\ used'[b] >= used[b]
      BY <1>1, <1>4 DEF BooksOK
    <2>. QED
      BY <1>1, <1>3, <2>1, <2>2, RuledKept
  <1>5. CASE item[sn].buyer = b
    <2>1. sn \notin Standing(b) /\ Standing(b)' = Standing(b) \cup {sn}
      BY <1>1, <1>2, <1>5 DEF Standing
    <2>2. Bought(b)' = Bought(b) + item[sn].gb /\ Bought(b) \in Nat
      BY <1>1, <2>1, BoughtMore, BoughtTotal
    <2>3. quota'[b] = quota[b] + item[sn].gb /\ used'[b] = used[b]
      BY <1>1, <1>5 DEF BooksOK
    <2>4. Cardinality(Clamped(b))' = Cardinality(Clamped(b)) /\ Cardinality(Clamped(b)) \in Nat
      BY <1>3, BoughtTotal, FS_CardinalityType
    <2>5. quota[b] \in Nat /\ used[b] \in Nat /\ item[sn].gb \in Nat
      BY <1>1 DEF BooksOK, Items
    <2>. QED
      BY <2>2, <2>3, <2>4, <2>5 DEF Ruled
  <1>. QED
    BY <1>4, <1>5

\* Taking a plan back never goes below what the other orders bought, and leaves at
\* most the one byte that its clamp is counted for.
LEMMA RuledRevoke ==
  ASSUME Sensible, BooksOK, BooksOK', NEW b \in Buyers, Ruled(b), NEW sn \in Serials, Revoke(sn)
  PROVE  Ruled(b)'
  <1>1. /\ item[sn] \in Items /\ book[sn] = "approved" /\ book' = [book EXCEPT ![sn] = "revoked"]
        /\ UNCHANGED <<item, used>>
    BY DEF Revoke, BooksOK
  <1>. DEFINE c == item[sn].buyer
  <1>2. PICK reading \in 0..used[c] : quota' = [quota EXCEPT ![c] = Clamp(quota[c] - item[sn].gb, reading)]
    BY DEF Revoke
  <1>3. \A k \in Serials : book'[k] = IF k = sn THEN "revoked" ELSE book[k]
    BY <1>1 DEF BooksOK
  <1>4. CASE c # b
    <2>1. Standing(b)' = Standing(b) /\ Clamped(b)' = Clamped(b)
      BY <1>1, <1>3, <1>4 DEF Standing, Clamped
    <2>2. quota'[b] = quota[b] /\ used'[b] >= used[b]
      BY <1>1, <1>2, <1>4 DEF BooksOK
    <2>. QED
      BY <1>1, <2>1, <2>2, RuledKept
  <1>5. CASE c = b
    <2>1. sn \in Standing(b) /\ Standing(b)' = Standing(b) \ {sn}
      BY <1>1, <1>3, <1>5 DEF Standing
    <2>2. sn \notin Clamped(b) /\ Clamped(b)' = Clamped(b) \cup {sn}
      BY <1>1, <1>3, <1>5 DEF Clamped
    <2>3. Bought(b)' = Bought(b) - item[sn].gb /\ Bought(b) \in Nat /\ Bought(b)' \in Nat
      <3>1. Bought(b)' = Bought(b) - item[sn].gb
        BY <1>1, <2>1, BoughtLess
      <3>2. Bought(b) \in Nat /\ Bought(b)' = Total(item, Standing(b) \ {sn})
        <4>1. Bought(b)' = Total(item', Standing(b)')
          BY DEF Bought, Total, Standing, MapThenSumSet, MapThenFoldSet
        <4>. QED
          BY <1>1, <2>1, <4>1, BoughtTotal
      <3>3. Total(item, Standing(b) \ {sn}) \in Nat
        <4>. DEFINE R == Standing(b) \ {sn}
        <4>1. IsFiniteSet(R) /\ (\A x \in R : item[x].gb \in Nat)
          BY BoughtTotal, FS_Subset
        <4>. HIDE DEF R
        <4>2. Total(item, R) \in Nat
          BY <4>1, TotalNat
        <4>. QED
          BY <4>2 DEF R
      <3>. QED
        BY <3>1, <3>2, <3>3
    <2>4. Cardinality(Clamped(b))' = Cardinality(Clamped(b)) + 1 /\ Cardinality(Clamped(b)) \in Nat
      BY <2>2, BoughtTotal, FS_CardinalityType, FS_AddElement
    <2>5. /\ quota'[b] = Clamp(quota[b] - item[sn].gb, reading) /\ used'[b] = used[b]
          /\ reading \in 0..used[b]
      BY <1>1, <1>2, <1>5 DEF BooksOK
    <2>6. quota[b] \in Nat /\ used[b] \in Nat /\ item[sn].gb \in Nat
      BY <1>1 DEF BooksOK, Items
    <2>7. quota[b] >= Bought(b) /\ quota[b] - used[b] <= Bought(b) + Cardinality(Clamped(b))
      BY DEF Ruled
    <2>8. (quota[b] >= Bought(b))'
      BY <2>3, <2>5, <2>6, <2>7 DEF Clamp
    <2>9. (quota[b] - used[b] <= Bought(b) + Cardinality(Clamped(b)))'
      BY <2>3, <2>4, <2>5, <2>6, <2>7 DEF Clamp
    <2>. QED
      BY <2>8, <2>9 DEF Ruled
  <1>. QED
    BY <1>4, <1>5

BooksInv == BooksOK /\ \A b \in Buyers : Ruled(b)

LEMMA BooksNext ==
  ASSUME Sensible, BooksInv, [Next]_vars
  PROVE  BooksInv'
  <1>. BooksOK /\ BooksOK'
    BY BooksStep DEF BooksInv
  <1>. SUFFICES ASSUME NEW b \in Buyers PROVE Ruled(b)'
    BY DEF BooksInv
  <1>. Ruled(b) /\ quota[b] \in Nat /\ used[b] \in Nat
    BY DEF BooksInv, BooksOK
  <1>1. CASE UNCHANGED vars
    <2>1. UNCHANGED <<book, item, quota, used>>
      BY <1>1 DEF vars
    <2>2. Standing(b)' = Standing(b) /\ Clamped(b)' = Clamped(b)
      BY <2>1 DEF Standing, Clamped
    <2>. QED
      BY <2>1, <2>2, RuledKept
  <1>2. ASSUME NEW sn \in Serials, Place(sn) PROVE Ruled(b)'
    <2>1. /\ book[sn] = "none" /\ book' = [book EXCEPT ![sn] = "pending"]
          /\ UNCHANGED <<quota, used>> /\ \E new : item' = [item EXCEPT ![sn] = new]
      BY <1>2 DEF Place
    <2>2. \A k \in Serials : /\ book'[k] = IF k = sn THEN "pending" ELSE book[k]
                             /\ k # sn => item'[k] = item[k]
      BY <2>1 DEF BooksOK
    <2>3. Standing(b)' = Standing(b) /\ Clamped(b)' = Clamped(b)
      BY <2>1, <2>2 DEF Standing, Clamped
    <2>4. \A k \in Standing(b) : item'[k] = item[k]
      BY <2>1, <2>2 DEF Standing
    <2>. QED
      BY <2>1, <2>3, <2>4, RuledKept
  <1>3. ASSUME NEW sn \in Serials, Close(sn) PROVE Ruled(b)'
    <2>1. PICK status \in {"rejected", "expired"} : book' = [book EXCEPT ![sn] = status]
      BY <1>3 DEF Close
    <2>2. book[sn] = "pending" /\ UNCHANGED <<item, quota, used>>
      BY <1>3 DEF Close
    <2>3. \A k \in Serials : book'[k] = IF k = sn THEN status ELSE book[k]
      BY <2>1 DEF BooksOK
    <2>4. Standing(b)' = Standing(b) /\ Clamped(b)' = Clamped(b)
      BY <2>2, <2>3 DEF Standing, Clamped
    <2>. QED
      BY <2>2, <2>4, RuledKept
  <1>4. ASSUME NEW S \in SUBSET Buyers, Use(S) PROVE Ruled(b)'
    <2>1. UNCHANGED <<book, item, quota>> /\ used'[b] >= used[b]
      BY <1>4 DEF Use
    <2>2. Standing(b)' = Standing(b) /\ Clamped(b)' = Clamped(b)
      BY <2>1 DEF Standing, Clamped
    <2>. QED
      BY <2>1, <2>2, RuledKept
  <1>. QED
    BY <1>1, <1>2, <1>3, <1>4, RuledSettle, RuledRevoke DEF Next

LEMMA BooksAlways == Sensible => (Spec => []BooksInv)
  <1>. SUFFICES ASSUME Sensible PROVE Spec => []BooksInv
    OBVIOUS
  <1>1. Init => BooksInv
    <2>. SUFFICES ASSUME Init, NEW b \in Buyers PROVE BooksOK /\ Ruled(b)
      BY BooksInit DEF BooksInv
    <2>1. Standing(b) = {} /\ Clamped(b) = {} /\ quota[b] = 0 /\ used[b] = 0
      BY DEF Init, Standing, Clamped
    <2>2. Total(item, {}) = 0 /\ Cardinality({}) = 0
      BY TotalStep, FS_EmptySet
    <2>3. Bought(b) = 0
      BY <2>1, <2>2, BooksInit, BoughtTotal
    <2>. QED
      BY <2>1, <2>2, <2>3, BooksInit DEF Ruled
  <1>. QED
    BY <1>1, BooksNext, PTL DEF Spec

\* Revoking orders, in whatever order, never takes a buyer's quota below what his
\* standing orders bought (rule 1 of revokeAdjustment in web/service/shop.go).
THEOREM FloorKept == Sensible => (Spec => []QuotaFloor)
  <1>1. BooksInv => QuotaFloor
    BY DEF BooksInv, Ruled, QuotaFloor
  <1>. QED
    BY <1>1, BooksAlways, PTL

\* What a buyer has left is never more than his standing orders bought, but for
\* one byte for each revocation (rules 2 and 3 of revokeAdjustment).
THEOREM NothingFree == Sensible => (Spec => []NoFreeQuota)
  <1>1. BooksInv => NoFreeQuota
    BY DEF BooksInv, Ruled, NoFreeQuota, Clamped
  <1>. QED
    BY <1>1, BooksAlways, PTL
=============================================================================
