---------------------------- MODULE Trade_proofs ----------------------------
(***************************************************************************)
(* Proofs about Trade, for any players, items, slots, bags and gold: every *)
(* trade has two sides, no change slips in behind an acceptance, and the   *)
(* exchange is whole and keeps the gold.                                   *)
(*                                                                         *)
(* The invariant TradeInv adds to what the runs check that no item is      *)
(* twice in a window.  The exchange moves item after item, so that it is   *)
(* whole only because what CanStoreItems has counted before is, at every   *)
(* slot, at least what the bags hold by then.                              *)
(***************************************************************************)
EXTENDS Trade, FiniteSetTheorems, WellFoundedInduction, TLAPS

-----------------------------------------------------------------------------
(* Induction, and the folds of the community modules. *)

\* The least number of a set.
LEMMA LeastNumber ==
    ASSUME NEW T \in SUBSET Nat, T # {}
    PROVE  \E n \in T : \A k \in T : n <= k
<1>1. PICK R : R = {ss \in Nat \X Nat : ss[1] < ss[2]} /\ IsWellFoundedOn(R, Nat)
  BY NatLessThanWellFounded DEF OpToRel
<1>2. \E n \in T : \A k \in T : ~ (<<k, n>> \in R)
  BY <1>1, WFMin
<1>3. \A k, n \in Nat : <<k, n>> \in R <=> k < n
  BY <1>1
<1>4. \A k, n \in T : ~(k < n) => n <= k
  OBVIOUS
<1> QED BY <1>2, <1>3, <1>4

\* Induction over a set of numbers.
LEMMA EveryNumber ==
    ASSUME NEW m \in Nat, NEW P, 0 \in P, \A n \in 1 .. m : n - 1 \in P => n \in P
    PROVE  \A n \in 0 .. m : n \in P
<1> SUFFICES ASSUME {n \in 0 .. m : n \notin P} # {} PROVE FALSE
  OBVIOUS
<1> DEFINE T == {n \in 0 .. m : n \notin P}
<1>1. PICK n \in T : \A k \in T : n <= k
  <2>1. T \in SUBSET Nat
    OBVIOUS
  <2> QED BY <2>1, LeastNumber
<1>2. n # 0 /\ n \in 1 .. m /\ n - 1 \in 0 .. m /\ ~(n <= n - 1)
  BY <1>1
<1>3. n - 1 \in P
  BY <1>1, <1>2
<1> QED BY <1>1, <1>2, <1>3

\* A recursion over the subsets of a finite set has a solution: the function
\* that the folds of the community modules choose exists.
ItemChoices(S) == {f \in [(SUBSET S) \ {{}} -> S] : \A s \in (SUBSET S) \ {{}} : f[s] \in s}

Folds(S, V, base, choice, op) ==
    {g \in [SUBSET S -> V] :
        /\ g[{}] = base
        /\ \A s \in (SUBSET S) \ {{}} : g[s] = op[<<choice[s], g[s \ {choice[s]}]>>]}

LEMMA FoldExists ==
    ASSUME NEW S, IsFiniteSet(S), NEW V, NEW base \in V,
           NEW choice \in ItemChoices(S), NEW op \in [S \X V -> V]
    PROVE  \E g : g \in Folds(S, V, base, choice, op)
<1> USE DEF ItemChoices
<1> DEFINE Small(n) == {s \in SUBSET S : Cardinality(s) <= n}
           Solves(g, n) == \A s \in Small(n) :
                g[s] = IF s = {} THEN base ELSE op[<<choice[s], g[s \ {choice[s]}]>>]
           P == {n \in Nat : \E g \in [Small(n) -> V] : Solves(g, n)}
<1>1. \A s \in SUBSET S : IsFiniteSet(s) /\ Cardinality(s) \in Nat
  BY FS_Subset, FS_CardinalityType
<1>2. 0 \in P
  <2>1. \A s \in Small(0) : s = {}
    BY <1>1, FS_EmptySet
  <2> DEFINE g == [s \in Small(0) |-> base]
  <2>2. g \in [Small(0) -> V] /\ Solves(g, 0)
    BY <2>1
  <2> QED BY <2>2
<1>3. ASSUME NEW n \in Nat, n \in P PROVE n + 1 \in P
  <2>1. PICK g \in [Small(n) -> V] : Solves(g, n)
    BY <1>3
  <2>2. ASSUME NEW s \in Small(n + 1), s # {} PROVE s \ {choice[s]} \in Small(n)
    <3>1. s \in (SUBSET S) \ {{}} /\ choice[s] \in s
      BY <2>2
    <3>2. Cardinality(s \ {choice[s]}) = Cardinality(s) - 1
      BY <1>1, <3>1, FS_RemoveElement
    <3>3. Cardinality(s) <= n + 1 /\ Cardinality(s) \in Nat
      BY <1>1, <2>2
    <3> QED BY <3>1, <3>2, <3>3
  <2> DEFINE h == [s \in Small(n + 1) |->
                      IF s = {} THEN base ELSE op[<<choice[s], g[s \ {choice[s]}]>>]]
  <2>3. h \in [Small(n + 1) -> V]
    <3>1. ASSUME NEW s \in Small(n + 1), s # {} PROVE op[<<choice[s], g[s \ {choice[s]}]>>] \in V
      <4>1. g[s \ {choice[s]}] \in V
        BY <2>1, <2>2, <3>1
      <4>2. choice[s] \in S
        BY <3>1
      <4> QED BY <4>1, <4>2
    <3> QED BY <3>1
  <2>4. ASSUME NEW s \in Small(n) PROVE s \in Small(n + 1) /\ h[s] = g[s]
    <3>1. s \in Small(n + 1)
      BY <1>1
    <3> QED BY <2>1, <3>1
  <2>5. ASSUME NEW s \in Small(n + 1)
        PROVE  h[s] = IF s = {} THEN base ELSE op[<<choice[s], h[s \ {choice[s]}]>>]
    <3>1. CASE s = {}
      BY <3>1
    <3>2. CASE s # {}
      <4>1. h[s \ {choice[s]}] = g[s \ {choice[s]}]
        BY <2>2, <2>4, <3>2
      <4> QED BY <4>1, <3>2
    <3> QED BY <3>1, <3>2
  <2>6. h \in [Small(n + 1) -> V] /\ Solves(h, n + 1)
    BY <2>3, <2>5
  <2>7. \E f \in [Small(n + 1) -> V] : Solves(f, n + 1)
    <3> HIDE DEF Small, Solves, h
    <3> QED BY <2>6
  <2> HIDE DEF Small, Solves
  <2> QED BY <2>7
<1>4. Cardinality(S) \in P
  <2>1. Cardinality(S) \in Nat
    BY FS_CardinalityType
  <2>2. \A n \in 1 .. Cardinality(S) : n - 1 \in P => n \in P
    <3> HIDE DEF P
    <3> TAKE n \in 1 .. Cardinality(S)
    <3>1. n - 1 \in Nat /\ (n - 1) + 1 = n
      BY <2>1
    <3> QED BY <1>3, <3>1
  <2> HIDE DEF P
  <2>3. \A n \in 0 .. Cardinality(S) : n \in P
    BY <1>2, <2>1, <2>2, EveryNumber
  <2> QED BY <2>1, <2>3
<1>5. Small(Cardinality(S)) = SUBSET S
  BY FS_Subset
<1>6. PICK g \in [SUBSET S -> V] : \A s \in SUBSET S :
                g[s] = IF s = {} THEN base ELSE op[<<choice[s], g[s \ {choice[s]}]>>]
  BY <1>4, <1>5
<1> QED BY <1>6 DEF Folds

\* Induction over the subsets of a finite set.
LEMMA EverySubset ==
    ASSUME NEW S, IsFiniteSet(S), NEW P, {} \in P,
           \A s \in (SUBSET S) \ {{}} : (\A x \in s : s \ {x} \in P) => s \in P
    PROVE  S \in P
<1> DEFINE Q == {n \in Nat : \A s \in SUBSET S : Cardinality(s) = n => s \in P}
<1>1. \A s \in SUBSET S : IsFiniteSet(s) /\ Cardinality(s) \in Nat
  BY FS_Subset, FS_CardinalityType
<1>2. 0 \in Q
  BY <1>1, FS_EmptySet
<1>3. ASSUME NEW n \in Nat \ {0}, n - 1 \in Q PROVE n \in Q
  <2> SUFFICES ASSUME NEW s \in SUBSET S, Cardinality(s) = n PROVE s \in P
    OBVIOUS
  <2>1. s # {}
    BY FS_EmptySet
  <2>2. ASSUME NEW x \in s PROVE s \ {x} \in P
    <3>1. Cardinality(s \ {x}) = n - 1
      BY <1>1, FS_RemoveElement
    <3>2. s \ {x} \in SUBSET S
      OBVIOUS
    <3> QED BY <1>3, <3>1, <3>2
  <2> QED BY <2>1, <2>2
<1>4. Cardinality(S) \in Nat
  BY FS_CardinalityType
<1>5. Cardinality(S) \in Q
  <2> HIDE DEF Q
  <2>1. \A n \in 1 .. Cardinality(S) : n - 1 \in Q => n \in Q
    BY <1>3, <1>4
  <2> QED BY <1>2, <1>4, <2>1, EveryNumber
<1> QED BY <1>5

-----------------------------------------------------------------------------
(* The gold of all players. *)

\* The element that the sum takes next.
LEMMA First == \A s : s # {} => (CHOOSE x \in s : TRUE) \in s
<1> TAKE s
<1> HAVE s # {}
<1>1. PICK x : x \in s
  OBVIOUS
<1> QED BY <1>1

\* The sum satisfies the equation by which it is defined.
LEMMA GoldFold ==
    ASSUME NEW c \in [Players -> Nat]
    PROVE  \E g \in [SUBSET Players -> Nat] :
              /\ Gold(c) = g[Players]
              /\ g[{}] = 0
              /\ \A s \in SUBSET Players : s # {} =>
                    g[s] = c[CHOOSE x \in s : TRUE] + g[s \ {CHOOSE x \in s : TRUE}]
<1> DEFINE first(s) == CHOOSE x \in s : TRUE
           sum(g) == [s \in SUBSET Players |-> IF s = {} THEN 0 ELSE c[first(s)] + g[s \ {first(s)}]]
           iter   == CHOOSE g : g = sum(g)
           choice == [s \in (SUBSET Players) \ {{}} |-> first(s)]
           op     == [xv \in Players \X Nat |-> c[xv[1]] + xv[2]]
<1>1. Gold(c) = iter[Players]
  BY DEF Gold, MapThenSumSet, MapThenFoldSet
<1>2. \A s \in (SUBSET Players) \ {{}} : choice[s] = first(s) /\ choice[s] \in s
  BY First
<1>3. choice \in [(SUBSET Players) \ {{}} -> Players]
  BY <1>2
<1>4. op \in [Players \X Nat -> Nat]
  OBVIOUS
<1>5. PICK f : f \in Folds(Players, Nat, 0, choice, op)
  <2>1. choice \in ItemChoices(Players)
    BY <1>2, <1>3 DEF ItemChoices
  <2>2. IsFiniteSet(Players) /\ 0 \in Nat
    BY TradeAssumption
  <2> HIDE DEF choice, op
  <2> QED BY <2>1, <2>2, <1>4, FoldExists
<1>6. f = sum(f)
  <2>1. ASSUME NEW s \in SUBSET Players, s # {}
        PROVE  op[<<choice[s], f[s \ {choice[s]}]>>] = c[first(s)] + f[s \ {first(s)}]
    <3>1. first(s) \in Players /\ f[s \ {first(s)}] \in Nat
      BY <1>2, <1>5, <2>1 DEF Folds
    <3> QED BY <1>2, <2>1, <3>1
  <2> HIDE DEF op, choice
  <2>2. /\ f[{}] = 0
        /\ \A s \in SUBSET Players : s # {} => f[s] = c[first(s)] + f[s \ {first(s)}]
    BY <1>5, <2>1 DEF Folds
  <2>3. f = [s \in SUBSET Players |-> f[s]]
    BY <1>5 DEF Folds
  <2> HIDE DEF first
  <2> QED BY <2>2, <2>3
<1>7. iter = sum(iter)
  BY <1>6
<1>8. /\ iter[{}] = 0
      /\ \A s \in SUBSET Players : s # {} => iter[s] = c[first(s)] + iter[s \ {first(s)}]
  <2> HIDE DEF iter
  <2> QED BY <1>7
<1>9. iter \in [SUBSET Players -> Nat]
  <2> DEFINE P == {s \in SUBSET Players : \A u \in SUBSET s : iter[u] \in Nat}
  <2> SUFFICES ASSUME TRUE PROVE \A s \in SUBSET Players : iter[s] \in Nat
    BY <1>7
  <2>1. {} \in P
    <3>1. iter[{}] \in Nat
      BY <1>8
    <3> HIDE DEF iter
    <3> QED BY <3>1
  <2>2. ASSUME NEW s \in (SUBSET Players) \ {{}}, \A x \in s : s \ {x} \in P PROVE s \in P
    <3> HIDE DEF iter
    <3>1. first(s) \in s
      BY First
    <3>2. s \ {first(s)} \in P
      BY <2>2, <3>1
    <3>3. c[first(s)] \in Nat /\ iter[s \ {first(s)}] \in Nat
      BY <3>1, <3>2
    <3>4. iter[s] \in Nat
      <4>1. iter[s] = c[first(s)] + iter[s \ {first(s)}]
        BY <1>8
      <4> HIDE DEF first
      <4> QED BY <4>1, <3>3
    <3>5. ASSUME NEW u \in SUBSET s, u # s PROVE iter[u] \in Nat
      <4>1. PICK x \in s : x \notin u
        BY <3>5
      <4>2. u \subseteq s \ {x} /\ s \ {x} \in P
        BY <2>2, <4>1
      <4> QED BY <4>2
    <3> QED BY <3>4, <3>5
  <2>3. Players \in P
    <3> HIDE DEF P
    <3> QED BY <2>1, <2>2, EverySubset, TradeAssumption
  <2> QED BY <2>3
<1> HIDE DEF iter
<1> QED BY <1>1, <1>8, <1>9

\* When the gold of two players changes, the sum changes by as much.
LEMMA GoldMoves ==
    ASSUME NEW c \in [Players -> Nat], NEW d \in [Players -> Nat],
           NEW p \in Players, NEW q \in Players, p # q,
           \A x \in Players \ {p, q} : c[x] = d[x]
    PROVE  Gold(c) \in Nat /\ Gold(d) \in Nat /\ Gold(d) - Gold(c) = (d[p] - c[p]) + (d[q] - c[q])
<1>1. PICK g \in [SUBSET Players -> Nat] :
              /\ Gold(c) = g[Players]
              /\ g[{}] = 0
              /\ \A s \in SUBSET Players : s # {} =>
                    g[s] = c[CHOOSE x \in s : TRUE] + g[s \ {CHOOSE x \in s : TRUE}]
  BY GoldFold
<1>2. PICK h \in [SUBSET Players -> Nat] :
              /\ Gold(d) = h[Players]
              /\ h[{}] = 0
              /\ \A s \in SUBSET Players : s # {} =>
                    h[s] = d[CHOOSE x \in s : TRUE] + h[s \ {CHOOSE x \in s : TRUE}]
  BY GoldFold
<1> DEFINE change(x, s) == IF x \in s THEN d[x] - c[x] ELSE 0
           P == {s \in SUBSET Players : h[s] - g[s] = change(p, s) + change(q, s)}
<1>3. {} \in P
  BY <1>1, <1>2
<1>4. ASSUME NEW s \in (SUBSET Players) \ {{}}, \A x \in s : s \ {x} \in P PROVE s \in P
  <2>1. PICK x \in s : x = CHOOSE y \in s : TRUE
    BY First
  <2>2. g[s] = c[x] + g[s \ {x}] /\ h[s] = d[x] + h[s \ {x}]
    BY <1>1, <1>2, <2>1
  <2>3. h[s \ {x}] - g[s \ {x}] = change(p, s \ {x}) + change(q, s \ {x})
    BY <1>4
  <2>4. /\ g[s \ {x}] \in Nat /\ h[s \ {x}] \in Nat /\ g[s] \in Nat /\ h[s] \in Nat
        /\ c[x] \in Nat /\ d[x] \in Nat /\ d[p] \in Nat /\ c[p] \in Nat /\ d[q] \in Nat /\ c[q] \in Nat
    OBVIOUS
  <2>5. CASE x = p
    BY <2>2, <2>3, <2>4, <2>5
  <2>6. CASE x = q
    BY <2>2, <2>3, <2>4, <2>6
  <2>7. CASE x \notin {p, q}
    BY <2>2, <2>3, <2>4, <2>7
  <2> QED BY <2>5, <2>6, <2>7
<1>5. Players \in P
  <2> HIDE DEF P
  <2> QED BY <1>3, <1>4, EverySubset, TradeAssumption
<1> QED BY <1>1, <1>2, <1>5

-----------------------------------------------------------------------------
(* The exchange of items. *)

Owners == [Items -> Players \union {Nobody}]

\* The items of both, taken out of the bags.
InHand(p) == Offered(trade, p) \union Offered(trade, trade[p].trader)

Taken(p) == [i \in Items |-> IF i \in InHand(p) THEN Nobody ELSE owner[i]]

\* What a slot does leaves every item with somebody or nobody.
LEMMA MoveSlotType ==
    ASSUME NEW p \in Players, trade[p].trader \in Players, NEW o \in Owners, NEW slot
    PROVE  MoveSlot(p, o, slot) \in Owners
<1> DEFINE other == trade[p].trader
           mine  == GetItem(trade, p, slot)
           his   == GetItem(trade, other, slot)
           fits(x) == Cardinality({i \in Items : o[i] = x}) < BagSize
           both == (mine = NoItem \/ fits(other)) /\ (his = NoItem \/ fits(p))
           to(x, y) == IF both THEN y ELSE IF fits(x) THEN x ELSE Nobody
<1>1. MoveSlot(p, o, slot) =
          [i \in Items |-> CASE i = mine -> to(p, other) [] i = his -> to(other, p) [] OTHER -> o[i]]
  BY DEF MoveSlot
<1>2. to(p, other) \in Players \union {Nobody} /\ to(other, p) \in Players \union {Nobody}
  OBVIOUS
<1> HIDE DEF to, mine, his
<1> QED BY <1>1, <1>2 DEF Owners

\* The slots before a slot are what an interval keeps without its last number.
LEMMA IntervalWithoutLast ==
    ASSUME NEW k \in Nat, NEW n \in 1 .. k
    PROVE  /\ 1 .. n \in SUBSET (1 .. k)
           /\ 1 .. n # {}
           /\ (1 .. n) \ {n} = 1 .. n - 1
<1>1. ASSUME NEW i \in 1 .. n PROVE i \in 1 .. k
  OBVIOUS
<1>2. n \in 1 .. n
  OBVIOUS
<1>3. ASSUME NEW i \in (1 .. n) \ {n} PROVE i \in 1 .. n - 1
  OBVIOUS
<1>4. ASSUME NEW i \in 1 .. n - 1 PROVE i \in (1 .. n) \ {n}
  OBVIOUS
<1> QED BY <1>1, <1>2, <1>3, <1>4

\* The fold over the slots, as the sequence of its intermediate results.
LEMMA MoveItemsSteps ==
    ASSUME NEW p \in Players, trade[p].trader \in Players, owner \in Owners
    PROVE  \E m \in [0 .. TradedCount -> Owners] :
              /\ m[0] = Taken(p)
              /\ \A n \in 1 .. TradedCount : m[n] = MoveSlot(p, m[n - 1], n - 1)
              /\ moveItems(p) = m[TradedCount]
<1> DEFINE S      == 1 .. TradedCount
           choice == [s \in (SUBSET S) \ {{}} |-> Max(s)]
           op     == [xv \in S \X Owners |-> MoveSlot(p, xv[2], xv[1] - 1)]
           seq    == [n \in S |-> n]
           fold(g) == [s \in SUBSET S |->
                          IF s = {} THEN Taken(p) ELSE MoveSlot(p, g[s \ {Max(s)}], seq[Max(s)] - 1)]
           iter   == CHOOSE g : g = fold(g)
<1>1. moveItems(p) = iter[S]
  BY DEF moveItems, FoldLeft, MapThenFoldSet, Taken, InHand
<1>2. TradedCount \in Nat /\ IsFiniteSet(S)
  BY TradeAssumption, FS_Interval
<1>3. ASSUME NEW s \in (SUBSET S) \ {{}} PROVE Max(s) \in s /\ \A y \in s : Max(s) >= y
  <2> DEFINE T == {TradedCount - y : y \in s}
  <2>1. T \in SUBSET Nat /\ T # {}
    BY <1>2
  <2>2. PICK n \in T : \A k \in T : n <= k
    BY <2>1, LeastNumber
  <2>3. PICK x \in s : n = TradedCount - x
    BY <2>2
  <2>4. \A y \in s : x >= y
    <3> TAKE y \in s
    <3>1. n <= TradedCount - y
      BY <2>2
    <3> QED BY <1>2, <2>3, <3>1
  <2> QED BY <2>4 DEF Max
<1>4. choice \in ItemChoices(S)
  BY <1>3 DEF ItemChoices
<1>5. op \in [S \X Owners -> Owners]
  BY MoveSlotType
<1>6. Taken(p) \in Owners
  BY DEF Taken, Owners
<1>7. PICK f : f \in Folds(S, Owners, Taken(p), choice, op)
  <2> HIDE DEF S, choice, op
  <2> QED BY <1>2, <1>4, <1>5, <1>6, FoldExists
<1>8. f = fold(f)
  <2>1. ASSUME NEW s \in SUBSET S, s # {}
        PROVE  f[s] = MoveSlot(p, f[s \ {Max(s)}], seq[Max(s)] - 1)
    <3>1. choice[s] = Max(s) /\ Max(s) \in S /\ seq[Max(s)] = Max(s)
      BY <1>3, <2>1
    <3>2. f[s \ {Max(s)}] \in Owners
      BY <1>7 DEF Folds
    <3>3. f[s] = op[<<choice[s], f[s \ {choice[s]}]>>]
      <4> HIDE DEF op, choice
      <4> QED BY <1>7, <2>1 DEF Folds
    <3>4. op[<<Max(s), f[s \ {Max(s)}]>>] = MoveSlot(p, f[s \ {Max(s)}], Max(s) - 1)
      BY <3>1, <3>2
    <3> HIDE DEF op, choice
    <3> QED BY <3>1, <3>3, <3>4
  <2>2. f[{}] = Taken(p) /\ f = [s \in SUBSET S |-> f[s]]
    <3> HIDE DEF op, choice
    <3> QED BY <1>7 DEF Folds
  <2> HIDE DEF S, seq
  <2> QED BY <2>1, <2>2
<1>9. iter = fold(iter)
  BY <1>8
<1> DEFINE m == [n \in 0 .. TradedCount |-> iter[1 .. n]]
<1>10. m[0] = Taken(p)
  <2>1. 1 .. 0 = {} /\ m[0] = iter[1 .. 0]
    BY <1>2
  <2> HIDE DEF iter, m
  <2> QED BY <1>9, <2>1
<1>11. ASSUME NEW n \in 1 .. TradedCount PROVE m[n] = MoveSlot(p, m[n - 1], n - 1)
  <2>1. 1 .. n \in SUBSET S /\ 1 .. n # {} /\ (1 .. n) \ {n} = 1 .. n - 1
    <3> HIDE DEF choice, op, iter, m, fold, seq
    <3> QED BY <1>2, IntervalWithoutLast
  <2>2. Max(1 .. n) = n
    BY <1>3, <2>1
  <2>3. m[n] = iter[1 .. n] /\ m[n - 1] = iter[1 .. n - 1]
    BY <1>2
  <2>4. seq[n] = n
    OBVIOUS
  <2>5. \A s \in SUBSET S : s # {} => iter[s] = MoveSlot(p, iter[s \ {Max(s)}], seq[Max(s)] - 1)
    <3> HIDE DEF iter, seq, S
    <3> QED BY <1>9
  <2>6. iter[1 .. n] = MoveSlot(p, iter[(1 .. n) \ {Max(1 .. n)}], seq[Max(1 .. n)] - 1)
    <3> HIDE DEF iter, seq, S
    <3> QED BY <2>1, <2>5
  <2> HIDE DEF iter, m, seq, S
  <2> QED BY <2>1, <2>2, <2>3, <2>4, <2>6
<1>12. m \in [0 .. TradedCount -> Owners]
  <2> DEFINE P == {n \in 0 .. TradedCount : m[n] \in Owners}
  <2> HIDE DEF m
  <2>1. 0 \in P
    BY <1>2, <1>6, <1>10
  <2>2. \A n \in 1 .. TradedCount : n - 1 \in P => n \in P
    BY <1>2, <1>11, MoveSlotType
  <2>3. \A n \in 0 .. TradedCount : n \in P
    <3> HIDE DEF P
    <3> QED BY <1>2, <2>1, <2>2, EveryNumber
  <2> QED BY <2>3 DEF m
<1>13. moveItems(p) = m[TradedCount]
  BY <1>1, <1>2
<1> HIDE DEF m
<1> QED BY <1>10, <1>11, <1>12, <1>13

\* No item is twice in a window.
DistinctInv ==
    \A p \in Players, s, u \in Slots :
        trade[p].items[s] = trade[p].items[u] /\ trade[p].items[s] # NoItem => s = u

\* The items in the first n slots of x, and who has which item when these have
\* been exchanged.
OfferedBelow(x, n) == {GetItem(trade, x, s) : s \in 0 .. n - 1} \ {NoItem}

Exchanged(p, n) ==
    [i \in Items |-> IF i \in OfferedBelow(p, n) THEN trade[p].trader
                     ELSE IF i \in OfferedBelow(trade[p].trader, n) THEN p
                     ELSE Taken(p)[i]]

\* What is offered is in the bag of who offers it, once.
LEMMA OfferedItems ==
    ASSUME TypeOK, DistinctInv, NEW x \in Players
    PROVE  /\ \A s \in Slots : GetItem(trade, x, s) # NoItem =>
                 GetItem(trade, x, s) \in Items /\ owner[GetItem(trade, x, s)] = x
           /\ OfferedBelow(x, 0) = {} /\ OfferedBelow(x, TradedCount) = Offered(trade, x)
           /\ \A n \in 1 .. TradedCount :
                 /\ OfferedBelow(x, n) = OfferedBelow(x, n - 1) \union ({GetItem(trade, x, n - 1)} \ {NoItem})
                 /\ GetItem(trade, x, n - 1) \notin OfferedBelow(x, n - 1)
                 /\ OfferedBelow(x, n) \subseteq Offered(trade, x)
           /\ Offered(trade, x) \subseteq Bag(x)
<1>1. TradedCount \in Nat /\ Slots = 0 .. TradedCount /\ TradedSlots = 0 .. TradedCount - 1
  BY TradeAssumption DEF Slots, TradedSlots
<1>2. trade[x].items \in [Slots -> Items \union {NoItem}]
  BY DEF TypeOK
<1>3. \A s \in Slots : GetItem(trade, x, s) # NoItem =>
          /\ GetItem(trade, x, s) \in Items /\ owner[GetItem(trade, x, s)] = x
          /\ GetItem(trade, x, s) = trade[x].items[s]
  BY <1>2 DEF GetItem
<1>4. OfferedBelow(x, 0) = {} /\ OfferedBelow(x, TradedCount) = Offered(trade, x)
  BY <1>1 DEF OfferedBelow, Offered
<1>5. ASSUME NEW n \in 1 .. TradedCount
      PROVE  /\ OfferedBelow(x, n) = OfferedBelow(x, n - 1) \union ({GetItem(trade, x, n - 1)} \ {NoItem})
             /\ GetItem(trade, x, n - 1) \notin OfferedBelow(x, n - 1)
             /\ OfferedBelow(x, n) \subseteq Offered(trade, x)
  <2>1. 0 .. n - 1 = (0 .. n - 1 - 1) \union {n - 1} /\ n - 1 \in Slots
    BY <1>1
  <2>2. OfferedBelow(x, n) = OfferedBelow(x, n - 1) \union ({GetItem(trade, x, n - 1)} \ {NoItem})
    BY <2>1 DEF OfferedBelow
  <2>3. ASSUME GetItem(trade, x, n - 1) \in OfferedBelow(x, n - 1) PROVE FALSE
    <3>1. PICK s \in 0 .. n - 1 - 1 : GetItem(trade, x, n - 1) = GetItem(trade, x, s)
      BY <2>3 DEF OfferedBelow
    <3>2. GetItem(trade, x, n - 1) # NoItem /\ s \in Slots /\ s # n - 1
      BY <1>1, <2>3 DEF OfferedBelow
    <3> QED BY <1>3, <2>1, <3>1, <3>2 DEF DistinctInv
  <2>4. OfferedBelow(x, n) \subseteq Offered(trade, x)
    BY <1>1 DEF OfferedBelow, Offered
  <2> QED BY <2>2, <2>3, <2>4
<1>6. Offered(trade, x) \subseteq Bag(x)
  <2>1. TradedSlots \subseteq Slots
    BY <1>1
  <2> QED BY <1>3, <2>1 DEF Offered, Bag
<1> QED BY <1>3, <1>4, <1>5, <1>6

\* The items of x; and what a slot does when everything fits.
Has(o, x) == {i \in Items : o[i] = x}

Swapped(p, o, slot) ==
    [i \in Items |-> IF i = GetItem(trade, p, slot) THEN trade[p].trader
                     ELSE IF i = GetItem(trade, trade[p].trader, slot) THEN p
                     ELSE o[i]]

\* A slot whose items fit changes hands.
LEMMA MoveSlotFits ==
    ASSUME NEW p \in Players, NEW o \in Owners, NEW slot,
           GetItem(trade, p, slot) # GetItem(trade, trade[p].trader, slot) \/ GetItem(trade, p, slot) = NoItem,
           GetItem(trade, p, slot) # NoItem => Cardinality(Has(o, trade[p].trader)) < BagSize,
           GetItem(trade, trade[p].trader, slot) # NoItem => Cardinality(Has(o, p)) < BagSize
    PROVE  MoveSlot(p, o, slot) = Swapped(p, o, slot)
<1> DEFINE other == trade[p].trader
           mine  == GetItem(trade, p, slot)
           his   == GetItem(trade, other, slot)
           fits(x) == Cardinality({i \in Items : o[i] = x}) < BagSize
           both == (mine = NoItem \/ fits(other)) /\ (his = NoItem \/ fits(p))
           to(x, y) == IF both THEN y ELSE IF fits(x) THEN x ELSE Nobody
<1>1. MoveSlot(p, o, slot) =
          [i \in Items |-> CASE i = mine -> to(p, other) [] i = his -> to(other, p) [] OTHER -> o[i]]
  BY DEF MoveSlot
<1>2. to(p, other) = other /\ to(other, p) = p
  BY DEF Has
<1>3. CASE mine # his
  <2> HIDE DEF to
  <2> QED BY <1>1, <1>2, <1>3 DEF Swapped
<1>4. CASE mine = his
  <2>1. \A i \in Items : i # mine /\ i # his
    BY <1>4, NullAssumption
  <2> HIDE DEF to
  <2> QED BY <1>1, <2>1 DEF Swapped
<1> QED BY <1>3, <1>4

\* What CanStoreItems has counted: the bag of y after the exchange.
LEMMA BagFits ==
    ASSUME TypeOK, DistinctInv, NEW x \in Players, NEW y \in Players,
           CanStoreItems(y, Offered(trade, x))
    PROVE  /\ IsFiniteSet((Bag(y) \ Offered(trade, y)) \union Offered(trade, x))
           /\ Cardinality((Bag(y) \ Offered(trade, y)) \union Offered(trade, x)) <= BagSize
<1> DEFINE kept == Bag(y) \ Offered(trade, y)
<1>1. IsFiniteSet(kept) /\ IsFiniteSet(Offered(trade, x))
  <2>1. kept \in SUBSET Items /\ Offered(trade, x) \in SUBSET Items
    BY OfferedItems DEF Bag
  <2> HIDE DEF kept
  <2> QED BY <2>1, FS_Subset, TradeAssumption
<1>2. Cardinality(kept) + Cardinality(Offered(trade, x)) <= BagSize /\ BagSize \in Nat
  BY TradeAssumption DEF CanStoreItems
<1> HIDE DEF kept
<1>3. /\ IsFiniteSet(kept \union Offered(trade, x))
      /\ Cardinality(kept \union Offered(trade, x)) =
            Cardinality(kept) + Cardinality(Offered(trade, x)) - Cardinality(kept \cap Offered(trade, x))
  BY <1>1, FS_Union
<1>4. /\ Cardinality(kept) \in Nat /\ Cardinality(Offered(trade, x)) \in Nat
      /\ Cardinality(kept \cap Offered(trade, x)) \in Nat
  BY <1>1, FS_CardinalityType, FS_Intersection
<1> QED BY <1>2, <1>3, <1>4 DEF kept

\* At every slot there is room: what a bag holds then, and what comes, are
\* part of what CanStoreItems has counted.
LEMMA RoomAtSlot ==
    ASSUME TypeOK, DistinctInv, NEW x \in Players, NEW y \in Players, x # y,
           CanStoreItems(y, Offered(trade, x)), NEW n \in 1 .. TradedCount,
           GetItem(trade, x, n - 1) # NoItem,
           NEW B, B = (Bag(y) \ Offered(trade, y)) \union OfferedBelow(x, n - 1)
    PROVE  Cardinality(B) < BagSize
<1> DEFINE kept == Bag(y) \ Offered(trade, y)
           i    == GetItem(trade, x, n - 1)
           all  == kept \union Offered(trade, x)
<1>1. /\ i \in Items /\ owner[i] = x /\ i \in Offered(trade, x) /\ i \notin OfferedBelow(x, n - 1)
      /\ OfferedBelow(x, n - 1) \subseteq Offered(trade, x) /\ Offered(trade, x) \subseteq Bag(x)
  <2>1. n - 1 \in Slots
    BY TradeAssumption DEF Slots
  <2> QED BY <2>1, OfferedItems
<1>2. i \notin B /\ B \union {i} \subseteq all
  BY <1>1 DEF Bag
<1>4. IsFiniteSet(all) /\ Cardinality(all) <= BagSize
  BY BagFits
<1>5. IsFiniteSet(B) /\ Cardinality(B \union {i}) <= Cardinality(all) /\ Cardinality(B) \in Nat
  <2>1. B \in SUBSET all /\ B \union {i} \in SUBSET all
    BY <1>2
  <2> HIDE DEF all, i
  <2> QED BY <1>4, <2>1, FS_Subset, FS_CardinalityType
<1>6. Cardinality(B \union {i}) = Cardinality(B) + 1
  <2> HIDE DEF i
  <2> QED BY <1>2, <1>5, FS_AddElement
<1>7. Cardinality(all) \in Nat /\ BagSize \in Nat
  <2> HIDE DEF all
  <2> QED BY <1>4, FS_CardinalityType, TradeAssumption
<1> HIDE DEF all, i
<1> QED BY <1>4, <1>5, <1>6, <1>7

\* The exchange as one step: all that p offers goes to his partner, all that
\* the partner offers goes to p, and nothing else changes hands.
LEMMA ExchangeIsWhole ==
    ASSUME TypeOK, DistinctInv, NEW p \in Players, trade[p].trader \in Players \ {p},
           CanStoreItems(p, Offered(trade, trade[p].trader)),
           CanStoreItems(trade[p].trader, Offered(trade, p))
    PROVE  moveItems(p) =
              [i \in Items |-> IF i \in Offered(trade, p) THEN trade[p].trader
                               ELSE IF i \in Offered(trade, trade[p].trader) THEN p
                               ELSE owner[i]]
<1> DEFINE other == trade[p].trader
<1>1. owner \in Owners /\ TradedCount \in Nat
  BY TradeAssumption DEF TypeOK, Owners
<1>2. PICK m \in [0 .. TradedCount -> Owners] :
              /\ m[0] = Taken(p)
              /\ \A n \in 1 .. TradedCount : m[n] = MoveSlot(p, m[n - 1], n - 1)
              /\ moveItems(p) = m[TradedCount]
  BY <1>1, MoveItemsSteps
<1> DEFINE P == {n \in 0 .. TradedCount : m[n] = Exchanged(p, n)}
<1>3. /\ OfferedBelow(p, 0) = {} /\ OfferedBelow(p, TradedCount) = Offered(trade, p)
      /\ OfferedBelow(other, 0) = {} /\ OfferedBelow(other, TradedCount) = Offered(trade, other)
      /\ Offered(trade, p) \subseteq Bag(p) /\ Offered(trade, other) \subseteq Bag(other)
  BY OfferedItems
<1>4. Taken(p) \in [Items -> Players \union {Nobody}]
  BY DEF Taken, TypeOK
<1>5. 0 \in P
  BY <1>1, <1>2, <1>3, <1>4 DEF Exchanged
<1>6. ASSUME NEW n \in 1 .. TradedCount, n - 1 \in P PROVE n \in P
  <2> DEFINE o    == Exchanged(p, n - 1)
             mine == GetItem(trade, p, n - 1)
             his  == GetItem(trade, other, n - 1)
  <2>1. m[n - 1] = o /\ o \in Owners /\ m[n] = MoveSlot(p, o, n - 1)
    BY <1>1, <1>2, <1>6
  <2>2. /\ mine # NoItem => mine \in Items /\ owner[mine] = p
        /\ his # NoItem => his \in Items /\ owner[his] = other
        /\ OfferedBelow(p, n) = OfferedBelow(p, n - 1) \union ({mine} \ {NoItem})
        /\ OfferedBelow(other, n) = OfferedBelow(other, n - 1) \union ({his} \ {NoItem})
        /\ mine \notin OfferedBelow(p, n - 1) /\ his \notin OfferedBelow(other, n - 1)
        /\ OfferedBelow(p, n) \subseteq Offered(trade, p)
        /\ OfferedBelow(other, n) \subseteq Offered(trade, other)
    <3>1. n - 1 \in Slots
      BY <1>1 DEF Slots
    <3> QED BY <3>1, OfferedItems
  <2>3. \A i \in Items : /\ i \in Offered(trade, p) => owner[i] = p
                         /\ i \in Offered(trade, other) => owner[i] = other
    BY <1>3 DEF Bag
  <2>4. \A i \in Items : o[i] = IF i \in OfferedBelow(p, n - 1) THEN other
                                ELSE IF i \in OfferedBelow(other, n - 1) THEN p
                                ELSE IF i \in Offered(trade, p) \/ i \in Offered(trade, other)
                                     THEN Nobody ELSE owner[i]
    BY DEF Exchanged, Taken, InHand
  <2>5. Has(o, other) = (Bag(other) \ Offered(trade, other)) \union OfferedBelow(p, n - 1)
    <3> HIDE DEF o
    <3> QED BY <1>3, <2>2, <2>3, <2>4, NullAssumption DEF Bag, Has
  <2>6. Has(o, p) = (Bag(p) \ Offered(trade, p)) \union OfferedBelow(other, n - 1)
    <3> HIDE DEF o
    <3> QED BY <1>3, <2>2, <2>3, <2>4, NullAssumption DEF Bag, Has
  <2>7. mine # NoItem => Cardinality(Has(o, other)) < BagSize
    <3> HIDE DEF o
    <3> QED BY <2>5, RoomAtSlot
  <2>8. his # NoItem => Cardinality(Has(o, p)) < BagSize
    <3> HIDE DEF o
    <3> QED BY <2>6, RoomAtSlot
  <2>9. MoveSlot(p, o, n - 1) = Swapped(p, o, n - 1)
    <3>1. mine # his \/ mine = NoItem
      BY <2>2
    <3> HIDE DEF o
    <3>2. o \in Owners
      BY <2>1
    <3> QED BY <2>7, <2>8, <3>1, <3>2, MoveSlotFits
  <2>10. ASSUME NEW i \in Items
         PROVE  Swapped(p, o, n - 1)[i] = Exchanged(p, n)[i]
    <3>1. Exchanged(p, n)[i] = IF i \in OfferedBelow(p, n) THEN other
                               ELSE IF i \in OfferedBelow(other, n) THEN p
                               ELSE IF i \in Offered(trade, p) \/ i \in Offered(trade, other)
                                    THEN Nobody ELSE owner[i]
      BY DEF Exchanged, Taken, InHand
    <3>2. i # NoItem
      BY NullAssumption
    <3>3. i \in OfferedBelow(p, n) <=> i \in OfferedBelow(p, n - 1) \/ i = mine
      BY <2>2, <3>2
    <3>4. i \in OfferedBelow(other, n) <=> i \in OfferedBelow(other, n - 1) \/ i = his
      BY <2>2, <3>2
    <3>5. i \in OfferedBelow(p, n) => i # his /\ i \notin OfferedBelow(other, n)
      BY <2>2, <2>3, <3>2
    <3>6. Swapped(p, o, n - 1)[i] = IF i = mine THEN other ELSE IF i = his THEN p ELSE o[i]
      BY DEF Swapped
    <3> HIDE DEF o, mine, his
    <3> QED BY <2>4, <3>1, <3>3, <3>4, <3>5, <3>6
  <2>11. /\ Exchanged(p, n) = [i \in Items |-> Exchanged(p, n)[i]]
         /\ Swapped(p, o, n - 1) = [i \in Items |-> Swapped(p, o, n - 1)[i]]
    BY DEF Exchanged, Swapped
  <2>12. m[n] = Exchanged(p, n)
    <3> HIDE DEF o, mine, his
    <3> QED BY <2>1, <2>9, <2>10, <2>11
  <2> QED BY <1>1, <2>12
<1>7. m[TradedCount] = Exchanged(p, TradedCount)
  <2> HIDE DEF P
  <2>1. \A n \in 0 .. TradedCount : n \in P
    BY <1>1, <1>5, <1>6, EveryNumber
  <2> QED BY <1>1, <2>1 DEF P
<1> QED BY <1>2, <1>3, <1>7 DEF Exchanged, Taken, InHand

-----------------------------------------------------------------------------
(* The setters of TradeData. *)

TradeDatas ==
    [trader : Players \union {Nobody}, accepted : BOOLEAN, recent : BOOLEAN,
     money : 0 .. MaxMoney, spell : BOOLEAN, items : [Slots -> Items \union {NoItem}]]

\* Two players trade with each other in t.
Partners(t, p, o) ==
    p \in Players /\ o \in Players /\ p # o /\ t[p].trader = o /\ t[o].trader = p

\* u differs from t in the trade of p and o, and where a window changes, nobody
\* counts as having accepted in u.
Changed(t, u, p, o) ==
    /\ u \in [Players -> TradeDatas]
    /\ Partners(u, p, o)
    /\ \A q \in Players \ {p, o} : u[q] = t[q]
    /\ \A q \in {p, o} : u[q].accepted =>
          t[q].accepted /\ Window(u, p) = Window(t, p) /\ Window(u, o) = Window(t, o)

SameItems(t, u) == \A q \in Players : u[q].items = t[q].items

LEMMA ChangedTwice ==
    ASSUME NEW t, NEW u, NEW v, NEW p, NEW o, Changed(t, u, p, o), Changed(u, v, p, o)
    PROVE  Changed(t, v, p, o)
BY DEF Changed

\* Taking both acceptances back.
LEMMA UnacceptedBoth ==
    ASSUME NEW t \in [Players -> TradeDatas], NEW p, NEW o, Partners(t, p, o)
    PROVE  /\ Unaccepted(t, p) \in [Players -> TradeDatas]
           /\ \A q \in Players : Unaccepted(t, p)[q] =
                 IF q \in {p, o} THEN [t[q] EXCEPT !.accepted = FALSE] ELSE t[q]
<1>1. Unaccepted(t, p) = [t EXCEPT ![p].accepted = FALSE, ![o].accepted = FALSE]
  BY DEF Unaccepted, Partners
<1>2. p \in Players /\ o \in Players /\ p # o
  BY DEF Partners
<1>3. \A e \in TradeDatas : [e EXCEPT !.accepted = FALSE] \in TradeDatas
  BY DEF TradeDatas
<1>4. \A q \in Players : Unaccepted(t, p)[q] =
          IF q \in {p, o} THEN [t[q] EXCEPT !.accepted = FALSE] ELSE t[q]
  BY <1>1, <1>2
<1>5. Unaccepted(t, p) = [q \in Players |-> Unaccepted(t, p)[q]]
  BY <1>1
<1>6. \A q \in Players : Unaccepted(t, p)[q] \in TradeDatas
  BY <1>3, <1>4
<1> QED BY <1>4, <1>5, <1>6

\* A window of p that is replaced while both acceptances are taken back.
Replaced(t, p, d) == [t EXCEPT ![p] = d]

LEMMA ReplacedChanges ==
    ASSUME NEW t \in [Players -> TradeDatas], NEW p, NEW o, Partners(t, p, o),
           NEW d \in TradeDatas, d.trader = o
    PROVE  /\ Changed(t, Unaccepted(Replaced(t, p, d), p), p, o)
           /\ \A q \in Players : Unaccepted(Replaced(t, p, d), p)[q].items =
                 IF q = p THEN d.items ELSE t[q].items
<1> DEFINE set == Replaced(t, p, d)
<1>1. set \in [Players -> TradeDatas] /\ Partners(set, p, o)
  BY DEF Partners, Replaced
<1>5. \A q \in Players : set[q] = IF q = p THEN d ELSE t[q]
  BY DEF Partners, Replaced
<1> HIDE DEF set
<1>2. /\ Unaccepted(set, p) \in [Players -> TradeDatas]
      /\ \A q \in Players : Unaccepted(set, p)[q] =
            IF q \in {p, o} THEN [set[q] EXCEPT !.accepted = FALSE] ELSE set[q]
  BY <1>1, UnacceptedBoth
<1>3. \A e \in TradeDatas : /\ [e EXCEPT !.accepted = FALSE] \in TradeDatas
                            /\ [e EXCEPT !.accepted = FALSE].accepted = FALSE
                            /\ [e EXCEPT !.accepted = FALSE].trader = e.trader
                            /\ [e EXCEPT !.accepted = FALSE].items = e.items
  BY DEF TradeDatas
<1> DEFINE u == Unaccepted(set, p)
<1>4. /\ u \in [Players -> TradeDatas]
      /\ \A q \in Players : u[q].trader = set[q].trader /\ u[q].items = set[q].items
      /\ \A q \in Players \ {p, o} : u[q] = set[q]
      /\ \A q \in {p, o} : u[q].accepted = FALSE
  <2>1. u \in [Players -> TradeDatas] /\ set \in [Players -> TradeDatas]
    BY <1>1, <1>2
  <2>2. \A q \in Players \ {p, o} : u[q] = set[q]
    BY <1>2
  <2>3. ASSUME NEW q \in {p, o} PROVE u[q] = [set[q] EXCEPT !.accepted = FALSE] /\ set[q] \in TradeDatas
    BY <1>1, <1>2 DEF Partners
  <2>4. \A q \in {p, o} : /\ u[q].accepted = FALSE
                          /\ u[q].trader = set[q].trader /\ u[q].items = set[q].items
    <3> HIDE DEF u
    <3> TAKE q \in {p, o}
    <3>1. PICK e \in TradeDatas : e = set[q] /\ u[q] = [e EXCEPT !.accepted = FALSE]
      BY <2>3
    <3> QED BY <1>3, <3>1
  <2> HIDE DEF u
  <2> QED BY <2>1, <2>2, <2>4
<1>6. Changed(t, u, p, o)
  <2> HIDE DEF u
  <2> QED BY <1>1, <1>4, <1>5 DEF Changed, Partners
<1>7. \A q \in Players : u[q].items = IF q = p THEN d.items ELSE t[q].items
  BY <1>4, <1>5
<1> QED BY <1>6, <1>7 DEF set

LEMMA SetSpellChanges ==
    ASSUME NEW t \in [Players -> TradeDatas], NEW p, NEW o, Partners(t, p, o),
           NEW spell \in BOOLEAN
    PROVE  Changed(t, SetSpell(t, p, spell), p, o) /\ SameItems(t, SetSpell(t, p, spell))
<1> DEFINE d   == [t[p] EXCEPT !.spell = spell]
           set == Replaced(t, p, d)
<1>1. d \in TradeDatas /\ d.trader = o /\ d.items = t[p].items
  BY DEF TradeDatas, Partners
<1>2. [t EXCEPT ![p].spell = spell] = set
  BY DEF Partners, Replaced
<1>3. /\ Changed(t, Unaccepted(set, p), p, o)
      /\ \A q \in Players : Unaccepted(set, p)[q].items = IF q = p THEN d.items ELSE t[q].items
  <2> HIDE DEF d
  <2> QED BY <1>1, ReplacedChanges
<1>4. SetSpell(t, p, spell) \in {t, Unaccepted(set, p)}
  BY <1>2 DEF SetSpell
<1> HIDE DEF d, set
<1> QED BY <1>1, <1>3, <1>4 DEF Changed, SameItems

LEMMA SetMoneyChanges ==
    ASSUME NEW t \in [Players -> TradeDatas], NEW p, NEW o, Partners(t, p, o),
           NEW gold \in 0 .. MaxMoney
    PROVE  Changed(t, SetMoney(t, p, gold), p, o) /\ SameItems(t, SetMoney(t, p, gold))
<1> DEFINE d   == [t[p] EXCEPT !.money = gold]
           set == Replaced(t, p, d)
<1>1. d \in TradeDatas /\ d.trader = o /\ d.items = t[p].items
  BY DEF TradeDatas, Partners
<1>2. [t EXCEPT ![p].money = gold] = set
  BY DEF Partners, Replaced
<1>3. /\ Changed(t, Unaccepted(set, p), p, o)
      /\ \A q \in Players : Unaccepted(set, p)[q].items = IF q = p THEN d.items ELSE t[q].items
  <2> HIDE DEF d
  <2> QED BY <1>1, ReplacedChanges
<1>4. SetMoney(t, p, gold) \in {t, Unaccepted(set, p)}
  BY <1>2 DEF SetMoney
<1> HIDE DEF d, set
<1> QED BY <1>1, <1>3, <1>4 DEF Changed, SameItems

\* u differs from t in the items of p in one slot.
OneItem(t, u, p, slot, item) ==
    \A q \in Players : u[q].items = IF q = p THEN [t[p].items EXCEPT ![slot] = item] ELSE t[q].items

\* Setting an item also takes back spells, which changes no item.
LEMMA SetItemChanges ==
    ASSUME NEW t \in [Players -> TradeDatas], NEW p, NEW o, Partners(t, p, o),
           NEW slot \in Slots, NEW item \in Items \union {NoItem}
    PROVE  /\ Changed(t, SetItem(t, p, slot, item), p, o)
           /\ OneItem(t, SetItem(t, p, slot, item), p, slot, item)
<1> DEFINE d       == [t[p] EXCEPT !.items[slot] = item]
           set     == [t EXCEPT ![p].items[slot] = item]
           changed == Unaccepted(set, p)
           aimed   == IF slot = NonTraded THEN SetSpell(changed, t[p].trader, FALSE) ELSE changed
           result  == SetSpell(aimed, p, FALSE)
           items(u) == \A q \in Players : u[q].items =
                          IF q = p THEN [t[p].items EXCEPT ![slot] = item] ELSE t[q].items
<1>1. CASE t[p].items[slot] = item
  <2>1. SetItem(t, p, slot, item) = t
    BY <1>1 DEF SetItem
  <2>2. [t[p].items EXCEPT ![slot] = item] = t[p].items
    BY <1>1 DEF Partners, TradeDatas
  <2> QED BY <2>1, <2>2 DEF Changed, Partners, OneItem
<1>2. CASE t[p].items[slot] # item
  <2>1. d \in TradeDatas /\ d.trader = o /\ d.items = [t[p].items EXCEPT ![slot] = item]
    BY DEF TradeDatas, Partners
  <2>2. set = Replaced(t, p, d)
    BY DEF Partners, Replaced
  <2>3. Changed(t, changed, p, o) /\ items(changed)
    <3>1. /\ Changed(t, Unaccepted(set, p), p, o)
          /\ \A q \in Players : Unaccepted(set, p)[q].items = IF q = p THEN d.items ELSE t[q].items
      <4> HIDE DEF d, set
      <4> QED BY <2>1, <2>2, ReplacedChanges
    <3> HIDE DEF d, set
    <3> QED BY <2>1, <3>1
  <2>4. Changed(changed, aimed, p, o) /\ SameItems(changed, aimed)
    <3>1. CASE slot = NonTraded
      <4>1. Changed(changed, SetSpell(changed, o, FALSE), o, p) /\ SameItems(changed, SetSpell(changed, o, FALSE))
        <5> HIDE DEF changed
        <5>1. changed \in [Players -> TradeDatas] /\ Partners(changed, o, p)
          BY <2>3 DEF Changed, Partners
        <5> QED BY <5>1, SetSpellChanges
      <4>2. t[p].trader = o
        BY DEF Partners
      <4> HIDE DEF changed
      <4> QED BY <3>1, <4>1, <4>2 DEF Changed, Partners
    <3>2. CASE slot # NonTraded
      <4> HIDE DEF changed
      <4> QED BY <2>3, <3>2 DEF Changed, SameItems
    <3> QED BY <3>1, <3>2
  <2>5. Changed(aimed, result, p, o) /\ SameItems(aimed, result)
    <3>1. aimed \in [Players -> TradeDatas] /\ Partners(aimed, p, o)
      BY <2>4 DEF Changed
    <3> HIDE DEF aimed
    <3> QED BY <3>1, SetSpellChanges
  <2>6. SetItem(t, p, slot, item) = result
    BY <1>2 DEF SetItem
  <2> HIDE DEF changed, aimed, result
  <2>7. Changed(t, result, p, o)
    BY <2>3, <2>4, <2>5, ChangedTwice
  <2> QED BY <2>3, <2>4, <2>5, <2>6, <2>7 DEF SameItems, OneItem
<1> QED BY <1>1, <1>2

-----------------------------------------------------------------------------
(* The invariant. *)

TradeInv == TypeOK /\ DistinctInv /\ TradesPaired /\ AcceptedIsShown

\* The partner of who trades.
LEMMA Partner ==
    ASSUME TradeInv, NEW p \in Players, Trading(p)
    PROVE  Partners(trade, p, trade[p].trader)
BY DEF TradeInv, TypeOK, TradesPaired, Partners, Trading

\* Whatever a step does to the windows of two partners: the trades stay paired,
\* and whoever counts as having accepted has accepted what is shown.
LEMMA PairedStep ==
    ASSUME TradeInv, NEW p \in Players, NEW o, Partners(trade, p, o), NEW t, NEW pressed \in SUBSET {p},
           t = trade \/ (t = Pressed(p) /\ pressed = {p}),
           NEW u, Changed(t, u, p, o), Put(u, pressed),
           \A q \in {p, o}, a, b \in Slots :
               u[q].items[a] = u[q].items[b] /\ u[q].items[a] # NoItem => a = b
    PROVE  TradesPaired' /\ AcceptedIsShown' /\ DistinctInv' /\ trade' \in [Players -> TradeDatas]
<1>1. trade \in [Players -> TradeDatas]
  BY DEF TradeInv, TypeOK, TradeDatas
<1>2. /\ trade' \in [Players -> TradeDatas] /\ Partners(trade', p, o)
      /\ \A q \in Players \ {p, o} : trade'[q] = trade[q]
      /\ \A q \in {p, o} : trade'[q].accepted => q \in pressed \/
            (trade[q].accepted /\ Window(trade', p) = Window(trade, p) /\ Window(trade', o) = Window(trade, o))
  <2>1. trade' = u
    BY DEF Put
  <2>2. \A q \in Players \ {p, o} : t[q] = trade[q]
    BY <1>1 DEF Pressed, Partners
  <2>3. Window(t, p) = Window(trade, p) /\ Window(t, o) = Window(trade, o) /\ t[o] = trade[o]
        /\ (t[p].accepted => trade[p].accepted \/ p \in pressed)
    BY <1>1 DEF Pressed, Partners, Window, TradeDatas
  <2> QED BY <2>1, <2>2, <2>3 DEF Changed
<1>3. \A q \in Players \ {p, o} : Trading(q) => trade[q].trader \in Players \ {p, o}
  BY DEF TradeInv, TypeOK, TradesPaired, Partners, Trading
<1>4. TradesPaired'
  <2> SUFFICES ASSUME NEW q \in Players, trade'[q].trader # Nobody
               PROVE  LET x == trade'[q].trader IN x # q /\ trade'[x].trader # Nobody /\ trade'[x].trader = q
    BY DEF TradesPaired, Trading
  <2>1. CASE q \in {p, o}
    BY <1>2, <2>1, NullAssumption DEF Partners
  <2>2. CASE q \notin {p, o}
    BY <1>2, <1>3, <2>2 DEF TradeInv, TradesPaired, Trading
  <2> QED BY <2>1, <2>2
<1>5. AcceptedIsShown'
  <2> SUFFICES ASSUME NEW q \in Players, trade'[q].trader # Nobody, trade'[q].accepted
               PROVE  agreed'[q] = <<Window(trade', q), Window(trade', trade'[q].trader)>>
    BY DEF AcceptedIsShown, Trading, Window
  <2>1. agreed'[q] = IF q \in pressed THEN <<Window(trade', q), Window(trade', trade'[q].trader)>>
                     ELSE agreed[q]
    BY DEF Put
  <2>2. CASE q \in {p, o} /\ q \notin pressed
    <3>1. PICK x : trade[q].trader = x /\ trade'[q].trader = x /\ x \in {p, o}
      BY <1>2, <2>2 DEF Partners
    <3>2. Window(trade', q) = Window(trade, q) /\ Window(trade', x) = Window(trade, x) /\ trade[q].accepted
      BY <1>2, <2>2, <3>1
    <3>3. agreed[q] = <<Window(trade, q), Window(trade, x)>>
      BY <3>1, <3>2 DEF TradeInv, AcceptedIsShown, Trading
    <3> QED BY <2>1, <2>2, <3>1, <3>2, <3>3
  <2>3. CASE q \notin {p, o}
    <3>1. PICK x \in Players \ {p, o} : trade[q].trader = x
      BY <1>2, <1>3, <2>3 DEF Trading
    <3>2. trade'[q] = trade[q] /\ trade'[x] = trade[x]
      BY <1>2, <2>3
    <3>3. agreed[q] = <<Window(trade, q), Window(trade, x)>>
      BY <3>1, <3>2 DEF TradeInv, AcceptedIsShown, Trading
    <3> QED BY <2>1, <2>3, <3>1, <3>2, <3>3 DEF Window
  <2> QED BY <2>1, <2>2, <2>3
<1>6. DistinctInv'
  <2>1. ASSUME NEW q \in Players, NEW a \in Slots, NEW b \in Slots,
               trade'[q].items[a] = trade'[q].items[b], trade'[q].items[a] # NoItem
        PROVE  a = b
    <3>1. CASE q \in {p, o}
      BY <2>1, <3>1 DEF Put
    <3>2. CASE q \notin {p, o}
      BY <1>2, <2>1, <3>2 DEF TradeInv, DistinctInv
    <3> QED BY <3>1, <3>2
  <2> QED BY <2>1 DEF DistinctInv
<1> QED BY <1>2, <1>4, <1>5, <1>6

LEMMA TypesOfTrade ==
    ASSUME TypeOK, trade' \in [Players -> TradeDatas], UNCHANGED <<owner, coinage>>
    PROVE  TypeOK'
BY DEF TypeOK, TradeDatas, Bag

\* The step of a handler that only changes the trade of p and his partner.
LEMMA HandlerStep ==
    ASSUME TradeInv, NEW p \in Players, Trading(p), UNCHANGED <<owner, coinage>>,
           NEW t, NEW pressed \in SUBSET {p}, t = trade \/ (t = Pressed(p) /\ pressed = {p}),
           NEW u, Changed(t, u, p, trade[p].trader), Put(u, pressed),
           \A q \in {p, trade[p].trader}, a, b \in Slots :
               u[q].items[a] = u[q].items[b] /\ u[q].items[a] # NoItem => a = b
    PROVE  TradeInv'
<1>1. TradesPaired' /\ AcceptedIsShown' /\ DistinctInv' /\ trade' \in [Players -> TradeDatas]
  BY Partner, PairedStep
<1>2. TypeOK'
  BY <1>1, TypesOfTrade DEF TradeInv
<1> QED BY <1>1, <1>2 DEF TradeInv

\* What a handler finds: two partners, the state of their windows.
LEMMA Facts ==
    ASSUME TradeInv, NEW p \in Players, Trading(p)
    PROVE  /\ trade \in [Players -> TradeDatas] /\ Partners(trade, p, trade[p].trader)
           /\ Pressed(p) \in [Players -> TradeDatas] /\ Partners(Pressed(p), p, trade[p].trader)
           /\ SameItems(trade, Pressed(p))
           /\ \A q \in Players, a, b \in Slots :
                 trade[q].items[a] = trade[q].items[b] /\ trade[q].items[a] # NoItem => a = b
<1>1. trade \in [Players -> TradeDatas]
  BY DEF TradeInv, TypeOK, TradeDatas
<1>2. Partners(trade, p, trade[p].trader)
  BY Partner
<1>3. Pressed(p) = [trade EXCEPT ![p] = [trade[p] EXCEPT !.accepted = TRUE, !.recent = TRUE]]
  BY <1>1 DEF Pressed
<1>4. [trade[p] EXCEPT !.accepted = TRUE, !.recent = TRUE] \in TradeDatas
  BY <1>1 DEF TradeDatas
<1>5. /\ Pressed(p) \in [Players -> TradeDatas] /\ Partners(Pressed(p), p, trade[p].trader)
      /\ SameItems(trade, Pressed(p))
  BY <1>1, <1>2, <1>3, <1>4 DEF Partners, SameItems
<1> QED BY <1>1, <1>2, <1>5 DEF TradeInv, DistinctInv

\* Modified takes back the acceptance of the partner only.
LEMMA ModifiedChanges ==
    ASSUME TradeInv, NEW p \in Players, Trading(p)
    PROVE  /\ Changed(trade, Modified(trade, p), p, trade[p].trader)
           /\ Modified(trade, p) \in [Players -> TradeDatas]
           /\ Partners(Modified(trade, p), p, trade[p].trader)
           /\ SameItems(trade, Modified(trade, p))
<1>1. trade \in [Players -> TradeDatas] /\ Partners(trade, p, trade[p].trader)
  BY Facts
<1> DEFINE o == trade[p].trader
           u == Modified(trade, p)
<1>2. /\ u[p] = [trade[p] EXCEPT !.recent = TRUE]
      /\ u[o] = [trade[o] EXCEPT !.accepted = FALSE, !.recent = TRUE]
      /\ \A q \in Players \ {p, o} : u[q] = trade[q]
      /\ u = [q \in Players |-> u[q]]
  BY <1>1 DEF Modified, Partners
<1>3. \A e \in TradeDatas :
          /\ [e EXCEPT !.recent = TRUE] \in TradeDatas
          /\ [e EXCEPT !.recent = TRUE].trader = e.trader /\ [e EXCEPT !.recent = TRUE].items = e.items
          /\ [e EXCEPT !.recent = TRUE].money = e.money /\ [e EXCEPT !.recent = TRUE].spell = e.spell
          /\ [e EXCEPT !.recent = TRUE].accepted = e.accepted
          /\ [e EXCEPT !.accepted = FALSE, !.recent = TRUE] \in TradeDatas
          /\ [e EXCEPT !.accepted = FALSE, !.recent = TRUE].trader = e.trader
          /\ [e EXCEPT !.accepted = FALSE, !.recent = TRUE].items = e.items
          /\ [e EXCEPT !.accepted = FALSE, !.recent = TRUE].accepted = FALSE
          /\ [e EXCEPT !.accepted = FALSE, !.recent = TRUE].money = e.money
          /\ [e EXCEPT !.accepted = FALSE, !.recent = TRUE].spell = e.spell
  BY DEF TradeDatas
<1>4. PICK d, e \in TradeDatas : d = trade[p] /\ e = trade[o]
  BY <1>1 DEF Partners
<1>5. /\ u[p] \in TradeDatas /\ u[p].trader = d.trader /\ u[p].items = d.items
      /\ u[p].money = d.money /\ u[p].spell = d.spell /\ u[p].accepted = d.accepted
      /\ u[o] \in TradeDatas /\ u[o].trader = e.trader /\ u[o].items = e.items
      /\ u[o].money = e.money /\ u[o].spell = e.spell /\ ~u[o].accepted
  <2>1. u[p] = [d EXCEPT !.recent = TRUE] /\ u[o] = [e EXCEPT !.accepted = FALSE, !.recent = TRUE]
    BY <1>2, <1>4
  <2> HIDE DEF u
  <2> QED BY <1>3, <2>1
<1> HIDE DEF u
<1>6. u \in [Players -> TradeDatas] /\ Partners(u, p, o) /\ SameItems(trade, u)
  BY <1>1, <1>2, <1>4, <1>5 DEF Partners, SameItems
<1>7. Window(u, p) = Window(trade, p) /\ Window(u, o) = Window(trade, o)
  BY <1>4, <1>5 DEF Window
<1>8. Changed(trade, u, p, o)
  BY <1>2, <1>4, <1>5, <1>6, <1>7 DEF Changed
<1> QED BY <1>6, <1>8 DEF u

-----------------------------------------------------------------------------
(* The handlers. *)

\* A new pair of windows: neither player had one, so nobody's partner is lost.
LEMMA InitiateStep ==
    ASSUME TradeInv, NEW p \in Players, NEW other \in Players, HandleInitiateTradeOpcode(p, other)
    PROVE  TradeInv'
<1>1. /\ trade' = [trade EXCEPT ![p] = TradeData(other), ![other] = TradeData(p)]
      /\ other # p /\ trade[p].trader = Nobody /\ trade[other].trader = Nobody
      /\ UNCHANGED <<owner, coinage>>
      /\ \A q \in Players : trade'[q].accepted => agreed'[q] = agreed[q]
  BY DEF HandleInitiateTradeOpcode, Put, Trading
<1>2. trade \in [Players -> TradeDatas]
  BY DEF TradeInv, TypeOK, TradeDatas
<1>3. TradeData(other) \in TradeDatas /\ TradeData(p) \in TradeDatas
  BY TradeAssumption DEF TradeData, TradeDatas
<1>4. trade' \in [Players -> TradeDatas]
  BY <1>1, <1>2, <1>3
<1>5. /\ trade'[p] = TradeData(other) /\ trade'[other] = TradeData(p)
      /\ \A q \in Players \ {p, other} : trade'[q] = trade[q]
  BY <1>1, <1>2
<1>6. \A q \in Players : trade[q].trader # Nobody => trade[q].trader \in Players \ {p, other} /\ q \notin {p, other}
  BY <1>1, <1>2 DEF TradeInv, TradesPaired, Trading, TradeDatas
<1>7. TradesPaired'
  <2> SUFFICES ASSUME NEW q \in Players, trade'[q].trader # Nobody
               PROVE  LET x == trade'[q].trader IN x # q /\ trade'[x].trader # Nobody /\ trade'[x].trader = q
    BY DEF TradesPaired, Trading
  <2>1. trade'[p].trader = other /\ trade'[other].trader = p /\ p # Nobody /\ other # Nobody
    BY <1>5, NullAssumption DEF TradeData
  <2>2. CASE q \in {p, other}
    BY <1>1, <2>1, <2>2
  <2>3. CASE q \notin {p, other}
    BY <1>5, <1>6, <2>3 DEF TradeInv, TradesPaired, Trading
  <2> QED BY <2>2, <2>3
<1>8. AcceptedIsShown'
  <2> SUFFICES ASSUME NEW q \in Players, trade'[q].trader # Nobody, trade'[q].accepted
               PROVE  agreed'[q] = <<Window(trade', q), Window(trade', trade'[q].trader)>>
    BY DEF AcceptedIsShown, Trading, Window
  <2>1. ~trade'[p].accepted /\ ~trade'[other].accepted
    BY <1>5 DEF TradeData
  <2>2. trade'[q] = trade[q] /\ q \notin {p, other}
    BY <1>5, <2>1
  <2>3. PICK x \in Players \ {p, other} : trade[q].trader = x /\ trade'[x] = trade[x]
    BY <1>5, <1>6, <2>2
  <2>4. agreed[q] = <<Window(trade, q), Window(trade, x)>>
    BY <2>2, <2>3 DEF TradeInv, AcceptedIsShown, Trading
  <2> QED BY <1>1, <2>2, <2>3, <2>4 DEF Window
<1>9. DistinctInv'
  <2>1. \A q \in {p, other}, s \in Slots : trade'[q].items[s] = NoItem
    BY <1>5 DEF TradeData
  <2> QED BY <1>5, <2>1 DEF TradeInv, DistinctInv
<1>10. TypeOK'
  BY <1>1, <1>4, TypesOfTrade DEF TradeInv
<1> QED BY <1>7, <1>8, <1>9, <1>10 DEF TradeInv

\* Both windows go at once.
LEMMA ClosedStep ==
    ASSUME TradeInv, NEW p \in Players, Trading(p),
           Put([trade EXCEPT ![p] = NoTrade, ![trade[p].trader] = NoTrade], {})
    PROVE  /\ TradesPaired' /\ AcceptedIsShown' /\ DistinctInv'
           /\ trade' \in [Players -> TradeDatas]
           /\ trade'[p] = NoTrade /\ trade'[trade[p].trader] = NoTrade
           /\ \A q \in Players \ {p, trade[p].trader} : trade'[q] = trade[q]
<1> DEFINE other == trade[p].trader
<1>1. /\ trade' = [trade EXCEPT ![p] = NoTrade, ![other] = NoTrade]
      /\ \A q \in Players : trade'[q].accepted => agreed'[q] = agreed[q]
  BY DEF Put
<1>2. trade \in [Players -> TradeDatas] /\ Partners(trade, p, other)
  BY Facts
<1>3. NoTrade \in TradeDatas /\ NoTrade.trader = Nobody /\ ~NoTrade.accepted
      /\ \A s \in Slots : NoTrade.items[s] = NoItem
  BY TradeAssumption DEF NoTrade, TradeData, TradeDatas
<1>4. /\ trade' \in [Players -> TradeDatas]
      /\ trade'[p] = NoTrade /\ trade'[other] = NoTrade
      /\ \A q \in Players \ {p, other} : trade'[q] = trade[q]
  BY <1>1, <1>2, <1>3 DEF Partners
<1>5. \A q \in Players \ {p, other} : trade[q].trader # Nobody => trade[q].trader \in Players \ {p, other}
  BY <1>2 DEF TradeInv, TradesPaired, Trading, TradeDatas, Partners
<1>6. TradesPaired'
  BY <1>2, <1>3, <1>4, <1>5 DEF TradeInv, TradesPaired, Trading
<1>7. AcceptedIsShown'
  <2> SUFFICES ASSUME NEW q \in Players, trade'[q].trader # Nobody, trade'[q].accepted
               PROVE  agreed'[q] = <<Window(trade', q), Window(trade', trade'[q].trader)>>
    BY DEF AcceptedIsShown, Trading, Window
  <2>1. trade'[q] = trade[q] /\ q \in Players \ {p, other}
    BY <1>3, <1>4
  <2>2. PICK x \in Players \ {p, other} : trade[q].trader = x /\ trade'[x] = trade[x]
    BY <1>4, <1>5, <2>1
  <2>3. agreed[q] = <<Window(trade, q), Window(trade, x)>>
    BY <2>1, <2>2 DEF TradeInv, AcceptedIsShown, Trading
  <2> QED BY <1>1, <2>1, <2>2, <2>3 DEF Window
<1>8. DistinctInv'
  BY <1>3, <1>4 DEF TradeInv, DistinctInv
<1> QED BY <1>4, <1>6, <1>7, <1>8

LEMMA CancelStep ==
    ASSUME TradeInv, NEW p \in Players, TradeCancel(p)
    PROVE  TradeInv'
<1>1. TradesPaired' /\ AcceptedIsShown' /\ DistinctInv' /\ trade' \in [Players -> TradeDatas]
  BY ClosedStep DEF TradeCancel
<1>2. TypeOK'
  BY <1>1, TypesOfTrade DEF TradeInv, TradeCancel
<1> QED BY <1>1, <1>2 DEF TradeInv

\* The windows in which no item is twice.
LEMMA StillDistinct ==
    ASSUME TradeInv, NEW p \in Players, Trading(p), NEW u, SameItems(trade, u)
    PROVE  \A q \in {p, trade[p].trader}, a, b \in Slots :
               u[q].items[a] = u[q].items[b] /\ u[q].items[a] # NoItem => a = b
BY Facts DEF SameItems, Partners

LEMMA OneUnaccepted ==
    ASSUME NEW t \in [Players -> TradeDatas], NEW p, NEW o, Partners(t, p, o), NEW q \in {p, o}
    PROVE  Changed(t, [t EXCEPT ![q].accepted = FALSE], p, o)
           /\ SameItems(t, [t EXCEPT ![q].accepted = FALSE])
<1> DEFINE u == [t EXCEPT ![q].accepted = FALSE]
<1>1. PICK e \in TradeDatas : e = t[q] /\ q \in Players
  BY DEF Partners
<1>2. u[q] = [e EXCEPT !.accepted = FALSE] /\ (\A x \in Players \ {q} : u[x] = t[x])
      /\ u = [x \in Players |-> u[x]]
  BY <1>1
<1>3. /\ u[q] \in TradeDatas /\ ~u[q].accepted /\ u[q].trader = e.trader /\ u[q].items = e.items
      /\ u[q].money = e.money /\ u[q].spell = e.spell
  <2> HIDE DEF u
  <2> QED BY <1>2 DEF TradeDatas
<1> HIDE DEF u
<1>4. u \in [Players -> TradeDatas] /\ Partners(u, p, o) /\ SameItems(t, u)
  BY <1>1, <1>2, <1>3 DEF Partners, SameItems
<1>5. Window(u, p) = Window(t, p) /\ Window(u, o) = Window(t, o)
  BY <1>1, <1>2, <1>3 DEF Window, Partners
<1> QED BY <1>1, <1>2, <1>3, <1>4, <1>5 DEF Changed, Partners, u

LEMMA GoldStep ==
    ASSUME TradeInv, NEW p \in Players, NEW gold \in 0 .. MaxMoney, HandleSetTradeGoldOpcode(p, gold)
    PROVE  TradeInv'
<1> DEFINE u == SetMoney(Modified(trade, p), p, gold)
<1>1. Trading(p) /\ UNCHANGED <<owner, coinage>> /\ Put(u, {})
  BY DEF HandleSetTradeGoldOpcode
<1>2. Changed(trade, u, p, trade[p].trader) /\ SameItems(trade, u)
  BY <1>1, ModifiedChanges, SetMoneyChanges, ChangedTwice DEF SameItems
<1> HIDE DEF u
<1> QED BY <1>1, <1>2, StillDistinct, HandlerStep

\* An item comes into a slot only when it is in none; a cleared slot is empty.
LEMMA ItemStep ==
    ASSUME TradeInv, NEW p \in Players, Trading(p), UNCHANGED <<owner, coinage>>,
           NEW slot \in Slots, NEW item \in Items \union {NoItem},
           item = NoItem \/ \A s \in Slots : trade[p].items[s] # item,
           Put(SetItem(Modified(trade, p), p, slot, item), {})
    PROVE  TradeInv'
<1> DEFINE u == SetItem(Modified(trade, p), p, slot, item)
<1> DEFINE m == Modified(trade, p)
           o == trade[p].trader
<1>5. Changed(trade, m, p, o) /\ SameItems(trade, m)
  BY ModifiedChanges
<1>6. m \in [Players -> TradeDatas] /\ Partners(m, p, o)
  BY <1>5 DEF Changed
<1>7. Changed(m, u, p, o) /\ OneItem(m, u, p, slot, item)
  <2> HIDE DEF m, o
  <2>1. /\ Changed(m, SetItem(m, p, slot, item), p, o)
        /\ OneItem(m, SetItem(m, p, slot, item), p, slot, item)
    BY <1>6, SetItemChanges
  <2> QED BY <2>1 DEF m
<1> HIDE DEF m, u
<1>1. Changed(trade, u, p, trade[p].trader)
  BY <1>5, <1>7, ChangedTwice
<1>2. \A q \in Players : u[q].items = IF q = p THEN [trade[p].items EXCEPT ![slot] = item] ELSE trade[q].items
  BY <1>5, <1>7 DEF SameItems, OneItem
<1>3. ASSUME NEW q \in {p, trade[p].trader}, NEW a \in Slots, NEW b \in Slots,
             u[q].items[a] = u[q].items[b], u[q].items[a] # NoItem
      PROVE  a = b
  <2>1. q \in Players /\ trade[p].items \in [Slots -> Items \union {NoItem}]
    BY Facts DEF Partners, TradeDatas
  <2>2. CASE q = p
    BY <1>2, <1>3, <2>1, <2>2, Facts
  <2>3. CASE q # p
    BY <1>2, <1>3, <2>1, <2>3, Facts
  <2> QED BY <2>2, <2>3
<1>4. Put(u, {})
  BY DEF u
<1> QED BY <1>1, <1>3, <1>4, HandlerStep

LEMMA CastStep ==
    ASSUME TradeInv, NEW p \in Players, CastOnTradeItem(p)
    PROVE  TradeInv'
<1> DEFINE u == SetSpell(trade, p, TRUE)
<1>1. Trading(p) /\ UNCHANGED <<owner, coinage>> /\ Put(u, {})
  BY DEF CastOnTradeItem
<1>2. Changed(trade, u, p, trade[p].trader) /\ SameItems(trade, u)
  BY <1>1, Facts, SetSpellChanges
<1> HIDE DEF u
<1> QED BY <1>1, <1>2, StillDistinct, HandlerStep

LEMMA UnacceptStep ==
    ASSUME TradeInv, NEW p \in Players, HandleUnacceptTradeOpcode(p)
    PROVE  TradeInv'
<1> DEFINE u == [trade EXCEPT ![p].accepted = FALSE]
<1>1. Trading(p) /\ UNCHANGED <<owner, coinage>> /\ Put(u, {})
  BY DEF HandleUnacceptTradeOpcode
<1>2. Changed(trade, u, p, trade[p].trader) /\ SameItems(trade, u)
  BY <1>1, Facts, OneUnaccepted
<1> HIDE DEF u
<1> QED BY <1>1, <1>2, StillDistinct, HandlerStep

\* Whatever the acceptance leads to short of the exchange.
LEMMA PressedStep ==
    ASSUME TradeInv, NEW p \in Players, Trading(p), UNCHANGED <<owner, coinage>>,
           NEW u, Changed(Pressed(p), u, p, trade[p].trader), SameItems(Pressed(p), u), Put(u, {p})
    PROVE  TradeInv'
<1>1. SameItems(trade, u)
  BY Facts DEF SameItems
<1> QED BY <1>1, StillDistinct, HandlerStep

LEMMA AcceptAloneStep ==
    ASSUME TradeInv, NEW p \in Players, NEW tooFar, AcceptAlone(p, tooFar)
    PROVE  TradeInv'
<1>1. Trading(p) /\ UNCHANGED <<owner, coinage>> /\ Put(Pressed(p), {p})
  BY DEF AcceptAlone, MayAccept
<1>2. Changed(Pressed(p), Pressed(p), p, trade[p].trader) /\ SameItems(Pressed(p), Pressed(p))
  BY <1>1, Facts DEF Changed, SameItems
<1> QED BY <1>1, <1>2, PressedStep

LEMMA AcceptWithoutGoldStep ==
    ASSUME TradeInv, NEW p \in Players, AcceptWithoutGold(p)
    PROVE  TradeInv'
<1>1. PICK poor \in {p, trade[p].trader} : Put([Pressed(p) EXCEPT ![poor].accepted = FALSE], {p})
  BY DEF AcceptWithoutGold
<1> DEFINE u == [Pressed(p) EXCEPT ![poor].accepted = FALSE]
<1>2. Trading(p) /\ UNCHANGED <<owner, coinage>>
  BY DEF AcceptWithoutGold, MayAccept
<1>3. Changed(Pressed(p), u, p, trade[p].trader) /\ SameItems(Pressed(p), u)
  BY <1>2, Facts, OneUnaccepted
<1>4. Put(u, {p})
  BY <1>1
<1> HIDE DEF u
<1> QED BY <1>2, <1>3, <1>4, PressedStep

LEMMA AcceptSpellFailsStep ==
    ASSUME TradeInv, NEW p \in Players, NEW caster, AcceptSpellFails(p, caster)
    PROVE  TradeInv'
<1> DEFINE o == trade[p].trader
           u == SetSpell(Pressed(p), caster, FALSE)
<1>1. Trading(p) /\ UNCHANGED <<owner, coinage>> /\ Put(u, {p}) /\ caster \in {p, o}
  BY DEF AcceptSpellFails, AcceptsLast, MayAccept
<1>2. CASE caster = p
  <2>1. Changed(Pressed(p), u, p, o) /\ SameItems(Pressed(p), u)
    BY <1>1, <1>2, Facts, SetSpellChanges
  <2> HIDE DEF u
  <2> QED BY <1>1, <2>1, PressedStep
<1>3. CASE caster = o
  <2>1. Pressed(p) \in [Players -> TradeDatas] /\ Partners(Pressed(p), o, p)
    BY <1>1, Facts DEF Partners
  <2>2. Changed(Pressed(p), u, o, p) /\ SameItems(Pressed(p), u)
    BY <1>3, <2>1, SetSpellChanges
  <2>3. Changed(Pressed(p), u, p, o)
    <3> HIDE DEF u, o
    <3> QED BY <2>2 DEF Changed, Partners
  <2> HIDE DEF u
  <2> QED BY <1>1, <2>2, <2>3, PressedStep
<1> QED BY <1>1, <1>2, <1>3

LEMMA AcceptWithoutSpaceStep ==
    ASSUME TradeInv, NEW p \in Players, AcceptWithoutSpace(p)
    PROVE  TradeInv'
<1> DEFINE o == trade[p].trader
           t == Pressed(p)
           v == Unaccepted(t, p)
           u == [v EXCEPT ![o].recent = TRUE]
<1>1. Trading(p) /\ UNCHANGED <<owner, coinage>> /\ Put(u, {p})
  BY DEF AcceptWithoutSpace, AcceptsLast, MayAccept
<1>2. /\ t \in [Players -> TradeDatas] /\ Partners(t, p, o)
      /\ v \in [Players -> TradeDatas]
      /\ \A q \in Players : v[q] = IF q \in {p, o} THEN [t[q] EXCEPT !.accepted = FALSE] ELSE t[q]
  <2>1. t \in [Players -> TradeDatas] /\ Partners(t, p, o)
    BY <1>1, Facts
  <2> HIDE DEF t
  <2> QED BY <2>1, UnacceptedBoth
<1>3. PICK d, e \in TradeDatas : d = t[p] /\ e = t[o]
  BY <1>2 DEF Partners
<1> HIDE DEF t, v
<1>4. /\ u[p] = [d EXCEPT !.accepted = FALSE]
      /\ u[o] = [e EXCEPT !.accepted = FALSE, !.recent = TRUE]
      /\ \A q \in Players \ {p, o} : u[q] = t[q]
      /\ u = [q \in Players |-> u[q]]
  <2>1. u[o] = [v[o] EXCEPT !.recent = TRUE] /\ v[o] = [e EXCEPT !.accepted = FALSE]
    BY <1>2, <1>3 DEF Partners
  <2>2. u[o] = [e EXCEPT !.accepted = FALSE, !.recent = TRUE]
    <3> HIDE DEF u
    <3> QED BY <2>1 DEF TradeDatas
  <2> QED BY <1>2, <1>3, <2>2 DEF Partners
<1> HIDE DEF u
<1>5. /\ u[p] \in TradeDatas /\ ~u[p].accepted /\ u[p].trader = d.trader /\ u[p].items = d.items
      /\ u[o] \in TradeDatas /\ ~u[o].accepted /\ u[o].trader = e.trader /\ u[o].items = e.items
  BY <1>4 DEF TradeDatas
<1>8. \A q \in Players : u[q] \in TradeDatas /\ u[q].items = t[q].items
  BY <1>2, <1>3, <1>4, <1>5
<1>9. u \in [Players -> TradeDatas]
  BY <1>4, <1>8
<1>10. p \in Players /\ o \in Players /\ p # o /\ d.trader = o /\ e.trader = p
  BY <1>2, <1>3 DEF Partners
<1>6. u \in [Players -> TradeDatas] /\ Partners(u, p, o) /\ SameItems(t, u)
  <2> HIDE DEF o
  <2> QED BY <1>5, <1>8, <1>9, <1>10 DEF Partners, SameItems
<1>7. Changed(t, u, p, o)
  BY <1>4, <1>5, <1>6 DEF Changed
<1> QED BY <1>1, <1>6, <1>7, PressedStep DEF t

-----------------------------------------------------------------------------
(* The exchange. *)

\* Who has which item when p and o have exchanged what they offer.
Handed(p, o) ==
    [i \in Items |-> IF i \in Offered(trade, p) THEN o
                     ELSE IF i \in Offered(trade, o) THEN p ELSE owner[i]]

\* Nobody pays more than he has, so that only MAX_MONEY_AMOUNT is in the way of
\* what he gains.
LEMMA PaidAndGained ==
    ASSUME NEW c \in 0 .. MaxMoney, NEW m \in 0 .. c, NEW n \in 0 .. MaxMoney
    PROVE  /\ Gained(Paid(c, m), n) \in 0 .. MaxMoney
           /\ Gained(Paid(c, m), n) = c - m + n \/
                (Gained(Paid(c, m), n) = MaxMoney /\ MaxMoney <= c - m + n)
<1>1. MaxMoney \in Nat
  BY TradeAssumption
<1>2. Paid(c, m) = c - m
  BY <1>1 DEF Paid
<1> QED BY <1>1, <1>2 DEF Gained

\* What the exchange does, seen from p.
LEMMA CompleteFacts ==
    ASSUME TradeInv, NEW p \in Players, CompleteTrade(p), NEW o, o = trade[p].trader
    PROVE  /\ Trading(p) /\ Partners(trade, p, o)
           /\ owner' = Handed(p, o)
           /\ CanStoreItems(p, Offered(trade, o)) /\ CanStoreItems(o, Offered(trade, p))
           /\ coinage' \in [Players -> 0 .. MaxMoney]
           /\ \A q \in Players \ {p, o} : coinage'[q] = coinage[q]
           /\ coinage'[p] = coinage[p] - trade[p].money + trade[o].money \/
                 (coinage'[p] = MaxMoney
                  /\ MaxMoney <= coinage[p] - trade[p].money + trade[o].money)
           /\ coinage'[o] = coinage[o] - trade[o].money + trade[p].money \/
                 (coinage'[o] = MaxMoney
                  /\ MaxMoney <= coinage[o] - trade[o].money + trade[p].money)
<1>1. Trading(p) /\ EnoughGold(p) /\ EnoughGold(o)
  BY DEF CompleteTrade, AcceptsLast, MayAccept
<1>2. trade \in [Players -> TradeDatas] /\ Partners(trade, p, o)
  BY <1>1, Facts
<1>3. CanStoreItems(p, Offered(trade, o)) /\ CanStoreItems(o, Offered(trade, p)) /\ owner' = moveItems(p)
  BY DEF CompleteTrade
<1>4. owner' = Handed(p, o)
  BY <1>2, <1>3, ExchangeIsWhole DEF TradeInv, Partners, Handed
<1> DEFINE mine == Gained(Paid(coinage[p], trade[p].money), trade[o].money)
           his  == Gained(Paid(coinage[o], trade[o].money), trade[p].money)
<1>5. /\ coinage \in [Players -> 0 .. MaxMoney] /\ p \in Players /\ o \in Players /\ p # o
      /\ trade[p].money \in 0 .. coinage[p] /\ trade[o].money \in 0 .. coinage[o]
      /\ trade[p].money \in 0 .. MaxMoney /\ trade[o].money \in 0 .. MaxMoney
      /\ coinage[p] \in 0 .. MaxMoney /\ coinage[o] \in 0 .. MaxMoney
  BY <1>1, <1>2, TradeAssumption DEF TradeInv, TypeOK, TradeDatas, Partners, EnoughGold
<1>6. coinage' = [coinage EXCEPT ![p] = mine, ![o] = his]
  BY <1>5 DEF CompleteTrade
<1>7. /\ mine \in 0 .. MaxMoney /\ his \in 0 .. MaxMoney
      /\ mine = coinage[p] - trade[p].money + trade[o].money \/
            (mine = MaxMoney /\ MaxMoney <= coinage[p] - trade[p].money + trade[o].money)
      /\ his = coinage[o] - trade[o].money + trade[p].money \/
            (his = MaxMoney /\ MaxMoney <= coinage[o] - trade[o].money + trade[p].money)
  BY <1>5, PaidAndGained
<1> HIDE DEF mine, his
<1> QED BY <1>1, <1>2, <1>3, <1>4, <1>5, <1>6, <1>7

LEMMA CompleteStep ==
    ASSUME TradeInv, NEW p \in Players, CompleteTrade(p)
    PROVE  TradeInv'
<1>8. PICK o \in Players : o = trade[p].trader
  BY CompleteFacts DEF Partners
<1>1. /\ Trading(p) /\ Partners(trade, p, o) /\ owner' = Handed(p, o)
      /\ CanStoreItems(p, Offered(trade, o)) /\ CanStoreItems(o, Offered(trade, p))
      /\ coinage' \in [Players -> 0 .. MaxMoney]
  BY <1>8, CompleteFacts
<1>2. TradesPaired' /\ AcceptedIsShown' /\ DistinctInv' /\ trade' \in [Players -> TradeDatas]
  BY <1>1, ClosedStep DEF CompleteTrade
<1>3. owner \in [Items -> Players \union {Nobody}] /\ p \in Players /\ o \in Players /\ p # o
      /\ Nobody \notin Players
      /\ Offered(trade, p) \subseteq Bag(p) /\ Offered(trade, o) \subseteq Bag(o)
  BY <1>1, OfferedItems, NullAssumption DEF TradeInv, TypeOK, Partners
<1>4. owner' \in [Items -> Players \union {Nobody}]
  BY <1>1, <1>3 DEF Handed
<1>5. /\ Bag(p)' = (Bag(p) \ Offered(trade, p)) \union Offered(trade, o)
      /\ Bag(o)' = (Bag(o) \ Offered(trade, o)) \union Offered(trade, p)
      /\ \A q \in Players \ {p, o} : Bag(q)' = Bag(q)
  <2>1. \A i \in Items : owner'[i] = IF i \in Offered(trade, p) THEN o
                                    ELSE IF i \in Offered(trade, o) THEN p ELSE owner[i]
    BY <1>1 DEF Handed
  <2>2. \A i \in Offered(trade, p) : i \in Items /\ owner[i] = p
    BY <1>3 DEF Bag
  <2>3. \A i \in Offered(trade, o) : i \in Items /\ owner[i] = o
    BY <1>3 DEF Bag
  <2>4. Bag(p)' = (Bag(p) \ Offered(trade, p)) \union Offered(trade, o)
    BY <1>3, <2>1, <2>2, <2>3 DEF Bag
  <2>5. Bag(o)' = (Bag(o) \ Offered(trade, o)) \union Offered(trade, p)
    <3>1. \A i \in Items : owner'[i] = o <=>
              (owner[i] = o /\ i \notin Offered(trade, o)) \/ i \in Offered(trade, p)
      BY <1>3, <2>1, <2>2, <2>3
    <3> QED BY <2>2, <3>1 DEF Bag
  <2>6. ASSUME NEW q \in Players \ {p, o} PROVE Bag(q)' = Bag(q)
    BY <1>3, <2>1, <2>2, <2>3 DEF Bag
  <2> QED BY <2>4, <2>5, <2>6
<1>6. ASSUME NEW q \in Players PROVE Cardinality(Bag(q)') <= BagSize
  <2>1. Cardinality(Bag(p)') <= BagSize /\ Cardinality(Bag(o)') <= BagSize
    BY <1>1, <1>3, <1>5, BagFits DEF TradeInv
  <2>2. \A x \in Players : Cardinality(Bag(x)) <= BagSize
    BY DEF TradeInv, TypeOK
  <2>3. CASE q \notin {p, o}
    <3>1. Bag(q)' = Bag(q)
      BY <1>5, <2>3
    <3> QED BY <2>2, <3>1
  <2> QED BY <2>1, <2>3 DEF Bag
<1>7. TypeOK'
  BY <1>1, <1>2, <1>4, <1>6 DEF TypeOK, TradeDatas
<1> QED BY <1>2, <1>7 DEF TradeInv

-----------------------------------------------------------------------------
(* What happens to the inventories, the gold and the clock meanwhile. *)

\* The delay of the scam prevention is not part of a window.
LEMMA SecondStep ==
    ASSUME TradeInv, SecondPasses
    PROVE  TradeInv'
<1>1. trade' = [q \in Players |-> [trade[q] EXCEPT !.recent = FALSE]] /\ UNCHANGED <<owner, coinage, agreed>>
  BY DEF SecondPasses
<1>2. trade \in [Players -> TradeDatas]
  BY DEF TradeInv, TypeOK, TradeDatas
<1>3. \A e \in TradeDatas :
          /\ [e EXCEPT !.recent = FALSE] \in TradeDatas
          /\ [e EXCEPT !.recent = FALSE].trader = e.trader /\ [e EXCEPT !.recent = FALSE].items = e.items
          /\ [e EXCEPT !.recent = FALSE].money = e.money /\ [e EXCEPT !.recent = FALSE].spell = e.spell
          /\ [e EXCEPT !.recent = FALSE].accepted = e.accepted
  BY DEF TradeDatas
<1>4. ASSUME NEW q \in Players
      PROVE  /\ trade'[q] \in TradeDatas
             /\ trade'[q].trader = trade[q].trader /\ trade'[q].items = trade[q].items
             /\ trade'[q].money = trade[q].money /\ trade'[q].spell = trade[q].spell
             /\ trade'[q].accepted = trade[q].accepted
  <2>1. PICK e \in TradeDatas : e = trade[q] /\ trade'[q] = [e EXCEPT !.recent = FALSE]
    BY <1>1, <1>2
  <2> QED BY <1>3, <2>1
<1>5. trade' \in [Players -> TradeDatas]
  BY <1>1, <1>4
<1>6. TypeOK'
  BY <1>1, <1>5, TypesOfTrade DEF TradeInv
<1>7. DistinctInv'
  BY <1>4 DEF TradeInv, DistinctInv
<1>8. \A q \in Players : trade[q].trader # Nobody => trade[q].trader \in Players
  BY <1>2 DEF TradeDatas
<1>9. TradesPaired'
  BY <1>4, <1>8 DEF TradeInv, TradesPaired, Trading
<1>10. AcceptedIsShown'
  <2> SUFFICES ASSUME NEW q \in Players, trade'[q].trader # Nobody, trade'[q].accepted
               PROVE  agreed'[q] = <<Window(trade', q), Window(trade', trade'[q].trader)>>
    BY DEF AcceptedIsShown, Trading, Window
  <2>1. PICK x \in Players : trade[q].trader = x /\ trade'[q].trader = x
    BY <1>4, <1>8
  <2>2. Window(trade', q) = Window(trade, q) /\ Window(trade', x) = Window(trade, x)
    BY <1>4 DEF Window
  <2>3. agreed[q] = <<Window(trade, q), Window(trade, x)>>
    BY <1>4, <2>1 DEF TradeInv, AcceptedIsShown, Trading
  <2> QED BY <1>1, <2>1, <2>2, <2>3
<1> QED BY <1>6, <1>7, <1>9, <1>10 DEF TradeInv

\* No trade changes while an inventory or a purse does.
LEMMA WindowsStay ==
    ASSUME TradeInv, UNCHANGED <<trade, agreed>>, TypeOK'
    PROVE  TradeInv'
BY DEF TradeInv, DistinctInv, TradesPaired, AcceptedIsShown, Trading, Window

LEMMA LoseStep ==
    ASSUME TradeInv, NEW i \in Items, LoseItem(i)
    PROVE  TradeInv'
<1>1. owner' = [owner EXCEPT ![i] = Nobody] /\ UNCHANGED <<trade, coinage, agreed>>
  BY DEF LoseItem
<1>2. owner \in [Items -> Players \union {Nobody}] /\ \A q \in Players : Cardinality(Bag(q)) <= BagSize
  BY DEF TradeInv, TypeOK
<1>3. ASSUME NEW q \in Players PROVE Cardinality(Bag(q)') <= BagSize
  <2>1. Bag(q)' \in SUBSET Bag(q) /\ Bag(q) \in SUBSET Items
    BY <1>1, <1>2, NullAssumption DEF Bag
  <2>2. IsFiniteSet(Bag(q))
    BY <2>1, FS_Subset, TradeAssumption
  <2>3. IsFiniteSet(Bag(q)') /\ Cardinality(Bag(q)') <= Cardinality(Bag(q))
    BY <2>1, <2>2, FS_Subset
  <2>4. Cardinality(Bag(q)) \in Nat /\ Cardinality(Bag(q)') \in Nat /\ BagSize \in Nat
    BY <2>2, <2>3, FS_CardinalityType, TradeAssumption
  <2> QED BY <1>2, <2>3, <2>4
<1>4. owner' \in [Items -> Players \union {Nobody}]
  BY <1>1, <1>2
<1>5. TypeOK'
  BY <1>1, <1>3, <1>4 DEF TradeInv, TypeOK
<1> QED BY <1>1, <1>5, WindowsStay

LEMMA FindStep ==
    ASSUME TradeInv, NEW p \in Players, NEW i \in Items, FindItem(p, i)
    PROVE  TradeInv'
<1>1. owner' = [owner EXCEPT ![i] = p] /\ UNCHANGED <<trade, coinage, agreed>>
      /\ owner[i] = Nobody /\ Cardinality(Bag(p)) < BagSize
  BY DEF FindItem
<1>2. owner \in [Items -> Players \union {Nobody}] /\ \A q \in Players : Cardinality(Bag(q)) <= BagSize
  BY DEF TradeInv, TypeOK
<1>3. Bag(p)' = Bag(p) \union {i} /\ i \notin Bag(p) /\ \A q \in Players \ {p} : Bag(q)' = Bag(q)
  BY <1>1, <1>2, NullAssumption DEF Bag
<1>4. IsFiniteSet(Bag(p))
  <2>1. Bag(p) \in SUBSET Items
    BY DEF Bag
  <2> QED BY <2>1, FS_Subset, TradeAssumption
<1>5. Cardinality(Bag(p)') <= BagSize
  <2>1. Cardinality(Bag(p)') = Cardinality(Bag(p)) + 1
    BY <1>3, <1>4, FS_AddElement
  <2> QED BY <1>1, <1>4, <2>1, FS_CardinalityType, TradeAssumption
<1>6. \A q \in Players : Cardinality(Bag(q)') <= BagSize
  BY <1>2, <1>3, <1>5
<1>7. owner' \in [Items -> Players \union {Nobody}]
  BY <1>1, <1>2
<1>8. TypeOK'
  BY <1>1, <1>6, <1>7 DEF TradeInv, TypeOK
<1> QED BY <1>1, <1>8, WindowsStay

LEMMA SpendStep ==
    ASSUME TradeInv, NEW p \in Players, SpendMoney(p)
    PROVE  TradeInv'
<1>1. /\ coinage[p] > 0 /\ coinage' = [coinage EXCEPT ![p] = @ - 1]
      /\ UNCHANGED <<trade, owner, agreed>>
  BY DEF SpendMoney
<1>2. coinage \in [Players -> 0 .. MaxMoney] /\ MaxMoney \in Nat
  BY TradeAssumption DEF TradeInv, TypeOK
<1>3. coinage' \in [Players -> 0 .. MaxMoney]
  BY <1>1, <1>2
<1>4. TypeOK'
  BY <1>1, <1>3 DEF TradeInv, TypeOK, Bag
<1> QED BY <1>1, <1>4, WindowsStay

-----------------------------------------------------------------------------
(* The theorems. *)

LEMMA InitInv == Init => TradeInv
<1> SUFFICES ASSUME Init PROVE TradeInv
  OBVIOUS
<1>1. NoTrade \in TradeDatas /\ NoTrade.trader = Nobody /\ \A s \in Slots : NoTrade.items[s] = NoItem
  BY TradeAssumption DEF NoTrade, TradeData, TradeDatas
<1>2. /\ trade \in [Players -> TradeDatas] /\ \A p \in Players : trade[p] = NoTrade
      /\ coinage \in [Players -> 0 .. MaxMoney]
      /\ owner \in [Items -> Players \union {Nobody}] /\ \A i \in Items : owner[i] = Nobody
  BY <1>1, TradeAssumption DEF Init
<1>3. ASSUME NEW p \in Players PROVE Cardinality(Bag(p)) <= BagSize
  <2>1. Bag(p) = {}
    BY <1>2, NullAssumption DEF Bag
  <2> QED BY <2>1, FS_EmptySet, TradeAssumption
<1>4. TypeOK
  BY <1>2, <1>3 DEF TypeOK, TradeDatas
<1>5. DistinctInv
  BY <1>1, <1>2 DEF DistinctInv
<1>6. TradesPaired /\ AcceptedIsShown
  BY <1>1, <1>2 DEF TradesPaired, AcceptedIsShown, Trading
<1> QED BY <1>4, <1>5, <1>6 DEF TradeInv

LEMMA OfferStep ==
    ASSUME TradeInv, NEW p \in Players, Offer(p)
    PROVE  TradeInv'
<1>1. CASE \E gold \in 0 .. MaxMoney : HandleSetTradeGoldOpcode(p, gold)
  BY <1>1, GoldStep
<1>2. ASSUME NEW slot \in Slots, NEW i \in Items, HandleSetTradeItemOpcode(p, slot, i)
      PROVE  TradeInv'
  BY <1>2, ItemStep DEF HandleSetTradeItemOpcode
<1>3. ASSUME NEW slot \in Slots, HandleClearTradeItemOpcode(p, slot)
      PROVE  TradeInv'
  BY <1>3, ItemStep DEF HandleClearTradeItemOpcode
<1>4. CASE CastOnTradeItem(p)
  BY <1>4, CastStep
<1>5. CASE HandleUnacceptTradeOpcode(p)
  BY <1>5, UnacceptStep
<1> QED BY <1>1, <1>2, <1>3, <1>4, <1>5 DEF Offer

LEMMA AcceptStep ==
    ASSUME TradeInv, NEW p \in Players, HandleAcceptTradeOpcode(p)
    PROVE  TradeInv'
BY AcceptAloneStep, AcceptWithoutGoldStep, AcceptSpellFailsStep, AcceptWithoutSpaceStep, CompleteStep
   DEF HandleAcceptTradeOpcode

LEMMA NextInv ==
    ASSUME TradeInv, [Next]_vars
    PROVE  TradeInv'
<1>1. CASE UNCHANGED vars
  BY <1>1, WindowsStay DEF vars, TradeInv, TypeOK, Bag
<1>2. CASE \E p, other \in Players : HandleInitiateTradeOpcode(p, other)
  BY <1>2, InitiateStep
<1>3. ASSUME NEW p \in Players, TradeCancel(p) \/ Offer(p) \/ HandleAcceptTradeOpcode(p) \/ SpendMoney(p)
      PROVE  TradeInv'
  BY <1>3, CancelStep, OfferStep, AcceptStep, SpendStep
<1>4. ASSUME NEW i \in Items, LoseItem(i) \/ \E p \in Players : FindItem(p, i)
      PROVE  TradeInv'
  BY <1>4, LoseStep, FindStep
<1>5. CASE SecondPasses
  BY <1>5, SecondStep
<1> QED BY <1>1, <1>2, <1>3, <1>4, <1>5 DEF Next

\* Everything the invariant says holds in every state.
THEOREM Invariance == Spec => []TradeInv
<1>1. Init => TradeInv
  BY InitInv
<1>2. TradeInv /\ [Next]_vars => TradeInv'
  BY NextInv
<1> QED BY <1>1, <1>2, PTL DEF Spec

\* TypeOK: every TradeData, inventory and purse has its type, and the exchange
\* never puts more into a bag than it holds.
THEOREM TypeCorrect == Spec => []TypeOK
<1>1. TradeInv => TypeOK
  BY DEF TradeInv
<1> QED BY <1>1, Invariance, PTL

\* TradesPaired: whoever trades has a partner who trades with him, in whatever
\* order trades begin, are cancelled and end.
THEOREM TradesAlwaysPaired == Spec => []TradesPaired
<1>1. TradeInv => TradesPaired
  BY DEF TradeInv
<1> QED BY <1>1, Invariance, PTL

\* AcceptedIsShown: a player counts as having accepted only while both windows
\* are as they were when he accepted.
THEOREM AcceptedAlwaysShown == Spec => []AcceptedIsShown
<1>1. TradeInv => AcceptedIsShown
  BY DEF TradeInv
<1> QED BY <1>1, Invariance, PTL

\* Only the exchange ends a trade and lets something change hands; then the
\* player who accepts last is one of its two sides.
LEMMA OnlyComplete ==
    ASSUME TradeInv, [Next]_vars, NEW q \in Players, Completes(q)
    PROVE  \E p \in Players : CompleteTrade(p) /\ q \in {p, trade[p].trader}
<1>1. trade[q].trader # Nobody /\ trade'[q] = NoTrade /\ ~UNCHANGED <<owner, coinage>>
  BY DEF Completes, Trading
<1>2. NoTrade.trader = Nobody
  BY DEF NoTrade, TradeData
<1>3. ~UNCHANGED trade
  BY <1>1, <1>2
<1>4. ~UNCHANGED vars /\ ~SecondPasses /\ ~(\E p, other \in Players : HandleInitiateTradeOpcode(p, other))
  BY <1>1, <1>3 DEF vars, SecondPasses, HandleInitiateTradeOpcode
<1>5. \A i \in Items : ~LoseItem(i) /\ \A p \in Players : ~FindItem(p, i)
  BY <1>3 DEF LoseItem, FindItem
<1>6. ASSUME NEW p \in Players
      PROVE  ~TradeCancel(p) /\ ~Offer(p) /\ ~SpendMoney(p)
  <2>1. ~TradeCancel(p) /\ ~SpendMoney(p)
    BY <1>1, <1>3 DEF TradeCancel, SpendMoney
  <2>2. ~Offer(p)
    BY <1>1 DEF Offer, HandleSetTradeGoldOpcode, HandleSetTradeItemOpcode, HandleClearTradeItemOpcode,
                CastOnTradeItem, HandleUnacceptTradeOpcode
  <2> QED BY <2>1, <2>2
<1>7. PICK p \in Players : HandleAcceptTradeOpcode(p)
  BY <1>4, <1>5, <1>6 DEF Next
<1>8. CompleteTrade(p)
  BY <1>1, <1>7 DEF HandleAcceptTradeOpcode, AcceptAlone, AcceptWithoutGold, AcceptSpellFails, AcceptWithoutSpace
<1>9. \A x \in Players \ {p, trade[p].trader} : trade'[x] = trade[x]
  BY <1>8, ClosedStep DEF CompleteTrade, AcceptsLast, MayAccept
<1> QED BY <1>1, <1>2, <1>8, <1>9

\* TradeIsWhole: the exchange gives all that is offered to the other side and
\* leaves every other item where it is; none gets lost between the bags.
THEOREM TradesAreWhole == Spec => TradeIsWhole
<1>1. ASSUME TradeInv, [Next]_vars, NEW q \in Players, Completes(q)
      PROVE  LET other == trade[q].trader IN
             /\ \A i \in Offered(trade, q) : owner'[i] = other
             /\ \A i \in Items : i \notin Offered(trade, q) \union Offered(trade, other)
                     => owner'[i] = owner[i]
  <2>1. PICK p \in Players : CompleteTrade(p) /\ q \in {p, trade[p].trader}
    BY <1>1, OnlyComplete
  <2>2. PICK o : o = trade[p].trader
    OBVIOUS
  <2>3. Partners(trade, p, o) /\ owner' = Handed(p, o)
    BY <1>1, <2>1, <2>2, CompleteFacts
  <2>4. /\ p \in Players /\ o \in Players /\ p # o /\ trade[p].trader = o /\ trade[o].trader = p
        /\ Offered(trade, p) \subseteq Bag(p) /\ Offered(trade, o) \subseteq Bag(o)
    BY <1>1, <2>3, OfferedItems DEF TradeInv, Partners
  <2>5. \A i \in Items : owner'[i] = IF i \in Offered(trade, p) THEN o
                                     ELSE IF i \in Offered(trade, o) THEN p ELSE owner[i]
    BY <2>3 DEF Handed
  <2>6. /\ \A i \in Offered(trade, p) : i \in Items /\ i \notin Offered(trade, o)
        /\ \A i \in Offered(trade, o) : i \in Items /\ i \notin Offered(trade, p)
    BY <2>4 DEF Bag
  <2>7. CASE q = p
    BY <2>4, <2>5, <2>6, <2>7
  <2>8. CASE q = o
    BY <2>4, <2>5, <2>6, <2>8
  <2> QED BY <2>1, <2>2, <2>7, <2>8
<1>2. TradeInv /\ [Next]_vars => [\A p \in Players : Completes(p) =>
          LET other == trade[p].trader IN
          /\ \A i \in Offered(trade, p) : owner'[i] = other
          /\ \A i \in Items : i \notin Offered(trade, p) \union Offered(trade, other)
                  => owner'[i] = owner[i]]_vars
  BY <1>1
<1> QED BY <1>2, Invariance, PTL DEF Spec, TradeIsWhole

\* GoldIsKept: the exchange makes no gold, and loses none but what a purse
\* cannot hold; the players' gold is summed up whoever trades.
THEOREM GoldAlwaysKept == Spec => GoldIsKept
<1>1. ASSUME TradeInv, [Next]_vars, NEW q \in Players, Completes(q)
      PROVE  \/ Gold(coinage') = Gold(coinage)
             \/ /\ Gold(coinage') < Gold(coinage)
                /\ MaxMoney \in {coinage'[q], coinage'[trade[q].trader]}
  <2>1. PICK p \in Players : CompleteTrade(p) /\ q \in {p, trade[p].trader}
    BY <1>1, OnlyComplete
  <2>2. PICK o : o = trade[p].trader
    OBVIOUS
  <2>3. /\ Partners(trade, p, o)
        /\ coinage' \in [Players -> 0 .. MaxMoney]
        /\ \A x \in Players \ {p, o} : coinage'[x] = coinage[x]
        /\ coinage'[p] = coinage[p] - trade[p].money + trade[o].money \/
              (coinage'[p] = MaxMoney /\ MaxMoney <= coinage[p] - trade[p].money + trade[o].money)
        /\ coinage'[o] = coinage[o] - trade[o].money + trade[p].money \/
              (coinage'[o] = MaxMoney /\ MaxMoney <= coinage[o] - trade[o].money + trade[p].money)
    BY <1>1, <2>1, <2>2, CompleteFacts
  <2>4. /\ p \in Players /\ o \in Players /\ p # o /\ {q, trade[q].trader} = {p, o}
        /\ trade[p].money \in Nat /\ trade[o].money \in Nat /\ MaxMoney \in Nat
        /\ coinage \in [Players -> Nat] /\ coinage' \in [Players -> Nat]
    BY <1>1, <2>1, <2>2, <2>3, TradeAssumption DEF TradeInv, TypeOK, Partners
  <2>5. /\ Gold(coinage) \in Nat /\ Gold(coinage') \in Nat
        /\ Gold(coinage') - Gold(coinage) = (coinage'[p] - coinage[p]) + (coinage'[o] - coinage[o])
    <3>1. \A c, d \in [Players -> Nat] : (\A x \in Players \ {p, o} : c[x] = d[x]) =>
              Gold(c) \in Nat /\ Gold(d) \in Nat /\ Gold(d) - Gold(c) = (d[p] - c[p]) + (d[o] - c[o])
      BY <2>4, GoldMoves
    <3> QED BY <2>3, <2>4, <3>1
  <2>6. \/ Gold(coinage') = Gold(coinage)
        \/ Gold(coinage') < Gold(coinage) /\ MaxMoney \in {coinage'[p], coinage'[o]}
    <3>1. /\ coinage[p] \in Nat /\ coinage[o] \in Nat
          /\ coinage'[p] \in Nat /\ coinage'[o] \in Nat
      BY <2>4
    <3>2. ASSUME NEW a \in Nat, NEW b \in Nat, NEW c \in Nat, NEW d \in Nat, NEW m \in Nat, NEW n \in Nat,
                 c = a - m + n \/ (c = MaxMoney /\ MaxMoney <= a - m + n),
                 d = b - n + m \/ (d = MaxMoney /\ MaxMoney <= b - n + m)
          PROVE  (c - a) + (d - b) = 0 \/ ((c - a) + (d - b) < 0 /\ MaxMoney \in {c, d})
      BY <2>4, <3>2
    <3>3. LET moved == (coinage'[p] - coinage[p]) + (coinage'[o] - coinage[o])
          IN  moved = 0 \/ (moved < 0 /\ MaxMoney \in {coinage'[p], coinage'[o]})
      BY <2>3, <2>4, <3>1, <3>2
    <3> QED BY <2>5, <3>3
  <2> QED BY <2>4, <2>6
<1>2. TradeInv /\ [Next]_vars => [\A p \in Players : Completes(p) =>
          \/ Gold(coinage') = Gold(coinage)
          \/ /\ Gold(coinage') < Gold(coinage)
             /\ MaxMoney \in {coinage'[p], coinage'[trade[p].trader]}]_vars
  BY <1>1
<1> QED BY <1>2, Invariance, PTL DEF Spec, GoldIsKept
=============================================================================
