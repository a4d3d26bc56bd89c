-------------------------- MODULE OrderBookProofs ---------------------------
(***************************************************************************)
(* Type correctness of the order book and the consistency of its lookup    *)
(* table, price levels and hives, for any set of ids, prices, quantities   *)
(* and any block capacity.                                                 *)
(***************************************************************************)
EXTENDS OrderBook, HiveProofs, FiniteSetTheorems

-----------------------------------------------------------------------------
(* Units *)

\* total_qty counts the units of a level's orders.
TotalOK(l) ==
    /\ IsFiniteSet(Units(l.orders))
    /\ l.total_qty = Cardinality(Units(l.orders))

\* The units a..b of the order in slot i.
LEMMA UnitsOfSlot ==
    ASSUME NEW i, NEW a \in Int, NEW b \in Int, a <= b + 1
    PROVE  /\ IsFiniteSet({i} \X (a..b))
           /\ Cardinality({i} \X (a..b)) = b - a + 1
<1>1. IsFiniteSet(a..b) /\ Cardinality(a..b) = b - a + 1
    BY FS_Interval
<1>2. IsFiniteSet({i}) /\ Cardinality({i}) = 1
    BY FS_Singleton
<1>3. /\ IsFiniteSet({i} \X (a..b))
      /\ Cardinality({i} \X (a..b)) = Cardinality({i}) * Cardinality(a..b)
    BY <1>1, <1>2, FS_Product
<1>4. QED
    BY <1>1, <1>2, <1>3

\* What a pair is in Units.
LEMMA InUnits ==
    ASSUME NEW h, NEW x
    PROVE  x \in Units(h) <=>
              \E i \in DOMAIN h.at : \E k \in 1..h.at[i].qty : x = <<i, k>>
    BY DEF Units

\* An order in a slot that held none adds its quantity.
LEMMA UnitsAdded ==
    ASSUME NEW h, NEW g, NEW i, i \notin DOMAIN h.at,
           DOMAIN g.at = DOMAIN h.at \cup {i},
           \A j \in DOMAIN h.at : g.at[j] = h.at[j],
           g.at[i].qty \in Nat, IsFiniteSet(Units(h))
    PROVE  /\ IsFiniteSet(Units(g))
           /\ Cardinality(Units(g)) = Cardinality(Units(h)) + g.at[i].qty
<1> DEFINE U == {i} \X (1..g.at[i].qty)
<1>1. Units(g) = Units(h) \cup U
  <2>1. ASSUME NEW x PROVE x \in Units(g) <=> x \in Units(h) \/ x \in U
    <3>1. x \in U <=> \E k \in 1..g.at[i].qty : x = <<i, k>>
      OBVIOUS
    <3> HIDE DEF U
    <3>2. x \in Units(g) <=> \E j \in DOMAIN g.at : \E k \in 1..g.at[j].qty : x = <<j, k>>
      BY InUnits
    <3>3. x \in Units(h) <=> \E j \in DOMAIN h.at : \E k \in 1..h.at[j].qty : x = <<j, k>>
      BY InUnits
    <3>4. QED
      BY <3>1, <3>2, <3>3
  <2>2. QED
    BY <2>1
<1>2. Units(h) \cap U = {}
    BY InUnits
<1>3. IsFiniteSet(U) /\ Cardinality(U) = g.at[i].qty
  <2> DEFINE q == g.at[i].qty
  <2>1. 1 \in Int /\ q \in Int /\ 1 <= q + 1 /\ q - 1 + 1 = q
    OBVIOUS
  <2>2. U = {i} \X (1..q)
    OBVIOUS
  <2> HIDE DEF q, U
  <2>3. IsFiniteSet({i} \X (1..q)) /\ Cardinality({i} \X (1..q)) = q - 1 + 1
    BY <2>1, UnitsOfSlot
  <2>4. QED
    BY <2>1, <2>2, <2>3 DEF q
<1> HIDE DEF U
<1>4. /\ IsFiniteSet(Units(h) \cup U)
      /\ Cardinality(Units(h) \cup U) = Cardinality(Units(h)) + Cardinality(U) - Cardinality({})
    BY <1>2, <1>3, FS_Union
<1>5. Cardinality(Units(h)) \in Nat /\ Cardinality({}) = 0
    BY FS_CardinalityType, FS_EmptySet
<1>6. QED
    BY <1>1, <1>3, <1>4, <1>5

\* An order that loses m of its units, or leaves its slot with all of them,
\* takes m away.
LEMMA UnitsTaken ==
    ASSUME NEW h, NEW g, NEW i, i \in DOMAIN h.at, h.at[i].qty \in Nat,
           NEW m \in Nat, m <= h.at[i].qty,
           DOMAIN g.at \subseteq DOMAIN h.at,
           DOMAIN h.at \ {i} \subseteq DOMAIN g.at,
           \A j \in DOMAIN h.at \ {i} : g.at[j] = h.at[j],
           i \in DOMAIN g.at => g.at[i].qty = h.at[i].qty - m,
           i \notin DOMAIN g.at => h.at[i].qty = m,
           IsFiniteSet(Units(h))
    PROVE  /\ IsFiniteSet(Units(g))
           /\ Cardinality(Units(g)) = Cardinality(Units(h)) - m
<1> DEFINE q == h.at[i].qty
           U == {i} \X ((q - m + 1)..q)
<1>1. \A x : x \in U <=> \E k \in (q - m + 1)..q : x = <<i, k>>
    OBVIOUS
<1>2. IsFiniteSet(U) /\ Cardinality(U) = m
  <2> DEFINE a == q - m + 1
  <2>1. a \in Int /\ q \in Int /\ a <= q + 1 /\ q - a + 1 = m
    OBVIOUS
  <2>2. U = {i} \X (a..q)
    OBVIOUS
  <2> HIDE DEF a, q, U
  <2>3. IsFiniteSet({i} \X (a..q)) /\ Cardinality({i} \X (a..q)) = q - a + 1
    BY <2>1, UnitsOfSlot
  <2>4. QED
    BY <2>1, <2>2, <2>3
<1> HIDE DEF U
<1>3. U \subseteq Units(h)
    BY <1>1, InUnits
<1>4. Units(g) = Units(h) \ U
  <2>1. ASSUME NEW j, NEW k
        PROVE  j \in DOMAIN g.at /\ k \in 1..g.at[j].qty <=>
                  j \in DOMAIN h.at /\ k \in 1..h.at[j].qty /\ ~(j = i /\ k \in (q - m + 1)..q)
    <3>1. CASE j = i
      BY <3>1
    <3>2. CASE j # i
      BY <3>2
    <3>3. QED
      BY <3>1, <3>2
  <2>2. ASSUME NEW x PROVE x \in Units(g) <=> x \in Units(h) /\ x \notin U
    <3>1. x \in Units(g) <=> \E j \in DOMAIN g.at : \E k \in 1..g.at[j].qty : x = <<j, k>>
      BY InUnits
    <3>2. x \in Units(h) <=> \E j \in DOMAIN h.at : \E k \in 1..h.at[j].qty : x = <<j, k>>
      BY InUnits
    <3>3. QED
      BY <2>1, <3>1, <3>2, <1>1
  <2>3. QED
    BY <2>2
<1>5. Units(h) \cap U = U
    BY <1>3
<1>6. /\ IsFiniteSet(Units(h) \ U)
      /\ Cardinality(Units(h) \ U) = Cardinality(Units(h)) - Cardinality(U)
  <2>1. /\ IsFiniteSet(Units(h) \ U)
        /\ Cardinality(Units(h) \ U) = Cardinality(Units(h)) - Cardinality(Units(h) \cap U)
    BY FS_Difference
  <2>2. QED
    BY <2>1, <1>5
<1>7. QED
    BY <1>2, <1>4, <1>6

-----------------------------------------------------------------------------
(* Price levels *)

ValidPrices == {p \in Prices : p <= MaxPrice}

\* A level of side s and price p, but for holding an order.
LevelOK(l, s, p) ==
    /\ IsLevel(l)
    /\ HiveOK(l.orders)
    /\ TotalOK(l)
    /\ \A i \in DOMAIN l.orders.at :
          l.orders.at[i].side = s /\ l.orders.at[i].price = p

LevelsOK(ls) ==
    /\ IsLevels(ls)
    /\ \A s \in Sides : \A p \in DOMAIN ls[s] :
          LevelOK(ls[s][p], s, p) /\ DOMAIN ls[s][p].orders.at # {}

\* KeepLevel replaces one level, or drops it when it has no order, and leaves
\* all others alone.
LEMMA KeepLevelOK ==
    ASSUME NEW ls, LevelsOK(ls),
           NEW s \in Sides, NEW p \in ValidPrices, NEW l, LevelOK(l, s, p)
    PROVE  LET g == KeepLevel(ls, s, p, l)
           IN  /\ LevelsOK(g)
               /\ \A i : Holds(g, s, p, i) <=> i \in DOMAIN l.orders.at
               /\ \A i \in DOMAIN l.orders.at : OrderAt(g, s, p, i) = l.orders.at[i]
               /\ \A t \in Sides : \A q : t # s \/ q # p =>
                     /\ q \in DOMAIN g[t] <=> q \in DOMAIN ls[t]
                     /\ q \in DOMAIN ls[t] => g[t][q] = ls[t][q]
               /\ \A t \in Sides : t # s => g[t] = ls[t]
<1> DEFINE g == KeepLevel(ls, s, p, l)
<1>1. /\ DOMAIN ls = Sides
      /\ \A t \in Sides :
            /\ ls[t] = [q \in DOMAIN ls[t] |-> ls[t][q]]
            /\ DOMAIN ls[t] \subseteq ValidPrices
            /\ \A q \in DOMAIN ls[t] :
                  LevelOK(ls[t][q], t, q) /\ DOMAIN ls[t][q].orders.at # {}
    BY DEF LevelsOK, IsLevels, ValidPrices
<1>2. SUFFICES
        /\ g = [t \in Sides |-> g[t]]
        /\ \A t \in Sides : t # s => g[t] = ls[t]
        /\ g[s] = [q \in DOMAIN g[s] |-> g[s][q]]
        /\ \A q : q # p => /\ q \in DOMAIN g[s] <=> q \in DOMAIN ls[s]
                           /\ q \in DOMAIN ls[s] => g[s][q] = ls[s][q]
        /\ p \in DOMAIN g[s] <=> DOMAIN l.orders.at # {}
        /\ p \in DOMAIN g[s] => g[s][p] = l
  <2> HIDE DEF g
  <2>1. ASSUME NEW t \in Sides
        PROVE  /\ g[t] = [q \in DOMAIN g[t] |-> g[t][q]]
               /\ DOMAIN g[t] \subseteq ValidPrices
               /\ \A q \in DOMAIN g[t] :
                     LevelOK(g[t][q], t, q) /\ DOMAIN g[t][q].orders.at # {}
    <3>1. CASE t # s
      BY <3>1, <1>1, <1>2
    <3>2. CASE t = s
      BY <3>2, <1>1, <1>2
    <3>3. QED
      BY <3>1, <3>2
  <2>2. LevelsOK(g)
    BY <2>1, <1>2 DEF LevelsOK, IsLevels, LevelOK, ValidPrices
  <2>3. QED
    BY <2>2, <1>2 DEF Holds, OrderAt, g
<1>3. CASE DOMAIN l.orders.at = {}
  <2> DEFINE f == [q \in DOMAIN ls[s] \ {p} |-> ls[s][q]]
  <2>1. g = [ls EXCEPT ![s] = f]
    BY <1>3 DEF KeepLevel, DropLevel
  <2>2. /\ f = [q \in DOMAIN f |-> f[q]]
        /\ \A q : q # p => /\ q \in DOMAIN f <=> q \in DOMAIN ls[s]
                           /\ q \in DOMAIN ls[s] => f[q] = ls[s][q]
        /\ p \notin DOMAIN f
    OBVIOUS
  <2> HIDE DEF f, g
  <2>3. g[s] = f /\ g = [t \in Sides |-> g[t]] /\ \A t \in Sides : t # s => g[t] = ls[t]
    BY <2>1, <1>1
  <2>4. QED
    BY <2>2, <2>3, <1>3 DEF g
<1>4. CASE DOMAIN l.orders.at # {}
  <2> DEFINE f == [q \in DOMAIN ls[s] \cup {p} |-> IF q = p THEN l ELSE ls[s][q]]
  <2>1. g = [ls EXCEPT ![s] = f]
    BY <1>4 DEF KeepLevel, PutLevel
  <2>2. /\ f = [q \in DOMAIN f |-> f[q]]
        /\ \A q : q # p => /\ q \in DOMAIN f <=> q \in DOMAIN ls[s]
                           /\ q \in DOMAIN ls[s] => f[q] = ls[s][q]
        /\ p \in DOMAIN f
        /\ f[p] = l
    OBVIOUS
  <2> HIDE DEF f, g
  <2>3. g[s] = f /\ g = [t \in Sides |-> g[t]] /\ \A t \in Sides : t # s => g[t] = ls[t]
    BY <2>1, <1>1
  <2>4. QED
    BY <2>2, <2>3, <1>4 DEF g
<1>5. QED
    BY <1>3, <1>4

\* ls and g hold the same orders, but perhaps for slot i of side s, price p.
AgreeExcept(ls, g, s, p, i) ==
    \A t \in Sides : \A q, j : t # s \/ q # p \/ j # i =>
        /\ Holds(g, t, q, j) <=> Holds(ls, t, q, j)
        /\ Holds(ls, t, q, j) => OrderAt(g, t, q, j) = OrderAt(ls, t, q, j)

\* A new hive.
LEMMA EmptyHiveOK == IsHive(EmptyHive, Orders) /\ HiveOK(EmptyHive)
    BY DEF IsHive, HiveOK, EmptyHive, IsInjective, Range, RunStarts

\* The level that container[price] returns, new or not.
LEMMA LevelAtOK ==
    ASSUME NEW ls, LevelsOK(ls), NEW s \in Sides, NEW p
    PROVE  /\ LevelOK(LevelAt(ls, s, p), s, p)
           /\ \A j : j \in DOMAIN LevelAt(ls, s, p).orders.at <=> Holds(ls, s, p, j)
           /\ \A j : Holds(ls, s, p, j) =>
                 LevelAt(ls, s, p).orders.at[j] = OrderAt(ls, s, p, j)
<1>1. CASE p \in DOMAIN ls[s]
    BY <1>1 DEF LevelsOK, LevelAt, Holds, OrderAt
<1>2. CASE p \notin DOMAIN ls[s]
  <2>1. LevelAt(ls, s, p) = [orders |-> EmptyHive, total_qty |-> 0]
    BY <1>2 DEF LevelAt, NewLevel
  <2>2. DOMAIN EmptyHive.at = {}
    BY DEF EmptyHive
  <2>3. Units(EmptyHive) = {} /\ TotalOK([orders |-> EmptyHive, total_qty |-> 0])
    BY <2>2, FS_EmptySet DEF Units, TotalOK
  <2>4. LevelOK([orders |-> EmptyHive, total_qty |-> 0], s, p)
    BY <2>2, <2>3, EmptyHiveOK DEF LevelOK, IsLevel
  <2>5. QED
    BY <2>1, <2>2, <2>4, <1>2 DEF Holds
<1>3. QED
    BY <1>1, <1>2

\* InsertOrder adds one order, in a slot that held none.
LEMMA InsertOrderOK ==
    ASSUME NEW ls, LevelsOK(ls), NEW o \in Orders, o.price \in ValidPrices
    PROVE  LET g == InsertOrder(ls, o)
               i == InsertSlot(LevelAt(ls, o.side, o.price).orders)
           IN  /\ LevelsOK(g)
               /\ i \in Nat \ {0}
               /\ ~Holds(ls, o.side, o.price, i)
               /\ Holds(g, o.side, o.price, i)
               /\ OrderAt(g, o.side, o.price, i) = o
               /\ AgreeExcept(ls, g, o.side, o.price, i)
<1> DEFINE s == o.side
           p == o.price
           l == LevelAt(ls, s, p)
           i == InsertSlot(l.orders)
           h == HiveInsert(l.orders, o)
           m == [orders |-> h, total_qty |-> l.total_qty + o.qty]
           g == InsertOrder(ls, o)
<1>1. s \in Sides /\ p \in ValidPrices /\ o.qty \in Nat
    BY DEF Orders
<1>2. /\ LevelOK(l, s, p)
      /\ \A j : j \in DOMAIN l.orders.at <=> Holds(ls, s, p, j)
      /\ \A j : Holds(ls, s, p, j) => l.orders.at[j] = OrderAt(ls, s, p, j)
    BY <1>1, LevelAtOK
<1> HIDE DEF l, s, p, m, g
<1>3. IsHive(l.orders, Orders) /\ HiveOK(l.orders) /\ l.total_qty \in Int
    BY <1>2 DEF LevelOK, IsLevel
<1>4. i \in Nat \ {0} /\ i \notin DOMAIN l.orders.at
    BY <1>3, InsertSlotIsFree
<1>5. /\ IsHive(h, Orders)
      /\ HiveOK(h)
      /\ DOMAIN h.at = DOMAIN l.orders.at \cup {i}
      /\ h.at[i] = o
      /\ \A j \in DOMAIN l.orders.at : h.at[j] = l.orders.at[j]
    BY <1>3, InsertKeepsHive
<1> HIDE DEF h, i
<1>6. /\ m = [orders |-> m.orders, total_qty |-> m.total_qty]
      /\ m.orders = h
      /\ m.total_qty = l.total_qty + o.qty
    BY DEF m
<1>7. LevelOK(m, s, p)
  <2>1. o.side = s /\ o.price = p
    BY DEF s, p
  <2>2. TotalOK(l)
    BY <1>2 DEF LevelOK
  <2>3. /\ IsFiniteSet(Units(h))
        /\ Cardinality(Units(h)) = Cardinality(Units(l.orders)) + o.qty
    BY <2>2, <1>1, <1>4, <1>5, UnitsAdded DEF TotalOK
  <2>4. TotalOK(m)
    BY <2>2, <2>3, <1>6 DEF TotalOK
  <2>5. QED
    BY <2>1, <2>4, <1>1, <1>2, <1>3, <1>5, <1>6 DEF LevelOK, IsLevel
<1>8. g = KeepLevel(ls, s, p, m)
    BY <1>5, <1>6 DEF InsertOrder, KeepLevel, l, h, g, m, s, p
<1>9. /\ LevelsOK(g)
      /\ \A j : Holds(g, s, p, j) <=> j \in DOMAIN h.at
      /\ \A j \in DOMAIN h.at : OrderAt(g, s, p, j) = h.at[j]
      /\ \A t \in Sides : \A q : t # s \/ q # p =>
                     /\ q \in DOMAIN g[t] <=> q \in DOMAIN ls[t]
                     /\ q \in DOMAIN ls[t] => g[t][q] = ls[t][q]
    BY <1>1, <1>6, <1>7, <1>8, KeepLevelOK
<1> HIDE DEF g, m
<1>10. AgreeExcept(ls, g, s, p, i)
  <2>1. \A j : j # i => /\ j \in DOMAIN h.at <=> Holds(ls, s, p, j)
                        /\ Holds(ls, s, p, j) => h.at[j] = OrderAt(ls, s, p, j)
    BY <1>2, <1>5
  <2>2. SUFFICES ASSUME NEW t \in Sides, NEW q, NEW j, t # s \/ q # p \/ j # i
                 PROVE  /\ Holds(g, t, q, j) <=> Holds(ls, t, q, j)
                        /\ Holds(ls, t, q, j) => OrderAt(g, t, q, j) = OrderAt(ls, t, q, j)
    BY DEF AgreeExcept
  <2>3. CASE t = s /\ q = p
    BY <2>1, <2>2, <2>3, <1>9
  <2>4. CASE t # s \/ q # p
    BY <2>4, <1>9 DEF Holds, OrderAt
  <2>5. QED
    BY <2>3, <2>4
<1>11. QED
    BY <1>2, <1>4, <1>5, <1>9, <1>10 DEF g, i, l, s, p

\* EraseOrder removes one order.
LEMMA EraseOrderOK ==
    ASSUME NEW ls, LevelsOK(ls), NEW s \in Sides, NEW p, NEW i, Holds(ls, s, p, i)
    PROVE  LET g == EraseOrder(ls, s, p, i)
           IN  /\ LevelsOK(g)
               /\ ~Holds(g, s, p, i)
               /\ AgreeExcept(ls, g, s, p, i)
<1> DEFINE l == ls[s][p]
           h == HiveErase(l.orders, i)
           m == [orders |-> h, total_qty |-> l.total_qty - l.orders.at[i].qty]
           g == EraseOrder(ls, s, p, i)
<1>1. p \in DOMAIN ls[s] /\ i \in DOMAIN l.orders.at
    BY DEF Holds
<1>2. LevelOK(l, s, p) /\ p \in ValidPrices
    BY <1>1 DEF LevelsOK, IsLevels, ValidPrices
<1>3. IsHive(l.orders, Orders) /\ HiveOK(l.orders) /\ l.total_qty \in Int
    BY <1>2 DEF LevelOK, IsLevel
<1>4. /\ \A j : j \in DOMAIN l.orders.at <=> Holds(ls, s, p, j)
      /\ \A j : Holds(ls, s, p, j) => l.orders.at[j] = OrderAt(ls, s, p, j)
    BY <1>1 DEF Holds, OrderAt
<1>5. l.orders.at[i].qty \in Nat
    BY <1>1, <1>3 DEF IsHive, Orders
<1> HIDE DEF l
<1>6. /\ IsHive(h, Orders)
      /\ HiveOK(h)
      /\ DOMAIN h.at = DOMAIN l.orders.at \ {i}
      /\ \A j \in DOMAIN l.orders.at \ {i} : h.at[j] = l.orders.at[j]
    BY <1>1, <1>3, EraseKeepsHive
<1> HIDE DEF h
<1>7. m.orders = h /\ LevelOK(m, s, p)
  <2>1. TotalOK(l)
    BY <1>2 DEF LevelOK
  <2>2. /\ IsFiniteSet(Units(h))
        /\ Cardinality(Units(h)) = Cardinality(Units(l.orders)) - l.orders.at[i].qty
    BY <2>1, <1>1, <1>5, <1>6, UnitsTaken DEF TotalOK
  <2>3. TotalOK(m)
    BY <2>1, <2>2 DEF TotalOK
  <2>4. QED
    BY <2>3, <1>2, <1>3, <1>5, <1>6 DEF LevelOK, IsLevel
<1>8. g = KeepLevel(ls, s, p, m)
    BY DEF EraseOrder, l, h
<1>9. /\ LevelsOK(g)
      /\ \A j : Holds(g, s, p, j) <=> j \in DOMAIN h.at
      /\ \A j \in DOMAIN h.at : OrderAt(g, s, p, j) = h.at[j]
      /\ \A t \in Sides : \A q : t # s \/ q # p =>
                     /\ q \in DOMAIN g[t] <=> q \in DOMAIN ls[t]
                     /\ q \in DOMAIN ls[t] => g[t][q] = ls[t][q]
    BY <1>2, <1>7, <1>8, KeepLevelOK
<1> HIDE DEF g, m
<1>10. AgreeExcept(ls, g, s, p, i)
  <2>1. \A j : j # i => /\ j \in DOMAIN h.at <=> Holds(ls, s, p, j)
                        /\ Holds(ls, s, p, j) => h.at[j] = OrderAt(ls, s, p, j)
    BY <1>4, <1>6
  <2>2. SUFFICES ASSUME NEW t \in Sides, NEW q, NEW j, t # s \/ q # p \/ j # i
                 PROVE  /\ Holds(g, t, q, j) <=> Holds(ls, t, q, j)
                        /\ Holds(ls, t, q, j) => OrderAt(g, t, q, j) = OrderAt(ls, t, q, j)
    BY DEF AgreeExcept
  <2>3. CASE t = s /\ q = p
    BY <2>1, <2>2, <2>3, <1>9
  <2>4. CASE t # s \/ q # p
    BY <2>4, <1>9 DEF Holds, OrderAt
  <2>5. QED
    BY <2>3, <2>4
<1>11. QED
    BY <1>6, <1>9, <1>10 DEF g

\* Fill keeps a level: quantity m leaves the order in slot i, and the order
\* leaves the hive when nothing is left of it.
LEMMA FillOK ==
    ASSUME NEW l, NEW s, NEW p, LevelOK(l, s, p),
           NEW i \in DOMAIN l.orders.at,
           NEW m \in Nat, m <= l.orders.at[i].qty
    PROVE  LET f == Fill(l, i, m).orders
               o == l.orders.at[i]
           IN  /\ LevelOK(Fill(l, i, m), s, p)
               /\ o.qty = m => i \notin DOMAIN f.at
               /\ o.qty # m => i \in DOMAIN f.at /\ f.at[i] = [o EXCEPT !.qty = o.qty - m]
               /\ \A j : j # i => j \in DOMAIN f.at <=> j \in DOMAIN l.orders.at
               /\ \A j \in DOMAIN l.orders.at \ {i} : f.at[j] = l.orders.at[j]
<1> DEFINE h == l.orders
           o == h.at[i]
           left == o.qty - m
           f == IF left = 0 THEN HiveErase(h, i) ELSE SetQty(h, i, left)
           n == Fill(l, i, m)
<1>1. IsHive(h, Orders) /\ HiveOK(h) /\ l.total_qty \in Int
      /\ \A j \in DOMAIN h.at : h.at[j].side = s /\ h.at[j].price = p
    BY DEF LevelOK, IsLevel
<1>2. o \in Orders /\ o.qty \in Nat /\ left \in Nat /\ (left = 0 <=> o.qty = m)
  <2>1. o \in Orders
    BY <1>1 DEF IsHive
  <2>2. QED
    BY <2>1 DEF Orders
<1>3. n = [orders |-> f, total_qty |-> l.total_qty - m]
    BY DEF Fill
<1>4. SUFFICES /\ IsHive(f, Orders)
               /\ HiveOK(f)
               /\ left = 0 => i \notin DOMAIN f.at
               /\ left # 0 => /\ i \in DOMAIN f.at
                              /\ f.at[i] = [o EXCEPT !.qty = left]
                              /\ f.at[i].side = s
                              /\ f.at[i].price = p
               /\ \A j : j # i => j \in DOMAIN f.at <=> j \in DOMAIN h.at
               /\ \A j \in DOMAIN h.at \ {i} : f.at[j] = h.at[j]
  <2> HIDE DEF f, o, h
  <2>1. \A j \in DOMAIN f.at : f.at[j].side = s /\ f.at[j].price = p
    BY <1>1, <1>4
  <2>2. TotalOK(l) /\ i \in DOMAIN h.at /\ h.at[i] = o /\ m <= o.qty
    BY DEF LevelOK, o, h
  <2>3. left # 0 => f.at[i].qty = o.qty - m
    BY <1>2, <1>4 DEF Orders
  <2>4. /\ DOMAIN f.at \subseteq DOMAIN h.at
        /\ DOMAIN h.at \ {i} \subseteq DOMAIN f.at
        /\ i \in DOMAIN f.at => f.at[i].qty = h.at[i].qty - m
        /\ i \notin DOMAIN f.at => h.at[i].qty = m
    BY <2>2, <2>3, <1>2, <1>4
  <2>5. IsFiniteSet(Units(f)) /\ Cardinality(Units(f)) = Cardinality(Units(h)) - m
    BY <2>2, <2>4, <1>2, <1>4, UnitsTaken DEF TotalOK, h
  <2>6. TotalOK([orders |-> f, total_qty |-> l.total_qty - m])
    BY <2>2, <2>5 DEF TotalOK, h
  <2>7. LevelOK([orders |-> f, total_qty |-> l.total_qty - m], s, p)
    BY <2>1, <2>6, <1>1, <1>4 DEF LevelOK, IsLevel
  <2>8. QED
    BY <2>7, <1>2, <1>3, <1>4 DEF h, o
<1>5. CASE left = 0
  <2>1. f = HiveErase(h, i)
    BY <1>5
  <2> HIDE DEF f, left
  <2>2. /\ IsHive(f, Orders)
        /\ HiveOK(f)
        /\ DOMAIN f.at = DOMAIN h.at \ {i}
        /\ \A j \in DOMAIN h.at \ {i} : f.at[j] = h.at[j]
    BY <2>1, <1>1, EraseKeepsHive
  <2>3. QED
    BY <2>2, <1>5 DEF f
<1>6. CASE left # 0
  <2> DEFINE r == [o EXCEPT !.qty = left]
  <2>1. r \in Orders /\ r.order_id = o.order_id /\ r.side = o.side /\ r.price = o.price
    BY <1>2 DEF Orders
  <2> HIDE DEF r
  <2>2. f = [at |-> [h.at EXCEPT ![i] = r], end |-> h.end, free |-> h.free]
    BY <1>6 DEF SetQty, r
  <2> HIDE DEF f, left, o
  <2>3. /\ DOMAIN f.at = DOMAIN h.at
        /\ f.at[i] = r
        /\ \A j \in DOMAIN h.at \ {i} : f.at[j] = h.at[j]
        /\ f.end = h.end
        /\ f.free = h.free
        /\ f = [at |-> f.at, end |-> f.end, free |-> f.free]
    BY <2>2
  <2>4. f.at \in [DOMAIN f.at -> Orders]
    BY <2>1, <2>2, <2>3, <1>1 DEF IsHive
  <2>5. IsHive(f, Orders)
    BY <2>3, <2>4, <1>1 DEF IsHive
  <2>6. HiveOK(f)
    BY <2>3, <1>1 DEF HiveOK, RunStarts, Erased
  <2>7. o.side = s /\ o.price = p
    BY <1>1 DEF o
  <2>8. QED
    BY <2>1, <2>3, <2>5, <2>6, <2>7, <1>6 DEF f, r
<1>7. QED
    BY <1>5, <1>6

-----------------------------------------------------------------------------
(* The lookup table *)

\* The lookup table lk and the orders in ls name each other.
Indexed(ls, lk) ==
    /\ DOMAIN lk \subseteq OrderIds
    /\ lk \in [DOMAIN lk -> Locations]
    /\ \A id \in DOMAIN lk :
          /\ Holds(ls, lk[id].it.side, lk[id].it.price, lk[id].it.slot)
          /\ OrderAt(ls, lk[id].it.side, lk[id].it.price, lk[id].it.slot).order_id = id
          /\ lk[id].price = lk[id].it.price
    /\ \A s \in Sides : \A p, i : Holds(ls, s, p, i) =>
          /\ OrderAt(ls, s, p, i).order_id \in DOMAIN lk
          /\ lk[OrderAt(ls, s, p, i).order_id].it = Iter(s, p, i)

\* The order an iterator refers to in levels ls.
OrderOf(ls, it) == OrderAt(ls, it.side, it.price, it.slot)

\* A change to one slot leaves the orders alone that other entries refer to.
LEMMA OrdersElsewhere ==
    ASSUME NEW ls, NEW lk, Indexed(ls, lk), NEW g, NEW s, NEW p, NEW i,
           AgreeExcept(ls, g, s, p, i),
           NEW id, id \in DOMAIN lk, lk[id].it # Iter(s, p, i)
    PROVE  OrderOf(g, lk[id].it) = OrderOf(ls, lk[id].it)
<1> DEFINE it == lk[id].it
<1>1. /\ it.side \in Sides
      /\ it = Iter(it.side, it.price, it.slot)
      /\ Holds(ls, it.side, it.price, it.slot)
    BY DEF Indexed, Locations, Iter
<1>2. it.side # s \/ it.price # p \/ it.slot # i
    BY <1>1
<1>3. QED
    BY <1>1, <1>2 DEF AgreeExcept, OrderOf

\* The entries of the orders that stay still refer to them after an insertion
\* into a slot that held none.
LEMMA InsertElsewhere ==
    ASSUME NEW ls, NEW lk, Indexed(ls, lk), NEW g, NEW s, NEW p, NEW i,
           ~Holds(ls, s, p, i), AgreeExcept(ls, g, s, p, i)
    PROVE  \A id \in DOMAIN lk : OrderOf(g, lk[id].it) = OrderOf(ls, lk[id].it)
<1> TAKE id \in DOMAIN lk
<1>1. Holds(ls, lk[id].it.side, lk[id].it.price, lk[id].it.slot)
    BY DEF Indexed
<1>2. lk[id].it # Iter(s, p, i)
    BY <1>1 DEF Iter
<1>3. QED
    BY <1>2, OrdersElsewhere

\* And after the erasure of another order.
LEMMA EraseElsewhere ==
    ASSUME NEW ls, NEW lk, Indexed(ls, lk), NEW g, NEW id, id \in DOMAIN lk,
           AgreeExcept(ls, g, lk[id].it.side, lk[id].it.price, lk[id].it.slot)
    PROVE  \A k \in DOMAIN lk \ {id} : OrderOf(g, lk[k].it) = OrderOf(ls, lk[k].it)
<1> TAKE k \in DOMAIN lk \ {id}
<1> DEFINE it == lk[id].it
<1>1. OrderOf(ls, lk[k].it).order_id = k /\ OrderOf(ls, lk[id].it).order_id = id
    BY DEF Indexed, OrderOf
<1>2. it = Iter(it.side, it.price, it.slot)
    BY DEF Indexed, Locations, Iter
<1>3. lk[k].it # Iter(it.side, it.price, it.slot)
    BY <1>1, <1>2
<1>4. QED
    BY <1>3, OrdersElsewhere

\* A new order in a slot that held none gets an entry of its own.
LEMMA IndexInsert ==
    ASSUME NEW ls, NEW lk, Indexed(ls, lk), NEW g, NEW o, o \in Orders,
           o.order_id \notin DOMAIN lk,
           NEW i, i \in Nat \ {0},
           Holds(g, o.side, o.price, i), ~Holds(ls, o.side, o.price, i),
           OrderAt(g, o.side, o.price, i) = o,
           AgreeExcept(ls, g, o.side, o.price, i)
    PROVE  Indexed(g, [id \in DOMAIN lk \cup {o.order_id} |->
                          IF id = o.order_id
                            THEN [price |-> o.price, it |-> Iter(o.side, o.price, i)]
                            ELSE lk[id]])
<1> DEFINE loc == [price |-> o.price, it |-> Iter(o.side, o.price, i)]
           nk == [id \in DOMAIN lk \cup {o.order_id} |->
                     IF id = o.order_id THEN loc ELSE lk[id]]
<1>1. /\ o.order_id \in OrderIds /\ o.side \in Sides /\ o.price \in Prices
      /\ loc \in Locations
      /\ loc.price = o.price
      /\ loc.it = Iter(o.side, o.price, i)
      /\ loc.it.side = o.side /\ loc.it.price = o.price /\ loc.it.slot = i
    BY DEF Orders, Locations, Iter
<1>2. /\ DOMAIN nk = DOMAIN lk \cup {o.order_id}
      /\ nk[o.order_id] = loc
      /\ \A id \in DOMAIN lk : nk[id] = lk[id]
    OBVIOUS
<1>3. DOMAIN nk \subseteq OrderIds /\ nk \in [DOMAIN nk -> Locations]
    BY <1>1 DEF Indexed
<1> HIDE DEF nk, loc
<1>4. ASSUME NEW id \in DOMAIN nk
      PROVE  /\ Holds(g, nk[id].it.side, nk[id].it.price, nk[id].it.slot)
             /\ OrderAt(g, nk[id].it.side, nk[id].it.price, nk[id].it.slot).order_id = id
             /\ nk[id].price = nk[id].it.price
  <2>1. CASE id = o.order_id
    BY <2>1, <1>1, <1>2
  <2>2. CASE id \in DOMAIN lk
    <3>1. lk[id].it.side \in Sides
      BY <2>2 DEF Indexed, Locations
    <3>2. QED
      BY <3>1, <2>2, <1>2 DEF Indexed, AgreeExcept
  <2>3. QED
    BY <2>1, <2>2, <1>2
<1>5. ASSUME NEW s \in Sides, NEW p, NEW j, Holds(g, s, p, j)
      PROVE  /\ OrderAt(g, s, p, j).order_id \in DOMAIN nk
             /\ nk[OrderAt(g, s, p, j).order_id].it = Iter(s, p, j)
  <2>1. CASE s = o.side /\ p = o.price /\ j = i
    BY <2>1, <1>1, <1>2
  <2>2. CASE s # o.side \/ p # o.price \/ j # i
    BY <2>2, <1>2, <1>5 DEF Indexed, AgreeExcept
  <2>3. QED
    BY <2>1, <2>2
<1>6. Indexed(g, nk)
    BY <1>3, <1>4, <1>5 DEF Indexed
<1>7. QED
    BY <1>6 DEF nk, loc

\* An order that leaves its slot takes its entry with it.
LEMMA IndexErase ==
    ASSUME NEW ls, NEW lk, Indexed(ls, lk), NEW g, NEW id, id \in DOMAIN lk,
           ~Holds(g, lk[id].it.side, lk[id].it.price, lk[id].it.slot),
           AgreeExcept(ls, g, lk[id].it.side, lk[id].it.price, lk[id].it.slot)
    PROVE  Indexed(g, [k \in DOMAIN lk \ {id} |-> lk[k]])
<1> DEFINE nk == [k \in DOMAIN lk \ {id} |-> lk[k]]
           it == lk[id].it
<1>1. /\ DOMAIN nk = DOMAIN lk \ {id}
      /\ \A k \in DOMAIN lk \ {id} : nk[k] = lk[k]
    OBVIOUS
<1>2. DOMAIN nk \subseteq OrderIds /\ nk \in [DOMAIN nk -> Locations]
    BY DEF Indexed
<1> HIDE DEF nk
<1>3. \A k \in DOMAIN lk : /\ lk[k].it.side \in Sides
                           /\ lk[k].it = Iter(lk[k].it.side, lk[k].it.price, lk[k].it.slot)
    BY DEF Indexed, Locations, Iter
<1>4. ASSUME NEW k \in DOMAIN nk
      PROVE  /\ Holds(g, nk[k].it.side, nk[k].it.price, nk[k].it.slot)
             /\ OrderAt(g, nk[k].it.side, nk[k].it.price, nk[k].it.slot).order_id = k
             /\ nk[k].price = nk[k].it.price
  <2>1. k \in DOMAIN lk /\ nk[k] = lk[k] /\ k # id
    BY <1>1
  <2>2. /\ Holds(ls, lk[k].it.side, lk[k].it.price, lk[k].it.slot)
        /\ OrderAt(ls, lk[k].it.side, lk[k].it.price, lk[k].it.slot).order_id = k
        /\ OrderAt(ls, it.side, it.price, it.slot).order_id = id
        /\ lk[k].price = lk[k].it.price
    BY <2>1 DEF Indexed
  <2>3. lk[k].it.side # it.side \/ lk[k].it.price # it.price \/ lk[k].it.slot # it.slot
    BY <2>1, <2>2
  <2>4. QED
    BY <2>1, <2>2, <2>3, <1>3 DEF AgreeExcept
<1>5. ASSUME NEW s \in Sides, NEW p, NEW j, Holds(g, s, p, j)
      PROVE  /\ OrderAt(g, s, p, j).order_id \in DOMAIN nk
             /\ nk[OrderAt(g, s, p, j).order_id].it = Iter(s, p, j)
  <2>1. s # it.side \/ p # it.price \/ j # it.slot
    BY <1>5
  <2>2. Holds(ls, s, p, j) /\ OrderAt(g, s, p, j) = OrderAt(ls, s, p, j)
    BY <2>1, <1>5 DEF AgreeExcept
  <2> DEFINE k == OrderAt(ls, s, p, j).order_id
  <2>3. k \in DOMAIN lk /\ lk[k].it = Iter(s, p, j)
    BY <2>2 DEF Indexed
  <2>4. k # id
    BY <2>1, <2>3 DEF Iter
  <2>5. QED
    BY <2>2, <2>3, <2>4, <1>1
<1>6. Indexed(g, nk)
    BY <1>2, <1>4, <1>5 DEF Indexed
<1>7. QED
    BY <1>6 DEF nk

\* An order that changes in its slot but keeps its id keeps its entry.
LEMMA IndexUpdate ==
    ASSUME NEW ls, NEW lk, Indexed(ls, lk), NEW g,
           NEW s, s \in Sides, NEW p, NEW i,
           Holds(ls, s, p, i), Holds(g, s, p, i),
           OrderAt(g, s, p, i).order_id = OrderAt(ls, s, p, i).order_id,
           AgreeExcept(ls, g, s, p, i)
    PROVE  Indexed(g, lk)
<1>1. \A t \in Sides : \A q, j :
         /\ Holds(g, t, q, j) <=> Holds(ls, t, q, j)
         /\ Holds(ls, t, q, j) =>
               OrderAt(g, t, q, j).order_id = OrderAt(ls, t, q, j).order_id
    BY DEF AgreeExcept
<1>2. \A k \in DOMAIN lk : lk[k].it.side \in Sides
    BY DEF Indexed, Locations
<1>3. QED
    BY <1>1, <1>2 DEF Indexed

\* One side of a trade: the levels and the lookup table after quantity m left
\* the order in slot i.
LEMMA FillStep ==
    ASSUME NEW ls, LevelsOK(ls), NEW lk, Indexed(ls, lk),
           NEW s, s \in Sides, NEW p, NEW i, Holds(ls, s, p, i),
           NEW m, m \in Nat, m <= OrderAt(ls, s, p, i).qty
    PROVE  LET g == KeepLevel(ls, s, p, Fill(ls[s][p], i, m))
               o == OrderAt(ls, s, p, i)
               gone == IF o.qty = m THEN {o.order_id} ELSE {}
           IN  /\ LevelsOK(g)
               /\ Indexed(g, [id \in DOMAIN lk \ gone |-> lk[id]])
               /\ \A t \in Sides : t # s => g[t] = ls[t]
               /\ \A id \in DOMAIN lk \ gone :
                     OrderOf(g, lk[id].it) = IF id = o.order_id
                                               THEN [o EXCEPT !.qty = o.qty - m]
                                               ELSE OrderOf(ls, lk[id].it)
<1> DEFINE l == ls[s][p]
           n == Fill(l, i, m)
           f == n.orders
           g == KeepLevel(ls, s, p, n)
           o == OrderAt(ls, s, p, i)
           gone == IF o.qty = m THEN {o.order_id} ELSE {}
           nk == [id \in DOMAIN lk \ gone |-> lk[id]]
<1>1. p \in DOMAIN ls[s] /\ i \in DOMAIN l.orders.at /\ o = l.orders.at[i]
    BY DEF Holds, OrderAt
<1>2. LevelOK(l, s, p) /\ p \in ValidPrices
    BY <1>1 DEF LevelsOK, IsLevels, ValidPrices
<1>3. /\ \A j : j \in DOMAIN l.orders.at <=> Holds(ls, s, p, j)
      /\ \A j : Holds(ls, s, p, j) => l.orders.at[j] = OrderAt(ls, s, p, j)
    BY <1>1 DEF Holds, OrderAt
<1> HIDE DEF l
<1>4. /\ LevelOK(n, s, p)
      /\ o.qty = m => i \notin DOMAIN f.at
      /\ o.qty # m => i \in DOMAIN f.at /\ f.at[i] = [o EXCEPT !.qty = o.qty - m]
      /\ \A j : j # i => j \in DOMAIN f.at <=> j \in DOMAIN l.orders.at
      /\ \A j \in DOMAIN l.orders.at \ {i} : f.at[j] = l.orders.at[j]
    BY <1>1, <1>2, FillOK
<1>5. [o EXCEPT !.qty = o.qty - m].order_id = o.order_id
  <2>1. o \in Orders
    BY <1>1, <1>2 DEF LevelOK, IsLevel, IsHive
  <2>2. QED
    BY <2>1 DEF Orders
<1> HIDE DEF n
<1>6. /\ LevelsOK(g)
      /\ \A j : Holds(g, s, p, j) <=> j \in DOMAIN f.at
      /\ \A j \in DOMAIN f.at : OrderAt(g, s, p, j) = f.at[j]
      /\ \A t \in Sides : \A q : t # s \/ q # p =>
                     /\ q \in DOMAIN g[t] <=> q \in DOMAIN ls[t]
                     /\ q \in DOMAIN ls[t] => g[t][q] = ls[t][q]
      /\ \A t \in Sides : t # s => g[t] = ls[t]
    BY <1>2, <1>4, KeepLevelOK
<1> HIDE DEF g, f, o
<1>7. AgreeExcept(ls, g, s, p, i)
  <2>1. \A j : j # i => /\ j \in DOMAIN f.at <=> Holds(ls, s, p, j)
                        /\ Holds(ls, s, p, j) => f.at[j] = OrderAt(ls, s, p, j)
    BY <1>3, <1>4
  <2>2. SUFFICES ASSUME NEW t \in Sides, NEW q, NEW j, t # s \/ q # p \/ j # i
                 PROVE  /\ Holds(g, t, q, j) <=> Holds(ls, t, q, j)
                        /\ Holds(ls, t, q, j) => OrderAt(g, t, q, j) = OrderAt(ls, t, q, j)
    BY DEF AgreeExcept
  <2>3. CASE t = s /\ q = p
    BY <2>1, <2>2, <2>3, <1>6
  <2>4. CASE t # s \/ q # p
    BY <2>4, <1>6 DEF Holds, OrderAt
  <2>5. QED
    BY <2>3, <2>4
<1>8. Indexed(g, nk)
  <2>1. CASE o.qty = m
    <3>1. o.order_id \in DOMAIN lk /\ lk[o.order_id].it = Iter(s, p, i)
      BY DEF Indexed, o
    <3>2. /\ lk[o.order_id].it.side = s
          /\ lk[o.order_id].it.price = p
          /\ lk[o.order_id].it.slot = i
      BY <3>1 DEF Iter
    <3>3. ~Holds(g, s, p, i)
      BY <2>1, <1>4, <1>6
    <3>4. Indexed(g, [k \in DOMAIN lk \ {o.order_id} |-> lk[k]])
      BY <3>1, <3>2, <3>3, <1>7, IndexErase
    <3>5. QED
      BY <3>4, <2>1
  <2>2. CASE o.qty # m
    <3>1. Holds(g, s, p, i) /\ OrderAt(g, s, p, i).order_id = OrderAt(ls, s, p, i).order_id
      BY <2>2, <1>4, <1>6, <1>5 DEF o
    <3>2. Indexed(g, lk)
      BY <3>1, <1>7, IndexUpdate
    <3>3. nk = lk
      BY <2>2 DEF Indexed
    <3>4. QED
      BY <3>2, <3>3
  <2>3. QED
    BY <2>1, <2>2
<1>9. ASSUME NEW id, id \in DOMAIN lk \ gone
      PROVE  OrderOf(g, lk[id].it) = IF id = o.order_id
                                       THEN [o EXCEPT !.qty = o.qty - m]
                                       ELSE OrderOf(ls, lk[id].it)
  <2>1. o.order_id \in DOMAIN lk /\ lk[o.order_id].it = Iter(s, p, i)
    BY DEF Indexed, o
  <2>2. CASE id = o.order_id
    <3>1. o.qty # m
      BY <1>9, <2>2
    <3>2. OrderAt(g, s, p, i) = [o EXCEPT !.qty = o.qty - m]
      BY <3>1, <1>4, <1>6
    <3>3. QED
      BY <3>2, <2>1, <2>2 DEF OrderOf, Iter
  <2>3. CASE id # o.order_id
    <3>1. OrderOf(ls, lk[id].it).order_id = id
      BY <1>9 DEF Indexed, OrderOf
    <3>2. OrderOf(ls, Iter(s, p, i)) = o
      BY DEF OrderOf, Iter, o
    <3>3. lk[id].it # Iter(s, p, i)
      BY <3>1, <3>2, <2>3
    <3>4. OrderOf(g, lk[id].it) = OrderOf(ls, lk[id].it)
      BY <3>3, <1>7, <1>9, OrdersElsewhere
    <3>5. QED
      BY <3>4, <2>3
  <2>4. QED
    BY <2>2, <2>3
<1>10. QED
    BY <1>6, <1>8, <1>9 DEF g, n, l, o

-----------------------------------------------------------------------------
(* The invariant *)

\* A nonempty set of naturals with an upper bound has a greatest element: the
\* last key of bids_ exists.
LEMMA MaxOfNaturals ==
    ASSUME NEW n \in Nat, NEW S, S \subseteq 0..n, S # {}
    PROVE  Max(S) \in S /\ \A x \in S : x <= Max(S)
<1> DEFINE R == {n - x : x \in S}
<1>1. R \subseteq Nat /\ R # {}
  <2>1. \A x \in S : n - x \in Nat
    OBVIOUS
  <2>2. QED
    BY <2>1
<1>2. Min(R) \in R /\ \A y \in R : Min(R) <= y
    BY <1>1, MinOfNaturals
<1>3. PICK m \in S : Min(R) = n - m
    BY <1>2
<1>4. \A x \in S : m >= x
  <2> TAKE x \in S
  <2>1. n - x \in R
    OBVIOUS
  <2>2. n - m <= n - x
    BY <2>1, <1>2, <1>3
  <2>3. x \in Int /\ m \in Int
    OBVIOUS
  <2> HIDE DEF R
  <2>4. QED
    BY <2>2, <2>3
<1>5. QED
    BY <1>4 DEF Max

\* The inductive invariant: the three consistency invariants and the types,
\* regrouped by the variables they speak of.
BookInv ==
    /\ LevelsOK(levels)
    /\ Indexed(levels, lookup)
    /\ executing \in BOOLEAN
    /\ ret \in Results
    /\ logged \in Events

\* The inductive invariant gives the invariants that the runs check.
LEMMA BookInvImplies ==
    BookInv => TypeOK /\ LookupConsistent /\ LevelsConsistent /\ TotalsExact /\ FreeListsExact
<1> SUFFICES ASSUME BookInv
             PROVE  TypeOK /\ LookupConsistent /\ LevelsConsistent /\ TotalsExact /\ FreeListsExact
    OBVIOUS
<1>1. TypeOK
    BY DEF BookInv, TypeOK, LevelsOK, Indexed
<1>2. LookupConsistent
    BY DEF BookInv, LookupConsistent, Indexed, Deref, Holds
<1>3. LevelsConsistent
    BY DEF BookInv, LevelsConsistent, LevelsOK, LevelOK
<1>4. TotalsExact
    BY DEF BookInv, TotalsExact, LevelsOK, LevelOK, TotalOK
<1>5. FreeListsExact
    BY DEF BookInv, FreeListsExact, LevelsOK, LevelOK
<1>6. QED
    BY <1>1, <1>2, <1>3, <1>4, <1>5

\* A new book satisfies the invariant.
LEMMA InitBookInv == Init => BookInv
<1> SUFFICES ASSUME Init PROVE BookInv
    OBVIOUS
<1>1. levels = [s \in Sides |-> <<>>] /\ lookup = <<>>
    BY DEF Init
<1>2. LevelsOK(levels)
    BY <1>1 DEF LevelsOK, IsLevels
<1>3. Indexed(levels, lookup)
    BY <1>1 DEF Indexed, Holds
<1>4. QED
    BY <1>2, <1>3 DEF Init, BookInv, Results, Events

\* What StaleReads may put in a log event is an order, possibly with an
\* overwritten id.  A level that had another order still exists.
LEMMA StaleReadsType ==
    ASSUME LevelsOK(levels), NEW g, LevelsOK(g),
           NEW it, it.side \in Sides,
           Holds(levels, it.side, it.price, it.slot),
           \A j : j # it.slot /\ Holds(levels, it.side, it.price, j)
                     => it.price \in DOMAIN g[it.side],
           NEW o, o \in Orders, NEW since, since \subseteq Orders,
           NEW r, r \in StaleReads(g, it, o, since)
    PROVE  r \in StaleOrders
<1>1. Orders \subseteq StaleOrders
    BY DEF Orders, StaleOrders
<1>2. Garble(o) \in StaleOrders
    BY DEF Orders, StaleOrders, Garble
<1>3. CASE DOMAIN levels[it.side][it.price].orders.at = {it.slot}
  <2>1. r \in {o, Garble(o)} \cup since
    BY <1>3 DEF StaleReads
  <2>2. QED
    BY <2>1, <1>1, <1>2
<1>4. CASE DOMAIN levels[it.side][it.price].orders.at # {it.slot}
  <2> DEFINE h == g[it.side][it.price].orders
  <2>1. PICK j : j # it.slot /\ Holds(levels, it.side, it.price, j)
    BY <1>4 DEF Holds
  <2>2. it.price \in DOMAIN g[it.side]
    BY <2>1
  <2>3. IsHive(h, Orders)
    BY <2>2 DEF LevelsOK, LevelOK, IsLevel
  <2>4. it.slot \in DOMAIN h.at => h.at[it.slot] \in Orders
    BY <2>3 DEF IsHive
  <2>5. r \in {IF it.slot \in DOMAIN h.at THEN h.at[it.slot]
               ELSE IF it.slot \in Range(h.free) THEN Garble(o) ELSE o}
    BY <1>4 DEF StaleReads
  <2> HIDE DEF h
  <2>6. QED
    BY <2>4, <2>5, <1>1, <1>2
<1>5. QED
    BY <1>3, <1>4

\* The step makes o the order of its id and leaves the other orders as they were.
Stores(o) ==
    /\ DOMAIN lookup' = DOMAIN lookup \cup {o.order_id}
    /\ \A id \in DOMAIN lookup' :
          OrderOf(levels', lookup'[id].it) =
             IF id = o.order_id THEN o ELSE OrderOf(levels, lookup[id].it)

\* add() keeps the invariant and stores the order.
LEMMA AddStep ==
    ASSUME BookInv, NEW o \in InputOrders, AddAccepted(o)
    PROVE  BookInv' /\ Stores(o)
<1> DEFINE i == InsertSlot(LevelAt(levels, o.side, o.price).orders)
           g == InsertOrder(levels, o)
<1>1. /\ o.order_id \notin DOMAIN lookup
      /\ o.side \in Sides
      /\ ~(o.price > MaxPrice)
    BY DEF AddAccepted, AddVerdict
<1>2. o \in Orders /\ o.price \in ValidPrices
  <2>1. o.qty \in Nat /\ o.price \in Prices /\ o.price \in Nat /\ MaxPrice \in Nat
    BY OrderTypesAssumption DEF InputOrders
  <2>2. QED
    BY <2>1, <1>1 DEF InputOrders, Orders, ValidPrices
<1>3. LevelsOK(levels) /\ Indexed(levels, lookup)
    BY DEF BookInv
<1>4. /\ LevelsOK(g)
      /\ i \in Nat \ {0}
      /\ ~Holds(levels, o.side, o.price, i)
      /\ Holds(g, o.side, o.price, i)
      /\ OrderAt(g, o.side, o.price, i) = o
      /\ AgreeExcept(levels, g, o.side, o.price, i)
    BY <1>2, <1>3, InsertOrderOK
<1>5. levels' = g /\ executing' = executing /\ ret' = "SUCCESS"
      /\ logged' = PriceLevelUpdate(o)
    BY DEF AddAccepted
<1>6. lookup' = [id \in DOMAIN lookup \cup {o.order_id} |->
                    IF id = o.order_id
                      THEN [price |-> o.price, it |-> Iter(o.side, o.price, i)]
                      ELSE lookup[id]]
    BY DEF AddAccepted, LocationOf
<1> HIDE DEF i, g
<1>7. Indexed(levels', lookup')
    BY <1>1, <1>2, <1>3, <1>4, <1>5, <1>6, IndexInsert
<1>8. logged' \in Events
    BY <1>2, <1>5 DEF Events, PriceLevelUpdate
<1>9. Stores(o)
  <2>1. \A id \in DOMAIN lookup : OrderOf(g, lookup[id].it) = OrderOf(levels, lookup[id].it)
    BY <1>3, <1>4, InsertElsewhere
  <2>2. OrderOf(g, Iter(o.side, o.price, i)) = o
    BY <1>4 DEF OrderOf, Iter
  <2>3. /\ DOMAIN lookup' = DOMAIN lookup \cup {o.order_id}
        /\ lookup'[o.order_id].it = Iter(o.side, o.price, i)
        /\ \A id \in DOMAIN lookup : lookup'[id] = lookup[id]
    BY <1>1, <1>6
  <2>4. QED
    BY <2>1, <2>2, <2>3, <1>1, <1>5 DEF Stores
<1>10. QED
    BY <1>4, <1>5, <1>7, <1>8, <1>9 DEF BookInv, Results

\* The entry of an id, and the order it refers to.
LEMMA EntryOf ==
    ASSUME LevelsOK(levels), Indexed(levels, lookup), NEW id, id \in DOMAIN lookup
    PROVE  LET it == lookup[id].it
               o  == Deref(it)
           IN  /\ it.side \in Sides
               /\ Holds(levels, it.side, it.price, it.slot)
               /\ o \in Orders
               /\ o.order_id = id
               /\ o.side = it.side
               /\ o.price = it.price
               /\ lookup[id].price = it.price
<1> DEFINE it == lookup[id].it
           h  == levels[it.side][it.price].orders
<1>1. /\ it.side \in Sides
      /\ Holds(levels, it.side, it.price, it.slot)
      /\ Deref(it).order_id = id
      /\ lookup[id].price = it.price
    BY DEF Indexed, Locations, Deref
<1>2. /\ LevelOK(levels[it.side][it.price], it.side, it.price)
      /\ it.slot \in DOMAIN h.at
      /\ Deref(it) = h.at[it.slot]
    BY <1>1 DEF LevelsOK, Holds, Deref, OrderAt
<1>3. /\ h.at[it.slot] \in Orders
      /\ h.at[it.slot].side = it.side
      /\ h.at[it.slot].price = it.price
    BY <1>2 DEF LevelOK, IsLevel, IsHive
<1>4. QED
    BY <1>1, <1>2, <1>3

\* cancel() keeps the invariant and removes the order alone.  It logs the id of
\* that order, or the bytes that overwrote it.
LEMMA CancelStep ==
    ASSUME BookInv, NEW id \in OrderIds, CancelAccepted(id)
    PROVE  /\ BookInv'
           /\ DOMAIN lookup' = DOMAIN lookup \ {id}
           /\ \A k \in DOMAIN lookup' :
                 OrderOf(levels', lookup'[k].it) = OrderOf(levels, lookup[k].it)
           /\ \E r : r.order_id \in {id, Garbled} /\ logged' = CancelEvent(r)
<1> DEFINE it == lookup[id].it
           o  == Deref(it)
           g  == EraseOrder(levels, it.side, it.price, it.slot)
<1>1. LevelsOK(levels) /\ Indexed(levels, lookup) /\ id \in DOMAIN lookup
    BY DEF BookInv, CancelAccepted
<1>2. /\ it.side \in Sides
      /\ Holds(levels, it.side, it.price, it.slot)
      /\ o \in Orders
      /\ o.order_id = id
      /\ o.side = it.side
      /\ lookup[id].price = it.price
    BY <1>1, EntryOf
<1>3. /\ levels' = g
      /\ lookup' = [k \in DOMAIN lookup \ {id} |-> lookup[k]]
      /\ executing' = executing
      /\ ret' = "SUCCESS"
      /\ \E r \in StaleReads(g, it, o, {}) : logged' = CancelEvent(r)
    BY <1>2 DEF CancelAccepted
<1> HIDE DEF o, it
<1>4. /\ LevelsOK(g)
      /\ ~Holds(g, it.side, it.price, it.slot)
      /\ AgreeExcept(levels, g, it.side, it.price, it.slot)
    BY <1>1, <1>2, EraseOrderOK
<1> HIDE DEF g
<1>5. Indexed(levels', lookup')
    BY <1>1, <1>3, <1>4, IndexErase DEF it
<1>6. \A j : j # it.slot /\ Holds(levels, it.side, it.price, j)
                => it.price \in DOMAIN g[it.side]
    BY <1>2, <1>4 DEF AgreeExcept, Holds
<1>7. PICK r \in StaleReads(g, it, o, {}) : logged' = CancelEvent(r)
    BY <1>3
<1>8. r \in StaleOrders
    BY <1>1, <1>2, <1>4, <1>6, <1>7, StaleReadsType
<1>9. logged' \in Events
    BY <1>7, <1>8 DEF Events, CancelEvent
<1>10. \A k \in DOMAIN lookup \ {id} : OrderOf(g, lookup[k].it) = OrderOf(levels, lookup[k].it)
    BY <1>1, <1>4, EraseElsewhere DEF it
<1>11. r.order_id \in {id, Garbled}
  <2>1. o.order_id = id /\ Garble(o).order_id = Garbled
    BY <1>2 DEF Garble, Orders
  <2>2. CASE DOMAIN levels[it.side][it.price].orders.at = {it.slot}
    BY <2>1, <2>2, <1>7 DEF StaleReads
  <2>3. CASE DOMAIN levels[it.side][it.price].orders.at # {it.slot}
    <3>1. it.slot \notin DOMAIN g[it.side][it.price].orders.at
      BY <2>3, <1>2, <1>4, <1>6 DEF Holds
    <3>2. QED
      BY <2>1, <2>3, <3>1, <1>7 DEF StaleReads
  <2>4. QED
    BY <2>2, <2>3
<1>12. QED
    BY <1>3, <1>4, <1>5, <1>7, <1>9, <1>10, <1>11 DEF BookInv, Results

\* modify() keeps the invariant and stores the new order, also when it lands in
\* the slot that the old one left.
LEMMA ModifyStep ==
    ASSUME BookInv, NEW o \in InputOrders, ModifyAccepted(o)
    PROVE  BookInv' /\ Stores(o)
<1> DEFINE id  == o.order_id
           it  == lookup[id].it
           old == Deref(it)
           e   == EraseOrder(levels, it.side, it.price, it.slot)
           ek  == [k \in DOMAIN lookup \ {id} |-> lookup[k]]
           i   == InsertSlot(LevelAt(e, o.side, o.price).orders)
           g   == InsertOrder(e, o)
           loc == [price |-> o.price, it |-> Iter(o.side, o.price, i)]
<1>1. /\ LevelsOK(levels)
      /\ Indexed(levels, lookup)
      /\ id \in DOMAIN lookup
      /\ o.side \in Sides
      /\ ~(o.price > MaxPrice)
    BY DEF BookInv, ModifyAccepted, ModifyVerdict
<1>2. o \in Orders /\ o.price \in ValidPrices
  <2>1. o.qty \in Nat /\ o.price \in Prices /\ o.price \in Nat /\ MaxPrice \in Nat
    BY OrderTypesAssumption DEF InputOrders
  <2>2. QED
    BY <2>1, <1>1 DEF InputOrders, Orders, ValidPrices
<1>3. /\ it.side \in Sides
      /\ Holds(levels, it.side, it.price, it.slot)
      /\ old \in Orders
      /\ old.side = it.side
      /\ old.price = it.price
    BY <1>1, EntryOf
<1>4. /\ levels' = g
      /\ lookup' = [lookup EXCEPT ![id] = loc]
      /\ executing' = executing
      /\ ret' = "SUCCESS"
      /\ \E r \in StaleReads(g, it, old, {o}) : logged' = ModifyEvent(r, o)
    BY <1>3 DEF ModifyAccepted, LocationOf
<1> HIDE DEF old, it
<1>5. /\ LevelsOK(e)
      /\ ~Holds(e, it.side, it.price, it.slot)
      /\ AgreeExcept(levels, e, it.side, it.price, it.slot)
    BY <1>1, <1>3, EraseOrderOK
<1> HIDE DEF e
<1>6. /\ Indexed(e, ek)
      /\ id \notin DOMAIN ek
      /\ \A k \in DOMAIN lookup \ {id} :
            OrderOf(e, lookup[k].it) = OrderOf(levels, lookup[k].it)
  <2>1. Indexed(e, ek) /\ id \notin DOMAIN ek
    BY <1>1, <1>5, IndexErase DEF it
  <2> HIDE DEF id
  <2>2. AgreeExcept(levels, e, lookup[id].it.side, lookup[id].it.price, lookup[id].it.slot)
    BY <1>5 DEF it
  <2>3. \A k \in DOMAIN lookup \ {id} :
           OrderOf(e, lookup[k].it) = OrderOf(levels, lookup[k].it)
    BY <2>2, <1>1, EraseElsewhere
  <2>4. QED
    BY <2>1, <2>3
<1>7. /\ LevelsOK(g)
      /\ i \in Nat \ {0}
      /\ ~Holds(e, o.side, o.price, i)
      /\ Holds(g, o.side, o.price, i)
      /\ OrderAt(g, o.side, o.price, i) = o
      /\ AgreeExcept(e, g, o.side, o.price, i)
    BY <1>2, <1>5, InsertOrderOK
<1>8. lookup' = [k \in DOMAIN ek \cup {id} |-> IF k = id THEN loc ELSE ek[k]]
  <2>1. lookup = [k \in DOMAIN lookup |-> lookup[k]]
    BY <1>1 DEF Indexed
  <2> HIDE DEF loc, id
  <2>2. QED
    BY <2>1, <1>1, <1>4
<1> HIDE DEF g, i, ek
<1>9. Indexed(levels', lookup')
  <2>1. Indexed(g, [k \in DOMAIN ek \cup {o.order_id} |->
                       IF k = o.order_id
                         THEN [price |-> o.price, it |-> Iter(o.side, o.price, i)]
                         ELSE ek[k]])
    <3>1. o \in Orders /\ o.order_id \notin DOMAIN ek /\ Indexed(e, ek)
      BY <1>2, <1>6
    <3> HIDE DEF id
    <3>2. QED
      BY <3>1, <1>7, IndexInsert
  <2>2. QED
    BY <2>1, <1>4, <1>8
<1>10. ASSUME NEW j, j # it.slot, Holds(levels, it.side, it.price, j)
       PROVE  it.price \in DOMAIN g[it.side]
  <2>1. Holds(e, it.side, it.price, j)
    BY <1>3, <1>5, <1>10 DEF AgreeExcept
  <2>2. Holds(g, it.side, it.price, j)
    BY <2>1, <1>3, <1>7 DEF AgreeExcept
  <2>3. QED
    BY <2>2 DEF Holds
<1>11. PICK r \in StaleReads(g, it, old, {o}) : logged' = ModifyEvent(r, o)
    BY <1>4
<1>12. r \in StaleOrders
    BY <1>1, <1>2, <1>3, <1>7, <1>10, <1>11, StaleReadsType
<1>13. logged' \in Events
    BY <1>2, <1>11, <1>12 DEF Events, ModifyEvent
<1>14. Stores(o)
  <2>1. /\ DOMAIN ek = DOMAIN lookup \ {id}
        /\ \A k \in DOMAIN ek : ek[k] = lookup[k]
    BY DEF ek
  <2>2. \A k \in DOMAIN ek : OrderOf(e, ek[k].it) = OrderOf(levels, lookup[k].it)
    BY <2>1, <1>6
  <2>3. \A k \in DOMAIN ek : OrderOf(g, ek[k].it) = OrderOf(e, ek[k].it)
    BY <1>6, <1>7, InsertElsewhere
  <2>4. OrderOf(g, loc.it) = o
    BY <1>7 DEF OrderOf, Iter
  <2> HIDE DEF loc
  <2>5. /\ DOMAIN lookup' = DOMAIN ek \cup {id}
        /\ lookup'[id] = loc
        /\ \A k \in DOMAIN ek : lookup'[k] = ek[k]
    BY <1>6, <1>8
  <2>6. QED
    BY <2>1, <2>2, <2>3, <2>4, <2>5, <1>1, <1>4 DEF Stores
<1>15. QED
    BY <1>4, <1>7, <1>9, <1>13, <1>14 DEF BookInv, Results

\* The best levels that execute() reads exist when their side has a level.
LEMMA BestLevels ==
    ASSUME LevelsOK(levels)
    PROVE  /\ DOMAIN levels["BUY"] # {} =>
                 BestBid \in DOMAIN levels["BUY"] /\ \A p \in DOMAIN levels["BUY"] : p <= BestBid
           /\ DOMAIN levels["SELL"] # {} =>
                 BestAsk \in DOMAIN levels["SELL"] /\ \A p \in DOMAIN levels["SELL"] : BestAsk <= p
<1>1. \A s \in Sides : DOMAIN levels[s] \subseteq {p \in Prices : p <= MaxPrice}
    BY DEF LevelsOK, IsLevels
<1>2. Prices \subseteq Nat /\ MaxPrice \in Nat
    BY OrderTypesAssumption
<1>3. /\ DOMAIN levels["BUY"] \subseteq 0..MaxPrice
      /\ DOMAIN levels["SELL"] \subseteq Nat
    BY <1>1, <1>2 DEF Sides
<1>4. DOMAIN levels["BUY"] # {} =>
        /\ Max(DOMAIN levels["BUY"]) \in DOMAIN levels["BUY"]
        /\ \A p \in DOMAIN levels["BUY"] : p <= Max(DOMAIN levels["BUY"])
    BY <1>2, <1>3, MaxOfNaturals
<1>5. DOMAIN levels["SELL"] # {} =>
        /\ Min(DOMAIN levels["SELL"]) \in DOMAIN levels["SELL"]
        /\ \A p \in DOMAIN levels["SELL"] : Min(DOMAIN levels["SELL"]) <= p
    BY <1>3, MinOfNaturals
<1>6. QED
    BY <1>4, <1>5 DEF BestBid, BestAsk

\* A live order is the one its id's entry refers to.
Resting(o) ==
    /\ o.order_id \in DOMAIN lookup
    /\ OrderOf(levels, lookup[o.order_id].it) = o

\* A live order stands in the level of its side and price.
LEMMA RestingOrder ==
    ASSUME LevelsOK(levels), Indexed(levels, lookup),
           NEW s, s \in Sides, NEW p, NEW i, Holds(levels, s, p, i)
    PROVE  LET o == OrderAt(levels, s, p, i)
           IN  /\ o \in Orders
               /\ o.side = s
               /\ o.price = p
               /\ Resting(o)
<1> DEFINE o == OrderAt(levels, s, p, i)
           h == levels[s][p].orders
<1>1. /\ LevelOK(levels[s][p], s, p)
      /\ i \in DOMAIN h.at
      /\ o = h.at[i]
    BY DEF LevelsOK, Holds, OrderAt
<1>2. o \in Orders /\ o.side = s /\ o.price = p
    BY <1>1 DEF LevelOK, IsLevel, IsHive
<1>3. o.order_id \in DOMAIN lookup /\ lookup[o.order_id].it = Iter(s, p, i)
    BY DEF Indexed
<1>4. Resting(o)
    BY <1>3 DEF Resting, OrderOf, Iter
<1>5. QED
    BY <1>2, <1>4

\* An iteration of execute() keeps the invariant, takes the traded quantity from
\* an order at the best bid and an order at the best ask, and touches no other.
LEMMA MatchStep ==
    ASSUME BookInv, Match
    PROVE  /\ BookInv'
           /\ executing' = executing /\ ret' = ret
           /\ \E buy, sell \in Orders :
                 LET m  == IF buy.qty <= sell.qty THEN buy.qty ELSE sell.qty
                     gb == IF buy.qty = m THEN {buy.order_id} ELSE {}
                     gs == IF sell.qty = m THEN {sell.order_id} ELSE {}
                 IN  /\ buy.side = "BUY" /\ buy.price = BestBid
                     /\ sell.side = "SELL" /\ sell.price = BestAsk
                     /\ Resting(buy) /\ Resting(sell)
                     /\ DOMAIN lookup' = (DOMAIN lookup \ gb) \ gs
                     /\ \A id \in DOMAIN lookup' :
                           OrderOf(levels', lookup'[id].it) =
                             IF id = sell.order_id THEN [sell EXCEPT !.qty = sell.qty - m]
                             ELSE IF id = buy.order_id THEN [buy EXCEPT !.qty = buy.qty - m]
                             ELSE OrderOf(levels, lookup[id].it)
                     /\ logged' = TradeReport(buy, BestBid, m, sell, BestAsk)
<1> DEFINE P    == BestBid
           Q    == BestAsk
           bid  == levels["BUY"][P]
           ask  == levels["SELL"][Q]
           b    == Begin(bid.orders)
           a    == Begin(ask.orders)
           buy  == bid.orders.at[b]
           sell == ask.orders.at[a]
           m    == IF buy.qty <= sell.qty THEN buy.qty ELSE sell.qty
           gone == {o.order_id : o \in {x \in {buy, sell} : x.qty = m}}
           gb   == IF buy.qty = m THEN {buy.order_id} ELSE {}
           gs   == IF sell.qty = m THEN {sell.order_id} ELSE {}
           g    == KeepLevel(levels, "BUY", P, Fill(bid, b, m))
           k    == [id \in DOMAIN lookup \ gb |-> lookup[id]]
           h    == KeepLevel(g, "SELL", Q, Fill(ask, a, m))
<1>1. LevelsOK(levels) /\ Indexed(levels, lookup)
    BY DEF BookInv
<1>2. P \in DOMAIN levels["BUY"] /\ Q \in DOMAIN levels["SELL"]
    BY <1>1, BestLevels DEF Match, CanMatch
<1>3. /\ levels' = h
      /\ lookup' = [id \in DOMAIN lookup \ gone |-> lookup[id]]
      /\ logged' = TradeReport(buy, P, m, sell, Q)
      /\ executing' = executing
      /\ ret' = ret
    BY DEF Match
<1> HIDE DEF P, Q
<1>4. /\ IsHive(bid.orders, Orders) /\ DOMAIN bid.orders.at # {}
      /\ IsHive(ask.orders, Orders) /\ DOMAIN ask.orders.at # {}
      /\ P \in Prices /\ Q \in Prices
    BY <1>1, <1>2 DEF LevelsOK, IsLevels, IsLevel, Sides
<1>5. b \in DOMAIN bid.orders.at /\ a \in DOMAIN ask.orders.at
    BY <1>4, BeginIsLive
<1>6. /\ Holds(levels, "BUY", P, b) /\ OrderAt(levels, "BUY", P, b) = buy
      /\ Holds(levels, "SELL", Q, a) /\ OrderAt(levels, "SELL", Q, a) = sell
    BY <1>2, <1>5 DEF Holds, OrderAt
<1> HIDE DEF a, b
<1>7. /\ buy \in Orders /\ buy.side = "BUY" /\ buy.price = P /\ Resting(buy)
      /\ sell \in Orders /\ sell.side = "SELL" /\ sell.price = Q /\ Resting(sell)
    BY <1>1, <1>6, RestingOrder DEF Sides
<1> HIDE DEF buy, sell
<1>8. m \in Nat /\ m <= buy.qty /\ m <= sell.qty
    BY <1>7 DEF Orders
<1> HIDE DEF m
<1>9. /\ LevelsOK(g)
      /\ Indexed(g, k)
      /\ g["SELL"] = levels["SELL"]
      /\ \A id \in DOMAIN lookup \ gb :
            OrderOf(g, lookup[id].it) = IF id = buy.order_id
                                          THEN [buy EXCEPT !.qty = buy.qty - m]
                                          ELSE OrderOf(levels, lookup[id].it)
  <2> DEFINE o == OrderAt(levels, "BUY", P, b)
  <2>1. "BUY" \in Sides /\ "SELL" \in Sides /\ "SELL" # "BUY" /\ m <= o.qty /\ o = buy
    BY <1>6, <1>8 DEF Sides
  <2>2. LET f == KeepLevel(levels, "BUY", P, Fill(levels["BUY"][P], b, m))
        IN  /\ LevelsOK(f)
            /\ Indexed(f, [id \in DOMAIN lookup \ (IF o.qty = m THEN {o.order_id} ELSE {})
                              |-> lookup[id]])
            /\ \A t \in Sides : t # "BUY" => f[t] = levels[t]
            /\ \A id \in DOMAIN lookup \ (IF o.qty = m THEN {o.order_id} ELSE {}) :
                  OrderOf(f, lookup[id].it) = IF id = o.order_id
                                                THEN [o EXCEPT !.qty = o.qty - m]
                                                ELSE OrderOf(levels, lookup[id].it)
    BY <1>1, <1>6, <1>8, <2>1, FillStep
  <2>3. QED
    BY <2>1, <2>2
<1> HIDE DEF g, k
<1>10. /\ Holds(g, "SELL", Q, a)
       /\ OrderAt(g, "SELL", Q, a) = sell
       /\ g["SELL"][Q] = ask
    BY <1>6, <1>9 DEF Holds, OrderAt
<1>11. /\ LevelsOK(h)
       /\ Indexed(h, [id \in DOMAIN k \ gs |-> k[id]])
       /\ \A id \in DOMAIN k \ gs :
             OrderOf(h, k[id].it) = IF id = sell.order_id
                                      THEN [sell EXCEPT !.qty = sell.qty - m]
                                      ELSE OrderOf(g, k[id].it)
  <2> DEFINE o == OrderAt(g, "SELL", Q, a)
  <2>1. "SELL" \in Sides /\ m <= o.qty /\ o = sell
    BY <1>8, <1>10 DEF Sides
  <2>2. LET f == KeepLevel(g, "SELL", Q, Fill(g["SELL"][Q], a, m))
        IN  /\ LevelsOK(f)
            /\ Indexed(f, [id \in DOMAIN k \ (IF o.qty = m THEN {o.order_id} ELSE {})
                              |-> k[id]])
            /\ \A t \in Sides : t # "SELL" => f[t] = g[t]
            /\ \A id \in DOMAIN k \ (IF o.qty = m THEN {o.order_id} ELSE {}) :
                  OrderOf(f, k[id].it) = IF id = o.order_id
                                           THEN [o EXCEPT !.qty = o.qty - m]
                                           ELSE OrderOf(g, k[id].it)
    BY <1>8, <1>9, <1>10, <2>1, FillStep
  <2>3. QED
    BY <2>1, <2>2, <1>10
<1> HIDE DEF h
<1>12. lookup' = [id \in DOMAIN k \ gs |-> k[id]]
  <2>1. gone = gb \cup gs
    OBVIOUS
  <2>2. DOMAIN k = DOMAIN lookup \ gb /\ \A id \in DOMAIN k : k[id] = lookup[id]
    BY DEF k
  <2> HIDE DEF gone, gb, gs
  <2>3. DOMAIN k \ gs = DOMAIN lookup \ gone
    BY <2>1, <2>2
  <2>4. QED
    BY <2>2, <2>3, <1>3
<1>13. logged' \in Events
    BY <1>3, <1>4, <1>7, <1>8 DEF Events, TradeReport, Orders
<1>14. BookInv'
    BY <1>3, <1>11, <1>12, <1>13 DEF BookInv
<1>15. /\ DOMAIN lookup' = (DOMAIN lookup \ gb) \ gs
       /\ \A id \in DOMAIN lookup' :
             OrderOf(levels', lookup'[id].it) =
               IF id = sell.order_id THEN [sell EXCEPT !.qty = sell.qty - m]
               ELSE IF id = buy.order_id THEN [buy EXCEPT !.qty = buy.qty - m]
               ELSE OrderOf(levels, lookup[id].it)
  <2>1. DOMAIN k = DOMAIN lookup \ gb /\ \A id \in DOMAIN k : k[id] = lookup[id]
    BY DEF k
  <2>2. /\ DOMAIN lookup' = DOMAIN k \ gs
        /\ \A id \in DOMAIN k \ gs : lookup'[id] = k[id]
    BY <1>12
  <2> HIDE DEF gb, gs
  <2>3. QED
    BY <2>1, <2>2, <1>3, <1>9, <1>11
<1>16. QED
    BY <1>3, <1>7, <1>14, <1>15 DEF P, Q, m, gb, gs

\* Every step of the book keeps the invariant.
LEMMA NextBookInv == BookInv /\ [Next]_vars => BookInv'
<1> SUFFICES ASSUME BookInv, [Next]_vars PROVE BookInv'
    OBVIOUS
<1>1. ASSUME NEW o \in InputOrders, AddRejected(o) PROVE BookInv'
    BY <1>1 DEF BookInv, AddRejected, AddVerdict, Unchanged, Results, Events
<1>2. ASSUME NEW o \in InputOrders, AddAccepted(o) PROVE BookInv'
    BY <1>2, AddStep
<1>3. ASSUME NEW o \in InputOrders, ModifyRejected(o) PROVE BookInv'
    BY <1>3 DEF BookInv, ModifyRejected, ModifyVerdict, Unchanged, Results, Events
<1>4. ASSUME NEW o \in InputOrders, ModifyAccepted(o) PROVE BookInv'
    BY <1>4, ModifyStep
<1>5. ASSUME NEW id \in OrderIds, CancelRejected(id) PROVE BookInv'
    BY <1>5 DEF BookInv, CancelRejected, Unchanged, Results, Events
<1>6. ASSUME NEW id \in OrderIds, CancelAccepted(id) PROVE BookInv'
    BY <1>6, CancelStep
<1>7. CASE StartExecute
    BY <1>7 DEF BookInv, StartExecute, Results, Events
<1>8. CASE Match
    BY <1>8, MatchStep
<1>9. CASE EndExecute
    BY <1>9 DEF BookInv, EndExecute, Events
<1>10. CASE UNCHANGED vars
    BY <1>10 DEF BookInv, vars
<1>11. QED
    BY <1>1, <1>2, <1>3, <1>4, <1>5, <1>6, <1>7, <1>8, <1>9, <1>10 DEF Next

\* The invariant holds throughout.
LEMMA BookInvAlways == Spec => []BookInv
    BY InitBookInv, NextBookInv, PTL DEF Spec

-----------------------------------------------------------------------------
(* The theorems *)

\* The book's state is well typed, and every price in it has passed the
\* MAX_PRICE check of add() and modify().
THEOREM BookTypeCorrect == Spec => []TypeOK
    BY BookInvAlways, BookInvImplies, PTL

\* The unchecked dereferences of cancel() and modify() are safe: every entry of
\* order_id_lookup_ refers to the live order with its id, and every live order
\* has its entry.
THEOREM LookupTableConsistent == Spec => []LookupConsistent
    BY BookInvAlways, BookInvImplies, PTL

\* The maps of levels hold no level without orders, and no order stands in a
\* level of another side or price.
THEOREM PriceLevelsConsistent == Spec => []LevelsConsistent
    BY BookInvAlways, BookInvImplies, PTL

\* total_qty of every level is the sum of the quantities its orders have left,
\* through any sequence of adds, modifies, cancels and partial fills: the unsigned
\* subtractions of cancel(), modify() and execute() never wrap.
THEOREM LevelTotalsExact == Spec => []TotalsExact
    BY BookInvAlways, BookInvImplies, PTL

\* insert() and erase() keep every hive's free list exact, for hives of any
\* size.
THEOREM HiveFreeListsExact == Spec => []FreeListsExact
    BY BookInvAlways, BookInvImplies, PTL

\* What is stored is what the lookup table names.
LEMMA StoredIndexed ==
    ASSUME BookInv
    PROVE  /\ \A x : x \in Stored <=> \E id \in DOMAIN lookup : x = lookup[id].it
           /\ \A id1, id2 \in DOMAIN lookup : lookup[id1].it = lookup[id2].it => id1 = id2
<1>1. Indexed(levels, lookup)
    BY DEF BookInv
<1>2. ASSUME NEW x \in Stored PROVE \E id \in DOMAIN lookup : x = lookup[id].it
  <2>1. \E s \in Sides : \E p \in DOMAIN levels[s] :
          \E i \in DOMAIN levels[s][p].orders.at : x = Iter(s, p, i)
    BY <1>2 DEF Stored
  <2>2. PICK s, p, i : s \in Sides /\ Holds(levels, s, p, i) /\ x = Iter(s, p, i)
    BY <2>1 DEF Holds
  <2>3. QED
    BY <1>1, <2>2 DEF Indexed
<1>3. ASSUME NEW id \in DOMAIN lookup PROVE lookup[id].it \in Stored
  <2> DEFINE it == lookup[id].it
  <2>1. /\ it \in [side : Sides, price : Prices, slot : Nat \ {0}]
        /\ Holds(levels, it.side, it.price, it.slot)
    BY <1>1 DEF Indexed, Locations
  <2>2. it = Iter(it.side, it.price, it.slot) /\ it.side \in Sides
    BY <2>1 DEF Iter
  <2>3. QED
    BY <2>1, <2>2 DEF Stored, Holds
<1>4. ASSUME NEW id1 \in DOMAIN lookup, NEW id2 \in DOMAIN lookup,
             lookup[id1].it = lookup[id2].it
      PROVE  id1 = id2
    BY <1>1, <1>4 DEF Indexed
<1>5. QED
    BY <1>2, <1>3, <1>4

\* An iteration takes at least one of its two orders out of the lookup table,
\* and moves no other.
LEMMA MatchUnlists ==
    ASSUME BookInv, Match
    PROVE  /\ DOMAIN lookup' \subseteq DOMAIN lookup
           /\ DOMAIN lookup' # DOMAIN lookup
           /\ \A id \in DOMAIN lookup' : lookup'[id] = lookup[id]
<1>1. PICK buy \in Orders, sell \in Orders :
        LET m  == IF buy.qty <= sell.qty THEN buy.qty ELSE sell.qty
            gb == IF buy.qty = m THEN {buy.order_id} ELSE {}
            gs == IF sell.qty = m THEN {sell.order_id} ELSE {}
        IN  /\ Resting(buy) /\ Resting(sell)
            /\ DOMAIN lookup' = (DOMAIN lookup \ gb) \ gs
    BY MatchStep
<1>2. buy.order_id \in DOMAIN lookup /\ sell.order_id \in DOMAIN lookup
    BY <1>1 DEF Resting
<1>3. \/ DOMAIN lookup' \subseteq DOMAIN lookup \ {buy.order_id}
      \/ DOMAIN lookup' \subseteq DOMAIN lookup \ {sell.order_id}
    BY <1>1
<1>4. \A id \in DOMAIN lookup' : lookup'[id] = lookup[id]
    BY DEF Match
<1>5. QED
    BY <1>2, <1>3, <1>4

\* The matching loop cannot go on for ever: for any quantities, zero included,
\* each of its iterations erases an order from the book and inserts none.
THEOREM EveryMatchErases == Spec => MatchErases
<1>1. BookInv' => (\A x : x \in Stored <=> \E id \in DOMAIN lookup : x = lookup[id].it)'
  <2>1. BookInv => \A x : x \in Stored <=> \E id \in DOMAIN lookup : x = lookup[id].it
    BY StoredIndexed
  <2>2. QED
    BY <2>1, PTL
<1>2. ASSUME BookInv, BookInv', [Next]_vars
      PROVE  [executing /\ executing' => Stored' \subseteq Stored /\ Stored' # Stored]_vars
  <2> SUFFICES ASSUME Next, executing, executing'
               PROVE  Stored' \subseteq Stored /\ Stored' # Stored
    BY <1>2
  <2>1. Match
    BY DEF Next, AddRejected, AddAccepted, ModifyRejected, ModifyAccepted,
           CancelRejected, CancelAccepted, StartExecute, EndExecute, Unchanged
  <2>2. /\ DOMAIN lookup' \subseteq DOMAIN lookup
        /\ DOMAIN lookup' # DOMAIN lookup
        /\ \A id \in DOMAIN lookup' : lookup'[id] = lookup[id]
    BY <1>2, <2>1, MatchUnlists
  <2>3. /\ \A x : x \in Stored <=> \E id \in DOMAIN lookup : x = lookup[id].it
        /\ \A id1, id2 \in DOMAIN lookup : lookup[id1].it = lookup[id2].it => id1 = id2
    BY <1>2, StoredIndexed
  <2>4. \A x : x \in Stored' <=> \E id \in DOMAIN lookup' : x = lookup'[id].it
    BY <1>2, <1>1
  <2>5. Stored' \subseteq Stored
    BY <2>2, <2>3, <2>4
  <2>6. PICK id \in DOMAIN lookup : id \notin DOMAIN lookup'
    BY <2>2
  <2>7. lookup[id].it \in Stored /\ lookup[id].it \notin Stored'
    BY <2>2, <2>3, <2>4, <2>6
  <2>8. QED
    BY <2>5, <2>7
<1>3. QED
    BY <1>2, BookInvAlways, PTL DEF MatchErases, Spec
=============================================================================
