----------------------------- MODULE HiveProofs -----------------------------
(***************************************************************************)
(* What insert(), erase() and begin() of the hive promise the order book,  *)
(* for blocks of any size and elements of any type.                        *)
(***************************************************************************)
EXTENDS Hive, TLAPS, WellFoundedInduction

\* A nonempty set of slots or prices has a least element, and Min returns it:
\* begin() of a hive with orders and the first key of asks_ exist.
LEMMA MinOfNaturals ==
    ASSUME NEW S, S \subseteq Nat, S # {}
    PROVE  Min(S) \in S /\ \A x \in S : Min(S) <= x
<1> DEFINE Less == {ss \in Nat \X Nat : ss[1] < ss[2]}
<1>1. IsWellFoundedOn(Less, Nat)
    BY NatLessThanWellFounded, Zenon DEF OpToRel
<1>2. PICK m \in S : \A x \in S : ~(<<x, m>> \in Less)
    BY <1>1, WFMin, Zenon
<1>3. ASSUME NEW x \in S PROVE m =< x
  <2>1. ~(<<x, m>> \in Less)
    BY <1>2
  <2>2. x \in Nat /\ m \in Nat
    OBVIOUS
  <2>3. x < m => <<x, m>> \in Less
    BY <2>2
  <2>4. QED
    BY <2>1, <2>2, <2>3
<1>4. QED
    BY <1>3 DEF Min

\* The tail of a sequence without repetitions.
LEMMA TailOfInjective ==
    ASSUME NEW S, NEW s \in Seq(S), s # <<>>, IsInjective(s)
    PROVE  /\ Tail(s) \in Seq(S)
           /\ IsInjective(Tail(s))
           /\ Range(Tail(s)) = Range(s) \ {s[1]}
<1>1. Len(s) \in Nat /\ Len(s) # 0 /\ DOMAIN s = 1..Len(s)
    OBVIOUS
<1>2. /\ Tail(s) \in Seq(S)
      /\ Len(Tail(s)) = Len(s) - 1
      /\ \A k \in 1..(Len(s) - 1) : Tail(s)[k] = s[k + 1]
    OBVIOUS
<1>3. DOMAIN Tail(s) = 1..(Len(s) - 1)
    BY <1>1, <1>2
<1>4. \A k \in DOMAIN Tail(s) : k \in Nat /\ k + 1 \in DOMAIN s \ {1} /\ Tail(s)[k] = s[k + 1]
    BY <1>1, <1>2, <1>3
<1>5. \A k \in DOMAIN s \ {1} : k - 1 \in DOMAIN Tail(s) /\ Tail(s)[k - 1] = s[k]
    BY <1>1, <1>2, <1>3
<1>6. \A k \in DOMAIN s \ {1} : s[k] # s[1]
    BY <1>1 DEF IsInjective
<1>7. IsInjective(Tail(s))
  <2>1. SUFFICES ASSUME NEW a \in DOMAIN Tail(s), NEW b \in DOMAIN Tail(s),
                        Tail(s)[a] = Tail(s)[b]
                 PROVE  a = b
    BY DEF IsInjective
  <2>2. s[a + 1] = s[b + 1]
    BY <2>1, <1>4
  <2>3. a + 1 = b + 1
    BY <2>2, <1>4 DEF IsInjective
  <2>4. QED
    BY <2>3, <1>4
<1>8. Range(Tail(s)) = Range(s) \ {s[1]}
  <2> DEFINE t == Tail(s)
  <2>1. /\ \A k \in DOMAIN t : k + 1 \in DOMAIN s \ {1} /\ t[k] = s[k + 1]
        /\ \A k \in DOMAIN s \ {1} : k - 1 \in DOMAIN t /\ t[k - 1] = s[k]
    BY <1>4, <1>5
  <2> HIDE DEF t
  <2>2. \A x : x \in Range(t) => x \in Range(s) \ {s[1]}
    BY <2>1, <1>6 DEF Range
  <2>3. \A x : x \in Range(s) \ {s[1]} => x \in Range(t)
    BY <2>1 DEF Range
  <2>4. QED
    BY <2>2, <2>3 DEF t
<1>9. QED
    BY <1>2, <1>7, <1>8

\* The slot that insert() constructs into is not live.
LEMMA InsertSlotIsFree ==
    ASSUME NEW T, NEW h, IsHive(h, T), HiveOK(h)
    PROVE  /\ InsertSlot(h) \in Nat \ {0}
           /\ InsertSlot(h) \notin DOMAIN h.at
           /\ h.free # <<>> => InsertSlot(h) \in RunStarts(h)
<1>1. CASE h.free = <<>>
    BY <1>1 DEF InsertSlot, IsHive
<1>2. CASE h.free # <<>>
  <2>1. 1 \in DOMAIN h.free /\ Head(h.free) = h.free[1]
    BY <1>2 DEF IsHive
  <2>2. Head(h.free) \in RunStarts(h)
    BY <2>1 DEF HiveOK, Range
  <2>3. QED
    BY <1>2, <2>2 DEF InsertSlot, RunStarts, Erased, IsHive
<1>3. QED
    BY <1>1, <1>2

\* insert() adds the element in a slot of its own, keeps every other element
\* where it was, and leaves an exact free list.
LEMMA InsertKeepsHive ==
    ASSUME NEW T, NEW h, IsHive(h, T), HiveOK(h), NEW e, e \in T
    PROVE  LET g == HiveInsert(h, e)
               i == InsertSlot(h)
           IN  /\ IsHive(g, T)
               /\ HiveOK(g)
               /\ DOMAIN g.at = DOMAIN h.at \cup {i}
               /\ g.at[i] = e
               /\ \A j \in DOMAIN h.at : g.at[j] = h.at[j]
<1> DEFINE g == HiveInsert(h, e)
           i == InsertSlot(h)
<1>1. /\ i \in Nat \ {0}
      /\ i \notin DOMAIN h.at
      /\ h.free # <<>> => i \in RunStarts(h)
    BY InsertSlotIsFree
<1>2. /\ g.at = [j \in DOMAIN h.at \cup {i} |-> IF j = i THEN e ELSE h.at[j]]
      /\ g.end = IF h.free = <<>> THEN i ELSE h.end
      /\ g.free = IF h.free = <<>> THEN <<>>
                  ELSE IF Erased(h, i + 1) THEN [h.free EXCEPT ![1] = i + 1]
                  ELSE Tail(h.free)
      /\ g = [at |-> g.at, end |-> g.end, free |-> g.free]
    BY DEF HiveInsert
<1> HIDE DEF g
<1>3. /\ DOMAIN g.at = DOMAIN h.at \cup {i}
      /\ g.at[i] = e
      /\ \A j \in DOMAIN h.at : g.at[j] = h.at[j]
      /\ g.at \in [DOMAIN g.at -> T]
    BY <1>1, <1>2 DEF IsHive
<1>4. h.end \in Nat /\ h.free \in Seq(1..h.end) /\ DOMAIN h.at \subseteq 1..h.end
    BY DEF IsHive
<1>5. CASE h.free = <<>>
  <2>1. i = h.end + 1 /\ g.end = i /\ g.free = <<>>
    BY <1>2, <1>5 DEF InsertSlot
  <2>2. \A j \in Int : Erased(g, j) <=> Erased(h, j)
    BY <2>1, <1>3, <1>4 DEF Erased
  <2>3. RunStarts(g) = RunStarts(h)
    BY <2>1, <2>2, <1>4 DEF RunStarts, Erased
  <2>4. HiveOK(g)
    BY <2>1, <2>3, <1>5 DEF HiveOK, Range, IsInjective
  <2>5. IsHive(g, T)
    BY <2>1, <1>1, <1>2, <1>3, <1>4 DEF IsHive
  <2>6. QED
    BY <2>4, <2>5, <1>3 DEF g
<1>6. CASE h.free # <<>>
  <2>1. g.end = h.end /\ i = h.free[1] /\ i \in RunStarts(h) /\ 1 \in DOMAIN h.free
    BY <1>1, <1>2, <1>4, <1>6 DEF InsertSlot
  <2>2. i \in 1..h.end /\ Erased(h, i)
    BY <2>1 DEF RunStarts
  <2>3. \A j \in Int : Erased(g, j) <=> Erased(h, j) /\ j # i
    BY <2>1, <2>2, <1>3, <1>4 DEF Erased
  <2>4. i + 1 \notin RunStarts(h)
    BY <2>2, <1>1 DEF RunStarts
  <2>5. CASE Erased(h, i + 1)
    <3>1. g.free = [h.free EXCEPT ![1] = i + 1]
      BY <2>5, <1>2, <1>6
    <3>2. RunStarts(g) = (RunStarts(h) \ {i}) \cup {i + 1}
      BY <2>1, <2>2, <2>3, <2>5, <1>1, <1>4 DEF RunStarts, Erased
    <3>3. DOMAIN g.free = DOMAIN h.free /\ g.free[1] = i + 1
          /\ \A k \in DOMAIN h.free \ {1} : g.free[k] = h.free[k]
      BY <3>1, <2>1
    <3>4. \A k \in DOMAIN h.free \ {1} : h.free[k] # i
      BY <2>1 DEF HiveOK, IsInjective
    <3>5. \A k \in DOMAIN h.free : h.free[k] # i + 1
      BY <2>4 DEF HiveOK, Range
    <3>6. IsInjective(g.free)
      BY <3>3, <3>5 DEF HiveOK, IsInjective
    <3>7. Range(g.free) = (Range(h.free) \ {i}) \cup {i + 1}
      BY <3>3, <3>4, <2>1 DEF Range
    <3>8. HiveOK(g)
      BY <3>2, <3>6, <3>7 DEF HiveOK
    <3>9. g.free \in Seq(1..g.end)
      BY <3>1, <2>1, <2>5, <1>4 DEF Erased
    <3>10. IsHive(g, T)
      BY <3>9, <2>1, <2>2, <1>2, <1>3, <1>4 DEF IsHive
    <3>11. QED
      BY <3>8, <3>10, <1>3 DEF g
  <2>6. CASE ~Erased(h, i + 1)
    <3>1. g.free = Tail(h.free)
      BY <2>6, <1>2, <1>6
    <3>2. RunStarts(g) = RunStarts(h) \ {i}
      BY <2>1, <2>2, <2>3, <2>6, <1>1, <1>4 DEF RunStarts
    <3>3. g.free \in Seq(1..g.end)
      BY <3>1, <2>1, <1>4, <1>6, TailOfInjective DEF HiveOK
    <3>5. IsInjective(g.free)
      BY <3>1, <1>4, <1>6, TailOfInjective DEF HiveOK
    <3>6. Range(g.free) = Range(h.free) \ {i}
      BY <3>1, <2>1, <1>4, <1>6, TailOfInjective DEF HiveOK
    <3>7. HiveOK(g)
      BY <3>2, <3>5, <3>6 DEF HiveOK
    <3>8. IsHive(g, T)
      BY <3>3, <2>1, <2>2, <1>2, <1>3, <1>4 DEF IsHive
    <3>9. QED
      BY <3>7, <3>8, <1>3 DEF g
  <2>7. QED
    BY <2>5, <2>6
<1>7. QED
    BY <1>5, <1>6

\* Removing one position of a sequence without repetitions.
LEMMA RemoveAtOfInjective ==
    ASSUME NEW S, NEW s \in Seq(S), NEW n \in DOMAIN s, IsInjective(s)
    PROVE  /\ RemoveAt(s, n) \in Seq(S)
           /\ IsInjective(RemoveAt(s, n))
           /\ Range(RemoveAt(s, n)) = Range(s) \ {s[n]}
<1> DEFINE t == RemoveAt(s, n)
           old(k) == IF k < n THEN k ELSE k + 1
<1>1. Len(s) \in Nat /\ DOMAIN s = 1..Len(s) /\ n \in 1..Len(s)
    OBVIOUS
<1>2. /\ t \in Seq(S)
      /\ Len(t) = Len(s) - 1
      /\ \A k \in 1..(Len(s) - 1) : t[k] = s[IF k < n THEN k ELSE k + 1]
  <2> DEFINE a == SubSeq(s, 1, n - 1)
             b == SubSeq(s, n + 1, Len(s))
  <2>1. a \in Seq(S) /\ Len(a) = n - 1 /\ \A k \in 1..(n - 1) : a[k] = s[k]
    BY <1>1
  <2>2. /\ b \in Seq(S)
        /\ Len(b) = Len(s) - n
        /\ \A k \in 1..(Len(s) - n) : b[k] = s[n + k]
    BY <1>1
  <2>3. t = a \o b
    BY DEF RemoveAt
  <2> HIDE DEF a, b, t
  <2>4. t \in Seq(S) /\ Len(t) = Len(s) - 1
    <3> a \in Seq(S) /\ b \in Seq(S)
      BY <2>1, <2>2
    <3>1. t \in Seq(S) /\ Len(t) = Len(a) + Len(b)
      BY <2>3
    <3>2. QED
      BY <3>1, <2>1, <2>2, <1>1
  <2>5. ASSUME NEW k \in 1..(Len(s) - 1)
        PROVE  t[k] = s[IF k < n THEN k ELSE k + 1]
    <3>1. CASE k < n
      BY <3>1, <2>1, <2>2, <2>3, <1>1
    <3>2. CASE ~(k < n)
      <4>1. k - (n - 1) \in 1..(Len(s) - n) /\ t[k] = b[k - (n - 1)]
        BY <3>2, <2>1, <2>2, <2>3, <1>1
      <4>2. QED
        BY <4>1, <3>2, <2>2, <1>1
    <3>3. QED
      BY <3>1, <3>2
  <2>6. QED
    BY <2>4, <2>5
<1>3. DOMAIN t = 1..(Len(s) - 1)
    BY <1>1, <1>2
<1>4. \A k \in DOMAIN t : k \in Int /\ old(k) \in DOMAIN s \ {n} /\ t[k] = s[old(k)]
    BY <1>1, <1>2, <1>3
<1>5. \A k \in DOMAIN s \ {n} : \E j \in DOMAIN t : old(j) = k
  <2> TAKE k \in DOMAIN s \ {n}
  <2>1. CASE k < n
    BY <2>1, <1>1, <1>3
  <2>2. CASE k > n
    <3>1. k - 1 \in DOMAIN t /\ old(k - 1) = k
      BY <2>2, <1>1, <1>3
    <3>2. QED
      BY <3>1
  <2>3. QED
    BY <2>1, <2>2, <1>1
<1>6. \A k \in DOMAIN s \ {n} : s[k] # s[n]
    BY DEF IsInjective
<1>7. \A a, b \in DOMAIN t : old(a) = old(b) => a = b
    BY <1>1, <1>3
<1> HIDE DEF t, old
<1>8. IsInjective(t)
    BY <1>4, <1>7 DEF IsInjective
<1>9. \A x : x \in Range(t) => x \in Range(s) \ {s[n]}
    BY <1>4, <1>6 DEF Range
<1>10. \A x : x \in Range(s) \ {s[n]} => x \in Range(t)
    BY <1>4, <1>5 DEF Range
<1>11. QED
    BY <1>2, <1>8, <1>9, <1>10 DEF t

\* erase() removes the element, keeps every other element where it was, and
\* leaves an exact free list.
LEMMA EraseKeepsHive ==
    ASSUME NEW T, NEW h, IsHive(h, T), HiveOK(h), NEW i \in DOMAIN h.at
    PROVE  LET g == HiveErase(h, i)
           IN  /\ IsHive(g, T)
               /\ HiveOK(g)
               /\ DOMAIN g.at = DOMAIN h.at \ {i}
               /\ \A j \in DOMAIN h.at \ {i} : g.at[j] = h.at[j]
<1> DEFINE g == HiveErase(h, i)
<1>1. CASE DOMAIN h.at = {i}
  <2>1. g = [at |-> <<>>, end |-> 0, free |-> <<>>]
    BY <1>1 DEF HiveErase, EmptyHive
  <2>2. IsHive(g, T)
    BY <2>1 DEF IsHive
  <2>3. HiveOK(g)
    BY <2>1 DEF HiveOK, IsInjective, Range, RunStarts
  <2>4. DOMAIN g.at = DOMAIN h.at \ {i}
    BY <2>1, <1>1
  <2>5. QED
    BY <2>2, <2>3, <2>4, <1>1
<1>2. CASE DOMAIN h.at # {i}
  <2> DEFINE before == Erased(h, i - 1)
             after  == Erased(h, i + 1)
             node   == CHOOSE k \in DOMAIN h.free : h.free[k] = i + 1
  <2>1. /\ g.at = [j \in DOMAIN h.at \ {i} |-> h.at[j]]
        /\ g.end = h.end
        /\ g.free = FreeListAfterErase(h, i)
        /\ g = [at |-> g.at, end |-> g.end, free |-> g.free]
    BY <1>2 DEF HiveErase
  <2>2. /\ ~before /\ ~after => g.free = <<i>> \o h.free
        /\  before /\ ~after => g.free = h.free
        /\ ~before /\  after => g.free = [h.free EXCEPT ![node] = i]
        /\  before /\  after => g.free = RemoveAt(h.free, node)
    BY <2>1, Zenon DEF FreeListAfterErase
  <2> HIDE DEF g
  <2>3. h.end \in Nat /\ h.free \in Seq(1..h.end) /\ DOMAIN h.at \subseteq 1..h.end
    BY DEF IsHive
  <2>4. i \in 1..h.end /\ ~Erased(h, i)
    BY <2>3 DEF Erased
  <2>5. \A j \in Int : Erased(g, j) <=> Erased(h, j) \/ j = i
    BY <2>1, <2>4 DEF Erased
  <2>6. RunStarts(g) = (RunStarts(h) \ {i + 1}) \cup (IF before THEN {} ELSE {i})
    BY <2>1, <2>3, <2>4, <2>5 DEF RunStarts
  <2>7. i \notin RunStarts(h) /\ (after <=> i + 1 \in RunStarts(h))
    BY <2>3, <2>4 DEF RunStarts, Erased
  <2>8. /\ \A k \in DOMAIN h.free : h.free[k] # i
        /\ after => node \in DOMAIN h.free /\ h.free[node] = i + 1
    BY <2>7 DEF HiveOK, Range
  <2>9. IsInjective(h.free) /\ Range(h.free) = RunStarts(h)
    BY DEF HiveOK
  <2> HIDE DEF before, after, node
  <2>10. /\ g.free \in Seq(1..h.end)
         /\ IsInjective(g.free)
         /\ Range(g.free) = RunStarts(g)
    <3>1. CASE ~before /\ ~after
      <4> DEFINE f == h.free
                 k == <<i>> \o f
      <4>1. k \in Seq(1..h.end) /\ DOMAIN k = 1..(Len(f) + 1) /\ DOMAIN f = 1..Len(f)
            /\ Len(f) \in Nat
        BY <2>3, <2>4
      <4>2. k[1] = i /\ \A n \in 1..(Len(f) + 1) : n # 1 => k[n] = f[n - 1]
        BY <2>3, <2>4
      <4>3. \A n \in DOMAIN f : n + 1 \in DOMAIN k /\ k[n + 1] = f[n]
        BY <4>1, <4>2
      <4>4. \A n \in DOMAIN k : n = 1 \/ (n - 1 \in DOMAIN f /\ k[n] = f[n - 1])
        BY <4>1, <4>2
      <4> HIDE DEF k
      <4>5. IsInjective(k)
        BY <4>1, <4>2, <4>4, <2>8, <2>9 DEF IsInjective
      <4>6. Range(k) = Range(f) \cup {i}
        <5>1. \A x : x \in Range(k) => x \in Range(f) \cup {i}
          BY <4>2, <4>4 DEF Range
        <5>2. \A x : x \in Range(f) => x \in Range(k)
          BY <4>3 DEF Range
        <5>3. 1 \in DOMAIN k
          BY <4>1
        <5>4. QED
          BY <5>1, <5>2, <5>3, <4>2 DEF Range
      <4>7. QED
        BY <4>1, <4>5, <4>6, <3>1, <2>2, <2>6, <2>7, <2>9 DEF k
    <3>2. CASE before /\ ~after
      BY <3>2, <2>2, <2>3, <2>6, <2>7, <2>9
    <3>3. CASE ~before /\ after
      <4>1. g.free = [h.free EXCEPT ![node] = i] /\ node \in DOMAIN h.free
        BY <3>3, <2>2, <2>8
      <4>2. g.free \in Seq(1..h.end)
        BY <4>1, <2>3, <2>4
      <4>3. DOMAIN g.free = DOMAIN h.free /\ g.free[node] = i
            /\ \A k \in DOMAIN h.free \ {node} : g.free[k] = h.free[k]
        BY <4>1
      <4>4. IsInjective(g.free)
        BY <4>3, <2>8, <2>9 DEF IsInjective
      <4>5. \A k \in DOMAIN h.free \ {node} : h.free[k] # i + 1
        BY <3>3, <2>8, <2>9 DEF IsInjective
      <4>6. Range(g.free) = (Range(h.free) \ {i + 1}) \cup {i}
        BY <4>1, <4>3, <4>5, <3>3, <2>8 DEF Range
      <4>7. QED
        BY <4>2, <4>4, <4>6, <3>3, <2>6, <2>9
    <3>4. CASE before /\ after
      <4>1. node \in DOMAIN h.free /\ h.free[node] = i + 1
        BY <3>4, <2>8
      <4>2. QED
        BY <4>1, <3>4, <2>2, <2>3, <2>6, <2>9, RemoveAtOfInjective
    <3>5. QED
      BY <3>1, <3>2, <3>3, <3>4
  <2>11. IsHive(g, T)
    BY <2>1, <2>3, <2>10 DEF IsHive
  <2>12. HiveOK(g)
    BY <2>10 DEF HiveOK
  <2>13. QED
    BY <2>1, <2>11, <2>12 DEF g
<1>3. QED
    BY <1>1, <1>2

\* begin() of a hive with elements is the lowest live slot.
LEMMA BeginIsLive ==
    ASSUME NEW T, NEW h, IsHive(h, T), DOMAIN h.at # {}
    PROVE  Begin(h) \in DOMAIN h.at
<1>1. DOMAIN h.at \subseteq Nat
    BY DEF IsHive
<1>2. QED
    BY <1>1, MinOfNaturals DEF Begin
=============================================================================
