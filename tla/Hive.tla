-------------------------------- MODULE Hive --------------------------------
(***************************************************************************)
(* plf::hive<order_t>, the container of one price level's orders           *)
(* (src/includes/plf_hive.h), as pure operators on a record                *)
(*   at   the live elements, a function whose domain is the live slots,    *)
(*   end  the number of slots ever handed out in the block (end_iterator), *)
(*   free the free list of the block, most recently freed run first.       *)
(*                                                                         *)
(* Only the first block of a hive is modelled: a hive allocates a second   *)
(* one when every slot of the first (at least eight, see                   *)
(* block_capacity_default_min) is live.  BlockCapacity of module OrderBook *)
(* names that bound.                                                       *)
(*                                                                         *)
(* The free list links one node per maximal run of erased slots, and the   *)
(* node sits in the memory of the run's first slot: that is why an erased  *)
(* slot of the list has lost the first bytes of its element, and why an    *)
(* erased slot that is not in the list still holds all of it.              *)
(***************************************************************************)
EXTENDS Integers, Sequences, SequencesExt

EmptyHive == [at |-> <<>>, end |-> 0, free |-> <<>>]

Erased(h, i) == i \in 1..h.end /\ i \notin DOMAIN h.at

\* begin(): the lowest live slot.
Begin(h) == Min(DOMAIN h.at)

\* The slot insert() constructs into: the head of the free list, or one more
\* slot at the end when nothing is erased.
InsertSlot(h) == IF h.free = <<>> THEN h.end + 1 ELSE Head(h.free)

(***************************************************************************)
(* insert(): when the reused run has another slot, the list node moves on  *)
(* to it; a run of one leaves the list.                                    *)
(***************************************************************************)
HiveInsert(h, e) ==
    LET i == InsertSlot(h) IN
    [at   |-> [j \in DOMAIN h.at \cup {i} |-> IF j = i THEN e ELSE h.at[j]],
     end  |-> IF h.free = <<>> THEN i ELSE h.end,
     free |-> IF h.free = <<>> THEN <<>>
              ELSE IF Erased(h, i + 1) THEN [h.free EXCEPT ![1] = i + 1]
              ELSE Tail(h.free)]

\* Mutant: the run to the right of an erased slot keeps its own list node.
FreeListAfterErase_KeepsFollowing(h, i) ==
    IF Erased(h, i - 1) THEN h.free ELSE <<i>> \o h.free

(***************************************************************************)
(* The free list after slot i is erased: a new run is pushed, a run on the *)
(* left absorbs the slot, a run on the right moves its node to the slot,   *)
(* and two runs joined by the slot keep the left run's node.               *)
(***************************************************************************)
FreeListAfterErase(h, i) ==
    LET before == Erased(h, i - 1)
        after  == Erased(h, i + 1)
        node   == CHOOSE k \in DOMAIN h.free : h.free[k] = i + 1
    IN  CASE ~before /\ ~after -> <<i>> \o h.free
          []  before /\ ~after -> h.free
          [] ~before /\  after -> [h.free EXCEPT ![node] = i]
          []  before /\  after -> RemoveAt(h.free, node)

\* erase(): emptying the block resets it.
HiveErase(h, i) ==
    IF DOMAIN h.at = {i}
      THEN EmptyHive
      ELSE [at   |-> [j \in DOMAIN h.at \ {i} |-> h.at[j]],
            end  |-> h.end,
            free |-> FreeListAfterErase(h, i)]

\* The first slots of the maximal runs of erased slots.
RunStarts(h) == {i \in 1..h.end : Erased(h, i) /\ ~Erased(h, i - 1)}

\* A hive of elements of T.
IsHive(h, T) ==
    /\ h = [at |-> h.at, end |-> h.end, free |-> h.free]
    /\ h.end \in Nat
    /\ h.free \in Seq(1..h.end)
    /\ DOMAIN h.at \subseteq 1..h.end
    /\ h.at \in [DOMAIN h.at -> T]

\* What erase() and insert() rely on: the free list holds the first slot of
\* every run of erased slots, once each.
HiveOK(h) ==
    /\ IsInjective(h.free)
    /\ Range(h.free) = RunStarts(h)
=============================================================================
