--------------------------- MODULE SegmentedArray ---------------------------
(***************************************************************************)
(* The hash tree of src/src/segmented_array.rs: a vector is grouped by N,  *)
(* the groups are grouped by N, and so on until N groups or fewer are      *)
(* left; a segment can then be replaced by its hash.  The items are their  *)
(* positions: the code never looks at them.  Hashes are symbolic, equal    *)
(* only if what was hashed is.                                             *)
(*                                                                         *)
(* The tree is kept flat: rounds[k] is `segments` before round k of the    *)
(* loop of from(), and an array names the segments it holds by their place *)
(* in the round before.  The array that from() returns has those of the    *)
(* last round.                                                             *)
(***************************************************************************)
EXTENDS Integers, Sequences, SequencesExt

CONSTANTS
    N,              \* segments in a SegmentedArray
    MaxItems,       \* bound: items in the vector
    MaxRemoved      \* bound: calls of remove_segment()

ASSUME SegmentedArrayAssumption == N \in Nat \ {0} /\ {MaxItems, MaxRemoved} \subseteq Nat

VARIABLES
    count,          \* how many items the vector has
    rounds,         \* the segments of each round, with what was removed since
    built,          \* TRUE once from() has returned
    original,       \* history: the rounds when from() returned
    removed         \* how many segments were removed

vars == <<count, rounds, built, original, removed>>

Item(x) == [kind |-> "item", item |-> x]
Array(s) == [kind |-> "array", segments |-> s]
Unknown(h) == [kind |-> "unknown", hash |-> h]

Init ==
    /\ count \in 0 .. MaxItems
    /\ rounds = <<[i \in 1 .. count |-> Item(i)]>>
    /\ built = FALSE
    /\ original = <<>>
    /\ removed = 0
-----------------------------------------------------------------------------
(* hash() of a segment, given the hashes of the round before, of all the   *)
(* segments of rounds rs, and of their array.                              *)
SegmentHash(s, before) ==
    CASE s.kind = "item" -> <<"item", s.item>>
      [] s.kind = "array" -> <<"array", [j \in DOMAIN s.segments |-> before[s.segments[j]]]>>
      [] s.kind = "unknown" -> s.hash

Hashes(rs) ==
    LET hash[k \in 1 .. Len(rs)] == [i \in DOMAIN rs[k] |-> SegmentHash(rs[k][i], hash[k - 1])]
    IN hash

ArrayHash(rs) == <<"array", Hashes(rs)[Len(rs)]>>

(* items(), in the same way.                                               *)
SegmentItems(s, before) ==
    CASE s.kind = "item" -> <<s.item>>
      [] s.kind = "array" -> FlattenSeq([j \in DOMAIN s.segments |-> before[s.segments[j]]])
      [] s.kind = "unknown" -> <<>>

Items(rs) ==
    LET items[k \in 1 .. Len(rs)] == [i \in DOMAIN rs[k] |-> SegmentItems(rs[k][i], items[k - 1])]
    IN items

ArrayItems(rs) == FlattenSeq(Items(rs)[Len(rs)])
-----------------------------------------------------------------------------
\* Mutant: N segments follow the first.
GroupedTooLong(ss) ==
    LET groups == (Len(ss) + N) \div (N + 1)
        size(g) == IF g < groups THEN N + 1 ELSE Len(ss) - (g - 1) * (N + 1)
    IN [g \in 1 .. groups |-> Array([j \in 1 .. size(g) |-> (g - 1) * (N + 1) + j])]

\* Mutant: the last group is lost when it is not full.
GroupedFull(ss) ==
    [g \in 1 .. Len(ss) \div N |-> Array([j \in 1 .. N |-> (g - 1) * N + j])]

(* One round of from(): groups of N, the last of which may be shorter.     *)
Grouped(ss) ==
    LET groups == (Len(ss) + N - 1) \div N
        size(g) == IF g < groups THEN N ELSE Len(ss) - (g - 1) * N
    IN [g \in 1 .. groups |-> Array([j \in 1 .. size(g) |-> (g - 1) * N + j])]

\* Mutant: from() goes on until a single segment is left.
OneSegment == Len(Last(rounds)) = 1

(* The test at the head of the loop: return, or one round more.            *)
OneArray == Len(Last(rounds)) <= N

Group ==
    /\ ~ built
    /\ ~ OneArray
    /\ rounds' = Append(rounds, Grouped(Last(rounds)))
    /\ UNCHANGED <<count, built, original, removed>>

Return ==
    /\ ~ built
    /\ OneArray
    /\ built' = TRUE
    /\ original' = rounds
    /\ UNCHANGED <<count, rounds, removed>>

(* The segments of each round that are still in the array: those of the    *)
(* arrays that no hash has replaced.                                       *)
Inside[k \in 1 .. Len(rounds)] ==
    IF k = Len(rounds) THEN DOMAIN rounds[k]
    ELSE UNION {Range(rounds[k + 1][i].segments) :
                   i \in {i \in Inside[k + 1] : rounds[k + 1][i].kind = "array"}}

\* Mutant: the items of the segment are hashed, not the segment.
RemovedFlat(k, i) ==
    LET items == Items(rounds)[k][i]
    IN [rounds EXCEPT ![k][i] = Unknown(<<"array", [j \in DOMAIN items |-> <<"item", items[j]>>]>>)]

(* remove_segment() of the array itself or of any array in it (the test    *)
(* goes one level down).                                                   *)
Removed(k, i) == [rounds EXCEPT ![k][i] = Unknown(Hashes(rounds)[k][i])]

RemoveSegment(k, i) ==
    /\ built /\ removed < MaxRemoved
    /\ i \in Inside[k]
    /\ rounds' = Removed(k, i)
    /\ removed' = removed + 1
    /\ UNCHANGED <<count, built, original>>
-----------------------------------------------------------------------------
Next ==
    \/ Group \/ Return
    \/ \E k \in DOMAIN rounds : \E i \in DOMAIN rounds[k] : RemoveSegment(k, i)

Spec == Init /\ [][Next]_vars
-----------------------------------------------------------------------------
(* Segments never hold more than N segments, at any level, and the array   *)
(* that from() returns does not either.                                    *)
SizesBounded ==
    /\ \A k \in DOMAIN rounds : \A i \in DOMAIN rounds[k] :
          rounds[k][i].kind = "array" => Len(rounds[k][i].segments) \in 1 .. N
    /\ built => Len(Last(rounds)) <= N

(* "An array data type whose items can be removed without affecting its    *)
(* hash": whatever is removed, in whatever order.                          *)
HashUnaffected == built => ArrayHash(rounds) = ArrayHash(original)

(* "Note: order of items must not change": no round loses, repeats or      *)
(* moves an item, so that converting back gives the vector, and what is    *)
(* left after removals is in the order of the vector.                      *)
OrderKept ==
    LET left == ArrayItems(rounds)
    IN /\ removed = 0 => left = [i \in 1 .. count |-> i]
       /\ \A i, j \in DOMAIN left : i < j => left[i] < left[j]

(* Every round of from() has fewer segments than the one before, whatever  *)
(* the vector: the loop, which has no other end, returns (for N > 1).      *)
RoundsShrink == [][~ built /\ ~ built' => Len(Last(rounds')) < Len(Last(rounds))]_vars
=============================================================================
