------------------------ MODULE SegmentedArrayProofs ------------------------
(***************************************************************************)
(* Theorems about SegmentedArray, for vectors of any length, groups of any *)
(* size and any removals.                                                  *)
(*                                                                         *)
(* The inductive invariant is RoundsCovered, with the types of the rounds. *)
(* The hashes and the items of the rounds are recursive functions: they    *)
(* are shown to satisfy their equations, and what is said of all rounds is *)
(* proved by the first round that would contradict it.                     *)
(***************************************************************************)
EXTENDS SegmentedArray, WellFoundedInduction, TLAPS

(* A round ss that covers a round of n segments: its array g has those     *)
(* from (g - 1) * N + 1 to g * N, and the last one ends with the round,    *)
(* except that a hash may have taken the place of any.                     *)
Covers(ss, n) ==
    /\ (Len(ss) - 1) * N < n /\ n <= Len(ss) * N
    /\ \A g \in DOMAIN ss :
          \/ ss[g].kind = "unknown"
          \/ LET size == IF g < Len(ss) THEN N ELSE n - (g - 1) * N
             IN ss[g] = Array([j \in 1 .. size |-> (g - 1) * N + j])

(* Each round covers the one before, whatever is removed: every segment is *)
(* in one array and has one place in it.  Only segments of the first round *)
(* are items, and only what was removed is unknown.                        *)
RoundsCovered ==
    /\ Len(rounds[1]) = count
    /\ \A i \in DOMAIN rounds[1] : rounds[1][i].kind = "unknown" \/ rounds[1][i] = Item(i)
    /\ \A k \in 2 .. Len(rounds) : Covers(rounds[k], Len(rounds[k - 1]))
    /\ removed = 0 => \A k \in DOMAIN rounds : \A i \in DOMAIN rounds[k] : rounds[k][i].kind # "unknown"

IsSequence(s) == s \in Seq(Range(s))

Types ==
    /\ count \in 0 .. MaxItems
    /\ built \in BOOLEAN
    /\ removed \in 0 .. MaxRemoved
    /\ IsSequence(rounds) /\ Len(rounds) > 0
    /\ \A k \in DOMAIN rounds : IsSequence(rounds[k])

Returned == built => Len(Last(rounds)) <= N

IndInv == Types /\ RoundsCovered /\ Returned /\ HashUnaffected
-----------------------------------------------------------------------------
LEMMA SequenceFacts ==
    ASSUME NEW s, IsSequence(s)
    PROVE  Len(s) \in Nat /\ DOMAIN s = 1 .. Len(s)
  BY DEF IsSequence

LEMMA FunctionIsSequence ==
    ASSUME NEW n \in Nat, NEW s, DOMAIN s = 1 .. n, s = [i \in 1 .. n |-> s[i]]
    PROVE  IsSequence(s) /\ Len(s) = n
<1>1. s \in [1 .. n -> Range(s)]
  BY DEF Range
<1> QED
  BY <1>1 DEF IsSequence

LEMMA MemberIsSequence ==
    ASSUME NEW S, NEW s \in Seq(S)
    PROVE  IsSequence(s)
<1>1. Len(s) \in Nat /\ DOMAIN s = 1 .. Len(s) /\ s = [i \in 1 .. Len(s) |-> s[i]]
  OBVIOUS
<1> QED
  BY <1>1, FunctionIsSequence

LEMMA LeastRound ==
    ASSUME NEW S, S \subseteq Nat, S # {}
    PROVE  \E x \in S : \A y \in S : ~ (y < x)
<1>1. PICK x \in S : \A y \in S : ~ (<<y, x>> \in OpToRel(<, Nat))
  BY NatLessThanWellFounded, WFMin
<1> QED
  BY <1>1 DEF OpToRel

(* What the groups of n segments are, if there are m of them.              *)
LEMMA GroupCount ==
    ASSUME NEW n \in Nat
    PROVE  LET m == (n + N - 1) \div N
           IN m \in Nat /\ (m - 1) * N < n /\ n <= m * N
<1> DEFINE m == (n + N - 1) \div N
<1>1. m \in Int
  BY SegmentedArrayAssumption
<1> QED
  BY <1>1, SegmentedArrayAssumption

LEMMA GroupBounds ==
    ASSUME NEW n \in Nat, NEW m \in Nat, (m - 1) * N < n, n <= m * N, NEW g \in 1 .. m
    PROVE  LET size == IF g < m THEN N ELSE n - (g - 1) * N
           IN /\ size \in 1 .. N
              /\ (g - 1) * N \in Nat
              /\ (g - 1) * N + size = IF g < m THEN g * N ELSE n
              /\ (g - 1) * N + size <= n
<1>0. N \in Nat \ {0}
  BY SegmentedArrayAssumption
<1>1. (g - 1) * N \in Nat /\ g * N = (g - 1) * N + N /\ m * N = (m - 1) * N + N
  BY <1>0
<1>2. g < m => g * N <= (m - 1) * N
  BY <1>0
<1>3. (m - 1) * N \in Int /\ m * N \in Int /\ g * N \in Int
  BY <1>0
<1>4. CASE g < m
  BY <1>0, <1>1, <1>2, <1>3, <1>4
<1>5. CASE g = m
  BY <1>0, <1>1, <1>3, <1>5
<1> QED
  BY <1>4, <1>5
-----------------------------------------------------------------------------
(* The hashes of rounds rs: there are hashes of the first n rounds, or     *)
(* there would be a least n without.                                       *)
HashEquation(h, rs, n) ==
    h = [k \in 1 .. n |-> [i \in DOMAIN rs[k] |-> SegmentHash(rs[k][i], h[k - 1])]]

LEMMA HashBefore ==
    ASSUME NEW s, s.kind # "array", NEW a, NEW b
    PROVE  SegmentHash(s, a) = SegmentHash(s, b)
  BY DEF SegmentHash

LEMMA HashExists ==
    ASSUME NEW rs, Len(rs) \in Nat, \A i \in DOMAIN rs[1] : rs[1][i].kind # "array",
           NEW n \in Nat
    PROVE  \E h : HashEquation(h, rs, n)
<1> DEFINE S == {m \in Nat : ~ \E h : HashEquation(h, rs, m)}
<1>1. CASE S = {}
  BY <1>1
<1>2. CASE S # {}
  <2>1. PICK x \in S : \A y \in S : ~ (y < x)
    BY <1>2, LeastRound
  <2>2. x # 0
    <3> DEFINE h == [k \in 1 .. 0 |-> 0]
    <3>1. HashEquation(h, rs, 0)
      BY DEF HashEquation
    <3> QED
      BY <2>1, <3>1
  <2>3. PICK f : HashEquation(f, rs, x - 1)
    <3>1. x - 1 \in Nat /\ x - 1 < x
      BY <2>1, <2>2
    <3> QED
      BY <2>1, <3>1
  <2> DEFINE last == [i \in DOMAIN rs[x] |-> SegmentHash(rs[x][i], f[x - 1])]
             h == [k \in 1 .. x |-> IF k = x THEN last ELSE f[k]]
  <2> HIDE DEF last
  <2>4. ASSUME NEW k \in 1 .. x
        PROVE  h[k] = [i \in DOMAIN rs[k] |-> SegmentHash(rs[k][i], h[k - 1])]
    <3>1. k \in Nat /\ x \in Nat
      BY <2>1
    <3>2. h[k] = [i \in DOMAIN rs[k] |-> SegmentHash(rs[k][i], f[k - 1])]
      <4>1. CASE k = x
        BY <4>1 DEF last
      <4>2. CASE k # x
        <5>1. k \in 1 .. x - 1 /\ h[k] = f[k]
          BY <3>1, <4>2
        <5> QED
          BY <2>3, <5>1 DEF HashEquation
      <4> QED
        BY <4>1, <4>2
    <3>3. CASE k = 1
      <4>1. \A i \in DOMAIN rs[k] : SegmentHash(rs[k][i], f[k - 1]) = SegmentHash(rs[k][i], h[k - 1])
        BY <3>3, HashBefore
      <4> QED
        BY <3>2, <4>1
    <3>4. CASE k # 1
      <4>1. h[k - 1] = f[k - 1]
        BY <3>1, <3>4
      <4> QED
        BY <3>2, <4>1
    <3> QED
      BY <3>3, <3>4
  <2> HIDE DEF h
  <2>5. h = [k \in 1 .. x |-> h[k]]
    BY DEF h
  <2>6. HashEquation(h, rs, x)
    BY <2>4, <2>5 DEF HashEquation
  <2> QED
    BY <2>1, <2>6
<1> QED
  BY <1>1, <1>2

LEMMA HashesUnfold ==
    ASSUME NEW rs, Len(rs) \in Nat, \A i \in DOMAIN rs[1] : rs[1][i].kind # "array"
    PROVE  \A k \in 1 .. Len(rs) :
              Hashes(rs)[k] = [i \in DOMAIN rs[k] |-> SegmentHash(rs[k][i], Hashes(rs)[k - 1])]
<1>1. \E h : HashEquation(h, rs, Len(rs))
  BY HashExists
<1>2. Hashes(rs) = CHOOSE h : HashEquation(h, rs, Len(rs))
  BY DEF Hashes, HashEquation
<1>3. HashEquation(Hashes(rs), rs, Len(rs))
  BY <1>1, <1>2
<1> QED
  BY <1>3 DEF HashEquation

(* Their items, in the same way.                                           *)
ItemsEquation(h, rs, n) ==
    h = [k \in 1 .. n |-> [i \in DOMAIN rs[k] |-> SegmentItems(rs[k][i], h[k - 1])]]

LEMMA ItemsBefore ==
    ASSUME NEW s, s.kind # "array", NEW a, NEW b
    PROVE  SegmentItems(s, a) = SegmentItems(s, b)
  BY DEF SegmentItems

LEMMA ItemsExist ==
    ASSUME NEW rs, Len(rs) \in Nat, \A i \in DOMAIN rs[1] : rs[1][i].kind # "array",
           NEW n \in Nat
    PROVE  \E h : ItemsEquation(h, rs, n)
<1> DEFINE S == {m \in Nat : ~ \E h : ItemsEquation(h, rs, m)}
<1>1. CASE S = {}
  BY <1>1
<1>2. CASE S # {}
  <2>1. PICK x \in S : \A y \in S : ~ (y < x)
    BY <1>2, LeastRound
  <2>2. x # 0
    <3> DEFINE h == [k \in 1 .. 0 |-> 0]
    <3>1. ItemsEquation(h, rs, 0)
      BY DEF ItemsEquation
    <3> QED
      BY <2>1, <3>1
  <2>3. PICK f : ItemsEquation(f, rs, x - 1)
    <3>1. x - 1 \in Nat /\ x - 1 < x
      BY <2>1, <2>2
    <3> QED
      BY <2>1, <3>1
  <2> DEFINE last == [i \in DOMAIN rs[x] |-> SegmentItems(rs[x][i], f[x - 1])]
             h == [k \in 1 .. x |-> IF k = x THEN last ELSE f[k]]
  <2> HIDE DEF last
  <2>4. ASSUME NEW k \in 1 .. x
        PROVE  h[k] = [i \in DOMAIN rs[k] |-> SegmentItems(rs[k][i], h[k - 1])]
    <3>1. k \in Nat /\ x \in Nat
      BY <2>1
    <3>2. h[k] = [i \in DOMAIN rs[k] |-> SegmentItems(rs[k][i], f[k - 1])]
      <4>1. CASE k = x
        BY <4>1 DEF last
      <4>2. CASE k # x
        <5>1. k \in 1 .. x - 1 /\ h[k] = f[k]
          BY <3>1, <4>2
        <5> QED
          BY <2>3, <5>1 DEF ItemsEquation
      <4> QED
        BY <4>1, <4>2
    <3>3. CASE k = 1
      <4>1. \A i \in DOMAIN rs[k] : SegmentItems(rs[k][i], f[k - 1]) = SegmentItems(rs[k][i], h[k - 1])
        BY <3>3, ItemsBefore
      <4> QED
        BY <3>2, <4>1
    <3>4. CASE k # 1
      <4>1. h[k - 1] = f[k - 1]
        BY <3>1, <3>4
      <4> QED
        BY <3>2, <4>1
    <3> QED
      BY <3>3, <3>4
  <2> HIDE DEF h
  <2>5. h = [k \in 1 .. x |-> h[k]]
    BY DEF h
  <2>6. ItemsEquation(h, rs, x)
    BY <2>4, <2>5 DEF ItemsEquation
  <2> QED
    BY <2>1, <2>6
<1> QED
  BY <1>1, <1>2

LEMMA ItemsUnfold ==
    ASSUME NEW rs, Len(rs) \in Nat, \A i \in DOMAIN rs[1] : rs[1][i].kind # "array"
    PROVE  \A k \in 1 .. Len(rs) :
              Items(rs)[k] = [i \in DOMAIN rs[k] |-> SegmentItems(rs[k][i], Items(rs)[k - 1])]
<1>1. \E h : ItemsEquation(h, rs, Len(rs))
  BY ItemsExist
<1>2. Items(rs) = CHOOSE h : ItemsEquation(h, rs, Len(rs))
  BY DEF Items, ItemsEquation
<1>3. ItemsEquation(Items(rs), rs, Len(rs))
  BY <1>1, <1>2
<1> QED
  BY <1>3 DEF ItemsEquation
-----------------------------------------------------------------------------
(* Replacing a segment by its hash changes no hash of its round, and so    *)
(* none of a later one: there would be a first round to change.            *)
LEMMA HashesStay ==
    ASSUME NEW rs, IsSequence(rs), \A i \in DOMAIN rs[1] : rs[1][i].kind # "array",
           NEW new, IsSequence(new), Len(new) = Len(rs), Len(rs) > 0,
           \A k \in DOMAIN rs :
              /\ DOMAIN new[k] = DOMAIN rs[k]
              /\ \A i \in DOMAIN rs[k] :
                    \/ new[k][i] = rs[k][i]
                    \/ new[k][i] = Unknown(Hashes(rs)[k][i])
    PROVE  ArrayHash(new) = ArrayHash(rs)
<1>1. Len(rs) \in Nat /\ DOMAIN rs = 1 .. Len(rs) /\ 1 \in DOMAIN rs
  BY SequenceFacts
<1>2. \A i \in DOMAIN new[1] : new[1][i].kind # "array"
  <2>1. ASSUME NEW h  PROVE Unknown(h).kind # "array"
    BY DEF Unknown
  <2>2. ASSUME NEW i \in DOMAIN new[1]  PROVE new[1][i].kind # "array"
    <3>1. i \in DOMAIN rs[1]
      BY <1>1
    <3>2. new[1][i] = rs[1][i] \/ new[1][i] = Unknown(Hashes(rs)[1][i])
      BY <1>1, <3>1
    <3> QED
      BY <2>1, <3>1, <3>2
  <2> QED
    BY <2>2
<1>3. \A k \in 1 .. Len(rs) :
         Hashes(rs)[k] = [i \in DOMAIN rs[k] |-> SegmentHash(rs[k][i], Hashes(rs)[k - 1])]
  BY <1>1, HashesUnfold
<1>4. \A k \in 1 .. Len(rs) :
         Hashes(new)[k] = [i \in DOMAIN new[k] |-> SegmentHash(new[k][i], Hashes(new)[k - 1])]
  <2>1. Len(new) \in Nat
    BY <1>1
  <2>2. \A k \in 1 .. Len(new) :
           Hashes(new)[k] = [i \in DOMAIN new[k] |-> SegmentHash(new[k][i], Hashes(new)[k - 1])]
    BY <1>2, <2>1, HashesUnfold
  <2> QED
    BY <2>2
<1> DEFINE S == {k \in 1 .. Len(rs) : Hashes(new)[k] # Hashes(rs)[k]}
<1>5. CASE S # {}
  <2>1. PICK x \in S : \A y \in S : ~ (y < x)
    <3>1. S \subseteq Nat
      OBVIOUS
    <3> QED
      BY <1>5, <3>1, LeastRound
  <2>2. x \in DOMAIN rs /\ x \in 1 .. Len(rs)
    BY <1>1
  <2>3. \A i \in DOMAIN rs[x] : Hashes(rs)[x][i] = SegmentHash(rs[x][i], Hashes(rs)[x - 1])
    BY <1>3, <2>2
  <2>4. ASSUME NEW i \in DOMAIN rs[x]
        PROVE  SegmentHash(new[x][i], Hashes(new)[x - 1]) = Hashes(rs)[x][i]
    <3>1. CASE new[x][i] = Unknown(Hashes(rs)[x][i])
      BY <3>1 DEF SegmentHash, Unknown
    <3>2. CASE new[x][i] = rs[x][i]
      <4>1. CASE x = 1
        BY <1>2, <2>2, <2>3, <3>2, <4>1, HashBefore
      <4>2. CASE x # 1
        <5>1. x - 1 \in 1 .. Len(rs) /\ x - 1 < x
          BY <1>1, <2>2, <4>2
        <5>2. Hashes(new)[x - 1] = Hashes(rs)[x - 1]
          BY <2>1, <5>1
        <5> QED
          BY <2>3, <3>2, <5>2
      <4> QED
        BY <4>1, <4>2
    <3> QED
      BY <2>2, <3>1, <3>2
  <2>5. Hashes(new)[x] = Hashes(rs)[x]
    <3>1. DOMAIN new[x] = DOMAIN rs[x]
      BY <2>2
    <3> QED
      BY <1>3, <1>4, <2>2, <2>3, <2>4, <3>1
  <2> QED
    BY <2>5
<1>6. CASE S = {}
  <2>1. Hashes(new)[Len(rs)] = Hashes(rs)[Len(rs)]
    BY <1>1, <1>6
  <2> QED
    BY <2>1 DEF ArrayHash
<1> QED
  BY <1>5, <1>6
-----------------------------------------------------------------------------
(* Items s come from the places after a and up to b of the vector, in      *)
(* order, and are all of them if nothing was removed.                      *)
Fits(s, a, b) ==
    /\ a <= b
    /\ s \in Seq(Nat)
    /\ \A i \in 1 .. Len(s) : a < s[i] /\ s[i] <= b
    /\ \A i, j \in 1 .. Len(s) : i < j => s[i] < s[j]
    /\ removed = 0 => Len(s) = b - a /\ \A i \in 1 .. Len(s) : s[i] = a + i

LEMMA FitsConcat ==
    ASSUME NEW a \in Nat, NEW b \in Nat, NEW c \in Nat,
           NEW s, NEW t, Fits(s, a, b), Fits(t, b, c)
    PROVE  Fits(s \o t, a, c)
<1>1. s \in Seq(Nat) /\ t \in Seq(Nat) /\ s \o t \in Seq(Nat) /\ Len(s \o t) = Len(s) + Len(t)
  BY DEF Fits
<1>2. ASSUME NEW i \in 1 .. Len(s \o t)
      PROVE  \/ i \in 1 .. Len(s) /\ (s \o t)[i] = s[i]
             \/ i - Len(s) \in 1 .. Len(t) /\ (s \o t)[i] = t[i - Len(s)]
  BY <1>1
<1>3. \A i \in 1 .. Len(s \o t) : a < (s \o t)[i] /\ (s \o t)[i] <= c
  BY <1>1, <1>2 DEF Fits
<1>4. ASSUME NEW i \in 1 .. Len(s \o t), NEW j \in 1 .. Len(s \o t), i < j
      PROVE  (s \o t)[i] < (s \o t)[j]
  <2>1. CASE i \in 1 .. Len(s) /\ j \in 1 .. Len(s)
    BY <1>1, <1>4, <2>1 DEF Fits
  <2>2. CASE i \in 1 .. Len(s) /\ j \notin 1 .. Len(s)
    <3>1. s[i] <= b /\ (s \o t)[i] = s[i]
      BY <1>1, <2>2 DEF Fits
    <3>2. j - Len(s) \in 1 .. Len(t) /\ (s \o t)[j] = t[j - Len(s)]
      BY <1>1, <2>2
    <3>3. b < t[j - Len(s)]
      BY <3>2 DEF Fits
    <3>4. s[i] \in Nat /\ t[j - Len(s)] \in Nat
      BY <1>1, <2>2, <3>2
    <3> QED
      BY <3>1, <3>2, <3>3, <3>4
  <2>3. CASE i \notin 1 .. Len(s)
    <3>1. /\ i - Len(s) \in 1 .. Len(t) /\ (s \o t)[i] = t[i - Len(s)]
          /\ j - Len(s) \in 1 .. Len(t) /\ (s \o t)[j] = t[j - Len(s)]
          /\ i - Len(s) < j - Len(s)
      BY <1>1, <1>4, <2>3
    <3> QED
      BY <3>1 DEF Fits
  <2> QED
    BY <2>1, <2>2, <2>3
<1>5. ASSUME removed = 0
      PROVE  /\ Len(s \o t) = c - a
             /\ \A i \in 1 .. Len(s \o t) : (s \o t)[i] = a + i
  <2>1. /\ Len(s) = b - a /\ \A i \in 1 .. Len(s) : s[i] = a + i
        /\ Len(t) = c - b /\ \A i \in 1 .. Len(t) : t[i] = b + i
    BY <1>5 DEF Fits
  <2>2. ASSUME NEW i \in 1 .. Len(s \o t)
        PROVE  (s \o t)[i] = a + i
    <3>1. CASE i \in 1 .. Len(s)
      BY <1>1, <2>1, <3>1
    <3>2. CASE i \notin 1 .. Len(s)
      <4>1. i - Len(s) \in 1 .. Len(t) /\ (s \o t)[i] = t[i - Len(s)]
        BY <1>1, <3>2
      <4>2. (s \o t)[i] = b + (i - (b - a))
        BY <2>1, <4>1
      <4>3. i \in Int
        BY <1>1
      <4> QED
        BY <4>2, <4>3
    <3> QED
      BY <3>1, <3>2
  <2> QED
    BY <1>1, <2>1, <2>2
<1>6. a <= c
  BY DEF Fits
<1> QED
  BY <1>1, <1>3, <1>4, <1>5, <1>6 DEF Fits

(* FlattenSeq joins the sequences one after the other.                     *)
LEMMA FlattenUnfolds ==
    ASSUME NEW ss, Len(ss) \in Nat
    PROVE  IF Len(ss) = 0 THEN FlattenSeq(ss) = ss
           ELSE \E f : /\ FlattenSeq(ss) = f[Len(ss)]
                       /\ \A i \in 1 .. Len(ss) : f[i] = IF i = 1 THEN ss[1] ELSE f[i - 1] \o ss[i]
<1> DEFINE Equation(f, n) == f = [i \in 1 .. n |-> IF i = 1 THEN ss[i] ELSE f[i - 1] \o ss[i]]
<1>1. CASE Len(ss) = 0
  BY <1>1 DEF FlattenSeq
<1>2. CASE Len(ss) # 0
  <2> DEFINE S == {m \in Nat : ~ \E f : Equation(f, m)}
  <2>1. CASE S # {}
    <3>1. PICK x \in S : \A y \in S : ~ (y < x)
      BY <2>1, LeastRound
    <3>2. x # 0
      <4> DEFINE f == [i \in 1 .. 0 |-> 0]
      <4>1. Equation(f, 0)
        OBVIOUS
      <4> QED
        BY <3>1, <4>1
    <3>3. PICK f : Equation(f, x - 1)
      <4>1. x - 1 \in Nat /\ x - 1 < x
        BY <3>1, <3>2
      <4> QED
        BY <3>1, <4>1
    <3> DEFINE g == [i \in 1 .. x |-> IF i = 1 THEN ss[i] ELSE f[i - 1] \o ss[i]]
    <3>4. ASSUME NEW i \in 1 .. x, i # 1
          PROVE  g[i - 1] = f[i - 1]
      <4>1. i - 1 \in 1 .. x - 1 /\ i - 1 \in 1 .. x
        BY <3>1, <3>4
      <4>2. f[i - 1] = IF i - 1 = 1 THEN ss[i - 1] ELSE f[i - 1 - 1] \o ss[i - 1]
        BY <3>3, <4>1, Zenon
      <4>3. g[i - 1] = IF i - 1 = 1 THEN ss[i - 1] ELSE f[i - 1 - 1] \o ss[i - 1]
        BY <4>1
      <4> QED
        BY <4>2, <4>3
    <3>5. Equation(g, x)
      BY <3>1, <3>4
    <3> QED
      BY <3>1, <3>5
  <2>2. CASE S = {}
    <3>1. \E f : Equation(f, Len(ss))
      BY <2>2
    <3>2. FlattenSeq(ss) = (CHOOSE f : Equation(f, Len(ss)))[Len(ss)]
      BY <1>2 DEF FlattenSeq
    <3>3. PICK f : Equation(f, Len(ss)) /\ FlattenSeq(ss) = f[Len(ss)]
      BY <3>1, <3>2
    <3> QED
      BY <1>2, <3>3
  <2> QED
    BY <2>1, <2>2
<1> QED
  BY <1>1, <1>2
LEMMA FlattenFits ==
    ASSUME NEW ss, Len(ss) \in Nat, ss \in Seq(Range(ss)),
           NEW e, \A i \in 0 .. Len(ss) : e[i] \in Nat,
           \A i \in 1 .. Len(ss) : Fits(ss[i], e[i - 1], e[i])
    PROVE  Fits(FlattenSeq(ss), e[0], e[Len(ss)])
<1>1. CASE Len(ss) = 0
  <2>1. FlattenSeq(ss) = ss /\ ss = <<>> /\ e[0] \in Nat
    BY <1>1, FlattenUnfolds
  <2> QED
    BY <1>1, <2>1 DEF Fits
<1>2. CASE Len(ss) # 0
  <2>1. PICK f : /\ FlattenSeq(ss) = f[Len(ss)]
                 /\ \A i \in 1 .. Len(ss) : f[i] = IF i = 1 THEN ss[1] ELSE f[i - 1] \o ss[i]
    BY <1>2, FlattenUnfolds
  <2> DEFINE S == {n \in 1 .. Len(ss) : ~ Fits(f[n], e[0], e[n])}
  <2>2. CASE S # {}
    <3>1. PICK x \in S : \A y \in S : ~ (y < x)
      <4>1. S \subseteq Nat
        OBVIOUS
      <4> QED
        BY <2>2, <4>1, LeastRound
    <3>2. CASE x = 1
      <4>1. f[1] = ss[1] /\ Fits(ss[1], e[0], e[1])
        BY <2>1, <3>2
      <4> QED
        BY <3>1, <3>2, <4>1
    <3>3. CASE x # 1
      <4>1. x - 1 \in 1 .. Len(ss) /\ x - 1 < x
        BY <3>1, <3>3
      <4>2. Fits(f[x - 1], e[0], e[x - 1])
        BY <3>1, <4>1
      <4>3. Fits(ss[x], e[x - 1], e[x]) /\ f[x] = f[x - 1] \o ss[x]
        BY <2>1, <3>3
      <4>4. e[0] \in Nat /\ e[x - 1] \in Nat /\ e[x] \in Nat
        BY <4>1
      <4>5. Fits(f[x], e[0], e[x])
        BY <4>2, <4>3, <4>4, FitsConcat
      <4> QED
        BY <4>5
    <3> QED
      BY <3>2, <3>3
  <2>3. CASE S = {}
    BY <1>2, <2>1, <2>3
  <2> QED
    BY <2>2, <2>3
<1> QED
  BY <1>1, <1>2
-----------------------------------------------------------------------------
(* The last round, and each before it, has the items of the vector, its    *)
(* segments one after the other: segment i has those from e[i - 1] to e[i].*)
Divides(e, k) ==
    /\ e \in [0 .. Len(rounds[k]) -> Nat]
    /\ e[0] = 0 /\ e[Len(rounds[k])] = count
    /\ \A i, j \in 0 .. Len(rounds[k]) : i <= j => e[i] <= e[j]
    /\ \A i \in 1 .. Len(rounds[k]) : Fits(Items(rounds)[k][i], e[i - 1], e[i])

LEMMA RoundFacts ==
    ASSUME Types, RoundsCovered
    PROVE  /\ Len(rounds) \in Nat \ {0} /\ DOMAIN rounds = 1 .. Len(rounds)
           /\ \A k \in 1 .. Len(rounds) :
                 Len(rounds[k]) \in Nat /\ DOMAIN rounds[k] = 1 .. Len(rounds[k])
           /\ \A i \in DOMAIN rounds[1] : rounds[1][i].kind # "array"
<1>1. Len(rounds) \in Nat \ {0} /\ DOMAIN rounds = 1 .. Len(rounds)
  BY SequenceFacts DEF Types
<1>2. \A k \in 1 .. Len(rounds) : Len(rounds[k]) \in Nat /\ DOMAIN rounds[k] = 1 .. Len(rounds[k])
  BY <1>1, SequenceFacts DEF Types
<1>3. \A i \in DOMAIN rounds[1] : rounds[1][i].kind # "array"
  <2>1. \A i : Item(i).kind # "array"
    BY DEF Item
  <2> QED
    BY <2>1 DEF RoundsCovered
<1> QED
  BY <1>1, <1>2, <1>3

LEMMA RoundItems ==
    ASSUME Types, RoundsCovered, NEW k \in 1 .. Len(rounds), NEW i \in 1 .. Len(rounds[k])
    PROVE  Items(rounds)[k][i] = SegmentItems(rounds[k][i], Items(rounds)[k - 1])
<1>1. \A x \in 1 .. Len(rounds) :
         Items(rounds)[x] = [y \in DOMAIN rounds[x] |-> SegmentItems(rounds[x][y], Items(rounds)[x - 1])]
  BY RoundFacts, ItemsUnfold
<1>2. i \in DOMAIN rounds[k]
  BY RoundFacts
<1> QED
  BY <1>1, <1>2

LEMMA RemovedFits ==
    ASSUME Types, RoundsCovered, NEW k \in 1 .. Len(rounds), NEW i \in 1 .. Len(rounds[k]),
           rounds[k][i].kind = "unknown", NEW a \in Nat, NEW b \in Nat, a <= b, NEW before
    PROVE  Fits(SegmentItems(rounds[k][i], before), a, b)
<1>1. removed # 0
  BY RoundFacts DEF RoundsCovered
<1>2. SegmentItems(rounds[k][i], before) = <<>>
  BY DEF SegmentItems
<1> QED
  BY <1>1, <1>2 DEF Fits

LEMMA FirstDivided ==
    ASSUME Types, RoundsCovered
    PROVE  \E e : Divides(e, 1)
<1> DEFINE e == [i \in 0 .. Len(rounds[1]) |-> i]
<1>1. 1 \in 1 .. Len(rounds) /\ Len(rounds[1]) \in Nat /\ Len(rounds[1]) = count
  BY RoundFacts DEF RoundsCovered
<1>2. ASSUME NEW i \in 1 .. Len(rounds[1])
      PROVE  Fits(Items(rounds)[1][i], e[i - 1], e[i])
  <2>1. i - 1 \in Nat /\ i \in Nat /\ e[i - 1] = i - 1 /\ e[i] = i /\ i \in DOMAIN rounds[1]
    BY <1>1, RoundFacts
  <2>2. Items(rounds)[1][i] = SegmentItems(rounds[1][i], Items(rounds)[0])
    <3>1. 1 - 1 = 0
      OBVIOUS
    <3> QED
      BY <1>1, <3>1, RoundItems
  <2>3. CASE rounds[1][i].kind = "unknown"
    <3>1. i - 1 <= i
      BY <2>1
    <3>2. Fits(SegmentItems(rounds[1][i], Items(rounds)[0]), i - 1, i)
      BY <1>1, <2>1, <2>3, <3>1, RemovedFits
    <3> QED
      BY <2>1, <2>2, <3>2
  <2>4. CASE rounds[1][i] = Item(i)
    <3>1. SegmentItems(rounds[1][i], Items(rounds)[0]) = <<i>>
      BY <2>4 DEF SegmentItems, Item
    <3>2. Fits(<<i>>, i - 1, i)
      BY <2>1 DEF Fits
    <3> QED
      BY <2>1, <2>2, <3>1, <3>2
  <2> QED
    BY <2>1, <2>3, <2>4 DEF RoundsCovered
<1>3. /\ e \in [0 .. Len(rounds[1]) -> Nat]
      /\ e[0] = 0 /\ e[Len(rounds[1])] = count
      /\ \A i, j \in 0 .. Len(rounds[1]) : i <= j => e[i] <= e[j]
  BY <1>1
<1> HIDE DEF e
<1>4. Divides(e, 1)
  BY <1>2, <1>3 DEF Divides
<1> QED
  BY <1>4

(* Array g of a round has the items of the segments of the round before    *)
(* that it covers, so the arrays divide the vector as well.                *)
LEMMA NextDivided ==
    ASSUME Types, RoundsCovered, NEW k \in 2 .. Len(rounds), NEW e, Divides(e, k - 1)
    PROVE  \E d : Divides(d, k)
<1> DEFINE n == Len(rounds[k - 1])
           m == Len(rounds[k])
           end(g) == IF g < m THEN g * N ELSE n
           d == [g \in 0 .. m |-> e[end(g)]]
<1>0. N \in Nat \ {0}
  BY SegmentedArrayAssumption
<1>1. /\ k \in 1 .. Len(rounds) /\ k - 1 \in 1 .. Len(rounds) /\ k \in Nat
      /\ n \in Nat /\ m \in Nat /\ DOMAIN rounds[k] = 1 .. m /\ DOMAIN rounds[k - 1] = 1 .. n
  BY RoundFacts
<1>2. Covers(rounds[k], n)
  BY DEF RoundsCovered
<1>3. (m - 1) * N < n /\ n <= m * N
  BY <1>2 DEF Covers
<1> HIDE DEF n, m
<1>4. ASSUME NEW g \in 0 .. m
      PROVE  end(g) \in 0 .. n
  <2>1. CASE g = 0
    BY <1>0, <1>1, <2>1
  <2>2. CASE g # 0
    BY <1>0, <1>1, <1>3, <2>2, GroupBounds
  <2> QED
    BY <2>1, <2>2
<1>5. ASSUME NEW i \in 0 .. m, NEW j \in 0 .. m, i <= j
      PROVE  end(i) <= end(j)
  <2>1. CASE j < m
    BY <1>0, <1>1, <1>5, <2>1
  <2>2. CASE j = m
    BY <1>1, <1>4, <2>2
  <2> QED
    BY <1>1, <2>1, <2>2
<1>6. e \in [0 .. n -> Nat] /\ e[0] = 0 /\ e[n] = count
      /\ \A i, j \in 0 .. n : i <= j => e[i] <= e[j]
  BY DEF Divides, n
<1>7. d \in [0 .. m -> Nat]
  BY <1>4, <1>6
<1>8. d[0] = 0 /\ d[m] = count
  <2>1. end(m) = n
    BY <1>1
  <2>2. end(0) = 0
    <3>1. CASE m = 0
      BY <1>0, <1>1, <1>3, <3>1
    <3>2. CASE m # 0
      BY <1>0, <1>1, <3>2
    <3> QED
      BY <3>1, <3>2
  <2> QED
    BY <1>1, <1>6, <2>1, <2>2
<1>9. \A i, j \in 0 .. m : i <= j => d[i] <= d[j]
  BY <1>4, <1>5, <1>6
<1>10. ASSUME NEW g \in 1 .. m
       PROVE  Fits(Items(rounds)[k][g], d[g - 1], d[g])
  <2> DEFINE size == IF g < m THEN N ELSE n - (g - 1) * N
             start == (g - 1) * N
             before == Items(rounds)[k - 1]
  <2>1. /\ size \in 1 .. N /\ start \in Nat
        /\ start + size = end(g) /\ start + size <= n
    BY <1>1, <1>3, GroupBounds
  <2>2. end(g - 1) = start
    BY <1>1
  <2>3. Items(rounds)[k][g] = SegmentItems(rounds[k][g], before)
    BY <1>1, RoundItems DEF m
  <2>4. g - 1 \in 0 .. m /\ g \in 0 .. m
    BY <1>1
  <2>5. d[g - 1] = e[start] /\ d[g] = e[start + size]
    BY <2>1, <2>2, <2>4
  <2>6. CASE rounds[k][g].kind = "unknown"
    <3>1. d[g - 1] \in Nat /\ d[g] \in Nat /\ d[g - 1] <= d[g]
      BY <1>1, <1>7, <1>9, <2>4
    <3> QED
      BY <1>1, <2>3, <2>6, <3>1, RemovedFits DEF m
  <2>7. CASE rounds[k][g] = Array([j \in 1 .. size |-> start + j])
    <3> DEFINE ss == [j \in 1 .. size |-> before[start + j]]
               c == [j \in 0 .. size |-> e[start + j]]
    <3>1. SegmentItems(rounds[k][g], before) = FlattenSeq(ss)
      <4>1. rounds[k][g].kind = "array" /\ rounds[k][g].segments = [j \in 1 .. size |-> start + j]
        BY <2>7 DEF Array
      <4>2. [j \in DOMAIN rounds[k][g].segments |-> before[rounds[k][g].segments[j]]] = ss
        BY <4>1
      <4> QED
        BY <4>1, <4>2 DEF SegmentItems
    <3>2. size \in Nat /\ start \in Nat /\ Len(ss) = size /\ ss \in Seq(Range(ss))
      <4>1. size \in Nat
        BY <1>0, <2>1
      <4>2. DOMAIN ss = 1 .. size /\ ss = [j \in 1 .. size |-> ss[j]]
        OBVIOUS
      <4> HIDE DEF ss, size
      <4>3. IsSequence(ss) /\ Len(ss) = size
        BY <4>1, <4>2, FunctionIsSequence
      <4> QED
        BY <2>1, <4>1, <4>3 DEF IsSequence
    <3>3. \A j \in 0 .. size : start + j \in 0 .. n /\ c[j] \in Nat /\ c[j] = e[start + j]
      <4> HIDE DEF size, start, end
      <4> QED
        BY <1>1, <1>6, <2>1, <3>2
    <3>4. ASSUME NEW j \in 1 .. size
          PROVE  Fits(ss[j], c[j - 1], c[j])
      <4>1. start + j \in 1 .. n /\ start + j - 1 = start + (j - 1)
        <5> HIDE DEF size, start, end
        <5> QED
          BY <1>1, <2>1, <3>2
      <4>2. Fits(before[start + j], e[start + j - 1], e[start + j])
        <5>1. \A i \in 1 .. n : Fits(before[i], e[i - 1], e[i])
          BY DEF Divides, n
        <5>2. start \in Int /\ j \in Int /\ n \in Int
          BY <1>1, <2>1, <3>2
        <5> HIDE DEF size, start, before, ss, c, d, end
        <5> QED
          BY <4>1, <5>1, <5>2
      <4>3. j - 1 \in 0 .. size /\ j \in 0 .. size
        BY <3>2
      <4> QED
        BY <3>3, <4>1, <4>2, <4>3
    <3>5. c[0] = e[start] /\ c[size] = e[start + size]
      BY <3>2, <3>3
    <3> HIDE DEF ss, c, size, start
    <3>6. Fits(FlattenSeq(ss), c[0], c[size])
      BY <3>2, <3>3, <3>4, FlattenFits
    <3> QED
      BY <2>3, <2>5, <3>1, <3>5, <3>6
  <2> QED
    BY <1>1, <1>2, <2>6, <2>7 DEF Covers, m
<1> HIDE DEF d
<1>11. Divides(d, k)
  BY <1>7, <1>8, <1>9, <1>10 DEF Divides, m
<1> QED
  BY <1>11

LEMMA RoundsDivided ==
    ASSUME Types, RoundsCovered
    PROVE  \A k \in 1 .. Len(rounds) : \E e : Divides(e, k)
<1> DEFINE S == {k \in 1 .. Len(rounds) : ~ \E e : Divides(e, k)}
<1>1. CASE S = {}
  BY <1>1
<1>2. CASE S # {}
  <2>1. PICK x \in S : \A y \in S : ~ (y < x)
    <3>1. S \subseteq Nat
      BY RoundFacts
    <3> QED
      BY <1>2, <3>1, LeastRound
  <2>2. x # 1
    BY <2>1, FirstDivided
  <2>3. x - 1 \in 1 .. Len(rounds) /\ x \in 2 .. Len(rounds) /\ x - 1 < x
    BY <2>1, <2>2, RoundFacts
  <2>4. PICK e : Divides(e, x - 1)
    BY <2>1, <2>3
  <2>5. \E d : Divides(d, x)
    BY <2>3, <2>4, NextDivided
  <2> QED
    BY <2>1, <2>5
<1> QED
  BY <1>1, <1>2

LEMMA OrderFollows ==
    ASSUME Types, RoundsCovered
    PROVE  OrderKept
<1> DEFINE k == Len(rounds)
           ss == Items(rounds)[k]
<1>1. /\ k \in 1 .. Len(rounds)
      /\ Len(rounds[k]) \in Nat /\ DOMAIN rounds[k] = 1 .. Len(rounds[k])
  BY RoundFacts
<1>2. PICK e : Divides(e, k)
  BY <1>1, RoundsDivided
<1>3. DOMAIN ss = 1 .. Len(rounds[k]) /\ ss = [i \in 1 .. Len(rounds[k]) |-> ss[i]]
  <2>1. \A x \in 1 .. Len(rounds) :
           Items(rounds)[x] = [y \in DOMAIN rounds[x] |-> SegmentItems(rounds[x][y], Items(rounds)[x - 1])]
    BY RoundFacts, ItemsUnfold
  <2>2. ss = [y \in DOMAIN rounds[k] |-> SegmentItems(rounds[k][y], Items(rounds)[k - 1])]
    BY <1>1, <2>1
  <2> QED
    BY <1>1, <2>2
<1> HIDE DEF ss
<1>4. IsSequence(ss) /\ Len(ss) = Len(rounds[k])
  BY <1>1, <1>3, FunctionIsSequence
<1>5. Fits(FlattenSeq(ss), 0, count)
  <2>1. \A i \in 0 .. Len(ss) : e[i] \in Nat
    BY <1>2, <1>4 DEF Divides
  <2>2. \A i \in 1 .. Len(ss) : Fits(ss[i], e[i - 1], e[i])
    BY <1>2, <1>4 DEF Divides, ss
  <2>3. Fits(FlattenSeq(ss), e[0], e[Len(ss)])
    BY <1>1, <1>4, <2>1, <2>2, FlattenFits DEF IsSequence
  <2> QED
    BY <1>2, <1>4, <2>3 DEF Divides
<1> DEFINE left == FlattenSeq(ss)
<1>6. ArrayItems(rounds) = left
  BY DEF ArrayItems, ss
<1> HIDE DEF left
<1>7. left \in Seq(Nat) /\ DOMAIN left = 1 .. Len(left) /\ Len(left) \in Nat
  BY <1>5 DEF Fits, left
<1>8. \A i, j \in DOMAIN left : i < j => left[i] < left[j]
  BY <1>5, <1>7 DEF Fits, left
<1>9. ASSUME removed = 0
      PROVE  left = [i \in 1 .. count |-> i]
  <2>1. Len(left) = count - 0 /\ \A i \in 1 .. Len(left) : left[i] = 0 + i
    BY <1>5, <1>9 DEF Fits, left
  <2>2. count \in Nat
    BY SegmentedArrayAssumption DEF Types
  <2>3. DOMAIN left = 1 .. count /\ \A i \in 1 .. count : left[i] = i
    BY <1>7, <2>1, <2>2
  <2>4. left = [i \in DOMAIN left |-> left[i]]
    BY <1>7
  <2> QED
    BY <2>3, <2>4
<1> QED
  BY <1>6, <1>8, <1>9 DEF OrderKept

LEMMA SizesFollow ==
    ASSUME Types, RoundsCovered, Returned
    PROVE  SizesBounded
<1>1. ASSUME NEW k \in DOMAIN rounds, NEW g \in DOMAIN rounds[k], rounds[k][g].kind = "array"
      PROVE  Len(rounds[k][g].segments) \in 1 .. N
  <2>1. k \in 1 .. Len(rounds) /\ k # 1 /\ g \in 1 .. Len(rounds[k])
    BY <1>1, RoundFacts
  <2>2. k \in 2 .. Len(rounds) /\ k - 1 \in 1 .. Len(rounds)
    BY <2>1, RoundFacts
  <2>3. Covers(rounds[k], Len(rounds[k - 1])) /\ Len(rounds[k - 1]) \in Nat /\ Len(rounds[k]) \in Nat
    BY <2>1, <2>2, RoundFacts DEF RoundsCovered
  <2> DEFINE size == IF g < Len(rounds[k]) THEN N ELSE Len(rounds[k - 1]) - (g - 1) * N
  <2>4. rounds[k][g] = Array([j \in 1 .. size |-> (g - 1) * N + j])
    BY <1>1, <2>3 DEF Covers
  <2>5. size \in 1 .. N
    BY <2>1, <2>3, GroupBounds DEF Covers
  <2> HIDE DEF size
  <2>6. rounds[k][g].segments = [j \in 1 .. size |-> (g - 1) * N + j]
    BY <2>4 DEF Array
  <2>7. size \in Nat
    BY <2>5, SegmentedArrayAssumption
  <2>8. Len([j \in 1 .. size |-> (g - 1) * N + j]) = size
    <3> DEFINE s == [j \in 1 .. size |-> (g - 1) * N + j]
    <3>1. DOMAIN s = 1 .. size /\ s = [j \in 1 .. size |-> s[j]]
      OBVIOUS
    <3> HIDE DEF s
    <3>2. Len(s) = size
      BY <2>7, <3>1, FunctionIsSequence
    <3> QED
      BY <3>2 DEF s
  <2> QED
    BY <2>5, <2>6, <2>8
<1> QED
  BY <1>1 DEF SizesBounded, Returned
-----------------------------------------------------------------------------
LEMMA InitInd == Init => IndInv
<1> SUFFICES ASSUME Init
             PROVE  IndInv
  OBVIOUS
<1> USE SegmentedArrayAssumption
<1> DEFINE items == [i \in 1 .. count |-> Item(i)]
<1>1. count \in Nat /\ rounds = <<items>>
  BY DEF Init
<1>2. DOMAIN items = 1 .. count /\ items = [i \in 1 .. count |-> items[i]]
  OBVIOUS
<1>3. \A i \in 1 .. count : items[i] = Item(i) /\ items[i].kind # "unknown"
  BY DEF Item
<1> HIDE DEF items
<1>4. IsSequence(items) /\ Len(items) = count
  BY <1>1, <1>2, FunctionIsSequence
<1>5. Len(rounds) = 1 /\ DOMAIN rounds = {1} /\ rounds[1] = items /\ IsSequence(rounds)
  <2>1. Len(rounds) = 1 /\ DOMAIN rounds = 1 .. 1 /\ rounds[1] = items
    BY <1>1
  <2>2. rounds \in Seq({items})
    BY <1>1
  <2>3. IsSequence(rounds)
    BY <2>2, MemberIsSequence
  <2> QED
    BY <2>1, <2>3
<1>6. Types
  <2>1. count \in 0 .. MaxItems /\ built \in BOOLEAN
    BY DEF Init
  <2>2. MaxRemoved \in Nat /\ removed = 0
    BY DEF Init
  <2>3. \A k \in DOMAIN rounds : IsSequence(rounds[k])
    BY <1>4, <1>5
  <2> QED
    BY <1>5, <2>1, <2>2, <2>3 DEF Types
<1>7. RoundsCovered
  <2>1. \A i \in DOMAIN rounds[1] : rounds[1][i] = Item(i)
    BY <1>2, <1>3, <1>5
  <2>2. 2 .. Len(rounds) = {}
    BY <1>5
  <2>3. \A k \in DOMAIN rounds : \A i \in DOMAIN rounds[k] : rounds[k][i].kind # "unknown"
    BY <1>2, <1>3, <1>5
  <2> QED
    BY <1>4, <1>5, <2>1, <2>2, <2>3 DEF RoundsCovered
<1>8. Returned /\ HashUnaffected
  BY DEF Init, Returned, HashUnaffected
<1> QED
  BY <1>6, <1>7, <1>8 DEF IndInv

(* A round of from() covers the round before.                              *)
LEMMA GroupedCovers ==
    ASSUME NEW ss, Len(ss) \in Nat
    PROVE  /\ Covers(Grouped(ss), Len(ss))
           /\ IsSequence(Grouped(ss))
           /\ \A g \in DOMAIN Grouped(ss) : Grouped(ss)[g].kind # "unknown"
<1> DEFINE n == Len(ss)
           m == (n + N - 1) \div N
           size(g) == IF g < m THEN N ELSE n - (g - 1) * N
           gs == Grouped(ss)
<1>1. m \in Nat /\ (m - 1) * N < n /\ n <= m * N
  BY GroupCount
<1>2. gs = [g \in 1 .. m |-> Array([j \in 1 .. size(g) |-> (g - 1) * N + j])]
  BY DEF Grouped
<1> HIDE DEF m
<1>3. DOMAIN gs = 1 .. m /\ gs = [g \in 1 .. m |-> gs[g]]
  BY <1>2
<1>4. \A g \in 1 .. m : gs[g] = Array([j \in 1 .. size(g) |-> (g - 1) * N + j])
  BY <1>2
<1> HIDE DEF gs
<1>5. IsSequence(gs) /\ Len(gs) = m
  BY <1>1, <1>3, FunctionIsSequence
<1>6. Covers(gs, n)
  BY <1>1, <1>3, <1>4, <1>5 DEF Covers
<1>7. ASSUME NEW g \in DOMAIN gs
      PROVE  gs[g].kind # "unknown"
  BY <1>3, <1>4 DEF Array
<1> QED
  BY <1>5, <1>6, <1>7 DEF gs

LEMMA GroupKeeps ==
    ASSUME IndInv, Group
    PROVE  Types' /\ RoundsCovered'
<1> DEFINE k == Len(rounds)
           new == Grouped(Last(rounds))
<1>1. Types /\ RoundsCovered
  BY DEF IndInv
<1>2. k \in Nat \ {0} /\ DOMAIN rounds = 1 .. k /\ Last(rounds) = rounds[k] /\ Len(rounds[k]) \in Nat
  BY <1>1, RoundFacts DEF Last
<1>3. /\ Covers(new, Len(rounds[k])) /\ IsSequence(new)
      /\ \A g \in DOMAIN new : new[g].kind # "unknown"
  BY <1>2, GroupedCovers
<1> HIDE DEF new
<1>4. rounds' = Append(rounds, new) /\ UNCHANGED <<count, built, original, removed>>
  BY DEF Group, new
<1>5. /\ Len(rounds') = k + 1 /\ DOMAIN rounds' = 1 .. k + 1
      /\ rounds'[k + 1] = new /\ \A x \in 1 .. k : rounds'[x] = rounds[x]
  <2>1. rounds \in Seq(Range(rounds))
    BY <1>1 DEF Types, IsSequence
  <2>2. rounds \in Seq(Range(rounds) \cup {new}) /\ new \in Range(rounds) \cup {new}
    BY <2>1
  <2> QED
    BY <1>2, <1>4, <2>2
<1>7. Types'
  <2>1. IsSequence(rounds')
    <3>1. rounds \in Seq(Range(rounds) \cup {new})
      BY <1>1 DEF Types, IsSequence
    <3>2. rounds' \in Seq(Range(rounds) \cup {new})
      BY <1>4, <3>1
    <3> QED
      BY <3>2, MemberIsSequence
  <2>2. \A x \in DOMAIN rounds' : IsSequence(rounds'[x])
    BY <1>1, <1>2, <1>3, <1>5 DEF Types
  <2>3. Len(rounds') > 0
    BY <1>2, <1>5
  <2> QED
    BY <1>1, <1>4, <2>1, <2>2, <2>3 DEF Types, IsSequence
<1>8. RoundsCovered'
  <2>1. rounds'[1] = rounds[1]
    BY <1>2, <1>5
  <2>2. ASSUME NEW x \in 2 .. Len(rounds')
        PROVE  Covers(rounds'[x], Len(rounds'[x - 1]))
    <3>1. CASE x = k + 1
      <4>1. x - 1 = k /\ rounds'[k] = rounds[k] /\ rounds'[x] = new
        BY <1>2, <1>5, <3>1
      <4> QED
        BY <1>3, <4>1
    <3>2. CASE x # k + 1
      <4>1. x \in 2 .. k /\ x - 1 \in 1 .. k /\ x \in 1 .. k
        BY <1>2, <1>5, <3>2
      <4> QED
        BY <1>1, <1>5, <4>1 DEF RoundsCovered
    <3> QED
      BY <3>1, <3>2
  <2>3. ASSUME removed = 0, NEW x \in DOMAIN rounds', NEW i \in DOMAIN rounds'[x]
        PROVE  rounds'[x][i].kind # "unknown"
    <3>1. x = k + 1 \/ x \in 1 .. k
      BY <1>2, <1>5
    <3> QED
      BY <1>1, <1>2, <1>3, <1>5, <2>3, <3>1 DEF RoundsCovered
  <2>4. /\ Len(rounds'[1]) = count'
        /\ \A i \in DOMAIN rounds'[1] : rounds'[1][i].kind = "unknown" \/ rounds'[1][i] = Item(i)
    BY <1>1, <1>4, <2>1 DEF RoundsCovered
  <2> QED
    BY <1>4, <2>2, <2>3, <2>4 DEF RoundsCovered, Covers
<1> QED
  BY <1>7, <1>8

(* What remove_segment() leaves is the array with a hash at one place.     *)
LEMMA RemovalFacts ==
    ASSUME Types, RoundsCovered,
           NEW k \in DOMAIN rounds, NEW i \in DOMAIN rounds[k], RemoveSegment(k, i)
    PROVE  /\ IsSequence(rounds') /\ Len(rounds') = Len(rounds)
           /\ \A x \in DOMAIN rounds :
                 /\ IsSequence(rounds'[x])
                 /\ DOMAIN rounds'[x] = DOMAIN rounds[x] /\ Len(rounds'[x]) = Len(rounds[x])
                 /\ \A j \in DOMAIN rounds[x] :
                       \/ rounds'[x][j] = rounds[x][j]
                       \/ rounds'[x][j] = Unknown(Hashes(rounds)[x][j])
<1> DEFINE u == Unknown(Hashes(rounds)[k][i])
<1>1. rounds' = [rounds EXCEPT ![k][i] = u]
  BY DEF RemoveSegment, Removed
<1>2. Len(rounds) \in Nat /\ DOMAIN rounds = 1 .. Len(rounds)
  BY RoundFacts
<1> HIDE DEF u
<1>3. IsSequence(rounds') /\ Len(rounds') = Len(rounds)
  <2>1. DOMAIN rounds' = 1 .. Len(rounds) /\ rounds' = [x \in 1 .. Len(rounds) |-> rounds'[x]]
    BY <1>1, <1>2
  <2> QED
    BY <1>2, <2>1, FunctionIsSequence
<1>4. ASSUME NEW x \in DOMAIN rounds
      PROVE  rounds'[x] = IF x = k THEN [rounds[k] EXCEPT ![i] = u] ELSE rounds[x]
  BY <1>1
<1>5. ASSUME NEW x \in DOMAIN rounds
      PROVE  /\ IsSequence(rounds'[x])
             /\ DOMAIN rounds'[x] = DOMAIN rounds[x] /\ Len(rounds'[x]) = Len(rounds[x])
             /\ \A j \in DOMAIN rounds[x] :
                   \/ rounds'[x][j] = rounds[x][j]
                   \/ rounds'[x][j] = Unknown(Hashes(rounds)[x][j])
  <2>1. IsSequence(rounds[x]) /\ Len(rounds[x]) \in Nat /\ DOMAIN rounds[x] = 1 .. Len(rounds[x])
    BY SequenceFacts DEF Types
  <2>2. CASE x = k
    <3>1. rounds'[k] = [rounds[k] EXCEPT ![i] = u]
      BY <1>4, <2>2
    <3>2. DOMAIN rounds'[k] = 1 .. Len(rounds[k]) /\ rounds'[k] = [j \in 1 .. Len(rounds[k]) |-> rounds'[k][j]]
      BY <2>1, <2>2, <3>1
    <3>3. IsSequence(rounds'[k]) /\ Len(rounds'[k]) = Len(rounds[k])
      BY <2>1, <2>2, <3>2, FunctionIsSequence
    <3>4. \A j \in DOMAIN rounds[k] : rounds'[k][j] = IF j = i THEN u ELSE rounds[k][j]
      BY <3>1
    <3> QED
      BY <2>1, <2>2, <3>2, <3>3, <3>4 DEF u
  <2>3. CASE x # k
    BY <1>4, <2>1, <2>3
  <2> QED
    BY <2>2, <2>3
<1> QED
  BY <1>3, <1>5

LEMMA RemovalKeeps ==
    ASSUME IndInv, NEW k \in DOMAIN rounds, NEW i \in DOMAIN rounds[k], RemoveSegment(k, i)
    PROVE  IndInv'
<1>1. Types /\ RoundsCovered /\ Returned /\ HashUnaffected
  BY DEF IndInv
<1>2. /\ IsSequence(rounds') /\ Len(rounds') = Len(rounds)
      /\ \A x \in DOMAIN rounds :
            /\ IsSequence(rounds'[x])
            /\ DOMAIN rounds'[x] = DOMAIN rounds[x] /\ Len(rounds'[x]) = Len(rounds[x])
            /\ \A j \in DOMAIN rounds[x] :
                  \/ rounds'[x][j] = rounds[x][j]
                  \/ rounds'[x][j] = Unknown(Hashes(rounds)[x][j])
  BY <1>1, RemovalFacts
<1>3. /\ built /\ removed < MaxRemoved /\ removed' = removed + 1
      /\ UNCHANGED <<count, built, original>>
  BY DEF RemoveSegment
<1>4. Len(rounds) \in Nat \ {0} /\ DOMAIN rounds = 1 .. Len(rounds) /\ DOMAIN rounds' = DOMAIN rounds
  BY <1>1, <1>2, RoundFacts, SequenceFacts
<1>5. removed' \in 0 .. MaxRemoved /\ removed' # 0
  <2>1. MaxRemoved \in Nat /\ removed \in Nat
    BY <1>1, SegmentedArrayAssumption DEF Types
  <2> QED
    BY <1>3, <2>1
<1>6. Types'
  BY <1>1, <1>2, <1>3, <1>4, <1>5 DEF Types, IsSequence
<1>7. \A x \in DOMAIN rounds : \A j \in DOMAIN rounds[x] :
         rounds'[x][j] = rounds[x][j] \/ rounds'[x][j].kind = "unknown"
  <2>1. \A h : Unknown(h).kind = "unknown"
    BY DEF Unknown
  <2> QED
    BY <1>2, <2>1
<1>8. RoundsCovered'
  <2>0. 1 \in DOMAIN rounds
    BY <1>4
  <2>1. Len(rounds'[1]) = count' /\ DOMAIN rounds'[1] = DOMAIN rounds[1]
    BY <1>1, <1>2, <1>3, <2>0 DEF RoundsCovered
  <2>3. ASSUME NEW j \in DOMAIN rounds'[1]
        PROVE  rounds'[1][j].kind = "unknown" \/ rounds'[1][j] = Item(j)
    <3>1. j \in DOMAIN rounds[1]
      BY <2>1
    <3>2. rounds[1][j].kind = "unknown" \/ rounds[1][j] = Item(j)
      BY <1>1, <3>1 DEF RoundsCovered
    <3>3. rounds'[1][j] = rounds[1][j] \/ rounds'[1][j].kind = "unknown"
      BY <1>7, <2>0, <3>1
    <3> QED
      BY <3>2, <3>3
  <2>2. ASSUME NEW x \in 2 .. Len(rounds')
        PROVE  Covers(rounds'[x], Len(rounds'[x - 1]))
    <3>1. x \in DOMAIN rounds /\ x - 1 \in DOMAIN rounds /\ x \in 2 .. Len(rounds)
      BY <1>2, <1>4
    <3>2. Covers(rounds[x], Len(rounds[x - 1]))
      BY <1>1, <3>1 DEF RoundsCovered
    <3>3. /\ Len(rounds'[x - 1]) = Len(rounds[x - 1])
          /\ Len(rounds'[x]) = Len(rounds[x]) /\ DOMAIN rounds'[x] = DOMAIN rounds[x]
      BY <1>2, <3>1
    <3> QED
      BY <1>7, <3>1, <3>2, <3>3 DEF Covers
  <2> QED
    BY <1>5, <2>1, <2>2, <2>3 DEF RoundsCovered, Covers
<1>9. Returned'
  BY <1>1, <1>2, <1>3, <1>4 DEF Returned, Last
<1>10. HashUnaffected'
  <2>1. ArrayHash(rounds') = ArrayHash(rounds)
    <3>1. /\ IsSequence(rounds) /\ Len(rounds) > 0
          /\ \A j \in DOMAIN rounds[1] : rounds[1][j].kind # "array"
      BY <1>1, RoundFacts DEF Types
    <3>2. \A x \in DOMAIN rounds :
             /\ DOMAIN rounds'[x] = DOMAIN rounds[x]
             /\ \A j \in DOMAIN rounds[x] :
                   \/ rounds'[x][j] = rounds[x][j]
                   \/ rounds'[x][j] = Unknown(Hashes(rounds)[x][j])
      BY <1>2
    <3> QED
      BY <1>2, <3>1, <3>2, HashesStay
  <2> QED
    BY <1>1, <1>3, <2>1 DEF HashUnaffected
<1> QED
  BY <1>6, <1>8, <1>9, <1>10 DEF IndInv

LEMMA NextInd == IndInv /\ [Next]_vars => IndInv'
<1> SUFFICES ASSUME IndInv, [Next]_vars
             PROVE  IndInv'
  OBVIOUS
<1>1. CASE Group
  <2>1. ~ built' /\ built' = built
    BY <1>1 DEF Group
  <2> QED
    BY <1>1, <2>1, GroupKeeps DEF IndInv, Returned, HashUnaffected
<1>2. CASE Return
  <2>1. /\ Len(Last(rounds)) <= N /\ built' = TRUE /\ original' = rounds
        /\ UNCHANGED <<count, rounds, removed>>
    BY <1>2 DEF Return, OneArray
  <2>2. Types'
    BY <2>1 DEF IndInv, Types, IsSequence
  <2>3. RoundsCovered'
    BY <2>1 DEF IndInv, RoundsCovered
  <2>4. Returned' /\ HashUnaffected'
    BY <2>1 DEF Returned, HashUnaffected
  <2> QED
    BY <2>2, <2>3, <2>4 DEF IndInv
<1>3. ASSUME NEW k \in DOMAIN rounds, NEW i \in DOMAIN rounds[k], RemoveSegment(k, i)
      PROVE  IndInv'
  BY <1>3, RemovalKeeps
<1>4. CASE UNCHANGED vars
  <2>1. UNCHANGED <<count, rounds, built, original, removed>>
    BY <1>4 DEF vars
  <2>2. Types'
    BY <2>1 DEF IndInv, Types, IsSequence
  <2>3. RoundsCovered'
    BY <2>1 DEF IndInv, RoundsCovered
  <2>4. Returned' /\ HashUnaffected'
    BY <2>1 DEF IndInv, Returned, HashUnaffected
  <2> QED
    BY <2>2, <2>3, <2>4 DEF IndInv
<1> QED
  BY <1>1, <1>2, <1>3, <1>4 DEF Next

(* Whatever is grouped and removed, every round covers the one before.     *)
THEOREM RoundsStayCovered == Spec => []RoundsCovered
<1>1. IndInv => RoundsCovered
  BY DEF IndInv
<1> QED
  BY <1>1, InitInd, NextInd, PTL DEF Spec

(* from() makes arrays of 1 to N segments, at every level: segment_sizes() *)
(* tests it for one vector.                                                *)
THEOREM SizesStayBounded == Spec => []SizesBounded
<1>1. IndInv => SizesBounded
  BY SizesFollow DEF IndInv
<1> QED
  BY <1>1, InitInd, NextInd, PTL DEF Spec

(* remove_segment() does not affect the hash, at any depth, any number of  *)
(* times.                                                                  *)
THEOREM HashStays == Spec => []HashUnaffected
<1>1. IndInv => HashUnaffected
  BY DEF IndInv
<1> QED
  BY <1>1, InitInd, NextInd, PTL DEF Spec

(* items() of what from() has built is the vector, and what is left after  *)
(* removals is in its order.                                               *)
THEOREM OrderStays == Spec => []OrderKept
<1>1. IndInv => OrderKept
  BY OrderFollows DEF IndInv
<1> QED
  BY <1>1, InitInd, NextInd, PTL DEF Spec

(* With more than one segment to an array, every round of from() is        *)
(* shorter than the one before it, so that their number is bounded (with   *)
(* one, from() would not return).                                          *)
THEOREM EveryRoundShrinks ==
    ASSUME N > 1
    PROVE  Spec => RoundsShrink
<1>1. ASSUME IndInv, Group
      PROVE  Len(Last(rounds')) < Len(Last(rounds))
  <2> DEFINE n == Len(Last(rounds))
             new == Grouped(Last(rounds))
             m == (n + N - 1) \div N
  <2>1. Types /\ RoundsCovered /\ rounds \in Seq(Range(rounds))
    BY <1>1 DEF IndInv, Types, IsSequence
  <2>2. n \in Nat /\ n > N
    BY <1>1, <2>1, RoundFacts, SegmentedArrayAssumption DEF Group, OneArray, Last
  <2>3. m \in Nat /\ (m - 1) * N < n /\ n <= m * N
    BY <2>2, GroupCount
  <2>4. N \in Nat /\ N > 1
    BY SegmentedArrayAssumption
  <2>5. m < n
    <3> HIDE DEF m, n
    <3>1. (m - 1) * N >= (m - 1) * 2 \/ m = 0
      BY <2>3, <2>4
    <3> QED
      BY <2>2, <2>3, <2>4, <3>1
  <2>6. Len(new) = m
    <3>1. DOMAIN new = 1 .. m /\ new = [g \in 1 .. m |-> new[g]]
      BY DEF Grouped
    <3> HIDE DEF new
    <3> QED
      BY <2>3, <3>1, FunctionIsSequence
  <2>7. Last(rounds') = new
    <3> HIDE DEF new
    <3>1. rounds \in Seq(Range(rounds) \cup {new}) /\ Len(rounds) \in Nat
      BY <2>1
    <3>2. rounds' = Append(rounds, new)
      BY <1>1 DEF Group, new
    <3>3. Len(rounds') = Len(rounds) + 1 /\ rounds'[Len(rounds) + 1] = new
      BY <3>1, <3>2
    <3> QED
      BY <3>3 DEF Last
  <2> QED
    BY <2>5, <2>6, <2>7
<1>2. IndInv /\ [Next]_vars
          => [~ built /\ ~ built' => Len(Last(rounds')) < Len(Last(rounds))]_vars
  <2>1. Return \/ (\E k \in DOMAIN rounds : \E i \in DOMAIN rounds[k] : RemoveSegment(k, i))
          => built \/ built'
    BY DEF Return, RemoveSegment
  <2> QED
    BY <1>1, <2>1 DEF Next
<1> QED
  BY <1>2, InitInd, NextInd, PTL DEF Spec, RoundsShrink
=============================================================================
