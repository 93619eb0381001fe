--------------------------- MODULE AdjusterProofs ---------------------------
(***************************************************************************)
(* What the adjuster's changes are, for any two specifications: which      *)
(* racks they name, in which order, and that none is left out.             *)
(*                                                                         *)
(* A loop that collects is modelled by Selected, which numbers the places  *)
(* it keeps.  That there is a k-th place is the one fact here that needs   *)
(* induction; it is argued from the smallest counterexample.               *)
(***************************************************************************)
EXTENDS Adjuster, FiniteSetTheorems, NaturalsInduction, WellFoundedInduction, TLAPS

(* Every set of natural numbers but the empty one has a smallest member. *)
LEMMA Smallest ==
    ASSUME NEW T \in SUBSET Nat, T # {}
    PROVE  \E x \in T : \A y \in T : x <= y
<1> DEFINE R == OpToRel(<, Nat)
<1>1. IsWellFoundedOn(R, Nat)
  BY NatLessThanWellFounded
<1>2. R = {ss \in Nat \X Nat : ss[1] < ss[2]}
  BY DEF OpToRel
<1> HIDE DEF R
<1>3. PICK x \in T : \A y \in T : ~(<<y, x>> \in R)
  BY <1>1, WFMin
<1>4. \A y \in T : y < x => <<y, x>> \in R
  BY <1>2
<1>5. \A y \in T : ~(y < x)
  BY <1>3, <1>4
<1> QED
  BY <1>5

-----------------------------------------------------------------------------
(* The places up to i among the given ones. *)
UpTo(places, i) == {j \in places : j <= i}

LEMMA UpToFinite ==
    ASSUME NEW n \in Nat, NEW places \in SUBSET (1..n), NEW i
    PROVE  /\ IsFiniteSet(UpTo(places, i))
           /\ Cardinality(UpTo(places, i)) \in Nat
           /\ IsFiniteSet(places)
           /\ Cardinality(places) \in Nat
           /\ Cardinality(UpTo(places, i)) <= Cardinality(places)
<1>1. IsFiniteSet(1..n)
  BY FS_Interval
<1>2. IsFiniteSet(places)
  BY <1>1, FS_Subset
<1>3. UpTo(places, i) \in SUBSET places
  BY DEF UpTo
<1> QED
  BY <1>2, <1>3, FS_Subset, FS_CardinalityType

(* There is one more place up to i than up to i - 1 if i is a place, and   *)
(* as many if it is not.                                                   *)
LEMMA UpToNext ==
    ASSUME NEW n \in Nat, NEW places \in SUBSET (1..n), NEW i \in 1..n
    PROVE  Cardinality(UpTo(places, i)) =
               Cardinality(UpTo(places, i - 1)) + (IF i \in places THEN 1 ELSE 0)
<1>0. i \in Int /\ \A j \in places : j \in Int /\ (j <= i <=> j <= i - 1 \/ j = i)
  OBVIOUS
<1>1. CASE i \in places
  <2>1. UpTo(places, i) = UpTo(places, i - 1) \cup {i}
    BY <1>0, <1>1, Zenon DEF UpTo
  <2>2. i \notin UpTo(places, i - 1)
    BY DEF UpTo
  <2>3. IsFiniteSet(UpTo(places, i - 1))
    BY UpToFinite
  <2>4. Cardinality(UpTo(places, i - 1) \cup {i}) = Cardinality(UpTo(places, i - 1)) + 1
    BY <2>2, <2>3, FS_AddElement
  <2> QED
    BY <1>1, <2>1, <2>4
<1>2. CASE i \notin places
  <2>1. UpTo(places, i) = UpTo(places, i - 1)
    BY <1>0, <1>2, Zenon DEF UpTo
  <2>2. Cardinality(UpTo(places, i - 1)) \in Nat
    BY UpToFinite
  <2> QED
    BY <1>2, <2>1, <2>2
<1> QED
  BY <1>1, <1>2

(* The smallest number up to which there are k places is the k-th place. *)
LEMMA PlaceExists ==
    ASSUME NEW n \in Nat, NEW places \in SUBSET (1..n), NEW k \in 1..Cardinality(places)
    PROVE  /\ Place(places, k) \in places
           /\ Cardinality(UpTo(places, Place(places, k))) = k
<1> DEFINE T == {i \in 1..n : Cardinality(UpTo(places, i)) >= k}
<1>0. Cardinality(places) \in Nat
  BY UpToFinite
<1>1. k \in Nat /\ k > 0 /\ k <= Cardinality(places)
  BY <1>0
<1>2. UpTo(places, n) = places
  <2>1. \A j \in places : j <= n
    OBVIOUS
  <2> QED
    BY <2>1, Zenon DEF UpTo
<1>3. n # 0
  <2> SUFFICES ASSUME n = 0 PROVE FALSE
    OBVIOUS
  <2>1. places = {}
    OBVIOUS
  <2> QED
    BY <2>1, <1>1, FS_EmptySet
<1>4. n \in T
  BY <1>1, <1>2, <1>3
<1>5. PICK x \in T : \A y \in T : x <= y
  <2>1. T \in SUBSET Nat
    OBVIOUS
  <2> QED
    BY <1>4, <2>1, Smallest
<1>6. x \in 1..n /\ Cardinality(UpTo(places, x)) >= k
  OBVIOUS
<1>7. Cardinality(UpTo(places, x - 1)) \in Nat /\ Cardinality(UpTo(places, x)) \in Nat
  BY <1>6, UpToFinite
<1>8. Cardinality(UpTo(places, x - 1)) < k
  <2>1. CASE x = 1
    <3>1. UpTo(places, 0) = {}
      <4>1. \A j \in places : ~(j <= 0)
        OBVIOUS
      <4> QED
        BY <4>1, Zenon DEF UpTo
    <3> QED
      BY <2>1, <3>1, <1>1, FS_EmptySet
  <2>2. CASE x # 1
    <3>1. x - 1 \in 1..n
      BY <1>6, <2>2
    <3>2. x - 1 \notin T
      BY <1>5, <1>6
    <3> QED
      BY <3>1, <3>2, <1>7, <1>1
  <2> QED
    BY <2>1, <2>2
<1>9. Cardinality(UpTo(places, x)) =
          Cardinality(UpTo(places, x - 1)) + (IF x \in places THEN 1 ELSE 0)
  BY <1>6, UpToNext
<1>10. x \in places /\ Cardinality(UpTo(places, x)) = k
  BY <1>1, <1>6, <1>7, <1>8, <1>9
<1>11. \E i \in places : Cardinality({j \in places : j <= i}) = k
  BY <1>10 DEF UpTo
<1> QED
  BY <1>11 DEF Place, UpTo

(* The k-th places are all different, and each place is one of them. *)
LEMMA PlaceNumbers ==
    ASSUME NEW n \in Nat, NEW places \in SUBSET (1..n)
    PROVE  /\ Cardinality(places) \in Nat
           /\ \A k \in 1..Cardinality(places) : Place(places, k) \in places
           /\ \A k, m \in 1..Cardinality(places) :
                  Place(places, k) = Place(places, m) => k = m
           /\ \A i \in places : \E k \in 1..Cardinality(places) : Place(places, k) = i
<1>1. Cardinality(places) \in Nat
  BY UpToFinite
<1>2. \A k \in 1..Cardinality(places) :
          Place(places, k) \in places /\ Cardinality(UpTo(places, Place(places, k))) = k
  BY PlaceExists
<1>3. ASSUME NEW i \in places
      PROVE  \E k \in 1..Cardinality(places) : Place(places, k) = i
  <2> DEFINE k == Cardinality(UpTo(places, i))
             p == Place(places, k)
  <2>1. i \in 1..n /\ i \in Int
    OBVIOUS
  <2>2. Cardinality(UpTo(places, i - 1)) \in Nat /\ k \in Nat /\ k <= Cardinality(places)
    BY <2>1, UpToFinite
  <2>3. k = Cardinality(UpTo(places, i - 1)) + 1
    BY <2>1, UpToNext
  <2>4. k \in 1..Cardinality(places)
    BY <1>1, <2>2, <2>3
  <2>5. p \in places /\ Cardinality(UpTo(places, p)) = k
    BY <2>4, <1>2
  <2>6. p \in 1..n /\ IsFiniteSet(UpTo(places, p)) /\ IsFiniteSet(UpTo(places, i))
    BY <2>1, <2>5, UpToFinite
  <2> HIDE DEF p
  <2>7. CASE p <= i
    <3>1. UpTo(places, p) \in SUBSET UpTo(places, i)
      <4>1. \A j \in places : j <= p => j <= i
        BY <2>1, <2>6, <2>7
      <4> QED
        BY <4>1, Zenon DEF UpTo
    <3>2. UpTo(places, p) = UpTo(places, i)
      BY <3>1, <2>5, <2>6, FS_Subset
    <3>3. i \in UpTo(places, p)
      BY <2>1, <3>2 DEF UpTo
    <3>4. p = i
      BY <2>1, <2>6, <2>7, <3>3 DEF UpTo
    <3> QED
      BY <3>4, <2>4 DEF p
  <2>8. CASE i <= p
    <3>1. UpTo(places, i) \in SUBSET UpTo(places, p)
      <4>1. \A j \in places : j <= i => j <= p
        BY <2>1, <2>6, <2>8
      <4> QED
        BY <4>1, Zenon DEF UpTo
    <3>2. UpTo(places, p) = UpTo(places, i)
      BY <3>1, <2>5, <2>6, FS_Subset
    <3>3. p \in UpTo(places, i)
      BY <2>5, <2>6, <3>2 DEF UpTo
    <3>4. p = i
      BY <2>1, <2>6, <2>8, <3>3 DEF UpTo
    <3> QED
      BY <3>4, <2>4 DEF p
  <2> QED
    BY <2>1, <2>6, <2>7, <2>8
<1> QED
  BY <1>1, <1>2, <1>3

LEMMA SeqMembers ==
    ASSUME NEW S, NEW s \in Seq(S)
    PROVE  Len(s) \in Nat /\ DOMAIN s = 1..Len(s) /\ \A k \in DOMAIN s : s[k] \in S
OBVIOUS

LEMMA SeqOf ==
    ASSUME NEW S, NEW n \in Nat, NEW f \in [1..n -> S]
    PROVE  f \in Seq(S)
OBVIOUS

(* What is selected: as many members as there are places, one for each. *)
LEMMA SelectedFacts ==
    ASSUME NEW S, NEW s \in Seq(S), NEW places \in SUBSET DOMAIN s
    PROVE  /\ Selected(s, places) \in Seq(S)
           /\ \A k \in DOMAIN Selected(s, places) :
                  /\ Place(places, k) \in places
                  /\ Selected(s, places)[k] = s[Place(places, k)]
           /\ \A k, m \in DOMAIN Selected(s, places) :
                  Place(places, k) = Place(places, m) => k = m
           /\ \A i \in places : \E k \in DOMAIN Selected(s, places) : 
                  Place(places, k) = i /\ Selected(s, places)[k] = s[i]
<1>1. Len(s) \in Nat /\ DOMAIN s = 1..Len(s)
  OBVIOUS
<1>2. /\ Cardinality(places) \in Nat
      /\ \A k \in 1..Cardinality(places) : Place(places, k) \in places
      /\ \A k, m \in 1..Cardinality(places) :
             Place(places, k) = Place(places, m) => k = m
      /\ \A i \in places : \E k \in 1..Cardinality(places) : Place(places, k) = i
  BY <1>1, PlaceNumbers
<1>3. DOMAIN Selected(s, places) = 1..Cardinality(places)
  BY DEF Selected
<1>4. \A k \in 1..Cardinality(places) : Selected(s, places)[k] = s[Place(places, k)]
  BY DEF Selected
<1>5. \A k \in 1..Cardinality(places) : s[Place(places, k)] \in S
  BY <1>1, <1>2
<1>6. Selected(s, places) \in [1..Cardinality(places) -> S]
  BY <1>5 DEF Selected
<1>7. Selected(s, places) \in Seq(S)
  BY <1>2, <1>6
<1> QED
  BY <1>2, <1>3, <1>4, <1>7

-----------------------------------------------------------------------------
(* Specifications whose racks can be told apart by their names. *)
Named(s) == IsSpec(s) /\ UniqueNames(s.racks)

LEMMA SpecRacks ==
    ASSUME NEW s, IsSpec(s)
    PROVE  /\ s.racks \in Seq(RacksOf(s))
           /\ \A rack \in RacksOf(s) : rack.replicas \in Nat
           /\ \A rack : rack \in RacksOf(s) <=> \E i \in DOMAIN s.racks : rack = s.racks[i]
<1>1. s.racks \in Seq(RacksOf(s))
  BY DEF IsSpec
<1>2. \A rack : rack \in RacksOf(s) <=> \E i \in DOMAIN s.racks : rack = s.racks[i]
  BY DEF RacksOf
<1> QED
  BY <1>1, <1>2 DEF IsSpec

LEMMA FoundRack ==
    ASSUME NEW name, NEW racks
    PROVE  FoundIn(name, racks) <=> \E i \in DOMAIN racks : racks[i].name = name
BY DEF FoundIn, RacksNamed

(* findRack returns a rack with the name, *)
LEMMA FindRackFound ==
    ASSUME NEW S, NEW racks \in Seq(S), NEW name, FoundIn(name, racks)
    PROVE  \E i \in DOMAIN racks : racks[i].name = name /\ FindRack(name, racks) = racks[i]
<1> DEFINE T == RacksNamed(name, racks)
<1>1. T \in SUBSET Nat /\ T # {}
  BY DEF RacksNamed, FoundIn
<1>2. \E i \in T : \A j \in T : i <= j
  BY <1>1, Smallest
<1>3. PICK i \in T : FindRack(name, racks) = racks[i]
  BY <1>2 DEF FindRack
<1> QED
  BY <1>3 DEF RacksNamed

(* and the rack with the name where there is only one. *)
LEMMA FindRackUnique ==
    ASSUME NEW S, NEW racks \in Seq(S), UniqueNames(racks), NEW i \in DOMAIN racks
    PROVE  FoundIn(racks[i].name, racks) /\ FindRack(racks[i].name, racks) = racks[i]
<1>1. FoundIn(racks[i].name, racks)
  BY FoundRack
<1>2. PICK j \in DOMAIN racks :
          racks[j].name = racks[i].name /\ FindRack(racks[i].name, racks) = racks[j]
  BY <1>1, FindRackFound
<1> QED
  BY <1>1, <1>2 DEF UniqueNames

(* Selected racks are racks of the sequence, with different names. *)
LEMMA SelectedRacks ==
    ASSUME NEW S, NEW racks \in Seq(S), UniqueNames(racks), NEW places \in SUBSET DOMAIN racks
    PROVE  LET kept == Selected(racks, places)
           IN  /\ kept \in Seq(S)
               /\ UniqueNames(kept)
               /\ \A k \in DOMAIN kept : \E i \in places : kept[k] = racks[i]
               /\ \A i \in places : \E k \in DOMAIN kept : kept[k] = racks[i]
<1> DEFINE kept == Selected(racks, places)
<1>1. /\ kept \in Seq(S)
      /\ \A k \in DOMAIN kept :
             Place(places, k) \in places /\ kept[k] = racks[Place(places, k)]
      /\ \A k, m \in DOMAIN kept : Place(places, k) = Place(places, m) => k = m
      /\ \A i \in places : \E k \in DOMAIN kept : Place(places, k) = i /\ kept[k] = racks[i]
  BY SelectedFacts
<1> HIDE DEF kept
<1>2. UniqueNames(kept)
  BY <1>1 DEF UniqueNames
<1>3. QED
  BY <1>1, <1>2 DEF kept

AllMatched(old, new) ==
    \A i \in DOMAIN old.racks, j \in DOMAIN new.racks :
        old.racks[i].name = new.racks[j].name
        => \E k \in DOMAIN Matched(old, new) :
               /\ Matched(old, new)[k].old = old.racks[i]
               /\ Matched(old, new)[k].new = new.racks[j]

(* The pairs of racks with the same name: each such pair, once. *)
LEMMA MatchedFacts ==
    ASSUME NEW old, NEW new, Named(old), Named(new)
    PROVE  LET pairs == Matched(old, new)
           IN  /\ pairs \in Seq([old : RacksOf(old), new : RacksOf(new)])
               /\ \A k \in DOMAIN pairs : pairs[k].old.name = pairs[k].new.name
               /\ \A k, m \in DOMAIN pairs : pairs[k].new.name = pairs[m].new.name => k = m
               /\ AllMatched(old, new)
<1> DEFINE kept == RacksAlsoIn(old.racks, new.racks)
           pairs == Matched(old, new)
           common == {i \in DOMAIN old.racks : FoundIn(old.racks[i].name, new.racks)}
<1>1. /\ old.racks \in Seq(RacksOf(old)) /\ UniqueNames(old.racks)
      /\ new.racks \in Seq(RacksOf(new)) /\ UniqueNames(new.racks)
  BY SpecRacks DEF Named
<1>2. \A i \in DOMAIN old.racks : old.racks[i] \in RacksOf(old)
  BY DEF RacksOf
<1>3. \A i \in DOMAIN new.racks : new.racks[i] \in RacksOf(new)
  BY DEF RacksOf
<1>4. /\ kept \in Seq(RacksOf(old)) /\ UniqueNames(kept)
      /\ \A k \in DOMAIN kept : \E i \in common : kept[k] = old.racks[i]
      /\ \A i \in common : \E k \in DOMAIN kept : kept[k] = old.racks[i]
  <2>1. common \in SUBSET DOMAIN old.racks
    OBVIOUS
  <2>2. kept = Selected(old.racks, common)
    BY DEF RacksAlsoIn
  <2> HIDE DEF kept, common
  <2> QED
    BY <1>1, <2>1, <2>2, SelectedRacks
<1>5. pairs = [i \in DOMAIN kept |->
                  [old |-> kept[i], new |-> FindRack(kept[i].name, new.racks)]]
  BY DEF Matched
<1> HIDE DEF kept, pairs
<1>6. DOMAIN pairs = DOMAIN kept
  BY <1>5
<1>7. \A k \in DOMAIN pairs :
          pairs[k].old = kept[k] /\ pairs[k].new = FindRack(kept[k].name, new.racks)
  BY <1>5
<1>8. ASSUME NEW k \in DOMAIN pairs
      PROVE  pairs[k].new \in RacksOf(new) /\ pairs[k].new.name = kept[k].name
  <2>1. FoundIn(kept[k].name, new.racks)
    BY <1>4, <1>6
  <2>2. PICK j \in DOMAIN new.racks :
            new.racks[j].name = kept[k].name
            /\ FindRack(kept[k].name, new.racks) = new.racks[j]
    BY <1>1, <2>1, FindRackFound
  <2> QED
    BY <2>2, <1>3, <1>7
<1>9. pairs \in Seq([old : RacksOf(old), new : RacksOf(new)])
  <2>1. DOMAIN kept = 1..Len(kept) /\ Len(kept) \in Nat
    BY <1>4
  <2>2. \A k \in DOMAIN kept : kept[k] \in RacksOf(old)
    BY <1>4
  <2>3. \A k \in DOMAIN kept : FindRack(kept[k].name, new.racks) \in RacksOf(new)
    BY <1>6, <1>7, <1>8
  <2>4. pairs \in [1..Len(kept) -> [old : RacksOf(old), new : RacksOf(new)]]
    BY <1>5, <2>1, <2>2, <2>3
  <2> QED
    BY <2>1, <2>4, SeqOf
<1>10. \A k \in DOMAIN pairs : pairs[k].old.name = pairs[k].new.name
  BY <1>7, <1>8
<1>11. \A k, m \in DOMAIN pairs : pairs[k].new.name = pairs[m].new.name => k = m
  BY <1>4, <1>6, <1>8 DEF UniqueNames
<1>12. ASSUME NEW i \in DOMAIN old.racks, NEW j \in DOMAIN new.racks,
              old.racks[i].name = new.racks[j].name
       PROVE  \E k \in DOMAIN pairs :
                  pairs[k].old = old.racks[i] /\ pairs[k].new = new.racks[j]
  <2>1. /\ FoundIn(new.racks[j].name, new.racks)
        /\ FindRack(new.racks[j].name, new.racks) = new.racks[j]
    BY <1>1, FindRackUnique
  <2>2. i \in common
    BY <1>12, <2>1
  <2>3. PICK k \in DOMAIN kept : kept[k] = old.racks[i]
    BY <1>4, <2>2
  <2> QED
    BY <1>6, <1>7, <1>12, <2>1, <2>3
<1> QED
  BY <1>9, <1>10, <1>11, <1>12 DEF pairs, AllMatched

(* The new racks of some of the pairs. *)
LEMMA SomeMatched ==
    ASSUME NEW old, NEW new, Named(old), Named(new),
           NEW places \in SUBSET DOMAIN Matched(old, new)
    PROVE  LET racks == NewOf(Selected(Matched(old, new), places))
           IN  /\ racks \in Seq(RacksOf(new))
               /\ UniqueNames(racks)
               /\ \A k \in DOMAIN racks : FoundIn(racks[k].name, old.racks)
               /\ \A i \in places : \E k \in DOMAIN racks :
                      racks[k] = Matched(old, new)[i].new
<1> DEFINE pairs == Matched(old, new)
           some == Selected(pairs, places)
           racks == NewOf(some)
           Pairs == [old : RacksOf(old), new : RacksOf(new)]
<1>1. /\ pairs \in Seq(Pairs)
      /\ \A k \in DOMAIN pairs : pairs[k].old.name = pairs[k].new.name
      /\ \A k, m \in DOMAIN pairs : pairs[k].new.name = pairs[m].new.name => k = m
  BY MatchedFacts
<1> HIDE DEF pairs, Pairs
<1>2. /\ some \in Seq(Pairs)
      /\ \A k \in DOMAIN some :
             Place(places, k) \in places /\ some[k] = pairs[Place(places, k)]
      /\ \A k, m \in DOMAIN some : Place(places, k) = Place(places, m) => k = m
      /\ \A i \in places : \E k \in DOMAIN some : Place(places, k) = i /\ some[k] = pairs[i]
  <2>1. places \in SUBSET DOMAIN pairs
    BY DEF pairs
  <2> QED
    BY <1>1, <2>1, SelectedFacts
<1>3. DOMAIN racks = DOMAIN some /\ \A k \in DOMAIN racks : racks[k] = some[k].new
  BY DEF NewOf
<1> HIDE DEF some, racks
<1>4. \A k \in DOMAIN pairs : pairs[k].old \in RacksOf(old) /\ pairs[k].new \in RacksOf(new)
  <2>1. \A k \in DOMAIN pairs : pairs[k] \in Pairs
    BY <1>1, SeqMembers
  <2> QED
    BY <2>1 DEF Pairs
<1>5. places \in SUBSET DOMAIN pairs
  BY DEF pairs
<1>6. \A k \in DOMAIN racks : racks[k] = pairs[Place(places, k)].new
                              /\ Place(places, k) \in DOMAIN pairs
  BY <1>2, <1>3, <1>5
<1>7. racks \in Seq(RacksOf(new))
  <2>1. Len(some) \in Nat /\ DOMAIN some = 1..Len(some)
    BY <1>2
  <2>2. racks \in [1..Len(some) -> RacksOf(new)]
    <3>1. \A k \in DOMAIN racks : racks[k] \in RacksOf(new)
      BY <1>4, <1>6
    <3>2. racks = [k \in DOMAIN some |-> some[k].new]
      BY DEF racks, NewOf
    <3> QED
      BY <3>1, <3>2, <1>3, <2>1
  <2> QED
    BY <2>1, <2>2, SeqOf
<1>8. UniqueNames(racks)
  BY <1>1, <1>2, <1>3, <1>6 DEF UniqueNames
<1>9. ASSUME NEW k \in DOMAIN racks PROVE FoundIn(racks[k].name, old.racks)
  <2>1. pairs[Place(places, k)].old \in RacksOf(old)
    BY <1>4, <1>6
  <2>2. PICK i \in DOMAIN old.racks : pairs[Place(places, k)].old = old.racks[i]
    BY <2>1 DEF RacksOf
  <2>3. old.racks[i].name = racks[k].name
    BY <1>1, <1>6, <2>2
  <2> QED
    BY <2>3, FoundRack
<1>10. \A i \in places : \E k \in DOMAIN racks : racks[k] = pairs[i].new
  BY <1>2, <1>3
<1> QED
  BY <1>7, <1>8, <1>9, <1>10 DEF racks, some, pairs

(* Racks that become smaller are racks of both specifications, and where   *)
(* there is none, no rack becomes smaller.                                 *)
AllSmaller(racks, old, new) ==
    \A i \in DOMAIN old.racks, j \in DOMAIN new.racks :
        old.racks[i].name = new.racks[j].name /\ new.racks[j].replicas < old.racks[i].replicas
        => \E k \in DOMAIN racks : racks[k] = new.racks[j]

LEMMA ScaledDownFacts ==
    ASSUME NEW old, NEW new, Named(old), Named(new)
    PROVE  LET racks == NewOf(ScaledDown(Matched(old, new)))
           IN  /\ racks \in Seq(RacksOf(new))
               /\ \A k \in DOMAIN racks : FoundIn(racks[k].name, old.racks)
               /\ AllSmaller(racks, old, new)
<1> DEFINE pairs == Matched(old, new)
           places == {i \in DOMAIN pairs : pairs[i].new.replicas < pairs[i].old.replicas}
           racks == NewOf(ScaledDown(pairs))
<1>1. places \in SUBSET DOMAIN Matched(old, new) /\ racks = NewOf(Selected(pairs, places))
  BY DEF ScaledDown
<1>2. /\ racks \in Seq(RacksOf(new))
      /\ \A k \in DOMAIN racks : FoundIn(racks[k].name, old.racks)
      /\ \A i \in places : \E k \in DOMAIN racks : racks[k] = pairs[i].new
  <2> HIDE DEF places, racks
  <2> QED
    BY <1>1, SomeMatched
<1>3. \A i \in DOMAIN old.racks, j \in DOMAIN new.racks :
          old.racks[i].name = new.racks[j].name
          => \E k \in DOMAIN pairs : pairs[k].old = old.racks[i] /\ pairs[k].new = new.racks[j]
  <2>1. AllMatched(old, new)
    BY MatchedFacts
  <2> QED
    BY <2>1 DEF AllMatched
<1> HIDE DEF pairs, racks
<1>4. AllSmaller(racks, old, new)
  BY <1>2, <1>3 DEF AllSmaller
<1> QED
  BY <1>2, <1>4 DEF racks, pairs

(* Updated racks are racks of both specifications, each at most once.      *)
(* Every rack of both is updated if the pods change; a rack that becomes   *)
(* larger is in any case.                                                  *)
LEMMA UpdatedFacts ==
    ASSUME NEW old, NEW new, Named(old), Named(new)
    PROVE  LET racks == Updated(old, new)
           IN  /\ racks \in Seq(RacksOf(new))
               /\ UniqueNames(racks)
               /\ \A k \in DOMAIN racks : FoundIn(racks[k].name, old.racks)
               /\ \A i \in DOMAIN old.racks, j \in DOMAIN new.racks :
                      /\ old.racks[i].name = new.racks[j].name
                      /\ PodSpecHasChanged(old, new)
                         \/ new.racks[j].replicas > old.racks[i].replicas
                      => \E k \in DOMAIN racks : racks[k] = new.racks[j]
<1> DEFINE pairs == Matched(old, new)
           larger == {i \in DOMAIN pairs : pairs[i].new.replicas > pairs[i].old.replicas}
           racks == Updated(old, new)
<1>1. \A i \in DOMAIN old.racks, j \in DOMAIN new.racks :
          old.racks[i].name = new.racks[j].name
          => \E k \in DOMAIN pairs : pairs[k].old = old.racks[i] /\ pairs[k].new = new.racks[j]
  <2>1. AllMatched(old, new)
    BY MatchedFacts
  <2> QED
    BY <2>1 DEF AllMatched
<1>2. CASE PodSpecHasChanged(old, new)
  <2>1. racks = NewOf(pairs)
    BY <1>2 DEF Updated
  <2>2. /\ pairs \in Seq([old : RacksOf(old), new : RacksOf(new)])
        /\ \A k \in DOMAIN pairs : pairs[k].old.name = pairs[k].new.name
        /\ \A k, m \in DOMAIN pairs : pairs[k].new.name = pairs[m].new.name => k = m
    BY MatchedFacts
  <2> HIDE DEF pairs
  <2>3. /\ DOMAIN racks = DOMAIN pairs
        /\ \A k \in DOMAIN racks : racks[k] = pairs[k].new
        /\ racks = [k \in DOMAIN pairs |-> pairs[k].new]
    BY <2>1 DEF NewOf
  <2> HIDE DEF racks
  <2>4. /\ Len(pairs) \in Nat /\ DOMAIN pairs = 1..Len(pairs)
        /\ \A k \in DOMAIN pairs :
               pairs[k].old \in RacksOf(old) /\ pairs[k].new \in RacksOf(new)
    <3>1. /\ Len(pairs) \in Nat /\ DOMAIN pairs = 1..Len(pairs)
          /\ \A k \in DOMAIN pairs : pairs[k] \in [old : RacksOf(old), new : RacksOf(new)]
      BY <2>2, SeqMembers
    <3> QED
      BY <3>1
  <2>5. racks \in [1..Len(pairs) -> RacksOf(new)]
    BY <2>3, <2>4
  <2>6. racks \in Seq(RacksOf(new))
    BY <2>4, <2>5, SeqOf
  <2>7. UniqueNames(racks)
    BY <2>2, <2>3 DEF UniqueNames
  <2>8. ASSUME NEW k \in DOMAIN racks PROVE FoundIn(racks[k].name, old.racks)
    <3>1. PICK i \in DOMAIN old.racks : pairs[k].old = old.racks[i]
      BY <2>3, <2>4 DEF RacksOf
    <3> QED
      BY <3>1, <2>2, <2>3, FoundRack
  <2> QED
    BY <1>1, <2>3, <2>6, <2>7, <2>8 DEF racks
<1>3. CASE ~PodSpecHasChanged(old, new)
  <2>1. larger \in SUBSET DOMAIN Matched(old, new) /\ racks = NewOf(Selected(pairs, larger))
    BY <1>3 DEF Updated, ScaledUp
  <2>2. /\ racks \in Seq(RacksOf(new))
        /\ UniqueNames(racks)
        /\ \A k \in DOMAIN racks : FoundIn(racks[k].name, old.racks)
        /\ \A i \in larger : \E k \in DOMAIN racks : racks[k] = pairs[i].new
    <3> HIDE DEF larger, racks
    <3> QED
      BY <2>1, SomeMatched
  <2> HIDE DEF pairs, racks
  <2> QED
    BY <1>1, <1>3, <2>2 DEF racks
<1> QED
  BY <1>2, <1>3

-----------------------------------------------------------------------------
(* The changes that may concern some racks. *)
ChangeSet(racks, new) == {Change(type, rack, new) : type \in ChangeTypes, rack \in racks}

LEMMA Concatenation ==
    ASSUME NEW S, NEW a \in Seq(S), NEW b \in Seq(S), NEW c, c = a \o b
    PROVE  /\ c \in Seq(S)
           /\ Len(c) = Len(a) + Len(b)
           /\ \A i \in 1..Len(a) : c[i] = a[i]
           /\ \A i \in (Len(a) + 1)..(Len(a) + Len(b)) : c[i] = b[i - Len(a)]
OBVIOUS

LEMMA EachIsSeq ==
    ASSUME NEW R, NEW new, NEW type \in ChangeTypes, NEW racks \in Seq(R)
    PROVE  Each(type, racks, new) \in Seq(ChangeSet(R, new))
<1>1. /\ Len(racks) \in Nat /\ DOMAIN racks = 1..Len(racks)
      /\ \A i \in DOMAIN racks : racks[i] \in R
  BY SeqMembers
<1>2. \A i \in DOMAIN racks : Change(type, racks[i], new) \in ChangeSet(R, new)
  BY <1>1 DEF ChangeSet
<1>3. Each(type, racks, new) \in [1..Len(racks) -> ChangeSet(R, new)]
  BY <1>1, <1>2 DEF Each
<1> QED
  BY <1>1, <1>3, SeqOf

LEMMA EachMember ==
    ASSUME NEW new, NEW type, NEW racks
    PROVE  /\ DOMAIN Each(type, racks, new) = DOMAIN racks
           /\ \A i \in DOMAIN racks : Each(type, racks, new)[i] = Change(type, racks[i], new)
BY DEF Each

LEMMA SameInterval ==
    ASSUME NEW m \in Nat, NEW n \in Nat, 1..m = 1..n
    PROVE  m = n
<1>1. \A k \in Nat : 1 <= k /\ k <= m <=> 1 <= k /\ k <= n
  <2> SUFFICES ASSUME NEW k \in Nat PROVE k \in 1..m <=> k \in 1..n
    OBVIOUS
  <2> QED
    OBVIOUS
<1> QED
  BY <1>1

(* Which change is at a given place, when the four loops have collected    *)
(* the racks adds, dels, downs and ups.                                   *)
Concerns(changes, i, type, racks, before, new) ==
    /\ i \in (before + 1)..(before + Len(racks))
    /\ changes[i] = Change(type, racks[i - before], new)

LEMMA Concerned ==
    ASSUME NEW changes, NEW i, NEW type, NEW racks, NEW before, NEW new,
           Concerns(changes, i, type, racks, before, new)
    PROVE  /\ i \in (before + 1)..(before + Len(racks))
           /\ changes[i].type = type
           /\ changes[i].rack = racks[i - before]
           /\ changes[i].patch = PatchFor(racks[i - before], new)
<1>1. /\ i \in (before + 1)..(before + Len(racks))
      /\ changes[i] = Change(type, racks[i - before], new)
  BY DEF Concerns
<1> DEFINE rack == racks[i - before]
<1>2. changes[i] = [type |-> type, rack |-> rack, patch |-> PatchFor(rack, new)]
  BY <1>1 DEF Change
<1> HIDE DEF rack
<1>3. changes[i].type = type /\ changes[i].rack = rack /\ changes[i].patch = PatchFor(rack, new)
  BY <1>2
<1> QED
  BY <1>1, <1>3 DEF rack

InTurn(adds, dels, downs, ups, new) ==
    Each("add rack", adds, new) \o Each("delete rack", dels, new)
      \o Each("scale down rack", downs, new) \o Each("update rack", ups, new)

(* The changes for new racks come first, then those for racks that are     *)
(* gone, those for racks that become smaller, and the updates.             *)
Collected(changes, adds, dels, downs, ups, R, new) ==
    /\ changes \in Seq(ChangeSet(R, new))
    /\ Len(changes) = Len(adds) + Len(dels) + Len(downs) + Len(ups)
    /\ \A i \in 1..Len(changes) :
           \/ Concerns(changes, i, "add rack", adds, 0, new)
           \/ Concerns(changes, i, "delete rack", dels, Len(adds), new)
           \/ Concerns(changes, i, "scale down rack", downs, Len(adds) + Len(dels), new)
           \/ Concerns(changes, i, "update rack", ups, Len(adds) + Len(dels) + Len(downs), new)
    /\ \A k \in 1..Len(adds) : changes[k] = Change("add rack", adds[k], new)
    /\ \A k \in 1..Len(ups) :
           changes[Len(adds) + Len(dels) + Len(downs) + k] = Change("update rack", ups[k], new)

LEMMA FourLoops ==
    ASSUME NEW R, NEW new,
           NEW adds \in Seq(R), NEW dels \in Seq(R), NEW downs \in Seq(R), NEW ups \in Seq(R)
    PROVE  Collected(InTurn(adds, dels, downs, ups, new), adds, dels, downs, ups, R, new)
<1> DEFINE C == ChangeSet(R, new)
           A == Each("add rack", adds, new)
           D == Each("delete rack", dels, new)
           S == Each("scale down rack", downs, new)
           U == Each("update rack", ups, new)
           changes == InTurn(adds, dels, downs, ups, new)
<1>0. {"add rack", "delete rack", "scale down rack", "update rack"} \subseteq ChangeTypes
  BY DEF ChangeTypes
<1>1. /\ A \in Seq(C) /\ Len(A) = Len(adds)
      /\ \A i \in 1..Len(adds) : A[i] = Change("add rack", adds[i], new)
  <2>1. A \in Seq(C)
    BY <1>0, EachIsSeq
  <2>2. DOMAIN A = DOMAIN adds /\ \A i \in DOMAIN adds : A[i] = Change("add rack", adds[i], new)
    BY EachMember
  <2> HIDE DEF A, C
  <2>3. /\ Len(A) \in Nat /\ DOMAIN A = 1..Len(A)
        /\ Len(adds) \in Nat /\ DOMAIN adds = 1..Len(adds)
    BY <2>1
  <2>4. Len(A) = Len(adds)
    BY <2>2, <2>3, SameInterval
  <2> QED
    BY <2>1, <2>2, <2>3, <2>4
<1>2. /\ D \in Seq(C) /\ Len(D) = Len(dels)
      /\ \A i \in 1..Len(dels) : D[i] = Change("delete rack", dels[i], new)
  <2>1. D \in Seq(C)
    BY <1>0, EachIsSeq
  <2>2. DOMAIN D = DOMAIN dels /\ \A i \in DOMAIN dels : D[i] = Change("delete rack", dels[i], new)
    BY EachMember
  <2> HIDE DEF D, C
  <2>3. /\ Len(D) \in Nat /\ DOMAIN D = 1..Len(D)
        /\ Len(dels) \in Nat /\ DOMAIN dels = 1..Len(dels)
    BY <2>1
  <2>4. Len(D) = Len(dels)
    BY <2>2, <2>3, SameInterval
  <2> QED
    BY <2>1, <2>2, <2>3, <2>4
<1>3. /\ S \in Seq(C) /\ Len(S) = Len(downs)
      /\ \A i \in 1..Len(downs) : S[i] = Change("scale down rack", downs[i], new)
  <2>1. S \in Seq(C)
    BY <1>0, EachIsSeq
  <2>2. DOMAIN S = DOMAIN downs /\ \A i \in DOMAIN downs : S[i] = Change("scale down rack", downs[i], new)
    BY EachMember
  <2> HIDE DEF S, C
  <2>3. /\ Len(S) \in Nat /\ DOMAIN S = 1..Len(S)
        /\ Len(downs) \in Nat /\ DOMAIN downs = 1..Len(downs)
    BY <2>1
  <2>4. Len(S) = Len(downs)
    BY <2>2, <2>3, SameInterval
  <2> QED
    BY <2>1, <2>2, <2>3, <2>4
<1>4. /\ U \in Seq(C) /\ Len(U) = Len(ups)
      /\ \A i \in 1..Len(ups) : U[i] = Change("update rack", ups[i], new)
  <2>1. U \in Seq(C)
    BY <1>0, EachIsSeq
  <2>2. DOMAIN U = DOMAIN ups /\ \A i \in DOMAIN ups : U[i] = Change("update rack", ups[i], new)
    BY EachMember
  <2> HIDE DEF U, C
  <2>3. /\ Len(U) \in Nat /\ DOMAIN U = 1..Len(U)
        /\ Len(ups) \in Nat /\ DOMAIN ups = 1..Len(ups)
    BY <2>1
  <2>4. Len(U) = Len(ups)
    BY <2>2, <2>3, SameInterval
  <2> QED
    BY <2>1, <2>2, <2>3, <2>4
<1> HIDE DEF A, D, S, U, C, changes
<1>5. changes = ((A \o D) \o S) \o U
  BY DEF A, D, S, U, changes, InTurn
<1>6. /\ A \in Seq(C) /\ D \in Seq(C) /\ S \in Seq(C) /\ U \in Seq(C)
      /\ Len(A) = Len(adds) /\ Len(D) = Len(dels)
      /\ Len(S) = Len(downs) /\ Len(U) = Len(ups)
  BY <1>1, <1>2, <1>3, <1>4
<1> DEFINE AD == A \o D
           ADS == AD \o S
<1>9. AD = A \o D /\ ADS = AD \o S /\ changes = ADS \o U
  BY <1>5
<1> HIDE DEF AD, ADS
<1>7. /\ AD \in Seq(C) /\ Len(AD) = Len(A) + Len(D)
      /\ \A i \in 1..Len(A) : AD[i] = A[i]
      /\ \A i \in (Len(A) + 1)..(Len(A) + Len(D)) : AD[i] = D[i - Len(A)]
  <2>1. AD = A \o D /\ A \in Seq(C) /\ D \in Seq(C)
    BY <1>6, <1>9
  <2> QED
    BY <2>1, Concatenation
<1>8. /\ ADS \in Seq(C) /\ Len(ADS) = Len(AD) + Len(S)
      /\ \A i \in 1..Len(AD) : ADS[i] = AD[i]
      /\ \A i \in (Len(AD) + 1)..(Len(AD) + Len(S)) : ADS[i] = S[i - Len(AD)]
  <2>1. ADS = AD \o S /\ AD \in Seq(C) /\ S \in Seq(C)
    BY <1>6, <1>7, <1>9
  <2> QED
    BY <2>1, Concatenation
<1>10. /\ changes \in Seq(C) /\ Len(changes) = Len(ADS) + Len(U)
       /\ \A i \in 1..Len(ADS) : changes[i] = ADS[i]
       /\ \A i \in (Len(ADS) + 1)..(Len(ADS) + Len(U)) : changes[i] = U[i - Len(ADS)]
  <2>1. changes = ADS \o U /\ ADS \in Seq(C) /\ U \in Seq(C)
    BY <1>6, <1>8, <1>9
  <2> QED
    BY <2>1, Concatenation
<1>11. /\ Len(adds) \in Nat /\ Len(dels) \in Nat /\ Len(downs) \in Nat /\ Len(ups) \in Nat
       /\ Len(AD) = Len(adds) + Len(dels)
       /\ Len(ADS) = Len(adds) + Len(dels) + Len(downs)
       /\ Len(changes) = Len(adds) + Len(dels) + Len(downs) + Len(ups)
  BY <1>6, <1>7, <1>8, <1>10
<1>12. ASSUME NEW i \in 1..Len(adds)
       PROVE  changes[i] = Change("add rack", adds[i], new)
  <2>1. i \in 1..Len(A) /\ i \in 1..Len(AD) /\ i \in 1..Len(ADS)
    BY <1>6, <1>11
  <2>2. changes[i] = A[i]
    BY <2>1, <1>7, <1>8, <1>10
  <2> QED
    BY <2>2, <1>1
<1>13. ASSUME NEW i \in (Len(adds) + 1)..(Len(adds) + Len(dels))
       PROVE  changes[i] = Change("delete rack", dels[i - Len(adds)], new)
  <2>1. /\ i \in (Len(A) + 1)..(Len(A) + Len(D)) /\ i \in 1..Len(AD) /\ i \in 1..Len(ADS)
        /\ i - Len(A) = i - Len(adds) /\ i - Len(adds) \in 1..Len(dels)
    BY <1>6, <1>11
  <2>2. changes[i] = D[i - Len(adds)]
    BY <2>1, <1>7, <1>8, <1>10
  <2> QED
    BY <2>1, <2>2, <1>2
<1>14. ASSUME NEW i \in (Len(adds) + Len(dels) + 1)..(Len(adds) + Len(dels) + Len(downs))
       PROVE  changes[i] = Change("scale down rack", downs[i - (Len(adds) + Len(dels))], new)
  <2> DEFINE k == i - (Len(adds) + Len(dels))
  <2>1. /\ i \in (Len(AD) + 1)..(Len(AD) + Len(S)) /\ i \in 1..Len(ADS)
        /\ i - Len(AD) = k /\ k \in 1..Len(downs)
    BY <1>6, <1>11
  <2>2. changes[i] = S[k]
    BY <2>1, <1>8, <1>10
  <2> QED
    BY <2>1, <2>2, <1>3
<1>15. ASSUME NEW i \in (Len(adds) + Len(dels) + Len(downs) + 1)
                          ..(Len(adds) + Len(dels) + Len(downs) + Len(ups))
       PROVE  changes[i] =
                  Change("update rack", ups[i - (Len(adds) + Len(dels) + Len(downs))], new)
  <2> DEFINE k == i - (Len(adds) + Len(dels) + Len(downs))
  <2>1. /\ i \in (Len(ADS) + 1)..(Len(ADS) + Len(U))
        /\ i - Len(ADS) = k /\ k \in 1..Len(ups)
    BY <1>6, <1>11
  <2>2. changes[i] = U[k]
    BY <2>1, <1>10
  <2> QED
    BY <2>1, <2>2, <1>4
<1>16. ASSUME NEW i \in 1..Len(changes)
       PROVE  \/ Concerns(changes, i, "add rack", adds, 0, new)
              \/ Concerns(changes, i, "delete rack", dels, Len(adds), new)
              \/ Concerns(changes, i, "scale down rack", downs, Len(adds) + Len(dels), new)
              \/ Concerns(changes, i, "update rack", ups, Len(adds) + Len(dels) + Len(downs), new)
  <2>1. \/ i \in 1..Len(adds)
        \/ i \in (Len(adds) + 1)..(Len(adds) + Len(dels))
        \/ i \in (Len(adds) + Len(dels) + 1)..(Len(adds) + Len(dels) + Len(downs))
        \/ i \in (Len(adds) + Len(dels) + Len(downs) + 1)..(Len(adds) + Len(dels) + Len(downs) + Len(ups))
    BY <1>11
  <2>2. i - 0 = i /\ 0 + 1 = 1 /\ 0 + Len(adds) = Len(adds)
    BY <1>10, <1>11
  <2> QED
    BY <2>1, <2>2, <1>12, <1>13, <1>14, <1>15, Zenon DEF Concerns
<1>17. ASSUME NEW k \in 1..Len(ups)
       PROVE  changes[Len(adds) + Len(dels) + Len(downs) + k] = Change("update rack", ups[k], new)
  <2> DEFINE n == Len(adds) + Len(dels) + Len(downs)
  <2>1. n \in Nat /\ k \in Nat /\ n + k \in (n + 1)..(n + Len(ups)) /\ (n + k) - n = k
    BY <1>11
  <2> QED
    BY <2>1, <1>15
<1> QED
  BY <1>10, <1>11, <1>12, <1>16, <1>17 DEF C, changes, Collected

(* matchRacks: the racks of one specification that another has not. *)
AllLeft(left, racks, others) ==
    \A i \in DOMAIN racks :
        ~FoundIn(racks[i].name, others) => \E k \in DOMAIN left : left[k] = racks[i]

LEMMA NotInFacts ==
    ASSUME NEW S, NEW racks \in Seq(S), UniqueNames(racks), NEW others
    PROVE  LET left == RacksNotIn(racks, others)
           IN  /\ left \in Seq(S)
               /\ UniqueNames(left)
               /\ \A k \in DOMAIN left : ~FoundIn(left[k].name, others)
               /\ AllLeft(left, racks, others)
<1> DEFINE places == {i \in DOMAIN racks : ~FoundIn(racks[i].name, others)}
           left == RacksNotIn(racks, others)
<1>1. places \in SUBSET DOMAIN racks /\ left = Selected(racks, places)
  BY DEF RacksNotIn
<1>2. /\ left \in Seq(S) /\ UniqueNames(left)
      /\ \A k \in DOMAIN left : \E i \in places : left[k] = racks[i]
      /\ \A i \in places : \E k \in DOMAIN left : left[k] = racks[i]
  <2> HIDE DEF places, left
  <2> QED
    BY <1>1, SelectedRacks
<1> HIDE DEF left
<1> QED
  BY <1>2 DEF left, AllLeft

(* The racks that ChangesForCluster goes through. *)
Adds(old, new)  == RacksNotIn(new.racks, old.racks)
Dels(old, new)  == RacksNotIn(old.racks, new.racks)
Downs(old, new) == NewOf(ScaledDown(Matched(old, new)))
AllRacks(old, new) == RacksOf(old) \cup RacksOf(new)

LEMMA SeqWider ==
    ASSUME NEW S, NEW R, S \subseteq R, NEW s \in Seq(S)
    PROVE  s \in Seq(R)
OBVIOUS

LEMMA MatchedType ==
    ASSUME NEW old, NEW new, IsSpec(old), IsSpec(new)
    PROVE  Matched(old, new) \in Seq([old : RacksOf(old), new : RacksOf(new)])
<1> DEFINE common == {i \in DOMAIN old.racks : FoundIn(old.racks[i].name, new.racks)}
           kept == RacksAlsoIn(old.racks, new.racks)
<1>1. old.racks \in Seq(RacksOf(old)) /\ new.racks \in Seq(RacksOf(new))
  BY SpecRacks
<1>2. /\ kept \in Seq(RacksOf(old))
      /\ \A k \in DOMAIN kept : \E i \in common : kept[k] = old.racks[i]
  <2>1. common \in SUBSET DOMAIN old.racks /\ kept = Selected(old.racks, common)
    BY DEF RacksAlsoIn
  <2> HIDE DEF kept, common
  <2> QED
    BY <1>1, <2>1, SelectedFacts
<1>3. Matched(old, new) =
          [k \in DOMAIN kept |-> [old |-> kept[k], new |-> FindRack(kept[k].name, new.racks)]]
  BY DEF Matched
<1> HIDE DEF kept
<1>4. Len(kept) \in Nat /\ DOMAIN kept = 1..Len(kept) /\ \A k \in DOMAIN kept : kept[k] \in RacksOf(old)
  BY <1>2, SeqMembers
<1>5. ASSUME NEW k \in DOMAIN kept
      PROVE  FindRack(kept[k].name, new.racks) \in RacksOf(new)
  <2>1. FoundIn(kept[k].name, new.racks)
    BY <1>2
  <2>2. PICK j \in DOMAIN new.racks : FindRack(kept[k].name, new.racks) = new.racks[j]
    BY <1>1, <2>1, FindRackFound
  <2> QED
    BY <2>2 DEF RacksOf
<1>6. Matched(old, new) \in [1..Len(kept) -> [old : RacksOf(old), new : RacksOf(new)]]
  BY <1>3, <1>4, <1>5
<1> QED
  BY <1>4, <1>6, SeqOf

LEMMA NewOfType ==
    ASSUME NEW R, NEW S, NEW pairs \in Seq([old : R, new : S])
    PROVE  NewOf(pairs) \in Seq(S)
<1>1. /\ Len(pairs) \in Nat /\ DOMAIN pairs = 1..Len(pairs)
      /\ \A k \in DOMAIN pairs : pairs[k] \in [old : R, new : S]
  BY SeqMembers
<1>2. NewOf(pairs) \in [1..Len(pairs) -> S]
  BY <1>1 DEF NewOf
<1> QED
  BY <1>1, <1>2, SeqOf

(* The types of these sequences, whether or not names are unique. *)
LEMMA RackTypes ==
    ASSUME NEW old, NEW new, IsSpec(old), IsSpec(new)
    PROVE  /\ Adds(old, new) \in Seq(RacksOf(new))
           /\ Dels(old, new) \in Seq(RacksOf(old))
           /\ Downs(old, new) \in Seq(RacksOf(new))
           /\ Updated(old, new) \in Seq(RacksOf(new))
<1> DEFINE pairs == Matched(old, new)
           P == [old : RacksOf(old), new : RacksOf(new)]
           smaller == {i \in DOMAIN pairs : pairs[i].new.replicas < pairs[i].old.replicas}
           larger == {i \in DOMAIN pairs : pairs[i].new.replicas > pairs[i].old.replicas}
           added == {i \in DOMAIN new.racks : ~FoundIn(new.racks[i].name, old.racks)}
           gone == {i \in DOMAIN old.racks : ~FoundIn(old.racks[i].name, new.racks)}
<1>1. old.racks \in Seq(RacksOf(old)) /\ new.racks \in Seq(RacksOf(new))
  BY SpecRacks
<1>2. /\ added \in SUBSET DOMAIN new.racks /\ Adds(old, new) = Selected(new.racks, added)
      /\ gone \in SUBSET DOMAIN old.racks /\ Dels(old, new) = Selected(old.racks, gone)
  BY DEF Adds, Dels, RacksNotIn
<1>3. /\ pairs \in Seq(P)
      /\ smaller \in SUBSET DOMAIN pairs /\ Downs(old, new) = NewOf(Selected(pairs, smaller))
      /\ larger \in SUBSET DOMAIN pairs /\ ScaledUp(pairs) = Selected(pairs, larger)
      /\ Updated(old, new) =
             NewOf(IF PodSpecHasChanged(old, new) THEN pairs ELSE ScaledUp(pairs))
  BY MatchedType DEF Downs, ScaledDown, ScaledUp, Updated
<1> HIDE DEF pairs, smaller, larger, added, gone, P
<1>4. Adds(old, new) \in Seq(RacksOf(new)) /\ Dels(old, new) \in Seq(RacksOf(old))
  BY <1>1, <1>2, SelectedFacts
<1>5. Selected(pairs, smaller) \in Seq(P) /\ Selected(pairs, larger) \in Seq(P)
  BY <1>3, SelectedFacts
<1>6. NewOf(Selected(pairs, smaller)) \in Seq(RacksOf(new))
  BY <1>5, NewOfType DEF P
<1>7. NewOf(Selected(pairs, larger)) \in Seq(RacksOf(new)) /\ NewOf(pairs) \in Seq(RacksOf(new))
  BY <1>3, <1>5, NewOfType DEF P
<1> QED
  BY <1>3, <1>4, <1>6, <1>7

LEMMA RackSequences ==
    ASSUME NEW old, NEW new, Named(old), Named(new)
    PROVE  /\ Adds(old, new) \in Seq(RacksOf(new)) /\ UniqueNames(Adds(old, new))
           /\ Dels(old, new) \in Seq(RacksOf(old))
           /\ Downs(old, new) \in Seq(RacksOf(new))
           /\ Updated(old, new) \in Seq(RacksOf(new)) /\ UniqueNames(Updated(old, new))
<1>1. new.racks \in Seq(RacksOf(new)) /\ UniqueNames(new.racks)
  BY SpecRacks DEF Named
<1>2. UniqueNames(Adds(old, new))
  BY <1>1, NotInFacts DEF Adds
<1>3. UniqueNames(Updated(old, new))
  BY UpdatedFacts
<1> QED
  BY <1>2, <1>3, RackTypes DEF Named

LEMMA ChangesInTurn ==
    ASSUME NEW old, NEW new, IsSpec(old), IsSpec(new)
    PROVE  Collected(ChangesForCluster(old, new), Adds(old, new), Dels(old, new),
                     Downs(old, new), Updated(old, new), AllRacks(old, new), new)
<1> DEFINE R == AllRacks(old, new)
           adds == Adds(old, new)
           dels == Dels(old, new)
           downs == Downs(old, new)
           ups == Updated(old, new)
<1>1. RacksOf(old) \subseteq R /\ RacksOf(new) \subseteq R
  BY DEF AllRacks
<1>2. /\ adds \in Seq(RacksOf(new)) /\ dels \in Seq(RacksOf(old))
      /\ downs \in Seq(RacksOf(new)) /\ ups \in Seq(RacksOf(new))
  BY RackTypes
<1>3. ChangesForCluster(old, new) = InTurn(adds, dels, downs, ups, new)
  BY DEF ChangesForCluster, InTurn, Adds, Dels, Downs
<1> HIDE DEF R, adds, dels, downs, ups
<1>4. adds \in Seq(R) /\ dels \in Seq(R) /\ downs \in Seq(R) /\ ups \in Seq(R)
  BY <1>1, <1>2, SeqWider
<1>5. Collected(InTurn(adds, dels, downs, ups, new), adds, dels, downs, ups, R, new)
  BY <1>4, FourLoops
<1> QED
  BY <1>3, <1>5 DEF R, adds, dels, downs, ups

-----------------------------------------------------------------------------
(* "should perform adds before delete, scale down and update operations"   *)
(* (adjuster_test.go:407): the changes are in the order of their types.    *)
InOrder(changes) ==
    \A i, j \in DOMAIN changes : i < j => Rank[changes[i].type] <= Rank[changes[j].type]

LEMMA ChangesInOrder ==
    ASSUME NEW old, NEW new, Named(old), Named(new)
    PROVE  InOrder(ChangesForCluster(old, new))
<1> DEFINE changes == ChangesForCluster(old, new)
           a == Len(Adds(old, new))
           ad == a + Len(Dels(old, new))
           ads == ad + Len(Downs(old, new))
           m == ads + Len(Updated(old, new))
<1>1. Collected(changes, Adds(old, new), Dels(old, new), Downs(old, new),
                Updated(old, new), AllRacks(old, new), new)
  BY ChangesInTurn DEF Named
<1>2. /\ Len(Adds(old, new)) \in Nat /\ Len(Dels(old, new)) \in Nat
      /\ Len(Downs(old, new)) \in Nat /\ Len(Updated(old, new)) \in Nat
  BY RackSequences, SeqMembers
<1>3. a \in Nat /\ ad \in Nat /\ ads \in Nat /\ m \in Nat /\ a <= ad /\ ad <= ads
  BY <1>2
<1> HIDE DEF changes
<1>4. DOMAIN changes = 1..Len(changes) /\ Len(changes) \in Nat
  BY <1>1, SeqMembers DEF Collected
<1>5. ASSUME NEW i \in DOMAIN changes
      PROVE  \/ i \in 1..a /\ changes[i].type = "add rack"
             \/ i \in (a + 1)..ad /\ changes[i].type = "delete rack"
             \/ i \in (ad + 1)..ads /\ changes[i].type = "scale down rack"
             \/ i \in (ads + 1)..m /\ changes[i].type = "update rack"
  <2>1. 0 + 1 = 1 /\ 0 + a = a
    BY <1>3
  <2>2. CASE Concerns(changes, i, "add rack", Adds(old, new), 0, new)
    <3>1. i \in (0 + 1)..(0 + a) /\ changes[i].type = "add rack"
      BY <2>2, Concerned
    <3> QED
      BY <2>1, <3>1
  <2>3. CASE Concerns(changes, i, "delete rack", Dels(old, new), a, new)
    BY <2>3, Concerned
  <2>4. CASE Concerns(changes, i, "scale down rack", Downs(old, new), ad, new)
    BY <2>4, Concerned
  <2>5. CASE Concerns(changes, i, "update rack", Updated(old, new), ads, new)
    BY <2>5, Concerned
  <2> QED
    BY <1>1, <1>4, <2>2, <2>3, <2>4, <2>5 DEF Collected
<1> HIDE DEF a, ad, ads, m
<1>6. /\ Rank["add rack"] = 1 /\ Rank["delete rack"] = 2
      /\ Rank["scale down rack"] = 3 /\ Rank["update rack"] = 4
  BY DEF Rank, ChangeTypes
<1>7. \A i \in DOMAIN changes :
          \/ i \in 1..a /\ Rank[changes[i].type] = 1
          \/ i \in (a + 1)..ad /\ Rank[changes[i].type] = 2
          \/ i \in (ad + 1)..ads /\ Rank[changes[i].type] = 3
          \/ i \in (ads + 1)..m /\ Rank[changes[i].type] = 4
  BY <1>5, <1>6, Zenon
<1>8. ASSUME NEW i \in DOMAIN changes, NEW j \in DOMAIN changes, i < j
      PROVE  Rank[changes[i].type] <= Rank[changes[j].type]
  BY <1>3, <1>4, <1>7, <1>8
<1> QED
  BY <1>8 DEF InOrder, changes

(* The rack of a change that is made. *)
Understood(change, i, old, new) ==
    LET k == i - (Len(Adds(old, new)) + Len(Dels(old, new)) + Len(Downs(old, new)))
    IN  /\ change.type \in ChangeTypes
        /\ change.rack \in AllRacks(old, new)
        /\ change.patch = PatchFor(change.rack, new)
        /\ change.type = "add rack"
           => i \in DOMAIN Adds(old, new) /\ change.rack = Adds(old, new)[i]
        /\ change.type = "update rack"
           => k \in DOMAIN Updated(old, new) /\ change.rack = Updated(old, new)[k]
        /\ change.type = "delete rack" => Len(Dels(old, new)) > 0
        /\ change.type = "scale down rack" => Len(Downs(old, new)) > 0

LEMMA ChangedRack ==
    ASSUME NEW old, NEW new, Named(old), Named(new),
           NEW i \in DOMAIN ChangesForCluster(old, new)
    PROVE  Understood(ChangesForCluster(old, new)[i], i, old, new)
<1> DEFINE changes == ChangesForCluster(old, new)
           adds == Adds(old, new)
           dels == Dels(old, new)
           downs == Downs(old, new)
           ups == Updated(old, new)
           a == Len(adds)
           ad == a + Len(dels)
           ads == ad + Len(downs)
<1>1. Collected(changes, adds, dels, downs, ups, AllRacks(old, new), new)
  BY ChangesInTurn DEF Named
<1>2. /\ adds \in Seq(RacksOf(new)) /\ dels \in Seq(RacksOf(old))
      /\ downs \in Seq(RacksOf(new)) /\ ups \in Seq(RacksOf(new))
  BY RackSequences
<1> HIDE DEF changes, adds, dels, downs, ups
<1>3. i \in 1..Len(changes) /\ Len(changes) \in Nat
  <2>1. i \in DOMAIN changes
    BY DEF changes
  <2> QED
    BY <1>1, <2>1, SeqMembers DEF Collected
<1>4. /\ Len(adds) \in Nat /\ DOMAIN adds = 1..Len(adds)
      /\ Len(dels) \in Nat
      /\ Len(downs) \in Nat
      /\ Len(ups) \in Nat /\ DOMAIN ups = 1..Len(ups)
  BY <1>2
<1>5. a \in Nat /\ ad \in Nat /\ ads \in Nat
  BY <1>4
<1>6. /\ changes[i].type \in ChangeTypes
      /\ changes[i].rack \in AllRacks(old, new)
      /\ changes[i].patch = PatchFor(changes[i].rack, new)
  <2>1. changes[i] \in ChangeSet(AllRacks(old, new), new)
    <3>1. changes \in Seq(ChangeSet(AllRacks(old, new), new))
      BY <1>1 DEF Collected
    <3> QED
      BY <1>3, <3>1
  <2>2. PICK type \in ChangeTypes, rack \in AllRacks(old, new) :
            changes[i] = Change(type, rack, new)
    BY <2>1 DEF ChangeSet
  <2>3. changes[i] = [type |-> type, rack |-> rack, patch |-> PatchFor(rack, new)]
    BY <2>2 DEF Change
  <2> QED
    BY <2>3
<1>7. CASE Concerns(changes, i, "add rack", adds, 0, new)
  <2>1. /\ i \in (0 + 1)..(0 + a)
        /\ changes[i].type = "add rack"
        /\ changes[i].rack = adds[i - 0]
    <3>1. i \in (0 + 1)..(0 + a) /\ changes[i].type = "add rack"
      BY <1>7, Concerned
    <3>2. changes[i].rack = adds[i - 0]
      <4> DEFINE rack == adds[i - 0]
      <4>1. changes[i] = Change("add rack", rack, new)
        BY <1>7 DEF Concerns
      <4> HIDE DEF rack
      <4>2. changes[i].rack = rack
        <5> DEFINE change == changes[i]
        <5>1. change = [type |-> "add rack", rack |-> rack, patch |-> PatchFor(rack, new)]
          BY <4>1 DEF Change
        <5> HIDE DEF change
        <5>2. change.rack = rack
          BY <5>1
        <5> QED
          BY <5>2 DEF change
      <4> QED
        BY <4>2 DEF rack
    <3> QED
      BY <3>1, <3>2
  <2>2. i \in (0 + 1)..(0 + a)
    BY <2>1
  <2>3. i \in DOMAIN adds /\ i - 0 = i
    BY <2>2, <1>4, <1>5
  <2> QED
    BY <2>1, <2>3, <1>6 DEF changes, adds, dels, downs, ups, Understood
<1>8. CASE Concerns(changes, i, "delete rack", dels, a, new)
  <2>1. i \in (a + 1)..ad /\ changes[i].type = "delete rack"
    BY <1>8, Concerned
  <2>2. i \in (a + 1)..ad
    BY <2>1
  <2>3. Len(dels) > 0
    BY <2>2, <1>4
  <2> QED
    BY <2>1, <2>3, <1>6 DEF changes, adds, dels, downs, ups, Understood
<1>9. CASE Concerns(changes, i, "scale down rack", downs, ad, new)
  <2>1. i \in (ad + 1)..ads /\ changes[i].type = "scale down rack"
    BY <1>9, Concerned
  <2>2. i \in (ad + 1)..ads
    BY <2>1
  <2>3. Len(downs) > 0
    BY <2>2, <1>4
  <2> QED
    BY <2>1, <2>3, <1>6 DEF changes, adds, dels, downs, ups, Understood
<1>10. CASE Concerns(changes, i, "update rack", ups, ads, new)
  <2>1. /\ i \in (ads + 1)..(ads + Len(ups))
        /\ changes[i].type = "update rack"
        /\ changes[i].rack = ups[i - ads]
    <3>1. i \in (ads + 1)..(ads + Len(ups)) /\ changes[i].type = "update rack"
      BY <1>10, Concerned
    <3>2. changes[i].rack = ups[i - ads]
      <4> DEFINE rack == ups[i - ads]
      <4>1. changes[i] = Change("update rack", rack, new)
        BY <1>10 DEF Concerns
      <4> HIDE DEF rack
      <4>2. changes[i].rack = rack
        <5> DEFINE change == changes[i]
        <5>1. change = [type |-> "update rack", rack |-> rack, patch |-> PatchFor(rack, new)]
          BY <4>1 DEF Change
        <5> HIDE DEF change
        <5>2. change.rack = rack
          BY <5>1
        <5> QED
          BY <5>2 DEF change
      <4> QED
        BY <4>2 DEF rack
    <3> QED
      BY <3>1, <3>2
  <2>2. i \in (ads + 1)..(ads + Len(ups))
    BY <2>1
  <2>3. i - ads \in DOMAIN ups
    BY <2>2, <1>4
  <2> QED
    BY <2>1, <2>3, <1>6 DEF changes, adds, dels, downs, ups, Understood
<1> QED
  BY <1>1, <1>3, <1>7, <1>8, <1>9, <1>10 DEF Collected

(* At most one change that is made concerns a rack: an added rack is new,  *)
(* an updated one is not, and neither loop meets a name twice.             *)
RacksOnce(changes) ==
    \A i, j \in DOMAIN changes :
        /\ {changes[i].type, changes[j].type} \subseteq {"add rack", "update rack"}
        /\ changes[i].rack.name = changes[j].rack.name
        => i = j

LEMMA ChangesOnce ==
    ASSUME NEW old, NEW new, Named(old), Named(new)
    PROVE  RacksOnce(ChangesForCluster(old, new))
<1> DEFINE changes == ChangesForCluster(old, new)
           adds == Adds(old, new)
           ups == Updated(old, new)
           ads == Len(adds) + Len(Dels(old, new)) + Len(Downs(old, new))
<1>1. \A i \in DOMAIN changes :
          /\ changes[i].type = "add rack"
             => i \in DOMAIN adds /\ changes[i].rack = adds[i]
          /\ changes[i].type = "update rack"
             => i - ads \in DOMAIN ups /\ changes[i].rack = ups[i - ads]
  <2> SUFFICES ASSUME NEW i \in DOMAIN ChangesForCluster(old, new)
               PROVE  /\ changes[i].type = "add rack"
                         => i \in DOMAIN adds /\ changes[i].rack = adds[i]
                      /\ changes[i].type = "update rack"
                         => i - ads \in DOMAIN ups /\ changes[i].rack = ups[i - ads]
    OBVIOUS
  <2>1. Understood(changes[i], i, old, new)
    BY ChangedRack
  <2> QED
    BY <2>1 DEF Understood
<1>2. UniqueNames(adds) /\ UniqueNames(ups)
  BY RackSequences
<1>3. \A k \in DOMAIN adds : ~FoundIn(adds[k].name, old.racks)
  <2>1. new.racks \in Seq(RacksOf(new)) /\ UniqueNames(new.racks)
    BY SpecRacks DEF Named
  <2> QED
    BY <2>1, NotInFacts DEF Adds
<1>4. \A k \in DOMAIN ups : FoundIn(ups[k].name, old.racks)
  BY UpdatedFacts
<1>5. ads \in Int /\ \A i \in DOMAIN changes : i \in Int
  <2>1. /\ Len(adds) \in Nat /\ Len(Dels(old, new)) \in Nat /\ Len(Downs(old, new)) \in Nat
    BY RackSequences
  <2>2. changes \in Seq(ChangeSet(AllRacks(old, new), new))
    BY ChangesInTurn DEF Collected, Named
  <2> HIDE DEF changes
  <2>3. \A i \in DOMAIN changes : i \in Int
    BY <2>2
  <2> QED
    BY <2>1, <2>3
<1> HIDE DEF changes, adds, ups, ads
<1>6. ASSUME NEW i \in DOMAIN changes, NEW j \in DOMAIN changes,
             {changes[i].type, changes[j].type} \subseteq {"add rack", "update rack"},
             changes[i].rack.name = changes[j].rack.name
      PROVE  i = j
  <2>1. CASE changes[i].type = "add rack" /\ changes[j].type = "add rack"
    <3>1. i \in DOMAIN adds /\ j \in DOMAIN adds /\ adds[i].name = adds[j].name
      BY <2>1, <1>1, <1>6
    <3> QED
      BY <3>1, <1>2 DEF UniqueNames
  <2>2. CASE changes[i].type = "update rack" /\ changes[j].type = "update rack"
    <3>1. /\ i - ads \in DOMAIN ups /\ j - ads \in DOMAIN ups
          /\ ups[i - ads].name = ups[j - ads].name
      BY <2>2, <1>1, <1>6
    <3>2. i - ads = j - ads
      BY <3>1, <1>2, Zenon DEF UniqueNames
    <3> QED
      BY <3>2, <1>5
  <2>3. CASE changes[i].type = "add rack" /\ changes[j].type = "update rack"
    BY <2>3, <1>1, <1>3, <1>4, <1>6
  <2>4. CASE changes[i].type = "update rack" /\ changes[j].type = "add rack"
    BY <2>4, <1>1, <1>3, <1>4, <1>6
  <2> QED
    BY <1>6, <2>1, <2>2, <2>3, <2>4
<1> QED
  BY <1>6 DEF RacksOnce, changes

(* No rack is forgotten: one that is new is added, and one that both       *)
(* specifications have is updated where the pods or its size call for it.  *)
Reached(changes, type, rack) ==
    \E i \in DOMAIN changes : changes[i].type = type /\ changes[i].rack = rack
NoneForgotten(changes, old, new) ==
    /\ \A j \in DOMAIN new.racks :
           ~FoundIn(new.racks[j].name, old.racks)
           => Reached(changes, "add rack", new.racks[j])
    /\ \A i \in DOMAIN old.racks, j \in DOMAIN new.racks :
           /\ old.racks[i].name = new.racks[j].name
           /\ PodSpecHasChanged(old, new) \/ new.racks[j].replicas > old.racks[i].replicas
           => Reached(changes, "update rack", new.racks[j])

(* ChangesForCluster forgets no rack that update_cluster.go has to create  *)
(* or to patch: for any two specifications, of any number of racks, it     *)
(* gives every new rack an addition, and every rack that grows or whose    *)
(* pods change an update.                                                  *)
THEOREM ChangesComplete ==
    ASSUME NEW old, NEW new, Named(old), Named(new)
    PROVE  NoneForgotten(ChangesForCluster(old, new), old, new)
<1> DEFINE changes == ChangesForCluster(old, new)
           adds == Adds(old, new)
           ups == Updated(old, new)
           ads == Len(adds) + Len(Dels(old, new)) + Len(Downs(old, new))
<1>1. Collected(changes, adds, Dels(old, new), Downs(old, new), ups, AllRacks(old, new), new)
  BY ChangesInTurn DEF Named
<1>2. /\ adds \in Seq(RacksOf(new)) /\ ups \in Seq(RacksOf(new))
      /\ Dels(old, new) \in Seq(RacksOf(old)) /\ Downs(old, new) \in Seq(RacksOf(new))
  BY RackSequences
<1>3. new.racks \in Seq(RacksOf(new)) /\ UniqueNames(new.racks)
  BY SpecRacks DEF Named
<1>4. \A j \in DOMAIN new.racks : ~FoundIn(new.racks[j].name, old.racks)
          => \E k \in DOMAIN adds : adds[k] = new.racks[j]
  <2>1. AllLeft(adds, new.racks, old.racks)
    BY <1>3, NotInFacts DEF Adds
  <2> QED
    BY <2>1 DEF AllLeft
<1>5. \A i \in DOMAIN old.racks, j \in DOMAIN new.racks :
          /\ old.racks[i].name = new.racks[j].name
          /\ PodSpecHasChanged(old, new) \/ new.racks[j].replicas > old.racks[i].replicas
          => \E k \in DOMAIN ups : ups[k] = new.racks[j]
  BY UpdatedFacts
<1>6. /\ Len(adds) \in Nat /\ DOMAIN adds = 1..Len(adds)
      /\ Len(ups) \in Nat /\ DOMAIN ups = 1..Len(ups)
      /\ Len(Dels(old, new)) \in Nat /\ Len(Downs(old, new)) \in Nat
  BY <1>2, SeqMembers
<1> HIDE DEF changes, adds, ups
<1>7. /\ DOMAIN changes = 1..Len(changes) /\ Len(changes) = ads + Len(ups)
      /\ ads \in Nat /\ Len(adds) <= ads
  <2>1. /\ changes \in Seq(ChangeSet(AllRacks(old, new), new))
        /\ Len(changes) = ads + Len(ups)
    BY <1>1 DEF Collected
  <2> QED
    BY <1>6, <2>1, SeqMembers
<1>8. ASSUME NEW k \in DOMAIN adds PROVE Reached(changes, "add rack", adds[k])
  <2>1. k \in DOMAIN changes
    BY <1>6, <1>7
  <2> DEFINE change == changes[k]
             rack == adds[k]
  <2>2. change = Change("add rack", rack, new)
    BY <1>1, <1>6 DEF Collected
  <2> HIDE DEF change, rack
  <2>3. change.type = "add rack" /\ change.rack = rack
    BY <2>2 DEF Change
  <2> QED
    BY <2>1, <2>3 DEF Reached, change, rack
<1>9. ASSUME NEW k \in DOMAIN ups PROVE Reached(changes, "update rack", ups[k])
  <2>1. ads + k \in DOMAIN changes
    BY <1>6, <1>7
  <2> DEFINE change == changes[ads + k]
             rack == ups[k]
  <2>2. change = Change("update rack", rack, new)
    BY <1>1, <1>6 DEF Collected
  <2> HIDE DEF change, rack
  <2>3. change.type = "update rack" /\ change.rack = rack
    BY <2>2 DEF Change
  <2> QED
    BY <2>1, <2>3 DEF Reached, change, rack
<1> QED
  BY <1>4, <1>5, <1>8, <1>9 DEF NoneForgotten, changes
=============================================================================
