---------------------------- MODULE TimersProofs ----------------------------
(***************************************************************************)
(* For any cells, tests and bounds: the timer lists stay sorted and apart, *)
(* the handles of the test and the cursor of tmr_run point to active       *)
(* timers, and a test leaves no timer behind.                              *)
(***************************************************************************)
EXTENDS Timers, SequenceTheorems, WellFoundedInduction, TLAPS

----------------------------------------------------------------------------
(* The list operations of timer.c.                                         *)

LEMMA SmallestNumber ==
    ASSUME NEW S \in SUBSET Nat, S # {}
    PROVE  Min(S) \in S /\ \A y \in S : Min(S) <= y
<1> DEFINE R == {ss \in Nat \X Nat : ss[1] < ss[2]}
<1>1. IsWellFoundedOn(R, Nat) BY NatLessThanWellFounded DEF OpToRel
<1>2. PICK x \in S : \A y \in S : ~(<<y, x>> \in R)
  <2> HIDE DEF R
  <2> QED BY <1>1, WFMin
<1>3. \A a, b \in Nat : a < b => <<a, b>> \in R OBVIOUS
<1>4. \A y \in S : x <= y
  <2> HIDE DEF R
  <2> TAKE y \in S
  <2>1. x \in Nat /\ y \in Nat OBVIOUS
  <2>2. ~ (y < x) BY <2>1, <1>2, <1>3
  <2> QED BY <2>1, <2>2
<1> QED BY <1>4 DEF Min

LEMMA NoElements ==
    ASSUME NEW list \in Seq(Cells), ToSet(list) = {}
    PROVE  list = <<>>
<1>1. \A i \in 1 .. Len(list) : list[i] \in ToSet(list) BY DEF ToSet
<1>2. Len(list) \in Nat BY LenProperties
<1>3. Len(list) = 0
  <2>1. CASE Len(list) > 0
    <3>1. 1 \in 1 .. Len(list) BY <1>2, <2>1
    <3> QED BY <1>1, <3>1
  <2> QED BY <1>2, <2>1
<1> QED BY <1>3, EmptySeq

LEMMA Joined ==
    ASSUME NEW left \in Seq(Cells), NEW right \in Seq(Cells)
    PROVE  /\ left \o right \in Seq(Cells)
           /\ Len(left \o right) = Len(left) + Len(right)
           /\ \A i \in 1 .. Len(left) : (left \o right)[i] = left[i]
           /\ \A i \in 1 .. Len(right) : (left \o right)[Len(left) + i] = right[i]
<1>1. Len(left) \in Nat /\ Len(right) \in Nat OBVIOUS
<1> QED BY <1>1, ConcatProperties

\* One element less, at a known place.
LEMMA RemovedAt ==
    ASSUME NEW list \in Seq(Cells), NEW t \in ToSet(list)
    PROVE  \E k \in 1 .. Len(list) :
              /\ list[k] = t
              /\ ListRemove(list, t) \in Seq(Cells)
              /\ Len(ListRemove(list, t)) = Len(list) - 1
              /\ \A i \in 1 .. Len(list) - 1 :
                    ListRemove(list, t)[i] = IF i < k THEN list[i] ELSE list[i + 1]
<1> DEFINE k == CHOOSE i \in DOMAIN list : list[i] = t
           left == SubSeq(list, 1, k - 1)
           right == SubSeq(list, k + 1, Len(list))
           r == ListRemove(list, t)
<1>1. k \in 1 .. Len(list) /\ list[k] = t BY DEF ToSet
<1>2. r = left \o right BY DEF ListRemove, RemoveAt
<1> HIDE DEF k, r
<1>3. /\ left \in Seq(Cells) /\ Len(left) = k - 1
      /\ \A i \in 1 .. k - 1 : left[i] = list[i]
  <2>1. \A i \in 1 .. k - 1 : list[i] \in Cells BY <1>1, ElementOfSeq
  <2> QED BY <1>1, <2>1, SubSeqProperties
<1>4. /\ right \in Seq(Cells) /\ Len(right) = Len(list) - k
      /\ \A i \in 1 .. Len(list) - k : right[i] = list[k + i]
  <2>1. \A i \in k + 1 .. Len(list) : list[i] \in Cells BY <1>1, ElementOfSeq
  <2> QED BY <1>1, <2>1, SubSeqProperties
<1> HIDE DEF left, right
<1>5. /\ r \in Seq(Cells) /\ Len(r) = Len(left) + Len(right)
      /\ \A i \in 1 .. Len(left) : r[i] = left[i]
      /\ \A i \in 1 .. Len(right) : r[Len(left) + i] = right[i]
  BY <1>2, <1>3, <1>4, Joined
<1>6. Len(r) = Len(list) - 1 BY <1>1, <1>3, <1>4, <1>5
<1>7. ASSUME NEW i \in 1 .. Len(list) - 1
      PROVE  r[i] = IF i < k THEN list[i] ELSE list[i + 1]
  <2>1. CASE i < k BY <1>1, <1>3, <1>5, <2>1
  <2>2. CASE ~ (i < k)
    <3> DEFINE j == i - (k - 1)
    <3>1. j \in 1 .. Len(right) /\ i = Len(left) + j /\ k + j = i + 1 BY <1>1, <1>3, <1>4, <2>2
    <3> HIDE DEF j
    <3>2. r[i] = list[k + j] BY <1>4, <1>5, <3>1
    <3> QED BY <2>2, <3>1, <3>2
  <2> QED BY <2>1, <2>2
<1> QED BY <1>1, <1>5, <1>6, <1>7 DEF r

\* list_remove of a timer of the list.
LEMMA Removed ==
    ASSUME NEW list \in Seq(Cells), NEW t \in ToSet(list), IsInjective(list)
    PROVE  /\ ListRemove(list, t) \in Seq(Cells)
           /\ IsInjective(ListRemove(list, t))
           /\ ToSet(ListRemove(list, t)) = ToSet(list) \ {t}
<1> DEFINE r == ListRemove(list, t)
<1>1. PICK k \in 1 .. Len(list) :
        /\ list[k] = t /\ r \in Seq(Cells) /\ Len(r) = Len(list) - 1
        /\ \A i \in 1 .. Len(list) - 1 : r[i] = IF i < k THEN list[i] ELSE list[i + 1]
  BY RemovedAt
<1> HIDE DEF r
<1>2. \A i, j \in 1 .. Len(list) : list[i] = list[j] => i = j BY DEF IsInjective
<1>3. IsInjective(r) BY <1>1, <1>2 DEF IsInjective
<1>4. ToSet(r) \subseteq ToSet(list) \ {t} BY <1>1, <1>2 DEF ToSet
<1>5. ASSUME NEW u \in ToSet(list) \ {t} PROVE u \in ToSet(r)
  <2>1. PICK i \in 1 .. Len(list) : u = list[i] BY DEF ToSet
  <2>2. CASE i < k
    <3>1. i \in 1 .. Len(r) /\ r[i] = u BY <1>1, <2>1, <2>2
    <3> QED BY <1>1, <3>1 DEF ToSet
  <2>3. CASE i > k
    <3>1. i - 1 \in 1 .. Len(r) /\ r[i - 1] = list[(i - 1) + 1] BY <1>1, <2>3
    <3>2. r[i - 1] = u BY <2>1, <3>1
    <3> QED BY <1>1, <3>1, <3>2 DEF ToSet
  <2> QED BY <1>1, <2>1, <2>2, <2>3
<1> QED BY <1>1, <1>3, <1>4, <1>5 DEF r

\* The rest of a sorted list is sorted, whatever time the removed timer gets.
LEMMA RemovedSorted ==
    ASSUME NEW list \in Seq(Cells), NEW t \in ToSet(list), IsInjective(list),
           NEW times \in [Cells -> Nat], Sorted(list, times),
           NEW later \in [Cells -> Nat], \A u \in Cells \ {t} : later[u] = times[u]
    PROVE  Sorted(ListRemove(list, t), later)
<1> DEFINE r == ListRemove(list, t)
<1>1. PICK k \in 1 .. Len(list) :
        /\ list[k] = t /\ r \in Seq(Cells) /\ Len(r) = Len(list) - 1
        /\ \A i \in 1 .. Len(list) - 1 : r[i] = IF i < k THEN list[i] ELSE list[i + 1]
  BY RemovedAt
<1>2. t \notin ToSet(r) BY Removed
<1>3. \A i \in DOMAIN r : later[r[i]] = times[r[i]]
  <2> SUFFICES ASSUME NEW i \in DOMAIN r PROVE later[r[i]] = times[r[i]] OBVIOUS
  <2>1. r[i] # t BY <1>2 DEF ToSet
  <2>2. r[i] \in Cells BY <1>1, ElementOfSeq
  <2> HIDE DEF r
  <2> QED BY <2>1, <2>2
<1> HIDE DEF r
<1>4. Sorted(r, times)
  <2>1. DOMAIN list = 1 .. Len(list) /\ Len(list) \in Nat OBVIOUS
  <2>2. DOMAIN r = 1 .. Len(list) - 1 BY <1>1, LenProperties
  <2> SUFFICES ASSUME NEW i \in DOMAIN r, NEW j \in DOMAIN r, i < j
               PROVE  times[r[i]] <= times[r[j]]
    BY DEF Sorted
  <2> DEFINE At(n) == IF n < k THEN n ELSE n + 1
  <2>3. At(i) \in DOMAIN list /\ At(j) \in DOMAIN list /\ At(i) < At(j)
    <3> DEFINE n == Len(list)
    <3>1. n \in Nat /\ k \in 1 .. n /\ i \in 1 .. n - 1 /\ j \in 1 .. n - 1 BY <2>1, <2>2
    <3> HIDE DEF n
    <3>2. At(i) \in 1 .. n BY <3>1
    <3>3. At(j) \in 1 .. n BY <3>1
    <3>4. At(i) < At(j) BY <3>1
    <3> QED BY <2>1, <3>2, <3>3, <3>4 DEF n
  <2>4. r[i] = list[At(i)] /\ r[j] = list[At(j)] BY <1>1, <2>2
  <2> HIDE DEF At
  <2> QED BY <2>3, <2>4 DEF Sorted
<1>5. Sorted(r, later) BY <1>3, <1>4 DEF Sorted
<1> QED BY <1>5 DEF r

\* list_add of a timer that is in no list.
LEMMA Added ==
    ASSUME NEW list \in Seq(Cells), NEW t \in Cells, t \notin ToSet(list),
           IsInjective(list), NEW times \in [Cells -> Nat], Sorted(list, times)
    PROVE  /\ ListAdd(list, times, t) \in Seq(Cells)
           /\ IsInjective(ListAdd(list, times, t))
           /\ ToSet(ListAdd(list, times, t)) = ToSet(list) \cup {t}
           /\ Sorted(ListAdd(list, times, t), times)
<1> DEFINE later == {i \in DOMAIN list : times[t] < times[list[i]]}
           k == IF later = {} THEN Len(list) + 1 ELSE Min(later)
           a == ListAdd(list, times, t)
<1>1. /\ k \in 1 .. Len(list) + 1
      /\ \A i \in 1 .. k - 1 : times[list[i]] <= times[t]
      /\ \A i \in k .. Len(list) : times[t] <= times[list[i]]
  <2>1. \A i \in 1 .. Len(list) : list[i] \in Cells BY ElementOfSeq
  <2>2. \A i \in 1 .. Len(list) : times[list[i]] \in Nat BY <2>1
  <2>3. times[t] \in Nat OBVIOUS
  <2>4. CASE later = {} BY <2>2, <2>3, <2>4
  <2>5. CASE later # {}
    <3>1. Min(later) \in later /\ \A y \in later : Min(later) <= y
      <4>1. later \in SUBSET Nat OBVIOUS
      <4> HIDE DEF later
      <4> QED BY <2>5, <4>1, SmallestNumber
    <3>2. k = Min(later) BY <2>5
    <3> HIDE DEF k
    <3>3. k \in 1 .. Len(list) /\ times[t] < times[list[k]] BY <3>1, <3>2
    <3>4. ASSUME NEW i \in 1 .. k - 1 PROVE times[list[i]] <= times[t]
      <4>1. i \in DOMAIN list /\ i \notin later BY <3>1, <3>2, <3>3
      <4> QED BY <2>2, <2>3, <4>1
    <3>5. ASSUME NEW i \in k .. Len(list) PROVE times[t] <= times[list[i]]
      <4>1. times[list[k]] <= times[list[i]]
        <5>1. i = k \/ k < i BY <3>3
        <5>2. i \in DOMAIN list /\ k \in DOMAIN list BY <3>3
        <5>3. CASE i = k BY <2>2, <3>3, <5>3
        <5>4. CASE k < i BY <5>2, <5>4 DEF Sorted
        <5> QED BY <5>1, <5>3, <5>4
      <4> QED BY <2>2, <2>3, <3>3, <4>1
    <3> QED BY <3>3, <3>4, <3>5
  <2> QED BY <2>4, <2>5
<1>2. a = SubSeq(list, 1, k - 1) \o <<t>> \o SubSeq(list, k, Len(list))
  BY DEF ListAdd, InsertAt
<1> HIDE DEF later, k, a
<1> DEFINE before == SubSeq(list, 1, k - 1)
           after == SubSeq(list, k, Len(list))
<1>3. /\ before \in Seq(Cells) /\ Len(before) = k - 1
      /\ \A i \in 1 .. k - 1 : before[i] = list[i]
  <2>1. \A i \in 1 .. k - 1 : list[i] \in Cells BY <1>1, ElementOfSeq
  <2> QED BY <1>1, <2>1, SubSeqProperties
<1>4. /\ after \in Seq(Cells) /\ Len(after) = Len(list) - k + 1
      /\ \A i \in 1 .. Len(list) - k + 1 : after[i] = list[k + i - 1]
  <2>1. \A i \in k .. Len(list) : list[i] \in Cells BY <1>1, ElementOfSeq
  <2> QED BY <1>1, <2>1, SubSeqProperties
<1> HIDE DEF before, after
<1> DEFINE front == before \o <<t>>
<1>5. /\ front \in Seq(Cells) /\ Len(front) = k
      /\ \A i \in 1 .. k : front[i] = IF i < k THEN list[i] ELSE t
  <2>1. <<t>> \in Seq(Cells) /\ Len(<<t>>) = 1 /\ <<t>>[1] = t OBVIOUS
  <2> QED BY <1>1, <1>3, <2>1, ConcatProperties
<1>6. a = front \o after BY <1>2 DEF before, after
<1> HIDE DEF front
<1>7. /\ a \in Seq(Cells) /\ Len(a) = Len(front) + Len(after)
      /\ \A i \in 1 .. Len(front) : a[i] = front[i]
      /\ \A i \in 1 .. Len(after) : a[Len(front) + i] = after[i]
  <2>1. front \in Seq(Cells) /\ after \in Seq(Cells) BY <1>4, <1>5
  <2> QED BY ONLY <1>6, <2>1, Joined
<1> /\ Len(a) = Len(list) + 1 /\ DOMAIN a = 1 .. Len(list) + 1
    /\ DOMAIN list = 1 .. Len(list) /\ Len(list) \in Nat
  BY <1>1, <1>4, <1>5, <1>7
<1>8. ASSUME NEW i \in 1 .. Len(list) + 1
      PROVE  a[i] = IF i < k THEN list[i] ELSE IF i = k THEN t ELSE list[i - 1]
  <2>1. CASE i <= k BY <1>1, <1>5, <1>7, <2>1
  <2>2. CASE i > k
    <3> DEFINE j == i - k
    <3>1. j \in 1 .. Len(after) /\ i = Len(front) + j /\ k + j - 1 = i - 1
      BY <1>1, <1>4, <1>5, <2>2
    <3> HIDE DEF j
    <3>2. a[i] = list[k + j - 1] BY <1>4, <1>5, <1>7, <3>1
    <3> QED BY <1>1, <2>2, <3>1, <3>2
  <2> QED BY <1>1, <2>1, <2>2
<1>9. \A i, j \in 1 .. Len(list) : list[i] = list[j] => i = j BY DEF IsInjective
<1>10. \A i \in 1 .. Len(list) : list[i] # t BY DEF ToSet
<1> DEFINE From(i) == IF i < k THEN i ELSE i - 1
<1>11. \A i \in 1 .. Len(a) : i # k => From(i) \in 1 .. Len(list) /\ a[i] = list[From(i)]
  BY <1>1, <1>8
<1>12. IsInjective(a)
  <2> SUFFICES ASSUME NEW i \in 1 .. Len(a), NEW j \in 1 .. Len(a), a[i] = a[j] PROVE i = j
    BY <1>7 DEF IsInjective
  <2>1. a[k] = t BY <1>1, <1>8
  <2>2. CASE i = k BY <1>10, <1>11, <2>1, <2>2
  <2>3. CASE j = k BY <1>10, <1>11, <2>1, <2>3
  <2>4. CASE i # k /\ j # k
    <3>1. From(i) = From(j) BY <1>9, <1>11, <2>4
    <3> QED BY <1>1, <2>4, <3>1
  <2> QED BY <2>2, <2>3, <2>4
<1>13. ToSet(a) \subseteq ToSet(list) \cup {t}
  <2> SUFFICES ASSUME NEW i \in 1 .. Len(a) PROVE a[i] \in ToSet(list) \cup {t}
    BY <1>7 DEF ToSet
  <2>1. a[k] = t BY <1>1, <1>8
  <2>2. CASE i # k
    <3>1. From(i) \in DOMAIN list /\ a[i] = list[From(i)] BY <1>11, <2>2
    <3> HIDE DEF From
    <3> QED BY <3>1 DEF ToSet
  <2> QED BY <2>1, <2>2
<1>14. t \in ToSet(a)
  <2>1. k \in 1 .. Len(a) /\ a[k] = t BY <1>1, <1>7, <1>8
  <2> QED BY <1>7, <2>1 DEF ToSet
<1>15. ASSUME NEW u \in ToSet(list) PROVE u \in ToSet(a)
  <2>1. PICK i \in 1 .. Len(list) : u = list[i] BY DEF ToSet
  <2>2. CASE i < k
    <3>1. i \in 1 .. Len(a) /\ a[i] = u BY <1>1, <1>7, <1>8, <2>1, <2>2
    <3> QED BY <1>7, <3>1 DEF ToSet
  <2>3. CASE ~ (i < k)
    <3>1. i + 1 \in 1 .. Len(a) BY <2>3
    <3>2. a[i + 1] = u BY <1>1, <1>8, <2>1, <2>3, <3>1
    <3> QED BY <1>7, <3>1, <3>2 DEF ToSet
  <2> QED BY <2>2, <2>3
<1>16. Sorted(a, times)
  <2> SUFFICES ASSUME NEW i \in 1 .. Len(list) + 1, NEW j \in 1 .. Len(list) + 1, i < j
               PROVE  times[a[i]] <= times[a[j]]
    BY DEF Sorted
  <2>1. \A m, n \in 1 .. Len(list) : m < n => times[list[m]] <= times[list[n]] BY DEF Sorted
  <2>2. CASE i < k /\ j < k
    <3>1. a[i] = list[i] /\ a[j] = list[j] BY <1>1, <1>8, <2>2
    <3>2. i \in 1 .. Len(list) /\ j \in 1 .. Len(list) BY <1>1, <2>2
    <3> QED BY <2>1, <3>1, <3>2
  <2>3. CASE i < k /\ j = k BY <1>1, <1>8, <2>3
  <2>4. CASE i < k /\ j > k
    <3>1. a[i] = list[i] /\ a[j] = list[j - 1] BY <1>1, <1>8, <2>4
    <3>2. i \in 1 .. Len(list) /\ j - 1 \in 1 .. Len(list) /\ i < j - 1 BY <1>1, <2>4
    <3> QED BY <2>1, <3>1, <3>2
  <2>5. CASE i = k
    <3>1. a[i] = t /\ a[j] = list[j - 1] /\ j - 1 \in k .. Len(list) BY <1>1, <1>8, <2>5
    <3> QED BY <1>1, <3>1
  <2>6. CASE i > k
    <3>1. a[i] = list[i - 1] /\ a[j] = list[j - 1] BY <1>1, <1>8, <2>6
    <3>2. i - 1 \in 1 .. Len(list) /\ j - 1 \in 1 .. Len(list) /\ i - 1 < j - 1 BY <1>1, <2>6
    <3> QED BY <2>1, <3>1, <3>2
  <2> QED BY <1>1, <2>2, <2>3, <2>4, <2>5, <2>6
<1> QED BY <1>7, <1>12, <1>13, <1>14, <1>15, <1>16 DEF a

\* list_resort of a timer of the list whose time has just changed.
LEMMA Resorted ==
    ASSUME NEW list \in Seq(Cells), NEW t \in ToSet(list), IsInjective(list),
           NEW times \in [Cells -> Nat], Sorted(list, times),
           NEW later \in [Cells -> Nat], \A u \in Cells \ {t} : later[u] = times[u]
    PROVE  /\ ListResort(list, later, t) \in Seq(Cells)
           /\ IsInjective(ListResort(list, later, t))
           /\ ToSet(ListResort(list, later, t)) = ToSet(list)
           /\ Sorted(ListResort(list, later, t), later)
<1> DEFINE r == ListRemove(list, t)
<1>1. t \in Cells BY ElementOfSeq DEF ToSet
<1>2. /\ r \in Seq(Cells) /\ IsInjective(r) /\ ToSet(r) = ToSet(list) \ {t}
      /\ Sorted(r, later)
  BY Removed, RemovedSorted
<1>3. ListResort(list, later, t) = ListAdd(r, later, t) BY DEF ListResort
<1> HIDE DEF r
<1>4. /\ ListAdd(r, later, t) \in Seq(Cells) /\ IsInjective(ListAdd(r, later, t))
      /\ ToSet(ListAdd(r, later, t)) = ToSet(r) \cup {t}
      /\ Sorted(ListAdd(r, later, t), later)
  BY <1>1, <1>2, Added
<1> QED BY <1>1, <1>2, <1>3, <1>4

\* A cell at the head of the free list, and one taken from there.
LEMMA Prepended ==
    ASSUME NEW list \in Seq(Cells), NEW t \in Cells, t \notin ToSet(list), IsInjective(list)
    PROVE  /\ <<t>> \o list \in Seq(Cells) /\ IsInjective(<<t>> \o list)
           /\ ToSet(<<t>> \o list) = ToSet(list) \cup {t}
<1> DEFINE one == <<t>>
           l == one \o list
<1>1. one \in Seq(Cells) /\ Len(one) = 1 /\ one[1] = t OBVIOUS
<1> HIDE DEF one
<1>2. /\ l \in Seq(Cells) /\ Len(l) = 1 + Len(list) /\ l[1] = t
      /\ \A i \in 1 .. Len(list) : l[1 + i] = list[i]
  <2>1. /\ l \in Seq(Cells) /\ Len(l) = Len(one) + Len(list)
        /\ \A i \in 1 .. Len(one) : l[i] = one[i]
        /\ \A i \in 1 .. Len(list) : l[Len(one) + i] = list[i]
    BY <1>1, Joined
  <2> HIDE DEF l
  <2> QED BY <1>1, <2>1
<1> HIDE DEF l
<1>3. /\ DOMAIN l = 1 .. Len(list) + 1 /\ DOMAIN list = 1 .. Len(list)
      /\ Len(list) \in Nat
  BY <1>2
<1>4. \A i \in DOMAIN l : i # 1 => i - 1 \in DOMAIN list /\ l[i] = list[i - 1]
  <2> SUFFICES ASSUME NEW i \in DOMAIN l, i # 1
               PROVE  i - 1 \in DOMAIN list /\ l[i] = list[i - 1]
    OBVIOUS
  <2>1. i - 1 \in DOMAIN list /\ i = 1 + (i - 1) BY <1>3
  <2> QED BY <1>2, <1>3, <2>1
<1>5. \A i \in DOMAIN list : list[i] # t BY DEF ToSet
<1>6. IsInjective(l)
  <2> SUFFICES ASSUME NEW i \in DOMAIN l, NEW j \in DOMAIN l, l[i] = l[j] PROVE i = j
    BY DEF IsInjective
  <2>1. CASE i = 1 \/ j = 1 BY <1>2, <1>4, <1>5, <2>1
  <2>2. CASE i # 1 /\ j # 1
    <3>1. i - 1 = j - 1 BY <1>4, <2>2 DEF IsInjective
    <3> QED BY <1>3, <3>1
  <2> QED BY <2>1, <2>2
<1>7. ToSet(l) \subseteq ToSet(list) \cup {t}
  <2> SUFFICES ASSUME NEW i \in DOMAIN l PROVE l[i] \in ToSet(list) \cup {t}
    BY DEF ToSet
  <2>1. CASE i = 1 BY <1>2, <2>1
  <2>2. CASE i # 1
    <3>1. i - 1 \in DOMAIN list /\ l[i] = list[i - 1] BY <1>4, <2>2
    <3> QED BY <3>1 DEF ToSet
  <2> QED BY <2>1, <2>2
<1>8. t \in ToSet(l)
  <2>1. 1 \in DOMAIN l BY <1>3
  <2> QED BY <1>2, <2>1 DEF ToSet
<1>9. ToSet(list) \subseteq ToSet(l)
  <2> SUFFICES ASSUME NEW i \in DOMAIN list PROVE list[i] \in ToSet(l) BY DEF ToSet
  <2>1. 1 + i \in DOMAIN l /\ l[1 + i] = list[i] BY <1>2, <1>3
  <2> QED BY <2>1 DEF ToSet
<1> QED BY <1>2, <1>6, <1>7, <1>8, <1>9 DEF l, one

LEMMA Taken ==
    ASSUME NEW list \in Seq(Cells), IsInjective(list), list # <<>>
    PROVE  /\ Head(list) \in ToSet(list) /\ Head(list) \in Cells
           /\ Tail(list) \in Seq(Cells) /\ IsInjective(Tail(list))
           /\ ToSet(Tail(list)) = ToSet(list) \ {Head(list)}
<1> DEFINE l == Tail(list)
           h == Head(list)
<1>1. /\ h = list[1] /\ h \in Cells /\ l \in Seq(Cells) /\ Len(l) = Len(list) - 1
      /\ \A i \in 1 .. Len(l) : l[i] = list[i + 1]
  BY HeadTailProperties
<1> HIDE DEF l, h
<1>2. DOMAIN l = 1 .. Len(list) - 1 /\ DOMAIN list = 1 .. Len(list) /\ Len(list) \in Nat \ {0}
  BY <1>1
<1>3. h \in ToSet(list) BY <1>1, <1>2 DEF ToSet
<1>4. \A i \in DOMAIN l : i + 1 \in DOMAIN list /\ i + 1 # 1 /\ l[i] = list[i + 1]
  BY <1>1, <1>2
<1>5. IsInjective(l)
  <2> SUFFICES ASSUME NEW i \in DOMAIN l, NEW j \in DOMAIN l, l[i] = l[j] PROVE i = j
    BY DEF IsInjective
  <2>1. i + 1 = j + 1 BY <1>4 DEF IsInjective
  <2> QED BY <1>2, <2>1
<1>6. ToSet(l) \subseteq ToSet(list) \ {h}
  <2> SUFFICES ASSUME NEW i \in DOMAIN l PROVE l[i] \in ToSet(list) \ {h} BY DEF ToSet
  <2>1. list[i + 1] # list[1] BY <1>2, <1>4 DEF IsInjective
  <2>2. list[i + 1] \in ToSet(list) BY <1>4 DEF ToSet
  <2> QED BY <1>1, <1>4, <2>1, <2>2
<1>7. ToSet(list) \ {h} \subseteq ToSet(l)
  <2> SUFFICES ASSUME NEW i \in DOMAIN list, list[i] # h PROVE list[i] \in ToSet(l)
    BY DEF ToSet
  <2>1. i - 1 \in DOMAIN l /\ (i - 1) + 1 = i BY <1>1, <1>2
  <2>2. l[i - 1] = list[i] BY <1>4, <2>1
  <2> QED BY <2>1, <2>2 DEF ToSet
<1> QED BY <1>1, <1>3, <1>5, <1>6, <1>7 DEF l, h

\* t->next of an active timer is another active timer, if there is one.
LEMMA NextOfActive ==
    ASSUME NEW t \in Active, timers \in Seq(Cells), IsInjective(timers)
    PROVE  NextOf(t) = Nil \/ NextOf(t) \in Active \ {t}
<1> DEFINE i == CHOOSE j \in DOMAIN timers : timers[j] = t
<1>1. i \in DOMAIN timers /\ timers[i] = t BY DEF Active, ToSet
<1>2. NextOf(t) = IF i = Len(timers) THEN Nil ELSE timers[i + 1] BY DEF NextOf
<1> HIDE DEF i
<1>3. CASE i # Len(timers)
  <2>1. i + 1 \in DOMAIN timers /\ i + 1 # i BY <1>1, <1>3
  <2>2. timers[i + 1] # t BY <1>1, <2>1 DEF IsInjective
  <2>3. timers[i + 1] \in Active BY <2>1 DEF Active, ToSet
  <2> QED BY <1>2, <1>3, <2>2, <2>3
<1> QED BY <1>2, <1>3

----------------------------------------------------------------------------
(* The invariant.                                                          *)

\* What the phases of a test promise one another: a handle is written only while
\* it is NULL, and tmr_run runs only in a test that has started.
PhaseInv ==
    /\ phase = "starting" => \A p \in pending : handle[p] = Nil
    /\ phase = "idle" => \A p \in Procs : handle[p] = Nil
    /\ clock # Nil => phase = "running"
    /\ clock = Nil => cursor = Nil

TimersInv ==
    /\ TypeOK
    /\ ListIsSorted /\ CellsAreInOnePlace
    /\ HandlesAreActive /\ NoTimerOutlivesItsTest /\ CursorIsActive
    /\ PhaseInv

LEMMA UsecsTypes ==
    ASSUME NEW s \in Setups, NEW p \in Procs
    PROVE  Usecs(s, p) \in Nat
<1>1. /\ s.duration \in Nat /\ s.omit \in Nat /\ s.stats \in Nat /\ s.reporter \in Nat
      /\ Grace \in Nat
  BY SetupsAssumption, BoundsAssumption
<1> QED BY <1>1 DEF Usecs, Procs

LEMMA InitHolds == ASSUME Init PROVE TimersInv
<1>1. (CHOOSE s \in Setups : TRUE) \in Setups BY SetupsAssumption
<1>2. Active = {} /\ Free = {} BY DEF Init, Active, Free, ToSet
<1>3. TypeOK BY <1>1, BoundsAssumption DEF Init, TypeOK, Procs
<1>4. ListIsSorted /\ CellsAreInOnePlace
  BY <1>2 DEF Init, ListIsSorted, Sorted, CellsAreInOnePlace, IsInjective
<1>5. HandlesAreActive /\ NoTimerOutlivesItsTest /\ CursorIsActive /\ PhaseInv
  BY <1>2 DEF Init, HandlesAreActive, NoTimerOutlivesItsTest, CursorIsActive, PhaseInv
<1> QED BY <1>3, <1>4, <1>5 DEF TimersInv

\* A step that leaves the lists and the handles alone.
LEMMA ListsUntouched ==
    ASSUME TimersInv, UNCHANGED <<timers, free, time, proc, handle>>
    PROVE  /\ ListIsSorted' /\ CellsAreInOnePlace'
           /\ HandlesAreActive' /\ NoTimerOutlivesItsTest'
           /\ Active' = Active /\ Free' = Free
<1>1. Active' = Active /\ Free' = Free BY DEF Active, Free
<1> QED BY <1>1 DEF TimersInv, ListIsSorted, Sorted, CellsAreInOnePlace,
              HandlesAreActive, NoTimerOutlivesItsTest

LEMMA StateTypes ==
    ASSUME TimersInv
    PROVE  /\ timers \in Seq(Cells) /\ free \in Seq(Cells) /\ IsInjective(timers)
           /\ IsInjective(free) /\ Active \cap Free = {} /\ time \in [Cells -> Nat]
           /\ Sorted(timers, time) /\ now \in Nat /\ setup \in Setups
           /\ pending \subseteq Procs /\ proc \in [Cells -> Procs]
           /\ handle \in [Procs -> Cells \cup {Nil}] /\ (clock # Nil => clock \in Nat)
           /\ Active \subseteq Cells
<1>1. Active \subseteq Cells BY ElementOfSeq DEF TimersInv, TypeOK, Active, ToSet
<1> QED BY <1>1, BoundsAssumption DEF TimersInv, TypeOK, CellsAreInOnePlace, ListIsSorted

LEMMA NextWantedIsPending ==
    ASSUME pending \subseteq Procs, pending # {}
    PROVE  NextWanted \in pending
<1> DEFINE S == {i \in DOMAIN CreateOrder : CreateOrder[i] \in pending}
<1>1. S \in SUBSET Nat BY DEF CreateOrder
<1>2. S # {}
  <2>1. PICK p \in Procs : p \in pending OBVIOUS
  <2>2. \E i \in 1 .. 4 : CreateOrder[i] = p BY DEF CreateOrder, Procs
  <2>3. DOMAIN CreateOrder = 1 .. 4 BY DEF CreateOrder
  <2> QED BY <2>1, <2>2, <2>3
<1>3. NextWanted = CreateOrder[Min(S)] BY DEF NextWanted
<1>4. Min(S) \in S
  <2> HIDE DEF S
  <2> QED BY <1>1, <1>2, SmallestNumber
<1> QED BY <1>3, <1>4

\* The cell that tmr_create takes, and the list it puts it in.
LEMMA CreateTimerKeeps == ASSUME TimersInv, CreateTimer PROVE TimersInv'
<1> DEFINE p == NextWanted
           t == IF free # <<>> THEN Head(free) ELSE CHOOSE u \in Unused : TRUE
<1>1. /\ timers \in Seq(Cells) /\ free \in Seq(Cells) /\ IsInjective(timers)
      /\ IsInjective(free) /\ Active \cap Free = {} /\ time \in [Cells -> Nat]
      /\ Sorted(timers, time) /\ now \in Nat /\ setup \in Setups /\ pending \subseteq Procs
      /\ proc \in [Cells -> Procs] /\ handle \in [Procs -> Cells \cup {Nil}]
  BY StateTypes
<1>2. p \in pending /\ p \in Procs BY <1>1, NextWantedIsPending DEF CreateTimer
<1>3. /\ t \in Cells /\ t \notin Active /\ free' \in Seq(Cells) /\ IsInjective(free')
      /\ Free' = Free \ {t}
  <2>1. CASE free # <<>>
    <3>1. t = Head(free) /\ free' = Tail(free) BY <2>1 DEF CreateTimer
    <3>2. /\ Head(free) \in ToSet(free) /\ Head(free) \in Cells
          /\ Tail(free) \in Seq(Cells) /\ IsInjective(Tail(free))
          /\ ToSet(Tail(free)) = ToSet(free) \ {Head(free)}
      BY <1>1, <2>1, Taken
    <3> HIDE DEF t
    <3> QED BY <1>1, <3>1, <3>2 DEF Free
  <2>2. CASE free = <<>>
    <3>1. t \in Unused BY <2>2 DEF CreateTimer
    <3>2. free' = free /\ Free = {} BY <2>2 DEF CreateTimer, Free, ToSet
    <3>3. Free' = Free BY <3>2 DEF Free
    <3> HIDE DEF t
    <3> QED BY <1>1, <3>1, <3>2, <3>3 DEF Unused
  <2> QED BY <2>1, <2>2
<1>4. /\ time' = [time EXCEPT ![t] = now + Usecs(setup, p)]
      /\ proc' = [proc EXCEPT ![t] = p]
      /\ timers' = ListAdd(timers, time', t)
      /\ handle' = [handle EXCEPT ![p] = t]
      /\ pending' = pending \ {p}
  BY DEF CreateTimer
<1>5. UNCHANGED <<now, setup, phase, cursor, clock, tests>> /\ phase = "starting"
  BY DEF CreateTimer
<1> HIDE DEF t, p
<1>6. now + Usecs(setup, p) \in Nat BY <1>1, <1>2, UsecsTypes
<1>7. time' \in [Cells -> Nat] BY <1>1, <1>4, <1>6
<1>8. Sorted(timers, time')
  <2> SUFFICES ASSUME NEW i \in DOMAIN timers, NEW j \in DOMAIN timers, i < j
               PROVE  time'[timers[i]] <= time'[timers[j]]
    BY DEF Sorted
  <2>1. \A n \in DOMAIN timers : timers[n] \in Cells /\ timers[n] # t
    BY <1>1, <1>3, ElementOfSeq DEF Active, ToSet
  <2>2. \A n \in DOMAIN timers : time'[timers[n]] = time[timers[n]] BY <1>1, <1>4, <2>1
  <2> QED BY <1>1, <2>2 DEF Sorted
<1>9. /\ timers' \in Seq(Cells) /\ IsInjective(timers') /\ Active' = Active \cup {t}
      /\ Sorted(timers', time')
  BY <1>1, <1>3, <1>4, <1>7, <1>8, Added DEF Active
<1>10. TypeOK'
  BY <1>1, <1>2, <1>3, <1>4, <1>5, <1>7, <1>9 DEF TimersInv, TypeOK
<1>11. ListIsSorted' /\ CellsAreInOnePlace'
  BY <1>1, <1>3, <1>9 DEF ListIsSorted, CellsAreInOnePlace
<1>12. HandlesAreActive'
  <2> SUFFICES ASSUME NEW q \in Procs, handle'[q] # Nil
               PROVE  handle'[q] \in Active' /\ proc'[handle'[q]] = q
    BY DEF HandlesAreActive
  <2>1. CASE q = p BY <1>1, <1>2, <1>3, <1>4, <1>9, <2>1
  <2>2. CASE q # p
    <3>1. handle'[q] = handle[q] BY <1>1, <1>4, <2>2
    <3>2. handle[q] \in Active /\ proc[handle[q]] = q /\ handle[q] # t
      BY <1>3, <3>1 DEF TimersInv, HandlesAreActive
    <3> QED BY <1>1, <1>4, <1>9, <3>1, <3>2
  <2> QED BY <2>1, <2>2
<1>13. NoTimerOutlivesItsTest'
  <2> SUFFICES ASSUME NEW u \in Active' PROVE \E q \in Procs : handle'[q] = u
    BY DEF NoTimerOutlivesItsTest
  <2>1. CASE u = t BY <1>1, <1>2, <1>4, <2>1
  <2>2. CASE u # t
    <3>1. PICK q \in Procs : handle[q] = u
      BY <1>9, <2>2 DEF TimersInv, NoTimerOutlivesItsTest
    <3>2. q # p
      <4>1. u \in Cells BY <1>1, <1>9, <2>2, ElementOfSeq DEF Active, ToSet
      <4>2. handle[p] = Nil BY <1>2, <1>5 DEF TimersInv, PhaseInv
      <4> QED BY <3>1, <4>1, <4>2, NilAssumption
    <3> QED BY <1>1, <1>4, <3>1, <3>2
  <2> QED BY <2>1, <2>2
<1>14. CursorIsActive' BY <1>5, <1>9 DEF TimersInv, CursorIsActive
<1>15. PhaseInv'
  <2>1. \A q \in pending' : handle'[q] = handle[q] /\ q \in pending BY <1>1, <1>4
  <2> QED BY <1>5, <2>1 DEF TimersInv, PhaseInv
<1> QED BY <1>10, <1>11, <1>12, <1>13, <1>14, <1>15 DEF TimersInv

\* tmr_cancel of a handle that is NULL or active.
LEMMA CancelKeeps ==
    ASSUME NEW l, NEW p \in Procs, handle[p] # Nil => handle[p] \in ToSet(l.active),
           l.active \in Seq(Cells), l.free \in Seq(Cells),
           IsInjective(l.active), IsInjective(l.free),
           ToSet(l.active) \cap ToSet(l.free) = {}
    PROVE  /\ Cancel(l, p).active \in Seq(Cells) /\ Cancel(l, p).free \in Seq(Cells)
           /\ IsInjective(Cancel(l, p).active) /\ IsInjective(Cancel(l, p).free)
           /\ ToSet(Cancel(l, p).active) = ToSet(l.active) \ {handle[p]}
           /\ ToSet(Cancel(l, p).active) \cap ToSet(Cancel(l, p).free) = {}
<1>1. ToSet(l.active) \subseteq Cells BY ElementOfSeq DEF ToSet
<1>2. CASE handle[p] = Nil
  <2>1. Cancel(l, p) = l BY <1>2 DEF Cancel
  <2> QED BY <1>1, <1>2, <2>1, NilAssumption
<1>3. CASE handle[p] # Nil
  <2> DEFINE t == handle[p]
             active == l.active
             idle == l.free
  <2>1. t \in ToSet(active) /\ t \in Cells /\ t \notin ToSet(idle) BY <1>1, <1>3
  <2>2. /\ Cancel(l, p).active = ListRemove(active, t)
        /\ Cancel(l, p).free = <<t>> \o idle
    BY <1>3 DEF Cancel
  <2> HIDE DEF t, active, idle
  <2>3. /\ active \in Seq(Cells) /\ idle \in Seq(Cells) /\ IsInjective(active)
        /\ IsInjective(idle) /\ ToSet(active) \cap ToSet(idle) = {}
    BY DEF active, idle
  <2>4. /\ ListRemove(active, t) \in Seq(Cells) /\ IsInjective(ListRemove(active, t))
        /\ ToSet(ListRemove(active, t)) = ToSet(active) \ {t}
    BY <2>1, <2>3, Removed
  <2>5. /\ <<t>> \o idle \in Seq(Cells) /\ IsInjective(<<t>> \o idle)
        /\ ToSet(<<t>> \o idle) = ToSet(idle) \cup {t}
    BY <2>1, <2>3, Prepended
  <2>6. ToSet(ListRemove(active, t)) \cap ToSet(<<t>> \o idle) = {} BY <2>3, <2>4, <2>5
  <2>7. ToSet(Cancel(l, p).active) = ToSet(active) \ {t} BY <2>2, <2>4
  <2>8. ToSet(Cancel(l, p).active) \cap ToSet(Cancel(l, p).free) = {} BY <2>2, <2>6
  <2>9. /\ Cancel(l, p).active \in Seq(Cells) /\ Cancel(l, p).free \in Seq(Cells)
        /\ IsInjective(Cancel(l, p).active) /\ IsInjective(Cancel(l, p).free)
    BY <2>2, <2>4, <2>5
  <2> QED BY <2>7, <2>8, <2>9 DEF t, active
<1> QED BY <1>2, <1>3

\* cleanup_server finds every handle NULL or active, and leaves no timer active.
LEMMA CleanupKeeps == ASSUME TimersInv, Cleanup PROVE TimersInv'
<1>1. PICK s \in {Cancel(Lists, "stats_timer")} :
         \E r \in {Cancel(s, "reporter_timer")} : \E o \in {Cancel(r, "omit_timer")} :
         \E l \in {Cancel(o, "timer")} : timers' = l.active /\ free' = l.free
  BY DEF Cleanup, CancelAll
<1>2. PICK r \in {Cancel(s, "reporter_timer")} : \E o \in {Cancel(r, "omit_timer")} :
         \E l \in {Cancel(o, "timer")} : timers' = l.active /\ free' = l.free
  BY <1>1
<1>3. PICK o \in {Cancel(r, "omit_timer")} :
         \E l \in {Cancel(o, "timer")} : timers' = l.active /\ free' = l.free
  BY <1>2
<1>4. PICK l \in {Cancel(o, "timer")} : timers' = l.active /\ free' = l.free
  BY <1>3
<1>5. /\ s = Cancel(Lists, "stats_timer") /\ r = Cancel(s, "reporter_timer")
      /\ o = Cancel(r, "omit_timer") /\ l = Cancel(o, "timer")
  OBVIOUS
<1>6. \A p \in Procs : handle[p] # Nil =>
          /\ handle[p] \in Active
          /\ \A q \in Procs : q # p => handle[q] # handle[p]
  BY DEF TimersInv, HandlesAreActive
<1>7. /\ Lists.active \in Seq(Cells) /\ Lists.free \in Seq(Cells)
      /\ IsInjective(Lists.active) /\ IsInjective(Lists.free)
      /\ ToSet(Lists.active) = Active /\ ToSet(Lists.active) \cap ToSet(Lists.free) = {}
  BY StateTypes DEF Lists, Active, Free
<1>8. /\ "stats_timer" \in Procs /\ "reporter_timer" \in Procs
      /\ "omit_timer" \in Procs /\ "timer" \in Procs
  BY DEF Procs
<1>9. /\ s.active \in Seq(Cells) /\ s.free \in Seq(Cells)
      /\ IsInjective(s.active) /\ IsInjective(s.free)
      /\ ToSet(s.active) = Active \ {handle["stats_timer"]}
      /\ ToSet(s.active) \cap ToSet(s.free) = {}
  BY <1>5, <1>6, <1>7, <1>8, CancelKeeps
<1>10. /\ r.active \in Seq(Cells) /\ r.free \in Seq(Cells)
       /\ IsInjective(r.active) /\ IsInjective(r.free)
       /\ ToSet(r.active) = Active \ {handle["stats_timer"], handle["reporter_timer"]}
       /\ ToSet(r.active) \cap ToSet(r.free) = {}
  <2>1. handle["reporter_timer"] # Nil => handle["reporter_timer"] \in ToSet(s.active)
    BY <1>6, <1>8, <1>9
  <2>2. /\ r.active \in Seq(Cells) /\ r.free \in Seq(Cells)
        /\ IsInjective(r.active) /\ IsInjective(r.free)
        /\ ToSet(r.active) = ToSet(s.active) \ {handle["reporter_timer"]}
        /\ ToSet(r.active) \cap ToSet(r.free) = {}
    BY <1>5, <1>8, <1>9, <2>1, CancelKeeps
  <2> QED BY <1>9, <2>2
<1>11. /\ o.active \in Seq(Cells) /\ o.free \in Seq(Cells)
       /\ IsInjective(o.active) /\ IsInjective(o.free)
       /\ ToSet(o.active) =
            Active \ {handle["stats_timer"], handle["reporter_timer"], handle["omit_timer"]}
       /\ ToSet(o.active) \cap ToSet(o.free) = {}
  <2>1. handle["omit_timer"] # Nil => handle["omit_timer"] \in ToSet(r.active)
    BY <1>6, <1>8, <1>10
  <2>2. /\ o.active \in Seq(Cells) /\ o.free \in Seq(Cells)
        /\ IsInjective(o.active) /\ IsInjective(o.free)
        /\ ToSet(o.active) = ToSet(r.active) \ {handle["omit_timer"]}
        /\ ToSet(o.active) \cap ToSet(o.free) = {}
    BY <1>5, <1>8, <1>10, <2>1, CancelKeeps
  <2> QED BY <1>10, <2>2
<1>12. /\ l.active \in Seq(Cells) /\ l.free \in Seq(Cells)
       /\ IsInjective(l.active) /\ IsInjective(l.free)
       /\ ToSet(l.active) = Active \ {handle["stats_timer"], handle["reporter_timer"],
                                      handle["omit_timer"], handle["timer"]}
       /\ ToSet(l.active) \cap ToSet(l.free) = {}
  <2>1. handle["timer"] # Nil => handle["timer"] \in ToSet(o.active)
    BY <1>6, <1>8, <1>11
  <2>2. /\ l.active \in Seq(Cells) /\ l.free \in Seq(Cells)
        /\ IsInjective(l.active) /\ IsInjective(l.free)
        /\ ToSet(l.active) = ToSet(o.active) \ {handle["timer"]}
        /\ ToSet(l.active) \cap ToSet(l.free) = {}
    BY <1>5, <1>8, <1>11, <2>1, CancelKeeps
  <2> QED BY <1>11, <2>2
<1>13. ToSet(l.active) = {}
  <2>1. \A u \in Active : \E p \in Procs : handle[p] = u
    BY DEF TimersInv, NoTimerOutlivesItsTest
  <2> QED BY <1>12, <2>1 DEF Procs
<1>14. timers' = <<>> /\ Active' = {}
  <2>1. l.active = <<>> BY <1>12, <1>13, NoElements
  <2> QED BY <1>4, <1>13, <2>1 DEF Active
<1>15. /\ handle' = [p \in Procs |-> Nil] /\ phase' = "idle"
       /\ UNCHANGED <<now, time, proc, setup, pending, cursor, clock, tests>>
       /\ phase = "ending"
  BY DEF Cleanup
<1>16. TypeOK' BY <1>4, <1>12, <1>15 DEF TimersInv, TypeOK
<1>17. ListIsSorted' BY <1>14 DEF ListIsSorted, Sorted
<1>18. CellsAreInOnePlace' BY <1>4, <1>12, <1>14 DEF CellsAreInOnePlace
<1>19. HandlesAreActive' /\ NoTimerOutlivesItsTest'
  BY <1>14, <1>15 DEF HandlesAreActive, NoTimerOutlivesItsTest
<1>20. CursorIsActive' /\ PhaseInv'
  BY <1>14, <1>15 DEF TimersInv, PhaseInv, CursorIsActive
<1> QED BY <1>16, <1>17, <1>18, <1>19, <1>20 DEF TimersInv

\* A timer that runs once: its handle is cleared and its cell is freed.
LEMMA ExpiredKeeps ==
    ASSUME TimersInv, NEW p \in Procs, Fires(p),
           NEW list \in Seq(Cells), IsInjective(list), ToSet(list) = Active,
           time' \in [Cells -> Nat], Sorted(list, time'),
           handle' = [handle EXCEPT ![p] = Nil], CancelTimer(list), NextTimer,
           UNCHANGED <<now, proc, setup, pending, phase, clock, tests>>
    PROVE  TimersInv'
<1>1. /\ cursor \in Active /\ cursor \in Cells /\ cursor \notin Free /\ proc[cursor] = p
      /\ clock # Nil /\ phase = "running"
  BY StateTypes DEF TimersInv, CursorIsActive, Fires, PhaseInv
<1>2. /\ timers' \in Seq(Cells) /\ IsInjective(timers') /\ Active' = Active \ {cursor}
      /\ Sorted(timers', time')
  <2>1. timers' = ListRemove(list, cursor) BY DEF CancelTimer
  <2>2. /\ ListRemove(list, cursor) \in Seq(Cells) /\ IsInjective(ListRemove(list, cursor))
        /\ ToSet(ListRemove(list, cursor)) = ToSet(list) \ {cursor}
    BY <1>1, Removed
  <2>3. Sorted(ListRemove(list, cursor), time') BY <1>1, RemovedSorted
  <2> QED BY <2>1, <2>2, <2>3 DEF Active
<1>3. /\ free' \in Seq(Cells) /\ IsInjective(free') /\ Free' = Free \cup {cursor}
  <2>1. free' = <<cursor>> \o free BY DEF CancelTimer
  <2> QED BY <1>1, <2>1, StateTypes, Prepended DEF Free
<1>4. cursor' = Nil \/ cursor' \in Active \ {cursor}
  BY <1>1, StateTypes, NextOfActive DEF NextTimer
<1>5. TypeOK' BY <1>2, <1>3, <1>4, StateTypes DEF TimersInv, TypeOK
<1>6. ListIsSorted' /\ CellsAreInOnePlace'
  BY <1>2, <1>3, StateTypes DEF ListIsSorted, CellsAreInOnePlace
<1>7. HandlesAreActive'
  <2> SUFFICES ASSUME NEW q \in Procs, handle'[q] # Nil
               PROVE  handle'[q] \in Active' /\ proc'[handle'[q]] = q
    BY DEF HandlesAreActive
  <2>1. q # p /\ handle'[q] = handle[q] BY StateTypes
  <2>2. handle[q] \in Active /\ proc[handle[q]] = q BY <2>1 DEF TimersInv, HandlesAreActive
  <2> QED BY <1>1, <1>2, <2>1, <2>2
<1>8. NoTimerOutlivesItsTest'
  <2> SUFFICES ASSUME NEW u \in Active, u # cursor PROVE \E q \in Procs : handle'[q] = u
    BY <1>2 DEF NoTimerOutlivesItsTest
  <2>1. PICK q \in Procs : handle[q] = u BY DEF TimersInv, NoTimerOutlivesItsTest
  <2>2. PICK n \in Procs : handle[n] = cursor BY <1>1 DEF TimersInv, NoTimerOutlivesItsTest
  <2>3. n = p
    <3>1. handle[n] # Nil BY <1>1, <2>2, NilAssumption
    <3> QED BY <1>1, <2>2, <3>1 DEF TimersInv, HandlesAreActive
  <2>4. q # p BY <2>1, <2>2, <2>3
  <2> QED BY <2>1, <2>4, StateTypes
<1>9. CursorIsActive' BY <1>2, <1>4 DEF CursorIsActive
<1>10. PhaseInv' BY <1>1, StateTypes DEF TimersInv, PhaseInv
<1> QED BY <1>5, <1>6, <1>7, <1>8, <1>9, <1>10 DEF TimersInv

\* tmr_reset of a handle that is NULL or in the list.
LEMMA ResetKeeps ==
    ASSUME TimersInv, clock # Nil, NEW l, NEW p \in Procs,
           l.list \in Seq(Cells), IsInjective(l.list), ToSet(l.list) = Active,
           l.times \in [Cells -> Nat], Sorted(l.list, l.times)
    PROVE  /\ Reset(l, p).list \in Seq(Cells) /\ IsInjective(Reset(l, p).list)
           /\ ToSet(Reset(l, p).list) = Active /\ Reset(l, p).times \in [Cells -> Nat]
           /\ Sorted(Reset(l, p).list, Reset(l, p).times)
<1>1. CASE handle[p] = Nil
  <2>1. Reset(l, p) = l BY <1>1 DEF Reset
  <2> QED BY <2>1
<1>2. CASE handle[p] # Nil
  <2> DEFINE t == handle[p]
             list == l.list
             old == l.times
             new == clock + Usecs(setup, p)
             later == [old EXCEPT ![t] = new]
  <2>1. /\ list \in Seq(Cells) /\ t \in ToSet(list) /\ IsInjective(list)
        /\ old \in [Cells -> Nat] /\ new \in Nat /\ Sorted(list, old)
    BY <1>2, StateTypes, UsecsTypes DEF TimersInv, HandlesAreActive
  <2>2. Reset(l, p).list = ListResort(list, later, t) /\ Reset(l, p).times = later
    BY <1>2 DEF Reset
  <2>3. later \in [Cells -> Nat] /\ \A u \in Cells \ {t} : later[u] = old[u] BY <2>1
  <2> HIDE DEF t, list, old, new, later
  <2>4. /\ ListResort(list, later, t) \in Seq(Cells)
        /\ IsInjective(ListResort(list, later, t))
        /\ ToSet(ListResort(list, later, t)) = ToSet(list)
        /\ Sorted(ListResort(list, later, t), later)
    BY <2>1, <2>3, Resorted
  <2> QED BY <2>2, <2>3, <2>4 DEF list
<1> QED BY <1>1, <1>2

LEMMA ServerTimerKeeps == ASSUME TimersInv, ServerTimer PROVE TimersInv'
<1>1. /\ timers \in Seq(Cells) /\ IsInjective(timers) /\ ToSet(timers) = Active
      /\ time' \in [Cells -> Nat] /\ Sorted(timers, time')
  BY StateTypes DEF ServerTimer, Active, Sorted
<1> QED BY <1>1, ExpiredKeeps DEF ServerTimer, Procs

LEMMA OmitTimerKeeps == ASSUME TimersInv, OmitTimer PROVE TimersInv'
<1> DEFINE first == [list |-> timers, times |-> time]
<1>1. PICK s \in {Reset(first, "stats_timer")} : \E r \in {Reset(s, "reporter_timer")} :
         time' = r.times /\ CancelTimer(r.list)
  BY DEF OmitTimer
<1>2. PICK r \in {Reset(s, "reporter_timer")} : time' = r.times /\ CancelTimer(r.list)
  BY <1>1
<1>3. /\ first.list \in Seq(Cells) /\ IsInjective(first.list) /\ ToSet(first.list) = Active
      /\ first.times \in [Cells -> Nat] /\ Sorted(first.list, first.times)
  BY StateTypes DEF Active
<1>4. clock # Nil BY DEF OmitTimer, Fires
<1> HIDE DEF first
<1>5. /\ s.list \in Seq(Cells) /\ IsInjective(s.list) /\ ToSet(s.list) = Active
      /\ s.times \in [Cells -> Nat] /\ Sorted(s.list, s.times)
  BY <1>3, <1>4, ResetKeeps DEF Procs
<1>6. /\ r.list \in Seq(Cells) /\ IsInjective(r.list) /\ ToSet(r.list) = Active
      /\ r.times \in [Cells -> Nat] /\ Sorted(r.list, r.times)
  BY <1>4, <1>5, ResetKeeps DEF Procs
<1>7. time' \in [Cells -> Nat] /\ Sorted(r.list, time') BY <1>2, <1>6
<1> QED BY <1>2, <1>6, <1>7, ExpiredKeeps DEF OmitTimer, Procs

LEMMA PeriodicTimerKeeps == ASSUME TimersInv, PeriodicTimer PROVE TimersInv'
<1> DEFINE new == time[cursor] + Usecs(setup, proc[cursor])
<1>1. /\ cursor \in Active /\ cursor \in Cells /\ cursor # Nil /\ clock # Nil
      /\ phase = "running"
  BY StateTypes DEF TimersInv, CursorIsActive, PeriodicTimer, Fires, PhaseInv
<1>2. new \in Nat BY <1>1, StateTypes, UsecsTypes
<1>3. /\ time' = [time EXCEPT ![cursor] = new]
      /\ timers' = ListResort(timers, time', cursor)
      /\ cursor' = NextOf(cursor)
      /\ UNCHANGED <<now, free, proc, handle, setup, pending, phase, clock, tests>>
  BY DEF PeriodicTimer, NextTimer
<1> HIDE DEF new
<1>4. /\ time' \in [Cells -> Nat] /\ timers' \in Seq(Cells) /\ IsInjective(timers')
      /\ Active' = Active /\ Sorted(timers', time')
  <2>1. time' \in [Cells -> Nat] /\ \A u \in Cells \ {cursor} : time'[u] = time[u]
    BY <1>1, <1>2, <1>3, StateTypes
  <2> QED BY <1>1, <1>3, <2>1, StateTypes, Resorted DEF Active
<1>5. cursor' = Nil \/ cursor' \in Active \ {cursor} BY <1>1, <1>3, StateTypes, NextOfActive
<1>6. Free' = Free BY <1>3 DEF Free
<1>7. TypeOK' BY <1>3, <1>4, <1>5, StateTypes DEF TimersInv, TypeOK
<1>8. ListIsSorted' /\ CellsAreInOnePlace'
  BY <1>3, <1>4, <1>6, StateTypes DEF ListIsSorted, CellsAreInOnePlace
<1>9. HandlesAreActive' /\ NoTimerOutlivesItsTest'
  BY <1>3, <1>4 DEF TimersInv, HandlesAreActive, NoTimerOutlivesItsTest
<1>10. CursorIsActive' /\ PhaseInv'
  BY <1>1, <1>3, <1>4, <1>5 DEF CursorIsActive, TimersInv, PhaseInv
<1> QED BY <1>7, <1>8, <1>9, <1>10 DEF TimersInv

LEMMA RunTimersKeeps == ASSUME TimersInv, RunTimers PROVE TimersInv'
<1>1. UNCHANGED <<now, timers, free, time, proc, handle, setup, pending, phase, tests>>
  BY DEF RunTimers, listVars
<1>2. cursor' = Nil \/ cursor' \in Active
  BY StateTypes, Taken DEF RunTimers, Active
<1>3. TypeOK'
  <2>1. cursor' \in Cells \cup {Nil} BY <1>2, StateTypes
  <2>2. clock' \in 0 .. MaxTime BY DEF RunTimers, TimersInv, TypeOK
  <2> QED BY <1>1, <2>1, <2>2 DEF TimersInv, TypeOK
<1>4. CursorIsActive' BY <1>1, <1>2, ListsUntouched DEF CursorIsActive
<1>5. PhaseInv'
  <2>1. clock' # Nil
    <3>1. clock' \in Nat BY StateTypes DEF RunTimers
    <3> QED BY <3>1, NilAssumption
  <2>2. phase' = "running" BY DEF RunTimers
  <2> QED BY <2>1, <2>2 DEF PhaseInv
<1> QED BY <1>1, <1>3, <1>4, <1>5, ListsUntouched DEF TimersInv

\* The steps of the server, of tmr_run and of the clock that touch no timer.
LEMMA PhaseStepsKeep ==
    ASSUME TimersInv, StartTest \/ CreateFails \/ TestRuns \/ Leave \/ RunEnds \/ Tick
    PROVE  TimersInv'
<1>1. UNCHANGED <<timers, free, time, proc, handle>>
  BY DEF StartTest, CreateFails, TestRuns, Leave, RunEnds, Tick, listVars
<1>2. TypeOK'
  <2>1. CASE StartTest
    BY <2>1, BoundsAssumption DEF TimersInv, TypeOK, StartTest, listVars, Wanted
  <2>2. CASE CreateFails BY <2>2 DEF TimersInv, TypeOK, CreateFails, listVars
  <2>3. CASE TestRuns BY <2>3 DEF TimersInv, TypeOK, TestRuns, listVars
  <2>4. CASE Leave BY <2>4 DEF TimersInv, TypeOK, Leave, listVars
  <2>5. CASE RunEnds BY <2>5 DEF TimersInv, TypeOK, RunEnds, listVars
  <2>6. CASE Tick BY <2>6, BoundsAssumption DEF TimersInv, TypeOK, Tick, listVars
  <2> QED BY <2>1, <2>2, <2>3, <2>4, <2>5, <2>6
<1>3. CursorIsActive'
  <2>1. cursor' = cursor \/ cursor' = Nil
    BY DEF StartTest, CreateFails, TestRuns, Leave, RunEnds, Tick
  <2>2. Active' = Active BY <1>1 DEF Active
  <2> QED BY <2>1, <2>2 DEF TimersInv, CursorIsActive
<1>4. PhaseInv'
  <2>1. CASE StartTest
    BY <2>1 DEF TimersInv, PhaseInv, StartTest, Wanted
  <2>2. CASE CreateFails BY <2>2 DEF TimersInv, PhaseInv, CreateFails
  <2>3. CASE TestRuns BY <2>3 DEF TimersInv, PhaseInv, TestRuns
  <2>4. CASE Leave BY <2>4 DEF TimersInv, PhaseInv, Leave
  <2>5. CASE RunEnds BY <2>5, <1>1 DEF TimersInv, PhaseInv, RunEnds
  <2>6. CASE Tick BY <2>6, <1>1 DEF TimersInv, PhaseInv, Tick
  <2> QED BY <2>1, <2>2, <2>3, <2>4, <2>5, <2>6
<1> QED BY <1>1, <1>2, <1>3, <1>4, ListsUntouched DEF TimersInv

LEMMA StepHolds == ASSUME TimersInv, [Next]_vars PROVE TimersInv'
<1>1. CASE StartTest \/ CreateFails \/ TestRuns \/ Leave \/ RunEnds \/ Tick
  BY <1>1, PhaseStepsKeep
<1>2. CASE CreateTimer BY <1>2, CreateTimerKeeps
<1>3. CASE Cleanup BY <1>3, CleanupKeeps
<1>4. CASE RunTimers BY <1>4, RunTimersKeeps
<1>5. CASE ServerTimer BY <1>5, ServerTimerKeeps
<1>6. CASE OmitTimer BY <1>6, OmitTimerKeeps
<1>7. CASE PeriodicTimer BY <1>7, PeriodicTimerKeeps
<1>8. CASE UNCHANGED vars
  <2>1. UNCHANGED <<timers, free, time, proc, handle>> BY <1>8 DEF vars, listVars
  <2>2. TypeOK' BY <1>8 DEF TimersInv, TypeOK, vars, listVars
  <2>3. CursorIsActive' /\ PhaseInv'
    BY <1>8, <2>1, ListsUntouched DEF TimersInv, CursorIsActive, PhaseInv, vars, listVars
  <2> QED BY <2>1, <2>2, <2>3, ListsUntouched DEF TimersInv
<1> QED
  BY <1>1, <1>2, <1>3, <1>4, <1>5, <1>6, <1>7, <1>8 DEF Next, TmrRun, Over

----------------------------------------------------------------------------
(* The theorems.                                                           *)

LEMMA TimersInvAlways == Spec => []TimersInv
<1>1. Init => TimersInv BY InitHolds
<1>2. TimersInv /\ [Next]_vars => TimersInv' BY StepHolds
<1> QED BY <1>1, <1>2, PTL DEF Spec

\* Every value of a server's timers is one that timer.c and the test declare.
THEOREM TypeCorrect == Spec => []TypeOK
<1>1. TimersInv => TypeOK BY DEF TimersInv
<1> QED BY <1>1, TimersInvAlways, PTL

\* The list stays sorted through list_add, list_resort and list_remove, in any
\* order of events, so that tmr_timeout and tmr_run may look at its head alone.
THEOREM ListStaysSorted == Spec => []ListIsSorted
<1>1. TimersInv => ListIsSorted BY DEF TimersInv
<1> QED BY <1>1, TimersInvAlways, PTL

\* No cell is in a list twice, or active and free at once, so that tmr_create never
\* hands out a timer that someone else uses.
THEOREM CellsStayApart == Spec => []CellsAreInOnePlace
<1>1. TimersInv => CellsAreInOnePlace BY DEF TimersInv
<1> QED BY <1>1, TimersInvAlways, PTL

\* cleanup_server and tmr_reset, which act on every handle that is not NULL, only
\* ever find an active timer that serves this handle.
THEOREM HandlesStayActive == Spec => []HandlesAreActive
<1>1. TimersInv => HandlesAreActive BY DEF TimersInv
<1> QED BY <1>1, TimersInvAlways, PTL

\* cleanup_server cancels every timer of the test, however the test ended.
THEOREM TestsLeaveNoTimer == Spec => []NoTimerOutlivesItsTest
<1>1. TimersInv => NoTimerOutlivesItsTest BY DEF TimersInv
<1> QED BY <1>1, TimersInvAlways, PTL

\* tmr_run may read t->next before it runs t: no timer's procedure frees the next.
THEOREM CursorStaysActive == Spec => []CursorIsActive
<1>1. TimersInv => CursorIsActive BY DEF TimersInv
<1> QED BY <1>1, TimersInvAlways, PTL
=============================================================================
