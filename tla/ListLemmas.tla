----------------------------- MODULE ListLemmas -----------------------------
(***************************************************************************)
(* Facts about the kernel's lists (list.c of the base system), which the   *)
(* models write as sequences: what appending, popping and unlinking an     *)
(* element does to the set of the elements and to their being on the list  *)
(* once.                                                                   *)
(***************************************************************************)
EXTENDS Integers, Sequences, SequencesExt, PriList, SequenceTheorems,
  FiniteSetTheorems, TLAPS

\* What is on a list of threads is a thread.
LEMMA ElemsInSet ==
  ASSUME NEW S, NEW s \in Seq(S)
  PROVE  ToSet(s) \subseteq S
BY DEF ToSet

\* list_push_back(): the new last element joins the others.
LEMMA AppendElems ==
  ASSUME NEW S, NEW s \in Seq(S), NEW e \in S
  PROVE  /\ Append(s, e) \in Seq(S)
         /\ Append(s, e) # <<>>
         /\ ToSet(Append(s, e)) = ToSet(s) \union {e}
<1> DEFINE n == Len(s)
           a == Append(s, e)
<1>1. n \in Nat /\ DOMAIN s = 1 .. n
  OBVIOUS
<1>2. /\ a \in Seq(S) /\ Len(a) = n + 1 /\ DOMAIN a = 1 .. n + 1
      /\ a[n + 1] = e /\ \A i \in 1 .. n : a[i] = s[i]
  OBVIOUS
<1>3. a # <<>>
  BY <1>1, <1>2
<1> HIDE DEF n, a
<1>4. ToSet(a) \subseteq ToSet(s) \union {e}
  BY <1>1, <1>2 DEF ToSet
<1>5. ToSet(s) \union {e} \subseteq ToSet(a)
  BY <1>1, <1>2 DEF ToSet
<1> QED
  BY <1>2, <1>3, <1>4, <1>5 DEF a

\* list_push_back() of an element that is on no list keeps elements single.
LEMMA PushKeepsSingle ==
  ASSUME NEW S, NEW s \in Seq(S), NEW e \in S, IsInjective(s), e \notin ToSet(s)
  PROVE  IsInjective(Append(s, e))
BY DEF ToSet, IsInjective

\* list_pop_front(): the head leaves the list, the others stay.
LEMMA PopElems ==
  ASSUME NEW S, NEW s \in Seq(S), s # <<>>, IsInjective(s)
  PROVE  /\ Head(s) \in S
         /\ Tail(s) \in Seq(S)
         /\ Head(s) \in ToSet(s)
         /\ ToSet(Tail(s)) = ToSet(s) \ {Head(s)}
         /\ IsInjective(Tail(s))
<1> DEFINE n == Len(s)
<1>1. n \in Nat \ {0} /\ DOMAIN s = 1 .. n /\ s[1] = Head(s)
  OBVIOUS
<1>2. /\ Tail(s) \in Seq(S) /\ DOMAIN Tail(s) = 1 .. n - 1
      /\ \A i \in 1 .. n - 1 : Tail(s)[i] = s[i + 1]
  BY <1>1
<1>3. Head(s) \in S /\ Head(s) \in ToSet(s)
  BY <1>1 DEF ToSet
<1>4. ToSet(Tail(s)) \subseteq ToSet(s) \ {Head(s)}
  BY <1>1, <1>2 DEF ToSet, IsInjective
<1>5. ASSUME NEW x \in ToSet(s) \ {Head(s)}
      PROVE  x \in ToSet(Tail(s))
  <2>1. PICK i \in 1 .. n : s[i] = x
    BY <1>1 DEF ToSet
  <2>2. i # 1 /\ i - 1 \in 1 .. n - 1 /\ Tail(s)[i - 1] = x
    BY <1>1, <1>2, <2>1
  <2> QED
    BY <1>2, <2>2 DEF ToSet
<1>6. IsInjective(Tail(s))
  BY <1>1, <1>2 DEF IsInjective
<1> QED
  BY <1>2, <1>3, <1>4, <1>5, <1>6

\* list_remove(): the element at position i leaves the list, the others stay
\* in their order.
LEMMA UnlinkElems ==
  ASSUME NEW S, NEW s \in Seq(S), NEW i \in DOMAIN s, IsInjective(s)
  PROVE  /\ s[i] \in S
         /\ s[i] \in ToSet(s)
         /\ RemoveAt(s, i) \in Seq(S)
         /\ ToSet(RemoveAt(s, i)) = ToSet(s) \ {s[i]}
         /\ IsInjective(RemoveAt(s, i))
<1> DEFINE n == Len(s)
           r == RemoveAt(s, i)
<1>1. n \in Nat \ {0} /\ DOMAIN s = 1 .. n /\ i \in 1 .. n /\ s \in [1 .. n -> S]
  OBVIOUS
<1>2. /\ r \in Seq(S) /\ DOMAIN r = 1 .. n - 1
      /\ \A j \in 1 .. n - 1 : r[j] = IF j < i THEN s[j] ELSE s[j + 1]
  <2> DEFINE p == SubSeq(s, 1, i - 1)
             q == SubSeq(s, i + 1, n)
  <2>1. /\ p \in Seq(S) /\ Len(p) = i - 1 /\ \A j \in 1 .. i - 1 : p[j] = s[j]
    BY <1>1
  <2>2. /\ q \in Seq(S) /\ Len(q) = n - i /\ \A j \in 1 .. n - i : q[j] = s[j + i]
    <3>1. i + 1 \in 1 .. n + 1 /\ n - (i + 1) + 1 = n - i /\ n - i \in Nat
      BY <1>1
    <3>2. q \in Seq(S) /\ Len(q) = n - i
      BY <1>1, <3>1
    <3>3. ASSUME NEW j \in 1 .. n - i PROVE q[j] = s[j + i]
      BY <1>1, <3>1
    <3> QED
      BY <3>2, <3>3
  <2>3. r = p \o q
    BY <1>1 DEF RemoveAt
  <2> HIDE DEF p, q, r
  <2>a. /\ p \o q \in Seq(S)
        /\ Len(p \o q) = Len(p) + Len(q)
        /\ \A j \in 1 .. Len(p) + Len(q) :
             (p \o q)[j] = IF j <= Len(p) THEN p[j] ELSE q[j - Len(p)]
    BY <2>1, <2>2, ConcatProperties
  <2>4. r \in Seq(S) /\ Len(r) = n - 1 /\ DOMAIN r = 1 .. n - 1
    <3>1. Len(p) + Len(q) = n - 1 /\ n - 1 \in Nat
      BY <1>1, <2>1, <2>2
    <3>2. r \in Seq(S) /\ Len(r) = n - 1
      BY <2>3, <2>a, <3>1
    <3> QED
      BY <3>1, <3>2
  <2>5. ASSUME NEW j \in 1 .. n - 1
        PROVE  r[j] = IF j < i THEN s[j] ELSE s[j + 1]
    <3>1. r[j] = IF j <= i - 1 THEN p[j] ELSE q[j - (i - 1)]
      <4>1. Len(p) = i - 1 /\ Len(p) + Len(q) = n - 1
        BY <1>1, <2>1, <2>2
      <4>2. j \in 1 .. Len(p) + Len(q)
        BY <4>1
      <4> QED
        BY <2>3, <2>a, <4>1, <4>2
    <3>2. CASE j < i
      <4>1. j <= i - 1 /\ j \in 1 .. i - 1
        BY <1>1, <3>2
      <4>2. p[j] = s[j]
        BY <2>1, <4>1
      <4> QED
        BY <3>1, <3>2, <4>1, <4>2
    <3>3. CASE ~ (j < i)
      <4>1. j - (i - 1) \in 1 .. n - i /\ (j - (i - 1)) + i = j + 1
        BY <1>1, <3>3
      <4> QED
        BY <1>1, <2>2, <3>1, <3>3, <4>1
    <3> QED
      BY <3>2, <3>3
  <2> QED
    BY <2>4, <2>5
<1> HIDE DEF n, r
<1>3. ToSet(r) \subseteq ToSet(s) \ {s[i]}
  BY <1>1, <1>2 DEF ToSet, IsInjective
<1>4. ASSUME NEW x \in ToSet(s) \ {s[i]}
      PROVE  x \in ToSet(r)
  <2>1. PICK k \in 1 .. n : s[k] = x
    BY <1>1 DEF ToSet
  <2>2. CASE k < i
    <3>1. k \in 1 .. n - 1 /\ r[k] = x
      BY <1>1, <1>2, <2>1, <2>2
    <3> QED
      BY <1>2, <3>1 DEF ToSet
  <2>3. CASE k > i
    <3>1. k - 1 \in 1 .. n - 1 /\ r[k - 1] = x
      BY <1>1, <1>2, <2>1, <2>3
    <3> QED
      BY <1>2, <3>1 DEF ToSet
  <2> QED
    BY <1>1, <2>1, <2>2, <2>3
<1>5. IsInjective(r)
  BY <1>1, <1>2 DEF IsInjective
<1>6. s[i] \in S /\ s[i] \in ToSet(s)
  BY <1>1 DEF ToSet
<1> QED
  BY <1>2, <1>3, <1>4, <1>5, <1>6 DEF r

-----------------------------------------------------------------------------
(***************************************************************************)
(* The ordered lists of project2: list_insert_ordered() and list_sort().   *)
(***************************************************************************)

\* r is l with x at position p.
InsertedAs(r, S, l, p, x) ==
  /\ r \in Seq(S)
  /\ Len(r) = Len(l) + 1
  /\ \A j \in 1 .. Len(l) + 1 : r[j] = IF j < p THEN l[j] ELSE IF j = p THEN x ELSE l[j - 1]

\* list_insert_ordered() at position p: x joins the others.
LEMMA InsertAtElems ==
  ASSUME NEW S, NEW l \in Seq(S), NEW x \in S, NEW p \in 1 .. Len(l) + 1
  PROVE  InsertedAs(InsertAt(l, p, x), S, l, p, x)
<1> DEFINE n == Len(l)
           a == SubSeq(l, 1, p - 1)
           c == SubSeq(l, p, n)
           r == InsertAt(l, p, x)
<1>1. n \in Nat /\ p \in 1 .. n + 1 /\ DOMAIN l = 1 .. n
  OBVIOUS
<1>2. a \in Seq(S) /\ Len(a) = p - 1 /\ \A j \in 1 .. p - 1 : a[j] = l[j]
  BY <1>1
<1>3. c \in Seq(S) /\ Len(c) = n + 1 - p /\ \A j \in 1 .. n + 1 - p : c[j] = l[j + p - 1]
  BY <1>1
<1>4. r = (a \o <<x>>) \o c
  BY DEF InsertAt
<1>5. <<x>> \in Seq(S) /\ Len(<<x>>) = 1 /\ <<x>>[1] = x
  OBVIOUS
<1> HIDE DEF n, a, c, r
<1> DEFINE b == a \o <<x>>
<1>6. /\ b \in Seq(S) /\ Len(b) = p
      /\ \A j \in 1 .. p : b[j] = IF j < p THEN l[j] ELSE x
  <2>1. /\ b \in Seq(S) /\ Len(b) = Len(a) + 1
        /\ \A j \in 1 .. Len(a) + 1 :
             b[j] = IF j <= Len(a) THEN a[j] ELSE <<x>>[j - Len(a)]
    BY <1>2, <1>5, ConcatProperties
  <2>2. ASSUME NEW j \in 1 .. p PROVE b[j] = IF j < p THEN l[j] ELSE x
    <3>1. CASE j < p
      BY <1>1, <1>2, <2>1, <3>1
    <3>2. CASE ~ (j < p)
      <4>1. j = p /\ j - Len(a) = 1 /\ ~ (j <= Len(a)) /\ j \in 1 .. Len(a) + 1
        BY <1>1, <1>2, <3>2
      <4> QED
        BY <1>5, <2>1, <3>2, <4>1
    <3> QED
      BY <3>1, <3>2
  <2> QED
    BY <1>1, <1>2, <2>1, <2>2
<1> HIDE DEF b
<1>7. /\ r \in Seq(S) /\ Len(r) = Len(b) + Len(c)
      /\ \A j \in 1 .. Len(b) + Len(c) : r[j] = IF j <= Len(b) THEN b[j] ELSE c[j - Len(b)]
  <2>1. r = b \o c
    BY <1>4 DEF b
  <2> QED
    BY <1>3, <1>6, <2>1, ConcatProperties
<1>8. Len(r) = n + 1 /\ Len(b) + Len(c) = n + 1
  BY <1>1, <1>3, <1>6, <1>7
<1>9. ASSUME NEW j \in 1 .. n + 1
      PROVE  r[j] = IF j < p THEN l[j] ELSE IF j = p THEN x ELSE l[j - 1]
  <2>1. CASE j <= p
    BY <1>1, <1>6, <1>7, <1>8, <2>1
  <2>2. CASE ~ (j <= p)
    <3>1. j - p \in 1 .. n + 1 - p /\ (j - p) + p - 1 = j - 1 /\ ~ (j < p) /\ j # p
      BY <1>1, <2>2
    <3>2. r[j] = c[j - p]
      BY <1>6, <1>7, <1>8, <2>2
    <3> QED
      BY <1>3, <3>1, <3>2
  <2> QED
    BY <2>1, <2>2
<1> QED
  BY <1>7, <1>8, <1>9 DEF n, r, InsertedAs

\* What list_insert_ordered() does to the elements, whatever the keys are.
LEMMA InsertedElems ==
  ASSUME NEW S, NEW l \in Seq(S), NEW x \in S, NEW key, NEW r \in Inserted(l, x, key)
  PROVE  /\ r \in Seq(S)
         /\ r # <<>>
         /\ ToSet(r) = ToSet(l) \union {x}
         /\ IsInjective(l) /\ x \notin ToSet(l) => IsInjective(r)
<1> DEFINE n == Len(l)
<1>1. PICK p \in 1 .. n + 1 : r = InsertAt(l, p, x)
  BY DEF Inserted
<1>2. n \in Nat /\ DOMAIN l = 1 .. n
  OBVIOUS
<1>3. /\ r \in Seq(S) /\ Len(r) = n + 1
      /\ \A j \in 1 .. n + 1 :
           r[j] = IF j < p THEN l[j] ELSE IF j = p THEN x ELSE l[j - 1]
  <2>1. InsertedAs(r, S, l, p, x)
    BY <1>1, InsertAtElems
  <2> QED
    BY <2>1 DEF InsertedAs
<1>4. DOMAIN r = 1 .. n + 1 /\ r # <<>>
  BY <1>2, <1>3
<1> HIDE DEF n
<1>5. r[p] = x
  BY <1>2, <1>3
<1>6. \A k \in 1 .. n : r[IF k < p THEN k ELSE k + 1] = l[k]
  BY <1>2, <1>3
<1>7. ASSUME NEW j \in 1 .. n + 1, j # p
      PROVE  \E k \in 1 .. n : r[j] = l[k] /\ j = IF k < p THEN k ELSE k + 1
  <2>1. CASE j < p
    BY <1>2, <1>3, <2>1
  <2>2. CASE j > p
    <3>1. j - 1 \in 1 .. n /\ ~ (j - 1 < p) /\ (j - 1) + 1 = j /\ r[j] = l[j - 1]
      BY <1>2, <1>3, <2>2
    <3> QED
      BY <3>1
  <2> QED
    BY <1>2, <1>7, <2>1, <2>2
<1>8. ToSet(r) \subseteq ToSet(l) \union {x}
  BY <1>2, <1>4, <1>5, <1>7 DEF ToSet
<1>9. ToSet(l) \union {x} \subseteq ToSet(r)
  <2>1. x \in ToSet(r)
    BY <1>4, <1>5 DEF ToSet
  <2>2. ASSUME NEW k \in 1 .. n PROVE l[k] \in ToSet(r)
    <3>1. (IF k < p THEN k ELSE k + 1) \in 1 .. n + 1
      BY <1>2
    <3> QED
      BY <1>4, <1>6, <3>1 DEF ToSet
  <2> QED
    BY <1>2, <2>1, <2>2 DEF ToSet
<1>10. ASSUME IsInjective(l), x \notin ToSet(l) PROVE IsInjective(r)
  <2>1. \A k \in 1 .. n : l[k] # x
    BY <1>2, <1>10 DEF ToSet
  <2> SUFFICES ASSUME NEW i \in 1 .. n + 1, NEW j \in 1 .. n + 1, r[i] = r[j]
               PROVE  i = j
    BY <1>4 DEF IsInjective
  <2>2. CASE i = p \/ j = p
    BY <1>5, <1>7, <2>1, <2>2
  <2>3. CASE i # p /\ j # p
    <3>1. PICK k \in 1 .. n : r[i] = l[k] /\ i = IF k < p THEN k ELSE k + 1
      BY <1>7, <2>3
    <3>2. PICK m \in 1 .. n : r[j] = l[m] /\ j = IF m < p THEN m ELSE m + 1
      BY <1>7, <2>3
    <3>3. k = m
      BY <1>2, <1>10, <3>1, <3>2 DEF IsInjective
    <3> QED
      BY <3>1, <3>2, <3>3
  <2> QED
    BY <2>2, <2>3
<1> QED
  BY <1>3, <1>4, <1>8, <1>9, <1>10

\* The first element of the longer list is the new one or was the first before.
LEMMA InsertedFront ==
  ASSUME NEW S, NEW l \in Seq(S), NEW x \in S, NEW key, NEW r \in Inserted(l, x, key)
  PROVE  Head(r) = x \/ (l # <<>> /\ Head(r) = Head(l))
<1>1. PICK p \in 1 .. Len(l) + 1 : r = InsertAt(l, p, x)
  BY DEF Inserted
<1>2. r[1] = IF 1 < p THEN l[1] ELSE x
  <2>1. InsertedAs(r, S, l, p, x)
    BY <1>1, InsertAtElems
  <2> QED
    BY <2>1 DEF InsertedAs
<1>3. Head(r) = r[1]
  BY InsertedElems
<1>4. CASE 1 < p
  <2>1. Len(l) # 0
    BY <1>4
  <2> QED
    BY <1>2, <1>3, <1>4, <2>1
<1> QED
  BY <1>2, <1>3, <1>4

\* What list_sort() does to the elements: it puts the same ones in an order.
LEMMA SortedElems ==
  ASSUME NEW S, NEW l \in Seq(S), NEW key, NEW r \in Sorted(l, key)
  PROVE  /\ r \in Seq(S)
         /\ r = <<>> <=> l = <<>>
         /\ ToSet(r) = ToSet(l)
<1> DEFINE n == Len(l)
<1>1. PICK q \in Bijection(1 .. n, 1 .. n) : r = [i \in 1 .. n |-> l[q[i]]]
  BY DEF Sorted
<1>2. q \in [1 .. n -> 1 .. n] /\ \A k \in 1 .. n : \E i \in 1 .. n : q[i] = k
  BY DEF Bijection, Injection, Surjection
<1>3. n \in Nat /\ DOMAIN l = 1 .. n /\ \A i \in 1 .. n : l[i] \in S
  OBVIOUS
<1>4. r \in Seq(S) /\ Len(r) = n /\ DOMAIN r = 1 .. n
  <2>1. \A i \in 1 .. n : l[q[i]] \in S
    BY <1>2, <1>3
  <2>2. r \in [1 .. n -> S]
    BY <1>1, <2>1
  <2> QED
    BY <1>3, <2>2
<1>5. r = <<>> <=> l = <<>>
  BY <1>4
<1>6. ToSet(r) = ToSet(l)
  BY <1>1, <1>2, <1>3, <1>4 DEF ToSet
<1> QED
  BY <1>4, <1>5, <1>6

\* With integers for keys, list_sort() puts no element on the list twice and a
\* greatest one at the front.
LEMMA SortedOrder ==
  ASSUME NEW S, NEW l \in Seq(S), NEW key, NEW r \in Sorted(l, key),
         \A x \in ToSet(l) : key[x] \in Int
  PROVE  /\ IsInjective(l) => IsInjective(r)
         /\ r # <<>> => \A x \in ToSet(r) : key[x] <= key[Head(r)]
<1> DEFINE n == Len(l)
<1>1. PICK q \in Bijection(1 .. n, 1 .. n) :
        /\ r = [i \in 1 .. n |-> l[q[i]]]
        /\ \A i, j \in 1 .. n :
             i < j => \/ key[l[q[i]]] > key[l[q[j]]]
                      \/ key[l[q[i]]] = key[l[q[j]]] /\ q[i] < q[j]
  BY DEF Sorted
<1>2. q \in [1 .. n -> 1 .. n]
  BY DEF Bijection, Injection, Surjection
<1>3. n \in Nat /\ DOMAIN l = 1 .. n
  OBVIOUS
<1>4. DOMAIN r = 1 .. n /\ \A i \in 1 .. n : r[i] = l[q[i]] /\ key[r[i]] \in Int
  <2>1. DOMAIN r = 1 .. n /\ \A i \in 1 .. n : r[i] = l[q[i]]
    BY <1>1
  <2>2. \A i \in 1 .. n : l[q[i]] \in ToSet(l)
    BY <1>2, <1>3 DEF ToSet
  <2> QED
    BY <2>1, <2>2
<1>5. \A i, j \in 1 .. n : i < j => q[i] # q[j] /\ key[r[j]] <= key[r[i]]
  <2> SUFFICES ASSUME NEW i \in 1 .. n, NEW j \in 1 .. n, i < j
               PROVE  q[i] # q[j] /\ key[r[j]] <= key[r[i]]
    OBVIOUS
  <2>1. q[i] # q[j]
    <3>1. IsInjective(q)
      BY DEF Bijection, Injection
    <3> QED
      BY <1>2, <1>3, <3>1 DEF IsInjective
  <2>2. \/ key[r[i]] > key[r[j]]
        \/ key[r[i]] = key[r[j]]
    BY <1>1, <1>4
  <2> QED
    BY <1>4, <2>1, <2>2
<1> HIDE DEF n
<1>6. ASSUME IsInjective(l) PROVE IsInjective(r)
  <2> SUFFICES ASSUME NEW i \in 1 .. n, NEW j \in 1 .. n, r[i] = r[j] PROVE i = j
    BY <1>4 DEF IsInjective
  <2>1. q[i] = q[j]
    BY <1>2, <1>3, <1>4, <1>6 DEF IsInjective
  <2> QED
    BY <1>3, <1>5, <2>1
<1>7. ASSUME r # <<>>, NEW x \in ToSet(r) PROVE key[x] <= key[Head(r)]
  <2>1. PICK i \in 1 .. n : r[i] = x
    BY <1>4 DEF ToSet
  <2>2. Head(r) = r[1] /\ 1 \in 1 .. n
    BY <1>3, <2>1
  <2>3. CASE i = 1
    BY <1>4, <2>1, <2>2, <2>3
  <2>4. CASE i # 1
    BY <1>3, <1>5, <2>1, <2>2, <2>4
  <2> QED
    BY <2>3, <2>4
<1> QED
  BY <1>6, <1>7

\* The loop of remove_lock(): the elements that are not taken off are left.
LEMMA WithoutElems ==
  ASSUME NEW S, NEW l \in Seq(S), NEW G, NEW r \in Without(l, G)
  PROVE  r \in Seq(S) /\ ToSet(r) = ToSet(l) \ G
<1> DEFINE kept == {i \in DOMAIN l : l[i] \notin G}
           n == Cardinality(kept)
<1>1. PICK q \in Bijection(1 .. n, kept) : r = [k \in 1 .. n |-> l[q[k]]]
  BY DEF Without
<1>2. q \in [1 .. n -> kept] /\ \A i \in kept : \E k \in 1 .. n : q[k] = i
  BY DEF Bijection, Surjection
<1>3. n \in Nat
  <2>1. IsFiniteSet(DOMAIN l) /\ kept \subseteq DOMAIN l
    BY FS_Interval
  <2> QED
    BY <2>1, FS_Subset, FS_CardinalityType
<1>4. \A i \in kept : i \in DOMAIN l /\ l[i] \in S /\ l[i] \notin G
  OBVIOUS
<1> HIDE DEF n
<1>5. r \in Seq(S) /\ DOMAIN r = 1 .. n
  BY <1>1, <1>2, <1>3, <1>4
<1>6. ToSet(r) \subseteq ToSet(l) \ G
  BY <1>1, <1>2, <1>4, <1>5 DEF ToSet
<1>7. ToSet(l) \ G \subseteq ToSet(r)
  BY <1>1, <1>2, <1>5 DEF ToSet
<1> QED
  BY <1>5, <1>6, <1>7
=============================================================================
