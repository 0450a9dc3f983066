--------------------------- MODULE PrioQueueProofs ---------------------------
(***************************************************************************)
(* What the queue operations keep: the elements, their uniqueness and the   *)
(* order by priority.                                                       *)
(***************************************************************************)
EXTENDS PrioQueue, WellFoundedInduction, TLAPS

\* Every non-empty set of natural numbers has a least element.
LEMMA NatMin ==
  ASSUME NEW T \in SUBSET Nat, T # {}
  PROVE  \E x \in T : \A y \in T : x <= y
<1>1. \E x \in T : \A y \in T : ~ (<<y, x>> \in OpToRel(<, Nat))
  BY WFMin, NatLessThanWellFounded
<1>2. PICK x \in T : \A y \in T : ~ (<<y, x>> \in OpToRel(<, Nat))
  BY <1>1
<1>3. \A y \in T : x <= y
  <2>1. TAKE y \in T
  <2>2. x \in Nat /\ y \in Nat
    OBVIOUS
  <2>3. ~(y < x)
    BY <1>2, <2>2 DEF OpToRel
  <2>4. QED
    BY <2>2, <2>3
<1>4. QED
  BY <1>3

\* The elements of a queue.
LEMMA RangeFacts ==
  ASSUME NEW S, NEW s \in Seq(S)
  PROVE  /\ Range(s) \subseteq S
         /\ \A x : x \in Range(s) <=> \E i \in 1 .. Len(s) : x = s[i]
BY DEF Range

\* k_list_add_back().
LEMMA AppendFacts ==
  ASSUME NEW S, NEW s \in Seq(S), NEW t \in S
  PROVE  /\ Append(s, t) \in Seq(S)
         /\ Range(Append(s, t)) = Range(s) \cup {t}
         /\ IsInjective(s) /\ t \notin Range(s) => IsInjective(Append(s, t))
<1> DEFINE r == Append(s, t)
<1>1. /\ r \in Seq(S)
      /\ Len(r) = Len(s) + 1
      /\ \A i \in 1 .. Len(s) : r[i] = s[i]
      /\ r[Len(s) + 1] = t
  OBVIOUS
<1>2. /\ Len(s) \in Nat
      /\ DOMAIN s = 1 .. Len(s)
      /\ DOMAIN r = 1 .. Len(s) + 1
  BY <1>1
<1>. HIDE DEF r
<1>3. Range(r) = Range(s) \cup {t}
  BY <1>1, <1>2 DEF Range
<1>4. IsInjective(s) /\ t \notin Range(s) => IsInjective(r)
  BY <1>1, <1>2 DEF Range, IsInjective
<1>5. QED
  BY <1>1, <1>3, <1>4 DEF r

\* Taking the first element off a queue.
LEMMA HeadTailFacts ==
  ASSUME NEW S, NEW s \in Seq(S), s # <<>>
  PROVE  /\ Head(s) \in Range(s)
         /\ Tail(s) \in Seq(S)
         /\ IsInjective(s) => /\ IsInjective(Tail(s))
                              /\ Range(Tail(s)) = Range(s) \ {Head(s)}
<1> DEFINE r == Tail(s)
<1>1. /\ r \in Seq(S)
      /\ Len(r) = Len(s) - 1
      /\ \A i \in 1 .. Len(r) : r[i] = s[i + 1]
  OBVIOUS
<1>2. /\ Len(s) \in Nat \ {0}
      /\ DOMAIN s = 1 .. Len(s)
      /\ DOMAIN r = 1 .. Len(s) - 1
      /\ Head(s) = s[1]
  BY <1>1
<1>. HIDE DEF r
<1>3. Head(s) \in Range(s)
  BY <1>2 DEF Range
<1>4. ASSUME IsInjective(s)
      PROVE  IsInjective(r) /\ Range(r) = Range(s) \ {Head(s)}
  <2>1. ASSUME NEW a \in DOMAIN r, NEW b \in DOMAIN r, r[a] = r[b]
        PROVE  a = b
    <3>1. /\ a + 1 \in DOMAIN s /\ s[a + 1] = r[a]
          /\ b + 1 \in DOMAIN s /\ s[b + 1] = r[b]
      BY <1>1, <1>2
    <3>2. a + 1 = b + 1
      BY <3>1, <2>1, <1>4 DEF IsInjective
    <3>3. QED
      BY <3>2, <1>2
  <2>2. ASSUME NEW x \in Range(r)
        PROVE  x \in Range(s) \ {Head(s)}
    BY <1>1, <1>2, <1>4, SMTT(30) DEF Range, IsInjective
  <2>3. ASSUME NEW x \in Range(s), x # Head(s)
        PROVE  x \in Range(r)
    <3>1. PICK i \in 1 .. Len(s) : x = s[i]
      BY <1>2 DEF Range
    <3>2. i # 1 /\ i - 1 \in DOMAIN r /\ r[i - 1] = x
      BY <3>1, <2>3, <1>1, <1>2
    <3>3. QED
      BY <3>2 DEF Range
  <2>4. QED
    BY <2>1, <2>2, <2>3 DEF IsInjective
<1>5. QED
  BY <1>1, <1>3, <1>4 DEF r

\* Inserting at a place.
LEMMA InsertAtFacts ==
  ASSUME NEW S, NEW s \in Seq(S), NEW t \in S, NEW k \in 1 .. Len(s) + 1
  PROVE  /\ InsertAt(s, k, t) \in Seq(S)
         /\ Len(InsertAt(s, k, t)) = Len(s) + 1
         /\ \A i \in 1 .. Len(s) + 1 : InsertAt(s, k, t)[i] =
              IF i < k THEN s[i] ELSE IF i = k THEN t ELSE s[i - 1]
<1>1. Len(s) \in Nat /\ \A i \in 1 .. Len(s) : s[i] \in S
  OBVIOUS
<1> DEFINE d == InsertAt(s, k, t)
<1>2. d \in [1 .. Len(s) + 1 -> S]
  BY <1>1 DEF InsertAt
<1>3. d \in Seq(S) /\ Len(d) = Len(s) + 1
  <2>. HIDE DEF d
  <2>. QED BY <1>1, <1>2
<1>4. QED
  BY <1>1, <1>3 DEF InsertAt

\* Removing from a place.
LEMMA RemoveAtFacts ==
  ASSUME NEW S, NEW s \in Seq(S), NEW k \in 1 .. Len(s)
  PROVE  LET r == RemoveAt(s, k) IN
         /\ r \in Seq(S)
         /\ Len(r) = Len(s) - 1
         /\ \A i \in 1 .. Len(s) - 1 : r[i] = IF i < k THEN s[i] ELSE s[i + 1]
<1>1. Len(s) \in Nat /\ \A i \in 1 .. Len(s) : s[i] \in S
  OBVIOUS
<1> DEFINE d == RemoveAt(s, k)
<1>2. d \in [1 .. Len(s) - 1 -> S] /\ Len(s) - 1 \in Nat
  BY <1>1 DEF RemoveAt
<1>3. d \in Seq(S) /\ Len(d) = Len(s) - 1
  <2>. HIDE DEF d
  <2>. QED BY <1>1, <1>2
<1>4. QED
  BY <1>1, <1>3 DEF RemoveAt

\* k_list_remove(): the other elements, in the same order.
LEMMA RemoveFacts ==
  ASSUME NEW S, NEW s \in Seq(S), NEW t, IsInjective(s)
  PROVE  LET r == Remove(s, t) IN
         /\ r \in Seq(S)
         /\ IsInjective(r)
         /\ Range(r) = Range(s) \ {t}
         /\ \A prio : Sorted(s, prio) => Sorted(r, prio)
<1> DEFINE r == Remove(s, t)
<1>1. Len(s) \in Nat /\ DOMAIN s = 1 .. Len(s)
  OBVIOUS
<1>2. CASE t \notin Range(s)
  <2>1. r = s
    BY <1>2 DEF Remove
  <2>2. QED
    BY <1>2, <2>1
<1>3. CASE t \in Range(s)
  <2> DEFINE k == CHOOSE k \in DOMAIN s : s[k] = t
  <2>1. \E i \in DOMAIN s : s[i] = t
    BY <1>3 DEF Range
  <2>2. r = RemoveAt(s, k)
    BY <1>3 DEF Remove
  <2>3. k \in 1 .. Len(s) /\ s[k] = t
    BY <1>1, <2>1
  <2>. HIDE DEF k, r
  <2>4. /\ r \in Seq(S)
        /\ Len(r) = Len(s) - 1
        /\ \A i \in 1 .. Len(s) - 1 : r[i] = IF i < k THEN s[i] ELSE s[i + 1]
    BY <2>2, <2>3, RemoveAtFacts
  <2>5. DOMAIN r = 1 .. Len(s) - 1
    BY <2>4
  <2> DEFINE f(i) == IF i < k THEN i ELSE i + 1
  <2>6. \A i \in DOMAIN r : /\ f(i) \in 1 .. Len(s)
                            /\ f(i) # k
                            /\ r[i] = s[f(i)]
    BY <1>1, <2>3, <2>4, <2>5
  <2>7. \A i, j \in DOMAIN r : i < j <=> f(i) < f(j)
    BY <1>1, <2>3, <2>5
  <2>8. \A i, j \in DOMAIN r : f(i) = f(j) => i = j
    BY <1>1, <2>3, <2>5
  <2>9. \A j \in 1 .. Len(s) : j # k => \E i \in DOMAIN r : f(i) = j
    <3>1. SUFFICES ASSUME NEW j \in 1 .. Len(s), j # k
                   PROVE  \E i \in DOMAIN r : f(i) = j
      OBVIOUS
    <3>2. CASE j < k
      BY <1>1, <2>3, <2>5, <3>2
    <3>3. CASE j > k
      <4>1. j - 1 \in DOMAIN r /\ f(j - 1) = j
        BY <1>1, <2>3, <2>5, <3>3
      <4>2. QED
        BY <4>1
    <3>4. QED
      BY <1>1, <2>3, <3>1, <3>2, <3>3
  <2>. HIDE DEF f
  <2>10. IsInjective(r)
    BY <1>1, <2>6, <2>8 DEF IsInjective
  <2>11. Range(r) = Range(s) \ {t}
    <3>1. ASSUME NEW i \in DOMAIN r
          PROVE  r[i] \in Range(s) /\ r[i] # t
      BY <1>1, <2>3, <2>6 DEF IsInjective, Range
    <3>2. ASSUME NEW j \in 1 .. Len(s), s[j] # t
          PROVE  s[j] \in Range(r)
      <4>1. PICK i \in DOMAIN r : f(i) = j
        BY <2>3, <2>9, <3>2
      <4>2. r[i] = s[j]
        BY <2>6, <4>1
      <4>3. QED
        BY <4>2 DEF Range
    <3>3. QED
      BY <1>1, <3>1, <3>2 DEF Range
  <2>12. ASSUME NEW prio, Sorted(s, prio)
         PROVE  Sorted(r, prio)
    <3>1. SUFFICES ASSUME NEW i \in 1 .. Len(r), NEW j \in 1 .. Len(r), i < j
                   PROVE  prio[r[i]] <= prio[r[j]]
      BY DEF Sorted
    <3>2. i \in DOMAIN r /\ j \in DOMAIN r
      BY <2>4, <2>5
    <3>3. QED
      BY <2>6, <2>7, <2>12, <3>1, <3>2 DEF Sorted
  <2>13. QED
    BY <2>4, <2>10, <2>11, <2>12 DEF r
<1>4. QED
  BY <1>2, <1>3

\* The loop of _k_sched_add() always finds a place.
LEMMA AddPositionFacts ==
  ASSUME NEW S, NEW s \in Seq(S), NEW t \in S, NEW prio \in [S -> Nat]
  PROVE  LET k == AddPosition(s, prio, t) IN
         /\ k \in 1 .. Len(s) + 1
         /\ \A i \in 1 .. k - 1 : prio[s[i]] <= prio[t]
         /\ k <= Len(s) => prio[s[k]] > prio[t]
<1>1. /\ Len(s) \in Nat
      /\ \A i \in 1 .. Len(s) : s[i] \in S /\ prio[s[i]] \in Nat
      /\ prio[t] \in Nat
  OBVIOUS
<1> DEFINE I == {i \in 1 .. Len(s) : prio[s[i]] > prio[t]}
           P(k) == /\ \A i \in 1 .. k - 1 : prio[s[i]] <= prio[t]
                   /\ k <= Len(s) => prio[s[k]] > prio[t]
<1>2. \E k \in 1 .. Len(s) + 1 : P(k)
  <2>1. CASE I = {}
    <3>1. P(Len(s) + 1)
      BY <1>1, <2>1
    <3>2. QED
      BY <1>1, <3>1
  <2>2. CASE I # {}
    <3>1. PICK k \in I : \A y \in I : k <= y
      <4>1. I \in SUBSET Nat
        BY <1>1
      <4>. HIDE DEF I
      <4>2. QED
        BY <2>2, <4>1, NatMin
    <3>2. k \in 1 .. Len(s) + 1
      BY <1>1
    <3>3. ASSUME NEW i \in 1 .. k - 1
          PROVE  prio[s[i]] <= prio[t]
      <4>1. i \in 1 .. Len(s) /\ i < k
        BY <1>1, <3>1
      <4>2. i \notin I
        BY <1>1, <3>1, <4>1
      <4>3. QED
        BY <1>1, <4>1, <4>2
    <3>4. P(k)
      BY <3>1, <3>3
    <3>5. QED
      BY <3>2, <3>4
  <2>3. QED
    BY <2>1, <2>2
<1>3. QED
  BY <1>2 DEF AddPosition

\* _k_sched_add(): one more element, in its place.
LEMMA AddFacts ==
  ASSUME NEW S, NEW s \in Seq(S), NEW t \in S, NEW prio \in [S -> Nat],
         IsInjective(s), t \notin Range(s)
  PROVE  LET r == Add(s, prio, t) IN
         /\ r \in Seq(S)
         /\ IsInjective(r)
         /\ Range(r) = Range(s) \cup {t}
         /\ Sorted(s, prio) => Sorted(r, prio)
<1> DEFINE k == AddPosition(s, prio, t)
           r == Add(s, prio, t)
<1>1. /\ k \in 1 .. Len(s) + 1
      /\ \A i \in 1 .. k - 1 : prio[s[i]] <= prio[t]
      /\ k <= Len(s) => prio[s[k]] > prio[t]
  BY AddPositionFacts
<1>2. r = InsertAt(s, k, t)
  BY DEF Add
<1>. HIDE DEF k, r
<1>3. /\ r \in Seq(S)
      /\ Len(r) = Len(s) + 1
      /\ \A i \in 1 .. Len(s) + 1 :
           r[i] = IF i < k THEN s[i] ELSE IF i = k THEN t ELSE s[i - 1]
  <2>1. k \in 1 .. Len(s) + 1
    BY <1>1
  <2>2. /\ InsertAt(s, k, t) \in Seq(S)
        /\ Len(InsertAt(s, k, t)) = Len(s) + 1
        /\ \A i \in 1 .. Len(s) + 1 : InsertAt(s, k, t)[i] =
             IF i < k THEN s[i] ELSE IF i = k THEN t ELSE s[i - 1]
    BY <2>1, InsertAtFacts
  <2>3. QED
    BY <1>2, <2>2
<1>4. /\ Len(s) \in Nat
      /\ DOMAIN s = 1 .. Len(s)
      /\ DOMAIN r = 1 .. Len(s) + 1
      /\ \A i \in 1 .. Len(s) : s[i] \in S /\ prio[s[i]] \in Nat
      /\ prio[t] \in Nat
  BY <1>3
<1> DEFINE f(i) == IF i < k THEN i ELSE i - 1
<1>5. \A i \in DOMAIN r : i # k => f(i) \in 1 .. Len(s) /\ r[i] = s[f(i)]
  <2>1. SUFFICES ASSUME NEW i \in DOMAIN r, i # k
                 PROVE  f(i) \in 1 .. Len(s) /\ r[i] = s[f(i)]
    OBVIOUS
  <2>2. f(i) \in 1 .. Len(s)
    BY <1>1, <1>4, <2>1
  <2>3. CASE i < k
    BY <1>3, <1>4, <2>1, <2>2, <2>3
  <2>4. CASE ~(i < k)
    BY <1>3, <1>4, <2>1, <2>2, <2>4
  <2>5. QED
    BY <2>3, <2>4
<1>6. \A i, j \in DOMAIN r : i # k /\ j # k => (i < j <=> f(i) < f(j))
  BY <1>1, <1>4
<1>7. \A i, j \in DOMAIN r : i # k /\ j # k /\ f(i) = f(j) => i = j
  BY <1>1, <1>4
<1>8. \A j \in 1 .. Len(s) : \E i \in DOMAIN r : i # k /\ f(i) = j
  <2>1. SUFFICES ASSUME NEW j \in 1 .. Len(s)
                 PROVE  \E i \in DOMAIN r : i # k /\ f(i) = j
    OBVIOUS
  <2>2. CASE j < k
    <3>1. j \in DOMAIN r /\ j # k /\ f(j) = j
      BY <1>1, <1>4, <2>2
    <3>2. QED
      BY <3>1
  <2>3. CASE j >= k
    <3>1. j + 1 \in DOMAIN r /\ j + 1 # k /\ f(j + 1) = j
      BY <1>1, <1>4, <2>3
    <3>2. QED
      BY <3>1
  <2>4. QED
    BY <1>1, <1>4, <2>1, <2>2, <2>3
<1>9. k \in DOMAIN r /\ r[k] = t
  BY <1>1, <1>3, <1>4
<1>10. \A i \in 1 .. Len(s) : s[i] # t
  BY <1>4 DEF Range
<1>11. Sorted(s, prio) => Sorted(r, prio)
  <2>1. SUFFICES ASSUME Sorted(s, prio),
                        NEW i \in DOMAIN r, NEW j \in DOMAIN r, i < j
                 PROVE  prio[r[i]] <= prio[r[j]]
    BY <1>3, <1>4 DEF Sorted
  <2>2. CASE i # k /\ j # k
    BY <1>5, <1>6, <2>1, <2>2 DEF Sorted
  <2>3. CASE j = k
    BY <1>1, <1>3, <1>4, <1>9, <2>1, <2>3
  <2>4. CASE i = k
    <3>1. k <= Len(s) /\ prio[s[k]] > prio[t] /\ r[j] = s[j - 1] /\ k <= j - 1
          /\ j - 1 \in 1 .. Len(s) /\ k \in 1 .. Len(s)
      BY <1>1, <1>3, <1>4, <2>1, <2>4
    <3>2. prio[s[k]] <= prio[s[j - 1]]
      BY <1>4, <2>1, <3>1 DEF Sorted
    <3>3. prio[s[k]] \in Nat /\ prio[s[j - 1]] \in Nat
      BY <1>4, <3>1
    <3>4. QED
      BY <1>4, <1>9, <2>4, <3>1, <3>2, <3>3
  <2>5. QED
    BY <2>2, <2>3, <2>4
<1>. HIDE DEF f
<1>12. IsInjective(r)
  <2>1. SUFFICES ASSUME NEW i \in DOMAIN r, NEW j \in DOMAIN r, r[i] = r[j]
                 PROVE  i = j
    BY DEF IsInjective
  <2>2. CASE i = k \/ j = k
    BY <1>5, <1>9, <1>10, <2>1, <2>2, SMTT(30)
  <2>3. CASE i # k /\ j # k
    BY <1>4, <1>5, <1>7, <2>1, <2>3 DEF IsInjective
  <2>4. QED
    BY <2>2, <2>3
<1>13. Range(r) = Range(s) \cup {t}
  <2>1. \A i \in DOMAIN r : r[i] \in Range(s) \cup {t}
    BY <1>4, <1>5, <1>9 DEF Range
  <2>2. ASSUME NEW j \in 1 .. Len(s)
        PROVE  s[j] \in Range(r)
    <3>1. PICK i \in DOMAIN r : i # k /\ f(i) = j
      BY <1>8
    <3>2. r[i] = s[j]
      BY <1>5, <3>1
    <3>3. QED
      BY <3>2 DEF Range
  <2>3. QED
    BY <1>4, <1>9, <2>1, <2>2 DEF Range
<1>14. QED
  BY <1>3, <1>11, <1>12, <1>13 DEF r

\* The first thread of a sorted queue has the highest priority.
LEMMA SortedHead ==
  ASSUME NEW S, NEW s \in Seq(S), NEW prio \in [S -> Nat], Sorted(s, prio), s # <<>>
  PROVE  \A x \in Range(s) : prio[Head(s)] <= prio[x]
<1>1. /\ Len(s) \in Nat \ {0}
      /\ DOMAIN s = 1 .. Len(s)
      /\ Head(s) = s[1]
      /\ \A i \in 1 .. Len(s) : prio[s[i]] \in Nat
  OBVIOUS
<1>2. ASSUME NEW i \in 1 .. Len(s)
      PROVE  prio[s[1]] <= prio[s[i]]
  <2>1. CASE i = 1
    BY <1>1, <2>1
  <2>2. CASE i # 1
    BY <1>1, <2>2 DEF Sorted
  <2>3. QED
    BY <2>1, <2>2
<1>3. QED
  BY <1>1, <1>2 DEF Range

\* The order only depends on the priorities of the threads in the queue.
LEMMA SortedSame ==
  ASSUME NEW S, NEW s \in Seq(S), NEW prio, NEW prio2,
         \A x \in Range(s) : prio2[x] = prio[x]
  PROVE  Sorted(s, prio) => Sorted(s, prio2)
<1>1. \A i \in 1 .. Len(s) : s[i] \in Range(s)
  BY DEF Range
<1>2. QED
  BY <1>1 DEF Sorted
=============================================================================
