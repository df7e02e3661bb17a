--------------------------- MODULE TthCoreProofs ----------------------------
(***************************************************************************)
(* What the linked lists of the scheduler preserve, for every number of    *)
(* threads, lists and priorities: facts about the operators of TthCore,    *)
(* and the invariants of the steps of the scheduler itself.                *)
(***************************************************************************)
EXTENDS TthCore, SequenceTheorems, FiniteSetTheorems, WellFoundedInduction, TLAPS

ListsOK(L) == L \in [Lists -> Seq(Thread)]

\* No list of L links thread t.
Absent(L, t) == \A l \in Lists : t \notin ToSet(L[l])

-----------------------------------------------------------------------------
(* Sequences *)

\* The elements of a sequence after an insertion, as tth_cs_move and
\* tth_cs_sleep link a thread.
LEMMA InsertAtFacts ==
  ASSUME NEW S, NEW q \in Seq(S), NEW p \in 1..Len(q)+1, NEW e \in S
  PROVE  /\ InsertAt(q, p, e) \in Seq(S)
         /\ Len(InsertAt(q, p, e)) = Len(q) + 1
         /\ \A i \in 1..Len(q)+1 : InsertAt(q, p, e)[i] =
              IF i < p THEN q[i] ELSE IF i = p THEN e ELSE q[i-1]
<1> DEFINE a == SubSeq(q, 1, p-1)
           b == SubSeq(q, p, Len(q))
<1>1. a \in Seq(S) /\ Len(a) = p-1 /\ \A i \in 1..p-1 : a[i] = q[i]
  BY SubSeqProperties, ElementOfSeq, LenProperties
<1>2. /\ b \in Seq(S) /\ Len(b) = Len(q)-p+1
      /\ \A i \in 1..Len(q)-p+1 : b[i] = q[p+i-1]
  BY SubSeqProperties, ElementOfSeq, LenProperties
<1>3. <<e>> \in Seq(S) /\ Len(<<e>>) = 1 /\ <<e>>[1] = e
  OBVIOUS
<1>4. /\ a \o <<e>> \in Seq(S) /\ Len(a \o <<e>>) = p
      /\ \A i \in 1..p : (a \o <<e>>)[i] = IF i < p THEN q[i] ELSE e
  BY <1>1, <1>3, ConcatProperties, LenProperties
<1>5. InsertAt(q, p, e) = (a \o <<e>>) \o b
  BY DEF InsertAt
<1>6. Len(q) \in Nat
  BY LenProperties
<1> HIDE DEF a, b
<1> DEFINE c == a \o <<e>>
<1>8. /\ c \in Seq(S) /\ Len(c) = p
      /\ \A i \in 1..p : c[i] = IF i < p THEN q[i] ELSE e
  BY <1>4
<1>9. InsertAt(q, p, e) = c \o b
  BY <1>5
<1> HIDE DEF c
<1>7. /\ c \o b \in Seq(S) /\ Len(c \o b) = Len(c) + Len(b)
      /\ \A i \in 1..Len(c)+Len(b) :
           (c \o b)[i] = IF i <= Len(c) THEN c[i] ELSE b[i-Len(c)]
  BY <1>8, <1>2, ConcatProperties
<1> QED
  BY <1>8, <1>2, <1>9, <1>6, <1>7

\* An insertion adds its element and no other.
LEMMA InsertAtElements ==
  ASSUME NEW S, NEW q \in Seq(S), NEW p \in 1..Len(q)+1, NEW e \in S
  PROVE  ToSet(InsertAt(q, p, e)) = ToSet(q) \cup {e}
<1> DEFINE r == InsertAt(q, p, e)
<1>1. /\ r \in Seq(S) /\ Len(r) = Len(q) + 1
      /\ \A i \in 1..Len(q)+1 : r[i] =
              IF i < p THEN q[i] ELSE IF i = p THEN e ELSE q[i-1]
  BY InsertAtFacts
<1>2. DOMAIN r = 1..Len(q)+1 /\ DOMAIN q = 1..Len(q) /\ Len(q) \in Nat
  BY <1>1, LenProperties
<1> HIDE DEF r
<1>3. \A x \in ToSet(r) : x \in ToSet(q) \cup {e}
  BY <1>1, <1>2 DEF ToSet
<1>4. e \in ToSet(r)
  <2>1. r[p] = e /\ p \in DOMAIN r
    BY <1>1, <1>2
  <2> QED BY <2>1 DEF ToSet
<1>5. \A x \in ToSet(q) : x \in ToSet(r)
  <2> SUFFICES ASSUME NEW i \in DOMAIN q PROVE q[i] \in ToSet(r)
    BY DEF ToSet
  <2>1. CASE i < p
    <3>1. r[i] = q[i] /\ i \in DOMAIN r
      BY <2>1, <1>1, <1>2
    <3> QED BY <3>1 DEF ToSet
  <2>2. CASE i >= p
    <3>1. r[i+1] = q[i] /\ i+1 \in DOMAIN r
      BY <2>2, <1>1, <1>2
    <3> QED BY <3>1 DEF ToSet
  <2> QED BY <2>1, <2>2, <1>2
<1> QED
  BY <1>3, <1>4, <1>5 DEF r

\* The walk of tth_cs_move ends at a place of the list.
LEMMA InsertPosFacts ==
  ASSUME NEW q \in Seq(Thread), NEW t \in Thread
  PROVE  /\ InsertPos(q, t) \in 1..Len(q)+1
         /\ \A i \in 1..InsertPos(q, t)-1 : Priority[q[i]] >= Priority[t]
         /\ InsertPos(q, t) <= Len(q) => Priority[q[InsertPos(q, t)]] < Priority[t]
<1> DEFINE P == {p \in 1..Len(q)+1 : p <= Len(q) => Priority[q[p]] < Priority[t]}
<1>1. P \subseteq Nat /\ P # {}
  <2>1. Len(q) \in Nat
    BY LenProperties
  <2>2. Len(q)+1 \in P
    BY <2>1
  <2> QED BY <2>2
<1>2. PICK p \in P : \A y \in P : ~(y < p)
  <2>1. PICK p \in P : \A y \in P : ~(<<y, p>> \in OpToRel(<, Nat))
    BY <1>1, WFMin, NatLessThanWellFounded
  <2> QED BY <2>1, <1>1 DEF OpToRel
<1>3. \A i \in 1..p-1 : Priority[q[i]] >= Priority[t]
  BY <1>2, CoreAssumption, ElementOfSeq, LenProperties
<1> QED BY <1>2, <1>3 DEF InsertPos

\* A thread linked by tth_cs_move keeps a list ordered by priority.
LEMMA InsertOrdered ==
  ASSUME NEW q \in Seq(Thread), NEW t \in Thread, Ordered(q)
  PROVE  Ordered(Insert(q, t))
<1> DEFINE p == InsertPos(q, t)
           r == Insert(q, t)
<1>1. /\ p \in 1..Len(q)+1
      /\ \A i \in 1..p-1 : Priority[q[i]] >= Priority[t]
      /\ p <= Len(q) => Priority[q[p]] < Priority[t]
  BY InsertPosFacts
<1>2. /\ r \in Seq(Thread) /\ Len(r) = Len(q) + 1
      /\ \A i \in 1..Len(q)+1 : r[i] =
              IF i < p THEN q[i] ELSE IF i = p THEN t ELSE q[i-1]
  <2>1. r = InsertAt(q, p, t)
    BY DEF Insert
  <2>2. p \in 1..Len(q)+1
    BY <1>1
  <2> HIDE DEF p, r
  <2>3. /\ InsertAt(q, p, t) \in Seq(Thread) /\ Len(InsertAt(q, p, t)) = Len(q) + 1
        /\ \A i \in 1..Len(q)+1 : InsertAt(q, p, t)[i] =
                IF i < p THEN q[i] ELSE IF i = p THEN t ELSE q[i-1]
    BY <2>2, InsertAtFacts
  <2> QED BY <2>1, <2>3
<1>3. DOMAIN r = 1..Len(q)+1 /\ DOMAIN q = 1..Len(q) /\ Len(q) \in Nat
  BY <1>2, LenProperties
<1>4. \A i \in 1..Len(q) : Priority[q[i]] \in Nat
  BY CoreAssumption, ElementOfSeq
<1>5. Priority[t] \in Nat
  BY CoreAssumption
<1>6. \A i, j \in 1..Len(q) : i <= j => Priority[q[i]] >= Priority[q[j]]
  BY <1>3 DEF Ordered
<1>7. \A i \in 1..Len(q) : i >= p => Priority[q[i]] < Priority[t]
  BY <1>1, <1>3, <1>4, <1>5, <1>6
<1> HIDE DEF p, r
<1>8. ASSUME NEW i \in 1..Len(q)+1, NEW j \in 1..Len(q)+1, i <= j
      PROVE  Priority[r[i]] >= Priority[r[j]]
  <2>1. CASE j < p
    BY <2>1, <1>8, <1>2, <1>3, <1>6, <1>1
  <2>2. CASE j = p
    BY <2>2, <1>8, <1>2, <1>3, <1>1, <1>5
  <2>3. CASE j > p /\ i < p
    <3>1. r[i] = q[i] /\ r[j] = q[j-1] /\ i \in 1..Len(q) /\ j-1 \in 1..Len(q) /\ i <= j-1
      BY <2>3, <1>2, <1>3, <1>1
    <3> QED BY <3>1, <1>6
  <2>4. CASE j > p /\ i = p
    <3>1. r[i] = t /\ r[j] = q[j-1] /\ j-1 \in 1..Len(q) /\ j-1 >= p
      BY <2>4, <1>2, <1>3, <1>1
    <3> QED BY <3>1, <1>7, <1>4, <1>5
  <2>5. CASE j > p /\ i > p
    <3>1. r[i] = q[i-1] /\ r[j] = q[j-1] /\ i-1 \in 1..Len(q) /\ j-1 \in 1..Len(q) /\ i-1 <= j-1
      BY <2>5, <1>8, <1>2, <1>3, <1>1
    <3> QED BY <3>1, <1>6
  <2> QED BY <2>1, <2>2, <2>3, <2>4, <2>5, <1>1, <1>3
<1> QED BY <1>8, <1>3 DEF Ordered, r

\* What taking the head off a list leaves.
LEMMA TailElements ==
  ASSUME NEW S, NEW q \in Seq(S), q # <<>>
  PROVE  /\ ToSet(q) = ToSet(Tail(q)) \cup {Head(q)}
         /\ DOMAIN Tail(q) = 1..Len(q)-1 /\ DOMAIN q = 1..Len(q) /\ Len(q) \in Nat \ {0}
         /\ \A i \in 1..Len(q)-1 : Tail(q)[i] = q[i+1]
<1>1. /\ Tail(q) \in Seq(S) /\ Len(Tail(q)) = Len(q)-1
      /\ \A i \in 1..Len(Tail(q)) : Tail(q)[i] = q[i+1]
  BY HeadTailProperties
<1>2. Len(q) \in Nat \ {0} /\ DOMAIN q = 1..Len(q) /\ Head(q) = q[1]
  BY EmptySeq, LenProperties
<1>3. DOMAIN Tail(q) = 1..Len(q)-1
  BY <1>1, LenProperties
<1> DEFINE r == Tail(q)
<1> HIDE DEF r
<1>4. \A i \in 1..Len(q)-1 : r[i] = q[i+1]
  BY <1>1 DEF r
<1>5. \A x \in ToSet(q) : x \in ToSet(r) \cup {Head(q)}
  <2> SUFFICES ASSUME NEW i \in 1..Len(q), i # 1 PROVE q[i] \in ToSet(r)
    BY <1>2 DEF ToSet
  <2>1. r[i-1] = q[i] /\ i-1 \in DOMAIN r
    BY <1>4, <1>2, <1>3 DEF r
  <2> QED BY <2>1 DEF ToSet
<1>6. \A x \in ToSet(r) : x \in ToSet(q)
  <2> SUFFICES ASSUME NEW i \in 1..Len(q)-1 PROVE r[i] \in ToSet(q)
    BY <1>3 DEF ToSet, r
  <2>1. r[i] = q[i+1] /\ i+1 \in DOMAIN q
    BY <1>4, <1>2
  <2> QED BY <2>1 DEF ToSet
<1>7. Head(q) \in ToSet(q)
  BY <1>2 DEF ToSet
<1> QED
  BY <1>1, <1>2, <1>3, <1>5, <1>6, <1>7 DEF r

\* A list without its head is still ordered.
LEMMA TailOrdered ==
  ASSUME NEW q \in Seq(Thread), q # <<>>, Ordered(q)
  PROVE  Ordered(Tail(q))
<1>1. /\ DOMAIN Tail(q) = 1..Len(q)-1 /\ DOMAIN q = 1..Len(q) /\ Len(q) \in Nat \ {0}
      /\ \A i \in 1..Len(q)-1 : Tail(q)[i] = q[i+1]
  BY TailElements
<1> QED
  BY <1>1 DEF Ordered

\* An insertion of a new element repeats nothing.
LEMMA InsertAtInjective ==
  ASSUME NEW S, NEW q \in Seq(S), NEW p \in 1..Len(q)+1, NEW e \in S,
         IsInjective(q), e \notin ToSet(q)
  PROVE  IsInjective(InsertAt(q, p, e))
<1> DEFINE r == InsertAt(q, p, e)
<1>1. /\ r \in Seq(S) /\ Len(r) = Len(q) + 1
      /\ \A i \in 1..Len(q)+1 : r[i] =
              IF i < p THEN q[i] ELSE IF i = p THEN e ELSE q[i-1]
  BY InsertAtFacts
<1>2. DOMAIN r = 1..Len(q)+1 /\ DOMAIN q = 1..Len(q) /\ Len(q) \in Nat
  BY <1>1, LenProperties
<1>3. \A i \in 1..Len(q) : q[i] # e
  BY <1>2 DEF ToSet
<1>4. \A i, j \in 1..Len(q) : q[i] = q[j] => i = j
  BY <1>2 DEF IsInjective
<1> HIDE DEF r
<1>5. \A i, j \in 1..Len(q)+1 : r[i] = r[j] => i = j
  <2> DEFINE src(i) == IF i < p THEN i ELSE i-1
  <2>1. \A i \in 1..Len(q)+1 : i # p => r[i] = q[src(i)] /\ src(i) \in 1..Len(q)
    BY <1>1, <1>2
  <2>2. r[p] = e
    BY <1>1
  <2>3. \A i, j \in 1..Len(q)+1 : i # p /\ j # p /\ src(i) = src(j) => i = j
    BY <1>2
  <2> HIDE DEF src
  <2> QED BY <2>1, <2>2, <2>3, <1>3, <1>4
<1> QED
  BY <1>2, <1>5 DEF IsInjective, r

\* The head of a list without repetitions is not in the rest of it.
LEMMA TailInjective ==
  ASSUME NEW S, NEW q \in Seq(S), q # <<>>, IsInjective(q)
  PROVE  IsInjective(Tail(q)) /\ Head(q) \notin ToSet(Tail(q))
<1>1. /\ DOMAIN Tail(q) = 1..Len(q)-1 /\ DOMAIN q = 1..Len(q) /\ Len(q) \in Nat \ {0}
      /\ \A i \in 1..Len(q)-1 : Tail(q)[i] = q[i+1]
  BY TailElements
<1>2. \A i, j \in 1..Len(q) : q[i] = q[j] => i = j
  BY <1>1 DEF IsInjective
<1>3. Head(q) = q[1]
  OBVIOUS
<1>4. IsInjective(Tail(q))
  BY <1>1, <1>2 DEF IsInjective
<1>5. \A i \in 1..Len(q)-1 : Tail(q)[i] # Head(q)
  BY <1>1, <1>2, <1>3
<1> QED
  BY <1>1, <1>4, <1>5 DEF ToSet

-----------------------------------------------------------------------------
(* Lists of threads *)

\* What it means that every thread is linked at one place, list by list.
LEMMA LinkedOnceByList ==
  ASSUME NEW L
  PROVE  LinkedOnce(L) <=>
           /\ \A a \in Lists : IsInjective(L[a])
           /\ \A a, b \in Lists : a # b => ToSet(L[a]) \cap ToSet(L[b]) = {}
BY DEF LinkedOnce, IsInjective, ToSet

\* Taking the head off a list, the first half of tth_cs_move.
LEMMA PopFacts ==
  ASSUME NEW L, ListsOK(L), LinkedOnce(L), NEW f \in Lists, L[f] # <<>>
  PROVE  LET M == [L EXCEPT ![f] = Tail(@)]
         IN  /\ ListsOK(M) /\ LinkedOnce(M)
             /\ Head(L[f]) \in Thread /\ Absent(M, Head(L[f]))
             /\ ToSet(L[f]) = ToSet(M[f]) \cup {Head(L[f])}
<1> DEFINE M == [L EXCEPT ![f] = Tail(@)]
           h == Head(L[f])
<1>1. L[f] \in Seq(Thread)
  BY DEF ListsOK
<1>2. Tail(L[f]) \in Seq(Thread) /\ h \in Thread
  BY <1>1, HeadTailProperties
<1>3. /\ ListsOK(M) /\ M[f] = Tail(L[f])
      /\ \A l \in Lists \ {f} : M[l] = L[l]
  BY <1>2 DEF ListsOK
<1>4. ToSet(L[f]) = ToSet(Tail(L[f])) \cup {h}
  BY <1>1, TailElements
<1>5. /\ \A a \in Lists : IsInjective(L[a])
      /\ \A a, b \in Lists : a # b => ToSet(L[a]) \cap ToSet(L[b]) = {}
  BY LinkedOnceByList
<1>6. IsInjective(Tail(L[f])) /\ h \notin ToSet(Tail(L[f]))
  BY <1>1, <1>5, TailInjective
<1> HIDE DEF M, h
<1>7. LinkedOnce(M)
  <2>1. \A a \in Lists : IsInjective(M[a])
    BY <1>3, <1>5, <1>6
  <2>2. \A a \in Lists : ToSet(M[a]) \subseteq ToSet(L[a])
    BY <1>3, <1>4
  <2> QED BY <2>1, <2>2, <1>5, LinkedOnceByList
<1>8. Absent(M, h)
  <2>1. h \in ToSet(L[f])
    BY <1>4
  <2>2. \A l \in Lists \ {f} : h \notin ToSet(M[l])
    BY <2>1, <1>3, <1>5
  <2> QED BY <2>2, <1>3, <1>6 DEF Absent
<1> QED
  BY <1>2, <1>3, <1>4, <1>7, <1>8 DEF M, h

\* Linking a thread that is in no list, the second half.
LEMMA PushFacts ==
  ASSUME NEW L, ListsOK(L), LinkedOnce(L), NEW g \in Lists,
         NEW t \in Thread, Absent(L, t), NEW p \in 1..Len(L[g])+1
  PROVE  LET M == [L EXCEPT ![g] = InsertAt(@, p, t)]
         IN  /\ ListsOK(M) /\ LinkedOnce(M)
             /\ ToSet(M[g]) = ToSet(L[g]) \cup {t}
             /\ M[g] # <<>>
<1> DEFINE M == [L EXCEPT ![g] = InsertAt(@, p, t)]
           r == InsertAt(L[g], p, t)
<1>1. L[g] \in Seq(Thread)
  BY DEF ListsOK
<1>2. r \in Seq(Thread) /\ Len(r) = Len(L[g]) + 1
  BY <1>1, InsertAtFacts
<1>3. ToSet(r) = ToSet(L[g]) \cup {t}
  BY <1>1, InsertAtElements
<1>4. t \notin ToSet(L[g])
  BY DEF Absent
<1>5. /\ \A a \in Lists : IsInjective(L[a])
      /\ \A a, b \in Lists : a # b => ToSet(L[a]) \cap ToSet(L[b]) = {}
  BY LinkedOnceByList
<1>6. IsInjective(r)
  BY <1>1, <1>4, <1>5, InsertAtInjective
<1> HIDE DEF r
<1>7. /\ ListsOK(M) /\ M[g] = r
      /\ \A l \in Lists \ {g} : M[l] = L[l]
  BY <1>2 DEF ListsOK, r
<1> HIDE DEF M
<1>8. LinkedOnce(M)
  <2>1. \A a \in Lists : IsInjective(M[a])
    BY <1>5, <1>6, <1>7
  <2>2. \A a, b \in Lists : a # b => ToSet(M[a]) \cap ToSet(M[b]) = {}
    BY <1>3, <1>5, <1>7 DEF Absent
  <2> QED BY <2>1, <2>2, LinkedOnceByList
<1>9. r # <<>>
  <2>1. t \in ToSet(r)
    BY <1>3
  <2> QED BY <2>1 DEF ToSet
<1> QED
  BY <1>3, <1>7, <1>8, <1>9 DEF M

SortedLists(L) == \A l \in Lists \ {Sleeping} : Ordered(L[l])

\* What tth_cs_move makes of the lists L: it links nothing twice, keeps the
\* order, and moves the head of the list it takes from and no other thread.
Moved(L, M, f, g) ==
  /\ ListsOK(M) /\ LinkedOnce(M)
  /\ \A l \in Lists \ {f, g} : M[l] = L[l]
  /\ SortedLists(L) /\ g # Sleeping => SortedLists(M)
  /\ L[f] = <<>> => M = L
  /\ L[f] # <<>> =>
       /\ Head(L[f]) \in Thread
       /\ f = g => ToSet(M[g]) = ToSet(L[g])
       /\ f # g => /\ ToSet(M[g]) = ToSet(L[g]) \cup {Head(L[f])}
                  /\ ToSet(M[f]) = ToSet(L[f]) \ {Head(L[f])}

\* tth_cs_move does that.
LEMMA MoveFacts ==
  ASSUME NEW L, ListsOK(L), LinkedOnce(L), NEW f \in Lists, NEW g \in Lists
  PROVE  Moved(L, Move(L, f, g), f, g)
<1>1. CASE L[f] = <<>>
  BY <1>1 DEF Move, Moved
<1>2. CASE L[f] # <<>>
  <2> DEFINE R == [L EXCEPT ![f] = Tail(@)]
             h == Head(L[f])
             p == InsertPos(R[g], h)
             M == Move(L, f, g)
  <2>1. /\ ListsOK(R) /\ LinkedOnce(R) /\ h \in Thread /\ Absent(R, h)
        /\ ToSet(L[f]) = ToSet(R[f]) \cup {h}
    BY <1>2, PopFacts
  <2>2. L[f] \in Seq(Thread) /\ R[f] = Tail(L[f]) /\ \A l \in Lists \ {f} : R[l] = L[l]
    BY DEF ListsOK
  <2>3. R[g] \in Seq(Thread)
    BY <2>1 DEF ListsOK
  <2>4. p \in 1..Len(R[g])+1
    BY <2>1, <2>3, InsertPosFacts
  <2>5. M = [R EXCEPT ![g] = InsertAt(@, p, h)] /\ M[g] = Insert(R[g], h)
    BY <1>2 DEF Move, Insert, ListsOK
  <2> HIDE DEF R, h, p, M
  <2>6. /\ ListsOK(M) /\ LinkedOnce(M)
        /\ ToSet(M[g]) = ToSet(R[g]) \cup {h}
    <3> DEFINE N == [R EXCEPT ![g] = InsertAt(@, p, h)]
    <3>1. /\ ListsOK(N) /\ LinkedOnce(N)
          /\ ToSet(N[g]) = ToSet(R[g]) \cup {h}
      BY <2>1, <2>4, PushFacts
    <3> HIDE DEF N
    <3>2. M = N
      BY <2>5 DEF N
    <3> QED BY <3>1, <3>2
  <2>7. \A l \in Lists \ {g} : M[l] = R[l]
    BY <2>1, <2>5 DEF ListsOK
  <2>8. ASSUME SortedLists(L), g # Sleeping
        PROVE  SortedLists(M)
    <3>1. f # Sleeping => Ordered(R[f])
      BY <1>2, <2>2, <2>8, TailOrdered DEF SortedLists
    <3>2. Ordered(R[g])
      BY <2>2, <2>8, <3>1 DEF SortedLists
    <3>3. Ordered(M[g])
      BY <2>1, <2>3, <2>5, <3>2, InsertOrdered
    <3> QED BY <2>2, <2>7, <2>8, <3>1, <3>3 DEF SortedLists
  <2>9. f # g => /\ ToSet(M[g]) = ToSet(L[g]) \cup {h}
                 /\ ToSet(M[f]) = ToSet(L[f]) \ {h}
    BY <2>1, <2>2, <2>6, <2>7 DEF Absent
  <2>10. f = g => ToSet(M[g]) = ToSet(L[g])
    BY <2>1, <2>6
  <2> QED BY <1>2, <2>1, <2>2, <2>6, <2>7, <2>8, <2>9, <2>10 DEF M, h, Moved
<1> QED
  BY <1>1, <1>2

-----------------------------------------------------------------------------
(* The invariant of the scheduler *)

CoreInv == CoreTypeOK /\ OneList /\ ListsOrdered /\ IdleReady /\ RunningIsHead

\* The processor always has a thread to run, and a caller is the head of
\* tth_ready and no other list links it.
LEMMA RunningFacts ==
  ASSUME CoreInv
  PROVE  /\ list[Ready] # <<>> /\ Head(list[Ready]) \in Thread
         /\ HeadOf(list[Ready]) = Head(list[Ready])
         /\ intLevel = 0 =>
              /\ running = Head(list[Ready]) /\ running \in Thread
              /\ running \in ToSet(list[Ready])
              /\ \A l \in WaitList : running \notin ToSet(list[l])
<1>1. list[Ready] \in Seq(Thread) /\ Ready \in Lists
  BY DEF CoreInv, CoreTypeOK, Lists
<1>2. list[Ready] # <<>>
  BY DEF CoreInv, IdleReady, ToSet
<1>3. Head(list[Ready]) \in Thread /\ Head(list[Ready]) \in ToSet(list[Ready])
  BY <1>1, <1>2, HeadTailProperties, TailElements
<1>4. \A l \in WaitList : l \in Lists /\ l # Ready
  BY CoreAssumption DEF Lists
<1>5. \A l \in WaitList : ToSet(list[l]) \cap ToSet(list[Ready]) = {}
  BY <1>1, <1>4, LinkedOnceByList DEF CoreInv, OneList
<1> QED
  BY <1>2, <1>3, <1>5 DEF CoreInv, RunningIsHead, HeadOf

\* The switch makes the head of tth_ready run.
LEMMA SwitchFacts ==
  ASSUME CoreTypeOK, ListsOK(list'), list'[Ready] # <<>>, Switch, intLevel' = intLevel
  PROVE  running' \in Thread \cup {NULL} /\ RunningIsHead'
<1>1. Head(list'[Ready]) \in Thread
  <2>1. list'[Ready] \in Seq(Thread)
    BY DEF ListsOK, Lists
  <2> QED BY <2>1, HeadTailProperties
<1> QED
  BY <1>1 DEF Switch, HeadOf, RunningIsHead, CoreTypeOK

\* The names of tth_ready and of the waiter lists are lists, and different.
LEMMA ListNames ==
  /\ Ready \in Lists /\ Sleeping \in Lists /\ Ready # Sleeping
  /\ \A q \in WaitList : q \in Lists /\ q # Ready
BY CoreAssumption DEF Lists

\* The control blocks stay typed when tth_cs_move marks the thread it moves.
LEMMA MoveHeadTypes ==
  ASSUME CoreTypeOK, NEW f \in Lists, NEW g, NEW s \in WaitState, MoveHead(f, g, s)
  PROVE  waitstate' \in [Thread -> WaitState]
<1>1. list[f] # <<>> => Head(list[f]) \in Thread
  BY HeadTailProperties DEF CoreTypeOK
<1> QED
  BY <1>1 DEF MoveHead, Mark, CoreTypeOK

\* A thread that readies the first waiter of a list, in a call or a handler,
\* keeps the invariant; it moves that waiter and no other thread.
LEMMA WakeFacts ==
  ASSUME CoreInv, NEW q \in WaitList, Wake(q), cont' \in [Thread -> Continuation]
  PROVE  /\ CoreInv'
         /\ \A l \in Lists \ {q, Ready} : list'[l] = list[l]
         /\ list[q] = <<>> => list' = list
         /\ list[q] # <<>> =>
              /\ Head(list[q]) \in ToSet(list[q])
              /\ ToSet(list'[Ready]) = ToSet(list[Ready]) \cup {Head(list[q])}
              /\ ToSet(list'[q]) = ToSet(list[q]) \ {Head(list[q])}
<1> USE ListNames
<1>1. ListsOK(list) /\ LinkedOnce(list) /\ SortedLists(list)
  BY DEF CoreInv, CoreTypeOK, ListsOK, OneList, ListsOrdered, SortedLists
<1>2. list' = Move(list, q, Ready)
  BY DEF Wake, MoveHead
<1>3. /\ ListsOK(list') /\ LinkedOnce(list') /\ SortedLists(list')
      /\ \A l \in Lists \ {q, Ready} : list'[l] = list[l]
      /\ list[q] = <<>> => list' = list
      /\ list[q] # <<>> =>
           /\ ToSet(list'[Ready]) = ToSet(list[Ready]) \cup {Head(list[q])}
           /\ ToSet(list'[q]) = ToSet(list[q]) \ {Head(list[q])}
  <2>1. Moved(list, list', q, Ready)
    BY <1>1, <1>2, MoveFacts
  <2> QED BY <1>1, <2>1 DEF Moved
<1>4. list[q] # <<>> => Head(list[q]) \in ToSet(list[q])
  BY <1>1, TailElements DEF ListsOK
<1>5. IdleReady'
  BY <1>3 DEF CoreInv, IdleReady
<1>6. list'[Ready] # <<>>
  BY <1>5 DEF IdleReady, ToSet
<1>7. waitstate' \in [Thread -> WaitState]
  BY MoveHeadTypes DEF Wake, CoreInv, WaitState
<1>8. running' \in Thread \cup {NULL} /\ RunningIsHead'
  BY <1>3, <1>6, SwitchFacts DEF Wake, CoreInv
<1> QED
  BY <1>3, <1>4, <1>5, <1>7, <1>8
  DEF CoreInv, CoreTypeOK, Wake, ListsOK, OneList, ListsOrdered, SortedLists

\* A caller that waits leaves tth_ready for the list it waits in; the idle
\* thread, which does not, remains.
LEMMA BlockFacts ==
  ASSUME CoreInv, intLevel = 0, running # Idle,
         NEW q \in WaitList \ {Sleeping}, NEW s \in WaitState, NEW op \in Ops,
         Block(q, s, op)
  PROVE  /\ CoreInv'
         /\ \A l \in Lists \ {q, Ready} : list'[l] = list[l]
         /\ ToSet(list'[q]) = ToSet(list[q]) \cup {running}
         /\ ToSet(list'[Ready]) = ToSet(list[Ready]) \ {running}
<1> USE ListNames
<1>1. ListsOK(list) /\ LinkedOnce(list) /\ SortedLists(list)
  BY DEF CoreInv, CoreTypeOK, ListsOK, OneList, ListsOrdered, SortedLists
<1>2. list' = Move(list, Ready, q)
  BY DEF Block, MoveHead
<1>3. list[Ready] # <<>> /\ running = Head(list[Ready]) /\ running \in Thread
  BY RunningFacts
<1>4. /\ ListsOK(list') /\ LinkedOnce(list') /\ SortedLists(list')
      /\ \A l \in Lists \ {q, Ready} : list'[l] = list[l]
      /\ ToSet(list'[q]) = ToSet(list[q]) \cup {running}
      /\ ToSet(list'[Ready]) = ToSet(list[Ready]) \ {running}
  <2>1. Moved(list, list', Ready, q)
    BY <1>1, <1>2, MoveFacts
  <2> QED BY <1>1, <2>1, <1>3 DEF Moved
<1>5. IdleReady'
  BY <1>4 DEF CoreInv, IdleReady
<1>6. list'[Ready] # <<>>
  BY <1>5 DEF IdleReady, ToSet
<1>7. waitstate' \in [Thread -> WaitState]
  BY MoveHeadTypes DEF Block, CoreInv
<1>8. running' \in Thread \cup {NULL} /\ RunningIsHead'
  BY <1>4, <1>6, SwitchFacts DEF Block, CoreInv
<1>9. cont' \in [Thread -> Continuation]
  BY DEF Block, Await, Continuation, CoreInv, CoreTypeOK
<1> QED
  BY <1>4, <1>5, <1>7, <1>8, <1>9
  DEF CoreInv, CoreTypeOK, Block, ListsOK, OneList, ListsOrdered, SortedLists

-----------------------------------------------------------------------------
(* The steps of the scheduler *)

\* What the other components need to know of a step of the scheduler: their
\* waiter lists stay as they are, and no thread is taken from tth_ready in
\* the middle of a call.
CoreFrame ==
  /\ cont' = cont
  /\ \A l \in WaitList \ {Sleeping} : list'[l] = list[l]
  /\ \A t \in ToSet(list[Ready]) : cont[t] # User => t \in ToSet(list'[Ready])

\* Rotating tth_ready, as sched_yield and the end of a time slice do.
LEMMA RotateFacts ==
  ASSUME CoreInv, MoveHead(Ready, Ready, "ready"), Switch, intLevel' = intLevel,
         ticked' \in BOOLEAN, cont' = cont
  PROVE  CoreInv' /\ CoreFrame
<1> USE ListNames
<1>1. ListsOK(list) /\ LinkedOnce(list) /\ SortedLists(list)
  BY DEF CoreInv, CoreTypeOK, ListsOK, OneList, ListsOrdered, SortedLists
<1>2. list' = Move(list, Ready, Ready) /\ list[Ready] # <<>>
  BY RunningFacts DEF MoveHead
<1>3. /\ ListsOK(list') /\ LinkedOnce(list') /\ SortedLists(list')
      /\ \A l \in Lists \ {Ready} : list'[l] = list[l]
      /\ ToSet(list'[Ready]) = ToSet(list[Ready])
  <2>1. Moved(list, list', Ready, Ready)
    BY <1>1, <1>2, MoveFacts
  <2> QED BY <1>1, <2>1, <1>2 DEF Moved
<1>4. IdleReady'
  BY <1>3 DEF CoreInv, IdleReady
<1>5. list'[Ready] # <<>>
  BY <1>4 DEF IdleReady, ToSet
<1>6. waitstate' \in [Thread -> WaitState]
  BY MoveHeadTypes DEF CoreInv, WaitState
<1>7. running' \in Thread \cup {NULL} /\ RunningIsHead'
  BY <1>3, <1>5, SwitchFacts DEF CoreInv
<1> QED
  BY <1>3, <1>4, <1>6, <1>7
  DEF CoreInv, CoreTypeOK, CoreFrame, ListsOK, OneList, ListsOrdered, SortedLists

\* A thread going to sleep.
LEMMA SleepFacts ==
  ASSUME CoreInv, usleep
  PROVE  CoreInv' /\ CoreFrame
<1> USE ListNames
<1>1. ListsOK(list) /\ LinkedOnce(list) /\ SortedLists(list)
  BY DEF CoreInv, CoreTypeOK, ListsOK, OneList, ListsOrdered, SortedLists
<1>2. /\ intLevel = 0 /\ running # Idle /\ cont[running] = User
      /\ list[Ready] # <<>> /\ running = Head(list[Ready]) /\ running \in Thread
  BY RunningFacts DEF usleep, Caller, UserMode
<1> DEFINE R == [list EXCEPT ![Ready] = Tail(@)]
<1>3. PICK p \in 1..Len(list[Sleeping])+1 :
        list' = [list EXCEPT ![Ready] = Tail(@), ![Sleeping] = InsertAt(@, p, running)]
  BY DEF usleep
<1>4. /\ ListsOK(R) /\ LinkedOnce(R) /\ Absent(R, running)
      /\ ToSet(list[Ready]) = ToSet(R[Ready]) \cup {running}
  BY <1>1, <1>2, PopFacts
<1>5. /\ R[Ready] = Tail(list[Ready]) /\ \A l \in Lists \ {Ready} : R[l] = list[l]
      /\ list' = [R EXCEPT ![Sleeping] = InsertAt(@, p, running)]
  BY <1>1, <1>3 DEF ListsOK
<1> HIDE DEF R
<1>6. ListsOK(list') /\ LinkedOnce(list')
  <2> DEFINE N == [R EXCEPT ![Sleeping] = InsertAt(@, p, running)]
  <2>1. p \in 1..Len(R[Sleeping])+1
    BY <1>5
  <2>2. ListsOK(N) /\ LinkedOnce(N)
    BY <1>2, <1>4, <2>1, PushFacts
  <2> QED BY <1>5, <2>2
<1>7. \A l \in Lists \ {Sleeping} : list'[l] = R[l]
  BY <1>4, <1>5 DEF ListsOK
<1>8. SortedLists(list')
  <2>1. Ordered(R[Ready])
    BY <1>1, <1>2, <1>5, TailOrdered DEF ListsOK, SortedLists
  <2> QED BY <1>1, <1>5, <1>7, <2>1 DEF SortedLists
<1>9. ToSet(list'[Ready]) = ToSet(list[Ready]) \ {running}
  BY <1>4, <1>7 DEF Absent
<1>10. IdleReady'
  BY <1>2, <1>9 DEF CoreInv, IdleReady
<1>11. list'[Ready] # <<>>
  BY <1>10 DEF IdleReady, ToSet
<1>12. running' \in Thread \cup {NULL} /\ RunningIsHead'
  BY <1>6, <1>11, SwitchFacts DEF usleep, CoreInv
<1>13. waitstate' \in [Thread -> WaitState]
  BY <1>2 DEF usleep, WaitState, CoreInv, CoreTypeOK
<1>14. CoreInv'
  BY <1>6, <1>8, <1>10, <1>12, <1>13
  DEF usleep, CoreInv, CoreTypeOK, ListsOK, OneList, ListsOrdered, SortedLists
<1>15. CoreFrame
  <2>1. \A l \in WaitList \ {Sleeping} : list'[l] = list[l]
    BY <1>5, <1>7
  <2> QED BY <1>2, <1>9, <2>1 DEF CoreFrame, usleep
<1> QED
  BY <1>14, <1>15

\* Every step of the scheduler, in a thread or in an interrupt.
LEMMA CoreStep ==
  ASSUME CoreInv, CoreNext
  PROVE  CoreInv' /\ CoreFrame
<1>1. CASE sched_yield
  BY <1>1, RotateFacts DEF sched_yield, CoreInv, CoreTypeOK
<1>2. CASE usleep
  BY <1>2, SleepFacts
<1>3. CASE tth_int_enter
  <2>1. CoreInv'
    BY <1>3 DEF tth_int_enter, CoreInv, CoreTypeOK, OneList, ListsOrdered,
      IdleReady, RunningIsHead
  <2>2. CoreFrame
    BY <1>3 DEF tth_int_enter, CoreFrame
  <2> QED BY <2>1, <2>2
<1>4. CASE tth_sleep_tick
  <2>1. cont' \in [Thread -> Continuation] /\ cont' = cont
    BY <1>4 DEF tth_sleep_tick, CoreInv, CoreTypeOK
  <2>2. /\ CoreInv' /\ \A l \in Lists \ {Sleeping, Ready} : list'[l] = list[l]
        /\ ToSet(list[Ready]) \subseteq ToSet(list'[Ready])
    BY <1>4, <2>1, WakeFacts, CoreAssumption DEF tth_sleep_tick
  <2> QED BY <2>1, <2>2, ListNames DEF CoreFrame
<1>5. CASE tth_int_tick
  <2>1. CASE EndSlice
    BY <2>1, RotateFacts DEF EndSlice
  <2>2. CASE KeepSlice
    <3>1. CoreInv'
      BY <2>2 DEF KeepSlice, CoreInv, CoreTypeOK, OneList, ListsOrdered,
        IdleReady, RunningIsHead
    <3>2. CoreFrame
      BY <2>2 DEF KeepSlice, CoreFrame
    <3> QED BY <3>1, <3>2
  <2> QED BY <1>5, <2>1, <2>2 DEF tth_int_tick
<1>6. CASE tth_int_exit
  <2>1. HeadOf(list[Ready]) \in Thread
    BY RunningFacts
  <2>2. intLevel' = 0
    BY <1>6 DEF tth_int_exit, CoreInv, CoreTypeOK
  <2>3. CoreInv'
    BY <1>6, <2>1, <2>2 DEF tth_int_exit, CoreInv, CoreTypeOK, OneList,
      ListsOrdered, IdleReady, RunningIsHead
  <2>4. CoreFrame
    BY <1>6 DEF tth_int_exit, CoreFrame
  <2> QED BY <2>3, <2>4
<1> QED
  BY <1>1, <1>2, <1>3, <1>4, <1>5, <1>6 DEF CoreNext

\* The thread that runs, or is interrupted, is ready.
RunningReady == running \in ToSet(list[Ready])

\* What the invariant says of tth_ready after a step.
LEMMA ReadyQueueAfter ==
  ASSUME CoreInv'
  PROVE  /\ list'[Ready] \in Seq(Thread) /\ list'[Ready] # <<>>
         /\ Head(list'[Ready]) \in Thread /\ Head(list'[Ready]) \in ToSet(list'[Ready])
         /\ intLevel' = 0 => running' = Head(list'[Ready])
<1>1. list'[Ready] \in Seq(Thread) /\ list'[Ready] # <<>>
  BY ListNames DEF CoreInv, CoreTypeOK, IdleReady, ToSet
<1>2. Head(list'[Ready]) \in Thread /\ Head(list'[Ready]) \in ToSet(list'[Ready])
  BY <1>1, TailElements, HeadTailProperties
<1>3. HeadOf(list'[Ready]) = Head(list'[Ready])
  BY <1>1 DEF HeadOf
<1> QED BY <1>1, <1>2, <1>3 DEF CoreInv, RunningIsHead

\* The thread that runs stays ready.
LEMMA RunningStaysReady ==
  ASSUME CoreInv, CoreInv', RunningReady,
         \/ intLevel' = 0
         \/ running' = running /\ ToSet(list[Ready]) \subseteq ToSet(list'[Ready])
  PROVE  RunningReady'
BY ReadyQueueAfter DEF RunningReady

\* In a step of the scheduler, too.
LEMMA SchedulerKeepsReady ==
  ASSUME CoreInv, RunningReady, CoreNext
  PROVE  RunningReady'
<1>1. CoreInv'
  BY CoreStep
<1>2. CASE intLevel' = 0
  BY <1>1, <1>2, RunningStaysReady
<1>3. CASE intLevel' # 0
  <2>1. running' = running /\ ToSet(list[Ready]) \subseteq ToSet(list'[Ready])
    <3>1. CASE tth_int_enter \/ KeepSlice
      BY <3>1 DEF tth_int_enter, KeepSlice
    <3>2. CASE tth_sleep_tick
      <4>1. /\ Wake(Sleeping) /\ cont' = cont /\ cont' \in [Thread -> Continuation]
            /\ running' = running
        BY <3>2 DEF tth_sleep_tick, Wake, Switch, CoreInv, CoreTypeOK
      <4> QED BY <4>1, WakeFacts, CoreAssumption
    <3>3. CASE EndSlice
      <4>1. list' = Move(list, Ready, Ready) /\ running' = running
        BY <3>3 DEF EndSlice, MoveHead, Switch
      <4>2. Moved(list, list', Ready, Ready)
        BY <4>1, MoveFacts, ListNames DEF CoreInv, CoreTypeOK, ListsOK, OneList
      <4>3. ToSet(list'[Ready]) = ToSet(list[Ready])
        BY <4>2 DEF Moved
      <4> QED BY <4>1, <4>3
    <3>4. CASE sched_yield \/ usleep \/ tth_int_exit
      BY <3>4, <1>3 DEF sched_yield, usleep, tth_int_exit, Caller, UserMode, CoreInv, CoreTypeOK
    <3> QED BY <3>1, <3>2, <3>3, <3>4 DEF CoreNext, tth_int_tick
  <2> QED BY <1>1, <2>1, RunningStaysReady
<1> QED BY <1>2, <1>3

\* A call that relinks threads keeps the invariant if it keeps the lists apart
\* and in order and the idle thread ready, and switches at its end.
LEMMA RelinkFacts ==
  ASSUME CoreInv, ListsOK(list'), LinkedOnce(list'), SortedLists(list'),
         Idle \in ToSet(list'[Ready]), Switch, UNCHANGED <<intLevel, ticked>>,
         waitstate' \in [Thread -> WaitState], cont' \in [Thread -> Continuation]
  PROVE  CoreInv'
<1>1. list'[Ready] # <<>>
  BY DEF ToSet
<1>2. running' \in Thread \cup {NULL} /\ RunningIsHead'
  BY <1>1, SwitchFacts DEF CoreInv
<1> QED
  BY <1>2 DEF CoreInv, CoreTypeOK, ListsOK, OneList, ListsOrdered, SortedLists, IdleReady

\* The scheduler marks and links only threads that are ready or asleep.
LEMMA SchedulerMarks ==
  ASSUME CoreInv, CoreNext, NEW t \in Thread
  PROVE  LET Active(L) == ToSet(L[Ready]) \cup ToSet(L[Sleeping])
         IN  /\ waitstate'[t] # waitstate[t] =>
                  waitstate'[t] \in {"ready", "sleep"} /\ t \in Active(list)
             /\ t \in Active(list') => t \in Active(list)
<1> USE ListNames
<1> DEFINE Active(L) == ToSet(L[Ready]) \cup ToSet(L[Sleeping])
<1>1. ListsOK(list) /\ LinkedOnce(list) /\ list[Ready] # <<>> /\ DOMAIN waitstate = Thread
  BY RunningFacts DEF CoreInv, CoreTypeOK, ListsOK, OneList
<1>2. ASSUME NEW f \in {Ready, Sleeping}, MoveHead(f, Ready, "ready")
      PROVE  /\ waitstate'[t] # waitstate[t] => waitstate'[t] = "ready" /\ t \in Active(list)
             /\ t \in Active(list') => t \in Active(list)
  <2>1. Moved(list, list', f, Ready)
    BY <1>1, <1>2, MoveFacts DEF MoveHead
  <2>2. list[f] # <<>> => Head(list[f]) \in ToSet(list[f])
    BY <1>1, TailElements DEF ListsOK
  <2>3. waitstate'[t] # waitstate[t] =>
          list[f] # <<>> /\ t = Head(list[f]) /\ waitstate'[t] = "ready"
    BY <1>1, <1>2 DEF MoveHead, Mark
  <2>4. t \in Active(list') => t \in Active(list)
    <3>1. CASE list[f] = <<>>
      BY <2>1, <3>1 DEF Moved
    <3>2. CASE list[f] # <<>> /\ f = Ready
      <4>1. list'[Sleeping] = list[Sleeping] /\ ToSet(list'[Ready]) = ToSet(list[Ready])
        BY <2>1, <3>2 DEF Moved
      <4> QED BY <4>1
    <3>3. CASE list[f] # <<>> /\ f = Sleeping
      <4>1. /\ ToSet(list'[Ready]) = ToSet(list[Ready]) \cup {Head(list[Sleeping])}
            /\ ToSet(list'[Sleeping]) = ToSet(list[Sleeping]) \ {Head(list[Sleeping])}
        BY <2>1, <3>3 DEF Moved
      <4> QED BY <4>1, <2>2, <3>3
    <3> QED BY <3>1, <3>2, <3>3
  <2> QED BY <2>2, <2>3, <2>4
<1>3. CASE sched_yield \/ EndSlice
  BY <1>2, <1>3 DEF sched_yield, EndSlice
<1>4. CASE tth_sleep_tick
  BY <1>2, <1>4 DEF tth_sleep_tick, Wake
<1>5. CASE usleep
  <2>1. /\ running = Head(list[Ready]) /\ running \in Thread /\ running \in ToSet(list[Ready])
        /\ waitstate' = [waitstate EXCEPT ![running] = "sleep"]
    BY <1>5, RunningFacts DEF usleep, Caller, UserMode
  <2>2. PICK p \in 1..Len(list[Sleeping])+1 :
          list' = [list EXCEPT ![Ready] = Tail(@), ![Sleeping] = InsertAt(@, p, running)]
    BY <1>5 DEF usleep
  <2>3. list'[Ready] = Tail(list[Ready]) /\ list'[Sleeping] = InsertAt(list[Sleeping], p, running)
    BY <1>1, <2>2 DEF ListsOK
  <2>4. /\ ToSet(list'[Ready]) \subseteq ToSet(list[Ready])
        /\ ToSet(list'[Sleeping]) = ToSet(list[Sleeping]) \cup {running}
    BY <1>1, <2>1, <2>3, TailElements, InsertAtElements DEF ListsOK
  <2> QED BY <1>1, <2>1, <2>4
<1>6. CASE tth_int_enter \/ KeepSlice \/ tth_int_exit
  BY <1>6 DEF tth_int_enter, KeepSlice, tth_int_exit
<1> QED
  BY <1>3, <1>4, <1>5, <1>6 DEF CoreNext, tth_int_tick

-----------------------------------------------------------------------------
(* Every state *)

\* The invariant holds when main starts, whatever threads are ready then.
LEMMA CoreInitial == AllReady => CoreInv
<1> SUFFICES ASSUME NEW q \in StartQueues, CoreInit(ReadyQueues(q))
             PROVE  CoreInv
  BY DEF AllReady
<1> USE ListNames
<1> DEFINE L == ReadyQueues(q)
<1>1. q \in Seq(Thread) /\ IsInjective(q) /\ ToSet(q) = Thread /\ Ordered(q)
  <2>1. Cardinality(Thread) \in Nat
    BY CoreAssumption, FS_CardinalityType
  <2> QED BY <2>1 DEF StartQueues
<1>2. /\ L[Ready] = q /\ \A l \in Lists \ {Ready} : L[l] = <<>>
      /\ L \in [Lists -> Seq(Thread)]
  <2>1. <<>> \in Seq(Thread)
    OBVIOUS
  <2> QED BY <1>1, <2>1 DEF ReadyQueues
<1>3. q # <<>>
  BY <1>1, CoreAssumption DEF ToSet
<1>4. Head(q) \in Thread
  BY <1>1, <1>3, HeadTailProperties
<1> HIDE DEF L
<1>5. LinkedOnce(L)
  <2>1. \A a \in Lists : IsInjective(L[a])
    BY <1>1, <1>2 DEF IsInjective
  <2>2. \A a \in Lists \ {Ready} : ToSet(L[a]) = {}
    BY <1>2 DEF ToSet
  <2> QED BY <2>1, <2>2, LinkedOnceByList
<1>6. SortedLists(L)
  BY <1>1, <1>2 DEF SortedLists, Ordered
<1>7. /\ list = L /\ running = HeadOf(L[Ready]) /\ intLevel = 0 /\ ticked = FALSE
      /\ waitstate \in [Thread -> WaitState] /\ cont \in [Thread -> Continuation]
  BY DEF CoreInit, L, WaitState, User, Continuation, Ops
<1>8. CoreTypeOK
  BY <1>2, <1>3, <1>4, <1>7 DEF CoreTypeOK, HeadOf
<1>9. IdleReady
  BY <1>1, <1>2, <1>7, CoreAssumption DEF IdleReady
<1> QED
  BY <1>5, <1>6, <1>7, <1>8, <1>9
  DEF CoreInv, OneList, ListsOrdered, SortedLists, RunningIsHead

\* A step that leaves the variables of the scheduler alone.
LEMMA CoreStutter ==
  ASSUME CoreInv, UNCHANGED coreVars
  PROVE  CoreInv' /\ CoreFrame
BY DEF coreVars, CoreInv, CoreTypeOK, OneList, ListsOrdered, IdleReady,
  RunningIsHead, CoreFrame

\* However threads yield and sleep and interrupts come between, every thread
\* is linked at most once, the lists are in the order of the priorities, the
\* idle thread is ready and the head of tth_ready runs (tth_core.h).
THEOREM SchedulerCorrect == CoreSpec => []CoreInv
<1>1. AllReady => CoreInv
  BY CoreInitial
<1>2. CoreInv /\ [CoreNext]_coreVars => CoreInv'
  BY CoreStep, CoreStutter
<1> QED
  BY <1>1, <1>2, PTL DEF CoreSpec
=============================================================================
