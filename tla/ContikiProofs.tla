--------------------------- MODULE ContikiProofs ---------------------------
(***************************************************************************)
(* What the list and queue operations of Contiki do to the set of elements *)
(* of a list and to its order.                                             *)
(***************************************************************************)
EXTENDS Contiki, TLAPS

\* The list that list_init makes has no elements.
LEMMA EmptyList ==
  ASSUME NEW S
  PROVE  <<>> \in Seq(S) /\ ToSet(<<>>) = {} /\ IsInjective(<<>>)
BY DEF ToSet, IsInjective

\* list_add puts one element more in the list, and keeps it free of repetitions
\* if that element was not there.
LEMMA AppendElements ==
  ASSUME NEW S, NEW q \in Seq(S), NEW x \in S
  PROVE  /\ Append(q, x) \in Seq(S)
         /\ Append(q, x) # <<>>
         /\ ToSet(Append(q, x)) = ToSet(q) \cup {x}
         /\ IsInjective(q) /\ x \notin ToSet(q) => IsInjective(Append(q, x))
         /\ q # <<>> => Head(Append(q, x)) = Head(q)
<1> DEFINE a == Append(q, x)
<1>1. /\ a \in Seq(S) /\ Len(a) = Len(q) + 1 /\ DOMAIN a = 1..(Len(q) + 1)
      /\ DOMAIN q = 1..Len(q) /\ Len(q) \in Nat
  OBVIOUS
<1>2. \A i \in 1..Len(q) : a[i] = q[i]
  OBVIOUS
<1>3. a[Len(q) + 1] = x
  OBVIOUS
<1>4. ToSet(a) = ToSet(q) \cup {x}
  <2>1. \A i \in DOMAIN a : i \in DOMAIN q \/ i = Len(q) + 1
    BY <1>1
  <2>2. DOMAIN q \subseteq DOMAIN a /\ Len(q) + 1 \in DOMAIN a
    BY <1>1
  <2> HIDE DEF a
  <2> QED
    BY <2>1, <2>2, <1>1, <1>2, <1>3 DEF ToSet
<1>5. IsInjective(q) /\ x \notin ToSet(q) => IsInjective(a)
  <2> HIDE DEF a
  <2> QED
    BY <1>1, <1>2, <1>3 DEF IsInjective, ToSet
<1>6. q # <<>> => Head(a) = Head(q)
  BY <1>1, <1>2
<1>7. a # <<>>
  BY <1>1
<1> QED
  BY <1>1, <1>4, <1>5, <1>6, <1>7

\* list_pop takes the head, and only the head, out of the list.
LEMMA TailElements ==
  ASSUME NEW S, NEW q \in Seq(S), q # <<>>
  PROVE  /\ Tail(q) \in Seq(S)
         /\ Head(q) \in ToSet(q)
         /\ Head(q) \in S
         /\ IsInjective(q) => /\ ToSet(Tail(q)) = ToSet(q) \ {Head(q)}
                              /\ IsInjective(Tail(q))
<1> DEFINE t == Tail(q)
<1>1. /\ t \in Seq(S) /\ Len(t) = Len(q) - 1 /\ DOMAIN t = 1..(Len(q) - 1)
      /\ DOMAIN q = 1..Len(q) /\ Len(q) \in Nat \ {0} /\ Head(q) = q[1]
  OBVIOUS
<1>2. \A i \in 1..(Len(q) - 1) : t[i] = q[i + 1]
  OBVIOUS
<1>3. Head(q) \in ToSet(q) /\ Head(q) \in S
  <2>1. 1 \in DOMAIN q
    BY <1>1
  <2> QED
    BY <1>1, <2>1 DEF ToSet
<1>4. ASSUME IsInjective(q) PROVE ToSet(t) = ToSet(q) \ {Head(q)}
  <2> HIDE DEF t
  <2>1. ASSUME NEW y \in ToSet(t) PROVE y \in ToSet(q) \ {Head(q)}
    <3>1. PICK i \in 1..(Len(q) - 1) : y = t[i]
      BY <1>1 DEF ToSet
    <3>2. y = q[i + 1] /\ i + 1 \in DOMAIN q /\ 1 \in DOMAIN q /\ i + 1 # 1
      BY <1>1, <1>2, <3>1
    <3> QED
      BY <1>1, <1>4, <3>2 DEF ToSet, IsInjective
  <2>2. ASSUME NEW y \in ToSet(q) \ {Head(q)} PROVE y \in ToSet(t)
    <3>1. PICK i \in DOMAIN q : y = q[i]
      BY DEF ToSet
    <3>2. i - 1 \in 1..(Len(q) - 1) /\ i = (i - 1) + 1
      BY <1>1, <2>2, <3>1
    <3>3. t[i - 1] = y /\ i - 1 \in DOMAIN t
      BY <1>1, <1>2, <3>1, <3>2
    <3> QED
      BY <3>3 DEF ToSet
  <2> QED
    BY <2>1, <2>2
<1>5. ASSUME IsInjective(q) PROVE IsInjective(t)
  <2> HIDE DEF t
  <2> SUFFICES ASSUME NEW i \in DOMAIN t, NEW j \in DOMAIN t, t[i] = t[j]
               PROVE  i = j
    BY DEF IsInjective
  <2>1. i + 1 \in DOMAIN q /\ j + 1 \in DOMAIN q /\ q[i + 1] = q[j + 1]
    BY <1>1, <1>2
  <2>2. i + 1 = j + 1
    BY <1>5, <2>1 DEF IsInjective
  <2> QED
    BY <1>1, <2>2
<1> QED
  BY <1>1, <1>3, <1>4, <1>5

\* list_remove takes one element out of a list without repetitions, and does
\* not disturb the head unless it is the head.
LEMMA RemoveElements ==
  ASSUME NEW S, NEW q \in Seq(S), IsInjective(q), NEW s \in ToSet(q)
  PROVE  /\ list_remove(q, s) \in Seq(S)
         /\ ToSet(list_remove(q, s)) = ToSet(q) \ {s}
         /\ IsInjective(list_remove(q, s))
         /\ s # Head(q) => /\ list_remove(q, s) # <<>>
                           /\ Head(list_remove(q, s)) = Head(q)
<1> DEFINE k == CHOOSE k \in 1..Len(q) : q[k] = s
           t == [n \in 1..(Len(q) - 1) |-> IF n < k THEN q[n] ELSE q[n + 1]]
<1>1. DOMAIN q = 1..Len(q) /\ Len(q) \in Nat
  OBVIOUS
<1>2. k \in 1..Len(q) /\ q[k] = s
  <2>1. \E n \in 1..Len(q) : q[n] = s
    BY <1>1 DEF ToSet
  <2> QED
    BY <2>1
<1>3. list_remove(q, s) = t
  BY DEF list_remove
<1> HIDE DEF k
<1>4. \A n \in 1..(Len(q) - 1) :
        /\ t[n] = IF n < k THEN q[n] ELSE q[n + 1]
        /\ n \in 1..Len(q) /\ n + 1 \in 1..Len(q)
  BY <1>1
<1>5. t \in Seq(S) /\ Len(t) = Len(q) - 1 /\ DOMAIN t = 1..(Len(q) - 1)
  <2>1. \A n \in 1..(Len(q) - 1) : t[n] \in S
    BY <1>1, <1>4
  <2>2. Len(q) - 1 \in Nat
    BY <1>1, <1>2
  <2>3. t \in [1..(Len(q) - 1) -> S]
    BY <2>1
  <2> QED
    BY <2>2, <2>3
<1> HIDE DEF t
<1>6. ASSUME NEW y \in ToSet(t) PROVE y \in ToSet(q) \ {s}
  <2>1. PICK n \in 1..(Len(q) - 1) : y = t[n]
    BY <1>5 DEF ToSet
  <2>2. PICK j \in DOMAIN q : y = q[j] /\ j # k
    BY <1>1, <1>2, <1>4, <2>1
  <2> QED
    BY <1>1, <1>2, <2>2 DEF ToSet, IsInjective
<1>7. ASSUME NEW y \in ToSet(q) \ {s} PROVE y \in ToSet(t)
  <2>1. PICK j \in DOMAIN q : y = q[j] /\ j # k
    BY <1>2, <1>7 DEF ToSet
  <2>2. PICK n \in 1..(Len(q) - 1) : t[n] = y
    <3>1. CASE j < k
      <4>1. j \in 1..(Len(q) - 1) /\ t[j] = y
        BY <1>1, <1>2, <1>4, <2>1, <3>1
      <4> QED
        BY <4>1
    <3>2. CASE j > k
      <4>1. j - 1 \in 1..(Len(q) - 1) /\ ~(j - 1 < k) /\ (j - 1) + 1 = j
        BY <1>1, <1>2, <2>1, <3>2
      <4>2. t[j - 1] = y
        BY <1>4, <2>1, <4>1
      <4> QED
        BY <4>1, <4>2
    <3> QED
      BY <1>1, <1>2, <2>1, <3>1, <3>2
  <2> QED
    BY <1>5, <2>2 DEF ToSet
<1>8. IsInjective(t)
  <2> SUFFICES ASSUME NEW i \in 1..(Len(q) - 1), NEW j \in 1..(Len(q) - 1),
                      t[i] = t[j]
               PROVE  i = j
    BY <1>5 DEF IsInjective
  <2> DEFINE at(n) == IF n < k THEN n ELSE n + 1
  <2>1. /\ at(i) \in DOMAIN q /\ at(j) \in DOMAIN q
        /\ q[at(i)] = t[i] /\ q[at(j)] = t[j]
    BY <1>1, <1>4
  <2>2. at(i) = at(j)
    BY <2>1 DEF IsInjective
  <2> QED
    BY <1>2, <2>2
<1>9. ASSUME s # Head(q) PROVE t # <<>> /\ Head(t) = Head(q)
  <2>1. Head(q) = q[1]
    BY <1>1, <1>2
  <2>2. 1 < k /\ 1 \in 1..(Len(q) - 1)
    BY <1>1, <1>2, <1>9, <2>1
  <2>3. t[1] = q[1]
    BY <1>4, <2>2
  <2> QED
    BY <1>5, <2>1, <2>2, <2>3
<1> QED
  BY <1>3, <1>5, <1>6, <1>7, <1>8, <1>9

\* process_post keeps the event queue a sequence of events.
LEMMA PostType ==
  ASSUME NEW E, NEW q \in Seq(E), NEW e \in E, NEW c
  PROVE  Post(q, e) \in Seq(E) /\ PostIf(c, q, e) \in Seq(E)
BY DEF Post, PostIf
============================================================================
