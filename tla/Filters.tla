------------------------------ MODULE Filters ------------------------------
(***************************************************************************)
(* Sequences with some of their elements taken out, as the hub's lists of  *)
(* connections and the store's batches of events are, and what is known of *)
(* them for every sequence.  The filter is a recursive function, so that   *)
(* the induction over the sequence is a descent to a least counterexample. *)
(***************************************************************************)
EXTENDS Integers, Sequences, SequenceTheorems, WellFoundedInduction, TLAPS

Members(s) == {s[i] : i \in DOMAIN s}

\* No member is there twice.
Once(s) == \A i, j \in DOMAIN s : s[i] = s[j] => i = j

\* What is left of s without the elements of S, in its order.
Without(s, S) ==
    LET kept[n \in 0..Len(s)] ==
          IF n = 0 THEN <<>>
          ELSE IF s[n] \in S THEN kept[n - 1] ELSE Append(kept[n - 1], s[n])
    IN  kept[Len(s)]

\* What the function in Without is at its nth step, and how it is defined up to n.
KeepStep(g, m, s, S) ==
    IF m = 0 THEN <<>> ELSE IF s[m] \in S THEN g[m - 1] ELSE Append(g[m - 1], s[m])
Keeps(g, n, s, S) == g = [m \in 0..n |-> KeepStep(g, m, s, S)]

\* A set of numbers that is not empty has a least element.
LEMMA Least ==
    ASSUME NEW T \in SUBSET Nat, T # {}
    PROVE  \E n \in T : \A m \in T : n <= m
<1>1. PICK x \in T : \A y \in T : ~(<<y, x>> \in OpToRel(<, Nat))
  BY NatLessThanWellFounded, WFMin
<1>2. ASSUME NEW m \in T, m < x PROVE FALSE
  <2>1. <<m, x>> \in OpToRel(<, Nat) BY <1>2 DEF OpToRel
  <2> QED BY <2>1, <1>1
<1>3. \A m \in T : x <= m BY <1>2
<1> QED BY <1>3

\* The recursion is well defined.
LEMMA KeepsExists ==
    ASSUME NEW s, NEW S, NEW n \in Nat
    PROVE  \E g : Keeps(g, n, s, S)
<1> DEFINE T == {m \in Nat : ~\E g : Keeps(g, m, s, S)}
<1>1. SUFFICES ASSUME T # {} PROVE FALSE
  OBVIOUS
<1>2. PICK m \in T : \A k \in T : m <= k
  BY <1>1, Least
<1>3. m \in Nat /\ ~\E g : Keeps(g, m, s, S)
  BY <1>2
<1>4. m # 0
  <2>1. Keeps([k \in 0..0 |-> <<>>], 0, s, S)
    BY DEF Keeps, KeepStep
  <2> QED BY <2>1, <1>3
<1>5. PICK g : Keeps(g, m - 1, s, S)
  <2>1. m - 1 \in Nat /\ m - 1 \notin T
    BY <1>2, <1>3, <1>4
  <2> QED BY <2>1
<1> DEFINE h == [k \in 0..m |-> IF k = m THEN KeepStep(g, m, s, S) ELSE g[k]]
<1>6. ASSUME NEW k \in 0..m PROVE h[k] = KeepStep(h, k, s, S)
  <2>1. CASE k = m
    BY <2>1, <1>3, <1>4 DEF KeepStep
  <2>2. CASE k # m
    <3>1. k \in 0..(m - 1) BY <2>2, <1>3
    <3>2. g[k] = KeepStep(g, k, s, S) BY <3>1, <1>5 DEF Keeps
    <3>3. k # 0 => h[k - 1] = g[k - 1] BY <3>1, <1>3
    <3> QED BY <3>1, <3>2, <3>3, <2>2 DEF KeepStep
  <2> QED BY <2>1, <2>2
<1>7. Keeps(h, m, s, S)
  <2> HIDE DEF KeepStep
  <2> QED BY <1>6 DEF Keeps
<1> QED BY <1>3, <1>7

\* The chosen function obeys the recursion.
LEMMA WithoutKeeps ==
    ASSUME NEW s, NEW S, Len(s) \in Nat
    PROVE  \E g : Keeps(g, Len(s), s, S) /\ Without(s, S) = g[Len(s)]
<1>1. \E g : Keeps(g, Len(s), s, S) BY KeepsExists
<1>2. Without(s, S) = (CHOOSE g : Keeps(g, Len(s), s, S))[Len(s)]
  BY DEF Without, Keeps, KeepStep
<1> QED BY <1>1, <1>2

\* Appending adds one member.
LEMMA MembersAppend ==
    ASSUME NEW D, NEW t \in Seq(D), NEW e \in D
    PROVE  Append(t, e) \in Seq(D) /\ Members(Append(t, e)) = Members(t) \cup {e}
<1>1. /\ Append(t, e) \in Seq(D)
      /\ Len(Append(t, e)) = Len(t) + 1
      /\ \A i \in 1..Len(t) : Append(t, e)[i] = t[i]
      /\ Append(t, e)[Len(t) + 1] = e
  BY AppendProperties
<1>2. DOMAIN t = 1..Len(t) /\ Len(t) \in Nat OBVIOUS
<1>3. DOMAIN Append(t, e) = 1..(Len(t) + 1) BY <1>1
<1> HIDE DEF Members
<1>4. Members(Append(t, e)) = Members(t) \cup {e}
  <2> DEFINE u == Append(t, e)
  <2>1. DOMAIN u = 1..(Len(t) + 1) /\ (\A i \in 1..Len(t) : u[i] = t[i]) /\ u[Len(t) + 1] = e
    BY <1>1, <1>3
  <2> HIDE DEF u
  <2>2. Members(u) = Members(t) \cup {e} BY <2>1, <1>2 DEF Members
  <2> QED BY <2>2 DEF u
<1> QED BY <1>1, <1>4

\* Neither does a new member make one that is there twice, nor do two sequences
\* that have none in common.
LEMMA OnceAppend ==
    ASSUME NEW D, NEW t \in Seq(D), NEW e \in D, Once(t), e \notin Members(t)
    PROVE  Once(Append(t, e))
<1> DEFINE u == Append(t, e)
<1>1. /\ DOMAIN u = 1..(Len(t) + 1) /\ Len(t) \in Nat
      /\ \A i \in 1..Len(t) : u[i] = t[i]
      /\ u[Len(t) + 1] = e
      /\ DOMAIN t = 1..Len(t)
  OBVIOUS
<1> HIDE DEF u
<1>2. \A i \in 1..Len(t) : u[i] # e BY <1>1 DEF Members
<1>3. ASSUME NEW i \in DOMAIN u, NEW j \in DOMAIN u, u[i] = u[j] PROVE i = j
  BY <1>1, <1>2, <1>3 DEF Once
<1>4. Once(u) BY <1>3 DEF Once
<1> QED BY <1>4 DEF u

LEMMA OnceConcat ==
    ASSUME NEW D, NEW s \in Seq(D), NEW t \in Seq(D), Once(s), Once(t),
           Members(s) \cap Members(t) = {}
    PROVE  Once(s \o t)
<1> DEFINE u == s \o t
<1>1. /\ Len(s) \in Nat /\ Len(t) \in Nat /\ DOMAIN u = 1..(Len(s) + Len(t))
      /\ DOMAIN s = 1..Len(s) /\ DOMAIN t = 1..Len(t)
      /\ \A i \in DOMAIN u : u[i] = IF i <= Len(s) THEN s[i] ELSE t[i - Len(s)]
  BY ConcatProperties
<1> HIDE DEF u
<1>2. ASSUME NEW i \in DOMAIN u, NEW j \in DOMAIN u, u[i] = u[j] PROVE i = j
  <2>1. ASSUME NEW k \in DOMAIN u
        PROVE  /\ k <= Len(s) => k \in DOMAIN s /\ u[k] = s[k]
               /\ ~(k <= Len(s)) => k - Len(s) \in DOMAIN t /\ u[k] = t[k - Len(s)]
    BY <1>1
  <2>2. i \in Int /\ j \in Int BY <1>1
  <2>3. CASE i <= Len(s) /\ j <= Len(s)
    <3>1. i \in DOMAIN s /\ j \in DOMAIN s /\ s[i] = s[j] BY <2>1, <2>3, <1>2
    <3> QED BY <3>1 DEF Once
  <2>4. CASE ~(i <= Len(s)) /\ ~(j <= Len(s))
    <3>1. i - Len(s) \in DOMAIN t /\ j - Len(s) \in DOMAIN t /\ t[i - Len(s)] = t[j - Len(s)]
      BY <2>1, <2>4, <1>2
    <3>2. i - Len(s) = j - Len(s) BY <3>1 DEF Once
    <3> QED BY <3>2, <2>2, <1>1
  <2>5. ASSUME NEW k \in DOMAIN u, NEW l \in DOMAIN u, k <= Len(s), ~(l <= Len(s))
        PROVE  u[k] # u[l]
    <3>1. u[k] = s[k] /\ k \in DOMAIN s /\ u[l] = t[l - Len(s)] /\ l - Len(s) \in DOMAIN t
      BY <2>1, <2>5
    <3>2. u[k] \in Members(s) /\ u[l] \in Members(t) BY <3>1 DEF Members
    <3> QED BY <3>2
  <2> QED BY <2>3, <2>4, <2>5, <1>2
<1>3. Once(u) BY <1>2 DEF Once
<1> QED BY <1>3 DEF u

\* The members of two sequences, one after the other.
LEMMA MembersConcat ==
    ASSUME NEW D, NEW s \in Seq(D), NEW t \in Seq(D)
    PROVE  s \o t \in Seq(D) /\ Members(s \o t) = Members(s) \cup Members(t)
<1> DEFINE u == s \o t
<1>1. /\ Len(s) \in Nat /\ Len(t) \in Nat /\ DOMAIN u = 1..(Len(s) + Len(t))
      /\ DOMAIN s = 1..Len(s) /\ DOMAIN t = 1..Len(t)
      /\ \A i \in DOMAIN u : u[i] = IF i <= Len(s) THEN s[i] ELSE t[i - Len(s)]
  BY ConcatProperties
<1>2. u \in Seq(D) OBVIOUS
<1> HIDE DEF u
<1>3. \A i \in DOMAIN u : u[i] \in Members(s) \cup Members(t)
  <2> TAKE i \in DOMAIN u
  <2>1. i <= Len(s) => i \in DOMAIN s BY <1>1
  <2>2. ~(i <= Len(s)) => i - Len(s) \in DOMAIN t BY <1>1
  <2> QED BY <1>1, <2>1, <2>2 DEF Members
<1>4. \A i \in DOMAIN s : i \in DOMAIN u /\ u[i] = s[i] BY <1>1
<1>5. \A i \in DOMAIN t : i + Len(s) \in DOMAIN u /\ u[i + Len(s)] = t[i]
  <2> TAKE i \in DOMAIN t
  <2>1. i + Len(s) \in DOMAIN u /\ ~(i + Len(s) <= Len(s)) /\ (i + Len(s)) - Len(s) = i BY <1>1
  <2> QED BY <1>1, <2>1
<1>6. Members(u) = Members(s) \cup Members(t) BY <1>3, <1>4, <1>5 DEF Members
<1> QED BY <1>2, <1>6 DEF u

\* Without leaves the members that are not in S, and no others, and none twice.
LEMMA WithoutMembers ==
    ASSUME NEW D, NEW s \in Seq(D), NEW S
    PROVE  /\ Without(s, S) \in Seq(D) /\ Members(Without(s, S)) = Members(s) \ S
           /\ Once(s) => Once(Without(s, S))
<1> DEFINE Good(t, n) == /\ t \in Seq(D) /\ Members(t) = {s[i] : i \in 1..n} \ S
                         /\ Once(s) => Once(t)
<1>1. PICK g : Keeps(g, Len(s), s, S) /\ Without(s, S) = g[Len(s)]
  BY WithoutKeeps
<1>2. \A n \in 0..Len(s) : g[n] = KeepStep(g, n, s, S)
  BY <1>1 DEF Keeps
<1> DEFINE T == {n \in 0..Len(s) : ~Good(g[n], n)}
<1>3. T = {}
  <2> SUFFICES ASSUME T # {} PROVE FALSE OBVIOUS
  <2>1. T \in SUBSET Nat OBVIOUS
  <2>2. PICK n \in T : \A k \in T : n <= k BY <2>1, Least
  <2>3. n \in 0..Len(s) /\ ~Good(g[n], n) BY <2>2
  <2>4. n # 0
    <3>1. g[0] = <<>> BY <1>2 DEF KeepStep
    <3>2. Members(<<>>) = {} BY DEF Members
    <3>3. Once(<<>>) BY DEF Once
    <3>4. Good(g[0], 0) BY <3>1, <3>2, <3>3
    <3> QED BY <2>3, <3>4
  <2>5. n - 1 \in 0..Len(s) /\ n - 1 \notin T 
    <3>1. n - 1 \in 0..Len(s) /\ ~(n <= n - 1) BY <2>3, <2>4
    <3> QED BY <2>2, <3>1
  <2>6. Good(g[n - 1], n - 1) BY <2>5
  <2>7. g[n] = IF s[n] \in S THEN g[n - 1] ELSE Append(g[n - 1], s[n])
    BY <1>2, <2>3, <2>4 DEF KeepStep
  <2>8. s[n] \in D BY <2>3, <2>4
  <2>9. {s[i] : i \in 1..n} = {s[i] : i \in 1..(n-1)} \cup {s[n]} BY <2>3, <2>4
  <2>10. Once(s) => s[n] \notin {s[i] : i \in 1..(n-1)}
    <3>1. \A i \in 1..(n-1) : i # n /\ i \in DOMAIN s /\ n \in DOMAIN s BY <2>3
    <3> QED BY <3>1 DEF Once
  <2>11. Members(g[n]) = {s[i] : i \in 1..n} \ S /\ g[n] \in Seq(D)
    <3> DEFINE v == g[n - 1]
    <3>1. v \in Seq(D) /\ Members(v) = {s[i] : i \in 1..(n-1)} \ S
      BY <2>6
    <3>2. g[n] = IF s[n] \in S THEN v ELSE Append(v, s[n])
      BY <2>7
    <3> HIDE DEF v
    <3>3. Append(v, s[n]) \in Seq(D) /\ Members(Append(v, s[n])) = Members(v) \cup {s[n]}
      BY <2>8, <3>1, MembersAppend
    <3>4. CASE s[n] \in S
      BY <2>9, <3>1, <3>2, <3>4
    <3>5. CASE s[n] \notin S
      BY <2>9, <3>1, <3>2, <3>3, <3>5
    <3> QED BY <3>4, <3>5
  <2>12. Once(s) => Once(g[n])
    BY <2>6, <2>7, <2>8, <2>10, OnceAppend
  <2> QED BY <2>3, <2>11, <2>12
<1>4. Good(g[Len(s)], Len(s))
  <2>1. Len(s) \in 0..Len(s) OBVIOUS
  <2> QED BY <2>1, <1>3
<1>5. Members(s) = {s[i] : i \in 1..Len(s)} BY DEF Members
<1> QED BY <1>1, <1>4, <1>5

\* One element more, and it is left out or it comes last.
LEMMA WithoutAppend ==
    ASSUME NEW D, NEW t \in Seq(D), NEW e \in D, NEW S
    PROVE  Without(Append(t, e), S) =
              IF e \in S THEN Without(t, S) ELSE Append(Without(t, S), e)
<1> DEFINE u == Append(t, e)
           n == Len(t)
<1>1. /\ n \in Nat /\ Len(u) = n + 1 /\ u[n + 1] = e
      /\ \A i \in 1..n : u[i] = t[i]
  OBVIOUS
<1> HIDE DEF u, n
<1>2. PICK g : Keeps(g, n, t, S) /\ Without(t, S) = g[n]
  BY <1>1, WithoutKeeps DEF n
<1>3. PICK h : Keeps(h, n + 1, u, S) /\ Without(u, S) = h[n + 1]
  BY <1>1, WithoutKeeps
<1>4. /\ \A m \in 0..n : g[m] = KeepStep(g, m, t, S)
      /\ \A m \in 0..(n + 1) : h[m] = KeepStep(h, m, u, S)
  BY <1>2, <1>3 DEF Keeps
<1> DEFINE T == {m \in 0..n : h[m] # g[m]}
<1>5. T = {}
  <2> SUFFICES ASSUME T # {} PROVE FALSE
    OBVIOUS
  <2>1. T \in SUBSET Nat
    OBVIOUS
  <2>2. PICK m \in T : \A k \in T : m <= k
    BY <2>1, Least
  <2>3. m \in 0..n /\ m \in 0..(n + 1) /\ h[m] # g[m]
    BY <1>1, <2>2
  <2>4. g[m] = KeepStep(g, m, t, S) /\ h[m] = KeepStep(h, m, u, S)
    BY <1>4, <2>3
  <2>5. m # 0 => m - 1 \in 0..n /\ ~(m <= m - 1) /\ u[m] = t[m]
    BY <1>1, <2>3
  <2>6. m # 0 => h[m - 1] = g[m - 1]
    BY <2>2, <2>5
  <2> QED
    BY <2>3, <2>4, <2>5, <2>6 DEF KeepStep
<1>6. h[n] = g[n]
  <2>1. n \in 0..n
    BY <1>1
  <2> QED
    BY <1>5, <2>1
<1>7. h[n + 1] = KeepStep(h, n + 1, u, S) /\ n + 1 # 0 /\ (n + 1) - 1 = n
  <2>1. n + 1 \in 0..(n + 1)
    BY <1>1
  <2> QED
    BY <1>1, <1>4, <2>1
<1> QED
  BY <1>1, <1>2, <1>3, <1>6, <1>7 DEF KeepStep, u

LEMMA WithoutEmpty ==
    ASSUME NEW S
    PROVE  Without(<<>>, S) = <<>>
<1>1. Len(<<>>) = 0
  OBVIOUS
<1>2. PICK g : Keeps(g, 0, <<>>, S) /\ Without(<<>>, S) = g[0]
  BY <1>1, WithoutKeeps
<1> QED
  BY <1>2 DEF Keeps, KeepStep

\* Nothing is left of a sequence that is in S, and so of none else.
LEMMA WithoutAll ==
    ASSUME NEW D, NEW s \in Seq(D), NEW S, Members(s) \subseteq S
    PROVE  Without(s, S) = <<>>
<1>1. Without(s, S) \in Seq(D) /\ Members(Without(s, S)) = {}
  BY WithoutMembers
<1> DEFINE w == Without(s, S)
<1> HIDE DEF w
<1>2. w \in Seq(D) /\ \A i \in DOMAIN w : FALSE
  BY <1>1 DEF Members, w
<1>3. Len(w) = 0
  <2>1. Len(w) \in Nat /\ 1 \notin DOMAIN w /\ DOMAIN w = 1..Len(w)
    BY <1>2
  <2> QED
    BY <2>1
<1>4. w = <<>>
  BY <1>2, <1>3, EmptySeq
<1> QED
  BY <1>4 DEF w

LEMMA ConcatAppend ==
    ASSUME NEW D, NEW s \in Seq(D), NEW t \in Seq(D), NEW e \in D
    PROVE  s \o Append(t, e) = Append(s \o t, e)
OBVIOUS

\* Two sequences, one after the other.
LEMMA WithoutConcat ==
    ASSUME NEW D, NEW s \in Seq(D), NEW t \in Seq(D), NEW S
    PROVE  Without(s \o t, S) = Without(s, S) \o Without(t, S)
<1> DEFINE w == Without(s, S)
           to(n) == SubSeq(t, 1, n)
           Splits(n) == Without(s \o to(n), S) = w \o Without(to(n), S)
           T == {n \in 0..Len(t) : ~Splits(n)}
<1>1. w \in Seq(D)
  BY WithoutMembers
<1>2. T = {}
  <2> SUFFICES ASSUME T # {} PROVE FALSE
    OBVIOUS
  <2>1. T \in SUBSET Nat
    OBVIOUS
  <2>2. PICK n \in T : \A k \in T : n <= k
    BY <2>1, Least
  <2>3. n \in 0..Len(t) /\ ~Splits(n)
    BY <2>2
  <2>4. n # 0
    <3>1. to(0) = <<>>
      BY SubSeqEmpty
    <3> HIDE DEF to, w
    <3>2. Splits(0)
      BY <1>1, <3>1, WithoutEmpty, ConcatEmptySeq DEF w
    <3> QED
      BY <2>3, <3>2
  <2>5. n - 1 \in 0..Len(t) /\ Splits(n - 1)
    <3>1. n - 1 \in 0..Len(t) /\ ~(n <= n - 1)
      BY <2>3, <2>4
    <3> QED
      BY <2>2, <3>1
  <2>6. to(n - 1) \in Seq(D) /\ t[n] \in D
    <3>1. \A i \in 1..(n - 1) : t[i] \in D
      BY <2>3
    <3> QED
      BY <2>3, <2>4, <3>1, SubSeqProperties
  <2>7. to(n) = Append(to(n - 1), t[n])
    <3>1. 1 \in 1..Len(t) /\ n \in 1..Len(t)
      BY <2>3, <2>4
    <3>2. to(n) = to(n - 1) \o <<t[n]>>
      BY <3>1, SubSeqRecursiveSecond
    <3> HIDE DEF to
    <3> QED
      BY <2>6, <3>2, AppendIsConcat
  <2> DEFINE v == to(n - 1)
             e == t[n]
  <2>8. v \in Seq(D) /\ e \in D /\ to(n) = Append(v, e) /\ Without(s \o v, S) = w \o Without(v, S)
    BY <2>5, <2>6, <2>7
  <2> HIDE DEF w, v, e
  <2>9. s \o v \in Seq(D) /\ s \o Append(v, e) = Append(s \o v, e)
    BY <2>8, ConcatAppend
  <2>10. Without(v, S) \in Seq(D)
    BY <2>8, WithoutMembers
  <2>11. w \o Append(Without(v, S), e) = Append(w \o Without(v, S), e)
    <3>1. \A a, b \in Seq(D) : a \o Append(b, e) = Append(a \o b, e)
      BY <2>8, ConcatAppend
    <3> QED
      BY <1>1, <2>10, <3>1
  <2>12. Without(s \o Append(v, e), S) =
            IF e \in S THEN Without(s \o v, S) ELSE Append(Without(s \o v, S), e)
    <3>1. \A sv \in Seq(D) : Without(Append(sv, e), S) =
                                 IF e \in S THEN Without(sv, S) ELSE Append(Without(sv, S), e)
      BY <2>8, WithoutAppend
    <3> QED
      BY <2>9, <3>1
  <2>13. Without(Append(v, e), S) = IF e \in S THEN Without(v, S) ELSE Append(Without(v, S), e)
    BY <2>8, WithoutAppend
  <2> HIDE DEF to
  <2>14. Splits(n)
    BY <2>8, <2>11, <2>12, <2>13
  <2> QED
    BY <2>3, <2>14
<1>3. Splits(Len(t))
  <2>1. Len(t) \in 0..Len(t)
    OBVIOUS
  <2> QED
    BY <1>2, <2>1
<1>4. to(Len(t)) = t
  BY SubSeqFull
<1> QED
  BY <1>3, <1>4
=============================================================================
