------------------------------- MODULE Lemmas ------------------------------
(***************************************************************************)
(* What the proofs of several components need to know: of packet numbers,  *)
(* which wrap, of links, which keep messages in order, and of loops, which *)
(* do in each step something to what the step before has left. Induction   *)
(* is stated with a set, not with a predicate, and follows from the order  *)
(* of the numbers being well-founded.                                      *)
(***************************************************************************)
EXTENDS Integers, Sequences, SequenceTheorems, WellFoundedInduction, TLAPS

LEMMA ModUnique ==
    ASSUME NEW p \in Nat \ {0}, NEW q \in Nat, NEW r \in 0..(p - 1)
    PROVE  (p * q + r) % p = r
  BY SMT

LEMMA ModRange ==
    ASSUME NEW p \in Nat \ {0, 1}, NEW n \in Nat
    PROVE  n % p \in 0..(p - 1)
  BY SMT

\* The number of a packet and that of the next.
LEMMA ModNext ==
    ASSUME NEW p \in Nat \ {0, 1}, NEW n \in Nat
    PROVE  /\ ((n % p) + 1) % p = (n + 1) % p
           /\ (n + 1) % p # n % p
<1> DEFINE q == n \div p  r == n % p
<1>1. q \in Nat /\ r \in 0..(p - 1) /\ n = p * q + r
  BY SMT
<1> HIDE DEF q, r
<1>2. CASE r + 1 < p
  <2>1. r + 1 \in 0..(p - 1) /\ n + 1 = p * q + (r + 1)
    BY <1>1, <1>2
  <2>2. (n + 1) % p = r + 1
    BY <1>1, <2>1, ModUnique
  <2>3. (r + 1) % p = r + 1
    BY <1>1, <1>2
  <2> QED BY <1>1, <2>2, <2>3 DEF r
<1>3. CASE r + 1 = p
  <2>1. n + 1 = p * (q + 1) + 0
    BY <1>1, <1>3
  <2>2. (n + 1) % p = 0
    BY <1>1, <2>1, ModUnique
  <2>3. (r + 1) % p = 0
    BY <1>1, <1>3
  <2> QED BY <1>1, <1>3, <2>2, <2>3 DEF r
<1> QED BY <1>1, <1>2, <1>3

-----------------------------------------------------------------------------
\* A link that takes a message, or drops it because it is full.
LEMMA SentIs ==
    ASSUME NEW S, NEW s \in Seq(S), NEW m \in S, NEW l, l = Append(s, m) \/ l = s
    PROVE  /\ l \in Seq(S) /\ Len(l) \in {Len(s), Len(s) + 1}
           /\ \A k \in 1..Len(l) :
                 \/ k \in 1..Len(s) /\ l[k] = s[k]
                 \/ k = Len(s) + 1 /\ l[k] = m
<1>1. Len(s) \in Nat
  OBVIOUS
<1>2. /\ Append(s, m) \in Seq(S) /\ Len(Append(s, m)) = Len(s) + 1
      /\ \A k \in 1..Len(s) : Append(s, m)[k] = s[k]
      /\ Append(s, m)[Len(s) + 1] = m
  BY AppendProperties
<1>3. ASSUME l = s
      PROVE  /\ l \in Seq(S) /\ Len(l) \in {Len(s), Len(s) + 1}
             /\ \A k \in 1..Len(l) : (k \in 1..Len(s) /\ l[k] = s[k]) \/ (k = Len(s) + 1 /\ l[k] = m)
  BY <1>1, <1>3
<1>4. ASSUME l = Append(s, m)
      PROVE  /\ l \in Seq(S) /\ Len(l) \in {Len(s), Len(s) + 1}
             /\ \A k \in 1..Len(l) : (k \in 1..Len(s) /\ l[k] = s[k]) \/ (k = Len(s) + 1 /\ l[k] = m)
  <2>1. l \in Seq(S) /\ Len(l) = Len(s) + 1
    BY <1>2, <1>4
  <2>2. ASSUME NEW k \in 1..Len(l)
        PROVE  (k \in 1..Len(s) /\ l[k] = s[k]) \/ (k = Len(s) + 1 /\ l[k] = m)
    <3>1. k \in 1..Len(s) \/ k = Len(s) + 1
      BY <1>1, <2>1
    <3> QED BY <1>2, <1>4, <3>1
  <2> QED BY <1>1, <2>1, <2>2
<1> QED BY <1>3, <1>4

\* A message taken from a link.
LEMMA TailIs ==
    ASSUME NEW S, NEW s \in Seq(S), s # <<>>
    PROVE  /\ Tail(s) \in Seq(S) /\ Len(Tail(s)) = Len(s) - 1
           /\ 1 \in 1..Len(s) /\ Head(s) = s[1] /\ s[1] \in S
           /\ \A k \in 1..Len(Tail(s)) : k + 1 \in 1..Len(s) /\ Tail(s)[k] = s[k + 1]
<1>1. Len(s) \in Nat \ {0}
  BY EmptySeq
<1> QED BY <1>1, HeadTailProperties, ElementOfSeq

-----------------------------------------------------------------------------
(* Induction and loops *)

\* The least of some numbers.
LEMMA LeastOf ==
    ASSUME NEW T \in SUBSET Nat, T # {}
    PROVE  \E n \in T : \A m \in T : n <= m
<1> DEFINE R == {ss \in Nat \X Nat : ss[1] < ss[2]}
<1>1. IsWellFoundedOn(R, Nat)
  BY NatLessThanWellFounded DEF OpToRel
<1>a. \A m, n \in Nat : m < n => <<m, n>> \in R
  OBVIOUS
<1> HIDE DEF R
<1>2. PICK n \in T : \A m \in T : ~ (<<m, n>> \in R)
  BY <1>1, WFMin
<1>3. ASSUME NEW m \in T PROVE n <= m
  <2>1. m \in Nat /\ n \in Nat
    OBVIOUS
  <2>2. ~(m < n)
    BY <1>2, <1>a, <2>1
  <2> QED BY <2>1, <2>2
<1> QED BY <1>3

\* Induction: what 0 has and every number passes on to the next all have.
LEMMA Ind ==
    ASSUME NEW S, 0 \in S, \A n \in Nat : n \in S => n + 1 \in S
    PROVE  Nat \subseteq S
<1> DEFINE T == Nat \ S
<1> SUFFICES ASSUME T # {} PROVE FALSE
  OBVIOUS
<1>1. PICK n \in T : \A m \in T : n <= m
  <2> HIDE DEF T
  <2>1. T \in SUBSET Nat BY DEF T
  <2> QED BY <2>1, LeastOf
<1>2. n # 0 /\ n - 1 \in Nat
  BY <1>1
<1>3. n - 1 \in S
  BY <1>1, <1>2
<1> QED BY <1>1, <1>2, <1>3

\* f is what becomes of b when F[<<x, i>>] is made of x in step i of N.
IsRun(f, N, B, b, F) == f \in [0..N -> B] /\ f[0] = b /\ \A i \in 1..N : f[i] = F[<<f[i - 1], i>>]

\* Recursion: there is such a function.
LEMMA RunExists ==
    ASSUME NEW N \in Nat, NEW B, NEW b \in B, NEW F \in [B \X (1..N) -> B]
    PROVE  \E f : IsRun(f, N, B, b, F)
<1> DEFINE S == {n \in Nat : n <= N => \E f \in [0..n -> B] : f[0] = b /\ \A i \in 1..n : f[i] = F[<<f[i - 1], i>>]}
<1>1. 0 \in S
  <2> DEFINE f == [i \in 0..0 |-> b]
  <2>1. f \in [0..0 -> B] /\ f[0] = b /\ \A i \in 1..0 : f[i] = F[<<f[i - 1], i>>]
    OBVIOUS
  <2> QED BY <2>1
<1>2. ASSUME NEW n \in Nat, n \in S PROVE n + 1 \in S
  <2> SUFFICES ASSUME n + 1 <= N PROVE \E f \in [0..n + 1 -> B] : f[0] = b /\ \A i \in 1..n + 1 : f[i] = F[<<f[i - 1], i>>]
    OBVIOUS
  <2>1. PICK g \in [0..n -> B] : g[0] = b /\ \A i \in 1..n : g[i] = F[<<g[i - 1], i>>]
    BY <1>2
  <2> DEFINE f == [i \in 0..n + 1 |-> IF i = n + 1 THEN F[<<g[n], n + 1>>] ELSE g[i]]
  <2>2. F[<<g[n], n + 1>>] \in B
    <3>1. <<g[n], n + 1>> \in B \X (1..N)
      OBVIOUS
    <3> QED BY <3>1
  <2>3. f \in [0..n + 1 -> B]
    BY <2>2
  <2>4. \A i \in 0..n : f[i] = g[i]
    OBVIOUS
  <2>6. f[n + 1] = F[<<g[n], n + 1>>]
    OBVIOUS
  <2> HIDE DEF f
  <2>5. ASSUME NEW i \in 1..n + 1 PROVE f[i] = F[<<f[i - 1], i>>]
    <3>1. CASE i = n + 1
      BY <3>1, <2>4, <2>6
    <3>2. CASE i \in 1..n
      BY <3>2, <2>1, <2>4
    <3> QED BY <3>1, <3>2
  <2> QED BY <2>1, <2>3, <2>4, <2>5
<1> HIDE DEF S
<1>3. N \in S
  BY <1>1, <1>2, Ind
<1> QED BY <1>3 DEF S, IsRun
=============================================================================
