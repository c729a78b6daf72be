----------------------------- MODULE SetupProofs -----------------------------
(***************************************************************************)
(* What Setup promises, proved for any set of files, any aliases, and any  *)
(* number of dials, queries and publishes: --clear-discovery blanks all    *)
(* that a daemon retained at the broker; the state that is taken for a     *)
(* unit is that of the unit systemd has under its name; the polkit rule    *)
(* allows the units of the system manager and no other; every entity of    *)
(* Home Assistant is fed and heard, and its commands reach the unit, or    *)
(* the option, they were made for; no two entities have the same id.       *)
(*                                                                         *)
(* A file is a sequence of units and templates of any length, so the       *)
(* lookups in it are recursive functions and what they return needs an     *)
(* induction.  The least counterexample of a well-founded order takes the  *)
(* place of an induction rule.                                             *)
(***************************************************************************)
EXTENDS Setup, TLAPS, FiniteSetTheorems, SequenceTheorems, WellFoundedInduction

-----------------------------------------------------------------------------
(* Going through a sequence: Those and FlattenSeq *)

\* A set of natural numbers that is not empty has a least one.
LEMMA LeastExists ==
    ASSUME NEW S \in SUBSET Nat, S # {}
    PROVE  \E x \in S : \A y \in S : x <= y
<1>1. PICK x \in S : \A y \in S : ~(<<y, x>> \in OpToRel(<, Nat))
  BY NatLessThanWellFounded, WFMin
<1>2. \A y \in S : ~(y < x)
  BY <1>1 DEF OpToRel
<1> QED
  BY <1>2

\* The step of Those.
Kept(s, T, before, i) == IF s[i] \in T THEN Append(before, s[i]) ELSE before

\* The function by which Those is defined exists.
LEMMA ThoseDefined ==
    ASSUME NEW A, NEW s \in Seq(A), NEW T
    PROVE  \E f : /\ f = [i \in 0 .. Len(s) |-> IF i = 0 THEN <<>> ELSE Kept(s, T, f[i - 1], i)]
                  /\ Those(s, T) = f[Len(s)]
<1> DEFINE Defines(f, n) ==
             f = [i \in 0 .. n |-> IF i = 0 THEN <<>> ELSE Kept(s, T, f[i - 1], i)]
           Bad == {n \in Nat : ~\E f : Defines(f, n)}
<1>1. Bad = {}
  <2>1. SUFFICES ASSUME Bad # {} PROVE FALSE
    OBVIOUS
  <2>2. PICK n \in Bad : \A m \in Bad : n <= m
    BY <2>1, LeastExists
  <2>3. n \in Nat /\ ~\E f : Defines(f, n)
    BY <2>2
  <2>4. CASE n = 0
    <3>1. Defines([i \in 0 .. 0 |-> <<>>], 0)
      OBVIOUS
    <3> QED
      BY <2>3, <2>4, <3>1
  <2>5. CASE n # 0
    <3>1. n - 1 \in Nat /\ n - 1 \notin Bad
      <4>1. n - 1 \in Nat /\ ~(n <= n - 1)
        BY <2>3, <2>5
      <4> HIDE DEF Bad
      <4> QED
        BY <2>2, <4>1
    <3>2. PICK f : Defines(f, n - 1)
      BY <3>1
    <3> DEFINE g == [i \in 0 .. n |-> IF i = n THEN Kept(s, T, f[n - 1], n) ELSE f[i]]
    <3>3. \A i \in 0 .. n - 1 : g[i] = f[i]
      BY <2>3
    <3>4. \A i \in 0 .. n - 1 : f[i] = IF i = 0 THEN <<>> ELSE Kept(s, T, f[i - 1], i)
      BY <3>2
    <3>5. \A i \in 0 .. n : g[i] = IF i = 0 THEN <<>> ELSE Kept(s, T, g[i - 1], i)
      <4>1. TAKE i \in 0 .. n
      <4>2. CASE i = n
        BY <2>3, <2>5, <3>3, <4>2
      <4>3. CASE i # n /\ i # 0
        <5>1. i \in 0 .. n - 1 /\ i - 1 \in 0 .. n - 1
          BY <2>3, <4>3
        <5> HIDE DEF g
        <5> QED
          BY <3>3, <3>4, <5>1, <4>3
      <4>4. CASE i = 0
        BY <2>3, <2>5, <3>3, <3>4, <4>4
      <4> QED
        BY <4>2, <4>3, <4>4
    <3>6. Defines(g, n)
      BY <3>5
    <3> QED
      BY <2>3, <3>6
  <2> QED
    BY <2>4, <2>5
<1>2. Len(s) \in Nat
  BY LenProperties
<1>3. \E f : Defines(f, Len(s))
  BY <1>1, <1>2
<1> DEFINE h == CHOOSE f : Defines(f, Len(s))
<1>4. Defines(h, Len(s))
  BY <1>3
<1>5. Those(s, T) = h[Len(s)]
  BY DEF Those, Kept
<1> QED
  BY <1>4, <1>5

\* What Those has when it has gone through the first n elements.
Through(s, T, r, n) ==
    /\ r \in Seq(ToSet(s) \cap T) /\ Len(r) <= n
    /\ \A i \in 1 .. n : s[i] \in T => \E j \in 1 .. Len(r) : r[j] = s[i]
    /\ Len(r) = n => \A i \in 1 .. n : r[i] = s[i]
    /\ (\A i \in 1 .. n : s[i] \in T) => Len(r) = n
    /\ \A i, j \in 1 .. Len(r) : r[i] = r[j] /\ i # j =>
         \E k, l \in 1 .. n : k # l /\ s[k] = r[i] /\ s[l] = r[i]
    /\ \A i \in 1 .. Len(r) : \E k \in 1 .. n : s[k] = r[i]

\* One element more.
LEMMA ThroughOneMore ==
    ASSUME NEW A, NEW s \in Seq(A), NEW T, NEW n \in 1 .. Len(s), NEW r, Through(s, T, r, n - 1)
    PROVE  Through(s, T, Kept(s, T, r, n), n)
<1>1. /\ r \in Seq(ToSet(s) \cap T) /\ Len(r) \in Nat /\ Len(r) <= n - 1
      /\ n \in Nat /\ n - 1 \in Nat /\ n \in DOMAIN s
  BY LenProperties DEF Through
<1>2. CASE s[n] \notin T
  <2>1. Kept(s, T, r, n) = r
    BY <1>2 DEF Kept
  <2>2. Len(r) <= n /\ Len(r) # n
    BY <1>1
  <2>3. \A i \in 1 .. n : s[i] \in T => i \in 1 .. n - 1
    BY <1>1, <1>2
  <2>4. 1 .. n - 1 \subseteq 1 .. n /\ n \in 1 .. n
    BY <1>1
  <2> QED
    BY <1>1, <1>2, <2>1, <2>2, <2>3, <2>4 DEF Through
<1>3. CASE s[n] \in T
  <2> DEFINE q == Append(r, s[n])
  <2>1. Kept(s, T, r, n) = q
    BY <1>3 DEF Kept
  <2>2. s[n] \in ToSet(s) \cap T
    BY <1>1, <1>3 DEF ToSet
  <2>3. /\ q \in Seq(ToSet(s) \cap T) /\ Len(q) = Len(r) + 1 /\ q[Len(r) + 1] = s[n]
        /\ \A i \in 1 .. Len(r) : q[i] = r[i]
    BY <1>1, <2>2, AppendProperties
  <2> HIDE DEF q
  <2>4. \A i \in 1 .. Len(q) : i = Len(q) \/ i \in 1 .. Len(r)
    BY <1>1, <2>3
  <2>5. \A i \in 1 .. n : i = n \/ i \in 1 .. n - 1
    BY <1>1
  <2>6. /\ Len(r) + 1 \in 1 .. Len(q) /\ 1 .. Len(r) \subseteq 1 .. Len(q)
        /\ 1 .. n - 1 \subseteq 1 .. n
        /\ n \in 1 .. n /\ n \notin 1 .. n - 1
    BY <1>1, <2>3
  <2>7. \A i \in 1 .. n : s[i] \in T => \E j \in 1 .. Len(q) : q[j] = s[i]
    BY <2>3, <2>5, <2>6 DEF Through
  <2>8. Len(q) <= n /\ (Len(q) = n <=> Len(r) = n - 1)
    BY <1>1, <2>3
  <2>9. Len(q) = n => \A i \in 1 .. n : q[i] = s[i]
    BY <1>1, <2>3, <2>5, <2>8 DEF Through
  <2>10. (\A i \in 1 .. n : s[i] \in T) => Len(q) = n
    BY <2>6, <2>8 DEF Through
  <2>11. \A i \in 1 .. Len(q) : \E k \in 1 .. n : s[k] = q[i]
    <3>1. TAKE i \in 1 .. Len(q)
    <3>2. CASE i = Len(q)
      BY <2>3, <2>6, <3>2
    <3>3. CASE i \in 1 .. Len(r)
      <4>1. PICK k \in 1 .. n - 1 : s[k] = r[i]
        BY <3>3 DEF Through
      <4>2. k \in 1 .. n
        BY <2>6
      <4> QED
        BY <2>3, <3>3, <4>1, <4>2
    <3> QED
      BY <2>4, <3>2, <3>3
  <2>12. ASSUME NEW i \in 1 .. Len(q), NEW j \in 1 .. Len(q), q[i] = q[j], i # j
         PROVE  \E k, l \in 1 .. n : k # l /\ s[k] = q[i] /\ s[l] = q[i]
    <3>1. CASE i \in 1 .. Len(r) /\ j \in 1 .. Len(r)
      <4>1. r[i] = r[j] /\ i # j /\ q[i] = r[i]
        BY <2>3, <2>12, <3>1
      <4>2. PICK k \in 1 .. n - 1, l \in 1 .. n - 1 : k # l /\ s[k] = r[i] /\ s[l] = r[i]
        BY <3>1, <4>1 DEF Through
      <4>3. k \in 1 .. n /\ l \in 1 .. n
        BY <2>6
      <4> QED
        BY <4>1, <4>2, <4>3
    <3>2. CASE i \in 1 .. Len(r) /\ j = Len(q)
      <4>1. PICK k \in 1 .. n - 1 : s[k] = r[i]
        BY <3>2 DEF Through
      <4> QED
        BY <2>3, <2>6, <2>12, <3>2, <4>1
    <3>3. CASE j \in 1 .. Len(r) /\ i = Len(q)
      <4>1. PICK k \in 1 .. n - 1 : s[k] = r[j]
        BY <3>3 DEF Through
      <4> QED
        BY <2>3, <2>6, <2>12, <3>3, <4>1
    <3> QED
      BY <2>4, <2>12, <3>1, <3>2, <3>3
  <2> QED
    BY <2>1, <2>3, <2>7, <2>8, <2>9, <2>10, <2>11, <2>12 DEF Through
<1> QED
  BY <1>2, <1>3

\* All of it.
LEMMA ThoseThrough ==
    ASSUME NEW A, NEW s \in Seq(A), NEW T
    PROVE  Through(s, T, Those(s, T), Len(s))
<1>1. PICK f : /\ f = [i \in 0 .. Len(s) |-> IF i = 0 THEN <<>> ELSE Kept(s, T, f[i - 1], i)]
               /\ Those(s, T) = f[Len(s)]
  BY ThoseDefined
<1>2. Len(s) \in Nat
  BY LenProperties
<1> DEFINE Bad == {n \in 0 .. Len(s) : ~Through(s, T, f[n], n)}
<1>3. Bad = {}
  <2>1. SUFFICES ASSUME Bad # {} PROVE FALSE
    OBVIOUS
  <2>2. Bad \in SUBSET Nat
    BY <1>2
  <2>3. PICK n \in Bad : \A m \in Bad : n <= m
    BY <2>1, <2>2, LeastExists
  <2>4. n \in 0 .. Len(s) /\ ~Through(s, T, f[n], n)
    BY <2>3
  <2>5. CASE n = 0
    <3>1. f[0] = <<>>
      BY <1>1, <1>2
    <3>2. <<>> \in Seq(ToSet(s) \cap T) /\ Len(<<>>) = 0 /\ 1 .. 0 = {}
      BY EmptySeq
    <3>3. Through(s, T, <<>>, 0)
      BY <3>2 DEF Through
    <3> QED
      BY <2>4, <2>5, <3>1, <3>3
  <2>6. CASE n # 0
    <3>1. n \in 1 .. Len(s) /\ n - 1 \in 0 .. Len(s) /\ ~(n <= n - 1)
      BY <1>2, <2>4, <2>6
    <3>2. n - 1 \notin Bad
      <4> HIDE DEF Bad
      <4> QED
        BY <2>3, <3>1
    <3>3. Through(s, T, f[n - 1], n - 1)
      BY <3>1, <3>2
    <3>4. f[n] = Kept(s, T, f[n - 1], n)
      BY <1>1, <2>4, <2>6
    <3> QED
      BY <2>4, <3>1, <3>3, <3>4, ThroughOneMore
  <2> QED
    BY <2>5, <2>6
<1>4. Len(s) \in 0 .. Len(s)
  BY <1>2
<1> QED
  BY <1>1, <1>3, <1>4

-----------------------------------------------------------------------------
\* What FlattenSeq has when it has gone through the first n sequences.
Joined(seqs, r, n) ==
    /\ \A p \in 1 .. Len(r) :
         \E k \in 1 .. n : \E i \in 1 .. Len(seqs[k]) : r[p] = seqs[k][i]
    /\ \A k \in 1 .. n : \E d \in Nat : \A i \in 1 .. Len(seqs[k]) :
         d + i \in 1 .. Len(r) /\ r[d + i] = seqs[k][i]
    /\ \A p, q \in 1 .. Len(r) : p # q =>
         \E k, l \in 1 .. n : \E i \in 1 .. Len(seqs[k]) : \E j \in 1 .. Len(seqs[l]) :
           (k # l \/ i # j) /\ r[p] = seqs[k][i] /\ r[q] = seqs[l][j]

\* One sequence more.
LEMMA JoinedOneMore ==
    ASSUME NEW A, NEW seqs \in Seq(Seq(A)), NEW n \in Nat, n + 1 \in 1 .. Len(seqs),
           NEW r \in Seq(A), Joined(seqs, r, n)
    PROVE  r \o seqs[n + 1] \in Seq(A) /\ Joined(seqs, r \o seqs[n + 1], n + 1)
<1> DEFINE q == r \o seqs[n + 1]
           next == seqs[n + 1]
<1>1. next \in Seq(A) /\ Len(r) \in Nat /\ Len(next) \in Nat
  BY LenProperties, ElementOfSeq
<1>2. /\ q \in Seq(A) /\ Len(q) = Len(r) + Len(next)
      /\ \A i \in 1 .. Len(q) : q[i] = IF i <= Len(r) THEN r[i] ELSE next[i - Len(r)]
  BY <1>1, ConcatProperties
<1>3. /\ n + 1 \in 1 .. n + 1 /\ 1 .. n \subseteq 1 .. n + 1
      /\ \A k \in 1 .. n + 1 : k = n + 1 \/ k \in 1 .. n
  OBVIOUS
<1> HIDE DEF q
<1>4. ASSUME NEW p \in 1 .. Len(q)
      PROVE  \E k \in 1 .. n + 1 : \E i \in 1 .. Len(seqs[k]) : q[p] = seqs[k][i]
  <2>1. CASE p <= Len(r)
    <3>1. p \in 1 .. Len(r) /\ q[p] = r[p]
      BY <1>1, <1>2, <2>1
    <3>2. PICK k \in 1 .. n : \E i \in 1 .. Len(seqs[k]) : r[p] = seqs[k][i]
      BY <3>1 DEF Joined
    <3> QED
      BY <1>3, <3>1, <3>2
  <2>2. CASE ~(p <= Len(r))
    <3>1. q[p] = next[p - Len(r)]
      BY <1>2, <2>2
    <3>2. p - Len(r) \in 1 .. Len(next)
      BY <1>1, <1>2, <2>2
    <3> QED
      BY <1>3, <3>1, <3>2
  <2> QED
    BY <2>1, <2>2
<1>5. ASSUME NEW k \in 1 .. n + 1
      PROVE  \E d \in Nat : \A i \in 1 .. Len(seqs[k]) :
               d + i \in 1 .. Len(q) /\ q[d + i] = seqs[k][i]
  <2>1. CASE k \in 1 .. n
    <3>1. PICK d \in Nat : \A i \in 1 .. Len(seqs[k]) :
            d + i \in 1 .. Len(r) /\ r[d + i] = seqs[k][i]
      BY <2>1 DEF Joined
    <3>2. \A j \in 1 .. Len(r) : j \in 1 .. Len(q) /\ q[j] = r[j]
      BY <1>1, <1>2
    <3> QED
      BY <3>1, <3>2
  <2>2. CASE k = n + 1
    <3>1. \A i \in 1 .. Len(next) : Len(r) + i \in 1 .. Len(q) /\ q[Len(r) + i] = next[i]
      <4>1. TAKE i \in 1 .. Len(next)
      <4>2. /\ Len(r) + i \in 1 .. Len(q) /\ ~(Len(r) + i <= Len(r))
            /\ Len(r) + i - Len(r) = i
        BY <1>1, <1>2
      <4> QED
        BY <1>2, <4>2
    <3> QED
      BY <1>1, <2>2, <3>1
  <2> QED
    BY <1>3, <2>1, <2>2
<1>6. ASSUME NEW a \in 1 .. Len(q), NEW b \in 1 .. Len(q), a # b
      PROVE  \E k, l \in 1 .. n + 1 :
               \E i \in 1 .. Len(seqs[k]) : \E j \in 1 .. Len(seqs[l]) :
                 (k # l \/ i # j) /\ q[a] = seqs[k][i] /\ q[b] = seqs[l][j]
  <2>1. \A x \in 1 .. Len(q) :
          \/ x \in 1 .. Len(r) /\ q[x] = r[x]
          \/ x - Len(r) \in 1 .. Len(next) /\ q[x] = next[x - Len(r)] /\ x \notin 1 .. Len(r)
    <3>1. TAKE x \in 1 .. Len(q)
    <3>2. CASE x <= Len(r)
      BY <1>1, <1>2, <3>2
    <3>3. CASE ~(x <= Len(r))
      <4>1. x - Len(r) \in 1 .. Len(next) /\ x \notin 1 .. Len(r)
        BY <1>1, <1>2, <3>3
      <4>2. q[x] = next[x - Len(r)]
        BY <1>2, <3>3
      <4> QED
        BY <4>1, <4>2
    <3> QED
      BY <3>2, <3>3
  <2>2. n + 1 \notin 1 .. n
    OBVIOUS
  <2>3. CASE a \in 1 .. Len(r) /\ b \in 1 .. Len(r)
    <3>1. PICK k \in 1 .. n, l \in 1 .. n :
            \E i \in 1 .. Len(seqs[k]) : \E j \in 1 .. Len(seqs[l]) :
              (k # l \/ i # j) /\ r[a] = seqs[k][i] /\ r[b] = seqs[l][j]
      BY <1>6, <2>3 DEF Joined
    <3>2. q[a] = r[a] /\ q[b] = r[b] /\ k \in 1 .. n + 1 /\ l \in 1 .. n + 1
      BY <1>1, <1>2, <1>3, <2>3
    <3> QED
      BY <3>1, <3>2
  <2>4. CASE a \in 1 .. Len(r) /\ b \notin 1 .. Len(r)
    <3>1. PICK k \in 1 .. n : \E i \in 1 .. Len(seqs[k]) : r[a] = seqs[k][i]
      BY <2>4 DEF Joined
    <3>2. PICK i \in 1 .. Len(seqs[k]) : r[a] = seqs[k][i]
      BY <3>1
    <3>3. /\ b - Len(r) \in 1 .. Len(seqs[n + 1]) /\ q[b] = seqs[n + 1][b - Len(r)]
          /\ q[a] = r[a]
      BY <1>1, <1>2, <2>1, <2>4
    <3> QED
      BY <1>3, <2>2, <3>1, <3>2, <3>3
  <2>5. CASE a \notin 1 .. Len(r) /\ b \in 1 .. Len(r)
    <3>1. PICK k \in 1 .. n : \E i \in 1 .. Len(seqs[k]) : r[b] = seqs[k][i]
      BY <2>5 DEF Joined
    <3>2. PICK i \in 1 .. Len(seqs[k]) : r[b] = seqs[k][i]
      BY <3>1
    <3>3. /\ a - Len(r) \in 1 .. Len(seqs[n + 1]) /\ q[a] = seqs[n + 1][a - Len(r)]
          /\ q[b] = r[b]
      BY <1>1, <1>2, <2>1, <2>5
    <3> QED
      BY <1>3, <2>2, <3>1, <3>2, <3>3
  <2>6. CASE a \notin 1 .. Len(r) /\ b \notin 1 .. Len(r)
    <3>1. /\ a - Len(r) \in 1 .. Len(seqs[n + 1]) /\ q[a] = seqs[n + 1][a - Len(r)]
          /\ b - Len(r) \in 1 .. Len(seqs[n + 1]) /\ q[b] = seqs[n + 1][b - Len(r)]
      BY <2>1, <2>6
    <3>2. a - Len(r) # b - Len(r)
      BY <1>1, <1>6
    <3> QED
      BY <1>3, <3>1, <3>2
  <2> QED
    BY <2>3, <2>4, <2>5, <2>6
<1>7. Joined(seqs, q, n + 1)
  BY <1>4, <1>5, <1>6 DEF Joined
<1> QED
  BY <1>2, <1>7 DEF q

\* The function by which FlattenSeq is defined exists.
LEMMA FlattenDefined ==
    ASSUME NEW A, NEW seqs \in Seq(Seq(A)), seqs # <<>>
    PROVE  \E f : /\ f = [i \in 1 .. Len(seqs) |-> IF i = 1 THEN seqs[i] ELSE f[i - 1] \o seqs[i]]
                  /\ FlattenSeq(seqs) = f[Len(seqs)]
<1> DEFINE Defines(f, n) ==
             f = [i \in 1 .. n |-> IF i = 1 THEN seqs[i] ELSE f[i - 1] \o seqs[i]]
           Bad == {n \in Nat \ {0} : ~\E f : Defines(f, n)}
<1>1. Bad = {}
  <2>1. SUFFICES ASSUME Bad # {} PROVE FALSE
    OBVIOUS
  <2>2. PICK n \in Bad : \A m \in Bad : n <= m
    BY <2>1, LeastExists
  <2>3. n \in Nat \ {0} /\ ~\E f : Defines(f, n)
    BY <2>2
  <2>4. CASE n = 1
    <3>1. Defines([i \in 1 .. 1 |-> seqs[1]], 1)
      OBVIOUS
    <3> QED
      BY <2>3, <2>4, <3>1
  <2>5. CASE n # 1
    <3>1. n - 1 \in Nat \ {0} /\ n - 1 \notin Bad
      <4>1. n - 1 \in Nat \ {0} /\ ~(n <= n - 1)
        BY <2>3, <2>5
      <4> HIDE DEF Bad
      <4> QED
        BY <2>2, <4>1
    <3>2. PICK f : Defines(f, n - 1)
      BY <3>1
    <3> DEFINE g == [i \in 1 .. n |-> IF i = n THEN f[n - 1] \o seqs[n] ELSE f[i]]
    <3>3. \A i \in 1 .. n - 1 : g[i] = f[i]
      BY <2>3
    <3>4. \A i \in 1 .. n - 1 : f[i] = IF i = 1 THEN seqs[i] ELSE f[i - 1] \o seqs[i]
      BY <3>2
    <3>5. \A i \in 1 .. n : g[i] = IF i = 1 THEN seqs[i] ELSE g[i - 1] \o seqs[i]
      <4>1. TAKE i \in 1 .. n
      <4>2. CASE i = n
        <5>1. n - 1 \in 1 .. n - 1 /\ n \in 1 .. n
          BY <2>3, <2>5
        <5>2. g[n] = f[n - 1] \o seqs[n]
          BY <5>1
        <5> HIDE DEF g
        <5> QED
          BY <2>5, <3>3, <4>2, <5>1, <5>2
      <4>3. CASE i # n /\ i # 1
        <5>1. i \in 1 .. n - 1 /\ i - 1 \in 1 .. n - 1
          BY <2>3, <4>3
        <5> HIDE DEF g
        <5> QED
          BY <3>3, <3>4, <5>1, <4>3
      <4>4. CASE i = 1
        BY <2>3, <2>5, <3>3, <3>4, <4>4
      <4> QED
        BY <4>2, <4>3, <4>4
    <3>6. Defines(g, n)
      BY <3>5
    <3> QED
      BY <2>3, <3>6
  <2> QED
    BY <2>4, <2>5
<1>2. Len(seqs) \in Nat \ {0}
  BY LenProperties, EmptySeq
<1>3. \E f : Defines(f, Len(seqs))
  BY <1>1, <1>2
<1> DEFINE h == CHOOSE f : Defines(f, Len(seqs))
<1>4. Defines(h, Len(seqs))
  BY <1>3
<1>5. FlattenSeq(seqs) = h[Len(seqs)]
  BY <1>2 DEF FlattenSeq
<1> QED
  BY <1>4, <1>5

\* All of them.
LEMMA FlattenJoined ==
    ASSUME NEW A, NEW seqs \in Seq(Seq(A))
    PROVE  FlattenSeq(seqs) \in Seq(A) /\ Joined(seqs, FlattenSeq(seqs), Len(seqs))
<1>1. Len(seqs) \in Nat
  BY LenProperties
<1>2. CASE seqs = <<>>
  <2>1. FlattenSeq(seqs) = <<>> /\ Len(seqs) = 0 /\ <<>> \in Seq(A) /\ Len(<<>>) = 0
    BY <1>2, EmptySeq DEF FlattenSeq
  <2> QED
    BY <2>1, <1>2 DEF Joined
<1>3. CASE seqs # <<>>
  <2>1. PICK f : /\ f = [i \in 1 .. Len(seqs) |-> IF i = 1 THEN seqs[i] ELSE f[i - 1] \o seqs[i]]
                 /\ FlattenSeq(seqs) = f[Len(seqs)]
    BY <1>3, FlattenDefined
  <2> DEFINE Bad == {n \in 1 .. Len(seqs) : ~(f[n] \in Seq(A) /\ Joined(seqs, f[n], n))}
  <2>2. Bad = {}
    <3>1. SUFFICES ASSUME Bad # {} PROVE FALSE
      OBVIOUS
    <3>2. Bad \in SUBSET Nat
      BY <1>1
    <3>3. PICK n \in Bad : \A m \in Bad : n <= m
      BY <3>1, <3>2, LeastExists
    <3>4. n \in 1 .. Len(seqs) /\ ~(f[n] \in Seq(A) /\ Joined(seqs, f[n], n))
      BY <3>3
    <3>5. CASE n = 1
      <4>1. f[1] = seqs[1] /\ seqs[1] \in Seq(A) /\ Len(seqs[1]) \in Nat
        BY <2>1, <3>4, <3>5, ElementOfSeq, LenProperties
      <4>2. Joined(seqs, seqs[1], 1)
        <5>1. \A k \in 1 .. 1 : k = 1
          OBVIOUS
        <5>2. 1 \in 1 .. 1 /\ 0 \in Nat /\ \A i \in 1 .. Len(seqs[1]) : 0 + i = i
          BY <4>1
        <5> QED
          BY <5>1, <5>2 DEF Joined
      <4> QED
        BY <3>4, <3>5, <4>1, <4>2
    <3>6. CASE n # 1
      <4>1. n - 1 \in 1 .. Len(seqs) /\ ~(n <= n - 1) /\ n - 1 \in Nat /\ n - 1 + 1 = n
        BY <1>1, <3>4, <3>6
      <4>2. n - 1 \notin Bad
        <5> HIDE DEF Bad
        <5> QED
          BY <3>3, <4>1
      <4>3. f[n - 1] \in Seq(A) /\ Joined(seqs, f[n - 1], n - 1)
        BY <4>1, <4>2
      <4>4. f[n] = f[n - 1] \o seqs[n]
        BY <2>1, <3>4, <3>6
      <4>5. f[n] \in Seq(A) /\ Joined(seqs, f[n], n)
        <5> DEFINE m == n - 1
        <5> HIDE DEF m
        <5>1. m \in Nat /\ m + 1 = n /\ f[m] \in Seq(A) /\ Joined(seqs, f[m], m)
          BY <4>1, <4>3 DEF m
        <5>2. f[n] = f[m] \o seqs[m + 1]
          BY <4>1, <4>4 DEF m
        <5>3. m + 1 \in 1 .. Len(seqs)
          BY <3>4, <5>1
        <5>4. f[m] \o seqs[m + 1] \in Seq(A) /\ Joined(seqs, f[m] \o seqs[m + 1], m + 1)
          BY <5>1, <5>3, JoinedOneMore
        <5> QED
          BY <5>1, <5>2, <5>4
      <4> QED
        BY <3>4, <4>5
    <3> QED
      BY <3>5, <3>6
  <2>3. Len(seqs) \in 1 .. Len(seqs)
    BY <1>1, <1>3, EmptySeq
  <2> QED
    BY <2>1, <2>2, <2>3
<1> QED
  BY <1>2, <1>3

-----------------------------------------------------------------------------
(* What an accepted file becomes *)

\* A template with its defaults.
TitledEntry(t) ==
    /\ t.name \in UnitName /\ splitTemplate(t.name)
    /\ t.instances \in Seq([name : STRING, title : STRING])

\* A unit of the file, or of the defaults.
OwnEntry(u) ==
    /\ u.template = ""
    /\ u.name = [stem |-> u.name.stem, at |-> u.name.at, inst |-> u.name.inst,
                 suffix |-> u.name.suffix]

\* Where the units of a configuration come from, and where those of a template are.
Built(c) ==
    /\ c.all \in Seq(ToSet(c.all)) /\ c.templates \in Seq(ToSet(c.templates))
    /\ \A t \in ToSet(c.templates) : TitledEntry(t)
    /\ \A u \in ToSet(c.all) :
         \/ OwnEntry(u)
         \/ \E t \in ToSet(c.templates) : \E i \in DOMAIN t.instances : u = Expanded(t)[i]
    /\ \A t \in ToSet(c.templates) : \E d \in Nat : \A i \in DOMAIN t.instances :
         d + i \in DOMAIN c.all /\ c.all[d + i] = Expanded(t)[i]
    /\ c.selects \in Seq(ToSet(c.selects))
    /\ \A sel \in ToSet(c.selects) : \E t \in ToSet(c.templates) : sel = Select(t)
    /\ \A i, j \in DOMAIN c.selects : i # j =>
         \E k, l \in DOMAIN c.templates :
           /\ k # l
           /\ c.selects[i] = Select(c.templates[k]) /\ c.selects[j] = Select(c.templates[l])

\* A function on 1 .. n is a sequence of length n.
LEMMA FunctionIsSeq ==
    ASSUME NEW A, NEW n \in Nat, NEW s \in [1 .. n -> A]
    PROVE  s \in Seq(A) /\ Len(s) = n
<1>1. s \in Seq(A)
  BY SeqDef
<1>2. Len(s) \in Nat /\ 1 .. Len(s) = 1 .. n
  BY <1>1, LenProperties
<1> QED
  BY <1>1, <1>2

\* A sequence is one of its own elements.
LEMMA SeqOfOwn ==
    ASSUME NEW A, NEW s \in Seq(A)
    PROVE  s \in Seq(ToSet(s)) /\ DOMAIN s = 1 .. Len(s) /\ Len(s) \in Nat /\ ToSet(s) \subseteq A
<1>1. DOMAIN s = 1 .. Len(s) /\ Len(s) \in Nat /\ \A i \in 1 .. Len(s) : s[i] \in A
  BY LenProperties, ElementOfSeq
<1>2. s = [i \in 1 .. Len(s) |-> s[i]]
  BY <1>1, SeqDef
<1>3. \A i \in 1 .. Len(s) : s[i] \in ToSet(s)
  BY <1>1 DEF ToSet
<1>4. s \in Seq(ToSet(s))
  BY <1>1, <1>2, <1>3, SeqDef
<1> QED
  BY <1>1, <1>4 DEF ToSet

\* The units a file without any gets (applyDefaults in config.go).
LEMMA DefaultEntries ==
    DefaultUnits \in Seq(ToSet(DefaultUnits)) /\ \A u \in ToSet(DefaultUnits) : OwnEntry(u)
<1>1. \A stem, suffix : OwnEntry(Unit(Plain(stem, suffix), "user", ""))
  BY DEF OwnEntry, Unit, Plain
<1> DEFINE a == Unit(Plain("grafana_kiosk", "service"), "user", "")
           b == Unit(Plain("vlc", "service"), "user", "")
<1>2. DefaultUnits = <<a, b>> /\ OwnEntry(a) /\ OwnEntry(b)
  BY <1>1 DEF DefaultUnits
<1> HIDE DEF a, b
<1>3. DefaultUnits \in Seq({a, b})
  BY <1>2
<1>4. \A u \in {a, b} : OwnEntry(u)
  BY <1>2
<1> QED
  BY <1>3, <1>4, SeqOfOwn

\* The units a file lists.
LEMMA FileEntries ==
    ASSUME NEW s \in Seq(UnitEntry)
    PROVE  s \in Seq(ToSet(s)) /\ \A u \in ToSet(s) : OwnEntry(u)
<1>1. \A u \in UnitEntry : OwnEntry(u)
  BY DEF OwnEntry, UnitEntry, UnitName
<1> QED
  BY <1>1, SeqOfOwn

\* Whatever file is accepted, the configuration is built from it as expand in config.go
\* does, and passes Validate.
LEMMA AcceptedBuilt ==
    ASSUME NEW f \in FileType, Accepts(f)
    PROVE  Built(Parsed(f)) /\ Validate(Parsed(f))
<1> DEFINE g == applyDefaults(f)
           c == expand(g)
           listed == g.templates.list
           expanded == [i \in DOMAIN c.templates |-> Expanded(c.templates[i])]
           A == ToSet(g.units.list) \cup (UNION {ToSet(Expanded(t)) : t \in ToSet(c.templates)})
<1>1. /\ Parsed(f) = c /\ Validate(c) /\ \A t \in ToSet(listed) : splitTemplate(t.name)
  BY DEF Accepts, Parsed, Expandable
<1>2. /\ g.units.list \in Seq(ToSet(g.units.list)) /\ listed \in Seq(TemplateEntry)
      /\ \A u \in ToSet(g.units.list) : OwnEntry(u)
  <2>1. f.units.list \in Seq(UnitEntry) /\ f.templates.list \in Seq(TemplateEntry)
    BY DEF FileType
  <2>2. listed = f.templates.list /\ g.units.list \in {f.units.list, DefaultUnits}
    BY DEF applyDefaults, FileType
  <2>3. CASE g.units.list = DefaultUnits
    BY <2>1, <2>2, <2>3, DefaultEntries
  <2>4. CASE g.units.list = f.units.list
    BY <2>1, <2>2, <2>4, FileEntries
  <2> QED
    BY <2>2, <2>3, <2>4
<1>3. /\ c.templates = [i \in DOMAIN listed |-> Titled(listed[i])]
      /\ c.all = g.units.list \o FlattenSeq(expanded)
      /\ c.selects = [i \in DOMAIN Those(c.templates, {t \in ToSet(c.templates) : t.exclusive}) |->
                        Select(Those(c.templates, {t \in ToSet(c.templates) : t.exclusive})[i])]
  BY DEF expand
<1> HIDE DEF g, c
<1>4. /\ DOMAIN listed = 1 .. Len(listed) /\ Len(listed) \in Nat
      /\ \A i \in DOMAIN listed : listed[i] \in TemplateEntry /\ listed[i] \in ToSet(listed)
  BY <1>2, LenProperties, ElementOfSeq DEF ToSet
<1>5. \A i \in DOMAIN listed : TitledEntry(Titled(listed[i]))
  BY <1>1, <1>4 DEF TitledEntry, Titled, TemplateEntry
<1>6. \A t \in ToSet(c.templates) : TitledEntry(t)
  BY <1>3, <1>5 DEF ToSet
<1>7. /\ DOMAIN c.templates = 1 .. Len(listed)
      /\ c.templates \in Seq(ToSet(c.templates))
  BY <1>3, <1>4, SeqDef DEF ToSet
<1>8. \A t \in ToSet(c.templates) : Expanded(t) \in Seq(A)
  <2>1. TAKE t \in ToSet(c.templates)
  <2>2. t.instances \in Seq([name : STRING, title : STRING])
    BY <1>6 DEF TitledEntry
  <2>3. DOMAIN t.instances = 1 .. Len(t.instances) /\ Len(t.instances) \in Nat
    BY <2>2, LenProperties
  <2>4. /\ DOMAIN Expanded(t) = 1 .. Len(t.instances)
        /\ Expanded(t) = [i \in 1 .. Len(t.instances) |-> Expanded(t)[i]]
    BY <2>3 DEF Expanded
  <2>5. \A i \in 1 .. Len(t.instances) : Expanded(t)[i] \in ToSet(Expanded(t))
    BY <2>4 DEF ToSet
  <2>6. ToSet(Expanded(t)) \subseteq A
    OBVIOUS
  <2> HIDE DEF A
  <2> QED
    BY <2>3, <2>4, <2>5, <2>6, SeqDef
<1>9. /\ expanded \in Seq(Seq(A)) /\ Len(expanded) = Len(listed)
      /\ \A i \in DOMAIN listed : expanded[i] = Expanded(c.templates[i])
  <2>1. \A i \in DOMAIN listed : expanded[i] = Expanded(c.templates[i]) /\ expanded[i] \in Seq(A)
    BY <1>4, <1>7, <1>8 DEF ToSet
  <2>2. expanded \in [1 .. Len(listed) -> Seq(A)]
    BY <1>4, <1>7, <2>1
  <2> HIDE DEF A, expanded
  <2> QED
    BY <1>4, <2>1, <2>2, FunctionIsSeq
<1> HIDE DEF expanded, A
<1>10. FlattenSeq(expanded) \in Seq(A) /\ Joined(expanded, FlattenSeq(expanded), Len(expanded))
  BY <1>9, FlattenJoined
<1> DEFINE flat == FlattenSeq(expanded)
           units == g.units.list
<1>11. /\ Len(units) \in Nat /\ DOMAIN units = 1 .. Len(units)
       /\ units \in Seq(A) /\ Len(flat) \in Nat /\ \A p \in 1 .. Len(units) : OwnEntry(units[p])
  <2>1. ToSet(units) \subseteq A
    BY DEF A
  <2>2. units \in Seq(ToSet(units)) /\ \A u \in ToSet(units) : OwnEntry(u)
    BY <1>2
  <2> HIDE DEF units
  <2> QED
    BY <1>10, <2>1, <2>2, LenProperties, SeqMonotonic, ElementOfSeq
<1> HIDE DEF flat, units
<1>12. /\ c.all \in Seq(A) /\ Len(c.all) = Len(units) + Len(flat)
       /\ \A p \in 1 .. Len(c.all) :
            c.all[p] = IF p <= Len(units) THEN units[p] ELSE flat[p - Len(units)]
       /\ DOMAIN c.all = 1 .. Len(c.all)
  <2>1. c.all = units \o flat /\ flat \in Seq(A)
    BY <1>3, <1>10 DEF flat, units
  <2>2. c.all \in Seq(A)
    BY <1>11, <2>1, ConcatProperties
  <2>3. DOMAIN c.all = 1 .. Len(c.all)
    BY <2>2, LenProperties
  <2> QED
    BY <1>11, <2>1, <2>2, <2>3, ConcatProperties
<1>13. ASSUME NEW u \in ToSet(c.all)
       PROVE  \/ OwnEntry(u)
              \/ \E t \in ToSet(c.templates) : \E i \in DOMAIN t.instances : u = Expanded(t)[i]
  <2>1. PICK p \in 1 .. Len(c.all) : u = c.all[p]
    BY <1>12 DEF ToSet
  <2>2. CASE p <= Len(units)
    BY <1>11, <1>12, <2>1, <2>2
  <2>3. CASE ~(p <= Len(units))
    <3>1. p - Len(units) \in 1 .. Len(flat) /\ u = flat[p - Len(units)]
      BY <1>11, <1>12, <2>1, <2>3
    <3>2. PICK k \in 1 .. Len(expanded) : \E i \in 1 .. Len(expanded[k]) : u = expanded[k][i]
      BY <1>10, <3>1 DEF Joined, flat
    <3>3. PICK i \in 1 .. Len(expanded[k]) : u = expanded[k][i]
      BY <3>2
    <3> DEFINE t == c.templates[k]
    <3>4. t \in ToSet(c.templates) /\ expanded[k] = Expanded(t)
      BY <1>4, <1>7, <1>9 DEF ToSet
    <3> HIDE DEF t
    <3>5. i \in DOMAIN Expanded(t)
      BY <1>8, <3>4, LenProperties
    <3>6. i \in DOMAIN t.instances
      BY <3>5 DEF Expanded
    <3> QED
      BY <3>3, <3>4, <3>6
  <2> QED
    BY <2>2, <2>3
<1>14. ASSUME NEW t \in ToSet(c.templates)
       PROVE  \E d \in Nat : \A i \in DOMAIN t.instances :
                d + i \in DOMAIN c.all /\ c.all[d + i] = Expanded(t)[i]
  <2>1. PICK k \in DOMAIN c.templates : t = c.templates[k]
    BY DEF ToSet
  <2>2. k \in 1 .. Len(expanded) /\ expanded[k] = Expanded(t)
    BY <1>4, <1>7, <1>9, <2>1
  <2>3. \E d \in Nat : \A i \in 1 .. Len(expanded[k]) :
          d + i \in 1 .. Len(flat) /\ flat[d + i] = expanded[k][i]
    BY <1>10, <2>2 DEF Joined, flat
  <2>7. PICK d \in Nat : \A i \in 1 .. Len(Expanded(t)) :
          d + i \in 1 .. Len(flat) /\ flat[d + i] = Expanded(t)[i]
    BY <2>2, <2>3
  <2>4. DOMAIN t.instances = 1 .. Len(Expanded(t)) /\ Len(Expanded(t)) \in Nat
    <3>1. DOMAIN Expanded(t) = DOMAIN t.instances
      BY DEF Expanded
    <3> QED
      BY <1>8, <3>1, LenProperties
  <2>5. ASSUME NEW i \in DOMAIN t.instances
        PROVE  Len(units) + d + i \in DOMAIN c.all /\ c.all[Len(units) + d + i] = Expanded(t)[i]
    <3>1. /\ d + i \in 1 .. Len(flat) /\ flat[d + i] = Expanded(t)[i] /\ i \in Nat
      BY <2>7, <2>4
    <3>2. /\ Len(units) + d + i \in 1 .. Len(c.all) /\ ~(Len(units) + d + i <= Len(units))
          /\ Len(units) + d + i - Len(units) = d + i
      BY <1>11, <1>12, <3>1
    <3> QED
      BY <1>12, <3>1, <3>2
  <2>6. Len(units) + d \in Nat
    BY <1>11
  <2> QED
    BY <2>5, <2>6
<1>15. /\ c.selects \in Seq(ToSet(c.selects))
       /\ \A sel \in ToSet(c.selects) : \E t \in ToSet(c.templates) : sel = Select(t)
       /\ \A i, j \in DOMAIN c.selects : i # j =>
            \E k, l \in DOMAIN c.templates :
              /\ k # l
              /\ c.selects[i] = Select(c.templates[k]) /\ c.selects[j] = Select(c.templates[l])
  <2> DEFINE T == {t \in ToSet(c.templates) : t.exclusive}
             ex == Those(c.templates, T)
  <2>1. c.selects = [i \in DOMAIN ex |-> Select(ex[i])]
    BY <1>3
  <2> HIDE DEF ex, T
  <2>2. ex \in Seq(ToSet(c.templates) \cap T)
    BY <1>7, ThoseThrough DEF Through, ex
  <2>3. DOMAIN ex = 1 .. Len(ex) /\ Len(ex) \in Nat
    BY <2>2, LenProperties
  <2>4. c.selects \in [1 .. Len(ex) -> ToSet(c.selects)]
    BY <2>1, <2>3 DEF ToSet
  <2>5. c.selects \in Seq(ToSet(c.selects))
    BY <2>3, <2>4, FunctionIsSeq
  <2>6. ASSUME NEW sel \in ToSet(c.selects) PROVE \E t \in ToSet(c.templates) : sel = Select(t)
    <3>1. PICK i \in DOMAIN ex : sel = Select(ex[i])
      BY <2>1 DEF ToSet
    <3>2. ex[i] \in ToSet(c.templates)
      BY <3>1, <2>2, LenProperties, ElementOfSeq
    <3> QED
      BY <3>1, <3>2
  <2>7. ASSUME NEW i \in DOMAIN ex, NEW j \in DOMAIN ex, i # j
        PROVE  \E k, l \in DOMAIN c.templates :
                 k # l /\ ex[i] = c.templates[k] /\ ex[j] = c.templates[l]
    <3>1. DOMAIN c.templates = 1 .. Len(c.templates)
      BY <1>7, LenProperties
    <3>2. Through(c.templates, T, ex, Len(c.templates))
      BY <1>7, ThoseThrough DEF ex
    <3> DEFINE N == Len(c.templates)
    <3>5. /\ ex[i] = ex[j] =>
               \E k, l \in 1 .. N : k # l /\ c.templates[k] = ex[i] /\ c.templates[l] = ex[i]
          /\ \E k \in 1 .. N : c.templates[k] = ex[i]
          /\ \E k \in 1 .. N : c.templates[k] = ex[j]
      <4>1. i \in 1 .. Len(ex) /\ j \in 1 .. Len(ex)
        BY <2>3
      <4> QED
        BY <2>7, <3>2, <4>1 DEF Through
    <3>3. CASE ex[i] = ex[j]
      BY <3>1, <3>3, <3>5
    <3>4. CASE ex[i] # ex[j]
      BY <3>1, <3>4, <3>5
    <3> QED
      BY <3>3, <3>4
  <2>8. ASSUME NEW i \in DOMAIN c.selects, NEW j \in DOMAIN c.selects, i # j
        PROVE  \E k, l \in DOMAIN c.templates :
                 /\ k # l
                 /\ c.selects[i] = Select(c.templates[k]) /\ c.selects[j] = Select(c.templates[l])
    BY <2>1, <2>7, <2>8
  <2> QED
    BY <2>5, <2>6, <2>8
<1>16. c.all \in Seq(ToSet(c.all))
  BY <1>12, SeqOfOwn
<1> QED
  BY <1>1, <1>6, <1>7, <1>13, <1>14, <1>15, <1>16 DEF Built

-----------------------------------------------------------------------------
(* Lookups *)

\* Those picks the elements that are in T, and no other.
LEMMA ThoseElements ==
    ASSUME NEW A, NEW s \in Seq(A), NEW T
    PROVE  /\ Those(s, T) \in Seq(ToSet(s) \cap T)
           /\ ToSet(Those(s, T)) = ToSet(s) \cap T
<1>1. Through(s, T, Those(s, T), Len(s)) /\ DOMAIN s = 1 .. Len(s)
  BY ThoseThrough, LenProperties
<1> DEFINE r == Those(s, T)
<1> HIDE DEF r
<1>2. r \in Seq(ToSet(s) \cap T) /\ DOMAIN r = 1 .. Len(r) /\ ToSet(r) \subseteq ToSet(s) \cap T
  BY <1>1, SeqOfOwn DEF Through, r
<1>3. \A x \in ToSet(s) \cap T : x \in ToSet(r)
  <2>1. TAKE x \in ToSet(s) \cap T
  <2>2. PICK i \in 1 .. Len(s) : s[i] = x
    BY <1>1 DEF ToSet
  <2>3. PICK j \in 1 .. Len(r) : r[j] = s[i]
    BY <1>1, <2>2 DEF Through, r
  <2> QED
    BY <1>2, <2>2, <2>3 DEF ToSet
<1> QED
  BY <1>2, <1>3 DEF r

\* UnitsForScope picks the units of the scope.
LEMMA ForScope ==
    ASSUME NEW c, Built(c), NEW scope
    PROVE  /\ UnitsForScope(c, scope) \in Seq(ToSet(c.all))
           /\ ToSet(UnitsForScope(c, scope)) = {u \in ToSet(c.all) : u.scope = scope}
<1> DEFINE T == {u \in ToSet(c.all) : u.scope = scope}
<1>1. /\ c.all \in Seq(ToSet(c.all)) /\ T \subseteq ToSet(c.all)
      /\ UnitsForScope(c, scope) = Those(c.all, T)
  BY DEF Built, UnitsForScope
<1> HIDE DEF T
<1>2. Those(c.all, T) \in Seq(ToSet(c.all) \cap T) /\ ToSet(Those(c.all, T)) = ToSet(c.all) \cap T
  BY <1>1, ThoseElements
<1>3. Those(c.all, T) \in Seq(ToSet(c.all))
  BY <1>2, SeqMonotonic
<1>4. ToSet(Those(c.all, T)) = T
  BY <1>1, <1>2
<1> QED
  BY <1>1, <1>3, <1>4 DEF T

-----------------------------------------------------------------------------
(* The polkit rule *)

\* The rule of a configuration allows the system units in it; a user unit that it allows
\* shares its name with a system unit or its template with a system template.
LEMMA RuleForBuilt ==
    ASSUME NEW c, Built(c), NEW u \in ToSet(c.all)
    PROVE  IF u.scope = "system" THEN RuleAllows(c, u.name)
           ELSE RuleAllows(c, u.name) =>
                \/ \E v \in ToSet(c.all) : v.scope = "system" /\ v.name = u.name
                \/ \E t \in ToSet(c.templates) :
                     t.scope = "system" /\ [u.name EXCEPT !.inst = ""] = t.name
<1>1. ToSet(UnitsForScope(c, "system")) = {v \in ToSet(c.all) : v.scope = "system"}
  BY ForScope
<1>2. \A t \in ToSet(c.templates) : t.name \in UnitName /\ t.name.at /\ t.name.inst = ""
  BY DEF Built, TitledEntry, splitTemplate
<1>3. ASSUME NEW t \in ToSet(c.templates), NEW i \in DOMAIN t.instances, u = Expanded(t)[i]
      PROVE  /\ u.scope = t.scope /\ u.name.at
             /\ u.name.stem = t.name.stem /\ u.name.suffix = t.name.suffix
             /\ [u.name EXCEPT !.inst = ""] = t.name
  <2>1. u.scope = t.scope /\ u.name = [t.name EXCEPT !.inst = t.instances[i].name]
    BY <1>3 DEF Expanded
  <2> QED
    BY <1>2, <2>1 DEF UnitName
<1>4. CASE OwnEntry(u)
  <2>1. CASE u.scope = "system"
    BY <1>1, <1>4, <2>1 DEF RuleAllows, OwnEntry
  <2>2. CASE u.scope # "system"
    <3>1. SUFFICES ASSUME RuleAllows(c, u.name)
                   PROVE  \/ \E v \in ToSet(c.all) : v.scope = "system" /\ v.name = u.name
                          \/ \E t \in ToSet(c.templates) :
                               t.scope = "system" /\ [u.name EXCEPT !.inst = ""] = t.name
      BY <2>2
    <3>2. CASE \E v \in ToSet(UnitsForScope(c, "system")) : v.template = "" /\ v.name = u.name
      BY <1>1, <3>2
    <3>3. ASSUME NEW t \in ToSet(c.templates), t.scope = "system",
                 u.name.at, u.name.stem = t.name.stem, u.name.suffix = t.name.suffix
          PROVE  [u.name EXCEPT !.inst = ""] = t.name
      <4>1. u.name = [stem |-> t.name.stem, at |-> u.name.at, inst |-> u.name.inst,
                      suffix |-> t.name.suffix]
        BY <1>4, <3>3 DEF OwnEntry
      <4> QED
        BY <1>2, <3>3, <4>1 DEF UnitName
    <3> QED
      BY <3>1, <3>2, <3>3 DEF RuleAllows
  <2> QED
    BY <2>1, <2>2
<1>5. CASE \E t \in ToSet(c.templates) : \E i \in DOMAIN t.instances : u = Expanded(t)[i]
  <2>1. PICK t \in ToSet(c.templates) : \E i \in DOMAIN t.instances : u = Expanded(t)[i]
    BY <1>5
  <2>2. /\ u.scope = t.scope /\ u.name.at
        /\ u.name.stem = t.name.stem /\ u.name.suffix = t.name.suffix
        /\ [u.name EXCEPT !.inst = ""] = t.name
    BY <1>3, <2>1
  <2>3. CASE u.scope = "system"
    BY <2>2, <2>3 DEF RuleAllows
  <2>4. CASE u.scope # "system"
    <3>1. SUFFICES ASSUME RuleAllows(c, u.name)
                   PROVE  \/ \E v \in ToSet(c.all) : v.scope = "system" /\ v.name = u.name
                          \/ \E x \in ToSet(c.templates) :
                               x.scope = "system" /\ [u.name EXCEPT !.inst = ""] = x.name
      BY <2>4
    <3>2. CASE \E v \in ToSet(UnitsForScope(c, "system")) : v.template = "" /\ v.name = u.name
      BY <1>1, <3>2
    <3>3. ASSUME NEW x \in ToSet(c.templates), x.scope = "system",
                 u.name.stem = x.name.stem, u.name.suffix = x.name.suffix
          PROVE  [u.name EXCEPT !.inst = ""] = x.name
      <4>1. t.name.stem = x.name.stem /\ t.name.suffix = x.name.suffix
        BY <2>2, <3>3
      <4>2. t.name = x.name
        <5>1. /\ t.name = [stem |-> t.name.stem, at |-> TRUE, inst |-> "", suffix |-> t.name.suffix]
              /\ x.name = [stem |-> x.name.stem, at |-> TRUE, inst |-> "", suffix |-> x.name.suffix]
          BY <1>2 DEF UnitName
        <5> QED
          BY <4>1, <5>1
      <4> QED
        BY <2>2, <4>2
    <3> QED
      BY <3>1, <3>2, <3>3 DEF RuleAllows
  <2> QED
    BY <2>3, <2>4
<1> QED
  BY <1>4, <1>5 DEF Built

-----------------------------------------------------------------------------
(* What systemd answers, and what is made of it *)

\* One name at most is an alias, of a watched name or of Outside.
LEMMA AliasingFacts ==
    ASSUME NEW names, NEW p \in Aliasings(names)
    PROVE  /\ \A m, n \in ToSet(names) : p[m] # m /\ p[n] # n => m = n
           /\ \A n \in ToSet(names) : p[n] # n =>
                /\ ~Invalid(n)
                /\ p[n] = Outside \/ (p[n] \in ToSet(names) /\ ~Invalid(p[n]))
<1> DEFINE self == [n \in ToSet(names) |-> n]
           real == {n \in ToSet(names) : ~Invalid(n)}
<1>1. CASE p = self
  BY <1>1
<1>2. CASE \E n \in real, q \in real \cup {Outside} : p = [self EXCEPT ![n] = q]
  <2>1. PICK n \in real, q \in real \cup {Outside} : p = [self EXCEPT ![n] = q]
    BY <1>2
  <2>2. n \in ToSet(names) /\ \A m \in ToSet(names) : p[m] = IF m = n THEN q ELSE m
    BY <2>1
  <2>3. \A m \in ToSet(names) : p[m] # m => m = n
    BY <2>2
  <2>4. ~Invalid(n) /\ (q = Outside \/ (q \in ToSet(names) /\ ~Invalid(q))) /\ p[n] = q
    <3>1. n \in real
      BY <2>1
    <3>2. q \in real \cup {Outside}
      BY <2>1
    <3>3. p[n] = q
      BY <2>2
    <3> QED
      BY <3>1, <3>2, <3>3
  <2> QED
    BY <2>3, <2>4
<1> QED
  BY <1>1, <1>2 DEF Aliasings

\* An answer for each name that is one, and for all by position if all are.
LEMMA AnswerFacts ==
    ASSUME NEW A, NEW names \in Seq(A), NEW p
    PROVE  LET raw == ListUnitsByNames(names, p)
           IN  /\ \A x \in ToSet(raw) : \E n \in ToSet(names) : ~Invalid(n) /\ x = p[n]
               /\ \A n \in ToSet(names) : ~Invalid(n) => p[n] \in ToSet(raw)
               /\ (\E n \in ToSet(names) : Invalid(n)) => Len(raw) # Len(names)
               /\ (\A n \in ToSet(names) : ~Invalid(n)) =>
                    Len(raw) = Len(names) /\ \A i \in DOMAIN names : raw[i] = p[names[i]]
               /\ DOMAIN raw = 1 .. Len(raw) /\ Len(raw) \in Nat
<1> DEFINE T == {n \in ToSet(names) : ~Invalid(n)}
           valid == Those(names, T)
           raw == ListUnitsByNames(names, p)
<1>1. raw = [i \in DOMAIN valid |-> p[valid[i]]]
  BY DEF ListUnitsByNames
<1>2. /\ Through(names, T, valid, Len(names)) /\ valid \in Seq(ToSet(names) \cap T)
      /\ ToSet(valid) = ToSet(names) \cap T
  BY ThoseThrough, ThoseElements
<1>3. DOMAIN valid = 1 .. Len(valid) /\ Len(valid) \in Nat /\ DOMAIN names = 1 .. Len(names)
  BY <1>2, LenProperties
<1> HIDE DEF valid, raw
<1>4. DOMAIN raw = 1 .. Len(valid) /\ Len(raw) = Len(valid)
  <2>1. raw \in [1 .. Len(valid) -> ToSet(raw)]
    BY <1>1, <1>3 DEF ToSet
  <2> QED
    BY <1>3, <2>1, FunctionIsSeq
<1>5. \A x \in ToSet(raw) : \E n \in ToSet(names) : ~Invalid(n) /\ x = p[n]
  <2>1. TAKE x \in ToSet(raw)
  <2>2. PICK i \in DOMAIN valid : x = p[valid[i]]
    BY <1>1, <1>3, <1>4 DEF ToSet
  <2>3. valid[i] \in ToSet(names) \cap T
    BY <1>2, <2>2 DEF ToSet
  <2> QED
    BY <2>2, <2>3
<1>6. \A n \in ToSet(names) : ~Invalid(n) => p[n] \in ToSet(raw)
  <2>1. SUFFICES ASSUME NEW n \in ToSet(names), ~Invalid(n) PROVE p[n] \in ToSet(raw)
    OBVIOUS
  <2>2. n \in ToSet(valid)
    BY <1>2, <2>1
  <2>3. PICK i \in DOMAIN valid : valid[i] = n
    BY <2>2 DEF ToSet
  <2> QED
    BY <1>1, <1>3, <1>4, <2>3 DEF ToSet
<1>7. ASSUME NEW n \in ToSet(names), Invalid(n) PROVE Len(raw) # Len(names)
  <2>1. PICK i \in 1 .. Len(names) : names[i] = n
    BY <1>3 DEF ToSet
  <2>2. SUFFICES ASSUME Len(valid) = Len(names) PROVE FALSE
    BY <1>4
  <2>3. valid[i] = n
    BY <1>2, <2>1, <2>2 DEF Through
  <2>4. valid[i] \in ToSet(valid)
    BY <1>3, <2>1, <2>2 DEF ToSet
  <2> QED
    BY <1>2, <1>7, <2>3, <2>4
<1>8. ASSUME \A n \in ToSet(names) : ~Invalid(n)
      PROVE  Len(raw) = Len(names) /\ \A i \in DOMAIN names : raw[i] = p[names[i]]
  <2>1. \A i \in 1 .. Len(names) : names[i] \in T
    BY <1>3, <1>8 DEF ToSet
  <2>2. Len(valid) = Len(names) /\ \A i \in 1 .. Len(names) : valid[i] = names[i]
    BY <1>2, <2>1 DEF Through
  <2> QED
    BY <1>1, <1>3, <1>4, <2>2
<1>9. DOMAIN raw = 1 .. Len(raw) /\ Len(raw) \in Nat
  BY <1>3, <1>4
<1> QED
  BY <1>5, <1>6, <1>7, <1>8, <1>9 DEF raw

\* Whatever systemd's aliases are at the dial and at the query: the state that is taken for
\* a name is that of its unit, with the exceptions that Rightly names.
LEMMA ToldRightly ==
    ASSUME NEW A, NEW names \in Seq(A),
           \A i, j \in DOMAIN names : names[i] = names[j] => i = j,
           Outside \notin ToSet(names),
           NEW d \in Aliasings(names), NEW p \in Aliasings(names), NEW i \in DOMAIN names,
           NEW told,
           told = mapStatuses(names, resolveAliases(names, ListUnitsByNames(names, d)),
                              ListUnitsByNames(names, p))[i]
    PROVE  IF Invalid(names[i]) THEN told = NotFound
           ELSE \/ told = p[names[i]]
                \/ /\ p[names[i]] # names[i]
                   /\ \/ \E n \in ToSet(names) : Invalid(n)
                      \/ /\ d[names[i]] # p[names[i]]
                         /\ d[names[i]] # names[i] \/ p[names[i]] \in ToSet(names)
<1> DEFINE raw == ListUnitsByNames(names, p)
           before == ListUnitsByNames(names, d)
           noted == resolveAliases(names, before)
           name == names[i]
<1>1. name \in ToSet(names) /\ DOMAIN names = 1 .. Len(names) /\ Len(names) \in Nat
  BY LenProperties DEF ToSet
<1>2. told = CASE name \in ToSet(raw) -> name
               [] name \notin ToSet(raw) /\ name \in DOMAIN noted
                    /\ noted[name] \in ToSet(raw) -> noted[name]
               [] OTHER -> IF Len(raw) = Len(names) /\ raw[i] \notin ToSet(names)
                           THEN raw[i] ELSE NotFound
  BY DEF mapStatuses
<1>3. /\ \A x \in ToSet(raw) : \E n \in ToSet(names) : ~Invalid(n) /\ x = p[n]
      /\ \A n \in ToSet(names) : ~Invalid(n) => p[n] \in ToSet(raw)
      /\ (\E n \in ToSet(names) : Invalid(n)) => Len(raw) # Len(names)
      /\ (\A n \in ToSet(names) : ~Invalid(n)) =>
           Len(raw) = Len(names) /\ \A j \in DOMAIN names : raw[j] = p[names[j]]
  BY AnswerFacts
<1>4. /\ (\E n \in ToSet(names) : Invalid(n)) => Len(before) # Len(names)
      /\ (\A n \in ToSet(names) : ~Invalid(n)) =>
           Len(before) = Len(names) /\ \A j \in DOMAIN names : before[j] = d[names[j]]
      /\ DOMAIN before = 1 .. Len(before)
  BY AnswerFacts
<1>5. /\ \A m, n \in ToSet(names) : p[m] # m /\ p[n] # n => m = n
      /\ \A n \in ToSet(names) : p[n] # n =>
           /\ ~Invalid(n)
           /\ p[n] = Outside \/ (p[n] \in ToSet(names) /\ ~Invalid(p[n]))
  BY AliasingFacts
<1>6. noted = IF Len(before) # Len(names) THEN <<>>
                ELSE LET others == {k \in DOMAIN before : before[k] # names[k]}
                     IN  [n \in {names[j] : j \in others} |->
                            before[Max({k \in others : names[k] = n})]]
  BY DEF resolveAliases
<1> HIDE DEF raw, before, noted, name
<1>7. CASE Invalid(name)
  <2>1. noted = <<>> /\ DOMAIN <<>> = {} /\ Len(raw) # Len(names)
    <3>1. Len(raw) # Len(names) /\ Len(before) # Len(names)
      BY <1>1, <1>3, <1>4, <1>7
    <3>2. noted = <<>>
      BY <1>6, <3>1
    <3> QED
      BY <3>1, <3>2
  <2>2. name \notin ToSet(raw)
    BY <1>1, <1>3, <1>5, <1>7
  <2>3. told = NotFound
    BY <1>2, <2>1, <2>2
  <2> QED
    BY <1>7, <2>3 DEF name
<1>8. CASE ~Invalid(name)
  <2>1. CASE name \in ToSet(raw)
    <3>1. p[name] = name
      BY <1>1, <1>3, <1>5, <2>1
    <3> QED
      BY <1>2, <1>8, <2>1, <3>1 DEF name
  <2>2. CASE name \notin ToSet(raw)
    <3>1. p[name] # name /\ p[name] \in ToSet(raw)
      BY <1>1, <1>3, <1>8, <2>2
    <3>2. CASE \E n \in ToSet(names) : Invalid(n)
      BY <1>8, <3>1, <3>2 DEF name
    <3>3. CASE \A n \in ToSet(names) : ~Invalid(n)
      <4>1. Len(raw) = Len(names) /\ raw[i] = p[name]
        BY <1>3, <3>3 DEF name
      <4>2. Len(before) = Len(names) /\ \A j \in DOMAIN names : before[j] = d[names[j]]
        BY <1>4, <3>3
      <4>3. CASE d[name] = name
        <5>1. name \notin DOMAIN noted
          <6>1. before[i] = names[i]
            BY <4>2, <4>3 DEF name
          <6>2. \A j \in DOMAIN before : names[j] = name => j = i
            BY <1>1, <1>4, <4>2 DEF name
          <6>3. DOMAIN noted = {names[j] : j \in {k \in DOMAIN before : before[k] # names[k]}}
            BY <1>6, <4>2
          <6> QED
            BY <6>1, <6>2, <6>3
        <5>2. told = IF p[name] \notin ToSet(names) THEN p[name] ELSE NotFound
          BY <1>2, <2>2, <4>1, <5>1
        <5> QED
          BY <1>8, <3>1, <4>3, <5>2 DEF name
      <4>4. CASE d[name] # name /\ d[name] = p[name]
        <5> DEFINE others == {k \in DOMAIN before : before[k] # names[k]}
        <5>1. i \in others /\ before[i] = p[name]
          BY <1>1, <1>4, <4>2, <4>4 DEF name
        <5>2. {k \in others : names[k] = name} = {i}
          BY <1>1, <1>4, <4>2, <5>1 DEF name
        <5>3. Max({i}) = i
          BY <1>1 DEF Max
        <5>4. name \in DOMAIN noted /\ noted[name] = p[name]
          BY <1>6, <4>2, <5>1, <5>2, <5>3 DEF name
        <5> QED
          BY <1>2, <1>8, <2>2, <3>1, <5>4 DEF name
      <4>5. CASE d[name] # name /\ d[name] # p[name]
        BY <1>8, <3>1, <4>5 DEF name
      <4> QED
        BY <4>3, <4>4, <4>5
    <3> QED
      BY <3>2, <3>3
  <2> QED
    BY <2>1, <2>2
<1> QED
  BY <1>7, <1>8

-----------------------------------------------------------------------------
(* Names and ids of an accepted configuration *)

\* Two units of a configuration that passed Validate have neither the same id, nor the
\* same name in one scope.
LEMMA UnitsApart ==
    ASSUME NEW c, Built(c), Validate(c)
    PROVE  /\ \A i, j \in DOMAIN c.all : ObjectID(c.all[i]) = ObjectID(c.all[j]) => i = j
           /\ \A u, v \in ToSet(c.all) : ObjectID(u) = ObjectID(v) => u = v
           /\ \A u, v \in ToSet(c.all) : u.scope = v.scope /\ u.name = v.name => u = v
<1>1. \A i, j \in DOMAIN c.all : i # j => ObjectID(c.all[i]) # ObjectID(c.all[j])
  BY DEF Validate, IDsApart, Others
<1>2. \A i, j \in DOMAIN c.all : i # j =>
        <<c.all[i].scope, c.all[i].name>> # <<c.all[j].scope, c.all[j].name>>
  BY DEF Validate, NamesApart, Others
<1>3. \A u \in ToSet(c.all) : \E i \in DOMAIN c.all : u = c.all[i]
  BY DEF ToSet
<1>4. \A u, v \in ToSet(c.all) : ObjectID(u) = ObjectID(v) => u = v
  BY <1>1, <1>3
<1>5. \A u, v \in ToSet(c.all) : u.scope = v.scope /\ u.name = v.name => u = v
  BY <1>2, <1>3
<1> QED
  BY <1>1, <1>4, <1>5

\* What is asked of systemd for a scope: the name of each unit of it, once.
LEMMA NamesFacts ==
    ASSUME NEW c, Built(c), Validate(c), NEW s
    PROVE  /\ Names(c, s) \in Seq(ToSet(Names(c, s)))
           /\ \A i, j \in DOMAIN Names(c, s) : Names(c, s)[i] = Names(c, s)[j] => i = j
           /\ \A u \in ToSet(c.all) : u.scope = s =>
                \E i \in DOMAIN Names(c, s) : Names(c, s)[i] = u.name
           /\ \A i \in DOMAIN Names(c, s) :
                \E u \in ToSet(c.all) : u.scope = s /\ u.name = Names(c, s)[i]
<1> DEFINE T == {u \in ToSet(c.all) : u.scope = s}
           us == UnitsForScope(c, s)
           ns == Names(c, s)
<1>1. c.all \in Seq(ToSet(c.all)) /\ us = Those(c.all, T) /\ DOMAIN c.all = 1 .. Len(c.all)
  BY LenProperties DEF UnitsForScope, Built
<1>2. Through(c.all, T, us, Len(c.all)) /\ us \in Seq(ToSet(c.all)) /\ ToSet(us) = T
  BY <1>1, ThoseThrough, ForScope
<1>3. DOMAIN us = 1 .. Len(us) /\ Len(us) \in Nat /\ \A i \in DOMAIN us : us[i] \in T
  BY <1>2, LenProperties DEF ToSet
<1>4. ns = [i \in DOMAIN us |-> us[i].name]
  BY DEF Names
<1> HIDE DEF us, ns
<1>5. ns \in Seq(ToSet(ns))
  <2>1. ns \in [1 .. Len(us) -> ToSet(ns)]
    BY <1>3, <1>4 DEF ToSet
  <2> QED
    BY <1>3, <2>1, FunctionIsSeq
<1>6. ASSUME NEW i \in DOMAIN ns, NEW j \in DOMAIN ns, ns[i] = ns[j] PROVE i = j
  <2>1. /\ us[i] \in T /\ us[j] \in T /\ us[i].name = us[j].name
        /\ i \in 1 .. Len(us) /\ j \in 1 .. Len(us)
    BY <1>3, <1>4, <1>6
  <2>2. us[i] = us[j]
    BY <2>1, UnitsApart
  <2>3. SUFFICES ASSUME i # j PROVE FALSE
    OBVIOUS
  <2>4. PICK k \in 1 .. Len(c.all), l \in 1 .. Len(c.all) :
          k # l /\ c.all[k] = us[i] /\ c.all[l] = us[i]
    BY <1>2, <2>1, <2>2, <2>3 DEF Through
  <2> QED
    BY <1>1, <2>4, UnitsApart
<1>7. ASSUME NEW u \in ToSet(c.all), u.scope = s PROVE \E i \in DOMAIN ns : ns[i] = u.name
  <2>1. u \in ToSet(us)
    BY <1>2, <1>7
  <2>2. PICK i \in DOMAIN us : us[i] = u
    BY <2>1 DEF ToSet
  <2> QED
    BY <1>4, <2>2
<1>8. \A i \in DOMAIN ns : \E u \in ToSet(c.all) : u.scope = s /\ u.name = ns[i]
  BY <1>3, <1>4
<1> QED
  BY <1>5, <1>6, <1>7, <1>8 DEF ns

\* The id that a status of a unit is filed under is the unit's.
LEMMA IDFound ==
    ASSUME NEW c, Built(c), Validate(c), NEW u \in ToSet(c.all)
    PROVE  IDForUnit(c, u.scope, u.name) = ObjectID(u)
<1>1. DOMAIN c.all = 1 .. Len(c.all) /\ Len(c.all) \in Nat
  BY LenProperties DEF Built
<1>2. PICK i \in 1 .. Len(c.all) : c.all[i] = u
  BY <1>1 DEF ToSet
<1> DEFINE I == {j \in 1 .. Len(c.all) : c.all[j].scope = u.scope /\ c.all[j].name = u.name}
<1>3. I = {i}
  <2>1. \A j \in I : /\ j \in DOMAIN c.all /\ c.all[j] \in ToSet(c.all)
                     /\ c.all[j].scope = u.scope /\ c.all[j].name = u.name
    BY <1>1 DEF ToSet
  <2>2. \A j \in I : c.all[j] = u /\ j \in DOMAIN c.all
    BY <2>1, UnitsApart
  <2>3. i \in I /\ i \in DOMAIN c.all
    BY <1>1, <1>2
  <2> HIDE DEF I
  <2> QED
    BY <1>2, <2>2, <2>3, UnitsApart
<1>4. Max({i}) = i
  BY <1>1 DEF Max
<1>5. SelectLastInSeq(c.all, LAMBDA v : v.scope = u.scope /\ v.name = u.name)
        = IF I # {} THEN Max(I) ELSE 0
  BY DEF SelectLastInSeq
<1> HIDE DEF I
<1>6. IDForUnit(c, u.scope, u.name) = ObjectID(c.all[IF I # {} THEN Max(I) ELSE 0])
  BY <1>5 DEF IDForUnit
<1> QED
  BY <1>2, <1>3, <1>4, <1>6

\* The snapshots after an answer: those of the scope are as told, the others as before.
LEMMA Applied ==
    ASSUME NEW c, Built(c), Validate(c), NEW snapshots, DOMAIN snapshots = IDs(c),
           NEW s, NEW told, NEW u \in ToSet(c.all)
    PROVE  /\ u.scope # s => ApplyUnits(c, snapshots, s, told)[ObjectID(u)] = snapshots[ObjectID(u)]
           /\ u.scope = s => \E i \in DOMAIN Names(c, s) :
                Names(c, s)[i] = u.name /\ ApplyUnits(c, snapshots, s, told)[ObjectID(u)] = told[i]
<1> DEFINE ns == Names(c, s)
           at == {i \in DOMAIN ns : IDForUnit(c, s, ns[i]) = ObjectID(u)}
<1>1. ObjectID(u) \in DOMAIN snapshots
  BY DEF IDs
<1>2. ApplyUnits(c, snapshots, s, told)[ObjectID(u)]
        = IF at = {} THEN snapshots[ObjectID(u)] ELSE told[Max(at)]
  BY <1>1 DEF ApplyUnits
<1> HIDE DEF ns
<1>3. /\ \A i, j \in DOMAIN ns : ns[i] = ns[j] => i = j
      /\ u.scope = s => \E i \in DOMAIN ns : ns[i] = u.name
      /\ \A i \in DOMAIN ns : \E v \in ToSet(c.all) : v.scope = s /\ v.name = ns[i]
      /\ DOMAIN ns \subseteq Nat
  <2>1. ns \in Seq(ToSet(ns))
    BY NamesFacts DEF ns
  <2>2. DOMAIN ns \subseteq Nat
    BY <2>1, LenProperties
  <2> QED
    BY <2>2, NamesFacts DEF ns
<1>4. \A i \in at : u.scope = s /\ ns[i] = u.name
  <2>1. TAKE i \in at
  <2>2. PICK v \in ToSet(c.all) : v.scope = s /\ v.name = ns[i]
    BY <1>3
  <2>3. IDForUnit(c, s, ns[i]) = ObjectID(v)
    BY <2>2, IDFound
  <2>4. v = u
    BY <2>3, UnitsApart
  <2> QED
    BY <2>2, <2>4
<1>5. CASE u.scope # s
  BY <1>2, <1>4, <1>5
<1>6. CASE u.scope = s
  <2>1. PICK i \in DOMAIN ns : ns[i] = u.name
    BY <1>3, <1>6
  <2>2. i \in at
    BY <1>6, <2>1, IDFound
  <2>3. at = {i}
    BY <1>3, <1>4, <2>1, <2>2
  <2>4. Max({i}) = i
    BY <1>3 DEF Max
  <2> HIDE DEF at
  <2>5. ApplyUnits(c, snapshots, s, told)[ObjectID(u)] = told[i]
    BY <1>2, <2>3, <2>4
  <2> QED
    BY <1>6, <2>1, <2>5 DEF ns
<1> QED
  BY <1>5, <1>6

-----------------------------------------------------------------------------
(* The inductive invariant of what runs *)

\* What runs is what became of an accepted file.
Loaded ==
    /\ phase \in {"new", "refused", "running", "ended"}
    /\ phase = "new" => config \in Files
    /\ phase = "running" =>
         /\ Built(config) /\ Validate(config) /\ DOMAIN st = IDs(config)
         /\ \A u \in ToSet(config.all) : u.name # Outside

\* A scope is queried once it has been dialled, and its aliases are those of the dial.
Resolved ==
    /\ DOMAIN dialled = ToSet(Scopes) /\ DOMAIN aliases = ToSet(Scopes)
    /\ DOMAIN actual = ToSet(Scopes)
    /\ \A s \in ToSet(Scopes) : phase = "new" => dialled[s] = <<>>
    /\ \A s \in ToSet(Scopes) : dialled[s] = <<>> => actual[s] = <<>>
    /\ \A s \in ToSet(Scopes) : phase = "running" /\ dialled[s] # <<>> =>
         /\ dialled[s] \in Aliasings(Names(config, s))
         /\ aliases[s] = resolveAliases(Names(config, s),
                                        ListUnitsByNames(Names(config, s), dialled[s]))

SInv == Loaded /\ Resolved /\ SnapshotsTrue

\* The scopes in use are scopes.
LEMMA ScopesUsed ==
    ASSUME NEW c, NEW s \in ToSet(ScopesOf(c)) PROVE s \in ToSet(Scopes)
<1>1. Scopes \in Seq({"user", "system"})
  BY DEF Scopes
<1> DEFINE T == {x \in ToSet(Scopes) : UnitsForScope(c, x) # <<>>}
<1> HIDE DEF T
<1>2. ScopesOf(c) = Those(Scopes, T)
  BY DEF ScopesOf, T
<1>3. ToSet(Those(Scopes, T)) = ToSet(Scopes) \cap T
  BY <1>1, ThoseElements
<1> QED
  BY <1>2, <1>3

\* Before a file is loaded nothing has been dialled.
LEMMA InitSInv == Init => SInv
<1> SUFFICES ASSUME Init PROVE SInv
  OBVIOUS
<1>1. Loaded
  BY DEF Init, Loaded
<1>2. Resolved
  BY DEF Init, Resolved
<1>3. SnapshotsTrue
  BY DEF Init, SnapshotsTrue, Accepted
<1> QED
  BY <1>1, <1>2, <1>3 DEF SInv

\* Loading a file (Load in config.go): nothing has been asked under it yet.
LEMMA LoadSInv == ASSUME SInv, Load PROVE SInv'
<1>1. phase = "new" /\ config \in Files /\ UNCHANGED <<dialled, aliases, actual>>
  BY DEF Load, SInv, Loaded
<1>2. config \in FileType
  BY <1>1, SetupAssumption
<1>3. \A s \in ToSet(Scopes) : actual'[s] = <<>>
  BY <1>1 DEF SInv, Resolved
<1>4. SnapshotsTrue'
  <2>1. \A s \in ToSet(ScopesOf(config')) : s \in ToSet(Scopes)
    BY ScopesUsed
  <2> QED
    BY <1>3, <2>1 DEF SnapshotsTrue
<1>5. Loaded'
  <2>1. CASE Accepts(config)
    <3>1. phase' = "running" /\ config' = Parsed(config) /\ st' = NewState(config')
      BY <2>1 DEF Load
    <3>2. Built(config') /\ Validate(config')
      BY <1>2, <2>1, <3>1, AcceptedBuilt
    <3>3. \A u \in ToSet(config'.all) : u.name # Outside
      BY <1>1, <2>1, <3>1, SetupAssumption
    <3>4. DOMAIN st' = IDs(config')
      BY <3>1 DEF NewState
    <3> QED
      BY <3>1, <3>2, <3>3, <3>4 DEF Loaded
  <2>2. CASE ~Accepts(config)
    BY <2>2 DEF Load, Loaded
  <2> QED
    BY <2>1, <2>2
<1>6. Resolved'
  <2>1. \A s \in ToSet(Scopes) : dialled[s] = <<>>
    BY <1>1 DEF SInv, Resolved
  <2> QED
    BY <1>1, <1>3, <2>1 DEF SInv, Resolved
<1> QED
  BY <1>4, <1>5, <1>6 DEF SInv

\* Steps that leave the snapshots and what they came from alone.
LEMMA UntouchedSInv ==
    ASSUME SInv, phase' \in {phase, "ended"}, phase # "new",
           UNCHANGED <<config, dialled, aliases, actual, st>>
    PROVE  SInv'
<1>1. Loaded'
  BY DEF SInv, Loaded
<1>2. Resolved'
  BY DEF SInv, Resolved
<1>3. SnapshotsTrue'
  BY DEF SInv, SnapshotsTrue, Accepted, Rightly
<1> QED
  BY <1>1, <1>2, <1>3 DEF SInv

\* No name that is asked for is that of a template, and Outside is not asked for.
LEMMA AskedFor ==
    ASSUME NEW c, Built(c), Validate(c), NEW s
    PROVE  /\ ~Fails(Names(c, s))
           /\ (\A u \in ToSet(c.all) : u.name # Outside) => Outside \notin ToSet(Names(c, s))
<1>1. \A n \in ToSet(Names(c, s)) : \E u \in ToSet(c.all) : u.name = n
  <2>1. \A i \in DOMAIN Names(c, s) : \E u \in ToSet(c.all) : u.name = Names(c, s)[i]
    BY NamesFacts
  <2> QED
    BY <2>1 DEF ToSet
<1>2. ASSUME NEW u \in ToSet(c.all) PROVE ~splitTemplate(u.name)
  <2>1. CASE OwnEntry(u)
    BY <2>1 DEF OwnEntry, Validate, NamesFit
  <2>2. ASSUME NEW t \in ToSet(c.templates), NEW i \in DOMAIN t.instances, u = Expanded(t)[i]
        PROVE  ~splitTemplate(u.name)
    <3>1. t.name \in UnitName
      BY DEF Built, TitledEntry
    <3>2. t.instances[i].name # ""
      BY DEF Validate, TemplatesFit, ToSet
    <3>3. u.name = [t.name EXCEPT !.inst = t.instances[i].name]
      BY <2>2 DEF Expanded
    <3>4. u.name.inst = t.instances[i].name
      BY <3>1, <3>3 DEF UnitName
    <3> QED
      BY <3>2, <3>4 DEF splitTemplate
  <2> QED
    BY <2>1, <2>2 DEF Built
<1> QED
  BY <1>1, <1>2 DEF Fails

\* A dial takes down the aliases (dial and resolveAliases in conn.go); the scope has no
\* answer before its first dial.
LEMMA DialSInv == ASSUME SInv, NEW s \in ToSet(Scopes), Dial(s) PROVE SInv'
<1>1. phase = "running" /\ dialled[s] = <<>> /\ UNCHANGED <<phase, config, actual, st>>
  BY DEF Dial
<1>2. PICK primary \in Aliasings(Names(config, s)) :
        /\ dialled' = [dialled EXCEPT ![s] = primary]
        /\ aliases' = [aliases EXCEPT ![s] =
              IF Fails(Names(config, s)) THEN <<>>
              ELSE resolveAliases(Names(config, s), ListUnitsByNames(Names(config, s), primary))]
  BY DEF Dial
<1>3. ~Fails(Names(config, s))
  BY <1>1, AskedFor DEF SInv, Loaded
<1>4. actual[s] = <<>>
  BY <1>1 DEF SInv, Resolved
<1>5. Loaded'
  BY <1>1 DEF SInv, Loaded
<1>6. Resolved'
  BY <1>1, <1>2, <1>3, <1>4 DEF SInv, Resolved
<1>7. SnapshotsTrue'
  <2>1. SUFFICES ASSUME NEW x \in ToSet(ScopesOf(config)), actual[x] # <<>>,
                        NEW u \in ToSet(UnitsForScope(config, x))
                 PROVE  Rightly(x, u.name, st[ObjectID(u)])'
    BY <1>1 DEF SnapshotsTrue
  <2>2. Rightly(x, u.name, st[ObjectID(u)])
    BY <1>1, <2>1 DEF SInv, SnapshotsTrue, Accepted
  <2>3. x # s /\ dialled'[x] = dialled[x]
    BY <1>2, <1>4, <2>1
  <2> QED
    BY <1>1, <2>2, <2>3 DEF Rightly
<1> QED
  BY <1>5, <1>6, <1>7 DEF SInv

\* An answer is filed under the ids of the scope (Query and mapStatuses in conn.go,
\* ApplyUnit in state.go), and leaves the other scope alone.
LEMMA QuerySInv ==
    ASSUME SInv, NEW s \in ToSet(Scopes), NEW primary \in Aliasings(Names(config, s)),
           Query(s, primary)
    PROVE  SInv'
<1> DEFINE names == Names(config, s)
           told == mapStatuses(names, aliases[s], ListUnitsByNames(names, primary))
<1>1. /\ phase = "running" /\ dialled[s] # <<>> /\ UNCHANGED <<phase, config, dialled, aliases>>
      /\ actual' = [actual EXCEPT ![s] = primary]
  BY DEF Query
<1>2. /\ Built(config) /\ Validate(config) /\ DOMAIN st = IDs(config)
      /\ \A u \in ToSet(config.all) : u.name # Outside
  BY <1>1 DEF SInv, Loaded
<1>3. ~Fails(names) /\ Outside \notin ToSet(names)
  BY <1>2, AskedFor
<1>4. st' = ApplyUnits(config, st, s, told)
  BY <1>3 DEF Query
<1>5. DOMAIN st' = IDs(config)
  BY <1>2, <1>4 DEF ApplyUnits
<1>6. /\ dialled[s] \in Aliasings(names)
      /\ aliases[s] = resolveAliases(names, ListUnitsByNames(names, dialled[s]))
  BY <1>1 DEF SInv, Resolved
<1>7. names \in Seq(ToSet(names)) /\ \A i, j \in DOMAIN names : names[i] = names[j] => i = j
  BY <1>2, NamesFacts
<1> HIDE DEF names, told
<1>8. Loaded'
  BY <1>1, <1>2, <1>5 DEF SInv, Loaded
<1>9. Resolved'
  BY <1>1 DEF SInv, Resolved
<1>10. actual'[s] = primary /\ \A x \in ToSet(Scopes) : x # s => actual'[x] = actual[x]
  BY <1>1 DEF SInv, Resolved
<1>11. SnapshotsTrue'
  <2>1. SUFFICES ASSUME NEW x \in ToSet(ScopesOf(config)), actual'[x] # <<>>,
                        NEW u \in ToSet(UnitsForScope(config, x))
                 PROVE  Rightly(x, u.name, st[ObjectID(u)])'
    BY <1>1 DEF SnapshotsTrue
  <2>2. u \in ToSet(config.all) /\ u.scope = x /\ x \in ToSet(Scopes)
    BY <1>2, ForScope, ScopesUsed
  <2>3. CASE x # s
    <3>1. st'[ObjectID(u)] = st[ObjectID(u)] /\ actual'[x] = actual[x]
      BY <1>2, <1>4, <1>10, <2>2, <2>3, Applied
    <3>2. Rightly(x, u.name, st[ObjectID(u)])
      BY <1>1, <2>1, <3>1 DEF SInv, SnapshotsTrue, Accepted
    <3> QED
      BY <1>1, <3>1, <3>2 DEF Rightly
  <2>4. CASE x = s
    <3>1. PICK i \in DOMAIN names : names[i] = u.name /\ st'[ObjectID(u)] = told[i]
      BY <1>2, <1>4, <2>2, <2>4, Applied DEF names
    <3>2. told[i] = mapStatuses(names, resolveAliases(names, ListUnitsByNames(names, dialled[s])),
                                ListUnitsByNames(names, primary))[i]
      BY <1>6 DEF told
    <3>3. primary \in Aliasings(names)
      BY DEF names
    <3>4. IF Invalid(names[i]) THEN told[i] = NotFound
          ELSE \/ told[i] = primary[names[i]]
               \/ /\ primary[names[i]] # names[i]
                  /\ \/ \E n \in ToSet(names) : Invalid(n)
                     \/ /\ dialled[s][names[i]] # primary[names[i]]
                        /\ dialled[s][names[i]] # names[i] \/ primary[names[i]] \in ToSet(names)
      BY <1>3, <1>6, <1>7, <3>2, <3>3, ToldRightly
    <3> QED
      BY <1>1, <1>10, <2>4, <3>1, <3>4 DEF Rightly, names
  <2> QED
    BY <2>3, <2>4
<1> QED
  BY <1>8, <1>9, <1>11 DEF SInv

\* Every step.
LEMMA StepSInv == ASSUME SInv, [Next]_vars PROVE SInv'
<1>1. CASE Load
  BY <1>1, LoadSInv
<1>2. CASE Republish \/ End \/ Clear
  BY <1>2, UntouchedSInv DEF Republish, End, Clear
<1>3. ASSUME NEW s \in ToSet(ScopesOf(config)), Dial(s) PROVE SInv'
  BY <1>3, DialSInv, ScopesUsed
<1>4. ASSUME NEW s \in ToSet(ScopesOf(config)), NEW primary \in Aliasings(Names(config, s)),
             Query(s, primary)
      PROVE  SInv'
  BY <1>4, QuerySInv, ScopesUsed
<1>5. CASE UNCHANGED vars
  <2>1. Loaded' /\ Resolved'
    BY <1>5 DEF vars, SInv, Loaded, Resolved
  <2>2. SnapshotsTrue'
    BY <1>5 DEF vars, SInv, SnapshotsTrue, Accepted, Rightly
  <2> QED
    BY <2>1, <2>2 DEF SInv
<1> QED
  BY <1>1, <1>2, <1>3, <1>4, <1>5 DEF Next

\* The state that is kept for a unit is that of the unit systemd means by its name, not
\* found for a name systemd refuses, and otherwise only after a refused name or a changed
\* alias (mapStatuses and resolveAliases in conn.go, ApplyUnit in state.go): for any file,
\* any aliases, and aliases that change between dial and query.
THEOREM SnapshotsAlwaysTrue == Spec => []SnapshotsTrue
<1>1. SInv => SnapshotsTrue
  BY DEF SInv
<1> QED
  BY <1>1, InitSInv, StepSInv, PTL DEF Spec

\* The polkit rule lets the daemon manage each unit of the system manager, and no unit of
\* a user that does not share its name or template with one (RenderPolkitRule in ha/polkit.go).
THEOREM RuleAlwaysSuffices == Spec => []RuleSuffices
<1>1. SInv => RuleSuffices
  BY RuleForBuilt DEF SInv, Loaded, RuleSuffices, Accepted
<1> QED
  BY <1>1, InitSInv, StepSInv, PTL DEF Spec

-----------------------------------------------------------------------------
(* Topics level by level *)

\* A pair of levels and one more.
LEMMA TwoAndOne ==
    ASSUME NEW a, NEW b, NEW x
    PROVE  <<a, b>> \o <<x>> = <<a, b, x>>
<1> DEFINE A == {a, b, x}
           p == <<a, b>>
           q == <<x>>
           r == <<a, b, x>>
<1>1. /\ p \in Seq(A) /\ q \in Seq(A) /\ r \in Seq(A)
      /\ Len(p) = 2 /\ Len(q) = 1 /\ Len(r) = 3
  OBVIOUS
<1>2. /\ p[1] = a /\ p[2] = b /\ q[1] = x
      /\ r[1] = a /\ r[2] = b /\ r[3] = x
  OBVIOUS
<1> HIDE DEF p, q, r, A
<1>3. /\ p \o q \in Seq(A) /\ Len(p \o q) = Len(p) + Len(q)
      /\ \A i \in 1 .. Len(p) + Len(q) :
           (p \o q)[i] = IF i <= Len(p) THEN p[i] ELSE q[i - Len(p)]
  BY <1>1, ConcatProperties
<1>4. \A i \in 1 .. 3 : i = 1 \/ i = 2 \/ i = 3
  OBVIOUS
<1>5. Len(p \o q) = Len(r) /\ \A i \in 1 .. Len(p \o q) : (p \o q)[i] = r[i]
  BY <1>1, <1>2, <1>3, <1>4
<1>6. p \o q = r
  BY <1>1, <1>3, <1>5, SeqEqual
<1> QED
  BY <1>6 DEF p, q, r

\* A pair of levels and two more.
LEMMA TwoAndTwo ==
    ASSUME NEW a, NEW b, NEW x, NEW y
    PROVE  <<a, b>> \o <<x, y>> = <<a, b, x, y>>
<1> DEFINE A == {a, b, x, y}
           p == <<a, b>>
           q == <<x, y>>
           r == <<a, b, x, y>>
<1>1. /\ p \in Seq(A) /\ q \in Seq(A) /\ r \in Seq(A)
      /\ Len(p) = 2 /\ Len(q) = 2 /\ Len(r) = 4
  OBVIOUS
<1>2. /\ p[1] = a /\ p[2] = b /\ q[1] = x /\ q[2] = y
      /\ r[1] = a /\ r[2] = b /\ r[3] = x /\ r[4] = y
  OBVIOUS
<1> HIDE DEF p, q, r, A
<1>3. /\ p \o q \in Seq(A) /\ Len(p \o q) = Len(p) + Len(q)
      /\ \A i \in 1 .. Len(p) + Len(q) :
           (p \o q)[i] = IF i <= Len(p) THEN p[i] ELSE q[i - Len(p)]
  BY <1>1, ConcatProperties
<1>4. \A i \in 1 .. 4 : i = 1 \/ i = 2 \/ i = 3 \/ i = 4
  OBVIOUS
<1>5. Len(p \o q) = Len(r) /\ \A i \in 1 .. Len(p \o q) : (p \o q)[i] = r[i]
  BY <1>1, <1>2, <1>3, <1>4
<1>6. p \o q = r
  BY <1>1, <1>3, <1>5, SeqEqual
<1> QED
  BY <1>6 DEF p, q, r

\* A pair of levels and three more.
LEMMA TwoAndThree ==
    ASSUME NEW a, NEW b, NEW x, NEW y, NEW z
    PROVE  <<a, b>> \o <<x, y, z>> = <<a, b, x, y, z>>
<1> DEFINE A == {a, b, x, y, z}
           p == <<a, b>>
           q == <<x, y, z>>
           r == <<a, b, x, y, z>>
<1>1. /\ p \in Seq(A) /\ q \in Seq(A) /\ r \in Seq(A)
      /\ Len(p) = 2 /\ Len(q) = 3 /\ Len(r) = 5
  OBVIOUS
<1>2. /\ p[1] = a /\ p[2] = b /\ q[1] = x /\ q[2] = y /\ q[3] = z
      /\ r[1] = a /\ r[2] = b /\ r[3] = x /\ r[4] = y /\ r[5] = z
  OBVIOUS
<1> HIDE DEF p, q, r, A
<1>3. /\ p \o q \in Seq(A) /\ Len(p \o q) = Len(p) + Len(q)
      /\ \A i \in 1 .. Len(p) + Len(q) :
           (p \o q)[i] = IF i <= Len(p) THEN p[i] ELSE q[i - Len(p)]
  BY <1>1, ConcatProperties
<1>4. \A i \in 1 .. 5 : i = 1 \/ i = 2 \/ i = 3 \/ i = 4 \/ i = 5
  OBVIOUS
<1>5. Len(p \o q) = Len(r) /\ \A i \in 1 .. Len(p \o q) : (p \o q)[i] = r[i]
  BY <1>1, <1>2, <1>3, <1>4
<1>6. p \o q = r
  BY <1>1, <1>3, <1>5, SeqEqual
<1> QED
  BY <1>6 DEF p, q, r

\* The first two levels of five.
LEMMA FirstTwo ==
    ASSUME NEW a, NEW b, NEW x, NEW y, NEW z
    PROVE  SubSeq(<<a, b, x, y, z>>, 1, 2) = <<a, b>>
<1> DEFINE A == {a, b, x, y, z}
           r == <<a, b, x, y, z>>
           p == <<a, b>>
<1>1. /\ p \in Seq(A) /\ Len(p) = 2 /\ p[1] = r[1] /\ p[2] = r[2]
      /\ r[1] \in A /\ r[2] \in A
  OBVIOUS
<1> HIDE DEF p, r, A
<1>2. \A i \in 1 .. 2 : i = 1 \/ i = 2
  OBVIOUS
<1>3. /\ SubSeq(r, 1, 2) \in Seq(A) /\ Len(SubSeq(r, 1, 2)) = 2
      /\ SubSeq(r, 1, 2)[1] = r[1] /\ SubSeq(r, 1, 2)[2] = r[2]
  BY <1>1, <1>2, SubSeqProperties
<1>5. SubSeq(r, 1, 2) = p
  BY <1>1, <1>2, <1>3, SeqEqual
<1> QED
  BY <1>5 DEF p, r

\* The command topics, level by level (topics.go).
LEMMA Levels ==
    ASSUME NEW c, NEW id
    PROVE  /\ UnitSet(c, id)     = <<c.base_topic, c.node_id, "unit", id, "set">>
           /\ TemplateSet(c, id) = <<c.base_topic, c.node_id, "template", id, "set">>
           /\ DisplayModeSet(c)  = <<c.base_topic, c.node_id, "display", "mode", "set">>
           /\ DisplaySet(c)      = <<c.base_topic, c.node_id, "display", "set">>
           /\ DaemonRestart(c)   = <<c.base_topic, c.node_id, "daemon", "restart">>
BY TwoAndTwo, TwoAndThree DEF UnitSet, TemplateSet, DisplayModeSet, DisplaySet, DaemonRestart, root

\* The command topic of a unit or of a select is parsed as that, with its id (Parse in
\* topics.go).
LEMMA SetParsed ==
    ASSUME NEW c, NEW id, id # ""
    PROVE  /\ Parse(c, UnitSet(c, id)) = Inbound("unit", id)
           /\ Parse(c, TemplateSet(c, id)) = Inbound("template", id)
<1> DEFINE topic(kind) == <<c.base_topic, c.node_id, kind, id, "set">>
<1>1. UnitSet(c, id) = topic("unit") /\ TemplateSet(c, id) = topic("template")
  BY Levels
<1>2. \A kind : topic(kind) # StatusTopic
  BY DEF StatusTopic
<1>3. \A kind \in {"unit", "template"} :
        topic(kind) \notin {DisplaySet(c), DisplayModeSet(c), DaemonRestart(c)}
  <2>1. TAKE kind \in {"unit", "template"}
  <2>2. \A x, y : topic(kind) # <<c.base_topic, c.node_id, x, y>>
    OBVIOUS
  <2>3. \A x, y : topic(kind) # <<c.base_topic, c.node_id, "display", x, y>>
    OBVIOUS
  <2> HIDE DEF topic
  <2> QED
    BY <2>2, <2>3, Levels
<1>4. \A kind : /\ Len(topic(kind)) = 5 /\ topic(kind)[3] = kind /\ topic(kind)[4] = id
                /\ topic(kind)[5] = "set" /\ SubSeq(topic(kind), 1, 2) = root(c)
  BY FirstTwo DEF root
<1> HIDE DEF topic
<1>5. Parse(c, topic("unit")) = Inbound("unit", id)
  BY <1>2, <1>3, <1>4 DEF Parse
<1>6. Parse(c, topic("template")) = Inbound("template", id)
  BY <1>2, <1>3, <1>4 DEF Parse
<1> QED
  BY <1>1, <1>5, <1>6

\* FirstOf finds the only element there is.
LEMMA FirstOfOnly ==
    ASSUME NEW A, NEW s \in Seq(A), NEW T, NEW i \in DOMAIN s, s[i] \in T,
           \A j \in DOMAIN s : s[j] \in T => j = i
    PROVE  FirstOf(s, T) = <<s[i]>>
<1> DEFINE I == {j \in 1 .. Len(s) : s[j] \in T}
<1>1. DOMAIN s = 1 .. Len(s) /\ Len(s) \in Nat
  BY LenProperties
<1>2. I = {i} /\ Min({i}) = i
  BY <1>1 DEF Min
<1>3. SelectInSeq(s, LAMBDA x : x \in T) = IF I # {} THEN Min(I) ELSE 0
  BY DEF SelectInSeq
<1> HIDE DEF I
<1>4. (IF I # {} THEN Min(I) ELSE 0) = i /\ i # 0
  BY <1>1, <1>2
<1> QED
  BY <1>3, <1>4 DEF FirstOf

\* UnitByID finds the unit whose id it is given.
LEMMA UnitByItsID ==
    ASSUME NEW c, Built(c), Validate(c), NEW u \in ToSet(c.all)
    PROVE  UnitByID(c, ObjectID(u)) = <<u>>
<1> DEFINE T == {v \in ToSet(c.all) : ObjectID(v) = ObjectID(u)}
<1>1. c.all \in Seq(ToSet(c.all)) /\ UnitByID(c, ObjectID(u)) = FirstOf(c.all, T)
  BY DEF Built, UnitByID
<1>2. PICK i \in DOMAIN c.all : c.all[i] = u
  BY DEF ToSet
<1>3. c.all[i] \in T /\ \A j \in DOMAIN c.all : c.all[j] \in T => j = i
  BY <1>2, UnitsApart
<1> HIDE DEF T
<1>4. FirstOf(c.all, T) = <<c.all[i]>>
  BY <1>1, <1>2, <1>3, FirstOfOnly
<1> QED
  BY <1>1, <1>2, <1>4

\* A message on the command topic of a unit reaches that unit and nothing else.
LEMMA SwitchReaches ==
    ASSUME NEW c, Built(c), Validate(c), NEW u \in ToSet(c.all)
    PROVE  Addressed(c, UnitSet(c, ObjectID(u))) = {<<"unit", u.name>>}
<1>1. ObjectID(u) # ""
  BY DEF Validate, NamesFit, nodeIDRe
<1>2. Parse(c, UnitSet(c, ObjectID(u))) = [kind |-> "unit", id |-> ObjectID(u)]
  BY <1>1, SetParsed DEF Inbound
<1>3. ToSet(UnitByID(c, ObjectID(u))) = {u}
  BY UnitByItsID DEF ToSet
<1> QED
  BY <1>2, <1>3 DEF Addressed

\* An option with a label of its own is chosen by that label, shown by it when its unit
\* is active, and its unit is one of the template (dispatchTemplate in commands.go,
\* TemplateState in state.go).
LEMMA OptionReaches ==
    ASSUME NEW c, Built(c), Validate(c), NEW t \in ToSet(c.templates),
           NEW sel, sel = Select(t), NEW i \in DOMAIN sel.options, NEW o, o = sel.options[i],
           o.label = Trimmed(o.label), o.label # "off",
           \A j \in DOMAIN sel.options \ {i} : sel.options[j].label # o.label
    PROVE  /\ Chosen(sel, o.label) = <<o>>
           /\ TemplateLabel(sel, {o.unit}) = o.label
           /\ \E u \in ToSet(UnitByID(c, o.unit)) : u.template = sel.id
<1>1. /\ t.instances \in Seq([name : STRING, title : STRING])
      /\ DOMAIN t.instances = 1 .. Len(t.instances) /\ Len(t.instances) \in Nat
  BY LenProperties DEF Built, TitledEntry
<1>2. /\ sel.id = t.id /\ DOMAIN sel.options = DOMAIN t.instances
      /\ \A j \in DOMAIN t.instances : sel.options[j].unit = Expanded(t)[j].id
  BY DEF Select
<1>3. sel.options \in Seq(ToSet(sel.options))
  <2>1. sel.options = [j \in DOMAIN t.instances |-> sel.options[j]]
    BY <1>2 DEF Select
  <2>2. sel.options \in [1 .. Len(t.instances) -> ToSet(sel.options)]
    BY <1>1, <1>2, <2>1 DEF ToSet
  <2> QED
    BY <1>1, <2>2, FunctionIsSeq
<1>4. PICK d \in Nat : \A j \in DOMAIN t.instances :
        d + j \in DOMAIN c.all /\ c.all[d + j] = Expanded(t)[j]
  BY DEF Built
<1>5. \A j \in DOMAIN t.instances : ObjectID(Expanded(t)[j]) = sel.options[j].unit
  BY <1>2 DEF Expanded, ObjectID
<1>6. \A j \in DOMAIN t.instances : sel.options[j].unit = o.unit => j = i
  <2>1. SUFFICES ASSUME NEW j \in DOMAIN t.instances, sel.options[j].unit = o.unit PROVE j = i
    OBVIOUS
  <2>2. ObjectID(c.all[d + j]) = ObjectID(c.all[d + i])
    BY <1>2, <1>4, <1>5, <2>1
  <2>3. d + j = d + i
    BY <1>2, <1>4, <2>2, UnitsApart
  <2> QED
    BY <1>1, <1>2, <2>3
<1>7. Chosen(sel, o.label) = <<o>>
  <2> DEFINE T == {x \in ToSet(sel.options) : o.label # "off" /\ x.label = o.label}
  <2>1. Chosen(sel, o.label) = FirstOf(sel.options, T)
    BY DEF Chosen
  <2>2. sel.options[i] \in T /\ \A j \in DOMAIN sel.options : sel.options[j] \in T => j = i
    BY DEF ToSet
  <2> HIDE DEF T
  <2> QED
    BY <1>3, <2>1, <2>2, FirstOfOnly
<1>8. TemplateLabel(sel, {o.unit}) = o.label
  <2> DEFINE T == {x \in ToSet(sel.options) : x.unit \in {o.unit}}
  <2>1. TemplateLabel(sel, {o.unit})
          = IF FirstOf(sel.options, T) = <<>> THEN "off" ELSE FirstOf(sel.options, T)[1].label
    BY DEF TemplateLabel
  <2>2. sel.options[i] \in T /\ \A j \in DOMAIN sel.options : sel.options[j] \in T => j = i
    BY <1>2, <1>6 DEF ToSet
  <2> HIDE DEF T
  <2>3. FirstOf(sel.options, T) = <<o>>
    BY <1>3, <2>2, FirstOfOnly
  <2> QED
    BY <2>1, <2>3
<1>9. \E u \in ToSet(UnitByID(c, o.unit)) : u.template = sel.id
  <2> DEFINE u == Expanded(t)[i]
  <2>1. u \in ToSet(c.all) /\ ObjectID(u) = o.unit
    BY <1>2, <1>4, <1>5 DEF ToSet
  <2>2. u.template = sel.id
    BY <1>2 DEF Expanded
  <2> HIDE DEF u
  <2>3. ToSet(UnitByID(c, o.unit)) = {u}
    BY <2>1, UnitByItsID DEF ToSet
  <2> QED
    BY <2>2, <2>3
<1> QED
  BY <1>7, <1>8, <1>9

\* A command of Home Assistant reaches the unit its entity was made for: the switch of a
\* unit and each option of a select whose label is its own (Parse in topics.go,
\* handleInbound and dispatchTemplate in commands.go).
THEOREM CommandsAlwaysReach == Spec => []CommandsReachTheirUnit
<1>1. SInv => CommandsReachTheirUnit
  <2> SUFFICES ASSUME SInv, phase = "running" PROVE CommandsReachTheirUnit
    BY DEF CommandsReachTheirUnit, Accepted
  <2>1. Built(config) /\ Validate(config)
    BY DEF SInv, Loaded
  <2>2. \A u \in ToSet(config.all) :
          Addressed(config, UnitSet(config, ObjectID(u))) = {<<"unit", u.name>>}
    BY <2>1, SwitchReaches
  <2>3. ASSUME NEW sel \in ToSet(config.selects), NEW i \in DOMAIN sel.options,
               sel.options[i].label = Trimmed(sel.options[i].label), sel.options[i].label # "off",
               \A j \in DOMAIN sel.options \ {i} : sel.options[j].label # sel.options[i].label
        PROVE  /\ Chosen(sel, sel.options[i].label) = <<sel.options[i]>>
               /\ TemplateLabel(sel, {sel.options[i].unit}) = sel.options[i].label
               /\ \E u \in ToSet(UnitByID(config, sel.options[i].unit)) : u.template = sel.id
    <3>1. PICK t \in ToSet(config.templates) : sel = Select(t)
      BY <2>1 DEF Built
    <3> QED
      BY <2>1, <2>3, <3>1, OptionReaches
  <2> QED
    BY <2>2, <2>3 DEF CommandsReachTheirUnit
<1> QED
  BY <1>1, InitSInv, StepSInv, PTL DEF Spec

-----------------------------------------------------------------------------
(* Entities *)

\* What an entity of a unit may read and command.
OfUnit(c, u) ==
    [id : {"unit_" \o ObjectID(u), "unit_" \o ObjectID(u) \o "_state",
           "unit_" \o ObjectID(u) \o "_problem", "unit_" \o ObjectID(u) \o "_restart"},
     reads : SUBSET {UnitState(c, ObjectID(u)), UnitAttributes(c, ObjectID(u)), Availability(c),
                     BusAvailability(c, u.scope)},
     cmd : {None, UnitSet(c, ObjectID(u))}]

\* The entities of a unit read and command no more than that.
LEMMA EntitiesOfUnit ==
    ASSUME NEW c, NEW u
    PROVE  UnitEntities(c, u) \in Seq(OfUnit(c, u))
<1> DEFINE id    == ObjectID(u)
           avty  == {Availability(c), BusAvailability(c, u.scope)}
           attrs == {UnitAttributes(c, id)} \cup avty
           name  == "unit_" \o id
           E     == OfUnit(c, u)
           one   == Entity(name, attrs \cup {UnitState(c, id)}, UnitSet(c, id))
           two   == Entity(name \o "_state", attrs, None)
           three == Entity(name \o "_problem", attrs, None)
           four  == Entity(name \o "_restart", avty, UnitSet(c, id))
<1>1. UnitEntities(c, u) = (<<one, two>> \o (IF Wanted(u.problem) THEN <<three>> ELSE <<>>))
                           \o (IF Wanted(u.restart) THEN <<four>> ELSE <<>>)
  BY DEF UnitEntities
<1>2. one \in E
  BY DEF OfUnit, Entity
<1>3. two \in E
  BY DEF OfUnit, Entity
<1>4. three \in E
  BY DEF OfUnit, Entity
<1>5. four \in E
  BY DEF OfUnit, Entity
<1> HIDE DEF one, two, three, four, E
<1> DEFINE p == <<one, two>>
           q == IF Wanted(u.problem) THEN <<three>> ELSE <<>>
           r == IF Wanted(u.restart) THEN <<four>> ELSE <<>>
<1>6. p \in Seq(E) /\ q \in Seq(E) /\ r \in Seq(E)
  BY <1>2, <1>3, <1>4, <1>5, EmptySeq
<1>7. UnitEntities(c, u) = (p \o q) \o r
  BY <1>1
<1> HIDE DEF p, q, r
<1>8. (p \o q) \o r \in Seq(E)
  BY <1>6, ConcatProperties
<1> QED
  BY <1>7, <1>8 DEF E

\* The entity of a bus, and those of the display.
BusEntity(c, s) == Entity("bus_" \o s, {Availability(c), BusAvailability(c, s)}, None)

DisplaySwitch(c) ==
    Entity("display",
           {Availability(c), DisplayAvailability(c), DisplayState(c), DisplayAttributes(c)},
           DisplaySet(c))

DisplayModes(c) ==
    Entity("display_mode", {Availability(c), DisplayAvailability(c), DisplayModeState(c)},
           DisplayModeSet(c))

\* The display has these, or none when it is switched off in the file.
LEMMA DisplayOnly ==
    ASSUME NEW c
    PROVE  /\ DisplayEntities(c) \in Seq({DisplaySwitch(c), DisplayModes(c)})
           /\ ~c.display => DisplayEntities(c) = <<>>
<1> DEFINE avty   == {Availability(c), DisplayAvailability(c)}
           first  == Entity("display", avty \cup {DisplayState(c), DisplayAttributes(c)},
                            DisplaySet(c))
           second == Entity("display_mode", avty \cup {DisplayModeState(c)}, DisplayModeSet(c))
<1>1. DisplayEntities(c) = IF ~c.display THEN <<>>
                           ELSE <<first>> \o (IF c.mode_select THEN <<second>> ELSE <<>>)
  BY DEF DisplayEntities
<1>2. first = DisplaySwitch(c) /\ second = DisplayModes(c)
  <2>1. /\ avty \cup {DisplayState(c), DisplayAttributes(c)}
             = {Availability(c), DisplayAvailability(c), DisplayState(c), DisplayAttributes(c)}
        /\ avty \cup {DisplayModeState(c)}
             = {Availability(c), DisplayAvailability(c), DisplayModeState(c)}
    OBVIOUS
  <2> QED
    BY <2>1 DEF DisplaySwitch, DisplayModes
<1> HIDE DEF first, second
<1> DEFINE E == {first, second}
<1>3. <<first>> \in Seq(E) /\ <<second>> \in Seq(E) /\ <<>> \in Seq(E)
  BY EmptySeq
<1> HIDE DEF E
<1>4. DisplayEntities(c) \in Seq(E)
  BY <1>1, <1>3, ConcatProperties
<1> QED
  BY <1>1, <1>2, <1>4 DEF E

\* The lists that BuildDiscovery joins, and of what they are.
OfUnits(c)   == [i \in DOMAIN c.all |-> UnitEntities(c, c.all[i])]
OfSelects(c) == [i \in DOMAIN c.selects |-> SelectEntity(c, c.selects[i])]
OfBuses(c)   == [i \in DOMAIN ScopesOf(c) |-> BusEntity(c, ScopesOf(c)[i])]
OfDaemon(c)  == <<Entity("version", {Availability(c), DaemonState(c)}, None),
                  Entity("started", {Availability(c), DaemonState(c)}, None),
                  Entity("daemon_restart", {Availability(c)}, DaemonRestart(c))>>

AnyUnits(c)   == UNION {OfUnit(c, u) : u \in ToSet(c.all)}
AnySelects(c) == {SelectEntity(c, s) : s \in ToSet(c.selects)}
AnyBuses(c)   == {BusEntity(c, s) : s \in ToSet(ScopesOf(c))}

\* BuildDiscovery joins these lists, and they are of that.
LEMMA EntityLists ==
    ASSUME NEW c, Built(c)
    PROVE  /\ BuildDiscovery(c) = (((FlattenSeq(OfUnits(c)) \o OfSelects(c)) \o DisplayEntities(c))
                                   \o OfBuses(c)) \o OfDaemon(c)
           /\ OfUnits(c) \in Seq(Seq(AnyUnits(c))) /\ Len(OfUnits(c)) = Len(c.all)
           /\ \A i \in 1 .. Len(c.all) : OfUnits(c)[i] = UnitEntities(c, c.all[i])
           /\ OfSelects(c) \in Seq(AnySelects(c)) /\ OfBuses(c) \in Seq(AnyBuses(c))
           /\ DisplayEntities(c) \in Seq(ToSet(DisplayEntities(c)))
           /\ OfDaemon(c) \in Seq(ToSet(OfDaemon(c)))
<1>1. BuildDiscovery(c) = (((FlattenSeq(OfUnits(c)) \o OfSelects(c)) \o DisplayEntities(c))
                           \o OfBuses(c)) \o OfDaemon(c)
  BY DEF BuildDiscovery, OfUnits, OfSelects, OfBuses, OfDaemon, BusEntity
<1>2. c.all \in Seq(ToSet(c.all)) /\ DOMAIN c.all = 1 .. Len(c.all) /\ Len(c.all) \in Nat
  BY LenProperties DEF Built
<1>3. /\ OfUnits(c) \in Seq(Seq(AnyUnits(c))) /\ Len(OfUnits(c)) = Len(c.all)
      /\ \A i \in 1 .. Len(c.all) : OfUnits(c)[i] = UnitEntities(c, c.all[i])
  <2>1. \A i \in 1 .. Len(c.all) : OfUnits(c)[i] = UnitEntities(c, c.all[i])
    BY <1>2 DEF OfUnits
  <2>2. \A i \in 1 .. Len(c.all) : UnitEntities(c, c.all[i]) \in Seq(AnyUnits(c))
    <3>1. TAKE i \in 1 .. Len(c.all)
    <3>2. c.all[i] \in ToSet(c.all)
      BY <1>2 DEF ToSet
    <3>3. OfUnit(c, c.all[i]) \subseteq AnyUnits(c)
      BY <3>2 DEF AnyUnits
    <3> QED
      BY <3>3, EntitiesOfUnit, SeqMonotonic
  <2>3. OfUnits(c) \in [1 .. Len(c.all) -> Seq(AnyUnits(c))]
    BY <1>2, <2>1, <2>2 DEF OfUnits
  <2> QED
    BY <1>2, <2>1, <2>3, FunctionIsSeq
<1>4. OfSelects(c) \in Seq(AnySelects(c))
  <2>1. DOMAIN c.selects = 1 .. Len(c.selects) /\ Len(c.selects) \in Nat
    BY LenProperties DEF Built
  <2>2. OfSelects(c) \in [1 .. Len(c.selects) -> AnySelects(c)]
    BY <2>1 DEF ToSet, OfSelects, AnySelects
  <2> QED
    BY <2>1, <2>2, FunctionIsSeq
<1>5. OfBuses(c) \in Seq(AnyBuses(c))
  <2>1. Scopes \in Seq({"user", "system"})
    BY DEF Scopes
  <2>2. ScopesOf(c) \in Seq(ToSet(Scopes) \cap {s \in ToSet(Scopes) : UnitsForScope(c, s) # <<>>})
    BY <2>1, ThoseElements DEF ScopesOf
  <2>3. DOMAIN ScopesOf(c) = 1 .. Len(ScopesOf(c)) /\ Len(ScopesOf(c)) \in Nat
    BY <2>2, LenProperties
  <2>4. \A i \in 1 .. Len(ScopesOf(c)) : ScopesOf(c)[i] \in ToSet(ScopesOf(c))
    BY <2>3 DEF ToSet
  <2>5. OfBuses(c) \in [1 .. Len(ScopesOf(c)) -> AnyBuses(c)]
    BY <2>3, <2>4 DEF OfBuses, AnyBuses
  <2> QED
    BY <2>3, <2>5, FunctionIsSeq
<1>6. DisplayEntities(c) \in Seq(ToSet(DisplayEntities(c)))
  BY DisplayOnly, SeqOfOwn
<1>7. OfDaemon(c) \in Seq(ToSet(OfDaemon(c)))
  <2> DEFINE x == Entity("version", {Availability(c), DaemonState(c)}, None)
             y == Entity("started", {Availability(c), DaemonState(c)}, None)
             z == Entity("daemon_restart", {Availability(c)}, DaemonRestart(c))
  <2>1. OfDaemon(c) = <<x, y, z>>
    BY DEF OfDaemon
  <2> HIDE DEF x, y, z
  <2>2. OfDaemon(c) \in Seq({x, y, z})
    BY <2>1
  <2> QED
    BY <2>2, SeqOfOwn
<1> QED
  BY <1>1, <1>3, <1>4, <1>5, <1>6, <1>7

\* Two sequences joined.
LEMMA JoinedTyped ==
    ASSUME NEW A, NEW B, NEW s \in Seq(A), NEW t \in Seq(B) PROVE s \o t \in Seq(A \cup B)
<1>1. s \in Seq(A \cup B) /\ t \in Seq(A \cup B)
  BY SeqMonotonic
<1> QED
  BY <1>1, ConcatProperties

\* What is in two sequences joined is in the one or the other.
LEMMA ToSetJoined ==
    \A A, B : \A s \in Seq(A) : \A t \in Seq(B) : ToSet(s \o t) = ToSet(s) \cup ToSet(t)
<1> SUFFICES ASSUME NEW A, NEW B, NEW s \in Seq(A), NEW t \in Seq(B)
             PROVE  ToSet(s \o t) = ToSet(s) \cup ToSet(t)
  OBVIOUS
<1>1. s \in Seq(A \cup B) /\ t \in Seq(A \cup B)
  BY SeqMonotonic
<1> DEFINE q == s \o t
<1>2. /\ q \in Seq(A \cup B) /\ Len(q) = Len(s) + Len(t)
      /\ \A i \in 1 .. Len(q) : q[i] = IF i <= Len(s) THEN s[i] ELSE t[i - Len(s)]
  BY <1>1, ConcatProperties
<1>3. /\ DOMAIN q = 1 .. Len(q) /\ DOMAIN s = 1 .. Len(s) /\ DOMAIN t = 1 .. Len(t)
      /\ Len(s) \in Nat /\ Len(t) \in Nat
  BY <1>2, LenProperties
<1> HIDE DEF q
<1>4. ASSUME NEW x \in ToSet(q) PROVE x \in ToSet(s) \cup ToSet(t)
  <2>2. PICK i \in 1 .. Len(q) : x = q[i]
    BY <1>3 DEF ToSet
  <2>3. CASE i <= Len(s)
    <3>1. i \in DOMAIN s /\ x = s[i]
      BY <1>2, <1>3, <2>2, <2>3
    <3> QED
      BY <3>1 DEF ToSet
  <2>4. CASE ~(i <= Len(s))
    <3>1. i - Len(s) \in DOMAIN t /\ x = t[i - Len(s)]
      BY <1>2, <1>3, <2>2, <2>4
    <3> QED
      BY <3>1 DEF ToSet
  <2> QED
    BY <2>3, <2>4
<1>5. ASSUME NEW x \in ToSet(s) PROVE x \in ToSet(q)
  <2>2. PICK i \in 1 .. Len(s) : x = s[i]
    BY <1>3 DEF ToSet
  <2>3. i \in 1 .. Len(q) /\ q[i] = x
    BY <1>2, <1>3, <2>2
  <2> QED
    BY <1>3, <2>3 DEF ToSet
<1>6. ASSUME NEW x \in ToSet(t) PROVE x \in ToSet(q)
  <2>2. PICK i \in 1 .. Len(t) : x = t[i]
    BY <1>3 DEF ToSet
  <2>3. Len(s) + i \in 1 .. Len(q) /\ ~(Len(s) + i <= Len(s)) /\ Len(s) + i - Len(s) = i
    BY <1>2, <1>3
  <2>4. q[Len(s) + i] = x
    BY <1>2, <2>2, <2>3
  <2> QED
    BY <1>3, <2>3, <2>4 DEF ToSet
<1> QED
  BY <1>2, <1>4, <1>5, <1>6 DEF q

\* Every entity is of one of the lists.
LEMMA DiscoveryLists ==
    ASSUME NEW c, Built(c)
    PROVE  ToSet(BuildDiscovery(c)) =
             (((ToSet(FlattenSeq(OfUnits(c))) \cup ToSet(OfSelects(c)))
               \cup ToSet(DisplayEntities(c))) \cup ToSet(OfBuses(c))) \cup ToSet(OfDaemon(c))
<1> DEFINE a == FlattenSeq(OfUnits(c))
           b == OfSelects(c)
           d == DisplayEntities(c)
           e == OfBuses(c)
           f == OfDaemon(c)
           A == AnyUnits(c)
           B == AnySelects(c)
           D == ToSet(DisplayEntities(c))
           E == AnyBuses(c)
           F == ToSet(OfDaemon(c))
<1>1. /\ a \in Seq(A) /\ b \in Seq(B) /\ d \in Seq(D) /\ e \in Seq(E) /\ f \in Seq(F)
      /\ BuildDiscovery(c) = (((a \o b) \o d) \o e) \o f
  BY EntityLists, FlattenJoined
<1> HIDE DEF a, b, d, e, f, A, B, D, E, F
<1> DEFINE ab  == a \o b
           abd == ab \o d
           abde == abd \o e
<1>2. ab \in Seq(A \cup B) /\ ToSet(ab) = ToSet(a) \cup ToSet(b)
  BY <1>1, JoinedTyped, ToSetJoined
<1> HIDE DEF ab
<1>3. abd \in Seq((A \cup B) \cup D) /\ ToSet(abd) = ToSet(ab) \cup ToSet(d)
  BY <1>1, <1>2, JoinedTyped, ToSetJoined
<1> HIDE DEF abd
<1>4. abde \in Seq(((A \cup B) \cup D) \cup E) /\ ToSet(abde) = ToSet(abd) \cup ToSet(e)
  BY <1>1, <1>3, JoinedTyped, ToSetJoined
<1> HIDE DEF abde
<1>5. ToSet(abde \o f) = ToSet(abde) \cup ToSet(f)
  BY <1>1, <1>4, JoinedTyped, ToSetJoined
<1>6. BuildDiscovery(c) = abde \o f
  BY <1>1 DEF abde, abd, ab
<1> QED
  BY <1>2, <1>3, <1>4, <1>5, <1>6 DEF a, b, d, e, f

\* Every entity is one of a unit, a select, the display, a bus or the daemon.
LEMMA EntitySources ==
    ASSUME NEW c, Built(c), NEW e \in ToSet(BuildDiscovery(c))
    PROVE  \/ \E u \in ToSet(c.all) : e \in OfUnit(c, u)
           \/ \E s \in ToSet(c.selects) : e = SelectEntity(c, s)
           \/ e \in ToSet(DisplayEntities(c))
           \/ \E s \in ToSet(ScopesOf(c)) : e = BusEntity(c, s)
           \/ e.reads = {Availability(c), DaemonState(c)} /\ e.cmd = None
           \/ e.reads = {Availability(c)} /\ e.cmd = DaemonRestart(c)
<1>1. /\ ToSet(FlattenSeq(OfUnits(c))) \subseteq AnyUnits(c)
      /\ ToSet(OfSelects(c)) \subseteq AnySelects(c) /\ ToSet(OfBuses(c)) \subseteq AnyBuses(c)
  BY EntityLists, FlattenJoined, SeqOfOwn
<1>2. \/ e \in AnyUnits(c) \/ e \in AnySelects(c) \/ e \in ToSet(DisplayEntities(c))
      \/ e \in AnyBuses(c) \/ e \in ToSet(OfDaemon(c))
  BY <1>1, DiscoveryLists
<1>3. CASE e \in ToSet(OfDaemon(c))
  <2> DEFINE x == Entity("version", {Availability(c), DaemonState(c)}, None)
             y == Entity("started", {Availability(c), DaemonState(c)}, None)
             z == Entity("daemon_restart", {Availability(c)}, DaemonRestart(c))
  <2>1. /\ x.reads = {Availability(c), DaemonState(c)} /\ x.cmd = None
        /\ y.reads = {Availability(c), DaemonState(c)} /\ y.cmd = None
        /\ z.reads = {Availability(c)} /\ z.cmd = DaemonRestart(c)
    BY DEF Entity
  <2>2. OfDaemon(c) = <<x, y, z>>
    BY DEF OfDaemon
  <2> HIDE DEF x, y, z
  <2>3. e \in {x, y, z}
    BY <1>3, <2>2 DEF ToSet
  <2> QED
    BY <2>1, <2>3
<1> QED
  BY <1>2, <1>3 DEF AnyUnits, AnySelects, AnyBuses

-----------------------------------------------------------------------------
(* Topics: which are published, which are handled *)

\* The topics that are published, level by level (topics.go).
LEMMA MoreLevels ==
    ASSUME NEW c
    PROVE  /\ Availability(c)        = <<c.base_topic, c.node_id, "availability">>
           /\ DisplayState(c)        = <<c.base_topic, c.node_id, "display", "state">>
           /\ DisplayModeState(c)    = <<c.base_topic, c.node_id, "display", "mode", "state">>
           /\ DisplayAttributes(c)   = <<c.base_topic, c.node_id, "display", "attributes">>
           /\ DisplayAvailability(c) = <<c.base_topic, c.node_id, "display", "availability">>
           /\ DaemonState(c)         = <<c.base_topic, c.node_id, "daemon", "state">>
           /\ \A s : BusAvailability(c, s) = <<c.base_topic, c.node_id, "bus", s, "availability">>
           /\ \A id :
                /\ UnitState(c, id)      = <<c.base_topic, c.node_id, "unit", id, "state">>
                /\ UnitAttributes(c, id) = <<c.base_topic, c.node_id, "unit", id, "attributes">>
                /\ TemplateState(c, id)  = <<c.base_topic, c.node_id, "template", id, "state">>
<1>1. \A x : root(c) \o <<x>> = <<c.base_topic, c.node_id, x>>
  BY TwoAndOne DEF root
<1>2. \A x, y : root(c) \o <<x, y>> = <<c.base_topic, c.node_id, x, y>>
  BY TwoAndTwo DEF root
<1>3. \A x, y, z : root(c) \o <<x, y, z>> = <<c.base_topic, c.node_id, x, y, z>>
  BY TwoAndThree DEF root
<1> QED
  BY <1>1, <1>2, <1>3
     DEF Availability, BusAvailability, UnitState, UnitAttributes, TemplateState, DisplayState,
         DisplayModeState, DisplayAttributes, DisplayAvailability, DaemonState

\* The last of three levels.
LEMMA LastOfThree == ASSUME NEW a, NEW b, NEW x PROVE Last(<<a, b, x>>) = x
BY DEF Last

\* The last of four.
LEMMA LastOfFour == ASSUME NEW a, NEW b, NEW x, NEW y PROVE Last(<<a, b, x, y>>) = y
BY DEF Last

\* The last of five.
LEMMA LastOfFive ==
    ASSUME NEW a, NEW b, NEW x, NEW y, NEW z PROVE Last(<<a, b, x, y, z>>) = z
BY DEF Last

\* What a full publish sends ends in "availability", "state", "attributes" or "config".
LEMMA PublishedEnds ==
    ASSUME NEW c, NEW known, NEW t \in Published(c, known, TRUE)
    PROVE  Last(t) \in {"availability", "state", "attributes", "config"}
<1> DEFINE Ends(x) == Last(x) \in {"availability", "state", "attributes", "config"}
<1>1. /\ Ends(Availability(c)) /\ \A s : Ends(BusAvailability(c, s))
      /\ \A id : Ends(UnitState(c, id)) /\ Ends(UnitAttributes(c, id)) /\ Ends(TemplateState(c, id))
  <2>1. ASSUME NEW s PROVE Ends(BusAvailability(c, s))
    <3>1. BusAvailability(c, s) = <<c.base_topic, c.node_id, "bus", s, "availability">>
      BY MoreLevels
    <3> QED
      BY <3>1, LastOfFive
  <2>2. Ends(Availability(c))
    BY MoreLevels, LastOfThree
  <2>3. ASSUME NEW id
        PROVE  Ends(UnitState(c, id)) /\ Ends(UnitAttributes(c, id)) /\ Ends(TemplateState(c, id))
    <3>1. /\ UnitState(c, id)      = <<c.base_topic, c.node_id, "unit", id, "state">>
          /\ UnitAttributes(c, id) = <<c.base_topic, c.node_id, "unit", id, "attributes">>
          /\ TemplateState(c, id)  = <<c.base_topic, c.node_id, "template", id, "state">>
      BY MoreLevels
    <3> QED
      BY <3>1, LastOfFive
  <2> HIDE DEF Ends
  <2> QED
    BY <2>1, <2>2, <2>3
<1>2. /\ Ends(DisplayState(c)) /\ Ends(DisplayModeState(c)) /\ Ends(DisplayAttributes(c))
      /\ Ends(DisplayAvailability(c)) /\ Ends(DaemonState(c))
  BY MoreLevels, LastOfFour, LastOfFive
<1>3. Ends(DiscoveryConfig(c))
  BY LastOfThree, LastOfFour, LastOfFive DEF DiscoveryConfig
<1> HIDE DEF Ends
<1>4. \A x \in UnitTopics(c, known) : Ends(x)
  BY <1>1 DEF UnitTopics
<1>5. \A x \in DisplayTopics(c, TRUE) : Ends(x)
  BY <1>2 DEF DisplayTopics
<1>6. Ends(t)
  BY <1>1, <1>2, <1>3, <1>4, <1>5 DEF Published
<1> QED
  BY <1>6 DEF Ends

\* What Home Assistant commands ends in "set" or "restart".
LEMMA CommandEnds ==
    ASSUME NEW c, NEW id
    PROVE  /\ Last(UnitSet(c, id)) = "set" /\ Last(TemplateSet(c, id)) = "set"
           /\ Last(DisplaySet(c)) = "set" /\ Last(DisplayModeSet(c)) = "set"
           /\ Last(DaemonRestart(c)) = "restart"
BY Levels, LastOfThree, LastOfFour, LastOfFive

\* A last level that is there.
Given(level) == level # ""

\* A filter without "#" and without an empty last level matches level by level.
LEMMA MatchedByLevel ==
    ASSUME NEW A, NEW filter \in Seq(A), filter # <<>>, Given(Last(filter)),
           \A i \in DOMAIN filter : filter[i] # "#", NEW topic
    PROVE  TopicMatches(filter, topic)
             <=> \/ filter = topic
                 \/ /\ Len(filter) <= Len(topic) /\ Len(filter) = Len(topic)
                    /\ \A i \in 1 .. Len(filter) : filter[i] \in {"+", topic[i]}
<1> DEFINE hash == {i \in DOMAIN filter : filter[i] = "#"}
<1>1. hash = {}
  OBVIOUS
<1> QED
  BY <1>1 DEF TopicMatches, Given

\* A filter of four levels matches those level by level.
LEMMA FourMatched ==
    ASSUME NEW a, NEW b, NEW x, NEW y, a # "#", b # "#", x # "#", y # "#", Given(y),
           NEW topic
    PROVE  TopicMatches(<<a, b, x, y>>, topic)
             <=> \/ <<a, b, x, y>> = topic
                 \/ /\ 4 <= Len(topic) /\ 4 = Len(topic)
                    /\ a \in {"+", topic[1]} /\ b \in {"+", topic[2]}
                    /\ x \in {"+", topic[3]} /\ y \in {"+", topic[4]}
<1> DEFINE f == <<a, b, x, y>>
<1>1. /\ f \in Seq({a, b, x, y}) /\ f # <<>> /\ Given(Last(f)) /\ Len(f) = 4
      /\ f[1] = a /\ f[2] = b /\ f[3] = x /\ f[4] = y
  BY LastOfThree, LastOfFour, LastOfFive
<1>2. DOMAIN f = 1 .. 4 /\ \A i \in 1 .. 4 : i = 1 \/ i = 2 \/ i = 3 \/ i = 4
  OBVIOUS
<1>3. 1 \in 1 .. 4 /\ 2 \in 1 .. 4 /\ 3 \in 1 .. 4 /\ 4 \in 1 .. 4
  OBVIOUS
<1> HIDE DEF f
<1>4. \A i \in DOMAIN f : f[i] # "#"
  BY <1>1, <1>2
<1>5. TopicMatches(f, topic)
        <=> \/ f = topic
            \/ /\ 4 <= Len(topic) /\ 4 = Len(topic)
               /\ \A i \in 1 .. 4 : f[i] \in {"+", topic[i]}
  <2>1. TopicMatches(f, topic)
          <=> \/ f = topic
              \/ /\ Len(f) <= Len(topic) /\ Len(f) = Len(topic)
                 /\ \A i \in 1 .. Len(f) : f[i] \in {"+", topic[i]}
    BY <1>1, <1>4, MatchedByLevel
  <2> QED
    BY <1>1, <2>1
<1>6. (\A i \in 1 .. 4 : f[i] \in {"+", topic[i]})
        <=> /\ a \in {"+", topic[1]} /\ b \in {"+", topic[2]}
            /\ x \in {"+", topic[3]} /\ y \in {"+", topic[4]}
  BY <1>1, <1>2, <1>3
<1> QED
  BY <1>5, <1>6 DEF f

\* The same for five levels.
LEMMA FiveMatched ==
    ASSUME NEW a, NEW b, NEW x, NEW y, NEW z,
           a # "#", b # "#", x # "#", y # "#", z # "#", Given(z), NEW topic
    PROVE  TopicMatches(<<a, b, x, y, z>>, topic)
             <=> \/ <<a, b, x, y, z>> = topic
                 \/ /\ 5 <= Len(topic) /\ 5 = Len(topic)
                    /\ a \in {"+", topic[1]} /\ b \in {"+", topic[2]}
                    /\ x \in {"+", topic[3]} /\ y \in {"+", topic[4]} /\ z \in {"+", topic[5]}
<1> DEFINE f == <<a, b, x, y, z>>
<1>1. /\ f \in Seq({a, b, x, y, z}) /\ f # <<>> /\ Given(Last(f)) /\ Len(f) = 5
      /\ f[1] = a /\ f[2] = b /\ f[3] = x /\ f[4] = y /\ f[5] = z
  BY LastOfThree, LastOfFour, LastOfFive
<1>2. DOMAIN f = 1 .. 5 /\ \A i \in 1 .. 5 : i = 1 \/ i = 2 \/ i = 3 \/ i = 4 \/ i = 5
  OBVIOUS
<1>3. 1 \in 1 .. 5 /\ 2 \in 1 .. 5 /\ 3 \in 1 .. 5 /\ 4 \in 1 .. 5 /\ 5 \in 1 .. 5
  OBVIOUS
<1> HIDE DEF f
<1>4. \A i \in DOMAIN f : f[i] # "#"
  BY <1>1, <1>2
<1>5. TopicMatches(f, topic)
        <=> \/ f = topic
            \/ /\ 5 <= Len(topic) /\ 5 = Len(topic)
               /\ \A i \in 1 .. 5 : f[i] \in {"+", topic[i]}
  <2>1. TopicMatches(f, topic)
          <=> \/ f = topic
              \/ /\ Len(f) <= Len(topic) /\ Len(f) = Len(topic)
                 /\ \A i \in 1 .. Len(f) : f[i] \in {"+", topic[i]}
    BY <1>1, <1>4, MatchedByLevel
  <2> QED
    BY <1>1, <2>1
<1>6. (\A i \in 1 .. 5 : f[i] \in {"+", topic[i]})
        <=> /\ a \in {"+", topic[1]} /\ b \in {"+", topic[2]}
            /\ x \in {"+", topic[3]} /\ y \in {"+", topic[4]} /\ z \in {"+", topic[5]}
  BY <1>1, <1>2, <1>3
<1> QED
  BY <1>5, <1>6 DEF f

\* The filter of Home Assistant's own status takes none of the daemon's topics.
LEMMA StatusUnmatched ==
    ASSUME NEW topic, Len(topic) # 2, Len(topic) \in Nat PROVE ~TopicMatches(StatusTopic, topic)
<1>1. /\ StatusTopic \in Seq({"homeassistant", "status"}) /\ StatusTopic # <<>>
      /\ Len(StatusTopic) = 2 /\ Last(StatusTopic) = "status"
      /\ \A i \in DOMAIN StatusTopic : StatusTopic[i] # "#"
  BY DEF StatusTopic, Last
<1>2. Given("status")
  BY Zenon DEF Given
<1> QED
  BY <1>1, <1>2, MatchedByLevel

\* A level that is no wildcard.
Literal(level) == level \notin {"+", "#"}

\* Validate lets no "#" into the first two levels.
LEMMA LiteralRoot ==
    ASSUME NEW c, Validate(c) PROVE c.base_topic # "#" /\ c.node_id # "#"
BY Zenon DEF Validate, nodeIDRe

\* A filter and a topic of five levels under the same root.
LEMMA FiveByFive ==
    ASSUME NEW b, NEW n, b # "#", n # "#", NEW p, Literal(p), NEW q, q # "#", NEW x, NEW y
    PROVE  TopicMatches(<<b, n, p, q, "set">>, <<b, n, x, y, "set">>)
             <=> p = x /\ q \in {"+", y}
<1> DEFINE topic == <<b, n, x, y, "set">>
           f == <<b, n, p, q, "set">>
<1>1. /\ Len(topic) = 5 /\ topic[1] = b /\ topic[2] = n /\ topic[3] = x
      /\ topic[4] = y /\ topic[5] = "set"
  OBVIOUS
<1>2. f = topic => p = x /\ q = y
  OBVIOUS
<1>3. Given("set")
  BY Zenon DEF Given
<1> HIDE DEF topic
<1>4. TopicMatches(f, topic)
        <=> \/ f = topic
            \/ /\ 5 <= Len(topic) /\ 5 = Len(topic)
               /\ b \in {"+", topic[1]} /\ n \in {"+", topic[2]}
               /\ p \in {"+", topic[3]} /\ q \in {"+", topic[4]} /\ "set" \in {"+", topic[5]}
  <2>1. p # "#" /\ "set" # "#"
    BY DEF Literal
  <2> QED
    BY <1>3, <2>1, FiveMatched
<1> HIDE DEF f
<1> QED
  BY <1>1, <1>2, <1>4 DEF Literal, topic, f

\* A filter and a topic of four levels under the same root.
LEMMA FourByFour ==
    ASSUME NEW b, NEW n, b # "#", n # "#", NEW p, Literal(p), NEW q, Literal(q), Given(q),
           NEW x, NEW y
    PROVE  TopicMatches(<<b, n, p, q>>, <<b, n, x, y>>) <=> p = x /\ q = y
<1> DEFINE topic == <<b, n, x, y>>
           f == <<b, n, p, q>>
<1>1. Len(topic) = 4 /\ topic[1] = b /\ topic[2] = n /\ topic[3] = x /\ topic[4] = y
  OBVIOUS
<1>2. f = topic => p = x /\ q = y
  OBVIOUS
<1> HIDE DEF topic
<1>3. TopicMatches(f, topic)
        <=> \/ f = topic
            \/ /\ 4 <= Len(topic) /\ 4 = Len(topic)
               /\ b \in {"+", topic[1]} /\ n \in {"+", topic[2]}
               /\ p \in {"+", topic[3]} /\ q \in {"+", topic[4]}
  <2>1. p # "#" /\ q # "#"
    BY DEF Literal
  <2> QED
    BY <2>1, FourMatched
<1> HIDE DEF f
<1> QED
  BY <1>1, <1>2, <1>3 DEF Literal, topic, f

\* A filter of four levels and a topic of five, and the other way round.
LEMMA LevelsDiffer ==
    ASSUME NEW b, NEW n, b # "#", n # "#", NEW p, Literal(p), NEW q, Literal(q), Given(q), NEW r,
           r # "#", NEW x, NEW y
    PROVE  /\ ~TopicMatches(<<b, n, p, q>>, <<b, n, x, y, "set">>)
           /\ ~TopicMatches(<<b, n, p, r, "set">>, <<b, n, x, y>>)
           /\ ~TopicMatches(StatusTopic, <<b, n, x, y, "set">>)
           /\ ~TopicMatches(StatusTopic, <<b, n, x, y>>)
<1> DEFINE four == <<b, n, x, y>>
           five == <<b, n, x, y, "set">>
           f4 == <<b, n, p, q>>
           f5 == <<b, n, p, r, "set">>
<1>1. Len(four) = 4 /\ Len(five) = 5 /\ Len(f4) = 4 /\ Len(f5) = 5
  OBVIOUS
<1>2. p # "#" /\ q # "#" /\ "set" # "#"
  BY DEF Literal
<1>3. Given("set")
  BY Zenon DEF Given
<1> HIDE DEF four, five
<1>4. ~TopicMatches(f4, five)
  <2>1. f4 # five /\ ~(4 = Len(five))
    BY <1>1
  <2> QED
    BY <1>2, <2>1, FourMatched
<1>5. ~TopicMatches(f5, four)
  <2>1. f5 # four /\ ~(5 = Len(four))
    BY <1>1
  <2> QED
    BY <1>2, <1>3, <2>1, FiveMatched
<1>6. ~TopicMatches(StatusTopic, five) /\ ~TopicMatches(StatusTopic, four)
  BY <1>1, StatusUnmatched
<1> QED
  BY <1>4, <1>5, <1>6 DEF four, five

\* The filters that take a topic of five levels.
LEMMA FiveRouted ==
    ASSUME NEW c, Validate(c), NEW x, NEW y
    PROVE  LET topic == <<c.base_topic, c.node_id, x, y, "set">>
           IN  /\ TopicMatches(UnitSet(c, "+"), topic) <=> x = "unit"
               /\ TopicMatches(TemplateSet(c, "+"), topic) <=> x = "template"
               /\ TopicMatches(DisplayModeSet(c), topic) <=> x = "display" /\ y = "mode"
               /\ ~TopicMatches(DisplaySet(c), topic) /\ ~TopicMatches(DaemonRestart(c), topic)
               /\ ~TopicMatches(StatusTopic, topic)
<1> DEFINE b == c.base_topic
           n == c.node_id
<1>1. b # "#" /\ n # "#"
  BY LiteralRoot
<1>2. /\ Literal("unit") /\ Literal("template") /\ Literal("display") /\ Literal("daemon")
      /\ Literal("set") /\ Literal("restart") /\ "mode" # "#" /\ "+" # "#" /\ "mode" # "+"
  BY DEF Literal
<1>3. Given("set") /\ Given("restart")
  BY Zenon DEF Given
<1>4. /\ UnitSet(c, "+") = <<b, n, "unit", "+", "set">>
      /\ TemplateSet(c, "+") = <<b, n, "template", "+", "set">>
      /\ DisplayModeSet(c) = <<b, n, "display", "mode", "set">>
      /\ DisplaySet(c) = <<b, n, "display", "set">>
      /\ DaemonRestart(c) = <<b, n, "daemon", "restart">>
  BY Levels
<1> HIDE DEF b, n
<1> DEFINE topic == <<b, n, x, y, "set">>
<1>5. TopicMatches(UnitSet(c, "+"), topic) <=> x = "unit"
  BY <1>1, <1>2, <1>4, FiveByFive
<1>6. TopicMatches(TemplateSet(c, "+"), topic) <=> x = "template"
  BY <1>1, <1>2, <1>4, FiveByFive
<1>7. TopicMatches(DisplayModeSet(c), topic) <=> x = "display" /\ y = "mode"
  BY <1>1, <1>2, <1>4, FiveByFive
<1>8. /\ ~TopicMatches(DisplaySet(c), topic) /\ ~TopicMatches(DaemonRestart(c), topic)
      /\ ~TopicMatches(StatusTopic, topic)
  BY <1>1, <1>2, <1>3, <1>4, LevelsDiffer
<1> QED
  BY <1>5, <1>6, <1>7, <1>8 DEF b, n

\* The filters that take a topic of four levels.
LEMMA FourRouted ==
    ASSUME NEW c, Validate(c), NEW x, NEW y
    PROVE  LET topic == <<c.base_topic, c.node_id, x, y>>
           IN  /\ TopicMatches(DisplaySet(c), topic) <=> x = "display" /\ y = "set"
               /\ TopicMatches(DaemonRestart(c), topic) <=> x = "daemon" /\ y = "restart"
               /\ ~TopicMatches(UnitSet(c, "+"), topic) /\ ~TopicMatches(TemplateSet(c, "+"), topic)
               /\ ~TopicMatches(DisplayModeSet(c), topic) /\ ~TopicMatches(StatusTopic, topic)
<1> DEFINE b == c.base_topic
           n == c.node_id
<1>1. b # "#" /\ n # "#"
  BY LiteralRoot
<1>2. /\ Literal("unit") /\ Literal("template") /\ Literal("display") /\ Literal("daemon")
      /\ Literal("set") /\ Literal("restart") /\ "mode" # "#" /\ "+" # "#"
  BY DEF Literal
<1>3. Given("set") /\ Given("restart")
  BY Zenon DEF Given
<1>4. /\ UnitSet(c, "+") = <<b, n, "unit", "+", "set">>
      /\ TemplateSet(c, "+") = <<b, n, "template", "+", "set">>
      /\ DisplayModeSet(c) = <<b, n, "display", "mode", "set">>
      /\ DisplaySet(c) = <<b, n, "display", "set">>
      /\ DaemonRestart(c) = <<b, n, "daemon", "restart">>
  BY Levels
<1> HIDE DEF b, n
<1> DEFINE topic == <<b, n, x, y>>
<1>5. TopicMatches(DisplaySet(c), topic) <=> x = "display" /\ y = "set"
  BY <1>1, <1>2, <1>3, <1>4, FourByFour
<1>6. TopicMatches(DaemonRestart(c), topic) <=> x = "daemon" /\ y = "restart"
  BY <1>1, <1>2, <1>3, <1>4, FourByFour
<1>7. ~TopicMatches(UnitSet(c, "+"), topic) /\ ~TopicMatches(TemplateSet(c, "+"), topic)
  BY <1>1, <1>2, <1>3, <1>4, LevelsDiffer
<1>8. ~TopicMatches(DisplayModeSet(c), topic) /\ ~TopicMatches(StatusTopic, topic)
  BY <1>1, <1>2, <1>3, <1>4, LevelsDiffer
<1> QED
  BY <1>5, <1>6, <1>7, <1>8 DEF b, n

\* Each command topic has one filter that takes it.
LEMMA RoutedOnce ==
    ASSUME NEW c, Validate(c)
    PROVE  /\ \A id : Cardinality(route(c, UnitSet(c, id))) = 1
           /\ \A id : Cardinality(route(c, TemplateSet(c, id))) = 1
           /\ Cardinality(route(c, DaemonRestart(c))) = 1
           /\ c.display => /\ Cardinality(route(c, DisplaySet(c))) = 1
                           /\ Cardinality(route(c, DisplayModeSet(c))) = 1
<1> DEFINE b == c.base_topic
           n == c.node_id
<1>1. /\ \A id : UnitSet(c, id) = <<b, n, "unit", id, "set">>
      /\ \A id : TemplateSet(c, id) = <<b, n, "template", id, "set">>
      /\ DisplayModeSet(c) = <<b, n, "display", "mode", "set">>
      /\ DisplaySet(c) = <<b, n, "display", "set">>
      /\ DaemonRestart(c) = <<b, n, "daemon", "restart">>
  BY Levels
<1> HIDE DEF b, n
<1>2. \A f : Cardinality({f}) = 1
  BY FS_Singleton
<1>3. ASSUME NEW id PROVE route(c, UnitSet(c, id)) = {UnitSet(c, "+")}
  <2>1. UnitSet(c, id) = <<b, n, "unit", id, "set">>
    BY <1>1
  <2>2. /\ TopicMatches(UnitSet(c, "+"), UnitSet(c, id))
        /\ ~TopicMatches(TemplateSet(c, "+"), UnitSet(c, id))
        /\ ~TopicMatches(DisplayModeSet(c), UnitSet(c, id))
        /\ ~TopicMatches(DisplaySet(c), UnitSet(c, id))
        /\ ~TopicMatches(DaemonRestart(c), UnitSet(c, id))
        /\ ~TopicMatches(StatusTopic, UnitSet(c, id))
    BY <2>1, FiveRouted DEF b, n
  <2> QED
    BY <2>2 DEF route, Subscriptions
<1>4. ASSUME NEW id PROVE route(c, TemplateSet(c, id)) = {TemplateSet(c, "+")}
  <2>1. TemplateSet(c, id) = <<b, n, "template", id, "set">>
    BY <1>1
  <2>2. /\ ~TopicMatches(UnitSet(c, "+"), TemplateSet(c, id))
        /\ TopicMatches(TemplateSet(c, "+"), TemplateSet(c, id))
        /\ ~TopicMatches(DisplayModeSet(c), TemplateSet(c, id))
        /\ ~TopicMatches(DisplaySet(c), TemplateSet(c, id))
        /\ ~TopicMatches(DaemonRestart(c), TemplateSet(c, id))
        /\ ~TopicMatches(StatusTopic, TemplateSet(c, id))
    BY <2>1, FiveRouted DEF b, n
  <2> QED
    BY <2>2 DEF route, Subscriptions
<1>5. route(c, DaemonRestart(c)) = {DaemonRestart(c)}
  <2>1. DaemonRestart(c) = <<b, n, "daemon", "restart">>
    BY <1>1
  <2>2. /\ ~TopicMatches(UnitSet(c, "+"), DaemonRestart(c))
        /\ ~TopicMatches(TemplateSet(c, "+"), DaemonRestart(c))
        /\ ~TopicMatches(DisplayModeSet(c), DaemonRestart(c))
        /\ ~TopicMatches(DisplaySet(c), DaemonRestart(c))
        /\ TopicMatches(DaemonRestart(c), DaemonRestart(c))
        /\ ~TopicMatches(StatusTopic, DaemonRestart(c))
    BY <2>1, FourRouted DEF b, n
  <2> QED
    BY <2>2 DEF route, Subscriptions
<1>6. c.display => route(c, DisplaySet(c)) = {DisplaySet(c)}
  <2>1. DisplaySet(c) = <<b, n, "display", "set">>
    BY <1>1
  <2>2. /\ ~TopicMatches(UnitSet(c, "+"), DisplaySet(c))
        /\ ~TopicMatches(TemplateSet(c, "+"), DisplaySet(c))
        /\ ~TopicMatches(DisplayModeSet(c), DisplaySet(c))
        /\ TopicMatches(DisplaySet(c), DisplaySet(c))
        /\ ~TopicMatches(DaemonRestart(c), DisplaySet(c))
        /\ ~TopicMatches(StatusTopic, DisplaySet(c))
    BY <2>1, FourRouted DEF b, n
  <2> QED
    BY <2>2 DEF route, Subscriptions
<1>7. c.display => route(c, DisplayModeSet(c)) = {DisplayModeSet(c)}
  <2>1. DisplayModeSet(c) = <<b, n, "display", "mode", "set">>
    BY <1>1
  <2>2. /\ ~TopicMatches(UnitSet(c, "+"), DisplayModeSet(c))
        /\ ~TopicMatches(TemplateSet(c, "+"), DisplayModeSet(c))
        /\ TopicMatches(DisplayModeSet(c), DisplayModeSet(c))
        /\ ~TopicMatches(DisplaySet(c), DisplayModeSet(c))
        /\ ~TopicMatches(DaemonRestart(c), DisplayModeSet(c))
        /\ ~TopicMatches(StatusTopic, DisplayModeSet(c))
    BY <2>1, FiveRouted DEF b, n
  <2> QED
    BY <2>2 DEF route, Subscriptions
<1> QED
  BY <1>2, <1>3, <1>4, <1>5, <1>6, <1>7

\* The command topics that have no id in them.
LEMMA OthersParsed ==
    ASSUME NEW c
    PROVE  /\ Parse(c, DisplaySet(c)).kind = "display"
           /\ Parse(c, DisplayModeSet(c)).kind = "mode"
           /\ Parse(c, DaemonRestart(c)).kind = "daemon"
<1> DEFINE d == DisplaySet(c)
           m == DisplayModeSet(c)
           r == DaemonRestart(c)
<1>1. d # StatusTopic /\ m # StatusTopic /\ r # StatusTopic /\ d # m /\ d # r /\ m # r
  <2>1. /\ d = <<c.base_topic, c.node_id, "display", "set">>
        /\ m = <<c.base_topic, c.node_id, "display", "mode", "set">>
        /\ r = <<c.base_topic, c.node_id, "daemon", "restart">>
    BY Levels
  <2> HIDE DEF d, m, r
  <2> QED
    BY <2>1 DEF StatusTopic
<1> HIDE DEF d, m, r
<1> DEFINE P(topic) == Parse(c, topic)
<1>2. P(d) = Inbound("display", "")
  BY Zenon, <1>1 DEF Parse, d, m, r
<1>3. P(m) = Inbound("mode", "")
  BY Zenon, <1>1 DEF Parse, d, m, r
<1>4. P(r) = Inbound("daemon", "")
  BY Zenon, <1>1 DEF Parse, d, m, r
<1>5. \A kind, id : Inbound(kind, id).kind = kind
  BY DEF Inbound
<1> QED
  BY <1>2, <1>3, <1>4, <1>5 DEF d, m, r

\* A command is for one unit, one select, or the daemon.
LEMMA AddressedOnce ==
    ASSUME NEW c, Built(c), Validate(c)
    PROVE  /\ \A u \in ToSet(c.all) : Cardinality(Addressed(c, UnitSet(c, ObjectID(u)))) = 1
           /\ \A s \in ToSet(c.selects) : Cardinality(Addressed(c, TemplateSet(c, s.id))) = 1
           /\ Cardinality(Addressed(c, DisplaySet(c))) = 1
           /\ Cardinality(Addressed(c, DisplayModeSet(c))) = 1
           /\ Cardinality(Addressed(c, DaemonRestart(c))) = 1
<1>1. \A f : Cardinality({f}) = 1
  BY FS_Singleton
<1>2. \A u \in ToSet(c.all) : Addressed(c, UnitSet(c, ObjectID(u))) = {<<"unit", u.name>>}
  BY SwitchReaches
<1>3. ASSUME NEW s \in ToSet(c.selects)
      PROVE  Addressed(c, TemplateSet(c, s.id)) = {<<"select", s.id>>}
  <2>1. PICK t \in ToSet(c.templates) : s = Select(t)
    BY DEF Built
  <2>2. s.id = t.id
    BY <2>1 DEF Select
  <2>3. s.id # ""
    BY <2>2, Zenon DEF Validate, TemplatesFit, nodeIDRe
  <2>4. Parse(c, TemplateSet(c, s.id)) = Inbound("template", s.id)
    BY <2>3, SetParsed
  <2>5. Parse(c, TemplateSet(c, s.id)).kind = "template" /\ Parse(c, TemplateSet(c, s.id)).id = s.id
    BY <2>4 DEF Inbound
  <2>6. Addressed(c, TemplateSet(c, s.id))
          = {<<"select", x.id>> : x \in {y \in ToSet(c.selects) : y.id = s.id}}
    BY <2>5 DEF Addressed
  <2> QED
    BY <2>6
<1>4. Addressed(c, DisplaySet(c)) = {<<"display">>}
  BY OthersParsed DEF Addressed
<1>5. Addressed(c, DisplayModeSet(c)) = {<<"mode">>}
  BY OthersParsed DEF Addressed
<1>6. Addressed(c, DaemonRestart(c)) = {<<"daemon">>}
  BY OthersParsed DEF Addressed
<1> QED
  BY <1>1, <1>2, <1>3, <1>4, <1>5, <1>6

\* The scope of a unit is in use.
LEMMA ScopeInUse ==
    ASSUME NEW c, Built(c), Validate(c), NEW u \in ToSet(c.all)
    PROVE  u.scope \in ToSet(ScopesOf(c))
<1>1. u.scope \in ToSet(Scopes)
  BY DEF Validate, NamesFit
<1>2. Scopes \in Seq({"user", "system"})
  BY DEF Scopes
<1>3. ToSet(ScopesOf(c)) = ToSet(Scopes) \cap {s \in ToSet(Scopes) : UnitsForScope(c, s) # <<>>}
  BY <1>2, ThoseElements DEF ScopesOf
<1>4. UnitsForScope(c, u.scope) # <<>>
  <2>1. u \in ToSet(UnitsForScope(c, u.scope))
    BY ForScope
  <2>2. ToSet(<<>>) = {}
    BY DEF ToSet
  <2> QED
    BY <2>1, <2>2
<1> QED
  BY <1>1, <1>3, <1>4

\* What the entities of a unit read is published.
LEMMA UnitsPublished ==
    ASSUME NEW c, Built(c), Validate(c), NEW u \in ToSet(c.all)
    PROVE  {UnitState(c, ObjectID(u)), UnitAttributes(c, ObjectID(u)), Availability(c),
            BusAvailability(c, u.scope)} \subseteq Published(c, IDs(c), TRUE)
<1>1. ObjectID(u) \in IDs(c)
  BY DEF IDs
<1>2. {UnitState(c, ObjectID(u)), UnitAttributes(c, ObjectID(u))} \subseteq UnitTopics(c, IDs(c))
  BY <1>1 DEF UnitTopics
<1>3. BusAvailability(c, u.scope) \in {BusAvailability(c, s) : s \in ToSet(ScopesOf(c))}
  BY ScopeInUse
<1> QED
  BY <1>2, <1>3 DEF Published

\* What a select reads is published: a template has instances, and their units are known.
LEMMA SelectPublished ==
    ASSUME NEW c, Built(c), Validate(c), NEW s \in ToSet(c.selects)
    PROVE  {TemplateState(c, s.id), Availability(c), BusAvailability(c, s.scope)}
             \subseteq Published(c, IDs(c), TRUE)
<1>1. PICK t \in ToSet(c.templates) : s = Select(t)
  BY DEF Built
<1>2. t.instances # <<>>
  BY Zenon DEF Validate, TemplatesFit
<1>3. t.instances \in Seq([name : STRING, title : STRING])
  BY DEF Built, TitledEntry
<1>4. 1 \in DOMAIN t.instances
  BY <1>2, <1>3, LenProperties, EmptySeq
<1>5. PICK d \in Nat : \A i \in DOMAIN t.instances :
        d + i \in DOMAIN c.all /\ c.all[d + i] = Expanded(t)[i]
  BY DEF Built
<1> DEFINE u == Expanded(t)[1]
           o == s.options[1]
<1>6. u \in ToSet(c.all)
  BY <1>4, <1>5 DEF ToSet
<1>7. u.scope = s.scope /\ o \in ToSet(s.options) /\ o.unit = u.id /\ ObjectID(u) = u.id
  <2>1. s.scope = t.scope /\ DOMAIN s.options = DOMAIN t.instances /\ o.unit = u.id
    BY <1>1, <1>4 DEF Select
  <2>2. u.scope = t.scope /\ ObjectID(u) = u.id
    BY <1>4 DEF Expanded, ObjectID
  <2> QED
    BY <1>4, <2>1, <2>2 DEF ToSet
<1> HIDE DEF u, o
<1>8. o.unit \in IDs(c)
  BY <1>6, <1>7 DEF IDs
<1>9. TemplateState(c, s.id) \in UnitTopics(c, IDs(c))
  BY <1>7, <1>8 DEF UnitTopics
<1>10. BusAvailability(c, s.scope) \in Published(c, IDs(c), TRUE)
  BY <1>6, <1>7, UnitsPublished
<1> QED
  BY <1>9, <1>10 DEF Published

\* An entity that reads what is published and commands nothing, or what is handled once.
Wired(c, e) ==
    /\ e.reads \subseteq Published(c, IDs(c), TRUE)
    /\ e.cmd # None => /\ e.cmd \notin Published(c, IDs(c), TRUE)
                       /\ Cardinality(route(c, e.cmd)) = 1
                       /\ Cardinality(Addressed(c, e.cmd)) = 1

\* Every entity of the discovery payload.
LEMMA EachWired ==
    ASSUME NEW c, Built(c), Validate(c), NEW e \in ToSet(BuildDiscovery(c))
    PROVE  Wired(c, e)
<1> DEFINE All == Published(c, IDs(c), TRUE)
           Handled(cmd) == /\ cmd \notin All /\ Cardinality(route(c, cmd)) = 1
                           /\ Cardinality(Addressed(c, cmd)) = 1
<1>1. \A t \in All : Last(t) # "set" /\ Last(t) # "restart"
  BY PublishedEnds
<1>2. \A u \in ToSet(c.all) : Handled(UnitSet(c, ObjectID(u)))
  BY <1>1, CommandEnds, RoutedOnce, AddressedOnce
<1>3. \A s \in ToSet(c.selects) : Handled(TemplateSet(c, s.id))
  BY <1>1, CommandEnds, RoutedOnce, AddressedOnce
<1>4. /\ Handled(DaemonRestart(c))
      /\ c.display => Handled(DisplaySet(c)) /\ Handled(DisplayModeSet(c))
  BY <1>1, CommandEnds, RoutedOnce, AddressedOnce
<1>5. SUFFICES e.reads \subseteq All /\ (e.cmd # None => Handled(e.cmd))
  BY DEF Wired
<1>6. Availability(c) \in All /\ DaemonState(c) \in All
  BY DEF Published
<1>7. CASE \E u \in ToSet(c.all) : e \in OfUnit(c, u)
  <2>1. PICK u \in ToSet(c.all) : e \in OfUnit(c, u)
    BY <1>7
  <2>2. /\ e.reads \subseteq {UnitState(c, ObjectID(u)), UnitAttributes(c, ObjectID(u)),
                              Availability(c), BusAvailability(c, u.scope)}
        /\ e.cmd \in {None, UnitSet(c, ObjectID(u))}
    BY <2>1 DEF OfUnit
  <2> HIDE DEF All, Handled
  <2> QED
    BY <1>2, <2>2, UnitsPublished DEF All
<1>8. CASE \E s \in ToSet(c.selects) : e = SelectEntity(c, s)
  <2>1. PICK s \in ToSet(c.selects) : e = SelectEntity(c, s)
    BY <1>8
  <2>2. /\ e.reads = {TemplateState(c, s.id), Availability(c), BusAvailability(c, s.scope)}
        /\ e.cmd = TemplateSet(c, s.id)
    BY <2>1 DEF SelectEntity, Entity
  <2> HIDE DEF All, Handled
  <2> QED
    BY <1>3, <2>2, SelectPublished DEF All
<1>9. CASE e \in ToSet(DisplayEntities(c))
  <2>1. c.display /\ e \in {DisplaySwitch(c), DisplayModes(c)}
    <3>1. ToSet(<<>>) = {}
      BY DEF ToSet
    <3> QED
      BY <1>9, <3>1, DisplayOnly, SeqOfOwn
  <2>2. {Availability(c), DisplayAvailability(c), DisplayState(c), DisplayAttributes(c),
         DisplayModeState(c)} \subseteq All
    BY <2>1 DEF Published, DisplayTopics
  <2>3. /\ DisplaySwitch(c).reads = {Availability(c), DisplayAvailability(c), DisplayState(c),
                                    DisplayAttributes(c)}
        /\ DisplaySwitch(c).cmd = DisplaySet(c)
        /\ DisplayModes(c).reads = {Availability(c), DisplayAvailability(c), DisplayModeState(c)}
        /\ DisplayModes(c).cmd = DisplayModeSet(c)
    BY DEF DisplaySwitch, DisplayModes, Entity
  <2> HIDE DEF All, Handled
  <2> QED
    BY <1>4, <2>1, <2>2, <2>3
<1>10. CASE \E s \in ToSet(ScopesOf(c)) : e = BusEntity(c, s)
  <2>1. PICK s \in ToSet(ScopesOf(c)) : e = BusEntity(c, s)
    BY <1>10
  <2>2. e.reads = {Availability(c), BusAvailability(c, s)} /\ e.cmd = None
    BY <2>1 DEF BusEntity, Entity
  <2>3. BusAvailability(c, s) \in All
    BY DEF Published
  <2> HIDE DEF All, Handled
  <2> QED
    BY <1>6, <2>2, <2>3
<1>11. CASE e.reads = {Availability(c), DaemonState(c)} /\ e.cmd = None
  BY <1>6, <1>11
<1>12. CASE e.reads = {Availability(c)} /\ e.cmd = DaemonRestart(c)
  BY <1>4, <1>6, <1>12
<1> QED
  BY <1>7, <1>8, <1>9, <1>10, <1>11, <1>12, EntitySources

\* Every entity that Home Assistant is told of can come alive and be used: what it reads is
\* published once everything is known, its command topic is not, and a command is handed
\* to one handler of the daemon and is for one unit, select or the daemon
\* (BuildDiscovery in ha/discovery.go, Subscriptions and Parse in ha/topics.go,
\* republishAll in publish.go, topicMatches in mqtt/client.go).
THEOREM EntitiesAlwaysWired == Spec => []EntitiesWired
<1>1. SInv => EntitiesWired
  BY EachWired DEF SInv, Loaded, EntitiesWired, Accepted, Wired
<1> QED
  BY <1>1, InitSInv, StepSInv, PTL DEF Spec

-----------------------------------------------------------------------------
(* The ids of entities *)

\* No two of the list have the same id.
Distinct(s) == \A i, j \in DOMAIN s : i # j => s[i].id # s[j].id

\* Two lists with distinct ids each, and none in common, joined.
LEMMA DistinctJoined ==
    \A A, B : \A s \in Seq(A) : \A t \in Seq(B) :
        /\ Distinct(s) /\ Distinct(t)
        /\ \A x \in ToSet(s), y \in ToSet(t) : x.id # y.id
        => Distinct(s \o t)
<1> SUFFICES ASSUME NEW A, NEW B, NEW s \in Seq(A), NEW t \in Seq(B), Distinct(s), Distinct(t),
                    \A x \in ToSet(s), y \in ToSet(t) : x.id # y.id
             PROVE  Distinct(s \o t)
  OBVIOUS
<1> DEFINE q == s \o t
<1>1. /\ q \in Seq(A \cup B) /\ Len(q) = Len(s) + Len(t)
      /\ \A i \in 1 .. Len(q) : q[i] = IF i <= Len(s) THEN s[i] ELSE t[i - Len(s)]
  <2>1. s \in Seq(A \cup B) /\ t \in Seq(A \cup B)
    BY SeqMonotonic
  <2> QED
    BY <2>1, ConcatProperties
<1>2. /\ DOMAIN q = 1 .. Len(q) /\ DOMAIN s = 1 .. Len(s) /\ DOMAIN t = 1 .. Len(t)
      /\ Len(s) \in Nat /\ Len(t) \in Nat
  BY <1>1, LenProperties
<1> HIDE DEF q
<1>3. ASSUME NEW i \in DOMAIN q
      PROVE  \/ i \in DOMAIN s /\ q[i] = s[i]
             \/ i - Len(s) \in DOMAIN t /\ q[i] = t[i - Len(s)] /\ ~(i <= Len(s))
  <2>1. CASE i <= Len(s)
    BY <1>1, <1>2, <2>1
  <2>2. CASE ~(i <= Len(s))
    <3>1. i - Len(s) \in DOMAIN t
      BY <1>1, <1>2, <2>2
    <3>2. q[i] = t[i - Len(s)]
      BY <1>1, <1>2, <2>2
    <3> QED
      BY <3>1, <3>2, <2>2
  <2> QED
    BY <2>1, <2>2
<1>4. ASSUME NEW i \in DOMAIN q, NEW j \in DOMAIN q, i # j
      PROVE  q[i].id # q[j].id
  <2>1. CASE i \in DOMAIN s /\ q[i] = s[i] /\ j \in DOMAIN s /\ q[j] = s[j]
    BY <1>4, <2>1 DEF Distinct
  <2>2. CASE /\ i \in DOMAIN s /\ q[i] = s[i]
             /\ j - Len(s) \in DOMAIN t /\ q[j] = t[j - Len(s)]
    <3>1. q[i] \in ToSet(s) /\ q[j] \in ToSet(t)
      BY <2>2 DEF ToSet
    <3> QED
      BY <3>1
  <2>3. CASE /\ j \in DOMAIN s /\ q[j] = s[j]
             /\ i - Len(s) \in DOMAIN t /\ q[i] = t[i - Len(s)]
    <3>1. q[j] \in ToSet(s) /\ q[i] \in ToSet(t)
      BY <2>3 DEF ToSet
    <3> QED
      BY <3>1
  <2>4. CASE /\ i - Len(s) \in DOMAIN t /\ q[i] = t[i - Len(s)]
             /\ j - Len(s) \in DOMAIN t /\ q[j] = t[j - Len(s)]
    <3>1. i - Len(s) # j - Len(s)
      BY <1>2, <1>4
    <3> QED
      BY <2>4, <3>1 DEF Distinct
  <2>5. /\ \/ i \in DOMAIN s /\ q[i] = s[i]
           \/ i - Len(s) \in DOMAIN t /\ q[i] = t[i - Len(s)]
        /\ \/ j \in DOMAIN s /\ q[j] = s[j]
           \/ j - Len(s) \in DOMAIN t /\ q[j] = t[j - Len(s)]
    BY <1>3
  <2> QED
    BY <2>1, <2>2, <2>3, <2>4, <2>5
<1> QED
  BY <1>4 DEF Distinct, q

\* Any number of such lists.
LEMMA DistinctFlattened ==
    \A A : \A seqs \in Seq(Seq(A)) :
        /\ \A k \in 1 .. Len(seqs) : Distinct(seqs[k])
        /\ \A k, l \in 1 .. Len(seqs) : k # l =>
             \A x \in ToSet(seqs[k]), y \in ToSet(seqs[l]) : x.id # y.id
        => Distinct(FlattenSeq(seqs))
<1> SUFFICES ASSUME NEW A, NEW seqs \in Seq(Seq(A)),
                    \A k \in 1 .. Len(seqs) : Distinct(seqs[k]),
                    \A k, l \in 1 .. Len(seqs) : k # l =>
                      \A x \in ToSet(seqs[k]), y \in ToSet(seqs[l]) : x.id # y.id
             PROVE  Distinct(FlattenSeq(seqs))
  OBVIOUS
<1> DEFINE r == FlattenSeq(seqs)
<1>1. r \in Seq(A) /\ Joined(seqs, r, Len(seqs)) /\ DOMAIN r = 1 .. Len(r)
  BY FlattenJoined, LenProperties
<1>2. \A k \in 1 .. Len(seqs) : DOMAIN seqs[k] = 1 .. Len(seqs[k])
  BY LenProperties, ElementOfSeq
<1> HIDE DEF r
<1>3. ASSUME NEW p \in DOMAIN r, NEW q \in DOMAIN r, p # q
      PROVE  r[p].id # r[q].id
  <2>5. \A a, b \in 1 .. Len(r) : a # b =>
          \E k, l \in 1 .. Len(seqs) : \E i \in 1 .. Len(seqs[k]) : \E j \in 1 .. Len(seqs[l]) :
            (k # l \/ i # j) /\ r[a] = seqs[k][i] /\ r[b] = seqs[l][j]
    BY <1>1 DEF Joined
  <2>6. p \in 1 .. Len(r) /\ q \in 1 .. Len(r)
    BY <1>1
  <2>1. PICK k \in 1 .. Len(seqs), l \in 1 .. Len(seqs) :
          \E i \in 1 .. Len(seqs[k]) : \E j \in 1 .. Len(seqs[l]) :
            (k # l \/ i # j) /\ r[p] = seqs[k][i] /\ r[q] = seqs[l][j]
    BY <1>3, <2>5, <2>6
  <2>2. PICK i \in 1 .. Len(seqs[k]), j \in 1 .. Len(seqs[l]) :
          (k # l \/ i # j) /\ r[p] = seqs[k][i] /\ r[q] = seqs[l][j]
    BY <2>1
  <2>3. CASE k = l
    <3>1. i \in DOMAIN seqs[k] /\ j \in DOMAIN seqs[k] /\ i # j
      BY <1>2, <2>2, <2>3
    <3> QED
      BY <2>2, <2>3, <3>1 DEF Distinct
  <2>4. CASE k # l
    <3>1. r[p] \in ToSet(seqs[k]) /\ r[q] \in ToSet(seqs[l])
      BY <1>2, <2>2 DEF ToSet
    <3> QED
      BY <2>4, <3>1
  <2> QED
    BY <2>3, <2>4
<1> QED
  BY <1>3 DEF Distinct, r

\* A list of one.
LEMMA SingleDistinct ==
    ASSUME NEW e
    PROVE  Distinct(<<e>>) /\ <<e>> \in Seq({e}) /\ ToSet(<<e>>) = {e}
BY DEF Distinct, ToSet

\* A list of none.
LEMMA NoneDistinct == Distinct(<<>>) /\ <<>> \in Seq({}) /\ ToSet(<<>>) = {}
BY DEF Distinct, ToSet

\* What is assumed of strings, for one id and for two.
LEMMA Strings ==
    ASSUME NEW x \in Used, NEW y \in Used
    PROVE  /\ \A i, j \in 1 .. 4 : UnitIds(x)[i] = UnitIds(x)[j] => i = j
           /\ ToSet(UnitIds(x)) \cap (Fixed \cup Buses) = {}
           /\ TemplateId(x) \notin Fixed \cup Buses
           /\ TemplateId(x) \notin ToSet(UnitIds(y))
           /\ TemplateId(x) = TemplateId(y) => x = y
<1>1. \A i, j \in 1 .. 4 : UnitIds(x)[i] = UnitIds(x)[j] => i = j
  BY StringsAssumption
<1>2. ({TemplateId(x)} \cup ToSet(UnitIds(x))) \cap (Fixed \cup Buses) = {}
  BY StringsAssumption
<1>3. TemplateId(x) \notin ToSet(UnitIds(y))
  BY StringsAssumption
<1>4. TemplateId(x) = TemplateId(y) => x = y
  BY StringsAssumption
<1> QED
  BY <1>1, <1>2, <1>3, <1>4

\* Four in a row.
LEMMA FourElements ==
    ASSUME NEW a, NEW b, NEW x, NEW y PROVE ToSet(<<a, b, x, y>>) = {a, b, x, y}
BY DEF ToSet

\* The components of a unit have ids of their own, those that Validate looks at.
LEMMA UnitDistinct ==
    ASSUME NEW c, NEW u, ObjectID(u) \in Used
    PROVE  /\ Distinct(UnitEntities(c, u))
           /\ \A e \in ToSet(UnitEntities(c, u)) : e.id \in Components(u)
           /\ Components(u) \subseteq ToSet(UnitIds(ObjectID(u)))
<1> DEFINE id    == ObjectID(u)
           avty  == {Availability(c), BusAvailability(c, u.scope)}
           attrs == {UnitAttributes(c, id)} \cup avty
           name  == "unit_" \o id
           one   == Entity(name, attrs \cup {UnitState(c, id)}, UnitSet(c, id))
           two   == Entity(name \o "_state", attrs, None)
           three == Entity(name \o "_problem", attrs, None)
           four  == Entity(name \o "_restart", avty, UnitSet(c, id))
           n == UnitIds(id)
<1>1. UnitEntities(c, u) = (<<one, two>> \o (IF Wanted(u.problem) THEN <<three>> ELSE <<>>))
                           \o (IF Wanted(u.restart) THEN <<four>> ELSE <<>>)
  BY DEF UnitEntities
<1>2. one.id = n[1] /\ two.id = n[2] /\ three.id = n[3] /\ four.id = n[4]
  BY DEF Entity, UnitIds
<1>3. /\ Components(u) = {n[1], n[2]} \cup (IF Wanted(u.problem) THEN {n[3]} ELSE {})
                         \cup (IF Wanted(u.restart) THEN {n[4]} ELSE {})
      /\ ToSet(n) = {n[1], n[2], n[3], n[4]}
  <2> DEFINE a == "unit_" \o id
             b == "unit_" \o id \o "_state"
             x == "unit_" \o id \o "_problem"
             y == "unit_" \o id \o "_restart"
  <2>1. n = <<a, b, x, y>>
    BY DEF UnitIds
  <2>2. Components(u) = {a, b} \cup (IF Wanted(u.problem) THEN {x} ELSE {})
                        \cup (IF Wanted(u.restart) THEN {y} ELSE {})
    BY DEF Components
  <2> HIDE DEF n, a, b, x, y
  <2>3. n[1] = a /\ n[2] = b /\ n[3] = x /\ n[4] = y
    BY <2>1
  <2> QED
    BY <2>1, <2>2, <2>3, FourElements
<1>4. /\ n[1] # n[2] /\ n[1] # n[3] /\ n[1] # n[4] /\ n[2] # n[3] /\ n[2] # n[4] /\ n[3] # n[4]
  BY Strings
<1> HIDE DEF one, two, three, four, n
<1> DEFINE p == <<one, two>>
           q == IF Wanted(u.problem) THEN <<three>> ELSE <<>>
           r == IF Wanted(u.restart) THEN <<four>> ELSE <<>>
<1>5. p \in Seq({one, two}) /\ Distinct(p) /\ ToSet(p) = {one, two}
  BY <1>2, <1>4 DEF Distinct, ToSet
<1>6. /\ q \in Seq({three}) /\ Distinct(q)
      /\ ToSet(q) = IF Wanted(u.problem) THEN {three} ELSE {}
  BY SingleDistinct, NoneDistinct, SeqMonotonic
<1>7. /\ r \in Seq({four}) /\ Distinct(r)
      /\ ToSet(r) = IF Wanted(u.restart) THEN {four} ELSE {}
  BY SingleDistinct, NoneDistinct, SeqMonotonic
<1> DEFINE pq == p \o q
<1>8. UnitEntities(c, u) = pq \o r
  BY <1>1
<1> HIDE DEF p, q, r
<1>9. \A x \in ToSet(p), y \in ToSet(q) : x.id # y.id
  BY <1>2, <1>4, <1>5, <1>6
<1>10. /\ pq \in Seq({one, two} \cup {three}) /\ Distinct(pq)
       /\ ToSet(pq) = ToSet(p) \cup ToSet(q)
  BY <1>5, <1>6, <1>9, JoinedTyped, DistinctJoined, ToSetJoined
<1> HIDE DEF pq
<1>11. \A x \in ToSet(pq), y \in ToSet(r) : x.id # y.id
  BY <1>2, <1>4, <1>5, <1>6, <1>7, <1>10
<1>12. Distinct(pq \o r) /\ ToSet(pq \o r) = ToSet(pq) \cup ToSet(r)
  BY <1>7, <1>10, <1>11, DistinctJoined, ToSetJoined
<1>13. \A e \in ToSet(UnitEntities(c, u)) : e.id \in Components(u)
  BY <1>2, <1>3, <1>5, <1>6, <1>7, <1>8, <1>10, <1>12
<1> QED
  BY <1>3, <1>8, <1>12, <1>13 DEF n

\* The ids of units and templates are among those the assumption is about.
Ours(c) == IDs(c) \cup {t.id : t \in ToSet(c.templates)} \subseteq Used

\* The entities of all units: ids differ, and so do the components of any two ids.
LEMMA UnitsDistinct ==
    ASSUME NEW c, Built(c), Validate(c), Ours(c)
    PROVE  /\ Distinct(FlattenSeq(OfUnits(c)))
           /\ \A e \in ToSet(FlattenSeq(OfUnits(c))) : \E x \in Used : e.id \in ToSet(UnitIds(x))
<1> DEFINE us == OfUnits(c)
           A  == AnyUnits(c)
<1>1. /\ us \in Seq(Seq(A)) /\ Len(us) = Len(c.all)
      /\ \A i \in 1 .. Len(us) : us[i] = UnitEntities(c, c.all[i])
      /\ DOMAIN c.all = 1 .. Len(us)
  BY EntityLists, LenProperties DEF Built
<1>2. \A i \in 1 .. Len(us) : ObjectID(c.all[i]) \in Used
  BY <1>1 DEF Ours, IDs, ToSet
<1> HIDE DEF us, A
<1>3. \A i \in 1 .. Len(us) :
        /\ Distinct(us[i]) /\ \A e \in ToSet(us[i]) : e.id \in Components(c.all[i])
        /\ Components(c.all[i]) \subseteq ToSet(UnitIds(ObjectID(c.all[i])))
  BY <1>1, <1>2, UnitDistinct
<1>4. ASSUME NEW k \in 1 .. Len(us), NEW l \in 1 .. Len(us), k # l
      PROVE  Components(c.all[k]) \cap Components(c.all[l]) = {}
  <2>1. ObjectID(c.all[k]) # ObjectID(c.all[l])
    BY <1>1, <1>4 DEF Validate, IDsApart, Others
  <2> QED
    BY <1>1, <1>4, <2>1 DEF Validate, ComponentsApart, Others
<1>5. \A k, l \in 1 .. Len(us) : k # l => \A x \in ToSet(us[k]), y \in ToSet(us[l]) : x.id # y.id
  BY <1>3, <1>4
<1>6. Distinct(FlattenSeq(us))
  BY <1>1, <1>3, <1>5, DistinctFlattened
<1>7. ASSUME NEW e \in ToSet(FlattenSeq(us))
      PROVE  \E x \in Used : e.id \in ToSet(UnitIds(x))
  <2> DEFINE r == FlattenSeq(us)
  <2>1. r \in Seq(A) /\ Joined(us, r, Len(us)) /\ DOMAIN r = 1 .. Len(r)
    BY <1>1, FlattenJoined, LenProperties
  <2> HIDE DEF r
  <2>2. PICK p \in 1 .. Len(r) : e = r[p]
    BY <1>7, <2>1 DEF ToSet, r
  <2>3. PICK k \in 1 .. Len(us) : \E i \in 1 .. Len(us[k]) : r[p] = us[k][i]
    BY <2>1 DEF Joined
  <2>4. e \in ToSet(us[k])
    <3>1. DOMAIN us[k] = 1 .. Len(us[k])
      BY <1>1, LenProperties, ElementOfSeq
    <3> QED
      BY <2>2, <2>3, <3>1 DEF ToSet
  <2> QED
    BY <1>2, <1>3, <2>4
<1> QED
  BY <1>6, <1>7 DEF us

\* The entities of all selects, each of a template of its own.
LEMMA SelectsDistinct ==
    ASSUME NEW c, Built(c), Validate(c), Ours(c)
    PROVE  /\ Distinct(OfSelects(c))
           /\ \A e \in ToSet(OfSelects(c)) : \E x \in Used : e.id = TemplateId(x)
<1>1. /\ DOMAIN OfSelects(c) = DOMAIN c.selects
      /\ \A i \in DOMAIN c.selects : OfSelects(c)[i].id = TemplateId(c.selects[i].id)
  BY DEF OfSelects, SelectEntity, Entity, TemplateId
<1>2. \A t : Select(t).id = t.id
  BY DEF Select
<1>3. \A k \in DOMAIN c.templates : c.templates[k].id \in Used
  BY DEF Ours, ToSet
<1>4. ASSUME NEW i \in DOMAIN c.selects, NEW j \in DOMAIN c.selects, i # j
      PROVE  OfSelects(c)[i].id # OfSelects(c)[j].id
  <2>1. PICK k \in DOMAIN c.templates, l \in DOMAIN c.templates :
          /\ k # l
          /\ c.selects[i] = Select(c.templates[k]) /\ c.selects[j] = Select(c.templates[l])
    BY <1>4 DEF Built
  <2>2. c.templates[k].id # c.templates[l].id
    BY <2>1 DEF Validate, TemplatesFit, Others
  <2>3. /\ OfSelects(c)[i].id = TemplateId(c.templates[k].id)
        /\ OfSelects(c)[j].id = TemplateId(c.templates[l].id)
    BY <1>1, <1>2, <2>1
  <2> QED
    BY <1>3, <2>2, <2>3, Strings
<1>5. ASSUME NEW e \in ToSet(OfSelects(c)) PROVE \E x \in Used : e.id = TemplateId(x)
  <2>1. PICK i \in DOMAIN c.selects : e = OfSelects(c)[i]
    BY <1>1 DEF ToSet
  <2>2. PICK t \in ToSet(c.templates) : c.selects[i] = Select(t)
    BY DEF Built, ToSet
  <2>3. t.id \in Used
    BY DEF Ours
  <2> QED
    BY <1>1, <1>2, <2>1, <2>2, <2>3
<1> QED
  BY <1>1, <1>4, <1>5 DEF Distinct

\* Those of the buses, one for each scope in use.
LEMMA BusesDistinct ==
    ASSUME NEW c
    PROVE  Distinct(OfBuses(c)) /\ \A e \in ToSet(OfBuses(c)) : e.id \in Buses
<1> DEFINE T == {s \in ToSet(Scopes) : UnitsForScope(c, s) # <<>>}
           r == ScopesOf(c)
<1>1. Scopes \in Seq({"user", "system"}) /\ Len(Scopes) = 2 /\ Scopes[1] # Scopes[2]
  BY DEF Scopes
<1>2. Through(Scopes, T, r, 2)
  BY <1>1, ThoseThrough DEF ScopesOf
<1> HIDE DEF r, T
<1>3. DOMAIN r = 1 .. Len(r) /\ r \in Seq(ToSet(Scopes) \cap T)
  BY <1>2, LenProperties DEF Through
<1>4. \A i \in DOMAIN r : r[i] \in ToSet(Scopes)
  BY <1>3, ElementOfSeq
<1>5. ASSUME NEW i \in DOMAIN r, NEW j \in DOMAIN r, i # j PROVE r[i] # r[j]
  <2>1. SUFFICES ASSUME r[i] = r[j] PROVE FALSE
    OBVIOUS
  <2>2. PICK k \in 1 .. 2, l \in 1 .. 2 : k # l /\ Scopes[k] = r[i] /\ Scopes[l] = r[i]
    BY <1>2, <1>3, <1>5, <2>1 DEF Through
  <2> QED
    BY <1>1, <2>2
<1>6. \A s, t \in ToSet(Scopes) : s # t => "bus_" \o s # "bus_" \o t
  <2>1. ToSet(Scopes) = {"user", "system"}
    BY DEF Scopes, ToSet
  <2> QED
    BY <2>1, StringsAssumption
<1>7. /\ DOMAIN OfBuses(c) = DOMAIN r
      /\ \A i \in DOMAIN r : OfBuses(c)[i].id = "bus_" \o r[i]
  BY DEF OfBuses, BusEntity, Entity, r
<1>8. \A i \in DOMAIN r : OfBuses(c)[i].id \in Buses
  BY <1>4, <1>7 DEF Buses
<1> QED
  BY <1>4, <1>5, <1>6, <1>7, <1>8 DEF Distinct, ToSet

\* Those of the display.
LEMMA DisplayDistinct ==
    ASSUME NEW c
    PROVE  /\ Distinct(DisplayEntities(c))
           /\ \A e \in ToSet(DisplayEntities(c)) : e.id \in {"display", "display_mode"}
<1> DEFINE avty   == {Availability(c), DisplayAvailability(c)}
           first  == Entity("display", avty \cup {DisplayState(c), DisplayAttributes(c)},
                            DisplaySet(c))
           second == Entity("display_mode", avty \cup {DisplayModeState(c)}, DisplayModeSet(c))
<1>1. DisplayEntities(c) = IF ~c.display THEN <<>>
                           ELSE <<first>> \o (IF c.mode_select THEN <<second>> ELSE <<>>)
  BY DEF DisplayEntities
<1>2. first.id = "display" /\ second.id = "display_mode"
  BY DEF Entity
<1> HIDE DEF first, second
<1> DEFINE p == <<first>>
           q == IF c.mode_select THEN <<second>> ELSE <<>>
<1>3. p \in Seq({first}) /\ Distinct(p) /\ ToSet(p) = {first}
  BY SingleDistinct
<1>4. q \in Seq({second}) /\ Distinct(q) /\ ToSet(q) \subseteq {second}
  BY SingleDistinct, NoneDistinct, SeqMonotonic
<1>5. DisplayEntities(c) = IF ~c.display THEN <<>> ELSE p \o q
  BY <1>1
<1> HIDE DEF p, q
<1>6. Distinct(p \o q) /\ ToSet(p \o q) = ToSet(p) \cup ToSet(q)
  <2>1. \A x \in ToSet(p), y \in ToSet(q) : x.id # y.id
    BY <1>2, <1>3, <1>4
  <2> QED
    BY <1>3, <1>4, <2>1, DistinctJoined, ToSetJoined
<1>7. CASE c.display
  BY <1>2, <1>3, <1>4, <1>5, <1>6, <1>7
<1>8. CASE ~c.display
  BY <1>5, <1>8, NoneDistinct
<1> QED
  BY <1>7, <1>8

\* Those of the daemon itself.
LEMMA DaemonDistinct ==
    ASSUME NEW c
    PROVE  /\ Distinct(OfDaemon(c))
           /\ \A e \in ToSet(OfDaemon(c)) : e.id \in {"version", "started", "daemon_restart"}
<1> DEFINE x == Entity("version", {Availability(c), DaemonState(c)}, None)
           y == Entity("started", {Availability(c), DaemonState(c)}, None)
           z == Entity("daemon_restart", {Availability(c)}, DaemonRestart(c))
<1>1. x.id = "version" /\ y.id = "started" /\ z.id = "daemon_restart"
  BY DEF Entity
<1>2. OfDaemon(c) = <<x, y, z>>
  BY DEF OfDaemon
<1> HIDE DEF x, y, z
<1> QED
  BY <1>1, <1>2 DEF Distinct, ToSet

\* Of the whole payload no two entities have the same id.
LEMMA AllDistinct ==
    ASSUME NEW c, Built(c), Validate(c), Ours(c)
    PROVE  Distinct(BuildDiscovery(c))
<1> DEFINE a == FlattenSeq(OfUnits(c))
           b == OfSelects(c)
           d == DisplayEntities(c)
           e == OfBuses(c)
           f == OfDaemon(c)
           A == AnyUnits(c)
           B == AnySelects(c)
           D == ToSet(DisplayEntities(c))
           E == AnyBuses(c)
           F == ToSet(OfDaemon(c))
<1>1. /\ a \in Seq(A) /\ b \in Seq(B) /\ d \in Seq(D) /\ e \in Seq(E) /\ f \in Seq(F)
      /\ BuildDiscovery(c) = (((a \o b) \o d) \o e) \o f
  BY EntityLists, FlattenJoined
<1>2. /\ Distinct(a) /\ Distinct(b) /\ Distinct(d) /\ Distinct(e) /\ Distinct(f)
      /\ \A m \in ToSet(a) : \E x \in Used : m.id \in ToSet(UnitIds(x))
      /\ \A m \in ToSet(b) : \E x \in Used : m.id = TemplateId(x)
      /\ \A m \in ToSet(d) : m.id \in {"display", "display_mode"}
      /\ \A m \in ToSet(e) : m.id \in Buses
      /\ \A m \in ToSet(f) : m.id \in {"version", "started", "daemon_restart"}
  BY UnitsDistinct, SelectsDistinct, DisplayDistinct, BusesDistinct, DaemonDistinct
<1> HIDE DEF a, b, d, e, f, A, B, D, E, F
<1>3. /\ Buses \cap Fixed = {}
      /\ {"display", "display_mode"} \subseteq Fixed
      /\ {"version", "started", "daemon_restart"} \subseteq Fixed
      /\ {"display", "display_mode"} \cap {"version", "started", "daemon_restart"} = {}
  BY StringsAssumption DEF Fixed
<1> DEFINE ab   == a \o b
           abd  == ab \o d
           abde == abd \o e
<1>4. \A m \in ToSet(a), n \in ToSet(b) \cup ToSet(d) \cup ToSet(e) \cup ToSet(f) : m.id # n.id
  BY <1>2, <1>3, Strings
<1>5. \A m \in ToSet(b), n \in ToSet(d) \cup ToSet(e) \cup ToSet(f) : m.id # n.id
  BY <1>2, <1>3, Strings
<1>6. \A m \in ToSet(d), n \in ToSet(e) \cup ToSet(f) : m.id # n.id
  BY <1>2, <1>3
<1>7. \A m \in ToSet(e), n \in ToSet(f) : m.id # n.id
  BY <1>2, <1>3
<1>8. /\ ab \in Seq(A \cup B) /\ ToSet(ab) = ToSet(a) \cup ToSet(b) /\ Distinct(ab)
  BY <1>1, <1>2, <1>4, JoinedTyped, ToSetJoined, DistinctJoined
<1> HIDE DEF ab
<1>9. /\ abd \in Seq((A \cup B) \cup D) /\ ToSet(abd) = ToSet(ab) \cup ToSet(d) /\ Distinct(abd)
  <2>1. \A m \in ToSet(ab), n \in ToSet(d) : m.id # n.id
    BY <1>4, <1>5, <1>8
  <2> QED
    BY <1>1, <1>2, <1>8, <2>1, JoinedTyped, ToSetJoined, DistinctJoined
<1> HIDE DEF abd
<1>10. /\ abde \in Seq(((A \cup B) \cup D) \cup E) /\ ToSet(abde) = ToSet(abd) \cup ToSet(e)
       /\ Distinct(abde)
  <2>1. \A m \in ToSet(abd), n \in ToSet(e) : m.id # n.id
    BY <1>4, <1>5, <1>6, <1>8, <1>9
  <2> QED
    BY <1>1, <1>2, <1>9, <2>1, JoinedTyped, ToSetJoined, DistinctJoined
<1> HIDE DEF abde
<1>11. Distinct(abde \o f)
  <2>1. \A m \in ToSet(abde), n \in ToSet(f) : m.id # n.id
    BY <1>4, <1>5, <1>6, <1>7, <1>8, <1>9, <1>10
  <2> QED
    BY <1>1, <1>2, <1>10, <2>1, DistinctJoined
<1>12. BuildDiscovery(c) = abde \o f
  BY <1>1 DEF abde, abd, ab
<1> QED
  BY <1>11, <1>12

\* The ids of what runs are in use.
Worded == phase = "running" => Ours(config)

\* They come from a file that was accepted.
LEMMA StepWorded == ASSUME SInv, Worded, [Next]_vars PROVE Worded'
<1>1. CASE Load
  <2>1. CASE Accepts(config)
    <3>1. phase = "new" /\ config \in Files /\ config' = Parsed(config)
      BY <1>1, <2>1 DEF Load, SInv, Loaded
    <3>2. Ours(config')
      BY <2>1, <3>1 DEF Ours, Used
    <3> QED
      BY <3>2 DEF Worded
  <2>2. CASE ~Accepts(config)
    BY <1>1, <2>2 DEF Load, Worded
  <2> QED
    BY <2>1, <2>2
<1>2. CASE ~Load
  <2>1. config' = config /\ (phase' = "running" => phase = "running")
    BY <1>2 DEF Next, Republish, End, Clear, Dial, Query, vars
  <2> QED
    BY <2>1 DEF Worded
<1> QED
  BY <1>1, <1>2

\* No entity of the discovery payload takes the place of another one, whatever units and
\* templates the file has (Validate in config.go, BuildDiscovery in discovery.go).
THEOREM EntitiesAlwaysApart == Spec => []EntitiesApart
<1>1. SInv /\ Worded => EntitiesApart
  <2> SUFFICES ASSUME SInv, Worded, phase = "running" PROVE EntitiesApart
    BY DEF EntitiesApart, Accepted
  <2>1. Distinct(BuildDiscovery(config))
    BY AllDistinct DEF SInv, Loaded, Worded
  <2> QED
    BY <2>1 DEF EntitiesApart, Others, Distinct
<1>2. Init => Worded
  BY DEF Init, Worded
<1> QED
  BY <1>1, <1>2, InitSInv, StepSInv, StepWorded, PTL DEF Spec

-----------------------------------------------------------------------------
(* --clear-discovery *)

(***************************************************************************)
(* The inductive invariant: a snapshot is kept for each id and no other,   *)
(* and what is retained is one of the topics that get blanked.             *)
(***************************************************************************)
Blankable ==
    /\ phase = "new" => retained = {}
    /\ phase \in {"running", "ended"} =>
         DOMAIN st = IDs(config) /\ retained \subseteq RetainedTopics(config)

-----------------------------------------------------------------------------
(* What is published is blanked *)

\* The topics of units that are known, and of the selects over them.
LEMMA UnitTopicsBlanked ==
    ASSUME NEW c, NEW known, known \subseteq IDs(c)
    PROVE  UnitTopics(c, known) \subseteq RetainedTopics(c)
<1> DEFINE Both(id) == {UnitState(c, id), UnitAttributes(c, id)}
<1>1. ASSUME NEW id \in known PROVE Both(id) \subseteq RetainedTopics(c)
  <2>1. PICK u \in ToSet(c.all) : id = ObjectID(u)
    BY <1>1 DEF IDs
  <2> QED
    BY <2>1 DEF RetainedTopics
<1>2. \A s \in ToSet(c.selects) : TemplateState(c, s.id) \in RetainedTopics(c)
  BY DEF RetainedTopics
<1> QED
  BY <1>1, <1>2 DEF UnitTopics

\* A full publish, with or without a display.
LEMMA PublishedBlanked ==
    ASSUME NEW c, NEW known, known \subseteq IDs(c), NEW available \in BOOLEAN
    PROVE  Published(c, known, available) \subseteq RetainedTopics(c)
<1>1. UnitTopics(c, known) \subseteq RetainedTopics(c)
  BY UnitTopicsBlanked
<1>2. DisplayTopics(c, available) \subseteq RetainedTopics(c)
  BY DEF DisplayTopics, RetainedTopics
<1>3. \A s \in ToSet(ScopesOf(c)) : BusAvailability(c, s) \in RetainedTopics(c)
  BY DEF RetainedTopics
<1>4. {DiscoveryConfig(c), DaemonState(c), Availability(c)} \subseteq RetainedTopics(c)
  BY DEF RetainedTopics
<1> QED
  BY <1>1, <1>2, <1>3, <1>4 DEF Published

\* The units that are known are among those of the configuration.
LEMMA KnownAreIDs ==
    ASSUME NEW snapshots, NEW c, DOMAIN snapshots = IDs(c)
    PROVE  Known(snapshots) \subseteq IDs(c)
BY DEF Known

-----------------------------------------------------------------------------

\* Every step keeps what is retained among what gets blanked.
LEMMA StepBlankable ==
    ASSUME Blankable, [Next]_vars
    PROVE  Blankable'
<1>1. CASE Load
  <2>1. CASE Accepts(config)
    <3>1. phase = "new" /\ phase' = "running" /\ st' = NewState(config') /\ retained' = {}
      BY <1>1, <2>1 DEF Load, Blankable
    <3>2. DOMAIN st' = IDs(config')
      BY <3>1 DEF NewState
    <3> QED
      BY <3>1, <3>2 DEF Blankable
  <2>2. CASE ~Accepts(config)
    BY <1>1, <2>2 DEF Load, Blankable
  <2> QED
    BY <2>1, <2>2
<1>2. CASE Republish
  <2>1. PICK available \in BOOLEAN :
          retained' = retained \cup Published(config, Known(st), available)
    BY <1>2 DEF Republish
  <2>2. phase = "running" /\ UNCHANGED <<phase, config, st>>
    BY <1>2 DEF Republish
  <2>3. DOMAIN st = IDs(config) /\ retained \subseteq RetainedTopics(config)
    BY <2>2 DEF Blankable
  <2>4. Published(config, Known(st), available) \subseteq RetainedTopics(config)
    BY <2>3, KnownAreIDs, PublishedBlanked
  <2> QED
    BY <2>1, <2>2, <2>3, <2>4 DEF Blankable
<1>3. CASE End
  <2>1. /\ phase = "running" /\ phase' = "ended" /\ UNCHANGED <<config, st>>
        /\ retained' = retained \cup {Availability(config)}
    BY <1>3 DEF End
  <2>2. Availability(config) \in RetainedTopics(config)
    BY DEF RetainedTopics
  <2> QED
    BY <2>1, <2>2 DEF Blankable
<1>4. CASE Clear
  BY <1>4 DEF Clear, Blankable
<1>5. ASSUME NEW s, Dial(s) PROVE Blankable'
  BY <1>5 DEF Dial, Blankable
<1>6. ASSUME NEW s, NEW primary, Query(s, primary) PROVE Blankable'
  <2>1. phase = "running" /\ UNCHANGED <<phase, config>>
    BY <1>6 DEF Query
  <2>2. DOMAIN st = IDs(config) /\ retained \subseteq RetainedTopics(config)
    BY <2>1 DEF Blankable
  <2>3. CASE Fails(Names(config, s))
    BY <1>6, <2>1, <2>2, <2>3 DEF Query, Blankable
  <2>4. CASE ~Fails(Names(config, s))
    <3>1. PICK told : /\ st' = ApplyUnits(config, st, s, told)
                      /\ retained' = retained \cup UnitTopics(config, Known(st'))
      BY <1>6, <2>4 DEF Query
    <3>2. DOMAIN st' = IDs(config)
      BY <2>2, <3>1 DEF ApplyUnits
    <3>3. UnitTopics(config, Known(st')) \subseteq RetainedTopics(config)
      BY <3>2, KnownAreIDs, UnitTopicsBlanked
    <3> QED
      BY <2>1, <2>2, <3>1, <3>2, <3>3 DEF Blankable
  <2> QED
    BY <2>3, <2>4
<1>7. CASE UNCHANGED vars
  BY <1>7 DEF vars, Blankable
<1> QED
  BY <1>1, <1>2, <1>3, <1>4, <1>5, <1>6, <1>7 DEF Next

\* After --clear-discovery nothing of the daemon is left at the broker, whatever the
\* configuration and whatever was published under it (clearDiscovery in main.go,
\* RetainedTopics in topics.go).
THEOREM ClearLeavesNothing == Spec => NothingLeftBehind
<1>1. Init => Blankable
  BY DEF Init, Blankable
<1>2. Blankable /\ [Next]_vars => Blankable'
  BY StepBlankable
<1>3. Blankable /\ [Next]_vars => [Clear => retained' = {}]_vars
  BY DEF Clear, Blankable
<1> QED
  BY <1>1, <1>2, <1>3, PTL DEF Spec, NothingLeftBehind

=============================================================================
