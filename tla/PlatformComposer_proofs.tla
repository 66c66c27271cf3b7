----------------------- MODULE PlatformComposer_proofs -----------------------
(***************************************************************************)
(* Proofs about PlatformComposer, for any number of overlapping requests,  *)
(* platforms, aborts and platforms to keep, and whatever the console asks  *)
(* for: what a platform gets and what its preview showed, what the         *)
(* retirement of generated platforms may do, and how many of them it       *)
(* leaves.                                                                 *)
(***************************************************************************)
EXTENDS PlatformComposer, FiniteSetTheorems, WellFoundedInduction, TLAPS

-----------------------------------------------------------------------------
(* Sequences built step by step *)

\* A set of numbers has a least one: the form induction takes here.
LEMMA Least ==
  ASSUME NEW T, T \subseteq Nat, T # {}
  PROVE  \E m \in T : \A n \in T : m <= n
<1> PICK R : R = { pair \in Nat \X Nat : pair[1] < pair[2] }
  OBVIOUS
<1>1. IsWellFoundedOn(R, Nat)
  BY NatLessThanWellFounded DEF OpToRel
<1>2. PICK m \in T : \A n \in T : <<n, m>> \notin R
  BY <1>1, WFMin
<1>3. \A n \in T : ~ (n < m)
  BY <1>2
<1> QED BY <1>3

\* A way to build Kept step by step.
Walk(out, s, I, n) ==
  out = [i \in 0..n |-> IF i = 0 THEN << >>
                        ELSE IF i \in I THEN Append(out[i - 1], s[i]) ELSE out[i - 1]]

\* A recursive function is one because some function satisfies its equation.
LEMMA WalkExists ==
  ASSUME NEW s, NEW I, NEW n \in Nat
  PROVE  \E out : Walk(out, s, I, n)
<1> PICK T : T = { k \in Nat : ~ \E out : Walk(out, s, I, k) }
  OBVIOUS
<1>1. CASE T # {}
  <2> PICK m \in T : \A k \in T : m <= k
    BY <1>1, Least
  <2>1. CASE m = 0
    <3> PICK out : out = [i \in 0..0 |-> << >>]
      OBVIOUS
    <3>1. Walk(out, s, I, 0)
      BY DEF Walk
    <3> QED BY <2>1, <3>1
  <2>2. CASE m # 0
    <3>1. m - 1 \in Nat /\ m - 1 \notin T
      BY <2>2
    <3> PICK out : Walk(out, s, I, m - 1)
      BY <3>1
    <3> PICK last : last = IF m \in I THEN Append(out[m - 1], s[m]) ELSE out[m - 1]
      OBVIOUS
    <3> PICK more : more = [i \in 0..m |-> IF i = m THEN last ELSE out[i]]
      OBVIOUS
    <3>2. \A i \in 0..m - 1 : more[i] = out[i]
      BY <2>2
    <3>3. ASSUME NEW i \in 0..m
          PROVE more[i] = IF i = 0 THEN << >>
                        ELSE IF i \in I THEN Append(more[i - 1], s[i]) ELSE more[i - 1]
      <4>1. CASE i = m
        BY <2>2, <3>2, <4>1
      <4>2. CASE i # m
        <5>1. i \in 0..m-1 /\ more[i] = out[i]
          BY <3>2, <4>2
        <5>2. i # 0 => more[i-1] = out[i-1]
          BY <3>2, <5>1
        <5> QED BY <5>1, <5>2 DEF Walk
      <4> QED BY <4>1, <4>2
    <3>4. Walk(more, s, I, m)
      BY <3>3 DEF Walk
    <3> QED BY <3>4
  <2> QED BY <2>1, <2>2
<1> QED BY <1>1

LEMMA KeptWalk ==
  ASSUME NEW s, NEW I, Len(s) \in Nat
  PROVE  \E out : Walk(out, s, I, Len(s)) /\ Kept(s, I) = out[Len(s)]
<1> PICK w : w = CHOOSE out : Walk(out, s, I, Len(s))
  OBVIOUS
<1>1. Walk(w, s, I, Len(s))
  BY WalkExists
<1>2. Kept(s, I) = w[Len(s)]
  BY DEF Kept, Walk
<1> QED BY <1>1, <1>2

\* How sequences are put together, as operators the provers can match.
Longer(s, e, t) == t = Append(s, e)
Joined(s, t, u) == u = s \o t
Filtered(s, S, t) == t = Only(s, S)

LEMMA AppendOne ==
  ASSUME NEW T, NEW s \in Seq(T), NEW e \in T, NEW t, Longer(s, e, t)
  PROVE  /\ t \in Seq(T) /\ ToSet(t) = ToSet(s) \cup { e }
         /\ IsInjective(s) /\ e \notin ToSet(s) => IsInjective(t)
<1> USE DEF Longer
<1>1. /\ t \in Seq(T) /\ Len(t) = Len(s) + 1 /\ Len(s) \in Nat /\ t[Len(s) + 1] = e
      /\ \A i \in 1..Len(s) : t[i] = s[i]
      /\ DOMAIN s = 1..Len(s) /\ DOMAIN t = 1..(Len(s) + 1)
  OBVIOUS
<1>2. ToSet(t) = ToSet(s) \cup { e }
  BY <1>1 DEF ToSet
<1>3. ASSUME IsInjective(s), e \notin ToSet(s) PROVE IsInjective(t)
  BY <1>1, <1>3 DEF IsInjective, ToSet
<1> QED BY <1>1, <1>2, <1>3

LEMMA Concatenated ==
  ASSUME NEW T, NEW s \in Seq(T), NEW t \in Seq(T), NEW u, Joined(s, t, u)
  PROVE  /\ u \in Seq(T) /\ ToSet(u) = ToSet(s) \cup ToSet(t)
         /\ IsInjective(s) /\ IsInjective(t) /\ ToSet(s) \cap ToSet(t) = {} => IsInjective(u)
<1> USE DEF Joined
<1>1. /\ u \in Seq(T) /\ Len(u) = Len(s) + Len(t) /\ Len(s) \in Nat /\ Len(t) \in Nat
      /\ \A i \in 1..Len(s) : u[i] = s[i]
      /\ \A i \in (Len(s) + 1)..(Len(s) + Len(t)) : u[i] = t[i - Len(s)]
      /\ DOMAIN s = 1..Len(s) /\ DOMAIN t = 1..Len(t) /\ DOMAIN u = 1..(Len(s) + Len(t))
  OBVIOUS
<1>2. \A j \in 1..Len(t) : j + Len(s) \in DOMAIN u /\ u[j + Len(s)] = t[j]
  BY <1>1
<1>3. \A i \in DOMAIN u \ DOMAIN s : i - Len(s) \in DOMAIN t /\ u[i] = t[i - Len(s)]
  BY <1>1
<1>4. ToSet(u) = ToSet(s) \cup ToSet(t)
  <2>1. \A x \in ToSet(u) : x \in ToSet(s) \cup ToSet(t)
    BY <1>1, <1>3 DEF ToSet
  <2>2. \A x \in ToSet(s) : x \in ToSet(u)
    BY <1>1 DEF ToSet
  <2>3. \A x \in ToSet(t) : x \in ToSet(u)
    <3> SUFFICES ASSUME NEW j \in DOMAIN t PROVE t[j] \in ToSet(u)
      BY DEF ToSet
    <3>1. j + Len(s) \in DOMAIN u /\ u[j + Len(s)] = t[j]
      BY <1>1, <1>2
    <3> QED BY <3>1 DEF ToSet
  <2> QED BY <2>1, <2>2, <2>3
<1>5. ASSUME IsInjective(s), IsInjective(t), ToSet(s) \cap ToSet(t) = {},
             NEW i \in DOMAIN u, NEW j \in DOMAIN u, u[i] = u[j]
      PROVE  i = j
  <2>1. CASE i \in DOMAIN s /\ j \in DOMAIN s
    BY <1>1, <1>5, <2>1 DEF IsInjective
  <2>2. CASE i \in DOMAIN s /\ j \notin DOMAIN s
    BY <1>1, <1>3, <1>5, <2>2 DEF ToSet
  <2>3. CASE i \notin DOMAIN s /\ j \in DOMAIN s
    BY <1>1, <1>3, <1>5, <2>3 DEF ToSet
  <2>4. CASE i \notin DOMAIN s /\ j \notin DOMAIN s
    <3>1. i - Len(s) = j - Len(s)
      BY <1>3, <1>5, <2>4 DEF IsInjective
    <3> QED BY <1>1, <3>1
  <2> QED BY <2>1, <2>2, <2>3, <2>4
<1> QED BY <1>1, <1>4, <1>5 DEF IsInjective

\* The walk is right so far.
Good(out, T, s, I, k) ==
  /\ out[k] \in Seq(T) /\ ToSet(out[k]) = { s[i] : i \in I \cap 1..k }
  /\ (\A i, j \in I \cap DOMAIN s : s[i] = s[j] => i = j) => IsInjective(out[k])

\* Kept keeps what is at the places, and puts nothing twice that is there once.
LEMMA KeptWell ==
  ASSUME NEW T, NEW s \in Seq(T), NEW I
  PROVE  /\ Kept(s, I) \in Seq(T)
         /\ ToSet(Kept(s, I)) = { s[i] : i \in I \cap DOMAIN s }
         /\ (\A i, j \in I \cap DOMAIN s : s[i] = s[j] => i = j) => IsInjective(Kept(s, I))
<1>1. Len(s) \in Nat /\ DOMAIN s = 1..Len(s) /\ \A i \in DOMAIN s : s[i] \in T
  OBVIOUS
<1> PICK out : Walk(out, s, I, Len(s)) /\ Kept(s, I) = out[Len(s)]
  BY <1>1, KeptWalk
<1> PICK bad : bad = { k \in 0..Len(s) : ~ Good(out, T, s, I, k) }
  OBVIOUS
<1>2. bad = {}
  <2> SUFFICES ASSUME bad # {} PROVE FALSE
    OBVIOUS
  <2>0. bad \subseteq Nat
    BY <1>1
  <2> PICK m \in bad : \A k \in bad : m <= k
    BY <2>0, Least
  <2>1. m \in 0..Len(s) /\ ~ Good(out, T, s, I, m)
    OBVIOUS
  <2>2. CASE m = 0
    <3>1. out[m] = << >>
      BY <1>1, <2>1, <2>2 DEF Walk
    <3>2. I \cap 1..0 = {}
      OBVIOUS
    <3>3. out[m] \in Seq(T) /\ ToSet(out[m]) = {} /\ IsInjective(out[m])
      BY <3>1 DEF ToSet, IsInjective
    <3>4. Good(out, T, s, I, m)
      BY <2>2, <3>2, <3>3 DEF Good
    <3> QED BY <2>1, <3>4
  <2>3. CASE m # 0
    <3>1. m - 1 \in 0..Len(s) /\ m \in 1..Len(s) /\ m - 1 \notin bad /\ 1..m = 1..(m - 1) \cup { m }
      BY <1>1, <2>1, <2>3
    <3>2. Good(out, T, s, I, m - 1)
      BY <3>1
    <3>3. out[m] = IF m \in I THEN Append(out[m - 1], s[m]) ELSE out[m - 1]
      BY <2>1, <2>3 DEF Walk
    <3>4. CASE m \in I
      <4>1. I \cap 1..m = (I \cap 1..(m - 1)) \cup { m }
        BY <3>1, <3>4
      <4>2. { s[i] : i \in I \cap 1..m } = { s[i] : i \in I \cap 1..(m - 1) } \cup { s[m] }
        BY <4>1
      <4>3. out[m - 1] \in Seq(T) /\ s[m] \in T /\ out[m] = Append(out[m - 1], s[m])
        BY <1>1, <3>1, <3>2, <3>3, <3>4 DEF Good
      <4>4. ASSUME \A i, j \in I \cap DOMAIN s : s[i] = s[j] => i = j PROVE s[m] \notin ToSet(out[m - 1])
        BY <1>1, <3>1, <3>2, <3>4, <4>4 DEF Good
      <4>5. /\ out[m] \in Seq(T) /\ ToSet(out[m]) = ToSet(out[m - 1]) \cup { s[m] }
            /\ IsInjective(out[m - 1]) /\ s[m] \notin ToSet(out[m - 1]) => IsInjective(out[m])
        <5>1. Longer(out[m - 1], s[m], out[m])
          BY <4>3 DEF Longer
        <5> QED BY <4>3, <5>1, AppendOne
      <4>6. Good(out, T, s, I, m)
        BY <3>2, <4>2, <4>4, <4>5 DEF Good
      <4> QED BY <2>1, <4>6
    <3>5. CASE m \notin I
      <4>1. I \cap 1..m = I \cap 1..(m - 1)
        BY <3>1, <3>5
      <4>2. Good(out, T, s, I, m)
        BY <3>2, <3>3, <3>5, <4>1 DEF Good
      <4> QED BY <2>1, <4>2
    <3> QED BY <3>4, <3>5
  <2> QED BY <2>2, <2>3
<1>3. Good(out, T, s, I, Len(s))
  BY <1>1, <1>2
<1> QED BY <1>1, <1>3 DEF Good

\* A walk that keeps every place of s copies s and stops.
Copied(out, s, k) ==
  /\ k <= Len(s) => out[k] = SubSeq(s, 1, k)
  /\ k >= Len(s) => out[k] = s

LEMMA KeptFirst ==
  ASSUME NEW T, NEW s \in Seq(T), NEW t \in Seq(T), NEW I, I = DOMAIN s
  PROVE  Kept(s \o t, I) = s
<1> PICK u : u = s \o t
  OBVIOUS
<1>1. /\ Len(s) \in Nat /\ Len(t) \in Nat /\ Len(u) = Len(s) + Len(t) /\ Len(u) \in Nat
      /\ Len(s) <= Len(u) /\ DOMAIN s = 1..Len(s) /\ \A i \in 1..Len(s) : u[i] = s[i]
  OBVIOUS
<1> PICK out : Walk(out, u, I, Len(u)) /\ Kept(u, I) = out[Len(u)]
  BY <1>1, KeptWalk
<1> PICK bad : bad = { k \in 0..Len(u) : ~ Copied(out, s, k) }
  OBVIOUS
<1>2. bad = {}
  <2> SUFFICES ASSUME bad # {} PROVE FALSE
    OBVIOUS
  <2>0. bad \subseteq Nat
    BY <1>1
  <2> PICK m \in bad : \A k \in bad : m <= k
    BY <2>0, Least
  <2>1. m \in 0..Len(u) /\ ~ Copied(out, s, m)
    OBVIOUS
  <2>2. CASE m = 0
    <3>1. out[m] = << >>
      BY <1>1, <2>1, <2>2 DEF Walk
    <3>2. SubSeq(s, 1, 0) = << >>
      OBVIOUS
    <3> QED BY <1>1, <2>1, <2>2, <3>1, <3>2 DEF Copied
  <2>3. CASE m # 0
    <3>1. m - 1 \in 0..Len(u) /\ m \in 1..Len(u) /\ m - 1 \notin bad
      BY <1>1, <2>1, <2>3
    <3>2. Copied(out, s, m - 1)
      BY <3>1
    <3>3. out[m] = IF m \in I THEN Append(out[m - 1], u[m]) ELSE out[m - 1]
      BY <2>1, <2>3 DEF Walk
    <3>4. CASE m <= Len(s)
      <4>1. out[m] = Append(SubSeq(s, 1, m - 1), s[m])
        BY <1>1, <3>1, <3>2, <3>3, <3>4 DEF Copied
      <4>2. Append(SubSeq(s, 1, m - 1), s[m]) = SubSeq(s, 1, m)
        BY <1>1, <3>1, <3>4
      <4> QED BY <2>1, <3>4, <4>1, <4>2 DEF Copied
    <3>5. CASE m > Len(s)
      <4>1. SubSeq(s, 1, Len(s)) = s
        OBVIOUS
      <4>2. out[m - 1] = s
        BY <1>1, <3>1, <3>2, <3>5, <4>1 DEF Copied
      <4>3. m \notin I /\ ~ (m <= Len(s))
        BY <1>1, <3>1, <3>5
      <4> QED BY <2>1, <3>3, <4>2, <4>3 DEF Copied
    <3> QED BY <1>1, <3>1, <3>4, <3>5
  <2> QED BY <2>2, <2>3
<1>3. Copied(out, s, Len(u))
  <2>1. Len(u) \in Nat
    BY <1>1
  <2>2. Len(u) \in 0..Len(u)
    BY <2>1
  <2> QED BY <1>2, <2>2
<1>4. SubSeq(s, 1, Len(s)) = s
  OBVIOUS
<1> QED BY <1>1, <1>3, <1>4 DEF Copied

LEMMA OnlyWell ==
  ASSUME NEW T, NEW s \in Seq(T), NEW S, NEW t, Filtered(s, S, t)
  PROVE  t \in Seq(T) /\ ToSet(t) = ToSet(s) \cap S /\ (IsInjective(s) => IsInjective(t))
<1> PICK I : I = { i \in DOMAIN s : s[i] \in S }
  OBVIOUS
<1>1. { s[i] : i \in I \cap DOMAIN s } = ToSet(s) \cap S
  BY DEF ToSet
<1>2. t = Kept(s, I)
  BY DEF Only, Filtered
<1>3. IsInjective(s) => \A i, j \in I \cap DOMAIN s : s[i] = s[j] => i = j
  BY DEF IsInjective
<1>4. /\ Kept(s, I) \in Seq(T) /\ ToSet(Kept(s, I)) = { s[i] : i \in I \cap DOMAIN s }
      /\ (\A i, j \in I \cap DOMAIN s : s[i] = s[j] => i = j) => IsInjective(Kept(s, I))
  BY KeptWell
<1> QED BY <1>1, <1>2, <1>3, <1>4

LEMMA OrderedUnionWell ==
  ASSUME NEW T, NEW s \in Seq(T)
  PROVE  /\ OrderedUnion(s) \in Seq(T)
         /\ ToSet(OrderedUnion(s)) = ToSet(s)
         /\ IsInjective(OrderedUnion(s))
<1> PICK I : I = { i \in DOMAIN s : \A j \in 1..(i - 1) : s[j] # s[i] }
  OBVIOUS
<1>1. DOMAIN s = 1..Len(s) /\ Len(s) \in Nat
  OBVIOUS
<1>2. { s[i] : i \in I \cap DOMAIN s } = ToSet(s)
  <2>1. ASSUME NEW i \in DOMAIN s PROVE \E j \in I : s[j] = s[i]
    <3> PICK same : same = { j \in DOMAIN s : s[j] = s[i] }
      OBVIOUS
    <3> PICK j \in same : \A k \in same : j <= k
      BY <1>1, Least
    <3>1. j \in I
      BY <1>1
    <3> QED BY <3>1
  <2> QED BY <2>1 DEF ToSet
<1>3. \A i, j \in I \cap DOMAIN s : s[i] = s[j] => i = j
  BY <1>1
<1>4. OrderedUnion(s) = Kept(s, I)
  BY DEF OrderedUnion
<1>5. /\ Kept(s, I) \in Seq(T) /\ ToSet(Kept(s, I)) = { s[i] : i \in I \cap DOMAIN s }
      /\ (\A i, j \in I \cap DOMAIN s : s[i] = s[j] => i = j) => IsInjective(Kept(s, I))
  BY KeptWell
<1> QED BY <1>2, <1>3, <1>4, <1>5

LEMMA NothingMore ==
  ASSUME NEW T, NEW s \in Seq(T), NEW t \in Seq(T), IsInjective(s), ToSet(t) \subseteq ToSet(s)
  PROVE  OrderedUnion(s \o t) = s
<1> PICK u : u = s \o t
  OBVIOUS
<1> PICK I : I = { i \in DOMAIN u : \A j \in 1..(i - 1) : u[j] # u[i] }
  OBVIOUS
<1>1. /\ Len(s) \in Nat /\ Len(t) \in Nat /\ DOMAIN s = 1..Len(s) /\ DOMAIN t = 1..Len(t)
      /\ DOMAIN u = 1..(Len(s) + Len(t))
      /\ \A i \in 1..Len(s) : u[i] = s[i]
      /\ \A i \in (Len(s) + 1)..(Len(s) + Len(t)) : u[i] = t[i - Len(s)]
  OBVIOUS
<1>2. \A i \in DOMAIN s : i \in I
  BY <1>1 DEF IsInjective
<1>3. ASSUME NEW i \in DOMAIN u \ DOMAIN s PROVE i \notin I
  <2>1. i - Len(s) \in DOMAIN t /\ u[i] = t[i - Len(s)] /\ i > Len(s) /\ i \in Nat
    BY <1>1
  <2> PICK j \in DOMAIN s : s[j] = u[i]
    BY <2>1 DEF ToSet
  <2>2. j \in 1..(i - 1) /\ u[j] = u[i]
    BY <1>1, <2>1
  <2> QED BY <2>2
<1>4. I = DOMAIN s
  BY <1>1, <1>2, <1>3
<1>5. OrderedUnion(u) = Kept(u, I)
  BY DEF OrderedUnion
<1> QED BY <1>4, <1>5, KeptFirst

\* A way to build FlattenSeq(s) step by step.
Flat(flatten, s, n) ==
  flatten = [i \in 1..n |-> IF i = 1 THEN s[i] ELSE flatten[i - 1] \o s[i]]

LEMMA FlatExists ==
  ASSUME NEW s, NEW n \in Nat \ { 0 }
  PROVE  \E flatten : Flat(flatten, s, n)
<1> PICK bad : bad = { k \in Nat \ { 0 } : ~ \E flatten : Flat(flatten, s, k) }
  OBVIOUS
<1>1. bad = {}
  <2> SUFFICES ASSUME bad # {} PROVE FALSE
    OBVIOUS
  <2>0. bad \subseteq Nat
    OBVIOUS
  <2> PICK m \in bad : \A k \in bad : m <= k
    BY <2>0, Least
  <2>1. m \in Nat \ { 0 }
    OBVIOUS
  <2>2. CASE m = 1
    <3> PICK f : f = [i \in 1..1 |-> s[i]]
      OBVIOUS
    <3>1. Flat(f, s, 1)
      BY <2>1, <2>2 DEF Flat
    <3> QED BY <2>1, <2>2, <3>1
  <2>3. CASE m # 1
    <3>1. m - 1 \in Nat \ { 0 } /\ m - 1 \notin bad
      BY <2>1, <2>3
    <3> PICK f : Flat(f, s, m - 1)
      BY <3>1
    <3> PICK more : more = [i \in 1..m |-> IF i = m THEN f[m - 1] \o s[m] ELSE f[i]]
      OBVIOUS
    <3>2. \A i \in 1..(m - 1) : more[i] = f[i]
      BY <2>1
    <3>3. ASSUME NEW i \in 1..m
          PROVE  more[i] = IF i = 1 THEN s[i] ELSE more[i - 1] \o s[i]
      <4>1. CASE i = m
        <5>1. m - 1 \in 1..(m - 1) /\ m \in 1..m
          BY <2>1, <2>3
        <5>2. more[m - 1] = f[m - 1]
          BY <3>2, <5>1
        <5>3. more[m] = f[m - 1] \o s[m]
          BY <5>1
        <5> QED BY <2>3, <4>1, <5>2, <5>3
      <4>2. CASE i # m
        <5>1. i \in 1..(m - 1) /\ more[i] = f[i] /\ (i # 1 => more[i - 1] = f[i - 1])
          BY <2>1, <3>2, <4>2
        <5> QED BY <5>1 DEF Flat
      <4> QED BY <4>1, <4>2
    <3>4. Flat(more, s, m)
      BY <3>3 DEF Flat
    <3> QED BY <2>1, <3>4
  <2> QED BY <2>2, <2>3
<1> QED BY <1>1

LEMMA FlattenWell ==
  ASSUME NEW T, NEW s \in Seq(Seq(T))
  PROVE  FlattenSeq(s) \in Seq(T)
<1>1. Len(s) \in Nat /\ DOMAIN s = 1..Len(s) /\ \A i \in DOMAIN s : s[i] \in Seq(T)
  OBVIOUS
<1>2. CASE Len(s) = 0
  <2>1. FlattenSeq(s) = << >>
    BY <1>2 DEF FlattenSeq
  <2> QED BY <2>1
<1>3. CASE Len(s) # 0
  <2>1. Len(s) \in 1..Len(s) /\ Len(s) \in Nat \ { 0 }
    BY <1>1, <1>3
  <2> PICK flatten : flatten = CHOOSE f : Flat(f, s, Len(s))
    OBVIOUS
  <2>2. Flat(flatten, s, Len(s))
    BY <2>1, FlatExists
  <2>3. FlattenSeq(s) = flatten[Len(s)]
    BY <1>3 DEF FlattenSeq, Flat
  <2> PICK bad : bad = { k \in 1..Len(s) : flatten[k] \notin Seq(T) }
    OBVIOUS
  <2>4. bad = {}
    <3> SUFFICES ASSUME bad # {} PROVE FALSE
      OBVIOUS
    <3>1. bad \subseteq Nat
      BY <1>1
    <3> PICK m \in bad : \A k \in bad : m <= k
      BY <3>1, Least
    <3>2. CASE m = 1
      BY <1>1, <2>2, <3>2 DEF Flat
    <3>3. CASE m # 1
      <4>1. m - 1 \in 1..Len(s) /\ m - 1 \notin bad
        BY <1>1, <3>3
      <4>2. flatten[m] = flatten[m - 1] \o s[m]
        BY <2>2, <3>3 DEF Flat
      <4>3. flatten[m - 1] \in Seq(T) /\ s[m] \in Seq(T)
        BY <1>1, <4>1
      <4>4. Joined(flatten[m - 1], s[m], flatten[m])
        BY <4>2 DEF Joined
      <4> QED BY <4>3, <4>4, Concatenated
    <3> QED BY <3>2, <3>3
  <2> QED BY <2>1, <2>3, <2>4
<1> QED BY <1>2, <1>3
-----------------------------------------------------------------------------
(* The catalogue *)

LEMMA FiniteEight ==
  ASSUME NEW a, NEW b, NEW c, NEW d, NEW e, NEW f, NEW g, NEW h
  PROVE  IsFiniteSet({ a, b, c, d, e, f, g, h })
<1>1. IsFiniteSet({}) 
  BY FS_EmptySet
<1>2. IsFiniteSet({ a })
  BY FS_Singleton
<1>3. IsFiniteSet({ a, b })
  BY <1>2, FS_AddElement, { a, b } = { a } \cup { b }
<1>4. IsFiniteSet({ a, b, c })
  BY <1>3, FS_AddElement, { a, b, c } = { a, b } \cup { c }
<1>5. IsFiniteSet({ a, b, c, d })
  BY <1>4, FS_AddElement, { a, b, c, d } = { a, b, c } \cup { d }
<1>6. IsFiniteSet({ e })
  BY FS_Singleton
<1>7. IsFiniteSet({ e, f })
  BY <1>6, FS_AddElement, { e, f } = { e } \cup { f }
<1>8. IsFiniteSet({ e, f, g })
  BY <1>7, FS_AddElement, { e, f, g } = { e, f } \cup { g }
<1>9. IsFiniteSet({ e, f, g, h })
  BY <1>8, FS_AddElement, { e, f, g, h } = { e, f, g } \cup { h }
<1> QED BY <1>5, <1>9, FS_Union, { a, b, c, d, e, f, g, h } = { a, b, c, d } \cup { e, f, g, h }

LEMMA FiniteCore == IsFiniteSet(CoreFeatures)
<1> PICK A, B, C :
      /\ A = { "report_form", "report_category", "geo_location", "photo_upload",
               "severity_triage", "geo_cluster", "duplicate_report_merge", "two_report_trigger" }
      /\ B = { "incident_case_creation", "case_review", "case_status", "emic_report",
               "community_handling", "incident_map", "public_timeline", "status_progress" }
      /\ C = { "public_case_list", "incident_statistics", "privacy_mask",
               "personal_data_redaction", "line_group_notify", "progress_subscription",
               "map_embed", "map_embed" }
  OBVIOUS
<1>1. IsFiniteSet(A) /\ IsFiniteSet(B) /\ IsFiniteSet(C)
  BY FiniteEight
<1>2. CoreFeatures = A \cup B \cup C
  BY DEF CoreFeatures
<1> QED BY <1>1, <1>2, FS_Union

LEMMA FiniteKeys == IsFiniteSet(LayerKeys)
<1> PICK A, B, C :
      /\ A = { "citizen_reports", "incident_cases", "report_clusters", "heatmap",
               "government_processing", "flooding", "road_damage", "landslide" }
      /\ B = { "trapped_people", "building_damage", "lifeline", "shelter", "fire_station",
               "official_alert", "rainfall", "water" }
      /\ C = { "radar", "debris_flow", "landslide_zone", "road_traffic", "reservoir",
               "population", "power_outage", "power_outage" }
  OBVIOUS
<1>1. IsFiniteSet(A) /\ IsFiniteSet(B) /\ IsFiniteSet(C)
  BY FiniteEight
<1>2. LayerKeys = A \cup B \cup C
  BY DEF LayerKeys, LayerModule
<1> QED BY <1>1, <1>2, FS_Union

LEMMA FiniteModules == IsFiniteSet(ModuleIds)
<1> PICK A, B :
      /\ A = { "reporter_role", "trend_visualization", "nantou_open_data_connector",
               "moi_shelter_connector", "cwa_connector", "wra_connector", "ardswc_connector",
               "tdx_connector" }
      /\ B = { "moi_population_connector" }
  OBVIOUS
<1>1. DOMAIN DefaultFor = A \cup B
  BY DEF DefaultFor
<1>2. IsFiniteSet(DOMAIN DefaultFor)
  <2>1. IsFiniteSet(A)
    BY FiniteEight
  <2>2. IsFiniteSet(B)
    <3>1. \A x : IsFiniteSet({ x })
      BY FS_Singleton
    <3> QED BY <3>1
  <2>3. IsFiniteSet(A \cup B)
    BY <2>1, <2>2, FS_Union
  <2> QED BY <1>1, <2>3
<1>3. IsFiniteSet(DefaultOff)
  <2>1. DefaultOff = { "ncdr_connector" } \cup { "taipower_connector" }
    BY DEF DefaultOff
  <2> QED BY <2>1, FS_Singleton, FS_Union
<1> PICK layers : layers = { LayerModule[l] : l \in LayerKeys }
  OBVIOUS
<1>4. IsFiniteSet(layers)
  <2> PICK f : f = [l \in LayerKeys |-> LayerModule[l]]
    OBVIOUS
  <2>1. layers = { f[l] : l \in LayerKeys } 
    OBVIOUS
  <2>2. f \in Surjection(LayerKeys, layers)
    BY <2>1 DEF Surjection
  <2> QED BY <2>2, FiniteKeys, FS_Surjection
<1> QED BY <1>2, <1>3, <1>4, FiniteCore, FS_Union DEF ModuleIds

\* No two layers share a module, and no module of a layer is anything else.
LEMMA LayerModulesDiffer ==
  ASSUME NEW l \in LayerKeys, NEW k \in LayerKeys, LayerModule[l] = LayerModule[k]
  PROVE  l = k
BY DEF LayerKeys, LayerModule

LEMMA LayersApart ==
  ASSUME NEW l \in LayerKeys
  PROVE  LayerModule[l] \notin CoreFeatures \cup DOMAIN DefaultFor \cup DefaultOff
BY DEF LayerKeys, LayerModule, CoreFeatures, DefaultFor, DefaultOff

LEMMA SourcesKnown ==
  ASSUME NEW l \in DOMAIN Source
  PROVE  l \in LayerKeys /\ Source[l] \in DOMAIN DefaultFor \cup DefaultOff
BY DEF LayerKeys, LayerModule, Source, DefaultFor, DefaultOff

LEMMA NeedsKnown ==
  ASSUME NEW m \in DOMAIN Needs
  PROVE  m \in CoreFeatures \cup { "reporter_role" } /\ Needs[m] \subseteq CoreFeatures
BY DEF Needs, CoreFeatures

LEMMA DependenciesKnown == \A m \in ModuleIds : Dependencies[m] \subseteq ModuleIds
BY NeedsKnown, SourcesKnown DEF Dependencies, ModuleIds

-----------------------------------------------------------------------------
(* The closure of a selection *)

More(S) == S \cup UNION { Dependencies[m] : m \in S }

\* A table of closures.
Closes(f) == f = [S \in SUBSET ModuleIds |-> IF More(S) = S THEN S ELSE f[More(S)]]

LEMMA ClosesExists == \E f : Closes(f)
<1> PICK around : around = [S \in SUBSET ModuleIds |->
                              { T \in SUBSET ModuleIds : S \subseteq T /\ More(T) = T }]
  OBVIOUS
<1> PICK f : f = [S \in SUBSET ModuleIds |-> { x \in ModuleIds : \A T \in around[S] : x \in T }]
  OBVIOUS
<1>1. ASSUME NEW S \in SUBSET ModuleIds
      PROVE  f[S] = IF More(S) = S THEN S ELSE f[More(S)]
  <2>1. CASE More(S) = S
    <3>1. S \in around[S]
      BY <2>1
    <3> QED BY <2>1, <3>1
  <2>2. CASE More(S) # S
    <3> PICK R \in SUBSET ModuleIds : R = More(S)
      BY DependenciesKnown DEF More
    <3>1. ASSUME NEW T \in SUBSET ModuleIds, More(T) = T PROVE S \subseteq T <=> R \subseteq T
      BY <3>1 DEF More
    <3>2. around[S] = around[R]
      BY <3>1
    <3> QED BY <2>2, <3>2
  <2> QED BY <2>1, <2>2
<1>2. Closes(f)
  BY <1>1 DEF Closes
<1> QED BY <1>2

LEMMA ClosureIs == Closes(closure)
<1> PICK f : f = CHOOSE g : Closes(g)
  OBVIOUS
<1>1. Closes(f)
  BY ClosesExists
<1>2. closure = f
  BY DEF closure, Closes, More
<1> QED BY <1>1, <1>2

\* A selection with all its modules need.
Closed(S) == S \subseteq ModuleIds /\ \A m \in S : Dependencies[m] \subseteq S

LEMMA ClosureClosed ==
  ASSUME NEW S, S \subseteq ModuleIds
  PROVE  /\ S \subseteq Closure(S) /\ Closed(Closure(S))
         /\ Closed(S) => Closure(S) = S
<1> PICK bad : bad = { T \in SUBSET ModuleIds : ~ (T \subseteq closure[T] /\ Closed(closure[T])) }
  OBVIOUS
<1> PICK sizes : sizes = { Cardinality(ModuleIds \ T) : T \in bad }
  OBVIOUS
<1>1. \A T : IsFiniteSet(ModuleIds \ T) /\ Cardinality(ModuleIds \ T) \in Nat
  BY FiniteModules, FS_Subset, FS_CardinalityType
<1>2. bad = {}
  <2> SUFFICES ASSUME bad # {} PROVE FALSE
    OBVIOUS
  <2>1. sizes \subseteq Nat /\ sizes # {}
    BY <1>1
  <2> PICK n \in sizes : \A k \in sizes : n <= k
    BY <2>1, Least
  <2> PICK T \in bad : n = Cardinality(ModuleIds \ T)
    OBVIOUS
  <2> PICK R : R = More(T)
    OBVIOUS
  <2>2. T \subseteq R /\ R \subseteq ModuleIds
    BY DependenciesKnown DEF More
  <2>3. closure[T] = IF R = T THEN T ELSE closure[R]
    BY ClosureIs DEF Closes
  <2>4. CASE R = T
    BY <2>3, <2>4 DEF Closed, More
  <2>5. CASE R # T
    <3> PICK left, less : left = ModuleIds \ T /\ less = ModuleIds \ R
      OBVIOUS
    <3>1. less \subseteq left /\ less # left
      BY <2>2, <2>5
    <3>2. /\ Cardinality(less) \in Nat /\ Cardinality(left) \in Nat
          /\ Cardinality(less) <= Cardinality(left) /\ Cardinality(less) # Cardinality(left)
      BY <1>1, <3>1, FS_Subset
    <3>3. R \notin bad
      <4>1. n = Cardinality(left) /\ (R \in bad => Cardinality(less) \in sizes)
        OBVIOUS
      <4>2. R \in bad => n <= Cardinality(less)
        BY <4>1
      <4> QED BY <3>2, <4>1, <4>2
    <3> QED BY <2>2, <2>3, <2>5, <3>3
  <2> QED BY <2>4, <2>5
<1>3. ASSUME Closed(S) PROVE closure[S] = S
  <2>1. More(S) = S
    BY <1>3 DEF Closed, More
  <2> QED BY <2>1, ClosureIs DEF Closes
<1> QED BY <1>2, <1>3 DEF Closure

\* What needs what: features need features, layers their connectors, and these nothing.
LEMMA DependenciesOfFeature ==
  ASSUME NEW m, m \in CoreFeatures \cup DOMAIN DefaultFor \cup DefaultOff
  PROVE  m \in ModuleIds /\ Dependencies[m] \subseteq CoreFeatures
<1>1. m \in ModuleIds
  BY DEF ModuleIds
<1>2. CASE m \in DOMAIN Needs
  BY <1>1, <1>2, NeedsKnown DEF Dependencies
<1>3. CASE m \notin DOMAIN Needs
  <2>1. \A k \in DOMAIN Source : LayerModule[k] # m
    BY LayersApart, SourcesKnown
  <2>2. Dependencies[m] = {}
    BY <1>1, <1>3, <2>1 DEF Dependencies
  <2> QED BY <1>1, <2>2
<1> QED BY <1>2, <1>3

LEMMA DependenciesOfLayer ==
  ASSUME NEW l \in LayerKeys
  PROVE  /\ LayerModule[l] \in ModuleIds
         /\ l \in DOMAIN Source => Source[l] \in Dependencies[LayerModule[l]]
         /\ Dependencies[LayerModule[l]] \subseteq DOMAIN DefaultFor \cup DefaultOff
<1> PICK m : m = LayerModule[l]
  OBVIOUS
<1>1. m \in ModuleIds
  BY DEF ModuleIds
<1>2. m \notin DOMAIN Needs
  <2>1. m # "reporter_role"
    BY LayersApart DEF DefaultFor
  <2> QED BY <2>1, LayersApart, NeedsKnown
<1>3. Dependencies[m] = { Source[k] : k \in { j \in DOMAIN Source : LayerModule[j] = m } }
  BY <1>1, <1>2 DEF Dependencies
<1> QED BY <1>1, <1>3, SourcesKnown

\* The provers do not know of a literal that it is a string.
Names == STRING \cup HazardKeys \cup LayerKeys

LEMMA NamesWell ==
  /\ \A s \in Seq(STRING) : s \in Seq(Names)
  /\ \A s \in Seq(LayerKeys) : s \in Seq(Names)
  /\ \A s \in Seq(HazardKeys) : s \in Seq(Names)
<1>1. ASSUME NEW T \in SUBSET Names, NEW s \in Seq(T) PROVE s \in Seq(Names)
  OBVIOUS
<1> QED BY <1>1 DEF Names

LEMMA BaseWell ==
  /\ BaseLayers \in Seq(Names) /\ ToSet(BaseLayers) \subseteq LayerKeys \ { "fire_station" }
  /\ IsInjective(BaseLayers) /\ CoreLayers \subseteq ToSet(BaseLayers)
<1>1. BaseLayers \in Seq(LayerKeys) /\ DOMAIN BaseLayers = 1..5
  BY DEF BaseLayers, LayerKeys, LayerModule
<1>2. ToSet(BaseLayers) = { "incident_cases", "report_clusters", "citizen_reports", "heatmap",
                            "government_processing" }
  BY <1>1 DEF ToSet, BaseLayers
<1>3. IsInjective(BaseLayers)
  BY <1>1 DEF IsInjective, BaseLayers
<1> QED BY <1>1, <1>2, <1>3, NamesWell DEF LayerKeys, LayerModule, CoreLayers

LEMMA KnownWell ==
  ASSUME NEW hz \in Seq(Names)
  PROVE  Known(hz) \in Seq(HazardKeys) /\ ToSet(Known(hz)) = ToSet(hz) \cap HazardKeys
<1>1. Known(hz) \in Seq(Names) /\ ToSet(Known(hz)) = ToSet(hz) \cap HazardKeys
  <2> PICK known : known = Known(hz)
    OBVIOUS
  <2>1. Filtered(hz, HazardKeys, known)
    BY DEF Filtered, Known
  <2> QED BY <2>1, OnlyWell
<1>2. \A i \in DOMAIN Known(hz) : Known(hz)[i] \in HazardKeys
  BY <1>1 DEF ToSet
<1> QED BY <1>1, <1>2

LEMMA HazardLayersWell == ASSUME NEW h \in HazardKeys PROVE HazardLayers[h] \in Seq(Names)
<1>1. HazardLayers[h] \in Seq(LayerKeys)
  <2>1. CASE h = "typhoon"
    BY <2>1 DEF HazardLayers, LayerKeys, LayerModule
  <2>2. CASE h = "heavy_rain"
    BY <2>2 DEF HazardLayers, LayerKeys, LayerModule
  <2>3. CASE h = "flood"
    BY <2>3 DEF HazardLayers, LayerKeys, LayerModule
  <2>4. CASE h = "landslide"
    BY <2>4 DEF HazardLayers, LayerKeys, LayerModule
  <2>5. CASE h = "earthquake"
    BY <2>5 DEF HazardLayers, LayerKeys, LayerModule
  <2>6. CASE h = "barrier_lake"
    BY <2>6 DEF HazardLayers, LayerKeys, LayerModule
  <2> QED BY <2>1, <2>2, <2>3, <2>4, <2>5, <2>6 DEF HazardKeys
<1> QED BY <1>1, NamesWell

-----------------------------------------------------------------------------
(* What the composer proposes *)

LEMMA ProfileLayersWell ==
  ASSUME NEW hz \in Seq(HazardKeys), NEW county
  PROVE  /\ ProfileLayers(hz, county) \in Seq(Names) /\ IsInjective(ProfileLayers(hz, county))
         /\ ToSet(ProfileLayers(hz, county)) \subseteq LayerKeys
         /\ CoreLayers \subseteq ToSet(ProfileLayers(hz, county))
<1> DEFINE given == IF hz = << >> THEN << "road_damage", "shelter", "official_alert" >>
                    ELSE OrderedUnion(FlattenSeq([i \in DOMAIN hz |-> HazardLayers[hz[i]]]))
<1> DEFINE S == LayerKeys \ ToSet(BaseLayers)
<1> DEFINE more == Only(given, S)
<1> DEFINE all == BaseLayers \o more
<1> DEFINE profile == ProfileLayers(hz, county)
<1> HIDE DEF given, S, more, all, profile
<1>1. given \in Seq(Names) /\ IsInjective(given)
  <2>1. CASE hz = << >>
    <3>1. given \in Seq(LayerKeys) /\ DOMAIN given = 1..3
      BY <2>1 DEF given, LayerKeys, LayerModule
    <3>2. IsInjective(given)
      BY <2>1, <3>1 DEF given, IsInjective
    <3> QED BY <3>1, <3>2, NamesWell
  <2>2. CASE hz # << >>
    <3> PICK s : s = [i \in DOMAIN hz |-> HazardLayers[hz[i]]]
      OBVIOUS
    <3>1. s \in Seq(Seq(Names))
      <4>1. \A i \in DOMAIN hz : HazardLayers[hz[i]] \in Seq(Names)
        BY HazardLayersWell
      <4> QED BY <4>1
    <3> QED BY <2>2, <3>1, FlattenWell, OrderedUnionWell DEF given
  <2> QED BY <2>1, <2>2
<1>2. more \in Seq(Names) /\ IsInjective(more) /\ ToSet(more) \subseteq S
  <2>1. more \in Seq(Names) /\ ToSet(more) = ToSet(given) \cap S /\ (IsInjective(given) => IsInjective(more))
    <3>1. Filtered(given, S, more)
      BY DEF Filtered, more
    <3> QED BY <1>1, <3>1, OnlyWell
  <2> QED BY <1>1, <2>1
<1>3. /\ all \in Seq(Names) /\ IsInjective(all) /\ ToSet(all) = ToSet(BaseLayers) \cup ToSet(more)
  <2>1. BaseLayers \in Seq(Names) /\ IsInjective(BaseLayers) /\ ToSet(BaseLayers) \cap ToSet(more) = {}
    BY <1>2, BaseWell DEF S
  <2>2. /\ all \in Seq(Names) /\ ToSet(all) = ToSet(BaseLayers) \cup ToSet(more)
        /\ IsInjective(BaseLayers) /\ IsInjective(more) /\ ToSet(BaseLayers) \cap ToSet(more) = {}
             => IsInjective(all)
    <3>1. Joined(BaseLayers, more, all)
      BY DEF Joined, all
    <3> QED BY <1>2, <2>1, <3>1, Concatenated
  <2> QED BY <1>2, <2>1, <2>2
<1>4. ToSet(all) \subseteq LayerKeys /\ CoreLayers \subseteq ToSet(all)
  BY <1>2, <1>3, BaseWell DEF S
<1>5. \/ profile = all
      \/ profile = Append(all, "fire_station") /\ "fire_station" \notin ToSet(all)
      \/ profile = Only(all, LayerKeys \ { "fire_station" })
  BY DEF ProfileLayers, profile, all, more, S, given
<1>6. CASE profile = Append(all, "fire_station") /\ "fire_station" \notin ToSet(all)
  <2>1. "fire_station" \in LayerKeys
    BY DEF LayerKeys, LayerModule
  <2>2. "fire_station" \in Names
    BY <2>1 DEF Names
  <2>3. /\ profile \in Seq(Names) /\ ToSet(profile) = ToSet(all) \cup { "fire_station" }
        /\ IsInjective(all) /\ "fire_station" \notin ToSet(all) => IsInjective(profile)
    <3>1. Longer(all, "fire_station", profile)
      BY <1>6 DEF Longer
    <3> QED BY <1>3, <2>2, <3>1, AppendOne
  <2> QED BY <1>3, <1>4, <1>6, <2>1, <2>3 DEF profile
<1>7. CASE profile = Only(all, LayerKeys \ { "fire_station" })
  <2> DEFINE R == LayerKeys \ { "fire_station" }
  <2> HIDE DEF R
  <2>1. CoreLayers \subseteq LayerKeys \ { "fire_station" }
    BY BaseWell
  <2>2. /\ profile \in Seq(Names) /\ ToSet(profile) = ToSet(all) \cap R
        /\ IsInjective(all) => IsInjective(profile)
    <3>1. Filtered(all, R, profile)
      BY <1>7 DEF Filtered, R
    <3> QED BY <1>3, <3>1, OnlyWell
  <2> QED BY <1>3, <1>4, <2>1, <2>2 DEF R, profile
<1> QED BY <1>3, <1>4, <1>5, <1>6, <1>7 DEF profile

\* What the composer proposes needs nothing more.
LEMMA ProfileComplete ==
  ASSUME NEW hz \in Seq(HazardKeys), NEW county
  PROVE  /\ Closed(ProfileModules(hz, county)) /\ CoreIds \subseteq ProfileModules(hz, county)
         /\ \A l \in LayerKeys :
              LayerModule[l] \in ProfileModules(hz, county) <=> l \in ToSet(ProfileLayers(hz, county))
<1> PICK L : L = ToSet(ProfileLayers(hz, county))
  OBVIOUS
<1>1. L \subseteq LayerKeys /\ CoreLayers \subseteq L
  BY ProfileLayersWell
<1> PICK shown : shown = { LayerModule[l] : l \in L }
  OBVIOUS
<1> PICK features, fed :
      /\ features \subseteq CoreFeatures \cup DOMAIN DefaultFor /\ CoreFeatures \subseteq features
      /\ fed = UNION { Dependencies[m] : m \in shown }
      /\ ProfileModules(hz, county) = features \cup shown \cup fed
  BY DEF ProfileModules
<1>2. fed \subseteq DOMAIN DefaultFor \cup DefaultOff
  BY <1>1, DependenciesOfLayer
<1>3. CoreIds \subseteq features \cup shown
  BY <1>1 DEF CoreIds
<1>4. \A m \in features \cup fed : m \in ModuleIds /\ Dependencies[m] \subseteq features
  BY <1>2, DependenciesOfFeature
<1>5. \A m \in shown : m \in ModuleIds /\ Dependencies[m] \subseteq fed
  BY <1>1, DependenciesOfLayer
<1>6. Closed(features \cup shown \cup fed)
  BY <1>4, <1>5 DEF Closed
<1>7. ASSUME NEW l \in LayerKeys PROVE LayerModule[l] \in features \cup shown \cup fed <=> l \in L
  BY <1>1, <1>2, <1>7, LayersApart, LayerModulesDiffer
<1> QED BY <1>3, <1>6, <1>7

-----------------------------------------------------------------------------
(* What a creation gets *)

\* The sequences of a creation.
Typable(ask) ==
  /\ ask.hazards \in Seq(Names)
  /\ ask.layers = Null \/ ask.layers \in Seq(Names)

LEMMA AllTypable == \A ask \in Asks \cup { DemoAsk } : Typable(ask)
<1>1. DemoAsk.hazards \in Seq(HazardKeys) /\ DemoAsk.layers = Null
  BY DEF DemoAsk, HazardKeys
<1>2. Typable(DemoAsk)
  BY <1>1, NamesWell DEF Typable
<1> QED BY <1>2, AsksAssumption, NamesWell DEF Typable

LEMMA DemoAcceptable == Acceptable(DemoAsk)
<1> PICK hz : hz = Known(DemoAsk.hazards)
  OBVIOUS
<1> PICK county : county = DemoAsk.county
  OBVIOUS
<1>1. hz \in Seq(HazardKeys) /\ hz # << >>
  <2>0. DemoAsk.hazards \in Seq(Names)
    BY AllTypable DEF Typable
  <2>1. DemoAsk.hazards[1] = "typhoon" /\ 1 \in DOMAIN DemoAsk.hazards
    BY DEF DemoAsk
  <2>2. "typhoon" \in ToSet(hz)
    <3>1. "typhoon" \in ToSet(DemoAsk.hazards) /\ "typhoon" \in HazardKeys
      BY <2>1 DEF ToSet, HazardKeys
    <3>2. ToSet(hz) = ToSet(DemoAsk.hazards) \cap HazardKeys
      BY <2>0, KnownWell
    <3> QED BY <3>1, <3>2
  <2>3. ToSet(<< >>) = {}
    BY DEF ToSet
  <2> QED BY <2>0, <2>2, <2>3, KnownWell
<1>2. DemoAsk.modules = Null /\ DemoAsk.layers = Null
  BY DEF DemoAsk
<1>3. WantedModules(DemoAsk) \subseteq ModuleIds
  BY <1>1, <1>2, ProfileComplete DEF WantedModules, Closed
<1>4. ToSet(WantedLayers(DemoAsk)) \subseteq LayerKeys
  BY <1>1, <1>2, ProfileLayersWell DEF WantedLayers
<1> QED BY <1>1, <1>3, <1>4 DEF Acceptable

LEMMA OrderWell == LayerOrder \in Seq(Names) /\ ToSet(LayerOrder) = LayerKeys
<1>1. LayerOrder \in Seq(LayerKeys) /\ DOMAIN LayerOrder = 1..23
  BY DEF LayerOrder, LayerKeys, LayerModule
<1>2. ToSet(LayerOrder) = LayerKeys
  BY <1>1 DEF ToSet, LayerOrder, LayerKeys, LayerModule
<1> QED BY <1>1, <1>2, NamesWell

LEMMA WantedWell ==
  ASSUME NEW ask \in Asks \cup { DemoAsk }, Acceptable(ask)
  PROVE  WantedLayers(ask) \in Seq(Names) /\ ToSet(WantedLayers(ask)) \subseteq LayerKeys
<1>1. Typable(ask)
  BY AllTypable
<1>2. Known(ask.hazards) \in Seq(HazardKeys)
  BY <1>1, KnownWell DEF Typable
<1> QED BY <1>1, <1>2, ProfileLayersWell DEF WantedLayers, Acceptable, Typable

\* A selection works, and the layers are those of its modules.
LEMMA SelectionWorks ==
  ASSUME NEW ask \in Asks \cup { DemoAsk }, Acceptable(ask)
  PROVE  /\ CoreIds \subseteq Selected(ask) /\ Closed(Selected(ask))
         /\ IsInjective(SelectedLayers(ask))
         /\ ToSet(SelectedLayers(ask)) = { l \in LayerKeys : LayerModule[l] \in Selected(ask) }
<1> DEFINE wanted == WantedLayers(ask)
<1> HIDE DEF wanted
<1> DEFINE start == WantedModules(ask) \cup CoreIds \cup { LayerModule[l] : l \in ToSet(wanted) }
<1> HIDE DEF start
<1> DEFINE S == Selected(ask)
<1> HIDE DEF S
<1>1. wanted \in Seq(Names) /\ ToSet(wanted) \subseteq LayerKeys
  BY WantedWell DEF wanted
<1>2. CoreIds \subseteq ModuleIds
  BY BaseWell DEF CoreIds, ModuleIds
<1>3. start \subseteq ModuleIds
  BY <1>1, <1>2 DEF start, wanted, Acceptable, ModuleIds
<1>4. S = Closure(start)
  BY DEF Selected, S, start, wanted
<1>5. start \subseteq S /\ Closed(S)
  BY <1>3, <1>4, ClosureClosed
<1> DEFINE theirs == { l \in LayerKeys : LayerModule[l] \in S }
<1> HIDE DEF theirs
<1> DEFINE more == Only(LayerOrder, theirs)
<1> HIDE DEF more
<1>6. more \in Seq(Names) /\ ToSet(more) = theirs
  <2>1. Filtered(LayerOrder, theirs, more)
    BY DEF Filtered, more
  <2>2. more \in Seq(Names) /\ ToSet(more) = LayerKeys \cap theirs
    BY <2>1, OrderWell, OnlyWell
  <2> QED BY <2>2 DEF theirs
<1> DEFINE both == wanted \o more
<1> HIDE DEF both
<1>7. both \in Seq(Names) /\ ToSet(both) = ToSet(wanted) \cup theirs
  <2>1. both \in Seq(Names) /\ ToSet(both) = ToSet(wanted) \cup ToSet(more)
    <3>1. Joined(wanted, more, both)
      BY DEF Joined, both
    <3> QED BY <1>1, <1>6, <3>1, Concatenated
  <2> QED BY <1>6, <2>1
<1>8. ToSet(wanted) \subseteq theirs
  BY <1>1, <1>5 DEF start, theirs
<1>9. SelectedLayers(ask) = OrderedUnion(both)
  BY DEF SelectedLayers, both, wanted, more, theirs, S
<1>10. IsInjective(SelectedLayers(ask)) /\ ToSet(SelectedLayers(ask)) = theirs
  BY <1>7, <1>8, <1>9, OrderedUnionWell
<1>11. CoreIds \subseteq S
  BY <1>5 DEF start
<1> QED BY <1>5, <1>10, <1>11 DEF S, theirs

\* What is left to the composer is what the preview shows.
LEMMA SelectionAsPreviewed ==
  ASSUME NEW ask \in Asks \cup { DemoAsk }, Acceptable(ask), ask.modules = Null, ask.layers = Null
  PROVE  /\ Composed[ask].modules = Preview[ask].modules
         /\ Composed[ask].layers = Preview[ask].layers
         /\ ask.categories = Null => Composed[ask].categories = Preview[ask].categories
<1> DEFINE hz == Known(ask.hazards)
<1> HIDE DEF hz
<1> DEFINE county == ask.county
<1> HIDE DEF county
<1> DEFINE modules == ProfileModules(hz, county)
<1> HIDE DEF modules
<1> DEFINE layers == ProfileLayers(hz, county)
<1> HIDE DEF layers
<1>1. hz \in Seq(HazardKeys)
  BY AllTypable, KnownWell DEF Typable, hz
<1>2. /\ Closed(modules) /\ CoreIds \subseteq modules
      /\ \A l \in LayerKeys : LayerModule[l] \in modules <=> l \in ToSet(layers)
  BY <1>1, ProfileComplete DEF modules, layers
<1>3. layers \in Seq(Names) /\ IsInjective(layers) /\ ToSet(layers) \subseteq LayerKeys
  BY <1>1, ProfileLayersWell DEF layers
<1>4. WantedModules(ask) = modules /\ WantedLayers(ask) = layers
  BY DEF WantedModules, WantedLayers, modules, layers, hz, county
<1>5. Selected(ask) = modules
  <2>1. modules \cup CoreIds \cup { LayerModule[l] : l \in ToSet(layers) } = modules
    BY <1>2, <1>3
  <2>2. modules \subseteq ModuleIds
    BY <1>2 DEF Closed
  <2> QED BY <1>2, <1>4, <2>1, <2>2, ClosureClosed DEF Selected
<1>6. SelectedLayers(ask) = layers
  <2> DEFINE theirs == { l \in LayerKeys : LayerModule[l] \in modules }
  <2> HIDE DEF theirs
  <2> DEFINE more == Only(LayerOrder, theirs)
  <2> HIDE DEF more
  <2>1. more \in Seq(Names) /\ ToSet(more) \subseteq ToSet(layers)
    <3>1. Filtered(LayerOrder, theirs, more)
      BY DEF Filtered, more
    <3>2. more \in Seq(Names) /\ ToSet(more) = LayerKeys \cap theirs
      BY <3>1, OrderWell, OnlyWell
    <3> QED BY <1>2, <3>2 DEF theirs
  <2>2. SelectedLayers(ask) = OrderedUnion(layers \o more)
    BY <1>4, <1>5 DEF SelectedLayers, more, theirs
  <2> QED BY <1>3, <2>1, <2>2, NothingMore
<1>7. ask.categories = Null => SelectedCategories(ask) = ProfileCategories(hz)
  BY DEF SelectedCategories, hz
<1> QED BY <1>5, <1>6, <1>7 DEF Composed, Preview, modules, layers, hz, county

-----------------------------------------------------------------------------
(* The invariant: rows and requests *)

\* What creations may ask for.
Chosen == { ask \in Asks \cup { DemoAsk } : Acceptable(ask) }

\* The rows a creation on ask may have become.
Rows(ask) ==
  [ status : Statuses, slug : { Base(ask) }, suffix : Nat, demo : BOOLEAN, stamped : BOOLEAN,
    ask : { ask }, modules : { Composed[ask].modules }, rows : { Composed[ask].modules },
    layers : { Composed[ask].layers }, categories : { Composed[ask].categories } ]

IsRow(row) ==
  /\ \E ask \in Chosen : row \in Rows(ask)
  /\ row.status = "published" => row.stamped

\* The request has a number for a platform that is not there yet.
Pending(r) ==
  /\ r.kind \in { "create", "seed" }
  /\ r.pc \in { "slug", "insert" } \/ (r.pc = "delete" /\ r.kind = "seed")

Sound(r) ==
  /\ DOMAIN r = DOMAIN Idle
  /\ r.pc \in { "idle", "slug", "insert", "clean", "delete" }
  /\ r.pc = "idle" => r = Idle
  /\ r.pc \in { "slug", "insert" } => Pending(r)
  /\ Pending(r) => r.id \in 1..count /\ platforms[r.id] = Absent /\ r.ask \in Chosen
  /\ r.pc = "insert" =>
       r.row \in Rows(r.ask) /\ IsRow(r.row) /\ (r.row.demo <=> r.kind = "seed")
  /\ r.pc = "clean" => r.kind = "create" /\ r.id \in Ids
  /\ r.pc = "delete" =>
       /\ r.kind \in { "create", "prune", "seed" }
       /\ r.victims \subseteq 1..count /\ r.id \notin r.victims
       /\ \A p \in r.victims \cap Present : platforms[p].demo <=> r.kind = "seed"

Shaped ==
  /\ platforms = [p \in Ids |-> platforms[p]]
  /\ \A p \in Ids : platforms[p] = Absent \/ IsRow(platforms[p])
  /\ count \in 0..MaxPlatforms /\ aborts \in Nat
  /\ \A p \in Present : p <= count
  /\ req = [w \in Workers |-> req[w]]
  /\ \A w \in Workers : Sound(req[w])

\* Nobody holds, or is about to delete, the number of another's creation.
Apart ==
  \A v, w \in Workers :
    Pending(req[v]) =>
      /\ req[w].pc = "delete" => req[v].id \notin req[w].victims
      /\ Pending(req[w]) /\ v # w => req[v].id # req[w].id

PInv == Shaped /\ Apart

-----------------------------------------------------------------------------
(* The invariant: how many generated platforms there are *)

Generated == Present \ Demos

\* What a request is about to take off the generated platforms: those it retires,
\* or its own one while it has not cleaned up.
Doomed(r) ==
  CASE r.pc = "delete" -> r.victims
    [] r.pc = "clean"  -> { r.id }
    [] OTHER           -> {}

\* What the requests outside A are about to take, and what they leave.
Taken(A) == UNION { Doomed(req[w]) : w \in Workers \ A }
Left(A)  == Generated \ Taken(A)

Floor == IF Keep = 0 THEN 1 ELSE Keep

\* However few of the requests finish what they are about, the others leave
\* little: one platform for each that does not.
Bounded ==
  DemoMode =>
    \A A \in SUBSET Workers :
      IsFiniteSet(A) => Cardinality(Left(A)) <= Floor + aborts + Cardinality(A)
-----------------------------------------------------------------------------
(* Steps that change no platform *)

LEMMA IdleSound == Sound(Idle)' /\ ~ Pending(Idle) /\ Idle.pc = "idle"
BY DEF Sound, Pending, Idle

LEMMA IdOfPlatform ==
  ASSUME Shaped, NEW p, p \in 1..count
  PROVE  p \in Ids
BY BoundsAssumption DEF Shaped, Ids

LEMMA PresentCounted == ASSUME Shaped PROVE Present \subseteq 1..count /\ Present \subseteq Ids
BY BoundsAssumption DEF Shaped, Present, Ids

LEMMA SoundStays ==
  ASSUME Shaped, NEW r, Sound(r), platforms' = platforms, count' \in Nat, count <= count'
  PROVE  Sound(r)'
<1>1. Present' = Present
  BY DEF Present
<1>2. 1..count \subseteq 1..count'
  BY DEF Shaped
<1> QED BY <1>1, <1>2 DEF Sound

\* A request goes on to q.
LEMMA Turn ==
  ASSUME PInv, NEW w \in Workers, NEW q, req' = [req EXCEPT ![w] = q], platforms' = platforms,
         aborts' \in Nat, count' \in 0..MaxPlatforms, count <= count', Sound(q)',
         Pending(q) =>
           \A v \in Workers \ { w } :
             /\ req[v].pc = "delete" => q.id \notin req[v].victims
             /\ Pending(req[v]) => q.id # req[v].id,
         q.pc = "delete" =>
           \A v \in Workers \ { w } : Pending(req[v]) => req[v].id \notin q.victims
  PROVE  PInv'
<1>1. req' = [v \in Workers |-> req'[v]] /\ req'[w] = q
      /\ \A v \in Workers \ { w } : req'[v] = req[v]
  BY DEF PInv, Shaped
<1>2. \A v \in Workers : Sound(req[v])'
  <2> SUFFICES ASSUME NEW v \in Workers PROVE Sound(req[v])'
    OBVIOUS
  <2>1. CASE v = w
    BY <1>1, <2>1 DEF Sound, Pending
  <2>2. CASE v # w
    <3> PICK r : r = req[v]
      OBVIOUS
    <3>1. Sound(r)'
      BY SoundStays DEF PInv, Shaped
    <3>2. req'[v] = r
      BY <1>1, <2>2
    <3> QED BY <3>1, <3>2 DEF Sound, Pending
  <2> QED BY <2>1, <2>2
<1>3. Shaped'
  <2>1. Present' = Present
    BY DEF Present
  <2>2. \A p \in Present : p <= count'
    BY DEF PInv, Shaped, Present, Ids
  <2> QED BY <1>1, <1>2, <2>1, <2>2 DEF PInv, Shaped, IsRow
<1>4. Apart'
  <2> SUFFICES ASSUME NEW u \in Workers, NEW v \in Workers, Pending(req'[u])
               PROVE  /\ req'[v].pc = "delete" => req'[u].id \notin req'[v].victims
                      /\ Pending(req'[v]) /\ u # v => req'[u].id # req'[v].id
    BY DEF Apart, Pending
  <2>1. CASE u = w /\ v = w
    BY <1>1, <2>1 DEF Sound
  <2>2. CASE u = w /\ v # w
    BY <1>1, <2>2
  <2>3. CASE u # w /\ v = w
    BY <1>1, <2>3
  <2>4. CASE u # w /\ v # w
    BY <1>1, <2>4 DEF PInv, Apart
  <2> QED BY <2>1, <2>2, <2>3, <2>4
<1> QED BY <1>3, <1>4 DEF PInv

LEMMA IdleTurn ==
  ASSUME PInv, NEW w \in Workers, req' = [req EXCEPT ![w] = Idle], platforms' = platforms,
         aborts' \in Nat, count' = count
  PROVE  PInv'
<1>1. count' \in 0..MaxPlatforms /\ count <= count'
  BY DEF PInv, Shaped
<1> PICK q : q = Idle
  OBVIOUS
<1>2. Sound(q)' /\ ~ Pending(q) /\ q.pc = "idle"
  BY IdleSound
<1> QED BY <1>1, <1>2, Turn

\* A new number is nobody's.
LEMMA NewNumber ==
  ASSUME PInv, NEW v \in Workers
  PROVE  /\ req[v].pc = "delete" => count + 1 \notin req[v].victims
         /\ Pending(req[v]) => count + 1 # req[v].id /\ req[v].id \notin Present
<1>1. Sound(req[v]) /\ count \in Nat
  BY DEF PInv, Shaped
<1>2. Pending(req[v]) => req[v].id \notin Present
  BY <1>1 DEF Sound, Present, Absent
<1> QED BY <1>1, <1>2 DEF Sound

LEMMA CreateKeeps == ASSUME PInv, NEW w \in Workers, Create(w) PROVE PInv'
<1> PICK ask \in Asks :
      /\ Acceptable(ask) /\ count < MaxPlatforms /\ count' = count + 1
      /\ Goto(w, [Creating(ask) EXCEPT !.kind = "create"])
  BY DEF Create
<1> PICK q : q = [Creating(ask) EXCEPT !.kind = "create"]
  OBVIOUS
<1>1. q.pc = "slug" /\ q.kind = "create" /\ q.id = count + 1 /\ q.ask = ask
  BY DEF Creating, Idle
<1>2. /\ platforms' = platforms /\ aborts' = aborts /\ req' = [req EXCEPT ![w] = q]
      /\ count \in Nat /\ count' \in 0..MaxPlatforms /\ count <= count' /\ aborts \in Nat
  BY BoundsAssumption DEF Goto, PInv, Shaped
<1>3. platforms'[count + 1] = Absent
  BY <1>2, PresentCounted, BoundsAssumption DEF PInv, Shaped, Present, IsRow, Rows, Statuses, Ids
<1>4. DOMAIN q = DOMAIN Idle /\ ask \in Chosen /\ count + 1 \in 1..count'
  BY <1>2 DEF Creating, Chosen
<1>5. Sound(q)'
  BY <1>1, <1>2, <1>3, <1>4 DEF Sound, Pending
<1> QED BY <1>1, <1>2, <1>5, NewNumber, Turn

LEMMA RowMade ==
  ASSUME NEW ask \in Chosen, NEW suffix \in Nat, NEW demo \in BOOLEAN
  PROVE  /\ NewPlatform(ask, suffix, demo) \in Rows(ask)
         /\ IsRow(NewPlatform(ask, suffix, demo))
         /\ NewPlatform(ask, suffix, demo).demo = demo
<1>1. ask.publish \in BOOLEAN
  <2>1. DemoAsk.publish \in BOOLEAN
    BY DEF DemoAsk
  <2> QED BY <2>1, AsksAssumption DEF Chosen
<1>2. NewPlatform(ask, suffix, demo) \in Rows(ask)
  BY <1>1 DEF NewPlatform, Rows, Statuses
<1> QED BY <1>2 DEF IsRow, NewPlatform

LEMMA FindSlugKeeps == ASSUME PInv, NEW w \in Workers, FindSlug(w) PROVE PInv'
<1> PICK r : r = req[w]
  OBVIOUS
<1> PICK suffix \in { 0, r.id } :
      Goto(w, [r EXCEPT !.pc = "insert", !.row = NewPlatform(r.ask, suffix, r.kind = "seed")])
  BY DEF FindSlug
<1> PICK row : row = NewPlatform(r.ask, suffix, r.kind = "seed")
  OBVIOUS
<1> PICK q : q = [r EXCEPT !.pc = "insert", !.row = row]
  OBVIOUS
<1>1. Sound(r) /\ r.pc = "slug" /\ Pending(r) /\ r.id \in 1..count /\ r.ask \in Chosen
  BY DEF FindSlug, PInv, Shaped, Sound
<1>2. /\ platforms' = platforms /\ aborts' = aborts /\ req' = [req EXCEPT ![w] = q]
      /\ count' = count /\ count \in 0..MaxPlatforms /\ count <= count /\ aborts \in Nat
  <2>1. count' = count
    BY DEF FindSlug
  <2> QED BY <2>1 DEF Goto, PInv, Shaped
<1>3. /\ q.pc = "insert" /\ q.kind = r.kind /\ q.id = r.id /\ q.ask = r.ask /\ q.row = row
      /\ q.victims = r.victims /\ DOMAIN q = DOMAIN Idle
  BY <1>1 DEF Sound, Idle
<1>4. row \in Rows(r.ask) /\ IsRow(row) /\ (row.demo <=> r.kind = "seed")
  <2> PICK demo \in BOOLEAN : demo = (r.kind = "seed")
    OBVIOUS
  <2>1. suffix \in Nat
    BY <1>1 DEF PInv, Shaped
  <2> QED BY <1>1, <2>1, RowMade
<1>5. Sound(q)'
  BY <1>1, <1>2, <1>3, <1>4 DEF Sound, Pending, IsRow
<1>6. ASSUME NEW v \in Workers \ { w }
      PROVE  /\ req[v].pc = "delete" => q.id \notin req[v].victims
             /\ Pending(req[v]) => q.id # req[v].id
  BY <1>1, <1>3 DEF PInv, Apart
<1> QED BY <1>2, <1>3, <1>5, <1>6, Turn
\* Requests that go on to retire platforms.
LEMMA RetireKeeps ==
  ASSUME PInv, NEW w \in Workers, NEW r, NEW victims \in SUBSET Present, DOMAIN r = DOMAIN Idle,
         r.kind \in { "create", "prune" }, victims \cap Demos = {}, r.id \notin victims,
         Retire(w, r, victims), count' = count
  PROVE  PInv'
<1>1. platforms' = platforms /\ aborts' \in Nat /\ count' \in 0..MaxPlatforms /\ count <= count'
  BY DEF Retire, Goto, PInv, Shaped
<1>2. CASE victims = {}
  BY <1>1, <1>2, IdleTurn DEF Retire, Goto
<1>3. CASE victims # {}
  <2> PICK q : q = [r EXCEPT !.pc = "delete", !.victims = victims]
    OBVIOUS
  <2>1. /\ q.pc = "delete" /\ q.victims = victims /\ q.kind = r.kind /\ q.id = r.id
        /\ DOMAIN q = DOMAIN Idle
    BY DEF Idle
  <2>2. req' = [req EXCEPT ![w] = q]
    BY <1>3 DEF Retire, Goto
  <2>3. victims \subseteq 1..count'
    BY <1>1, PresentCounted DEF PInv
  <2>4. \A p \in victims : ~ platforms[p].demo
    BY DEF Demos
  <2>5. Sound(q)' /\ ~ Pending(q)
    BY <1>1, <2>1, <2>3, <2>4 DEF Sound, Pending
  <2>6. ASSUME NEW v \in Workers \ { w }, Pending(req[v]) PROVE req[v].id \notin q.victims
    BY <2>1, <2>6, NewNumber
  <2> QED BY <1>1, <2>1, <2>2, <2>5, <2>6, Turn
<1> QED BY <1>2, <1>3

LEMMA CleanUpKeeps == ASSUME PInv, NEW w \in Workers, CleanUp(w) PROVE PInv'
<1> PICK r : r = req[w]
  OBVIOUS
<1>1. Sound(r) /\ r.pc = "clean" /\ count' = count
  BY DEF CleanUp, PInv, Shaped
<1>2. CASE r.id \in Present /\ DemoMode
  <2> PICK victims : victims = Victims(Disposable({ r.id }), Limit(Keep, { r.id }))
    OBVIOUS
  <2>1. Retire(w, r, victims)
    BY <1>2 DEF CleanUp
  <2>2. victims \subseteq Present /\ victims \cap Demos = {} /\ r.id \notin victims
    BY DEF Victims, Disposable
  <2> QED BY <1>1, <2>1, <2>2, RetireKeeps DEF Sound
<1>3. CASE ~ (r.id \in Present /\ DemoMode)
  <2>1. Goto(w, Idle)
    BY <1>3 DEF CleanUp
  <2> QED BY <1>1, <2>1, IdleTurn DEF Goto, PInv, Shaped
<1> QED BY <1>2, <1>3

LEMMA PruneKeeps == ASSUME PInv, NEW w \in Workers, Prune(w) PROVE PInv'
<1> PICK keep \in 0..Keep : Retire(w, [Idle EXCEPT !.kind = "prune"],
                                   Victims(Disposable({}), Limit(keep, {})))
  BY DEF Prune
<1> PICK victims : victims = Victims(Disposable({}), Limit(keep, {}))
  OBVIOUS
<1> PICK r : r = [Idle EXCEPT !.kind = "prune"]
  OBVIOUS
<1>1. r.kind = "prune" /\ r.id = 0 /\ DOMAIN r = DOMAIN Idle
  BY DEF Idle
<1>2. victims \subseteq Present /\ victims \cap Demos = {}
  BY DEF Victims, Disposable
<1>3. r.id \notin victims
  BY <1>1, <1>2, PresentCounted DEF PInv, Shaped
<1>4. count' = count
  BY DEF Prune
<1> QED BY <1>1, <1>2, <1>3, <1>4, RetireKeeps

LEMMA SeedKeeps == ASSUME PInv, NEW w \in Workers, Seed(w) PROVE PInv'
<1> PICK r : r = [Creating(DemoAsk) EXCEPT !.kind = "seed"]
  OBVIOUS
<1>1. /\ count < MaxPlatforms /\ count' = count + 1
      /\ IF Demos = {} THEN Goto(w, r) ELSE Retire(w, r, Demos)
  BY DEF Seed
<1>2. r.pc = "slug" /\ r.kind = "seed" /\ r.id = count + 1 /\ r.ask = DemoAsk /\ DOMAIN r = DOMAIN Idle
  BY DEF Creating, Idle
<1>3. /\ platforms' = platforms /\ aborts' = aborts
      /\ count \in Nat /\ count' \in 0..MaxPlatforms /\ count <= count' /\ aborts \in Nat
  BY <1>1, BoundsAssumption DEF Goto, Retire, PInv, Shaped
<1>4. platforms'[count + 1] = Absent /\ count + 1 \in 1..count'
  <2>1. count + 1 \in 1..count' /\ count + 1 \in Ids
    BY <1>1, <1>3, BoundsAssumption DEF Ids
  <2>2. count + 1 \notin Present
    BY <1>3, PresentCounted DEF PInv
  <2>3. platforms[count + 1] = Absent
    BY <2>1, <2>2 DEF PInv, Shaped, Present, IsRow, Rows, Statuses
  <2> QED BY <1>3, <2>1, <2>3
<1>5. DemoAsk \in Chosen
  BY DemoAcceptable DEF Chosen
<1>6. CASE Demos = {}
  <2>1. Sound(r)'
    BY <1>2, <1>3, <1>4, <1>5 DEF Sound, Pending
  <2>2. req' = [req EXCEPT ![w] = r]
    BY <1>1, <1>6 DEF Goto
  <2>3. ASSUME NEW v \in Workers \ { w }
        PROVE  /\ req[v].pc = "delete" => r.id \notin req[v].victims
               /\ Pending(req[v]) => r.id # req[v].id
    BY <1>2, NewNumber
  <2> QED BY <1>2, <1>3, <2>1, <2>2, <2>3, Turn
<1>7. CASE Demos # {}
  <2> PICK q : q = [r EXCEPT !.pc = "delete", !.victims = Demos]
    OBVIOUS
  <2>1. /\ q.pc = "delete" /\ q.victims = Demos /\ q.kind = "seed" /\ q.id = count + 1
        /\ q.ask = DemoAsk /\ DOMAIN q = DOMAIN Idle
    BY <1>2 DEF Idle
  <2>2. Demos \subseteq 1..count /\ \A p \in Demos : platforms[p].demo
    BY PresentCounted DEF Demos, PInv
  <2>3. Demos \subseteq 1..count' /\ count + 1 \notin Demos
    BY <1>1, <1>3, <2>2
  <2>4. Sound(q)'
    BY <1>3, <1>4, <1>5, <2>1, <2>2, <2>3 DEF Sound, Pending
  <2>5. req' = [req EXCEPT ![w] = q]
    BY <1>1, <1>7 DEF Retire, Goto
  <2>6. ASSUME NEW v \in Workers \ { w }, Pending(req[v]) PROVE req[v].id \notin q.victims
    BY <2>1, <2>6, NewNumber DEF Demos
  <2>7. ASSUME NEW v \in Workers \ { w }
        PROVE  /\ req[v].pc = "delete" => q.id \notin req[v].victims
               /\ Pending(req[v]) => q.id # req[v].id
    BY <2>1, NewNumber
  <2>8. aborts' \in Nat
    BY <1>3
  <2> QED BY <1>3, <2>1, <2>4, <2>5, <2>6, <2>7, <2>8, Turn
<1> QED BY <1>6, <1>7

LEMMA AbortKeeps == ASSUME PInv, NEW w \in Workers, Abort(w) PROVE PInv'
<1>1. aborts' \in Nat /\ platforms' = platforms /\ count' = count
  BY DEF Abort, PInv, Shaped
<1> QED BY <1>1, IdleTurn DEF Abort

-----------------------------------------------------------------------------
(* Steps that change platforms *)

\* A request goes on to q while platforms change as no other request minds.
LEMMA Writing ==
  ASSUME PInv, NEW w \in Workers, NEW q, req' = [req EXCEPT ![w] = q],
         UNCHANGED <<count, aborts>>,
         platforms' = [p \in Ids |-> platforms'[p]],
         \A p \in Ids : platforms'[p] = Absent \/ IsRow(platforms'[p]),
         Present' \subseteq 1..count,
         Sound(q)', ~ Pending(q) \/ (Pending(req[w]) /\ q.id = req[w].id), q.pc # "delete",
         \A v \in Workers \ { w } : Pending(req[v]) => platforms'[req[v].id] = Absent,
         \A v \in Workers \ { w } : req[v].pc = "delete" =>
           \A p \in req[v].victims \cap Present' : p \in Present /\ platforms'[p].demo = platforms[p].demo
  PROVE  PInv'
<1>1. req' = [v \in Workers |-> req'[v]] /\ req'[w] = q
      /\ \A v \in Workers \ { w } : req'[v] = req[v]
  BY DEF PInv, Shaped
<1>2. \A v \in Workers : Sound(req[v])'
  <2> SUFFICES ASSUME NEW v \in Workers PROVE Sound(req[v])'
    OBVIOUS
  <2>1. CASE v = w
    BY <1>1, <2>1 DEF Sound, Pending
  <2>2. CASE v # w
    <3> PICK r : r = req[v]
      OBVIOUS
    <3>1. Sound(r)
      BY DEF PInv, Shaped
    <3>2. r.pc = "delete" => \A p \in r.victims \cap Present' : platforms'[p].demo <=> r.kind = "seed"
      BY <2>2, <3>1 DEF Sound
    <3>3. Pending(r) => platforms'[r.id] = Absent
      BY <2>2
    <3>4. Sound(r)'
      BY <3>1, <3>2, <3>3 DEF Sound
    <3>5. req'[v] = r
      BY <1>1, <2>2
    <3> QED BY <3>4, <3>5 DEF Sound, Pending
  <2> QED BY <2>1, <2>2
<1>3. Shaped'
  BY <1>1, <1>2 DEF PInv, Shaped, IsRow
<1>4. Apart'
  <2> SUFFICES ASSUME NEW u \in Workers, NEW v \in Workers, Pending(req'[u])
               PROVE  /\ req'[v].pc = "delete" => req'[u].id \notin req'[v].victims
                      /\ Pending(req'[v]) /\ u # v => req'[u].id # req'[v].id
    BY DEF Apart, Pending
  <2>1. CASE u = w /\ v = w
    BY <1>1, <2>1
  <2>2. CASE u = w /\ v # w
    BY <1>1, <2>2 DEF PInv, Apart
  <2>3. CASE u # w /\ v = w
    BY <1>1, <2>3 DEF PInv, Apart
  <2>4. CASE u # w /\ v # w
    BY <1>1, <2>4 DEF PInv, Apart
  <2> QED BY <2>1, <2>2, <2>3, <2>4
<1> QED BY <1>3, <1>4 DEF PInv
LEMMA InsertKeeps == ASSUME PInv, NEW w \in Workers, Insert(w) PROVE PInv'
<1> PICK r : r = req[w]
  OBVIOUS
<1>1. /\ r.pc = "insert" /\ Pending(r) /\ r.id \in 1..count /\ r.id \in Ids /\ platforms[r.id] = Absent
      /\ IsRow(r.row)
  BY IdOfPlatform DEF Insert, PInv, Shaped, Sound
<1>2. CASE Clash(r.row)
  <2>1. Goto(w, Idle) /\ count' = count
    BY <1>2 DEF Insert
  <2> QED BY <2>1, IdleTurn DEF Goto, PInv, Shaped
<1>3. CASE ~ Clash(r.row)
  <2> PICK q : q = IF r.kind = "create"
                   THEN [Idle EXCEPT !.pc = "clean", !.kind = "create", !.id = r.id] ELSE Idle
    OBVIOUS
  <2>1. /\ platforms' = [platforms EXCEPT ![r.id] = r.row] /\ req' = [req EXCEPT ![w] = q]
        /\ count' = count /\ aborts' = aborts
    BY <1>3 DEF Insert
  <2>2. Sound(q)' /\ ~ Pending(q) /\ q.pc # "delete"
    <3>1. CASE r.kind = "create"
      <4>1. /\ q.pc = "clean" /\ q.kind = "create" /\ q.id = r.id
            /\ DOMAIN q = DOMAIN Idle
        BY <3>1 DEF Idle
      <4> QED BY <1>1, <4>1 DEF Sound, Pending
    <3>2. CASE r.kind # "create"
      <4>1. q = Idle
        BY <3>2
      <4> QED BY <4>1, IdleSound
    <3> QED BY <3>1, <3>2
  <2>3. platforms'[r.id] = r.row /\ \A p \in Ids \ { r.id } : platforms'[p] = platforms[p]
    BY <1>1, <2>1 DEF PInv, Shaped
  <2>4. platforms' = [p \in Ids |-> platforms'[p]]
    BY <2>1 DEF PInv, Shaped
  <2>5. Present' \subseteq Present \cup { r.id }
    BY <2>3 DEF Present
  <2>6. Present' \subseteq 1..count
    BY <1>1, <2>5, PresentCounted DEF PInv
  <2>7. ASSUME NEW v \in Workers \ { w }, Pending(req[v]) PROVE platforms'[req[v].id] = Absent
    <3>1. req[v].id # r.id
      BY <1>1, <2>7 DEF PInv, Apart
    <3>2. req[v].id \in Ids /\ platforms[req[v].id] = Absent
      BY <2>7, IdOfPlatform DEF PInv, Shaped, Sound
    <3> QED BY <2>3, <3>1, <3>2
  <2>8. ASSUME NEW v \in Workers \ { w }, req[v].pc = "delete", NEW p \in req[v].victims \cap Present'
        PROVE  p \in Present /\ platforms'[p].demo = platforms[p].demo
    <3>1. p # r.id
      BY <1>1, <2>8 DEF PInv, Apart
    <3>2. p \in Ids
      BY <2>8 DEF Present
    <3> QED BY <2>3, <2>5, <2>8, <3>1, <3>2
  <2>9. \A p \in Ids : platforms'[p] = Absent \/ IsRow(platforms'[p])
    BY <1>1, <2>3 DEF PInv, Shaped
  <2> QED BY <2>1, <2>2, <2>4, <2>6, <2>7, <2>8, <2>9, Writing
<1> QED BY <1>2, <1>3

LEMMA DeleteKeeps == ASSUME PInv, NEW w \in Workers, Delete(w) PROVE PInv'
<1> PICK r : r = req[w]
  OBVIOUS
<1> PICK q : q = IF r.kind = "seed" THEN [r EXCEPT !.pc = "slug", !.victims = {}] ELSE Idle
  OBVIOUS
<1>1. Sound(r) /\ r.pc = "delete"
  BY DEF Delete, PInv, Shaped
<1>2. /\ platforms' = [p \in Ids |-> IF p \in r.victims THEN Absent ELSE platforms[p]]
      /\ req' = [req EXCEPT ![w] = q] /\ UNCHANGED <<count, aborts>>
  BY DEF Delete
<1>3. platforms' = [p \in Ids |-> platforms'[p]]
  BY <1>2
<1>4. \A p \in Ids : platforms'[p] = Absent \/ (p \notin r.victims /\ platforms'[p] = platforms[p])
  BY <1>2
<1>5. Present' \subseteq Present /\ \A p \in Present' : platforms'[p] = platforms[p]
  BY <1>4 DEF Present, Absent
<1>6. Sound(q)' /\ (~ Pending(q) \/ (Pending(r) /\ q.id = r.id)) /\ q.pc # "delete"
  <2>1. CASE r.kind = "seed"
    <3>1. /\ q.pc = "slug" /\ q.kind = "seed" /\ q.id = r.id /\ q.ask = r.ask
          /\ DOMAIN q = DOMAIN Idle
      BY <1>1, <2>1 DEF Sound, Idle
    <3>2. Pending(r) /\ r.id \in 1..count /\ r.id \in Ids /\ platforms[r.id] = Absent /\ r.ask \in Chosen
      BY <1>1, <2>1, IdOfPlatform DEF Sound, Pending, PInv
    <3>3. platforms'[r.id] = Absent /\ r.id \in 1..count'
      BY <1>2, <1>4, <3>2
    <3>4. Sound(q)'
      BY <3>1, <3>2, <3>3 DEF Sound, Pending
    <3> QED BY <3>1, <3>2, <3>4
  <2>2. CASE r.kind # "seed"
    <3>1. q = Idle
      BY <2>2
    <3> QED BY <3>1, IdleSound
  <2> QED BY <2>1, <2>2
<1>7. ASSUME NEW v \in Workers \ { w }, Pending(req[v]) PROVE platforms'[req[v].id] = Absent
  <2>1. req[v].id \in Ids /\ platforms[req[v].id] = Absent
    BY <1>7, IdOfPlatform DEF PInv, Shaped, Sound
  <2> QED BY <1>4, <2>1
<1>8. Present' \subseteq 1..count
  BY <1>5, PresentCounted DEF PInv
<1>9. \A p \in Ids : platforms'[p] = Absent \/ IsRow(platforms'[p])
  BY <1>4 DEF PInv, Shaped
<1> QED BY <1>2, <1>3, <1>5, <1>6, <1>7, <1>8, <1>9, Writing

\* What publishing or archiving makes of a row.
LEMMA PublishedRow ==
  ASSUME NEW row, IsRow(row), NEW status \in Statuses
  PROVE  IsRow(Published(row, status)) /\ Published(row, status).demo = row.demo
<1> PICK ask \in Chosen : row \in Rows(ask)
  BY DEF IsRow
<1> PICK stamped \in BOOLEAN : stamped = (row.stamped \/ status = "published")
  OBVIOUS
<1> PICK new : new = [row EXCEPT !.status = status, !.stamped = stamped]
  OBVIOUS
<1>1. new = Published(row, status)
  BY DEF Published
<1>2. new \in Rows(ask)
  <2> PICK S : S = Statuses
    OBVIOUS
  <2> PICK slugs, asks, modules, layers, categories :
        /\ slugs = { Base(ask) } /\ asks = { ask } /\ modules = { Composed[ask].modules }
        /\ layers = { Composed[ask].layers } /\ categories = { Composed[ask].categories }
    OBVIOUS
  <2>1. Rows(ask) =
          [ status : S, slug : slugs, suffix : Nat, demo : BOOLEAN, stamped : BOOLEAN, ask : asks,
            modules : modules, rows : modules, layers : layers, categories : categories ]
    BY DEF Rows
  <2>2. row \in [ status : S, slug : slugs, suffix : Nat, demo : BOOLEAN, stamped : BOOLEAN, ask : asks,
                  modules : modules, rows : modules, layers : layers, categories : categories ]
    BY <2>1
  <2>3. new \in [ status : S, slug : slugs, suffix : Nat, demo : BOOLEAN, stamped : BOOLEAN, ask : asks,
                  modules : modules, rows : modules, layers : layers, categories : categories ]
    BY <2>2
  <2> QED BY <2>1, <2>3
<1>3. new.status = status /\ new.stamped = stamped /\ new.demo = row.demo
  BY DEF Rows
<1> QED BY <1>1, <1>2, <1>3 DEF IsRow

LEMMA SetStatusKeeps ==
  ASSUME PInv, NEW w \in Workers, SetStatus(w)
  PROVE  /\ PInv' /\ Present' = Present
         /\ \A p \in Present : platforms'[p].demo = platforms[p].demo
<1> PICK p \in Present, status \in Statuses :
      /\ platforms' = [platforms EXCEPT ![p] = Published(platforms[p], status)]
      /\ UNCHANGED <<count, req, aborts>>
  BY DEF SetStatus
<1> PICK row : row = Published(platforms[p], status)
  OBVIOUS
<1>1. p \in Ids /\ IsRow(platforms[p])
  BY DEF Present, PInv, Shaped, Absent
<1>2. IsRow(row) /\ row.demo = platforms[p].demo
  BY <1>1, PublishedRow
<1>3. row.status # "absent"
  BY <1>2 DEF IsRow, Rows, Statuses
<1>4. platforms' = [n \in Ids |-> IF n = p THEN row ELSE platforms[n]]
  BY <1>1 DEF PInv, Shaped
<1>5. Present' = Present
  BY <1>3, <1>4 DEF Present
<1>6. \A n \in Present : platforms'[n].demo = platforms[n].demo
  BY <1>2, <1>4 DEF Present
<1>7. ASSUME NEW v \in Workers PROVE Sound(req[v])'
  <2> PICK r : r = req[v]
    OBVIOUS
  <2>1. Sound(r)
    BY DEF PInv, Shaped
  <2>2. Pending(r) => platforms'[r.id] = Absent
    <3>1. Pending(r) => r.id \in Ids /\ r.id # p
      BY <2>1, IdOfPlatform DEF Sound, Present, Absent, PInv
    <3> QED BY <1>4, <2>1, <3>1 DEF Sound
  <2>3. Sound(r)'
    BY <1>5, <1>6, <2>1, <2>2 DEF Sound
  <2> QED BY <2>3 DEF Sound, Pending
<1>8. Shaped'
  BY <1>2, <1>4, <1>5, <1>7 DEF PInv, Shaped, IsRow
<1>9. Apart'
  BY DEF PInv, Apart, Pending
<1> QED BY <1>5, <1>6, <1>8, <1>9 DEF PInv

-----------------------------------------------------------------------------
(* The invariant holds *)

LEMMA PInit == ASSUME Init PROVE PInv
<1>1. \A w \in Workers : req[w] = Idle
  BY DEF Init
<1>2. Present = {}
  BY DEF Init, Present, Absent
<1>3. Sound(Idle) /\ ~ Pending(Idle)
  BY DEF Sound, Pending, Idle
<1>4. Shaped
  BY <1>1, <1>2, <1>3, BoundsAssumption DEF Init, Shaped
<1>5. Apart
  BY <1>1, <1>3 DEF Apart
<1> QED BY <1>4, <1>5 DEF PInv

LEMMA PNext == ASSUME PInv, [Next]_vars PROVE PInv'
<1>1. CASE UNCHANGED vars
  BY <1>1 DEF vars, PInv, Shaped, Apart, Sound, Pending, IsRow, Present
<1> QED BY <1>1, CreateKeeps, SeedKeeps, PruneKeeps, SetStatusKeeps, FindSlugKeeps, InsertKeeps,
           CleanUpKeeps, DeleteKeeps, AbortKeeps DEF Next

THEOREM ComposerInvariance == Spec => []PInv
BY PInit, PNext, PTL DEF Spec

\* Retirement spares the demo platform, unless it is seeded anew, and spares the
\* platform whose creation cleans up: what is on a request's list of victims
\* stays what it was when the list was made, whatever the others do meanwhile.
THEOREM RetirementSpares == Spec => RetiredWell
<1> DEFINE Spared ==
      \A w \in Workers :
        req[w].pc = "delete" /\ req'[w].pc # "delete" /\ platforms' # platforms =>
          /\ req[w].id \in Present => req[w].id \in Present'
          /\ \A p \in Present \ Present' : platforms[p].demo <=> req[w].kind = "seed"
<1>1. ASSUME PInv, Next PROVE Spared
  <2> SUFFICES ASSUME NEW w \in Workers, req[w].pc = "delete", req'[w].pc # "delete",
                      platforms' # platforms
               PROVE  /\ req[w].id \in Present => req[w].id \in Present'
                      /\ \A p \in Present \ Present' : platforms[p].demo <=> req[w].kind = "seed"
    OBVIOUS
  <2> PICK v \in Workers :
        \/ Create(v) \/ Seed(v) \/ Prune(v) \/ SetStatus(v)
        \/ FindSlug(v) \/ Insert(v) \/ CleanUp(v) \/ Delete(v) \/ Abort(v)
    BY <1>1 DEF Next
  <2>1. SetStatus(v) \/ Insert(v) \/ Delete(v)
    BY DEF Create, Seed, Prune, FindSlug, CleanUp, Abort, Goto, Retire
  <2>2. req' # req
    OBVIOUS
  <2>3. Insert(v) \/ Delete(v)
    BY <2>1, <2>2 DEF SetStatus
  <2>4. \E q : req' = [req EXCEPT ![v] = q]
    BY <2>3 DEF Insert, Delete, Goto
  <2>5. v = w
    BY <1>1, <2>4 DEF PInv, Shaped
  <2>6. Delete(w)
    BY <2>3, <2>5 DEF Insert
  <2>7. platforms' = [p \in Ids |-> IF p \in req[w].victims THEN Absent ELSE platforms[p]]
    BY <2>6 DEF Delete
  <2>8. Sound(req[w])
    BY <1>1 DEF PInv, Shaped
  <2>9. \A p \in Present : p \in Present' <=> p \notin req[w].victims
    BY <2>7 DEF Present, Absent
  <2> QED BY <2>8, <2>9 DEF Sound
<1>2. PInv /\ [Next]_vars => [Spared]_vars
  BY <1>1
<1> QED BY <1>2, ComposerInvariance, PTL DEF Spec, RetiredWell
-----------------------------------------------------------------------------
(* How many generated platforms there are *)

\* Retirement spares no more than it may.
LEMMA NewestStay ==
  ASSUME NEW D, IsFiniteSet(D), D \subseteq Nat, NEW limit \in Nat
  PROVE  IsFiniteSet(D \ Victims(D, limit)) /\ Cardinality(D \ Victims(D, limit)) <= limit
<1> PICK S : S = D \ Victims(D, limit)
  OBVIOUS
<1>1. S \subseteq D /\ IsFiniteSet(S) /\ Cardinality(S) \in Nat
  BY FS_Subset, FS_CardinalityType
<1>2. CASE S = {}
  <2>1. Cardinality(S) = 0
    BY <1>2, FS_EmptySet
  <2> QED BY <1>1, <2>1
<1>3. CASE S # {}
  <2> PICK m \in S : \A n \in S : m <= n
    BY <1>1, <1>3, Least
  <2> PICK newer : newer = { q \in D : q > m }
    OBVIOUS
  <2>1. IsFiniteSet(newer) /\ Cardinality(newer) \in Nat /\ Cardinality(newer) < limit
    <3>1. IsFiniteSet(newer) /\ Cardinality(newer) \in Nat
      BY FS_Subset, FS_CardinalityType
    <3>2. m \in D /\ m \notin Victims(D, limit)
      OBVIOUS
    <3>3. ~ (Cardinality({ q \in D : q > m }) >= limit)
      BY <3>2 DEF Victims
    <3>4. ~ (Cardinality(newer) >= limit)
      BY <3>3
    <3> QED BY <3>1, <3>4
  <2>2. S \ { m } \subseteq newer
    <3> SUFFICES ASSUME NEW n \in S, n # m PROVE n \in newer
      OBVIOUS
    <3>1. n \in Nat /\ m \in Nat /\ n \in D /\ m <= n
      BY <1>1
    <3>2. n > m
      BY <3>1
    <3> QED BY <3>1, <3>2
  <2>3. Cardinality(S \ { m }) <= Cardinality(newer)
    BY <2>1, <2>2, FS_Subset
  <2>4. Cardinality(S \ { m }) = Cardinality(S) - 1
    BY <1>1, FS_RemoveElement
  <2> QED BY <1>1, <2>1, <2>3, <2>4
<1> QED BY <1>2, <1>3

LEMMA FinitePlatforms ==
  ASSUME PInv
  PROVE  /\ IsFiniteSet(Present) /\ IsFiniteSet(Generated) /\ Present \subseteq Nat
         /\ Generated \subseteq Present
         /\ \A A : IsFiniteSet(Left(A)) /\ Cardinality(Left(A)) \in Nat
<1>1. Present \subseteq 1..count /\ count \in Nat
  BY PresentCounted DEF PInv, Shaped
<1>2. IsFiniteSet(1..count)
  BY <1>1, FS_Interval
<1>3. IsFiniteSet(Present)
  BY <1>1, <1>2, FS_Subset
<1>4. IsFiniteSet(Generated)
  BY <1>3, FS_Subset DEF Generated
<1>5. \A A : IsFiniteSet(Left(A)) /\ Cardinality(Left(A)) \in Nat
  <2> SUFFICES ASSUME NEW A PROVE IsFiniteSet(Left(A)) /\ Cardinality(Left(A)) \in Nat
    OBVIOUS
  <2>1. Left(A) \subseteq Generated
    BY DEF Left
  <2> QED BY <1>4, <2>1, FS_Subset, FS_CardinalityType
<1> QED BY <1>1, <1>3, <1>4, <1>5 DEF Generated

LEMMA AddOne ==
  ASSUME NEW S, IsFiniteSet(S), NEW x
  PROVE  /\ IsFiniteSet(S \cup { x }) /\ Cardinality(S \cup { x }) <= Cardinality(S) + 1
         /\ Cardinality(S \cup { x }) \in Nat /\ Cardinality(S) \in Nat
<1>1. Cardinality(S) \in Nat
  BY FS_CardinalityType
<1>2. IsFiniteSet(S \cup { x })
      /\ Cardinality(S \cup { x }) = IF x \in S THEN Cardinality(S) ELSE Cardinality(S) + 1
  BY FS_AddElement
<1> QED BY <1>1, <1>2

LEMMA FloorNat == Floor \in Nat /\ Floor >= 1
BY KeepAssumption DEF Floor

\* A step that leaves no more than there was.
LEMMA NoMoreLeft ==
  ASSUME PInv, PInv', Bounded, aborts' = aborts,
         \A A \in SUBSET Workers : Left(A)' \subseteq Left(A)
  PROVE  Bounded'
<1> SUFFICES ASSUME DemoMode, NEW A \in SUBSET Workers, IsFiniteSet(A)
             PROVE  Cardinality(Left(A))' <= Floor + aborts + Cardinality(A)
  BY DEF Bounded
<1>1. Cardinality(Left(A)) <= Floor + aborts + Cardinality(A)
  BY DEF Bounded
<1>2. IsFiniteSet(Left(A)) /\ Cardinality(Left(A)) \in Nat /\ Cardinality(Left(A)') \in Nat
  BY FinitePlatforms, FS_Subset, FS_CardinalityType
<1>3. Cardinality(Left(A)') <= Cardinality(Left(A))
  BY <1>2, FS_Subset
<1>4. Floor + aborts + Cardinality(A) \in Nat
  BY FloorNat, FS_CardinalityType DEF PInv, Shaped
<1> QED BY <1>1, <1>2, <1>3, <1>4

\* Request w goes on to q.
Goes(w, q) == req' = [req EXCEPT ![w] = q]

\* What is left when request w goes on to q.
LEMMA LeftAfter ==
  ASSUME PInv, NEW w \in Workers, NEW q, Goes(w, q), NEW A \in SUBSET Workers,
         NEW B, B = A \cup { w }
  PROVE  /\ w \in A => Left(A) = Generated \ Taken(A) /\ Left(A)' = Generated' \ Taken(A)
         /\ w \notin A => /\ Left(A) = Generated \ (Doomed(req[w]) \cup Taken(B))
                          /\ Left(A)' = Generated' \ (Doomed(q) \cup Taken(B))
<1>1. req'[w] = q /\ \A v \in Workers \ { w } : req'[v] = req[v]
  BY DEF PInv, Shaped, Goes
<1> PICK D : D = UNION { Doomed(req'[v]) : v \in Workers \ A }
  OBVIOUS
<1>2. Left(A)' = Generated' \ D
  BY DEF Left, Taken, Doomed
<1>3. CASE w \in A
  <2>1. { Doomed(req'[v]) : v \in Workers \ A } = { Doomed(req[v]) : v \in Workers \ A }
    BY <1>1, <1>3
  <2>2. D = Taken(A)
    BY <2>1 DEF Taken
  <2> QED BY <1>2, <1>3, <2>2 DEF Left
<1>4. CASE w \notin A
  <2>1. { Doomed(req'[v]) : v \in Workers \ A }
          = { Doomed(q) } \cup { Doomed(req[v]) : v \in Workers \ B }
    BY <1>1, <1>4
  <2>2. { Doomed(req[v]) : v \in Workers \ A }
          = { Doomed(req[w]) } \cup { Doomed(req[v]) : v \in Workers \ B }
    BY <1>4
  <2>3. D = Doomed(q) \cup Taken(B)
    BY <2>1 DEF Taken
  <2>4. Taken(A) = Doomed(req[w]) \cup Taken(B)
    BY <2>2 DEF Taken
  <2> QED BY <1>2, <1>4, <2>3, <2>4 DEF Left
<1> QED BY <1>3, <1>4

\* A step that changes no platform and only adds to what will be taken.
LEMMA MoreDoomed ==
  ASSUME PInv, PInv', Bounded, NEW w \in Workers, NEW q, Goes(w, q),
         platforms' = platforms, aborts' = aborts, Doomed(req[w]) \cap Generated \subseteq Doomed(q)
  PROVE  Bounded'
<1>1. Generated' = Generated
  BY DEF Generated, Present, Demos
<1>2. ASSUME NEW A \in SUBSET Workers PROVE Left(A)' \subseteq Left(A)
  <2> PICK B : B = A \cup { w }
    OBVIOUS
  <2>1. CASE w \in A
    BY <1>1, <2>1, LeftAfter
  <2>2. CASE w \notin A
    BY <1>1, <2>2, LeftAfter
  <2> QED BY <2>1, <2>2
<1> QED BY <1>2, NoMoreLeft
LEMMA InsertBounded ==
  ASSUME PInv, PInv', Bounded, NEW w \in Workers, Insert(w)
  PROVE  Bounded'
<1> PICK r : r = req[w]
  OBVIOUS
<1>1. r.pc = "insert" /\ r.id \in Ids /\ platforms[r.id] = Absent /\ Pending(r)
      /\ (r.row.demo <=> r.kind = "seed")
  BY IdOfPlatform DEF Insert, PInv, Shaped, Sound
<1>2. Doomed(r) = {}
  BY <1>1 DEF Doomed
<1>3. CASE Clash(r.row)
  <2>1. Goes(w, Idle) /\ platforms' = platforms /\ aborts' = aborts
    BY <1>3 DEF Insert, Goto, Goes
  <2> QED BY <1>2, <2>1, MoreDoomed
<1>4. CASE ~ Clash(r.row)
  <2> PICK q : q = IF r.kind = "create"
                   THEN [Idle EXCEPT !.pc = "clean", !.kind = "create", !.id = r.id] ELSE Idle
    OBVIOUS
  <2>1. /\ platforms' = [platforms EXCEPT ![r.id] = r.row] /\ Goes(w, q)
        /\ aborts' = aborts
    BY <1>4 DEF Insert, Goes
  <2>2. platforms'[r.id] = r.row /\ \A p \in Ids \ { r.id } : platforms'[p] = platforms[p]
    BY <1>1, <2>1 DEF PInv, Shaped
  <2>3. r.id \notin Present
    BY <1>1 DEF Present, Absent
  <2>4. CASE r.kind # "create"
    <3>1. r.row.demo /\ Doomed(q) = {}
      BY <1>1, <2>4 DEF Pending, Doomed, Idle
    <3>2. Generated' \subseteq Generated
      BY <2>2, <2>3, <3>1 DEF Generated, Present, Demos
    <3>3. ASSUME NEW A \in SUBSET Workers PROVE Left(A)' \subseteq Left(A)
      <4> PICK B : B = A \cup { w }
        OBVIOUS
      <4>1. CASE w \in A
        BY <2>1, <3>2, <4>1, LeftAfter
      <4>2. CASE w \notin A
        BY <1>2, <2>1, <3>1, <3>2, <4>2, LeftAfter
      <4> QED BY <4>1, <4>2
    <3> QED BY <2>1, <3>3, NoMoreLeft
  <2>5. CASE r.kind = "create"
    <3>1. Doomed(q) = { r.id }
      BY <2>5 DEF Doomed, Idle
    <3>2. Generated' \subseteq Generated \cup { r.id }
      BY <2>2, <2>3 DEF Generated, Present, Demos
    <3>3. ASSUME DemoMode, NEW A \in SUBSET Workers, IsFiniteSet(A)
          PROVE  Cardinality(Left(A)') <= Floor + aborts + Cardinality(A)
      <4>1. CASE w \notin A
        <5>1. Left(A)' \subseteq Left(A)
          <6> PICK B : B = A \cup { w }
            OBVIOUS
          <6>1. /\ Left(A) = Generated \ (Doomed(r) \cup Taken(B))
                /\ Left(A)' = Generated' \ (Doomed(q) \cup Taken(B))
            BY <2>1, <4>1, LeftAfter
          <6> QED BY <1>2, <3>1, <3>2, <6>1
        <5>2. IsFiniteSet(Left(A)) /\ Cardinality(Left(A)) \in Nat /\ Cardinality(Left(A)') \in Nat
          BY <5>1, FinitePlatforms, FS_Subset, FS_CardinalityType
        <5>3. Cardinality(Left(A)') <= Cardinality(Left(A))
          BY <5>1, <5>2, FS_Subset
        <5>4. Cardinality(Left(A)) <= Floor + aborts + Cardinality(A)
          BY <3>3 DEF Bounded
        <5>5. Floor + aborts + Cardinality(A) \in Nat
          BY <3>3, FloorNat, FS_CardinalityType DEF PInv, Shaped
        <5> QED BY <5>2, <5>3, <5>4, <5>5
      <4>2. CASE w \in A
        <5> PICK B \in SUBSET Workers : B = A \ { w }
          OBVIOUS
        <5>1. IsFiniteSet(B) /\ Cardinality(B) = Cardinality(A) - 1
              /\ Cardinality(A) \in Nat /\ Cardinality(B) \in Nat
          BY <3>3, <4>2, FS_RemoveElement, FS_CardinalityType
        <5>2. Left(A)' \subseteq Left(B) \cup { r.id }
          <6>1. A = B \cup { w } /\ w \notin B
            BY <4>2
          <6>2. Left(B) = Generated \ (Doomed(r) \cup Taken(A))
            BY <2>1, <6>1, LeftAfter
          <6>3. Left(A)' = Generated' \ Taken(A)
            BY <2>1, <4>2, LeftAfter
          <6> QED BY <1>2, <3>2, <6>2, <6>3
        <5>3. IsFiniteSet(Left(B)) /\ Cardinality(Left(B)) \in Nat
          BY FinitePlatforms
        <5>4. IsFiniteSet(Left(B) \cup { r.id })
              /\ Cardinality(Left(B) \cup { r.id }) <= Cardinality(Left(B)) + 1
              /\ Cardinality(Left(B) \cup { r.id }) \in Nat
          BY <5>3, AddOne
        <5>5. Cardinality(Left(A)') <= Cardinality(Left(B) \cup { r.id }) /\ Cardinality(Left(A)') \in Nat
          BY <5>2, <5>4, FS_Subset, FS_CardinalityType
        <5>6. Cardinality(Left(B)) <= Floor + aborts + Cardinality(B)
          BY <3>3, <5>1 DEF Bounded
        <5>7. Floor \in Nat /\ aborts \in Nat
          BY FloorNat DEF PInv, Shaped
        <5> QED BY <5>1, <5>3, <5>4, <5>5, <5>6, <5>7
      <4> QED BY <4>1, <4>2
    <3> QED BY <2>1, <3>3 DEF Bounded
  <2> QED BY <2>4, <2>5
<1> QED BY <1>3, <1>4

\* A request that will leave few platforms, whatever the others take.
LEMMA EnoughDoomed ==
  ASSUME PInv, PInv', Bounded, NEW w \in Workers, NEW q, Goes(w, q), platforms' = platforms,
         aborts' = aborts, NEW most, IsFiniteSet(most), Cardinality(most) <= Floor,
         Generated \ Doomed(q) \subseteq most
  PROVE  Bounded'
<1>1. Generated' = Generated
  BY DEF Generated, Present, Demos
<1>2. ASSUME DemoMode, NEW A \in SUBSET Workers, IsFiniteSet(A)
      PROVE  Cardinality(Left(A)') <= Floor + aborts + Cardinality(A)
  <2> PICK B : B = A \cup { w }
    OBVIOUS
  <2>1. Floor \in Nat /\ aborts \in Nat /\ Cardinality(A) \in Nat
    BY <1>2, FloorNat, FS_CardinalityType DEF PInv, Shaped
  <2>2. CASE w \in A
    <3>1. Left(A)' = Left(A)
      <4>1. Left(A) = Generated \ Taken(A) /\ Left(A)' = Generated' \ Taken(A)
        BY <2>2, LeftAfter
      <4> QED BY <1>1, <4>1
    <3> QED BY <1>2, <3>1 DEF Bounded
  <2>3. CASE w \notin A
    <3>1. Left(A)' \subseteq most
      <4>1. Left(A)' = Generated' \ (Doomed(q) \cup Taken(B))
        BY <2>3, LeftAfter
      <4> QED BY <1>1, <4>1
    <3>2. /\ Cardinality(Left(A)') <= Cardinality(most)
          /\ Cardinality(Left(A)') \in Nat /\ Cardinality(most) \in Nat
      BY <3>1, FS_Subset, FS_CardinalityType
    <3> QED BY <2>1, <3>2
  <2> QED BY <2>2, <2>3
<1> QED BY <1>2 DEF Bounded

LEMMA CleanUpBounded ==
  ASSUME PInv, PInv', Bounded, NEW w \in Workers, CleanUp(w)
  PROVE  Bounded'
<1> SUFFICES ASSUME DemoMode PROVE Bounded'
  BY DEF Bounded
<1> PICK r : r = req[w]
  OBVIOUS
<1>1. r.pc = "clean" /\ Doomed(r) = { r.id }
  BY DEF CleanUp, Doomed
<1>2. CASE r.id \notin Present
  <2>1. Goes(w, Idle) /\ platforms' = platforms /\ aborts' = aborts
    BY <1>2 DEF CleanUp, Goto, Goes
  <2>2. Doomed(r) \cap Generated = {}
    BY <1>1, <1>2 DEF Generated
  <2> QED BY <2>1, <2>2, MoreDoomed
<1>3. CASE r.id \in Present
  <2> PICK D : D = Disposable({ r.id })
    OBVIOUS
  <2> PICK limit : limit = Limit(Keep, { r.id })
    OBVIOUS
  <2> PICK victims : victims = Victims(D, limit)
    OBVIOUS
  <2>1. platforms' = platforms /\ aborts' = aborts
    BY <1>3 DEF CleanUp, Retire, Goto
  <2>2. PICK q : Goes(w, q) /\ Doomed(q) = victims
    <3>1. Retire(w, r, victims)
      BY <1>3 DEF CleanUp
    <3>2. CASE victims = {}
      <4>1. Goes(w, Idle)
        BY <3>1, <3>2 DEF Retire, Goto, Goes
      <4>2. Doomed(Idle) = {}
        BY DEF Doomed, Idle
      <4> QED BY <3>2, <4>1, <4>2
    <3>3. CASE victims # {}
      <4> PICK q : q = [r EXCEPT !.pc = "delete", !.victims = victims]
        OBVIOUS
      <4>1. q.pc = "delete" /\ q.victims = victims
        BY <1>1 DEF PInv, Shaped, Sound, Idle
      <4> QED BY <3>1, <3>3, <4>1 DEF Retire, Goto, Goes, Doomed
    <3> QED BY <3>2, <3>3
  <2>3. limit \in Nat /\ limit + 1 = Floor
    <3>1. Cardinality({ r.id }) = 1
      BY FS_Singleton
    <3> QED BY <3>1, KeepAssumption DEF Limit, Floor
  <2>4. D = Generated \ { r.id } /\ IsFiniteSet(D) /\ D \subseteq Nat
    <3>1. D = Generated \ { r.id }
      BY DEF Disposable, Generated
    <3> QED BY <3>1, FinitePlatforms, FS_Subset
  <2> PICK rest : rest = D \ victims
    OBVIOUS
  <2>5. IsFiniteSet(rest) /\ Cardinality(rest) <= limit
    BY <2>3, <2>4, NewestStay
  <2> PICK most : most = rest \cup { r.id }
    OBVIOUS
  <2>6. IsFiniteSet(most) /\ Cardinality(most) <= Floor
    <3>1. /\ IsFiniteSet(most) /\ Cardinality(most) <= Cardinality(rest) + 1
          /\ Cardinality(most) \in Nat /\ Cardinality(rest) \in Nat
      BY <2>5, AddOne
    <3> QED BY <2>3, <2>5, <3>1, FloorNat
  <2>7. Generated \ Doomed(q) \subseteq most
    BY <2>2, <2>4
  <2> QED BY <2>1, <2>2, <2>6, <2>7, EnoughDoomed
<1> QED BY <1>2, <1>3
LEMMA DeleteBounded ==
  ASSUME PInv, PInv', Bounded, NEW w \in Workers, Delete(w)
  PROVE  Bounded'
<1> PICK r : r = req[w]
  OBVIOUS
<1>1. Doomed(r) = r.victims /\ aborts' = aborts
  BY DEF Delete, Doomed
<1>2. PICK q : Goes(w, q)
  BY DEF Delete, Goes
<1>3. platforms' = [p \in Ids |-> IF p \in r.victims THEN Absent ELSE platforms[p]]
  BY DEF Delete
<1>4. Generated' \subseteq Generated \ r.victims
  BY <1>3 DEF Generated, Present, Demos, Absent
<1>5. ASSUME NEW A \in SUBSET Workers PROVE Left(A)' \subseteq Left(A)
  <2> PICK B : B = A \cup { w }
    OBVIOUS
  <2>1. CASE w \in A
    BY <1>2, <1>4, <2>1, LeftAfter
  <2>2. CASE w \notin A
    <3>1. Left(A) = Generated \ (r.victims \cup Taken(B))
      BY <1>1, <1>2, <2>2, LeftAfter
    <3>2. Left(A)' \subseteq Generated' \ Taken(B)
      BY <1>2, <2>2, LeftAfter
    <3> QED BY <1>4, <3>1, <3>2
  <2> QED BY <2>1, <2>2
<1> QED BY <1>1, <1>5, NoMoreLeft

LEMMA SetStatusBounded ==
  ASSUME PInv, PInv', Bounded, NEW w \in Workers, SetStatus(w)
  PROVE  Bounded'
<1>1. Present' = Present /\ \A p \in Present : platforms'[p].demo = platforms[p].demo
  BY SetStatusKeeps
<1>2. Generated' = Generated
  BY <1>1 DEF Generated, Demos
<1>3. req' = req /\ aborts' = aborts
  BY DEF SetStatus
<1>4. \A A \in SUBSET Workers : Left(A)' \subseteq Left(A)
  BY <1>2, <1>3 DEF Left, Taken, Doomed
<1> QED BY <1>3, <1>4, NoMoreLeft

\* Who dies leaves what it was about to take; that is one more request for
\* which a platform may stay.
LEMMA AbortBounded ==
  ASSUME PInv, PInv', Bounded, NEW w \in Workers, Abort(w)
  PROVE  Bounded'
<1>1. Goes(w, Idle) /\ platforms' = platforms /\ aborts' = aborts + 1
  BY DEF Abort, Goes
<1>2. Doomed(Idle) = {} /\ Generated' = Generated
  BY <1>1 DEF Doomed, Idle, Generated, Present, Demos
<1>3. ASSUME DemoMode, NEW A \in SUBSET Workers, IsFiniteSet(A)
      PROVE  Cardinality(Left(A)') <= Floor + aborts' + Cardinality(A)
  <2> PICK B \in SUBSET Workers : B = A \cup { w }
    OBVIOUS
  <2>1. /\ Floor \in Nat /\ aborts \in Nat /\ Cardinality(A) \in Nat /\ Cardinality(B) \in Nat
        /\ IsFiniteSet(B) /\ Cardinality(B) <= Cardinality(A) + 1
    BY <1>3, FloorNat, AddOne DEF PInv, Shaped
  <2>2. CASE w \in A
    <3>1. Left(A)' = Left(A)
      <4>1. Left(A) = Generated \ Taken(A) /\ Left(A)' = Generated' \ Taken(A)
        BY <1>1, <2>2, LeftAfter
      <4> QED BY <1>2, <4>1
    <3>2. Cardinality(Left(A)) <= Floor + aborts + Cardinality(A) /\ Cardinality(Left(A)) \in Nat
      BY <1>3, FinitePlatforms DEF Bounded
    <3> QED BY <1>1, <2>1, <3>1, <3>2
  <2>3. CASE w \notin A
    <3>1. Left(A)' = Left(B)
      <4>1. Left(A)' = Generated' \ (Doomed(Idle) \cup Taken(B))
        BY <1>1, <2>3, LeftAfter
      <4> QED BY <1>2, <4>1 DEF Left
    <3>2. Cardinality(Left(B)) <= Floor + aborts + Cardinality(B) /\ Cardinality(Left(B)) \in Nat
      BY <1>3, <2>1, FinitePlatforms DEF Bounded
    <3> QED BY <1>1, <2>1, <3>1, <3>2
  <2> QED BY <2>2, <2>3
<1> QED BY <1>3 DEF Bounded

\* The steps of an idle request, or of one about to insert, take nothing back.
LEMMA OthersBounded ==
  ASSUME PInv, PInv', Bounded, NEW w \in Workers,
         Create(w) \/ Seed(w) \/ Prune(w) \/ FindSlug(w)
  PROVE  Bounded'
<1>1. platforms' = platforms /\ aborts' = aborts
  BY DEF Create, Seed, Prune, FindSlug, Goto, Retire
<1>2. \E q : Goes(w, q)
  BY DEF Create, Seed, Prune, FindSlug, Goto, Retire, Goes
<1>3. Doomed(req[w]) = {}
  BY DEF Create, Seed, Prune, FindSlug, Doomed
<1> QED BY <1>1, <1>2, <1>3, MoreDoomed

LEMMA BoundedInit == ASSUME Init PROVE Bounded
<1>1. Present = {} /\ aborts = 0
  BY DEF Init, Present, Absent
<1> SUFFICES ASSUME NEW A \in SUBSET Workers, IsFiniteSet(A)
             PROVE  Cardinality(Left(A)) <= Floor + aborts + Cardinality(A)
  BY DEF Bounded
<1>2. Left(A) = {}
  BY <1>1 DEF Left, Generated
<1>3. Cardinality(Left(A)) = 0 /\ Cardinality(A) \in Nat
  BY <1>2, FS_EmptySet, FS_CardinalityType
<1> QED BY <1>1, <1>3, FloorNat

LEMMA BoundedNext == ASSUME PInv, PInv', Bounded, [Next]_vars PROVE Bounded'
<1>1. CASE UNCHANGED vars
  BY <1>1 DEF vars, Bounded, Left, Taken, Doomed, Generated, Present, Demos
<1> QED BY <1>1, OthersBounded, SetStatusBounded, InsertBounded, CleanUpBounded, DeleteBounded,
           AbortBounded DEF Next

\* In a demonstration the generated platforms never pile up, for any number of
\* overlapping creations: each cleans up after itself or is about to.
THEOREM GeneratedStayFew == Spec => []GeneratedBounded
<1>1. Init => Bounded
  BY BoundedInit
<1>2. PInv /\ PInv' /\ Bounded /\ [Next]_vars => Bounded'
  BY BoundedNext
<1>3. PInv /\ Bounded => GeneratedBounded
  <2> SUFFICES ASSUME PInv, Bounded, DemoMode, Quiet
               PROVE  Cardinality(Generated) <= Floor + aborts
    BY DEF GeneratedBounded, Generated, Floor
  <2>1. Taken({}) = {}
    BY DEF Quiet, Taken, Doomed
  <2>2. Left({}) = Generated
    BY <2>1 DEF Left
  <2>3. IsFiniteSet({}) /\ Cardinality({}) = 0
    BY FS_EmptySet
  <2>4. Cardinality(Generated) <= Floor + aborts + 0
    BY <2>2, <2>3 DEF Bounded
  <2>5. Floor + aborts + 0 = Floor + aborts
    BY FloorNat DEF PInv, Shaped
  <2> QED BY <2>4, <2>5
<1> QED BY <1>1, <1>2, <1>3, ComposerInvariance, PTL DEF Spec

-----------------------------------------------------------------------------
(* What a platform gets *)

\* A row has what was composed for an acceptable creation.
LEMMA RowOf ==
  ASSUME PInv, NEW p \in Present
  PROVE  /\ \E ask \in Chosen : platforms[p] \in Rows(ask)
         /\ platforms[p].status = "published" => platforms[p].stamped
BY DEF PInv, Shaped, Present, IsRow, Absent

\* Whatever was asked for, a committed platform is never of a shape that does not
\* work: core modules, dependencies, layers and their connectors, and a row for
\* each module.
THEOREM PlatformsAlwaysWork == Spec => []PlatformsWork
<1>1. PInv => PlatformsWork
  <2> SUFFICES ASSUME PInv, NEW p \in Present
               PROVE  LET row == platforms[p] IN
                      /\ CoreIds \subseteq row.modules
                      /\ \A m \in row.modules : Dependencies[m] \subseteq row.modules
                      /\ IsInjective(row.layers)
                      /\ ToSet(row.layers) = { l \in LayerKeys : LayerModule[l] \in row.modules }
                      /\ \A l \in ToSet(row.layers) \cap DOMAIN Source : Source[l] \in row.modules
                      /\ row.rows = row.modules
                      /\ row.status = "published" => row.stamped
    BY DEF PlatformsWork
  <2> PICK ask \in Chosen : platforms[p] \in Rows(ask)
    BY RowOf
  <2>1. ask \in Asks \cup { DemoAsk } /\ Acceptable(ask)
    BY DEF Chosen
  <2> PICK modules, layers : modules = Selected(ask) /\ layers = SelectedLayers(ask)
    OBVIOUS
  <2>2. /\ CoreIds \subseteq modules /\ Closed(modules) /\ IsInjective(layers)
        /\ ToSet(layers) = { l \in LayerKeys : LayerModule[l] \in modules }
    BY <2>1, SelectionWorks
  <2>3. platforms[p].modules = modules /\ platforms[p].rows = modules /\ platforms[p].layers = layers
    BY <2>1 DEF Rows, Composed
  <2>4. ASSUME NEW l \in ToSet(layers) \cap DOMAIN Source PROVE Source[l] \in modules
    BY <2>2, DependenciesOfLayer DEF Closed
  <2> QED BY <2>2, <2>3, <2>4, RowOf DEF Closed
<1> QED BY <1>1, ComposerInvariance, PTL

\* A platform whose selection was left to the composer has what the preview of
\* its hazards showed.
THEOREM PreviewAlwaysHonoured == Spec => []PreviewHonoured
<1>1. PInv => PreviewHonoured
  <2> SUFFICES ASSUME PInv, NEW p \in Present,
                      platforms[p].ask.modules = Null, platforms[p].ask.layers = Null
               PROVE  LET row == platforms[p] IN
                      /\ row.modules = Preview[row.ask].modules
                      /\ row.layers = Preview[row.ask].layers
                      /\ row.ask.categories = Null => row.categories = Preview[row.ask].categories
    BY DEF PreviewHonoured
  <2> PICK ask \in Chosen : platforms[p] \in Rows(ask)
    BY RowOf
  <2>1. ask \in Asks \cup { DemoAsk } /\ Acceptable(ask)
    BY DEF Chosen
  <2>2. /\ platforms[p].ask = ask /\ platforms[p].modules = Composed[ask].modules
        /\ platforms[p].layers = Composed[ask].layers
        /\ platforms[p].categories = Composed[ask].categories
    BY DEF Rows
  <2> QED BY <2>1, <2>2, SelectionAsPreviewed
<1> QED BY <1>1, ComposerInvariance, PTL
=============================================================================
