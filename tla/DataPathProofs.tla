--------------------------- MODULE DataPathProofs ---------------------------
(***************************************************************************)
(* That what comes out at the far end is what went in, for any scans,       *)
(* programs, schemas and foreign messages, and any number of them.          *)
(*                                                                          *)
(* First the codecs: FlattenSeq, SumOf and the loop of decode_scans are     *)
(* unrolled by induction over numbers; fields are read from bytes as they   *)
(* were written; a message comes back field by field; so does a scan, a     *)
(* cloud, and a reply of any number of scans, and a cut reply is refused;   *)
(* and the header of a beat is found and read, whatever is behind it.       *)
(* Then the programs: message objects used again and again, messages        *)
(* dropped, refused or sent by others, failures, crashes and restarts never *)
(* show through.                                                           *)
(***************************************************************************)
EXTENDS DataPath, FiniteSetTheorems, SequenceTheorems, TLAPS

(* A sequence of anything.                                                 *)
IsSeq(s) == \E S : s \in Seq(S)

LEMMA Appended ==
  ASSUME NEW s, IsSeq(s), NEW e
  PROVE  /\ IsSeq(Append(s, e))
         /\ \A i \in DOMAIN s : i \in DOMAIN Append(s, e) /\ Append(s, e)[i] = s[i]
         /\ \A i \in DOMAIN Append(s, e) :
              (i \in DOMAIN s /\ Append(s, e)[i] = s[i]) \/ Append(s, e)[i] = e
         /\ \E i \in DOMAIN Append(s, e) : Append(s, e)[i] = e
<1>1. PICK S : s \in Seq(S)
  BY DEF IsSeq
<1>2. PICK T : T = S \cup {e}
  OBVIOUS
<1>3. s \in Seq(T) /\ e \in T
  BY <1>1, <1>2
<1>4. PICK n \in Nat : n = Len(s)
  BY <1>3
<1>5. /\ Append(s, e) \in Seq(T) /\ DOMAIN s = 1..n /\ DOMAIN Append(s, e) = 1..(n + 1)
      /\ \A i \in 1..n : Append(s, e)[i] = s[i]
      /\ Append(s, e)[n + 1] = e
  BY <1>3, <1>4
<1>6. IsSeq(Append(s, e))
  BY <1>5 DEF IsSeq
<1>7. \A i \in 1..(n + 1) : i \in 1..n \/ i = n + 1
  OBVIOUS
<1>8. n + 1 \in 1..(n + 1) /\ \A i \in 1..n : i \in 1..(n + 1)
  OBVIOUS
<1> QED
  BY <1>5, <1>6, <1>7, <1>8

LEMMA Taken ==
  ASSUME NEW s, IsSeq(s), s # <<>>
  PROVE  /\ IsSeq(Tail(s))
         /\ 1 \in DOMAIN s /\ Head(s) = s[1]
         /\ \A i \in DOMAIN Tail(s) : i + 1 \in DOMAIN s /\ Tail(s)[i] = s[i + 1]
<1>1. PICK S : s \in Seq(S)
  BY DEF IsSeq
<1>2. PICK n \in Nat : n = Len(s) /\ n > 0
  BY <1>1
<1>3. /\ Tail(s) \in Seq(S) /\ DOMAIN s = 1..n /\ DOMAIN Tail(s) = 1..(n - 1)
      /\ Head(s) = s[1] /\ \A i \in 1..(n - 1) : Tail(s)[i] = s[i + 1]
  BY <1>1, <1>2
<1>4. IsSeq(Tail(s))
  BY <1>3 DEF IsSeq
<1> QED
  BY <1>2, <1>3, <1>4

-----------------------------------------------------------------------------
(* Induction over numbers, and sequences joined from parts.                *)

(* Any set of numbers has a least one, from the sets below each of them      *)
(* being well-founded.                                                     *)
LEMMA Least ==
  ASSUME NEW S, S \subseteq Nat, S # {}
  PROVE  \E n \in S : \A k \in S : n <= k
<1> DEFINE U == {0..n : n \in S}
<1>1. \A n \in S : IsFiniteSet(0..n) /\ 0..n \subseteq Nat
  BY FS_Interval
<1>2. U \subseteq FiniteSubsetsOf(Nat) /\ U # {}
  BY <1>1 DEF FiniteSubsetsOf
<1>3. PICK u \in U : \A t \in U : <<t, u>> \notin StrictSubsetOrdering(Nat)
  BY <1>2, FS_StrictSubsetOrderingWellFounded, WFMin, Zenon
<1>4. PICK n \in S : u = 0..n
  OBVIOUS
<1>5. ASSUME NEW k \in S, k < n PROVE FALSE
  <2>1. 0..k \subseteq 0..n /\ 0..k # 0..n /\ 0..k \in SUBSET Nat /\ 0..n \in SUBSET Nat
    BY <1>5
  <2>2. PICK t : t = 0..k
    OBVIOUS
  <2>3. t \in U
    BY <1>5, <2>2
  <2>4. <<t, u>> \in StrictSubsetOrdering(Nat)
    BY <1>4, <2>1, <2>2 DEF StrictSubsetOrdering
  <2> HIDE DEF U
  <2> QED
    BY <1>3, <2>3, <2>4
<1> QED
  BY <1>4, <1>5

(* Induction up to n, T being the numbers of which it is shown.             *)
LEMMA Inductive ==
  ASSUME NEW n \in Nat, NEW T, 0 \in T, \A i \in 1..n : i - 1 \in T => i \in T
  PROVE  (\A i \in 0..n : i \in T) /\ n \in T
<1> DEFINE B == {i \in 0..n : i \notin T}
<1> SUFFICES ASSUME B # {} PROVE FALSE
  <2>1. n \in 0..n
    OBVIOUS
  <2> QED
    BY <2>1
<1>1. B \subseteq Nat
  OBVIOUS
<1>2. PICK k \in B : \A j \in B : k <= j
  <2> HIDE DEF B
  <2> QED
    BY <1>1, Least
<1>3. k \in 0..n /\ k \notin T /\ k # 0
  BY <1>2
<1>4. k \in 1..n /\ k - 1 \in 0..n /\ ~(k <= k - 1)
  BY <1>3
<1>5. k - 1 \notin B
  BY <1>2, <1>4
<1>6. k - 1 \in T
  BY <1>4, <1>5
<1> QED
  BY <1>3, <1>4, <1>6

-----------------------------------------------------------------------------
(* FlattenSeq is what its recursion says: f[i] joins the first i parts.     *)
Joins(f, p, n, S) ==
  /\ f \in [0..n -> Seq(S)]
  /\ f[0] = <<>>
  /\ \A i \in 1..n : f[i] = f[i - 1] \o p[i]

(* The joins of the parts exist, and they are what FlattenSeq recurses to. *)
LEMMA JoinsExist ==
  ASSUME NEW S, NEW p \in Seq(Seq(S)), NEW n \in Nat, n = Len(p)
  PROVE  \E f : Joins(f, p, n, S)
<1>1. \A i \in 1..n : p[i] \in Seq(S)
  OBVIOUS
<1> DEFINE Upto(f, m) == /\ f \in [0..m -> Seq(S)] /\ f[0] = <<>>
                         /\ \A i \in 1..m : f[i] = f[i - 1] \o p[i]
           T == {m \in 0..n : \E f : Upto(f, m)}
<1>2. 0 \in T
  <2>1. Upto([i \in 0..0 |-> <<>>], 0)
    OBVIOUS
  <2> HIDE DEF Upto
  <2> QED
    BY <2>1
<1>3. ASSUME NEW m \in 1..n, m - 1 \in T PROVE m \in T
  <2>1. PICK f : Upto(f, m - 1)
    BY <1>3
  <2>2. PICK q : q = f[m - 1] \o p[m]
    OBVIOUS
  <2>3. f[m - 1] \in Seq(S) /\ p[m] \in Seq(S)
    BY <1>1, <2>1
  <2>4. q \in Seq(S)
    BY <2>2, <2>3
  <2>5. PICK g : g = [i \in 0..m |-> IF i = m THEN q ELSE f[i]]
    OBVIOUS
  <2>6. \A i \in 0..m : g[i] = IF i = m THEN q ELSE f[i]
    BY <2>5
  <2>7. \A i \in 0..m : i # m => i \in 0..(m - 1)
    OBVIOUS
  <2>8. \A i \in 0..(m - 1) : f[i] \in Seq(S)
    BY <2>1
  <2>9. g \in [0..m -> Seq(S)]
    BY <2>4, <2>5, <2>7, <2>8
  <2>10. g[0] = <<>>
    BY <2>1, <2>6
  <2>11. ASSUME NEW i \in 1..m PROVE g[i] = g[i - 1] \o p[i]
    <3>1. i - 1 \in 0..m /\ i - 1 # m /\ i \in 0..m
      OBVIOUS
    <3>2. g[i - 1] = f[i - 1]
      BY <2>6, <3>1
    <3>3. CASE i = m
      BY <2>2, <2>6, <3>1, <3>2, <3>3
    <3>4. CASE i # m
      <4>1. i \in 1..(m - 1) /\ g[i] = f[i]
        BY <2>6, <3>1, <3>4
      <4> QED
        BY <2>1, <3>2, <4>1
    <3> QED
      BY <3>3, <3>4
  <2>12. Upto(g, m)
    BY <2>9, <2>10, <2>11
  <2> HIDE DEF Upto
  <2> QED
    BY <2>12
<1>4. \A i \in 1..n : i - 1 \in T => i \in T
  BY <1>3
<1>5. n \in T
  <2> HIDE DEF T
  <2> QED
    BY <1>2, <1>4, Inductive
<1>6. PICK f : Upto(f, n)
  <2> HIDE DEF Upto
  <2> QED
    BY <1>5
<1>7. Joins(f, p, n, S)
  BY <1>6 DEF Joins
<1> QED
  BY <1>7

LEMMA Joined ==
  ASSUME NEW S, NEW p \in Seq(Seq(S)), NEW n \in Nat, n = Len(p), NEW f, Joins(f, p, n, S)
  PROVE  FlattenSeq(p) = f[n]
<1>1. n \in Nat /\ n = Len(p)
  OBVIOUS
<1>2. /\ \A i \in 1..n : p[i] \in Seq(S)
      /\ \A i \in 1..n : f[i] = f[i - 1] \o p[i]
  <2>1. \A i \in 1..n : p[i] \in Seq(S)
    BY <1>1
  <2>2. \A i \in 1..n : f[i] = f[i - 1] \o p[i]
    BY <1>1 DEF Joins
  <2> QED
    BY <2>1, <2>2
<1>3. f[0] = <<>>
  BY DEF Joins
<1>4. CASE n = 0
  <2>1. p = <<>>
    BY <1>1, <1>4, EmptySeq
  <2> QED
    BY <1>1, <1>3, <1>4, <2>1 DEF FlattenSeq
<1>5. CASE n # 0
  <2> DEFINE F(g) == [i \in 1..n |-> IF i = 1 THEN p[i] ELSE g[i - 1] \o p[i]]
             h == CHOOSE g : g = F(g)
  <2>1. PICK e : e = [i \in 1..n |-> f[i]]
    OBVIOUS
  <2>2. ASSUME NEW i \in 1..n PROVE e[i] = IF i = 1 THEN p[i] ELSE e[i - 1] \o p[i]
    <3>1. e[i] = f[i - 1] \o p[i] /\ p[i] \in Seq(S)
      BY <1>2, <2>1
    <3>2. CASE i = 1
      <4>1. i - 1 = 0
        BY <3>2
      <4>2. e[i] = <<>> \o p[i]
        BY <1>3, <3>1, <4>1
      <4>3. <<>> \o p[i] = p[i]
        BY <3>1
      <4> QED
        BY <3>2, <4>2, <4>3
    <3>3. CASE i # 1
      <4>1. i - 1 \in 1..n
        BY <3>3
      <4> QED
        BY <2>1, <3>1, <3>3, <4>1
    <3> QED
      BY <3>2, <3>3
  <2>3. e = F(e)
    BY <2>1, <2>2
  <2>4. h = F(h)
    BY <2>3, Zenon
  <2>5. FlattenSeq(p) = h[n]
    BY <1>1, <1>5, Zenon DEF FlattenSeq
  <2> HIDE DEF h
  <2>6. \A i \in 1..n : h[i] = IF i = 1 THEN p[i] ELSE h[i - 1] \o p[i]
    BY <2>4
  <2>7. PICK A : A = {i \in 0..n : i = 0 \/ h[i] = f[i]}
    OBVIOUS
  <2>8. ASSUME NEW i \in 1..n, i - 1 \in A PROVE i \in A
    <3>1. e[i] = IF i = 1 THEN p[i] ELSE e[i - 1] \o p[i]
      BY <2>2
    <3>2. i # 1 => i - 1 \in 1..n /\ h[i - 1] = f[i - 1] /\ e[i - 1] = f[i - 1]
      BY <2>1, <2>7, <2>8
    <3>3. h[i] = e[i]
      BY <2>6, <3>1, <3>2
    <3>4. e[i] = f[i] /\ i \in 0..n
      BY <2>1
    <3> QED
      BY <2>7, <3>3, <3>4
  <2>9. 0 \in A
    BY <2>7
  <2>10. \A i \in 1..n : i - 1 \in A => i \in A
    BY <2>8
  <2>11. n \in A
    BY <2>9, <2>10, Inductive
  <2> QED
    BY <1>1, <1>5, <2>5, <2>7, <2>11
<1> QED
  BY <1>4, <1>5

(* Two sequences in a row: the first, then the second.                     *)
LEMMA Concatenated ==
  ASSUME NEW S, NEW s \in Seq(S), NEW t \in Seq(S),
         NEW m \in Nat, m = Len(s), NEW n \in Nat, n = Len(t)
  PROVE  /\ s \o t \in Seq(S) /\ Len(s \o t) = m + n /\ DOMAIN (s \o t) = 1..(m + n)
         /\ \A j \in 1..m : (s \o t)[j] = s[j]
         /\ \A j \in 1..n : (s \o t)[m + j] = t[j]
<1>1. PICK l \in Nat : l = m + n
  OBVIOUS
<1>2. PICK u : u = s \o t
  OBVIOUS
<1>3. u \in Seq(S) /\ Len(u) = l
  BY <1>1, <1>2
<1>4. \A j \in 1..m : u[j] = s[j]
  BY <1>2
<1>5. \A j \in 1..n : u[m + j] = t[j]
  BY <1>2
<1> QED
  BY <1>1, <1>2, <1>3, <1>4, <1>5

(* Sequences of equal lengths and elements are equal.                      *)
LEMMA SameSeq ==
  ASSUME NEW S, NEW s \in Seq(S), NEW t \in Seq(S), NEW n \in Nat, n = Len(s), n = Len(t),
         \A j \in 1..n : s[j] = t[j]
  PROVE  s = t
BY SeqEqual

(* A flattened sequence by its joins, for the lemmas below.                *)
LEMMA Flattened ==
  ASSUME NEW S, NEW p \in Seq(Seq(S)), NEW n \in Nat, n = Len(p)
  PROVE  \E f : Joins(f, p, n, S) /\ FlattenSeq(p) = f[n]
<1>1. PICK f : Joins(f, p, n, S)
  BY JoinsExist
<1>2. FlattenSeq(p) = f[n]
  BY <1>1, Joined
<1> QED
  BY <1>1, <1>2

(* Parts of one element each, or none: the whole has each of them once.     *)
Choice(p, n, on, e) == p = [k \in 1..n |-> IF k \in on THEN <<e[k]>> ELSE <<>>]

Distinct(e, on) == \A k, l \in on : e[k] = e[l] => k = l

Selects(s, on, e, S) ==
  /\ s \in Seq(S)
  /\ \A j \in DOMAIN s : \E k \in on : s[j] = e[k]
  /\ \A k \in on : \E j \in DOMAIN s : s[j] = e[k]
  /\ \A i, j \in DOMAIN s : s[i] = s[j] => i = j

LEMMA Chosen ==
  ASSUME NEW S, NEW n \in Nat, NEW on, on \subseteq 1..n, NEW e, \A k \in on : e[k] \in S,
         Distinct(e, on), NEW p, Choice(p, n, on, e), NEW s, s = FlattenSeq(p)
  PROVE  Selects(s, on, e, S)
<1>1. /\ \A k, l \in on : e[k] = e[l] => k = l
      /\ p = [k \in 1..n |-> IF k \in on THEN <<e[k]>> ELSE <<>>]
  BY Zenon DEF Distinct, Choice
<1> USE <1>1
<1>2. p \in Seq(Seq(S)) /\ n = Len(p) /\ \A k \in 1..n : p[k] = IF k \in on THEN <<e[k]>> ELSE <<>>
  <2>1. \A k \in 1..n : p[k] = IF k \in on THEN <<e[k]>> ELSE <<>>
    OBVIOUS
  <2>2. \A k \in 1..n : p[k] \in Seq(S)
    <3> SUFFICES ASSUME NEW k \in 1..n PROVE p[k] \in Seq(S)
      OBVIOUS
    <3>1. CASE k \in on
      <4>1. p[k] = <<e[k]>> /\ e[k] \in S
        BY <2>1, <3>1
      <4> QED
        BY <4>1
    <3>2. CASE k \notin on
      <4>1. p[k] = <<>>
        BY <2>1, <3>2
      <4> QED
        BY <4>1
    <3> QED
      BY <3>1, <3>2
  <2> QED
    BY <2>1, <2>2
<1>3. PICK r \in Seq(Seq(S)) : r = p /\ n = Len(r)
  BY <1>2, Zenon
<1>4. PICK f : Joins(f, r, n, S) /\ FlattenSeq(r) = f[n]
  BY <1>3, Flattened
<1>5. /\ f \in [0..n -> Seq(S)] /\ f[0] = <<>>
      /\ \A i \in 1..n : f[i] = f[i - 1] \o p[i]
      /\ FlattenSeq(p) = f[n]
  BY <1>3, <1>4 DEF Joins
<1> DEFINE Good(z, m) ==
             /\ z \in Seq(S)
             /\ \A j \in DOMAIN z : \E k \in on : k <= m /\ z[j] = e[k]
             /\ \A k \in on : k <= m => \E j \in DOMAIN z : z[j] = e[k]
             /\ \A i, j \in DOMAIN z : z[i] = z[j] => i = j
           T == {i \in 0..n : Good(f[i], i)}
<1>6. 0 \in T
  <2>1. Good(<<>>, 0)
    OBVIOUS
  <2> HIDE DEF Good
  <2> QED
    BY <1>5, <2>1
<1>7. ASSUME NEW m \in 1..n, m - 1 \in T PROVE m \in T
  <2>1. PICK u, t : u = f[m - 1] /\ t = f[m]
    OBVIOUS
  <2>2. Good(u, m - 1)
    BY <1>7, <2>1
  <2>3. t = u \o p[m]
    BY <1>5, <2>1
  <2>4. Good(t, m)
    <3>1. CASE m \notin on
      <4>1. t = u \o <<>>
        BY <1>2, <2>3, <3>1
      <4>2. t = u
        BY <2>2, <4>1
      <4>3. \A k \in on : k <= m <=> k <= m - 1
        BY <3>1
      <4> QED
        BY <2>2, <4>2, <4>3
    <3>2. CASE m \in on
      <4>1. PICK a \in S : a = e[m]
        BY <3>2
      <4>2. t = u \o <<a>>
        BY <1>2, <2>3, <3>2, <4>1
      <4>3. PICK l \in Nat : l = Len(u)
        BY <2>2
      <4>4. /\ t \in Seq(S) /\ DOMAIN u = 1..l /\ DOMAIN t = 1..(l + 1)
            /\ \A j \in 1..l : t[j] = u[j]
            /\ t[l + 1] = a
        BY <2>2, <4>1, <4>2, <4>3
      <4>5. \A j \in 1..(l + 1) : j \in 1..l \/ j = l + 1
        OBVIOUS
      <4>6. /\ \A k \in on : k <= m <=> k <= m - 1 \/ k = m
            /\ \A k \in on : k <= m - 1 => k <= m /\ k # m
            /\ m <= m
        OBVIOUS
      <4>7. \A j \in 1..l : u[j] # a
        <5> SUFFICES ASSUME NEW j \in 1..l, u[j] = a PROVE FALSE
          OBVIOUS
        <5>1. PICK k \in on : k <= m - 1 /\ u[j] = e[k]
          BY <2>2, <4>4
        <5>2. k = m
          BY <3>2, <4>1, <5>1
        <5> QED
          BY <4>6, <5>1, <5>2
      <4>8. l + 1 \in 1..(l + 1) /\ \A j \in 1..l : j \in 1..(l + 1)
        OBVIOUS
      <4>9. ASSUME NEW j \in DOMAIN t PROVE \E k \in on : k <= m /\ t[j] = e[k]
        <5>1. CASE j = l + 1
          BY <3>2, <4>1, <4>4, <4>6, <5>1
        <5>2. CASE j \in 1..l
          <6>1. PICK k \in on : k <= m - 1 /\ u[j] = e[k]
            BY <2>2, <4>4, <5>2
          <6> QED
            BY <4>4, <4>6, <5>2, <6>1
        <5> QED
          BY <4>4, <4>5, <5>1, <5>2
      <4>10. ASSUME NEW k \in on, k <= m PROVE \E j \in DOMAIN t : t[j] = e[k]
        <5>1. CASE k = m
          BY <4>1, <4>4, <4>8, <5>1
        <5>2. CASE k # m
          <6>1. PICK j \in 1..l : u[j] = e[k]
            BY <2>2, <4>4, <4>6, <4>10, <5>2
          <6> QED
            BY <4>4, <4>8, <6>1
        <5> QED
          BY <5>1, <5>2
      <4>11. \A i, j \in DOMAIN t : t[i] = t[j] => i = j
        BY <2>2, <4>4, <4>5, <4>7
      <4> QED
        BY <4>4, <4>9, <4>10, <4>11
    <3> QED
      BY <3>1, <3>2
  <2> HIDE DEF Good
  <2> QED
    BY <2>1, <2>4
<1>8. n \in T
  <2>1. \A i \in 1..n : i - 1 \in T => i \in T
    BY <1>7
  <2> HIDE DEF T
  <2> QED
    BY <1>6, <2>1, Inductive
<1>9. Good(f[n], n)
  <2> HIDE DEF Good
  <2> QED
    BY <1>8
<1>10. \A k \in on : k <= n
  OBVIOUS
<1>11. Good(s, n)
  <2>1. s = f[n]
    BY <1>5
  <2> HIDE DEF Good
  <2> QED
    BY <1>9, <2>1
<1> QED
  BY <1>10, <1>11 DEF Selects

(* Parts of which all but one are empty.                                   *)
LEMMA Sole ==
  ASSUME NEW S, NEW p \in Seq(Seq(S)), NEW n \in Nat, n = Len(p),
         NEW a \in 1..n, \A k \in 1..n : k # a => p[k] = <<>>
  PROVE  FlattenSeq(p) = p[a]
<1>1. PICK q \in Seq(S) : q = p[a]
  OBVIOUS
<1>2. PICK f : Joins(f, p, n, S) /\ FlattenSeq(p) = f[n]
  BY Flattened
<1>3. /\ f \in [0..n -> Seq(S)] /\ f[0] = <<>>
      /\ \A i \in 1..n : f[i] = f[i - 1] \o p[i]
      /\ FlattenSeq(p) = f[n]
  BY <1>2 DEF Joins
<1>4. PICK T : T = {i \in 0..n : f[i] = IF i < a THEN <<>> ELSE q}
  OBVIOUS
<1>5. 0 \in T
  BY <1>3, <1>4
<1>6. ASSUME NEW i \in 1..n, i - 1 \in T PROVE i \in T
  <2>1. f[i] = f[i - 1] \o p[i]
    BY <1>3, Zenon
  <2>2. i \in 0..n
    OBVIOUS
  <2>3. CASE i < a
    <3>1. p[i] = <<>> /\ f[i - 1] = <<>>
      BY <1>4, <1>6, <2>3
    <3> QED
      BY <1>4, <2>1, <2>2, <2>3, <3>1
  <2>4. CASE i = a
    <3>1. p[i] = q /\ f[i - 1] = <<>>
      BY <1>1, <1>4, <1>6, <2>4
    <3>2. f[i] = q
      BY <2>1, <3>1
    <3> QED
      BY <1>4, <2>1, <2>2, <2>4, <3>2
  <2>5. CASE a < i
    <3>1. p[i] = <<>> /\ f[i - 1] = q
      BY <1>4, <1>6, <2>5
    <3>2. f[i] = q
      BY <2>1, <3>1
    <3> QED
      BY <1>4, <2>1, <2>2, <2>5, <3>2
  <2> QED
    BY <2>3, <2>4, <2>5
<1>7. n \in T
  <2>1. \A i \in 1..n : i - 1 \in T => i \in T
    BY <1>6
  <2> QED
    BY <1>5, <2>1, Inductive
<1> QED
  BY <1>1, <1>3, <1>4, <1>7

(* Only empty parts.                                                       *)
LEMMA Vacant ==
  ASSUME NEW n \in Nat, NEW p, p = [k \in 1..n |-> <<>>]
  PROVE  FlattenSeq(p) = <<>>
<1>1. CASE n = 0
  <2>1. p \in Seq({}) /\ Len(p) = 0
    BY <1>1
  <2>2. p = <<>>
    BY <2>1, EmptySeq
  <2> QED
    BY <2>1, <2>2, Zenon DEF FlattenSeq
<1>2. CASE n # 0
  <2>1. 1 \in 1..n /\ p \in Seq(Seq({})) /\ n = Len(p) /\ p[1] = <<>>
        /\ \A k \in 1..n : k # 1 => p[k] = <<>>
    BY <1>2
  <2> QED
    BY <2>1, Sole
<1> QED
  BY <1>1, <1>2

(* Flattening joined sequences joins what they flatten to.                  *)
LEMMA FlattenConcat ==
  ASSUME NEW S, NEW p \in Seq(Seq(S)), NEW q \in Seq(Seq(S))
  PROVE  FlattenSeq(p \o q) = FlattenSeq(p) \o FlattenSeq(q)
<1>1. PICK n \in Nat, m \in Nat : n = Len(p) /\ m = Len(q)
  OBVIOUS
<1>2. PICK r : r = p \o q
  OBVIOUS
<1>3. PICK l \in Nat : l = n + m
  OBVIOUS
<1>4. /\ r \in Seq(Seq(S)) /\ Len(r) = l
      /\ \A i \in 1..n : r[i] = p[i]
      /\ \A i \in 1..m : r[n + i] = q[i]
  BY <1>1, <1>2, <1>3
<1>5. PICK f : Joins(f, p, n, S) /\ FlattenSeq(p) = f[n]
  BY <1>1, Flattened
<1>6. /\ f \in [0..n -> Seq(S)] /\ f[0] = <<>>
      /\ \A i \in 1..n : f[i] = f[i - 1] \o p[i]
      /\ FlattenSeq(p) = f[n]
  BY <1>5 DEF Joins
<1>7. PICK g : Joins(g, q, m, S) /\ FlattenSeq(q) = g[m]
  BY <1>1, Flattened
<1>8. /\ g \in [0..m -> Seq(S)] /\ g[0] = <<>>
      /\ \A i \in 1..m : g[i] = g[i - 1] \o q[i]
      /\ FlattenSeq(q) = g[m]
  BY <1>7 DEF Joins
<1>9. PICK h : Joins(h, r, l, S) /\ FlattenSeq(r) = h[l]
  BY <1>4, Flattened
<1>10. /\ h \in [0..l -> Seq(S)] /\ h[0] = <<>>
       /\ \A i \in 1..l : h[i] = h[i - 1] \o r[i]
       /\ FlattenSeq(r) = h[l]
  BY <1>9 DEF Joins
<1>11. h[n] = f[n]
  <2>1. PICK T : T = {i \in 0..n : h[i] = f[i]}
    OBVIOUS
  <2>2. 0 \in T
    BY <1>6, <1>10, <2>1
  <2>3. \A i \in 1..n : i - 1 \in T => i \in T
    <3> SUFFICES ASSUME NEW i \in 1..n, i - 1 \in T PROVE i \in T
      OBVIOUS
    <3>1. i \in 1..l /\ i \in 0..n
      BY <1>3
    <3>2. h[i] = h[i - 1] \o r[i] /\ f[i] = f[i - 1] \o p[i] /\ r[i] = p[i] /\ h[i - 1] = f[i - 1]
      BY <1>4, <1>6, <1>10, <2>1, <3>1
    <3> QED
      BY <2>1, <3>1, <3>2
  <2>4. n \in T
    BY <2>2, <2>3, Inductive
  <2> QED
    BY <2>1, <2>4
<1>12. PICK s \in Seq(S) : s = f[n]
  BY <1>6
<1>13. h[l] = s \o g[m]
  <2>1. PICK T : T = {i \in 0..m : h[n + i] = s \o g[i]}
    OBVIOUS
  <2>2. 0 \in T
    <3>1. s \o <<>> = s /\ n + 0 = n /\ 0 \in 0..m
      OBVIOUS
    <3>2. h[n + 0] = s \o g[0]
      BY <1>8, <1>11, <1>12, <3>1
    <3> QED
      BY <2>1, <3>1, <3>2
  <2>3. \A i \in 1..m : i - 1 \in T => i \in T
    <3> SUFFICES ASSUME NEW i \in 1..m, i - 1 \in T PROVE i \in T
      OBVIOUS
    <3>1. i \in 0..m /\ i - 1 \in 0..m
      OBVIOUS
    <3>2. PICK k \in 1..l : k = n + i /\ k - 1 = n + (i - 1)
      BY <1>3
    <3>3. h[k] = h[k - 1] \o r[k] /\ r[k] = q[i] /\ h[k - 1] = s \o g[i - 1]
      BY <1>4, <1>10, <2>1, <3>2
    <3>4. PICK u \in Seq(S), v \in Seq(S) : u = g[i - 1] /\ v = q[i]
      <4>1. q[i] \in Seq(S)
        BY <1>1
      <4> QED
        BY <1>8, <3>1, <4>1
    <3>5. h[k] = (s \o u) \o v /\ g[i] = u \o v
      BY <1>8, <3>3, <3>4
    <3>6. (s \o u) \o v = s \o (u \o v)
      OBVIOUS
    <3> QED
      BY <2>1, <3>1, <3>2, <3>5, <3>6
  <2>4. m \in T
    BY <2>2, <2>3, Inductive
  <2> QED
    BY <1>3, <2>1, <2>4
<1> QED
  BY <1>2, <1>6, <1>8, <1>10, <1>12, <1>13

-----------------------------------------------------------------------------
(* Sums of sequences of numbers.                                           *)

(* g[i] is the sum of the first i of p.                                     *)
Adds(g, p, n) == g[0] = 0 /\ \A i \in 1..n : g[i] = g[i - 1] + p[i]

Totals(g, p, n) == g \in [0..n -> Nat] /\ Adds(g, p, n)

(* The totals exist.                                                       *)
LEMMA TotalsExist ==
  ASSUME NEW n \in Nat, NEW p, \A i \in 1..n : p[i] \in Nat
  PROVE  \E g : Totals(g, p, n)
<1> DEFINE T == {m \in 0..n : \E g : Totals(g, p, m)}
<1>1. 0 \in T
  <2>1. Totals([i \in 0..0 |-> 0], p, 0)
    BY DEF Totals, Adds
  <2> QED
    BY <2>1
<1>2. ASSUME NEW m \in 1..n, m - 1 \in T PROVE m \in T
  <2>1. PICK f : Totals(f, p, m - 1)
    BY <1>2
  <2>2. /\ \A i \in 0..(m - 1) : f[i] \in Nat
        /\ f[0] = 0
        /\ \A i \in 1..(m - 1) : f[i] = f[i - 1] + p[i]
    BY <2>1 DEF Totals, Adds
  <2>3. PICK q \in Nat : q = f[m - 1] + p[m]
    BY <2>2
  <2>4. PICK g : g = [i \in 0..m |-> IF i = m THEN q ELSE f[i]]
    OBVIOUS
  <2>5. \A i \in 0..m : g[i] = IF i = m THEN q ELSE f[i]
    BY <2>4
  <2>6. \A i \in 0..m : i # m => i \in 0..(m - 1)
    OBVIOUS
  <2>7. g \in [0..m -> Nat]
    BY <2>2, <2>3, <2>4, <2>6
  <2>8. g[0] = 0
    BY <2>2, <2>5
  <2>9. ASSUME NEW i \in 1..m PROVE g[i] = g[i - 1] + p[i]
    <3>1. i - 1 \in 0..m /\ i - 1 # m /\ i \in 0..m
      OBVIOUS
    <3>2. g[i - 1] = f[i - 1]
      BY <2>5, <3>1
    <3>3. CASE i = m
      BY <2>3, <2>5, <3>1, <3>2, <3>3
    <3>4. CASE i # m
      <4>1. i \in 1..(m - 1) /\ g[i] = f[i]
        BY <2>5, <3>1, <3>4
      <4> QED
        BY <2>2, <3>2, <4>1
    <3> QED
      BY <3>3, <3>4
  <2>10. Totals(g, p, m)
    BY <2>7, <2>8, <2>9 DEF Totals, Adds
  <2> QED
    BY <2>10
<1>3. \A i \in 1..n : i - 1 \in T => i \in T
  BY <1>2
<1>4. n \in T
  <2> HIDE DEF T
  <2> QED
    BY <1>1, <1>3, Inductive
<1> QED
  BY <1>4

(* There is only one.                                                      *)
LEMMA TotalsAgree ==
  ASSUME NEW n \in Nat, NEW p, NEW f, Adds(f, p, n), NEW g, Adds(g, p, n)
  PROVE  f[n] = g[n]
<1>1. PICK T : T = {i \in 0..n : f[i] = g[i]}
  OBVIOUS
<1>2. 0 \in T
  BY <1>1 DEF Adds
<1>3. \A i \in 1..n : i - 1 \in T => i \in T
  <2> SUFFICES ASSUME NEW i \in 1..n, i - 1 \in T PROVE i \in T
    OBVIOUS
  <2>1. f[i - 1] = g[i - 1] /\ i \in 0..n
    BY <1>1
  <2>2. f[i] = f[i - 1] + p[i] /\ g[i] = g[i - 1] + p[i]
    BY DEF Adds
  <2> QED
    BY <1>1, <2>1, <2>2
<1>4. n \in T
  BY <1>2, <1>3, Inductive
<1> QED
  BY <1>1, <1>4

(* SumOf is the last total.                                                *)
LEMMA Summed ==
  ASSUME NEW p, NEW n \in Nat, n = Len(p), \A i \in 1..n : p[i] \in Nat
  PROVE  \E g : Totals(g, p, n) /\ SumOf(p) = g[n]
<1>1. PICK g : Totals(g, p, n)
  BY TotalsExist
<1>2. /\ g \in [0..n -> Nat] /\ g[0] = 0 /\ \A i \in 1..n : g[i] = g[i - 1] + p[i]
  BY <1>1 DEF Totals, Adds
<1> DEFINE F(f) == [i \in 0..n |-> IF i = 0 THEN 0 ELSE f[i - 1] + p[i]]
           h == CHOOSE f : f = F(f)
<1>3. g = F(g)
  <2>1. \A i \in 0..n : i # 0 => i \in 1..n
    OBVIOUS
  <2>2. \A i \in 0..n : g[i] = IF i = 0 THEN 0 ELSE g[i - 1] + p[i]
    BY <1>2, <2>1
  <2> QED
    BY <1>2, <2>2
<1>4. h = F(h)
  BY <1>3, Zenon
<1>5. SumOf(p) = h[n]
  BY Zenon DEF SumOf
<1> HIDE DEF h
<1>6. Adds(h, p, n)
  <2>1. \A i \in 0..n : h[i] = IF i = 0 THEN 0 ELSE h[i - 1] + p[i]
    BY <1>4
  <2>2. \A i \in 1..n : i \in 0..n /\ i # 0
    OBVIOUS
  <2>3. 0 \in 0..n
    OBVIOUS
  <2> QED
    BY <2>1, <2>2, <2>3 DEF Adds
<1>7. Adds(g, p, n)
  BY <1>1 DEF Totals
<1>8. g[n] = h[n]
  BY <1>6, <1>7, TotalsAgree
<1> QED
  BY <1>1, <1>5, <1>8

(* The sum of one element more.                                            *)
OneMore(q, p, n, v) ==
  /\ Len(p) = n /\ \A i \in 1..n : p[i] \in Nat
  /\ Len(q) = n + 1 /\ q[n + 1] = v /\ \A i \in 1..n : q[i] = p[i]

LEMMA SumAppend ==
  ASSUME NEW n \in Nat, NEW p, NEW q, NEW v \in Nat, OneMore(q, p, n, v)
  PROVE  SumOf(q) = SumOf(p) + v
<1>1. /\ n = Len(p) /\ \A i \in 1..n : p[i] \in Nat
      /\ Len(q) = n + 1 /\ q[n + 1] = v /\ \A i \in 1..n : q[i] = p[i]
  BY Zenon DEF OneMore
<1> USE <1>1
<1>2. PICK m \in Nat : m = n + 1
  OBVIOUS
<1>3. \A i \in 1..m : i \in 1..n \/ i = m
  BY <1>2
<1>4. m = Len(q) /\ \A i \in 1..m : q[i] \in Nat
  BY <1>2, <1>3
<1>5. PICK f : Totals(f, p, n) /\ SumOf(p) = f[n]
  BY Summed
<1>6. PICK g : Totals(g, q, m) /\ SumOf(q) = g[m]
  BY <1>4, Summed
<1>7. Adds(f, p, n)
  BY <1>5 DEF Totals
<1>8. Adds(g, p, n) /\ g[m] = g[n] + v
  <2>1. g[0] = 0 /\ \A i \in 1..m : g[i] = g[i - 1] + q[i]
    BY <1>6 DEF Totals, Adds
  <2>2. \A i \in 1..n : i \in 1..m
    BY <1>2
  <2>3. m \in 1..m /\ m - 1 = n
    BY <1>2
  <2>4. g[m] = g[m - 1] + q[m]
    BY <2>1, <2>3
  <2>5. \A i \in 1..n : g[i] = g[i - 1] + p[i]
    BY <2>1, <2>2
  <2> QED
    BY <1>2, <2>1, <2>3, <2>4, <2>5 DEF Adds
<1>9. f[n] = g[n]
  BY <1>7, <1>8, TotalsAgree
<1> QED
  BY <1>5, <1>6, <1>8, <1>9

(* The sum of nothing.                                                     *)
LEMMA SumOfNone == ASSUME NEW p, Len(p) = 0 PROVE SumOf(p) = 0
<1>1. PICK g : Totals(g, p, 0) /\ SumOf(p) = g[0]
  BY Summed
<1> QED
  BY <1>1 DEF Totals, Adds

(* A sum of numbers is one.                                                *)
LEMMA SumIsNat == 
  ASSUME NEW p, NEW n \in Nat, n = Len(p), \A i \in 1..n : p[i] \in Nat
  PROVE  SumOf(p) \in Nat
<1>1. PICK g : Totals(g, p, n) /\ SumOf(p) = g[n]
  BY Summed
<1>2. n \in 0..n
  OBVIOUS
<1> QED
  BY <1>1, <1>2 DEF Totals, Adds

-----------------------------------------------------------------------------
(* Fields as bytes, and bytes as fields.                                   *)

(* The bytes of fields of S: the field, and the place within it.           *)
Octets(S) == [field : S, at : Nat]

(* The bytes of fields: what FieldsIn looks at first.                       *)
Starts(bytes) ==
  [j \in DOMAIN bytes |->
     IF "at" \in DOMAIN bytes[j] /\ bytes[j].at = 1 THEN <<bytes[j].field>> ELSE <<>>]

(* Where fields start in two stretches of bytes in a row.                  *)
LEMMA StartsJoin ==
  ASSUME NEW S, NEW b \in Seq(Octets(S)), NEW c \in Seq(Octets(S))
  PROVE  /\ Starts(b) \in Seq(Seq(S)) /\ Len(Starts(b)) = Len(b)
         /\ Starts(b \o c) = Starts(b) \o Starts(c)
<1>1. \A r \in Octets(S) : "at" \in DOMAIN r /\ r.field \in S
  BY DEF Octets
<1>2. PICK R : R = Octets(S)
  OBVIOUS
<1>3. ASSUME NEW d \in Seq(R), NEW m \in Nat, m = Len(d)
      PROVE  /\ Starts(d) \in Seq(Seq(S)) /\ Len(Starts(d)) = m /\ DOMAIN Starts(d) = 1..m
             /\ \A j \in 1..m : Starts(d)[j] = IF d[j].at = 1 THEN <<d[j].field>> ELSE <<>>
  <2>1. DOMAIN d = 1..m /\ \A j \in 1..m : d[j] \in R
    BY <1>3
  <2>2. \A j \in 1..m : "at" \in DOMAIN d[j] /\ d[j].field \in S
    BY <1>1, <1>2, <2>1
  <2>3. Starts(d) = [j \in 1..m |-> IF "at" \in DOMAIN d[j] /\ d[j].at = 1 THEN <<d[j].field>> ELSE <<>>]
    BY <2>1 DEF Starts
  <2>4. \A j \in 1..m : Starts(d)[j] = IF d[j].at = 1 THEN <<d[j].field>> ELSE <<>>
    BY <2>2, <2>3
  <2>5. \A j \in 1..m : <<d[j].field>> \in Seq(S) /\ <<>> \in Seq(S)
    BY <2>2
  <2>6. \A j \in 1..m : Starts(d)[j] \in Seq(S)
    BY <2>4, <2>5
  <2>7. Starts(d) \in [1..m -> Seq(S)]
    BY <2>3, <2>6
  <2> QED
    BY <2>4, <2>7
<1>4. PICK m \in Nat, n \in Nat : m = Len(b) /\ n = Len(c)
  OBVIOUS
<1>5. b \in Seq(R) /\ c \in Seq(R)
  BY <1>2
<1>6. PICK l \in Nat : l = m + n
  OBVIOUS
<1>7. PICK d : d = b \o c /\ l = m + n
  BY <1>6
<1>8. /\ d \in Seq(R) /\ l = Len(d)
      /\ \A j \in 1..m : d[j] = b[j]
      /\ \A j \in 1..n : d[m + j] = c[j]
  BY <1>4, <1>5, <1>7, Concatenated
<1>9. PICK s, t \in Seq(Seq(S)) : s = Starts(b) /\ t = Starts(c)
  BY <1>3, <1>4, <1>5
<1>10. /\ m = Len(s) /\ n = Len(t)
       /\ \A j \in 1..m : s[j] = IF b[j].at = 1 THEN <<b[j].field>> ELSE <<>>
       /\ \A j \in 1..n : t[j] = IF c[j].at = 1 THEN <<c[j].field>> ELSE <<>>
  BY <1>3, <1>4, <1>5, <1>9
<1>11. PICK u \in Seq(Seq(S)) : u = Starts(d)
  BY <1>3, <1>7, <1>8
<1>12. /\ l = Len(u)
       /\ \A j \in 1..l : u[j] = IF d[j].at = 1 THEN <<d[j].field>> ELSE <<>>
  BY <1>3, <1>7, <1>8, <1>11
<1>13. PICK Q : Q = Seq(S)
  OBVIOUS
<1>14. s \in Seq(Q) /\ t \in Seq(Q) /\ u \in Seq(Q)
  BY <1>9, <1>11, <1>13
<1>15. PICK v : v = s \o t
  OBVIOUS
<1>16. /\ v \in Seq(Q) /\ l = Len(v)
       /\ \A j \in 1..m : v[j] = s[j]
       /\ \A j \in 1..n : v[m + j] = t[j]
  BY <1>7, <1>10, <1>14, <1>15, Concatenated
<1>17. u = v
  <2>1. ASSUME NEW j \in 1..l PROVE u[j] = v[j]
    <3>1. CASE j <= m
      <4>1. j \in 1..m
        BY <3>1
      <4>2. d[j] = b[j] /\ v[j] = s[j]
        BY <1>8, <1>16, <4>1, Zenon
      <4>3. s[j] = IF b[j].at = 1 THEN <<b[j].field>> ELSE <<>>
        BY <1>10, <4>1, Zenon
      <4>4. u[j] = IF d[j].at = 1 THEN <<d[j].field>> ELSE <<>>
        BY <1>12, Zenon
      <4> QED
        BY <4>2, <4>3, <4>4, Zenon
    <3>2. CASE ~(j <= m)
      <4>1. PICK k \in 1..n : j = m + k
        <5>1. j - m \in 1..n /\ j = m + (j - m)
          BY <1>7, <3>2
        <5> QED
          BY <5>1
      <4>2. d[j] = c[k] /\ v[j] = t[k]
        BY <1>8, <1>16, <4>1, Zenon
      <4>3. t[k] = IF c[k].at = 1 THEN <<c[k].field>> ELSE <<>>
        BY <1>10, Zenon
      <4>4. u[j] = IF d[j].at = 1 THEN <<d[j].field>> ELSE <<>>
        BY <1>12, Zenon
      <4> QED
        BY <4>2, <4>3, <4>4, Zenon
    <3> QED
      BY <3>1, <3>2
  <2> QED
    BY <1>12, <1>14, <1>16, <2>1, SameSeq
<1> QED
  BY <1>4, <1>7, <1>9, <1>10, <1>11, <1>15, <1>17

(* The bytes of one field.                                                 *)
Block(field) == [j \in 1..Size(field) |-> [field |-> field, at |-> j]]

(* One field starts once in its bytes, however many they are.              *)
LEMMA BlockStarts ==
  ASSUME NEW S, NEW field \in S, Size(field) \in Nat \ {0}
  PROVE  /\ Block(field) \in Seq(Octets(S))
         /\ Len(Block(field)) = Size(field)
         /\ FlattenSeq(Starts(Block(field))) = <<field>>
<1>1. PICK m \in Nat \ {0} : m = Size(field)
  OBVIOUS
<1>2. PICK b : b = Block(field)
  OBVIOUS
<1>3. b = [j \in 1..m |-> [field |-> field, at |-> j]]
  BY <1>1, <1>2 DEF Block
<1>4. \A j \in 1..m : /\ b[j] = [field |-> field, at |-> j] /\ b[j] \in Octets(S)
                      /\ "at" \in DOMAIN b[j] /\ b[j].at = j /\ b[j].field = field
  BY <1>3 DEF Octets
<1>5. b \in Seq(Octets(S)) /\ Len(b) = m
  BY <1>3, <1>4
<1>6. PICK p : p = Starts(b)
  OBVIOUS
<1>7. p = [j \in 1..m |-> IF j = 1 THEN <<field>> ELSE <<>>]
  <2>1. DOMAIN b = 1..m
    BY <1>3
  <2>2. \A j \in 1..m : "at" \in DOMAIN b[j] /\ b[j].at = j /\ b[j].field = field
    BY <1>4
  <2> QED
    BY <1>6, <2>1, <2>2 DEF Starts
<1>8. p \in Seq(Seq(S)) /\ m = Len(p)
  <2>1. \A j \in 1..m : p[j] \in Seq(S)
    BY <1>7
  <2> QED
    BY <1>7, <2>1
<1>9. 1 \in 1..m /\ p[1] = <<field>> /\ \A k \in 1..m : k # 1 => p[k] = <<>>
  BY <1>7
<1>10. FlattenSeq(p) = p[1]
  BY <1>8, <1>9, Sole
<1> QED
  BY <1>1, <1>2, <1>5, <1>6, <1>9, <1>10

(* Bytes() and what is found in them again.                                *)
LEMMA BytesAndBack ==
  ASSUME NEW S, \A field \in S : Size(field) \in Nat \ {0}, NEW fs \in Seq(S)
  PROVE  /\ Bytes(fs) \in Seq(Octets(S))
         /\ Len(Bytes(fs)) = TotalSize(fs)
         /\ FlattenSeq(Starts(Bytes(fs))) = fs
<1>1. PICK n \in Nat : n = Len(fs)
  OBVIOUS
<1>2. DOMAIN fs = 1..n /\ \A i \in 1..n : fs[i] \in S
  BY <1>1
<1>3. PICK R : R = Octets(S)
  OBVIOUS
<1>4. PICK blocks : blocks = [i \in 1..n |-> Block(fs[i])]
  OBVIOUS
<1>5. \A i \in 1..n : /\ blocks[i] = Block(fs[i]) /\ blocks[i] \in Seq(R)
                      /\ Len(blocks[i]) = Size(fs[i])
                      /\ FlattenSeq(Starts(blocks[i])) = <<fs[i]>>
  <2> SUFFICES ASSUME NEW i \in 1..n
               PROVE  /\ blocks[i] = Block(fs[i]) /\ blocks[i] \in Seq(R)
                      /\ Len(blocks[i]) = Size(fs[i])
                      /\ FlattenSeq(Starts(blocks[i])) = <<fs[i]>>
    OBVIOUS
  <2>1. blocks[i] = Block(fs[i]) /\ fs[i] \in S
    BY <1>2, <1>4
  <2>2. PICK x \in S : x = fs[i] /\ Size(x) \in Nat \ {0}
    BY <2>1
  <2>3. /\ Block(x) \in Seq(Octets(S))
        /\ Len(Block(x)) = Size(x)
        /\ FlattenSeq(Starts(Block(x))) = <<x>>
    BY <2>2, BlockStarts
  <2> QED
    BY <1>3, <2>1, <2>2, <2>3
<1>6. PICK b \in Seq(Seq(R)) : b = blocks /\ n = Len(b)
  BY <1>4, <1>5
<1>7. PICK f : Joins(f, b, n, R) /\ FlattenSeq(b) = f[n]
  BY <1>6, Flattened
<1>8. PICK sizes : sizes = [i \in 1..n |-> Size(fs[i])]
  OBVIOUS
<1>9. n = Len(sizes) /\ \A i \in 1..n : sizes[i] \in Nat /\ sizes[i] = Size(fs[i])
  BY <1>2, <1>8
<1>10. PICK g : Totals(g, sizes, n) /\ SumOf(sizes) = g[n]
  BY <1>9, Summed
<1>11. Bytes(fs) = f[n] /\ TotalSize(fs) = g[n]
  BY <1>2, <1>4, <1>6, <1>7, <1>8, <1>10 DEF Bytes, TotalSize, Block
<1> DEFINE Done(i) == /\ Len(f[i]) = g[i]
                      /\ FlattenSeq(Starts(f[i])) = SubSeq(fs, 1, i)
           T == {i \in 0..n : Done(i)}
<1>12. 0 \in T
  <2>1. f[0] = <<>> /\ g[0] = 0
    BY <1>7, <1>10 DEF Joins, Totals, Adds
  <2>2. Starts(<<>>) = [k \in 1..0 |-> <<>>]
    BY DEF Starts
  <2>3. FlattenSeq(Starts(<<>>)) = <<>>
    BY <2>2, Vacant
  <2>4. SubSeq(fs, 1, 0) = <<>> /\ Len(<<>>) = 0
    BY <1>1
  <2>5. Done(0)
    BY <2>1, <2>3, <2>4
  <2> HIDE DEF Done
  <2> QED
    BY <2>5
<1>13. ASSUME NEW i \in 1..n, i - 1 \in T PROVE i \in T
  <2>1. i - 1 \in 0..n /\ i \in 0..n
    OBVIOUS
  <2>2. PICK s \in Seq(R), t \in Seq(R) : s = f[i - 1] /\ t = b[i]
    BY <1>5, <1>6, <1>7, <2>1 DEF Joins
  <2>3. f[i] = s \o t
    BY <1>7, <2>2 DEF Joins
  <2>4. g[i] = g[i - 1] + Size(fs[i])
    BY <1>9, <1>10 DEF Totals, Adds
  <2>5. Len(s) = g[i - 1] /\ FlattenSeq(Starts(s)) = SubSeq(fs, 1, i - 1)
    BY <1>13, <2>2
  <2>6. Len(t) = Size(fs[i]) /\ FlattenSeq(Starts(t)) = <<fs[i]>>
    BY <1>5, <1>6, <2>2
  <2>7. Len(s \o t) = g[i]
    <3>1. PICK m \in Nat, l \in Nat : m = Len(s) /\ l = Len(t)
      OBVIOUS
    <3>2. Len(s \o t) = m + l
      BY <3>1, Concatenated
    <3> QED
      BY <2>4, <2>5, <2>6, <3>1, <3>2
  <2>8. PICK p, q : p = Starts(s) /\ q = Starts(t)
    OBVIOUS
  <2>9. p \in Seq(Seq(S)) /\ q \in Seq(Seq(S)) /\ Starts(s \o t) = p \o q
    BY <1>3, <2>8, StartsJoin
  <2>10. FlattenSeq(p \o q) = FlattenSeq(p) \o FlattenSeq(q)
    BY <2>9, FlattenConcat
  <2>11. SubSeq(fs, 1, i - 1) \o <<fs[i]>> = SubSeq(fs, 1, i)
    BY <1>1, <1>2
  <2>12. FlattenSeq(Starts(s \o t)) = SubSeq(fs, 1, i)
    BY <2>5, <2>6, <2>8, <2>10, <2>11, <2>9
  <2>13. Done(i)
    BY <2>3, <2>7, <2>12
  <2> HIDE DEF Done
  <2> QED
    BY <2>1, <2>13
<1>14. n \in T
  <2>1. \A i \in 1..n : i - 1 \in T => i \in T
    BY <1>13
  <2> HIDE DEF T
  <2> QED
    BY <1>12, <2>1, Inductive
<1>15. f[n] \in Seq(R)
  BY <1>7 DEF Joins
<1>16. SubSeq(fs, 1, n) = fs
  BY <1>1
<1> QED
  BY <1>3, <1>11, <1>14, <1>15, <1>16

(* protobuf's wire format: what is read from serialised fields is the      *)
(* fields, in their order, whatever their sizes.                           *)
THEOREM FieldsRead ==
  ASSUME NEW S, \A field \in S : Size(field) \in Nat \ {0}, NEW fs \in Seq(S)
  PROVE  FieldsIn(Bytes(fs)) = fs
<1>1. PICK n \in Nat : n = Len(fs)
  OBVIOUS
<1>2. PICK bytes : bytes = Bytes(fs)
  OBVIOUS
<1>3. bytes \in Seq(Octets(S)) /\ Len(bytes) \in Nat
  <2>1. bytes \in Seq(Octets(S))
    BY <1>2, BytesAndBack
  <2> QED
    BY <2>1
<1>4. FlattenSeq(Starts(bytes)) = fs
  BY <1>2, BytesAndBack
<1> DEFINE W == {k \in 0..n : IsPrefix(Bytes(SubSeq(fs, 1, k)), bytes)}
<1>5. SubSeq(fs, 1, n) = fs
  BY <1>1
<1>6. IsPrefix(bytes, bytes)
  BY <1>3 DEF IsPrefix
<1>7. n \in W /\ \A k \in W : n >= k
  <2>1. IsPrefix(Bytes(SubSeq(fs, 1, n)), bytes)
    BY <1>2, <1>5, <1>6
  <2>2. n \in 0..n
    OBVIOUS
  <2> QED
    BY <2>1, <2>2
<1>8. W \subseteq Nat
  OBVIOUS
<1> HIDE DEF W
<1>9. Max(W) = n
  <2>1. \A k \in W : (\A l \in W : k >= l) => k = n
    BY <1>7, <1>8
  <2> QED
    BY <1>7, <2>1, Zenon DEF Max
<1>10. FieldsIn(bytes) = IF Bytes(SubSeq(fs, 1, Max(W))) = bytes THEN fs
                         ELSE Append(SubSeq(fs, 1, Max(W)), Cut)
  BY <1>1, <1>4, Zenon DEF FieldsIn, Starts, W
<1> QED
  BY <1>2, <1>5, <1>9, <1>10

-----------------------------------------------------------------------------
(* The framing of a reply.                                                 *)

(* A number is its four digits to the base 256.                            *)
LEMMA Digits ==
  ASSUME NEW v \in Nat, v <= Widest
  PROVE  \E a \in Nat, b \in Nat, c \in Nat, r \in Nat :
           /\ v % 256 = a /\ (v \div 256) % 256 = b
           /\ (v \div 65536) % 256 = c /\ (v \div 16777216) % 256 = r
           /\ v = a + 256 * b + 65536 * c + 16777216 * r
<1>1. v \in Nat /\ v < 2147483648
  BY SMT DEF Widest
<1>2. PICK x \in Nat : x = v
  BY <1>1, SMT
<1>3. /\ x % 256 \in Nat /\ x % 256 < 256 /\ x \div 256 \in Nat
      /\ x = 256 * (x \div 256) + (x % 256)
  BY SMT
<1>4. PICK a \in Nat, p \in Nat : a = x % 256 /\ p = x \div 256
  BY <1>3, SMT
<1>5. /\ p % 256 \in Nat /\ p % 256 < 256 /\ p \div 256 \in Nat
      /\ p = 256 * (p \div 256) + (p % 256)
  BY SMT
<1>6. PICK b \in Nat, q \in Nat : b = p % 256 /\ q = p \div 256
  BY <1>5, SMT
<1>7. /\ q % 256 \in Nat /\ q % 256 < 256 /\ q \div 256 \in Nat
      /\ q = 256 * (q \div 256) + (q % 256)
  BY SMT
<1>8. PICK c \in Nat, r \in Nat : c = q % 256 /\ r = q \div 256
  BY <1>7, SMT
<1>9. /\ x = 256 * p + a /\ a < 256 /\ p = 256 * q + b /\ b < 256
      /\ q = 256 * r + c /\ c < 256
  BY <1>3, <1>4, <1>5, <1>6, <1>7, <1>8, SMT
<1>10. x = a + 256 * b + 65536 * c + 16777216 * r
  BY <1>9, SMT
<1>11. r < 256
  <2>1. x < 2147483648
    BY <1>1, <1>2, SMT
  <2>2. 16777216 * r < 2147483648
    BY <1>10, <2>1, SMT
  <2> QED
    BY <2>2, SMT
<1>12. x = 65536 * q + (256 * b + a) /\ 256 * b + a < 65536
  BY <1>9, SMT
<1>13. x \div 65536 = q
  BY <1>12, SMT
<1>14. x = 16777216 * r + (65536 * c + 256 * b + a) /\ 65536 * c + 256 * b + a < 16777216
  BY <1>9, SMT
<1>15. x \div 16777216 = r
  BY <1>14, SMT
<1>16. r % 256 = r
  BY <1>11, SMT
<1>17. /\ x % 256 = a /\ (x \div 256) % 256 = b
       /\ (x \div 65536) % 256 = c /\ (x \div 16777216) % 256 = r
  BY <1>4, <1>6, <1>8, <1>13, <1>15, <1>16, SMT
<1> QED
  BY <1>2, <1>10, <1>17, SMT

(* query_wire.cpp: get_u32_le reads what put_u32_le wrote.                 *)
LEMMA NumberFramed ==
  ASSUME NEW v \in Nat, v <= Widest,
         NEW bytes, NEW at \in Nat, \A j \in 1..4 : bytes[at + j] = u32_le(v)[j]
  PROVE  get_u32_le(bytes, at) = v
<1>1. PICK a \in Nat, b \in Nat, c \in Nat, r \in Nat :
           /\ v % 256 = a /\ (v \div 256) % 256 = b
           /\ (v \div 65536) % 256 = c /\ (v \div 16777216) % 256 = r
           /\ v = a + 256 * b + 65536 * c + 16777216 * r
  BY Digits, SMT
<1>2. u32_le(v) = <<[u8 |-> a], [u8 |-> b], [u8 |-> c], [u8 |-> r]>>
  BY <1>1, SMT DEF u32_le
<1>3. /\ bytes[at + 1] = [u8 |-> a] /\ bytes[at + 2] = [u8 |-> b]
      /\ bytes[at + 3] = [u8 |-> c] /\ bytes[at + 4] = [u8 |-> r]
  BY <1>2
<1>4. /\ U8(bytes[at + 1]) = a /\ U8(bytes[at + 2]) = b
      /\ U8(bytes[at + 3]) = c /\ U8(bytes[at + 4]) = r
  BY <1>3 DEF U8
<1> QED
  BY <1>1, <1>4, SMT DEF get_u32_le

(* A number takes four bytes.                                              *)
LEMMA NumberBytes ==
  ASSUME NEW v \in Nat, v <= Widest
  PROVE  u32_le(v) \in Seq([u8 : Nat]) /\ Len(u32_le(v)) = 4
<1>1. PICK a \in Nat, b \in Nat, c \in Nat, r \in Nat :
           /\ v % 256 = a /\ (v \div 256) % 256 = b
           /\ (v \div 65536) % 256 = c /\ (v \div 16777216) % 256 = r
           /\ v = a + 256 * b + 65536 * c + 16777216 * r
  BY Digits, SMT
<1>2. u32_le(v) = <<[u8 |-> a], [u8 |-> b], [u8 |-> c], [u8 |-> r]>>
  BY <1>1, SMT DEF u32_le
<1> QED
  BY <1>2

(* A joined prefix remains.                                                *)
LEMMA PrefixStays ==
  ASSUME NEW S, NEW p \in Seq(Seq(S)), NEW n \in Nat, n = Len(p), NEW f, Joins(f, p, n, S),
         NEW i \in 0..n
  PROVE  Len(f[i]) <= Len(f[n]) /\ \A k \in 1..Len(f[i]) : f[n][k] = f[i][k]
<1>1. /\ \A j \in 0..n : f[j] \in Seq(S)
      /\ \A j \in 1..n : f[j] = f[j - 1] \o p[j]
  BY DEF Joins
<1>2. \A j \in 1..n : p[j] \in Seq(S)
  OBVIOUS
<1>3. /\ \A j \in 0..n : f[j] \in Seq(S)
      /\ \A j \in 1..n : p[j] \in Seq(S) /\ f[j] = f[j - 1] \o p[j]
  BY <1>1, <1>2
<1>4. PICK s \in Seq(S), l \in Nat : s = f[i] /\ l = Len(s)
  BY <1>3
<1> DEFINE Holds(t) == l <= Len(t) /\ \A k \in 1..l : t[k] = s[k]
           T == {m \in 0..n : i <= m => Holds(f[m])}
<1>5. 0 \in T
  <2>1. i <= 0 => i = 0
    OBVIOUS
  <2>2. Holds(s)
    BY <1>4
  <2> HIDE DEF Holds
  <2> QED
    BY <1>4, <2>1, <2>2
<1>6. ASSUME NEW m \in 1..n, m - 1 \in T PROVE m \in T
  <2>1. CASE i = m
    <3>1. Holds(s)
      BY <1>4
    <3> HIDE DEF Holds
    <3> QED
      BY <1>4, <2>1, <3>1
  <2>2. CASE i # m
    <3> SUFFICES ASSUME i <= m PROVE Holds(f[m])
      OBVIOUS
    <3>1. m - 1 \in 0..n /\ i <= m - 1
      BY <2>2
    <3>2. PICK u \in Seq(S), t \in Seq(S) : u = f[m - 1] /\ t = p[m] /\ f[m] = u \o t
      BY <1>3, <3>1
    <3>3. Holds(u)
      <4> HIDE DEF Holds
      <4> QED
        BY <1>6, <3>1, <3>2
    <3>4. PICK x \in Nat, y \in Nat : x = Len(u) /\ y = Len(t)
      OBVIOUS
    <3>5. PICK w : w = u \o t
      OBVIOUS
    <3>6. w \in Seq(S) /\ Len(w) = x + y /\ \A k \in 1..x : w[k] = u[k]
      BY <3>4, <3>5, Concatenated
    <3>7. l <= x /\ \A k \in 1..l : k \in 1..x /\ u[k] = s[k]
      BY <3>3, <3>4
    <3>8. Holds(w)
      BY <3>4, <3>6, <3>7
    <3> HIDE DEF Holds
    <3> QED
      BY <3>2, <3>5, <3>8
  <2> QED
    BY <2>1, <2>2
<1>7. n \in T
  <2>1. \A m \in 1..n : m - 1 \in T => m \in T
    BY <1>6
  <2> HIDE DEF T
  <2> QED
    BY <1>5, <2>1, Inductive
<1>8. Holds(f[n])
  <2> HIDE DEF Holds
  <2> QED
    BY <1>7
<1> QED
  BY <1>4, <1>8

(* The bytes hold n parts, each behind its length: pos[i] is where part i   *)
(* ends.                                                                   *)
Framing(bytes, pos, body, n, O) ==
  /\ bytes \in Seq(O)
  /\ pos \in [0..n -> Nat] /\ pos[0] = 4 /\ pos[n] = Len(bytes)
  /\ \A j \in 1..4 : bytes[j] = u32_le(n)[j]
  /\ \A i \in 0..n : pos[i] <= Len(bytes)
  /\ \A i \in 1..n : /\ pos[i] = pos[i - 1] + 4 + Len(body[i])
                     /\ \A j \in 1..4 : bytes[pos[i - 1] + j] = u32_le(Len(body[i]))[j]
                     /\ SubSeq(bytes, pos[i - 1] + 5, pos[i]) = body[i]

(* A part of a reply is a body behind its length.                          *)
IsPart(part, b) ==
  /\ Len(part) = 4 + Len(b)
  /\ \A j \in 1..4 : part[j] = u32_le(Len(b))[j]
  /\ \A j \in 1..Len(b) : part[4 + j] = b[j]

(* Bytes of a number are among the bytes.                                  *)
HasNumbers(O) == [u8 : Nat] \subseteq O

(* Numbers are written into the bytes of a reply.                          *)
LEMMA NumberIn ==
  ASSUME NEW O, HasNumbers(O), NEW v \in Nat, v <= Widest
  PROVE  u32_le(v) \in Seq(O) /\ Len(u32_le(v)) = 4
<1>1. u32_le(v) \in Seq([u8 : Nat]) /\ Len(u32_le(v)) = 4
  BY NumberBytes
<1>2. PICK P : P = [u8 : Nat] /\ P \subseteq O
  BY DEF HasNumbers
<1>3. PICK u : u = u32_le(v)
  OBVIOUS
<1>4. u \in Seq(P)
  BY <1>1, <1>2, <1>3
<1>5. u \in Seq(O)
  BY <1>2, <1>4, SeqMonotonic
<1> QED
  BY <1>1, <1>3, <1>5

(* encode_scans writes such parts.                                         *)
LEMMA PartMade ==
  ASSUME NEW O, HasNumbers(O), NEW b \in Seq(O), Len(b) <= Widest
  PROVE  u32_le(Len(b)) \o b \in Seq(O) /\ IsPart(u32_le(Len(b)) \o b, b)
<1>1. PICK l \in Nat : l = Len(b) /\ l <= Widest
  OBVIOUS
<1>2. PICK k \in Nat : k = 4
  OBVIOUS
<1>3. PICK u \in Seq(O) : u = u32_le(l) /\ k = Len(u)
  BY <1>1, <1>2, NumberIn
<1>4. PICK w : w = u \o b
  OBVIOUS
<1>5. /\ w \in Seq(O) /\ Len(w) = k + l
      /\ \A j \in 1..k : w[j] = u[j]
      /\ \A j \in 1..l : w[k + j] = b[j]
  <2>1. /\ u \o b \in Seq(O) /\ Len(u \o b) = k + l
        /\ \A j \in 1..k : (u \o b)[j] = u[j]
        /\ \A j \in 1..l : (u \o b)[k + j] = b[j]
    BY <1>1, <1>3, Concatenated
  <2> QED
    BY <1>4, <2>1, Zenon
<1>6. IsPart(w, b)
  <2>1. Len(w) = 4 + Len(b)
    BY <1>1, <1>2, <1>5, Zenon
  <2>2. \A j \in 1..4 : w[j] = u32_le(Len(b))[j]
    BY <1>1, <1>2, <1>3, <1>5, Zenon
  <2>3. \A j \in 1..Len(b) : w[4 + j] = b[j]
    BY <1>1, <1>2, <1>5, Zenon
  <2> QED
    BY <2>1, <2>2, <2>3, Zenon DEF IsPart
<1> QED
  BY <1>1, <1>3, <1>4, <1>5, <1>6, Zenon

(* A stretch of bytes.                                                     *)
LEMMA Stretch ==
  ASSUME NEW O, NEW bytes \in Seq(O), NEW x \in Nat, NEW b \in Seq(O), NEW l \in Nat, l = Len(b),
         x + l <= Len(bytes), \A j \in 1..l : bytes[x + j] = b[j]
  PROVE  SubSeq(bytes, x + 1, x + l) = b
<1>1. PICK n \in Nat : n = Len(bytes) /\ x + l <= n
  OBVIOUS
<1>2. \A i \in (x + 1)..(x + l) : bytes[i] \in O
  BY <1>1
<1>3. PICK s : s = SubSeq(bytes, x + 1, x + l)
  OBVIOUS
<1>4. PICK a \in Int, c \in Int : a = x + 1 /\ c = x + l
  OBVIOUS
<1>5. /\ SubSeq(bytes, a, c) \in Seq(O)
      /\ Len(SubSeq(bytes, a, c)) = IF a <= c THEN c - a + 1 ELSE 0
      /\ \A i \in 1..(c - a + 1) : SubSeq(bytes, a, c)[i] = bytes[a + i - 1]
  <2>1. \A i \in a..c : bytes[i] \in O
    BY <1>2, <1>4
  <2> QED
    BY <2>1, SubSeqProperties
<1>6. (IF a <= c THEN c - a + 1 ELSE 0) = l /\ c - a + 1 = l
  BY <1>4
<1>7. s \in Seq(O) /\ l = Len(s)
  BY <1>3, <1>4, <1>5, <1>6
<1>8. ASSUME NEW j \in 1..l PROVE s[j] = b[j]
  <2>1. a + j - 1 = x + j
    BY <1>4
  <2>2. s[j] = bytes[a + j - 1]
    BY <1>3, <1>4, <1>5, <1>6
  <2> QED
    BY <2>1, <2>2
<1>9. s = b
  BY <1>7, <1>8, SameSeq
<1> QED
  BY <1>3, <1>9

(* Where the parts of a joined sequence are.                               *)
Placed(f, q, n, i) ==
  /\ Len(f[i]) = Len(f[i - 1]) + Len(q[i])
  /\ Len(f[i]) <= Len(f[n])
  /\ \A j \in 1..Len(q[i]) : f[n][Len(f[i - 1]) + j] = q[i][j]

(* Each part is in the whole, right behind the one before.                 *)
LEMMA PartPlaced ==
  ASSUME NEW O, NEW q \in Seq(Seq(O)), NEW n \in Nat, n = Len(q), NEW f, Joins(f, q, n, O),
         NEW i \in 1..n
  PROVE  Placed(f, q, n, i)
<1>1. i \in 0..n /\ i - 1 \in 0..n
  OBVIOUS
<1>2. f[i - 1] \in Seq(O) /\ f[i] = f[i - 1] \o q[i]
  BY <1>1 DEF Joins
<1>3. PICK a : a = f[i - 1]
  OBVIOUS
<1>4. PICK p : p = q[i]
  OBVIOUS
<1>5. a \in Seq(O) /\ p \in Seq(O)
  BY <1>2, <1>3, <1>4
<1>6. PICK x \in Nat, y \in Nat : x = Len(a) /\ y = Len(p)
  BY <1>5
<1>7. PICK w : w = a \o p
  OBVIOUS
<1>8. Len(w) = x + y /\ \A j \in 1..y : w[x + j] = p[j]
  BY <1>5, <1>6, <1>7, Concatenated
<1>9. Len(f[i]) <= Len(f[n]) /\ \A k \in 1..Len(f[i]) : f[n][k] = f[i][k]
  BY <1>1, PrefixStays
<1>10. w = f[i]
  BY <1>2, <1>3, <1>4, <1>7
<1>11. \A j \in 1..y : x + j \in 1..(x + y)
  OBVIOUS
<1>12. \A j \in 1..y : f[n][x + j] = p[j]
  BY <1>8, <1>9, <1>10, <1>11
<1> QED
  BY <1>3, <1>4, <1>6, <1>8, <1>9, <1>10, <1>12 DEF Placed

(* What encode_scans writes is framed.                                     *)
LEMMA Framed ==
  ASSUME NEW O, HasNumbers(O), NEW n \in Nat, n <= Widest,
         NEW body, NEW q \in Seq(Seq(O)), n = Len(q),
         \A i \in 1..n : body[i] \in Seq(O) /\ IsPart(q[i], body[i])
  PROVE  \E pos : Framing(u32_le(n) \o FlattenSeq(q), pos, body, n, O)
<1>1. PICK f : Joins(f, q, n, O) /\ FlattenSeq(q) = f[n]
  BY Flattened
<1>2. /\ \A i \in 0..n : f[i] \in Seq(O)
      /\ f[0] = <<>>
  BY <1>1 DEF Joins
<1>3. PICK t \in Seq(O), m \in Nat : t = f[n] /\ m = Len(t)
  <2>1. n \in 0..n
    OBVIOUS
  <2>2. f[n] \in Seq(O)
    BY <1>2, <2>1
  <2> QED
    BY <2>2
<1>4. PICK e \in Nat : e = 4
  OBVIOUS
<1>5. PICK head \in Seq(O) : head = u32_le(n) /\ e = Len(head)
  BY <1>4, NumberIn
<1>6. PICK bytes : bytes = head \o t
  OBVIOUS
<1>7. /\ bytes \in Seq(O) /\ Len(bytes) = e + m
      /\ \A j \in 1..e : bytes[j] = head[j]
      /\ \A j \in 1..m : bytes[e + j] = t[j]
  <2>1. m = Len(t) /\ e = Len(head)
    BY <1>3, <1>5
  <2>2. /\ head \o t \in Seq(O) /\ Len(head \o t) = e + m
        /\ \A j \in 1..e : (head \o t)[j] = head[j]
        /\ \A j \in 1..m : (head \o t)[e + j] = t[j]
    BY <2>1, Concatenated
  <2> QED
    BY <1>6, <2>2, Zenon
<1>8. /\ bytes \in Seq(O) /\ Len(bytes) = 4 + m
      /\ \A j \in 1..4 : bytes[j] = head[j]
      /\ \A j \in 1..m : bytes[4 + j] = t[j]
  BY <1>4, <1>7, Zenon
<1>9. PICK pos : pos = [i \in 0..n |-> 4 + Len(f[i])]
  OBVIOUS
<1>10. \A i \in 0..n : pos[i] = 4 + Len(f[i]) /\ pos[i] \in Nat
  <2>1. \A i \in 0..n : Len(f[i]) \in Nat
    BY <1>2
  <2> QED
    BY <1>9, <2>1
<1>11. /\ pos \in [0..n -> Nat] /\ pos[0] = 4 /\ pos[n] = Len(bytes)
  <2>1. 0 \in 0..n /\ n \in 0..n /\ Len(<<>>) = 0
    OBVIOUS
  <2>2. pos[0] = 4
    BY <1>2, <1>10, <2>1
  <2>3. pos[n] = Len(bytes)
    BY <1>3, <1>8, <1>10, <2>1
  <2> QED
    BY <1>9, <1>10, <2>2, <2>3
<1>12. \A i \in 0..n : pos[i] <= Len(bytes)
  <2> SUFFICES ASSUME NEW i \in 0..n PROVE pos[i] <= Len(bytes)
    OBVIOUS
  <2>1. PICK k \in Nat : k = Len(f[i])
    BY <1>2
  <2>2. pos[i] = 4 + k
    BY <1>10, <2>1
  <2>3. k <= m
    BY <1>1, <1>3, <2>1, PrefixStays
  <2> QED
    BY <1>8, <2>2, <2>3
<1>13. ASSUME NEW i \in 1..n
       PROVE  /\ pos[i] = pos[i - 1] + 4 + Len(body[i])
              /\ \A j \in 1..4 : bytes[pos[i - 1] + j] = u32_le(Len(body[i]))[j]
              /\ SubSeq(bytes, pos[i - 1] + 5, pos[i]) = body[i]
  <2>1. i \in 0..n /\ i - 1 \in 0..n
    OBVIOUS
  <2>2. PICK b : b = body[i]
    OBVIOUS
  <2>3. PICK p : p = q[i]
    OBVIOUS
  <2>4. b \in Seq(O) /\ IsPart(p, b)
    BY <2>2, <2>3
  <2>5. PICK l \in Nat : l = Len(b)
    BY <2>4
  <2>6. PICK a \in Seq(O) : a = f[i - 1]
    BY <1>2, <2>1
  <2>7. PICK x \in Nat : x = Len(f[i - 1])
    BY <2>6
  <2>8. PICK y \in Nat : y = 4 + l
    OBVIOUS
  <2>9. /\ Len(p) = y
        /\ \A j \in 1..4 : p[j] = u32_le(l)[j]
        /\ \A j \in 1..l : p[4 + j] = b[j]
    BY <2>4, <2>5, <2>8 DEF IsPart
  <2>10. Placed(f, q, n, i)
    BY <1>1, PartPlaced, Zenon
  <2>11. /\ Len(f[i]) = Len(f[i - 1]) + Len(q[i])
         /\ Len(f[i]) <= Len(f[n])
         /\ \A j \in 1..Len(q[i]) : f[n][Len(f[i - 1]) + j] = q[i][j]
    BY <2>10 DEF Placed
  <2>12. /\ Len(f[i]) = x + y /\ x + y <= m
         /\ \A j \in 1..y : t[x + j] = p[j]
    BY <1>3, <2>3, <2>7, <2>9, <2>11
  <2>13. pos[i - 1] = 4 + x /\ pos[i] = 4 + (x + y)
    BY <1>10, <2>1, <2>7, <2>12
  <2>14. ASSUME NEW j \in 1..y PROVE bytes[4 + x + j] = p[j]
    <3>1. x + y <= m
      BY <2>12
    <3>2. x + j \in 1..m /\ 4 + x + j = 4 + (x + j)
      BY <3>1
    <3>3. bytes[4 + (x + j)] = t[x + j] /\ t[x + j] = p[j]
      BY <1>8, <2>12, <3>2
    <3> QED
      BY <3>2, <3>3
  <2>15. \A j \in 1..4 : bytes[4 + x + j] = u32_le(l)[j]
    <3>1. \A j \in 1..4 : j \in 1..y
      BY <2>8
    <3> QED
      BY <2>9, <2>14, <3>1
  <2>16. PICK z \in Nat : z = 8 + x
    OBVIOUS
  <2>17. \A j \in 1..l : bytes[z + j] = b[j]
    <3> SUFFICES ASSUME NEW j \in 1..l PROVE bytes[z + j] = b[j]
      OBVIOUS
    <3>1. 4 + j \in 1..y /\ z + j = 4 + x + (4 + j)
      BY <2>8, <2>16
    <3> QED
      BY <2>9, <2>14, <3>1
  <2>18. z + l <= Len(bytes)
    BY <1>8, <2>8, <2>12, <2>16
  <2>19. SubSeq(bytes, z + 1, z + l) = b
    BY <1>8, <2>4, <2>5, <2>17, <2>18, Stretch
  <2>20. z + 1 = pos[i - 1] + 5 /\ z + l = pos[i] /\ pos[i] = pos[i - 1] + 4 + l
    BY <2>8, <2>13, <2>16
  <2> QED
    BY <2>2, <2>5, <2>13, <2>15, <2>19, <2>20
<1>14. \A j \in 1..4 : bytes[j] = u32_le(n)[j]
  BY <1>5, <1>8
<1>15. Framing(bytes, pos, body, n, O)
  BY <1>8, <1>11, <1>12, <1>13, <1>14, Zenon DEF Framing
<1>16. bytes = u32_le(n) \o FlattenSeq(q)
  BY <1>1, <1>3, <1>5, <1>6
<1> QED
  BY <1>15, <1>16

-----------------------------------------------------------------------------
(* The loop of decode_scans.                                               *)

(* The loop of decode_scans: d[i] is what it has after i rounds.            *)
Opening == [ok |-> TRUE, pos |-> 4, wire |-> LidarScanNew, scans |-> <<>>]

Further(bytes, d) == IF d.ok THEN decode_next(bytes, d) ELSE d

Rounds(d, bytes, n) == d[0] = Opening /\ \A i \in 1..n : d[i] = Further(bytes, d[i - 1])

(* The loop is run to its end, and in one way only.                        *)
LEMMA RoundsExist ==
  ASSUME NEW n \in Nat, NEW bytes
  PROVE  \E d : Rounds(d, bytes, n)
<1> DEFINE T == {m \in 0..n : \E d : Rounds(d, bytes, m)}
<1>1. 0 \in T
  <2>1. Rounds([i \in 0..0 |-> Opening], bytes, 0)
    BY DEF Rounds
  <2> QED
    BY <2>1
<1>2. ASSUME NEW m \in 1..n, m - 1 \in T PROVE m \in T
  <2>1. PICK f : Rounds(f, bytes, m - 1)
    BY <1>2
  <2>2. PICK q : q = Further(bytes, f[m - 1])
    OBVIOUS
  <2>3. PICK d : d = [i \in 0..m |-> IF i = m THEN q ELSE f[i]]
    OBVIOUS
  <2>4. \A i \in 0..m : d[i] = IF i = m THEN q ELSE f[i]
    BY <2>3
  <2>5. d[0] = Opening
    BY <2>1, <2>4 DEF Rounds
  <2>6. ASSUME NEW i \in 1..m PROVE d[i] = Further(bytes, d[i - 1])
    <3>1. i - 1 \in 0..m /\ i - 1 # m /\ i \in 0..m
      OBVIOUS
    <3>2. d[i - 1] = f[i - 1]
      BY <2>4, <3>1
    <3>3. CASE i = m
      BY <2>2, <2>4, <3>1, <3>2, <3>3
    <3>4. CASE i # m
      <4>1. i \in 1..(m - 1) /\ d[i] = f[i]
        BY <2>4, <3>1, <3>4
      <4> QED
        BY <2>1, <3>2, <4>1 DEF Rounds
    <3> QED
      BY <3>3, <3>4
  <2>7. Rounds(d, bytes, m)
    BY <2>5, <2>6 DEF Rounds
  <2> QED
    BY <2>7
<1>3. \A i \in 1..n : i - 1 \in T => i \in T
  BY <1>2
<1>4. n \in T
  <2> HIDE DEF T
  <2> QED
    BY <1>1, <1>3, Inductive
<1> QED
  BY <1>4

LEMMA RoundsAgree ==
  ASSUME NEW n \in Nat, NEW bytes, NEW c, Rounds(c, bytes, n), NEW d, Rounds(d, bytes, n)
  PROVE  c[n] = d[n]
<1>1. PICK T : T = {i \in 0..n : c[i] = d[i]}
  OBVIOUS
<1>2. 0 \in T
  BY <1>1 DEF Rounds
<1>3. \A i \in 1..n : i - 1 \in T => i \in T
  <2> SUFFICES ASSUME NEW i \in 1..n, i - 1 \in T PROVE i \in T
    OBVIOUS
  <2>1. c[i - 1] = d[i - 1] /\ i \in 0..n
    BY <1>1
  <2>2. c[i] = Further(bytes, c[i - 1]) /\ d[i] = Further(bytes, d[i - 1])
    BY DEF Rounds
  <2> QED
    BY <1>1, <2>1, <2>2
<1>4. n \in T
  BY <1>2, <1>3, Inductive
<1> QED
  BY <1>1, <1>4

(* decode_scans returns what the last round has.                           *)
LEMMA Decoded ==
  ASSUME NEW bytes, NEW n \in Nat, n = get_u32_le(bytes, 0), ~(Len(bytes) < 4),
         NEW d, Rounds(d, bytes, n)
  PROVE  decode_scans(bytes) = [ok |-> d[n].ok, scans |-> d[n].scans]
<1> DEFINE F(f) == [i \in 0..n |->
                      IF i = 0 THEN [ok |-> TRUE, pos |-> 4, wire |-> LidarScanNew, scans |-> <<>>]
                      ELSE IF f[i - 1].ok THEN decode_next(bytes, f[i - 1]) ELSE f[i - 1]]
           h == CHOOSE f : f = F(f)
<1>1. PICK e : e = [i \in 0..n |-> d[i]]
  OBVIOUS
<1>2. \A i \in 0..n : d[i] = IF i = 0 THEN Opening ELSE Further(bytes, d[i - 1])
  <2>1. \A i \in 0..n : i # 0 => i \in 1..n
    OBVIOUS
  <2> QED
    BY <2>1 DEF Rounds
<1>3. \A i \in 0..n : i = 0 \/ i - 1 \in 0..n
  OBVIOUS
<1>4. e = F(e)
  <2>1. \A i \in 0..n : e[i] = IF i = 0 THEN Opening ELSE Further(bytes, e[i - 1])
    BY <1>1, <1>2, <1>3
  <2>2. e = [i \in 0..n |-> IF i = 0 THEN Opening ELSE Further(bytes, e[i - 1])]
    BY <1>1, <2>1
  <2> QED
    BY <2>2, Zenon DEF Opening, Further
<1>5. h = F(h)
  BY <1>4, Zenon
<1>6. decode_scans(bytes) = [ok |-> h[n].ok, scans |-> h[n].scans]
  BY Zenon DEF decode_scans
<1> HIDE DEF h
<1>7. Rounds(h, bytes, n)
  <2>1. h = [i \in 0..n |-> IF i = 0 THEN Opening ELSE Further(bytes, h[i - 1])]
    BY <1>5, Zenon DEF Opening, Further
  <2>2. \A i \in 0..n : h[i] = IF i = 0 THEN Opening ELSE Further(bytes, h[i - 1])
    BY <2>1
  <2>3. \A i \in 1..n : i \in 0..n /\ i # 0
    OBVIOUS
  <2> QED
    BY <2>2, <2>3 DEF Rounds
<1>8. h[n] = d[n]
  BY <1>7, RoundsAgree
<1> QED
  BY <1>6, <1>8

(* A round depends on the bytes and the place alone: the object is cleared. *)
LEMMA RoundsClear ==
  ASSUME NEW w, NEW v, NEW fs PROVE LidarScanParse(w, fs) = LidarScanParse(v, fs)
BY DEF LidarScanParse, LidarScanClear

(* What the i-th body says.                                                *)
Says(body) == LidarScanParse(LidarScanNew, FieldsIn(body))

(* A part that fits is not refused for its length.                         *)
LEMMA Room ==
  ASSUME NEW x \in Nat, NEW l \in Nat, NEW m \in Nat, x + 4 + l <= m
  PROVE  ~(x + 4 > m) /\ ~(x + 4 + l > m)
OBVIOUS

(* There is the number l after the first x bytes.                          *)
NumberAt(bytes, x, l) == \A j \in 1..4 : bytes[x + j] = u32_le(l)[j]

(* The scan in a body.                                                     *)
Told(b) == from_proto(Says(b).msg)

(* The next part is there, whole, and it parses.                           *)
Ready(bytes, d, x, l, b) ==
  /\ d.ok /\ d.pos = x
  /\ NumberAt(bytes, x, l)
  /\ Len(bytes) \in Nat /\ x + 4 + l <= Len(bytes)
  /\ SubSeq(bytes, x + 5, x + 4 + l) = b /\ Says(b).ok

(* What a round does with it.                                              *)
Gone(e, d, x, l, b) ==
  e.ok /\ e.pos = x + 4 + l /\ e.scans = Append(d.scans, Told(b))

(* A round takes the part that is ready.                                   *)
LEMMA RoundGoes ==
  ASSUME NEW bytes, NEW d, NEW x \in Nat, NEW l \in Nat, l <= Widest, NEW b,
         Ready(bytes, d, x, l, b)
  PROVE  Gone(Further(bytes, d), d, x, l, b)
<1>1. /\ d.ok /\ d.pos = x
      /\ SubSeq(bytes, x + 5, x + 4 + l) = b /\ Says(b).ok
  BY Zenon DEF Ready
<1>2. get_u32_le(bytes, x) = l
  BY NumberFramed DEF Ready, NumberAt
<1>3. PICK m \in Nat : m = Len(bytes) /\ x + 4 + l <= m
  BY DEF Ready
<1>4. ~(x + 4 > m) /\ ~(x + 4 + l > m)
  BY <1>3, Room
<1>5. LidarScanParse(d.wire, FieldsIn(b)) = Says(b)
  BY RoundsClear DEF Says
<1>6. Further(bytes, d) = decode_next(bytes, d)
  BY <1>1 DEF Further
<1>7. Further(bytes, d) = [ok |-> TRUE, pos |-> x + 4 + l, wire |-> Says(b).msg,
                           scans |-> Append(d.scans, from_proto(Says(b).msg))]
  BY <1>1, <1>2, <1>3, <1>4, <1>5, <1>6, Zenon DEF decode_next
<1>8. PICK p : p = x + 4 + l
  OBVIOUS
<1>9. PICK c : c = Append(d.scans, Told(b))
  OBVIOUS
<1>10. PICK e : e = Further(bytes, d)
  OBVIOUS
<1>11. e = [ok |-> TRUE, pos |-> p, wire |-> Says(b).msg, scans |-> c]
  BY <1>7, <1>8, <1>9, <1>10, Zenon DEF Told
<1>12. e.ok /\ e.pos = p /\ e.scans = c
  BY <1>11
<1> QED
  BY <1>8, <1>9, <1>10, <1>12, Zenon DEF Gone

(* If a round does not refuse, the place moves past the part.               *)
Moved(bytes, d, x, l) ==
  d.ok /\ Further(bytes, d).pos = x + 4 + l /\ x + 4 + l <= Len(bytes)

(* So it never reads behind the end of the bytes.                          *)
LEMMA RoundMoves ==
  ASSUME NEW bytes, Len(bytes) \in Nat, NEW d, NEW x \in Nat, d.pos = x,
         NEW l \in Nat, l <= Widest, x + 4 <= Len(bytes) => NumberAt(bytes, x, l),
         Further(bytes, d).ok
  PROVE  Moved(bytes, d, x, l)
<1>1. PICK m \in Nat : m = Len(bytes)
  OBVIOUS
<1>2. d.ok
  BY DEF Further
<1>3. PICK t : t = decode_next(bytes, d)
  OBVIOUS
<1>4. t.ok
  BY <1>2, <1>3 DEF Further
<1>5. CASE x + 4 > m
  <2>1. t = [d EXCEPT !.ok = FALSE]
    BY <1>3, <1>5, <1>1, Zenon DEF decode_next
  <2>2. ~t.ok
    BY <2>1
  <2> QED
    BY <1>4, <2>2
<1>6. CASE ~(x + 4 > m)
  <2>1. x + 4 <= m
    BY <1>6
  <2>2. get_u32_le(bytes, x) = l
    BY <1>1, <2>1, NumberFramed DEF NumberAt
  <2> QED
    BY <1>2, <1>3, <1>4, <1>6, <1>1, <2>2 DEF decode_next, Further, Moved
<1> QED
  BY <1>5, <1>6

(* Bodies that can be framed and that parse.                                *)
Sound(body, n, O) ==
  \A i \in 1..n : body[i] \in Seq(O) /\ Len(body[i]) <= Widest /\ Says(body[i]).ok

(* What is in hand after i rounds when nothing is cut.                      *)
Abreast(d, pos, body, i, V) ==
  /\ d[i].ok /\ d[i].pos = pos[i]
  /\ d[i].scans \in Seq(V) /\ Len(d[i].scans) = i
  /\ \A j \in 1..i : d[i].scans[j] = Told(body[j])

(* One element more.                                                       *)
LEMMA AppendedOne ==
  ASSUME NEW V, NEW s \in Seq(V), NEW v \in V, NEW i \in Nat, Len(s) = i
  PROVE  /\ Append(s, v) \in Seq(V) /\ Len(Append(s, v)) = i + 1
         /\ Append(s, v)[i + 1] = v
         /\ \A j \in 1..i : Append(s, v)[j] = s[j]
OBVIOUS

(* The loop takes all parts of a framed reply.                             *)
LEMMA Whole ==
  ASSUME NEW O, NEW n \in Nat, n <= Widest, NEW bytes, NEW pos, NEW body,
         Framing(bytes, pos, body, n, O), Sound(body, n, O),
         NEW d, Rounds(d, bytes, n), NEW V, \A i \in 1..n : Told(body[i]) \in V
  PROVE  Abreast(d, pos, body, n, V)
<1> DEFINE T == {i \in 0..n : Abreast(d, pos, body, i, V)}
<1>1. /\ bytes \in Seq(O) /\ pos \in [0..n -> Nat] /\ pos[0] = 4
      /\ \A i \in 0..n : pos[i] <= Len(bytes)
  BY Zenon DEF Framing
<1>2. \A i \in 1..n : /\ pos[i] = pos[i - 1] + 4 + Len(body[i])
                      /\ \A j \in 1..4 : bytes[pos[i - 1] + j] = u32_le(Len(body[i]))[j]
                      /\ SubSeq(bytes, pos[i - 1] + 5, pos[i]) = body[i]
  BY Zenon DEF Framing
<1>3. 0 \in T
  <2>1. d[0] = Opening
    BY DEF Rounds
  <2>2. Opening.ok /\ Opening.pos = 4 /\ Opening.scans = <<>>
    BY DEF Opening
  <2>3. <<>> \in Seq(V) /\ Len(<<>>) = 0
    OBVIOUS
  <2>4. \A j \in 1..0 : FALSE
    OBVIOUS
  <2>5. Abreast(d, pos, body, 0, V)
    BY <1>1, <2>1, <2>2, <2>3, <2>4 DEF Abreast
  <2> QED
    BY <2>5
<1>4. ASSUME NEW i \in 1..n, i - 1 \in T PROVE i \in T
  <2>1. PICK h \in Nat : h = i - 1 /\ i = h + 1 /\ h \in 0..n
    OBVIOUS
  <2>2. PICK e : e = d[h]
    OBVIOUS
  <2>3. PICK b : b = body[i]
    OBVIOUS
  <2>4. b \in Seq(O) /\ Len(b) <= Widest /\ Says(b).ok
    BY <2>3, Zenon DEF Sound
  <2>5. PICK l \in Nat : l = Len(b) /\ l <= Widest
    BY <2>4
  <2>6. PICK x \in Nat : x = pos[h]
    BY <1>1, <2>1
  <2>7. PICK m \in Nat : m = Len(bytes)
    BY <1>1
  <2>8. pos[i] = x + 4 + l
    BY <1>2, <2>1, <2>3, <2>5, <2>6
  <2>9. x + 4 + l <= m
    <3>1. i \in 0..n
      OBVIOUS
    <3> QED
      BY <1>1, <2>7, <2>8, <3>1
  <2>10. \A j \in 1..4 : bytes[x + j] = u32_le(l)[j]
    BY <1>2, <2>1, <2>3, <2>5, <2>6
  <2>11. SubSeq(bytes, x + 5, x + 4 + l) = b
    BY <1>2, <2>1, <2>3, <2>6, <2>8
  <2>12. Abreast(d, pos, body, h, V)
    BY <1>4, <2>1
  <2>13. /\ e.ok /\ e.pos = x /\ e.scans \in Seq(V) /\ Len(e.scans) = h
         /\ \A j \in 1..h : e.scans[j] = Told(body[j])
    BY <2>2, <2>6, <2>12, Zenon DEF Abreast
  <2>14. Ready(bytes, e, x, l, b)
    BY <2>4, <2>7, <2>9, <2>10, <2>11, <2>13, Zenon DEF Ready, NumberAt
  <2>15. Gone(Further(bytes, e), e, x, l, b)
    BY <2>5, <2>14, RoundGoes
  <2>16. d[i] = Further(bytes, e)
    BY <2>1, <2>2 DEF Rounds
  <2>17. PICK v \in V : v = Told(b)
    BY <2>3
  <2>18. d[i].ok /\ d[i].pos = x + 4 + l /\ d[i].scans = Append(e.scans, v)
    BY <2>15, <2>16, <2>17, Zenon DEF Gone
  <2>19. PICK s \in Seq(V) : s = e.scans /\ Len(s) = h
    BY <2>13
  <2>20. PICK t : t = Append(s, v)
    OBVIOUS
  <2>21. t \in Seq(V) /\ Len(t) = h + 1 /\ t[h + 1] = v /\ \A j \in 1..h : t[j] = s[j]
    BY <2>19, <2>20, AppendedOne
  <2>22. \A j \in 1..i : j \in 1..h \/ j = h + 1
    BY <2>1
  <2>23. \A j \in 1..i : t[j] = Told(body[j])
    BY <2>1, <2>3, <2>13, <2>17, <2>19, <2>21, <2>22
  <2>24. Abreast(d, pos, body, i, V)
    <3>1. d[i].scans = t
      BY <2>18, <2>19, <2>20
    <3>2. t \in Seq(V) /\ Len(t) = i
      BY <2>1, <2>21
    <3>3. d[i].pos = pos[i]
      BY <2>8, <2>18
    <3> QED
      BY <2>18, <2>23, <3>1, <3>2, <3>3, Zenon DEF Abreast
  <2> QED
    BY <2>24
<1>5. n \in T
  <2>1. \A i \in 1..n : i - 1 \in T => i \in T
    BY <1>4
  <2> HIDE DEF T
  <2> QED
    BY <1>3, <2>1, Inductive
<1> QED
  BY <1>5

(* The bytes decode to the scans of n bodies.                              *)
DecodesTo(bytes, body, n) ==
  /\ decode_scans(bytes).ok /\ Len(decode_scans(bytes).scans) = n
  /\ \A i \in 1..n : decode_scans(bytes).scans[i] = Told(body[i])

(* query_wire.cpp: a reply decodes to the scans that were put into it.     *)
LEMMA DecodesAll ==
  ASSUME NEW O, NEW n \in Nat, n <= Widest, NEW bytes, NEW pos, NEW body,
         Framing(bytes, pos, body, n, O), Sound(body, n, O)
  PROVE  DecodesTo(bytes, body, n)
<1>1. PICK V : \A i \in 1..n : Told(body[i]) \in V
  <2>1. \A i \in 1..n : Told(body[i]) \in {Told(body[j]) : j \in 1..n}
    OBVIOUS
  <2> QED
    BY <2>1
<1>2. PICK d : Rounds(d, bytes, n)
  BY RoundsExist
<1>3. Abreast(d, pos, body, n, V)
  BY <1>1, <1>2, Whole
<1>4. /\ bytes \in Seq(O) /\ pos \in [0..n -> Nat] /\ pos[0] = 4 /\ pos[n] = Len(bytes)
      /\ \A j \in 1..4 : bytes[j] = u32_le(n)[j]
      /\ \A i \in 0..n : pos[i] <= Len(bytes)
  BY Zenon DEF Framing
<1>5. ~(Len(bytes) < 4)
  <2>1. 0 \in 0..n
    OBVIOUS
  <2>2. PICK m \in Nat : m = Len(bytes)
    BY <1>4
  <2> QED
    BY <1>4, <2>1, <2>2
<1>6. n = get_u32_le(bytes, 0)
  <2>1. \A j \in 1..4 : 0 + j = j
    OBVIOUS
  <2>2. \A j \in 1..4 : bytes[0 + j] = u32_le(n)[j]
    BY <1>4, <2>1
  <2> QED
    BY <2>2, NumberFramed
<1>7. decode_scans(bytes) = [ok |-> d[n].ok, scans |-> d[n].scans]
  BY <1>2, <1>5, <1>6, Decoded
<1>8. decode_scans(bytes).ok = d[n].ok /\ decode_scans(bytes).scans = d[n].scans
  BY <1>7
<1> QED
  BY <1>3, <1>8, Zenon DEF Abreast, DecodesTo

(* A reply that lost its end is refused, wherever it was cut.               *)
LEMMA CutRefused ==
  ASSUME NEW O, NEW n \in Nat, n <= Widest, NEW whole, NEW pos, NEW body,
         Framing(whole, pos, body, n, O), Sound(body, n, O),
         NEW cut \in 0..(Len(whole) - 1)
  PROVE  ~decode_scans(SubSeq(whole, 1, cut)).ok
<1>1. /\ whole \in Seq(O) /\ pos \in [0..n -> Nat] /\ pos[0] = 4 /\ pos[n] = Len(whole)
      /\ \A j \in 1..4 : whole[j] = u32_le(n)[j]
  BY Zenon DEF Framing
<1>2. \A i \in 1..n : /\ pos[i] = pos[i - 1] + 4 + Len(body[i])
                      /\ \A j \in 1..4 : whole[pos[i - 1] + j] = u32_le(Len(body[i]))[j]
  BY Zenon DEF Framing
<1>3. PICK bytes : bytes = SubSeq(whole, 1, cut)
  OBVIOUS
<1>4. cut \in Nat /\ cut < Len(whole)
  BY <1>1
<1>5. /\ bytes \in Seq(O) /\ Len(bytes) = cut
      /\ \A j \in 1..cut : bytes[j] = whole[j]
  BY <1>1, <1>3, <1>4
<1>6. CASE cut < 4
  <2>1. Len(bytes) < 4
    BY <1>5, <1>6
  <2>2. decode_scans(bytes) = [ok |-> FALSE, scans |-> <<>>]
    BY <2>1, Zenon DEF decode_scans
  <2> QED
    BY <1>3, <2>2
<1>7. CASE ~(cut < 4)
  <2>1. n = get_u32_le(bytes, 0)
    <3>1. \A j \in 1..4 : 0 + j = j /\ j \in 1..cut
      BY <1>4, <1>7
    <3>2. \A j \in 1..4 : bytes[0 + j] = u32_le(n)[j]
      BY <1>1, <1>5, <3>1
    <3> QED
      BY <3>2, NumberFramed
  <2>2. PICK d : Rounds(d, bytes, n)
    BY RoundsExist
  <2>3. decode_scans(bytes) = [ok |-> d[n].ok, scans |-> d[n].scans]
    BY <1>5, <1>7, <2>1, <2>2, Decoded
  <2> DEFINE T == {i \in 0..n : d[i].ok => d[i].pos = pos[i] /\ pos[i] <= cut}
  <2>4. 0 \in T
    <3>1. d[0].pos = 4
      BY <2>2 DEF Rounds, Opening
    <3> QED
      BY <1>1, <1>4, <1>7, <3>1
  <2>5. ASSUME NEW i \in 1..n, i - 1 \in T PROVE i \in T
    <3> SUFFICES ASSUME d[i].ok PROVE d[i].pos = pos[i] /\ pos[i] <= cut
      OBVIOUS
    <3>1. PICK h \in Nat : h = i - 1 /\ h \in 0..n
      OBVIOUS
    <3>2. PICK e : e = d[h]
      OBVIOUS
    <3>3. d[i] = Further(bytes, e)
      BY <2>2, <3>1, <3>2 DEF Rounds
    <3>4. e.ok
      BY <3>3 DEF Further
    <3>5. PICK x \in Nat : x = pos[h]
      BY <1>1, <3>1
    <3>6. e.pos = x
      BY <2>5, <3>1, <3>2, <3>4, <3>5
    <3>7. body[i] \in Seq(O) /\ Len(body[i]) <= Widest
      BY Zenon DEF Sound
    <3>8. PICK l \in Nat : l = Len(body[i]) /\ l <= Widest
      BY <3>7
    <3>9. pos[i] = x + 4 + l /\ \A j \in 1..4 : whole[x + j] = u32_le(l)[j]
      BY <1>2, <3>1, <3>5, <3>8
    <3>10. x + 4 <= Len(bytes) => NumberAt(bytes, x, l)
      <4> SUFFICES ASSUME x + 4 <= cut PROVE \A j \in 1..4 : bytes[x + j] = u32_le(l)[j]
        BY <1>5 DEF NumberAt
      <4>1. \A j \in 1..4 : x + j \in 1..cut
        BY <1>4
      <4> QED
        BY <1>5, <3>9, <4>1
    <3>11. Further(bytes, e).ok
      BY <3>3
    <3>12. Moved(bytes, e, x, l)
      <4>1. Len(bytes) \in Nat
        BY <1>4, <1>5
      <4> QED
        BY <3>6, <3>8, <3>10, <3>11, <4>1, RoundMoves
    <3>13. Further(bytes, e).pos = x + 4 + l /\ x + 4 + l <= cut
      BY <1>5, <3>12 DEF Moved
    <3> QED
      BY <3>3, <3>9, <3>13
  <2>6. n \in T
    <3>1. \A i \in 1..n : i - 1 \in T => i \in T
      BY <2>5
    <3> HIDE DEF T
    <3> QED
      BY <2>4, <3>1, Inductive
  <2>7. ~d[n].ok
    BY <1>1, <1>4, <2>6
  <2> QED
    BY <1>3, <2>3, <2>7
<1> QED
  BY <1>6, <1>7

-----------------------------------------------------------------------------
(* Messages of flat types, written and read.                               *)

(* What can be written of flat messages, and what comes back.               *)

(* The message types without messages in them: scans and clouds.           *)
FlatKinds == {"int", "float", "text", "floats"}

FlatType(K, n) ==
  /\ n \in Nat /\ DOMAIN K = 1..n
  /\ \A k \in 1..n : Kind(K, k) \in FlatKinds /\ Name(K, k) # "unknown"
  /\ \A k, l \in 1..n : Name(K, k) = Name(K, l) => k = l

(* A field of a message, its entry on the wire, and which are written.     *)
Value(K, m, k) == m[Name(K, k)]
Entry(K, m, k) == Field(k, Kind(K, k), Value(K, m, k))
Given(K, m)    == {k \in DOMAIN K : ~Unset(Kind(K, k), Value(K, m, k))}

(* A message that can be written and read: texts are UTF-8.                 *)
Sendable(K, m, n) ==
  /\ m.unknown = <<>>
  /\ \A k \in 1..n : /\ Kind(K, k) = "text" => Value(K, m, k) # Garbled
                     /\ Kind(K, k) = "floats" => IsSeq(Value(K, m, k))

(* What is set of a message, each field once, in some order.                *)
Enumerates(fs, K, m, n) ==
  /\ fs \in Seq({Entry(K, m, k) : k \in 1..n})
  /\ \A j \in DOMAIN fs : \E k \in Given(K, m) : fs[j] = Entry(K, m, k)
  /\ \A k \in Given(K, m) : \E j \in DOMAIN fs : fs[j] = Entry(K, m, k)
  /\ \A i, j \in DOMAIN fs : fs[i] = fs[j] => i = j

(* An entry is made of these.                                              *)
LEMMA EntryIs ==
  ASSUME NEW K, NEW m, NEW k
  PROVE  /\ Entry(K, m, k).n = k
         /\ Entry(K, m, k).kind = Kind(K, k)
         /\ Entry(K, m, k).v = Value(K, m, k)
BY DEF Entry, Field

(* What is written of a message is a choice of its entries.                *)
LEMMA WrittenFlat ==
  ASSUME NEW K, NEW n, FlatType(K, n), NEW m, Sendable(K, m, n)
  PROVE  LET parts == [k \in 1..n |-> IF k \in Given(K, m) THEN <<Entry(K, m, k)>> ELSE <<>>]
         IN Write(K, NoSubWrite, m) = FlattenSeq(parts) \o <<>>
<1>1. n \in Nat /\ DOMAIN K = 1..n /\ \A k \in 1..n : Kind(K, k) \in FlatKinds
  BY DEF FlatType
<1>2. \A k \in 1..n : ~(Kind(K, k) = "header")
  BY <1>1 DEF FlatKinds
<1> DEFINE Out(k) == IF Unset(Kind(K, k), m[Name(K, k)]) THEN <<>>
                     ELSE <<Field(k, Kind(K, k), IF Kind(K, k) = "header"
                                            THEN NoSubWrite(m[Name(K, k)][1])
                                            ELSE m[Name(K, k)])>>
           Part(k) == IF k \in Given(K, m) THEN <<Entry(K, m, k)>> ELSE <<>>
<1>3. \A k \in 1..n : Out(k) = Part(k)
  <2> SUFFICES ASSUME NEW k \in 1..n PROVE Out(k) = Part(k)
    OBVIOUS
  <2>1. CASE Unset(Kind(K, k), m[Name(K, k)])
    <3>1. k \notin Given(K, m)
      BY <2>1, Zenon DEF Given, Value
    <3> QED
      BY <2>1, <3>1, Zenon
  <2>2. CASE ~Unset(Kind(K, k), m[Name(K, k)])
    <3>1. k \in Given(K, m)
      BY <1>1, <2>2, Zenon DEF Given, Value
    <3>2. Field(k, Kind(K, k), IF Kind(K, k) = "header"
                                            THEN NoSubWrite(m[Name(K, k)][1])
                                            ELSE m[Name(K, k)]) = Entry(K, m, k)
      BY <1>2, Zenon DEF Entry, Value
    <3> QED
      BY <2>2, <3>1, <3>2, Zenon
  <2> QED
    BY <2>1, <2>2
<1>4. Write(K, NoSubWrite, m) = FlattenSeq([k \in DOMAIN K |-> Out(k)]) \o m.unknown
  BY Zenon DEF Write
<1>5. m.unknown = <<>>
  BY Zenon DEF Sendable
<1>6. [k \in DOMAIN K |-> Out(k)] = [k \in 1..n |-> Part(k)]
  <2> HIDE DEF Out, Part
  <2> QED
    BY <1>1, <1>3
<1> QED
  BY <1>4, <1>5, <1>6, Zenon

(* Every field that is set is written, exactly once, and nothing else is.  *)
LEMMA WritesSet ==
  ASSUME NEW K, NEW n, FlatType(K, n), NEW m, Sendable(K, m, n)
  PROVE  Enumerates(Write(K, NoSubWrite, m), K, m, n)
<1>1. n \in Nat /\ DOMAIN K = 1..n
  BY DEF FlatType
<1>2. PICK on : on = Given(K, m) /\ on \subseteq 1..n
  BY <1>1 DEF Given
<1>3. PICK S : S = {Entry(K, m, k) : k \in 1..n}
  OBVIOUS
<1>4. PICK e : e = [k \in 1..n |-> Entry(K, m, k)]
  OBVIOUS
<1>5. \A k \in 1..n : e[k] = Entry(K, m, k) /\ e[k] \in S
  BY <1>3, <1>4
<1>6. Distinct(e, on)
  BY <1>2, <1>5, EntryIs DEF Distinct
<1>7. PICK p : p = [k \in 1..n |-> IF k \in on THEN <<e[k]>> ELSE <<>>]
  OBVIOUS
<1>8. p = [k \in 1..n |-> IF k \in Given(K, m) THEN <<Entry(K, m, k)>> ELSE <<>>]
  BY <1>2, <1>5, <1>7
<1>9. PICK s : s = FlattenSeq(p)
  OBVIOUS
<1>10. \A k \in on : e[k] \in S
  BY <1>2, <1>5
<1>11. Choice(p, n, on, e)
  BY <1>7, Zenon DEF Choice
<1>12. Selects(s, on, e, S)
  BY <1>1, <1>2, <1>6, <1>9, <1>10, <1>11, Chosen
<1>13. /\ s \in Seq(S)
       /\ \A j \in DOMAIN s : \E k \in on : s[j] = e[k]
       /\ \A k \in on : \E j \in DOMAIN s : s[j] = e[k]
       /\ \A i, j \in DOMAIN s : s[i] = s[j] => i = j
  BY <1>12, Zenon DEF Selects
<1>14. Write(K, NoSubWrite, m) = s \o <<>>
  BY <1>8, <1>9, WrittenFlat, Zenon
<1>15. s \o <<>> = s
  BY <1>13
<1>16. \A k \in on : e[k] = Entry(K, m, k)
  BY <1>2, <1>5
<1>17. Enumerates(s, K, m, n)
  <2>1. s \in Seq({Entry(K, m, k) : k \in 1..n})
    BY <1>3, <1>13, Zenon
  <2>2. ASSUME NEW j \in DOMAIN s PROVE \E k \in Given(K, m) : s[j] = Entry(K, m, k)
    <3>1. PICK k \in on : s[j] = e[k]
      BY <1>13
    <3> QED
      BY <1>2, <1>16, <3>1
  <2>3. ASSUME NEW k \in Given(K, m) PROVE \E j \in DOMAIN s : s[j] = Entry(K, m, k)
    <3>1. k \in on
      BY <1>2, Zenon
    <3>2. PICK j \in DOMAIN s : s[j] = e[k]
      BY <1>13, <3>1, Zenon
    <3>3. e[k] = Entry(K, m, k)
      BY <1>16, <3>1, Zenon
    <3> QED
      BY <3>2, <3>3, Zenon
  <2> QED
    BY <1>13, <2>1, <2>2, <2>3, Zenon DEF Enumerates
<1> QED
  BY <1>14, <1>15, <1>17

(* The field of a message is read as the field it is.                       *)
LEMMA EntryFits ==
  ASSUME NEW K, NEW n, FlatType(K, n), NEW m, Sendable(K, m, n), NEW k \in 1..n
  PROVE  /\ Fits(K, Entry(K, m, k))
         /\ ~Unreadable(K, NoSubReadable, Entry(K, m, k))
<1>1. DOMAIN K = 1..n /\ Kind(K, k) \in FlatKinds
  BY DEF FlatType
<1>2. PICK f : f = Entry(K, m, k)
  OBVIOUS
<1>3. f.n = k /\ f.kind = Kind(K, k) /\ f.v = Value(K, m, k)
  BY <1>2, EntryIs
<1>4. Fits(K, f)
  BY <1>1, <1>3, Zenon DEF Fits
<1>5. Kind(K, f.n) = f.kind /\ f.kind \in FlatKinds
  BY <1>1, <1>3
<1>6. f.kind = "text" => f.v # Garbled
  BY <1>3, Zenon DEF Sendable
<1>7. f.kind # "cut" /\ f.kind # "header"
  BY <1>5 DEF FlatKinds
<1>8. ~Unreadable(K, NoSubReadable, f)
  <2> DEFINE kind == f.kind
  <2>1. CASE f.kind = "text"
    BY <1>5, <1>6, <2>1 DEF Unreadable
  <2>2. CASE f.kind = "floats"
    BY <1>5, <2>2 DEF Unreadable
  <2>3. CASE f.kind = "int" \/ f.kind = "float"
    BY <1>5, <2>3 DEF Unreadable
  <2> QED
    BY <1>5, <2>1, <2>2, <2>3 DEF FlatKinds
<1> QED
  BY <1>2, <1>4, <1>8

(* What a message says, with the fields that were not written at their     *)
(* defaults.                                                               *)
Settled(kind, v) == IF Unset(kind, v) THEN Default[kind] ELSE v

(* Nothing of it is refused or cut.                                        *)
LEMMA AllReadable ==
  ASSUME NEW K, NEW n, FlatType(K, n), NEW m, Sendable(K, m, n), NEW fs, Enumerates(fs, K, m, n)
  PROVE  Readable(K, NoSubReadable, fs) /\ Kept(K, NoSubReadable, fs) = fs
<1>1. ASSUME NEW j \in DOMAIN fs PROVE ~Unreadable(K, NoSubReadable, fs[j])
  <2>1. PICK k \in 1..n : fs[j] = Entry(K, m, k)
    BY DEF Enumerates, Given, FlatType
  <2> QED
    BY <2>1, EntryFits, Zenon
<1>2. Readable(K, NoSubReadable, fs)
  BY <1>1, Zenon DEF Readable
<1>3. {j \in DOMAIN fs : Unreadable(K, NoSubReadable, fs[j])} = {}
  BY <1>1, Zenon
<1>4. Kept(K, NoSubReadable, fs) = fs
  BY <1>3, Zenon DEF Kept
<1> QED
  BY <1>2, <1>4

(* A field's number, by its name.                                          *)
LEMMA NumberOf ==
  ASSUME NEW K, NEW n, FlatType(K, n), NEW k \in 1..n
  PROVE  Number(K, Name(K, k)) = k
<1>1. DOMAIN K = 1..n /\ \A l \in 1..n : Name(K, l) = Name(K, k) => l = k
  BY DEF FlatType
<1>2. PICK x : x = Name(K, k)
  OBVIOUS
<1>3. \E l \in DOMAIN K : Name(K, l) = x
  BY <1>1, <1>2
<1>4. Number(K, x) \in DOMAIN K /\ Name(K, Number(K, x)) = x
  BY <1>3, Zenon DEF Number
<1> QED
  BY <1>1, <1>2, <1>4

(* A new message object has every field at its default.                    *)
LEMMA NewIs ==
  ASSUME NEW K, NEW n, FlatType(K, n)
  PROVE  /\ DOMAIN New(K) = {Name(K, k) : k \in 1..n} \cup {"unknown"}
         /\ New(K)["unknown"] = <<>>
         /\ \A k \in 1..n : New(K)[Name(K, k)] = Default[Kind(K, k)]
<1>1. DOMAIN K = 1..n /\ \A k \in 1..n : Name(K, k) # "unknown"
  BY DEF FlatType
<1>2. New(K) = [x \in {Name(K, k) : k \in 1..n} \cup {"unknown"} |->
                  IF x = "unknown" THEN <<>> ELSE Default[Kind(K, Number(K, x))]]
  BY <1>1, Zenon DEF New
<1>3. DOMAIN New(K) = {Name(K, k) : k \in 1..n} \cup {"unknown"}
  BY <1>2
<1>4. New(K)["unknown"] = <<>>
  BY <1>2
<1>5. ASSUME NEW k \in 1..n PROVE New(K)[Name(K, k)] = Default[Kind(K, k)]
  <2>1. PICK x : x = Name(K, k) /\ x # "unknown" /\ Number(K, x) = k
    BY <1>1, NumberOf
  <2>2. x \in {Name(K, l) : l \in 1..n} \cup {"unknown"}
    BY <2>1
  <2>3. New(K)[x] = Default[Kind(K, Number(K, x))]
    BY <1>2, <2>1, <2>2
  <2> QED
    BY <2>1, <2>3
<1> QED
  BY <1>3, <1>4, <1>5

(* No field of it is unknown to the reader.                                *)
LEMMA UnknownRead ==
  ASSUME NEW K, NEW n, FlatType(K, n), NEW m, Sendable(K, m, n), NEW fs, Enumerates(fs, K, m, n)
  PROVE  ReadInto(K, NoSubRead, New(K), fs)["unknown"] = <<>>
<1>1. \A j \in DOMAIN fs : Fits(K, fs[j])
  <2> SUFFICES ASSUME NEW j \in DOMAIN fs PROVE Fits(K, fs[j])
    OBVIOUS
  <2>1. PICK k \in 1..n : fs[j] = Entry(K, m, k)
    BY DEF Enumerates, Given, FlatType
  <2> QED
    BY <2>1, EntryFits, Zenon
<1>2. "unknown" \in DOMAIN New(K) /\ New(K)["unknown"] = <<>>
  BY NewIs
<1> DEFINE parts == [i \in DOMAIN fs |-> IF Fits(K, fs[i]) THEN <<>> ELSE <<fs[i]>>]
<1>3. ReadInto(K, NoSubRead, New(K), fs)["unknown"] = New(K)["unknown"] \o FlattenSeq(parts)
  BY <1>2, Zenon DEF ReadInto
<1>4. PICK l \in Nat : DOMAIN fs = 1..l
  BY DEF Enumerates
<1>5. parts = [i \in 1..l |-> <<>>]
  BY <1>1, <1>4
<1>6. FlattenSeq(parts) = <<>>
  <2>1. PICK p : p = parts
    OBVIOUS
  <2>2. p = [i \in 1..l |-> <<>>]
    BY <1>5, <2>1
  <2>3. FlattenSeq(p) = <<>>
    BY <2>2, Vacant
  <2> QED
    BY <2>1, <2>3
<1>7. <<>> \o <<>> = <<>>
  BY EmptySeq
<1> HIDE DEF parts
<1> QED
  BY <1>2, <1>3, <1>6, <1>7

(* Which fields on the wire are those of a field of the message.            *)
Own(fs, K, x) == {i \in DOMAIN fs : Fits(K, fs[i]) /\ Name(K, fs[i].n) = x}

(* What reading makes of a field: the last, all elements, or the default.  *)
LEMMA FieldRead ==
  ASSUME NEW K, NEW n, FlatType(K, n), NEW fs, NEW k \in 1..n
  PROVE  LET x == Name(K, k)
         IN ReadInto(K, NoSubRead, New(K), fs)[x] =
              IF Own(fs, K, x) = {} THEN New(K)[x]
              ELSE IF Kind(K, k) = "floats"
                   THEN New(K)[x] \o FlattenSeq([i \in DOMAIN fs |->
                          IF i \in Own(fs, K, x) THEN Elements(fs[i]) ELSE <<>>])
                   ELSE fs[Max(Own(fs, K, x))].v
<1>1. PICK x : x = Name(K, k)
  OBVIOUS
<1>2. x \in DOMAIN New(K) /\ x # "unknown" /\ Number(K, x) = k
  <2>1. Number(K, x) = k
    BY <1>1, NumberOf
  <2>2. x # "unknown"
    BY <1>1 DEF FlatType
  <2>3. x \in {Name(K, l) : l \in 1..n} \cup {"unknown"}
    BY <1>1
  <2>4. DOMAIN New(K) = {Name(K, l) : l \in 1..n} \cup {"unknown"}
    BY NewIs
  <2> QED
    BY <2>1, <2>2, <2>3, <2>4
<1>3. Kind(K, k) \in FlatKinds
  BY DEF FlatType
<1>4. Kind(K, k) # "header"
  BY <1>3 DEF FlatKinds
<1> DEFINE own == {i \in DOMAIN fs : Fits(K, fs[i]) /\ Name(K, fs[i].n) = x}
           Far == CASE Kind(K, k) = "floats" ->
                         New(K)[x] \o FlattenSeq([i \in DOMAIN fs |->
                                   IF i \in own THEN Elements(fs[i]) ELSE <<>>])
                    [] Kind(K, k) = "header" ->
                         <<NoSubRead(New(K)[x], FlattenSeq([i \in DOMAIN fs |->
                                           IF i \in own THEN Payload(fs[i]) ELSE <<>>]))>>
                    [] OTHER -> fs[Max(own)].v
<1>5. ReadInto(K, NoSubRead, New(K), fs)[x] = IF own = {} THEN New(K)[x] ELSE Far
  BY <1>2, Zenon DEF ReadInto
<1>6. Far = IF Kind(K, k) = "floats"
            THEN New(K)[x] \o FlattenSeq([i \in DOMAIN fs |->
                          IF i \in own THEN Elements(fs[i]) ELSE <<>>])
            ELSE fs[Max(own)].v
  <2> HIDE DEF own
  <2>1. CASE Kind(K, k) = "floats"
    BY <2>1, Zenon
  <2>2. CASE Kind(K, k) # "floats"
    BY <1>4, <2>2, Zenon
  <2> QED
    BY <2>1, <2>2, Zenon
<1>7. own = Own(fs, K, x)
  BY Zenon DEF Own
<1> HIDE DEF own, Far
<1> QED
  BY <1>1, <1>5, <1>6, <1>7, Zenon

(* It is on the wire once if it is set, and not at all otherwise.          *)
LEMMA OwnIs ==
  ASSUME NEW K, NEW n, FlatType(K, n), NEW m, Sendable(K, m, n), NEW fs, Enumerates(fs, K, m, n),
         NEW k \in 1..n
  PROVE  /\ k \notin Given(K, m) => Own(fs, K, Name(K, k)) = {}
         /\ k \in Given(K, m) => \E j \in DOMAIN fs : /\ fs[j] = Entry(K, m, k)
                                                     /\ Own(fs, K, Name(K, k)) = {j}
<1>1. /\ DOMAIN K = 1..n
      /\ \A l \in 1..n : Name(K, l) = Name(K, k) => l = k
  BY DEF FlatType
<1>2. PICK x : x = Name(K, k)
  OBVIOUS
<1>3. ASSUME NEW j \in DOMAIN fs, j \in Own(fs, K, x) PROVE k \in Given(K, m) /\ fs[j] = Entry(K, m, k)
  <2>1. PICK l \in Given(K, m) : fs[j] = Entry(K, m, l)
    BY DEF Enumerates
  <2>2. l \in 1..n
    BY <1>1, <2>1 DEF Given
  <2>3. Name(K, l) = x
    BY <1>3, <2>1, EntryIs DEF Own
  <2> QED
    BY <1>1, <1>2, <2>1, <2>2, <2>3
<1>4. CASE k \notin Given(K, m)
  BY <1>2, <1>3, <1>4 DEF Own
<1>5. CASE k \in Given(K, m)
  <2>1. PICK j \in DOMAIN fs : fs[j] = Entry(K, m, k)
    BY <1>5 DEF Enumerates
  <2>2. Fits(K, fs[j]) /\ fs[j].n = k
    BY <2>1, EntryFits, EntryIs
  <2>3. j \in Own(fs, K, x)
    BY <1>2, <2>2 DEF Own
  <2>4. \A i \in Own(fs, K, x) : i \in DOMAIN fs /\ fs[i] = fs[j]
    BY <1>3, <2>1 DEF Own
  <2>5. \A i \in DOMAIN fs : fs[i] = fs[j] => i = j
    BY DEF Enumerates
  <2>6. Own(fs, K, x) = {j}
    BY <2>3, <2>4, <2>5
  <2> QED
    BY <1>2, <1>5, <2>1, <2>6
<1> QED
  BY <1>4, <1>5

(* So a field is read as it was set.                                       *)
LEMMA FieldComesBack ==
  ASSUME NEW K, NEW n, FlatType(K, n), NEW m, Sendable(K, m, n), NEW fs, Enumerates(fs, K, m, n),
         NEW k \in 1..n
  PROVE  ReadInto(K, NoSubRead, New(K), fs)[Name(K, k)] = Settled(Kind(K, k), Value(K, m, k))
<1>1. DOMAIN K = 1..n
  BY DEF FlatType
<1>2. PICK x : x = Name(K, k)
  OBVIOUS
<1>3. New(K)[x] = Default[Kind(K, k)]
  BY <1>2, NewIs
<1>4. PICK v : v = Value(K, m, k)
  OBVIOUS
<1>5. PICK r : r = ReadInto(K, NoSubRead, New(K), fs)[x]
  OBVIOUS
<1>6. r = IF Own(fs, K, x) = {} THEN New(K)[x]
          ELSE IF Kind(K, k) = "floats"
               THEN New(K)[x] \o FlattenSeq([i \in DOMAIN fs |->
                      IF i \in Own(fs, K, x) THEN Elements(fs[i]) ELSE <<>>])
               ELSE fs[Max(Own(fs, K, x))].v
  BY <1>2, <1>5, FieldRead, Zenon
<1>7. CASE k \notin Given(K, m)
  <2>1. Unset(Kind(K, k), v)
    BY <1>1, <1>4, <1>7 DEF Given
  <2>2. Own(fs, K, x) = {}
    BY <1>2, <1>7, OwnIs
  <2>3. r = Default[Kind(K, k)]
    BY <1>3, <1>6, <2>2, Zenon
  <2> QED
    BY <1>2, <1>4, <1>5, <2>1, <2>3, Zenon DEF Settled
<1>8. CASE k \in Given(K, m)
  <2>1. ~Unset(Kind(K, k), v)
    BY <1>1, <1>4, <1>8 DEF Given
  <2>2. PICK j \in DOMAIN fs : fs[j] = Entry(K, m, k) /\ Own(fs, K, x) = {j}
    BY <1>2, <1>8, OwnIs
  <2>3. fs[j].v = v /\ fs[j].kind = Kind(K, k)
    BY <1>4, <2>2, EntryIs
  <2>4. PICK l \in Nat : l = Len(fs) /\ DOMAIN fs = 1..l
    BY DEF Enumerates
  <2>5. CASE Kind(K, k) # "floats"
    <3>1. r = fs[Max({j})].v
      BY <1>6, <2>2, <2>5, Zenon
    <3>2. Max({j}) = j
      <4>1. j >= j
        BY <2>4
      <4> QED
        BY <4>1, Zenon DEF Max
    <3> QED
      BY <1>2, <1>4, <1>5, <2>1, <2>3, <3>1, <3>2, Zenon DEF Settled
  <2>6. CASE Kind(K, k) = "floats"
    <3>1. PICK p : p = [i \in 1..l |-> IF i \in {j} THEN Elements(fs[i]) ELSE <<>>]
      OBVIOUS
    <3>2. r = Default["floats"] \o FlattenSeq(p)
      BY <1>3, <1>6, <2>2, <2>4, <2>6, <3>1, Zenon
    <3>3. Elements(fs[j]) = v
      BY <2>3, <2>6, Zenon DEF Elements
    <3>4. PICK S : v \in Seq(S)
      BY <1>4, <2>6 DEF Sendable, IsSeq
    <3>5. p \in Seq(Seq(S)) /\ l = Len(p) /\ p[j] = v /\ \A i \in 1..l : i # j => p[i] = <<>>
      <4>1. \A i \in 1..l : p[i] = IF i = j THEN v ELSE <<>>
        BY <3>1, <3>3
      <4>2. <<>> \in Seq(S)
        OBVIOUS
      <4>3. \A i \in 1..l : p[i] \in Seq(S)
        BY <3>4, <4>1, <4>2
      <4>4. p = [i \in 1..l |-> p[i]]
        BY <3>1
      <4> QED
        BY <2>4, <4>1, <4>3, <4>4
    <3>6. FlattenSeq(p) = v
      BY <2>4, <3>5, Sole
    <3>7. Default["floats"] = <<>>
      BY DEF Default
    <3>8. <<>> \o v = v
      BY <3>4
    <3> QED
      BY <1>2, <1>4, <1>5, <2>1, <3>2, <3>6, <3>7, <3>8, Zenon DEF Settled
  <2> QED
    BY <2>5, <2>6
<1> QED
  BY <1>7, <1>8

(* Both halves: what a message of a flat type says once it was written and  *)
(* read again.                                                             *)
Afresh(K, fs) ==
  [ok  |-> Readable(K, NoSubReadable, fs),
   msg |-> ReadInto(K, NoSubRead, New(K), Kept(K, NoSubReadable, fs))]

(* lidar_scan.pb.cc and its like: every message of a flat type comes back   *)
(* with every field as it was.                                             *)
THEOREM FlatComesBack ==
  ASSUME NEW K, NEW n, FlatType(K, n), NEW m, Sendable(K, m, n)
  PROVE  LET back == Afresh(K, Write(K, NoSubWrite, m))
         IN /\ back.ok
            /\ \A k \in 1..n : back.msg[Name(K, k)] = Settled(Kind(K, k), Value(K, m, k))
<1>1. PICK fs : fs = Write(K, NoSubWrite, m)
  OBVIOUS
<1>2. Enumerates(fs, K, m, n)
  BY <1>1, WritesSet
<1>3. Readable(K, NoSubReadable, fs) /\ Kept(K, NoSubReadable, fs) = fs
  BY <1>2, AllReadable
<1>4. PICK r : r = ReadInto(K, NoSubRead, New(K), fs)
  OBVIOUS
<1>5. PICK back : back = Afresh(K, fs)
  OBVIOUS
<1>6. back = [ok |-> TRUE, msg |-> r]
  BY <1>3, <1>4, <1>5, Zenon DEF Afresh
<1>7. back.ok /\ back.msg = r
  BY <1>6
<1>8. \A k \in 1..n : r[Name(K, k)] = Settled(Kind(K, k), Value(K, m, k))
  BY <1>2, <1>4, FieldComesBack, Zenon
<1> QED
  BY <1>1, <1>5, <1>7, <1>8, Zenon

-----------------------------------------------------------------------------
(* Scans in messages.                                                      *)

(* An object as good as a new one for whoever sets every field of it.      *)
Usable(w, new) == w = [x \in DOMAIN new |-> w[x]] /\ w.unknown = <<>>

(* The fields of a LidarScan message, by name.                             *)
ScanNames == {"frame_id", "stamp_ns", "scan_time_ns", "time_increment_ns", "angle_min",
              "angle_max", "angle_increment", "range_min", "range_max", "echo_index",
              "echo_count", "ranges", "intensities", "unknown"}

(* The generated types of the two samples are flat.                        *)
LEMMA ScanIsFlat ==
  /\ FlatType(LidarScanFields, 13)
  /\ {Name(LidarScanFields, k) : k \in 1..13} \cup {"unknown"} = ScanNames
<1>1. DOMAIN LidarScanFields = 1..13
  BY DEF LidarScanFields
<1>2. {Name(LidarScanFields, k) : k \in 1..13} \cup {"unknown"} = ScanNames
  BY DEF LidarScanFields, Name, ScanNames
<1>3. \A k \in 1..13 : Kind(LidarScanFields, k) \in FlatKinds /\ Name(LidarScanFields, k) # "unknown"
  BY DEF LidarScanFields, Name, Kind, FlatKinds
<1>4. \A k, l \in 1..13 : Name(LidarScanFields, k) = Name(LidarScanFields, l) => k = l
  BY DEF LidarScanFields, Name
<1> QED
  BY <1>1, <1>2, <1>3, <1>4 DEF FlatType

LEMMA CloudIsFlat == FlatType(LidarPointCloudFields, 9)
<1>1. DOMAIN LidarPointCloudFields = 1..9
  BY DEF LidarPointCloudFields
<1>2. \A k \in 1..9 : /\ Kind(LidarPointCloudFields, k) \in FlatKinds
                      /\ Name(LidarPointCloudFields, k) # "unknown"
  BY DEF LidarPointCloudFields, Name, Kind, FlatKinds
<1>3. \A k, l \in 1..9 : Name(LidarPointCloudFields, k) = Name(LidarPointCloudFields, l) => k = l
  BY DEF LidarPointCloudFields, Name
<1> QED
  BY <1>1, <1>2, <1>3 DEF FlatType

(* A value as good as the one it was: -0.0 may have become 0.               *)
Alike(b, v) == b = v \/ (v = NegZero /\ b = 0)

(* What a field at its default is taken for.                               *)
LEMMA SettledIs ==
  ASSUME NEW kind, NEW v
  PROVE  /\ Alike(Settled(kind, v), v)
         /\ Unset(kind, Settled(kind, v)) <=> Unset(kind, v)
         /\ ~Unset(kind, v) => Settled(kind, v) = v
         /\ kind # "float" => Settled(kind, v) = v
<1>1. Default["float"] = 0
  BY DEF Default
<1>2. CASE v = Default[kind]
  BY <1>2 DEF Settled, Unset, Alike
<1>3. CASE v # Default[kind] /\ kind = "float" /\ v = NegZero
  BY <1>1, <1>3 DEF Settled, Unset, Alike
<1>4. CASE v # Default[kind] /\ ~(kind = "float" /\ v = NegZero)
  BY <1>4 DEF Settled, Unset, Alike
<1> QED
  BY <1>2, <1>3, <1>4

(* New objects are as good as new.                                         *)
LEMMA NewScan == DOMAIN LidarScanNew = ScanNames /\ Usable(LidarScanNew, LidarScanNew)
<1>1. DOMAIN LidarScanFields = 1..13
  BY DEF LidarScanFields
<1>2. {Name(LidarScanFields, n) : n \in 1..13} \cup {"unknown"} = ScanNames
  BY DEF LidarScanFields, Name, ScanNames
<1>3. LidarScanNew = [x \in ScanNames |->
        IF x = "unknown" THEN <<>>
        ELSE Default[Kind(LidarScanFields, Number(LidarScanFields, x))]]
  BY <1>1, <1>2 DEF LidarScanNew, New
<1> QED
  BY <1>3 DEF Usable, ScanNames

LEMMA NewCloud == Usable(LidarPointCloudNew, LidarPointCloudNew)
<1>1. LidarPointCloudNew = [x \in DOMAIN LidarPointCloudNew |->
        IF x = "unknown" THEN <<>>
        ELSE Default[Kind(LidarPointCloudFields, Number(LidarPointCloudFields, x))]]
     /\ "unknown" \in DOMAIN LidarPointCloudNew
  BY DEF LidarPointCloudNew, New
<1> QED
  BY <1>1 DEF Usable

(* to_proto() sets every field: what the object held before does not show.  *)
ScanPut(scan, unknown) ==
  [x \in ScanNames |-> IF x = "unknown" THEN unknown
                       ELSE IF x \in {"ranges", "intensities"} THEN <<>> \o scan[x]
                       ELSE scan[x]]

(* to_proto() leaves nothing of what was in the object.                    *)
LEMMA ScanIsPut ==
  ASSUME NEW u, Usable(u, LidarScanNew), NEW scan
  PROVE  to_proto(scan, u) = ScanPut(scan, <<>>)
<1>1. DOMAIN u = ScanNames /\ u = [x \in ScanNames |-> u[x]] /\ u["unknown"] = <<>>
  BY NewScan DEF Usable
<1> DEFINE one   == set_frame_id(u, scan.frame_id)
           two   == set_times(one, scan.stamp_ns, scan.scan_time_ns, scan.time_increment_ns)
           three == set_geometry(two, scan)
           four  == set_echoes(three, scan.echo_index, scan.echo_count)
           five  == clear_intensities(clear_ranges(four))
           six   == add_intensities(add_ranges(five, scan.ranges), scan.intensities)
<1>2. one = [x \in ScanNames |-> IF x = "frame_id" THEN scan[x] ELSE u[x]]
  BY <1>1 DEF set_frame_id, ScanNames
<1> HIDE DEF one
<1>3. two = [x \in ScanNames |->
        IF x \in {"frame_id", "stamp_ns", "scan_time_ns", "time_increment_ns"}
        THEN scan[x] ELSE u[x]]
  BY <1>2 DEF set_times, ScanNames
<1> HIDE DEF two
<1>4. three = [x \in ScanNames |->
        IF x \in {"echo_index", "echo_count", "ranges", "intensities", "unknown"}
        THEN u[x] ELSE scan[x]]
  BY <1>3 DEF set_geometry, ScanNames
<1> HIDE DEF three
<1>5. four = [x \in ScanNames |->
        IF x \in {"ranges", "intensities", "unknown"} THEN u[x] ELSE scan[x]]
  BY <1>4 DEF set_echoes, ScanNames
<1> HIDE DEF four
<1>6. five = [x \in ScanNames |->
        IF x = "unknown" THEN u[x]
        ELSE IF x \in {"ranges", "intensities"} THEN <<>> ELSE scan[x]]
  BY <1>5 DEF clear_ranges, clear_intensities, ScanNames
<1> HIDE DEF five
<1>7. six = ScanPut(scan, u["unknown"])
  BY <1>6 DEF add_ranges, add_intensities, ScanNames, ScanPut
<1>8. to_proto(scan, u) = six
  BY DEF to_proto, scalars_to_proto, one, two, three, four, five
<1> QED
  BY <1>1, <1>7, <1>8

(* scan_codec.cpp: a used object is as good as a new one.                  *)
LEMMA ScanObjectReused ==
  ASSUME NEW w, Usable(w, LidarScanNew), NEW scan
  PROVE  /\ to_proto(scan, w) = to_proto(scan, LidarScanNew)
         /\ Usable(to_proto(scan, w), LidarScanNew)
<1>1. to_proto(scan, w) = ScanPut(scan, <<>>) /\ to_proto(scan, LidarScanNew) = ScanPut(scan, <<>>)
  BY ScanIsPut, NewScan
<1>2. Usable(ScanPut(scan, <<>>), LidarScanNew)
  BY NewScan DEF Usable, ScanPut, ScanNames
<1> QED
  BY <1>1, <1>2

(* What is known of a scan that is one.                                    *)
LEMMA ScanIs ==
  ASSUME NEW scan \in Scan
  PROVE  /\ DOMAIN scan = ScanNames \ {"unknown"}
         /\ scan.frame_id \in DOMAIN TextSize /\ scan.frame_id # Garbled
         /\ scan.echo_index \in 0..255 /\ scan.echo_count \in 0..255
         /\ scan.ranges \in Seq(Float) /\ scan.intensities \in Seq(Float)
<1>1. DOMAIN scan = ScanNames \ {"unknown"}
  BY DEF Scan, ScanNames
<1> QED
  BY <1>1 DEF Scan, Utf8

(* What scan has in a field is what its message has.                       *)
LEMMA ScanInMessage ==
  ASSUME NEW scan \in Scan
  PROVE  /\ to_proto(scan, LidarScanNew).unknown = <<>>
         /\ \A x \in ScanNames \ {"unknown"} : to_proto(scan, LidarScanNew)[x] = scan[x]
<1>1. PICK m : m = to_proto(scan, LidarScanNew)
  OBVIOUS
<1>2. m = ScanPut(scan, <<>>)
  BY <1>1, ScanIsPut, NewScan
<1>3. m.unknown = <<>>
  BY <1>2 DEF ScanPut, ScanNames
<1>4. <<>> \o scan.ranges = scan.ranges /\ <<>> \o scan.intensities = scan.intensities
  BY ScanIs
<1>5. ASSUME NEW x \in ScanNames \ {"unknown"} PROVE m[x] = scan[x]
  <2>1. m[x] = IF x \in {"ranges", "intensities"} THEN <<>> \o scan[x] ELSE scan[x]
    BY <1>2 DEF ScanPut
  <2>2. CASE x = "ranges"
    BY <1>4, <2>1, <2>2
  <2>3. CASE x = "intensities"
    BY <1>4, <2>1, <2>3
  <2>4. CASE x \notin {"ranges", "intensities"}
    BY <2>1, <2>4
  <2> QED
    BY <2>2, <2>3, <2>4
<1> QED
  BY <1>1, <1>3, <1>5

(* A scan's message can be written and read.                               *)
LEMMA ScanIsSendable ==
  ASSUME NEW scan \in Scan
  PROVE  Sendable(LidarScanFields, to_proto(scan, LidarScanNew), 13)
<1>1. PICK m : m = to_proto(scan, LidarScanNew)
  OBVIOUS
<1>2. m.unknown = <<>> /\ \A x \in ScanNames \ {"unknown"} : m[x] = scan[x]
  BY <1>1, ScanInMessage
<1>3. \A k \in 1..13 :
        /\ Kind(LidarScanFields, k) = "text" => Name(LidarScanFields, k) = "frame_id"
        /\ Kind(LidarScanFields, k) = "floats" => Name(LidarScanFields, k) \in {"ranges", "intensities"}
  BY DEF LidarScanFields, Name, Kind
<1>4. m.frame_id # Garbled /\ IsSeq(m.ranges) /\ IsSeq(m.intensities)
  BY <1>2, ScanIs DEF IsSeq, ScanNames
<1>5. Sendable(LidarScanFields, m, 13)
  BY <1>2, <1>3, <1>4 DEF Sendable, Value
<1> QED
  BY <1>1, <1>5

(* The message that comes out at the far end.                              *)
LEMMA ScanComesBack ==
  ASSUME NEW scan \in Scan
  PROVE  /\ Reread(scan).ok
         /\ \A k \in 1..13 : Reread(scan).msg[Name(LidarScanFields, k)]
                             = Settled(Kind(LidarScanFields, k), scan[Name(LidarScanFields, k)])
<1>1. PICK m : m = to_proto(scan, LidarScanNew)
  OBVIOUS
<1>2. FlatType(LidarScanFields, 13) /\ Sendable(LidarScanFields, m, 13)
  BY <1>1, ScanIsFlat, ScanIsSendable
<1>3. PICK back : back = Afresh(LidarScanFields, Write(LidarScanFields, NoSubWrite, m))
  OBVIOUS
<1>4. /\ back.ok
      /\ \A k \in 1..13 : back.msg[Name(LidarScanFields, k)]
                            = Settled(Kind(LidarScanFields, k), Value(LidarScanFields, m, k))
  BY <1>2, <1>3, FlatComesBack, Zenon
<1>5. Reread(scan) = back
  BY <1>1, <1>3, Zenon
  DEF Reread, LidarScanParse, LidarScanClear, LidarScanNew, LidarScanWrite, Afresh
<1>6. \A k \in 1..13 : Value(LidarScanFields, m, k) = scan[Name(LidarScanFields, k)]
  BY <1>1, ScanIsFlat, ScanInMessage DEF FlatType, Value
<1> QED
  BY <1>4, <1>5, <1>6

-----------------------------------------------------------------------------
(* Scans that come out at the far end.                                     *)

(* The scan that is made of the message that came back.                     *)
Back(scan) == from_proto(Reread(scan).msg)

(* Its fields are those of the scan, a -0.0 aside.                         *)
LEMMA BackIs ==
  ASSUME NEW scan \in Scan
  PROVE  /\ Back(scan) = [x \in ScanNames \ {"unknown"} |-> Back(scan)[x]]
         /\ \A k \in 1..13 : Back(scan)[Name(LidarScanFields, k)]
                             = Settled(Kind(LidarScanFields, k), scan[Name(LidarScanFields, k)])
<1>1. PICK r : r = Reread(scan).msg
  OBVIOUS
<1>2. \A k \in 1..13 : r[Name(LidarScanFields, k)]
                      = Settled(Kind(LidarScanFields, k), scan[Name(LidarScanFields, k)])
  BY <1>1, ScanComesBack
<1>3. DOMAIN DefaultScan = ScanNames \ {"unknown"}
  BY NewScan DEF DefaultScan
<1>4. from_proto(r) = [x \in ScanNames \ {"unknown"} |->
                         IF x \in {"echo_index", "echo_count"} THEN r[x] % 256 ELSE r[x]]
  BY <1>3, Zenon DEF from_proto
<1>5. PICK b : b = from_proto(r)
  OBVIOUS
<1>6. b = [x \in ScanNames \ {"unknown"} |-> b[x]]
  BY <1>4, <1>5
<1>7. ASSUME NEW k \in 1..13
      PROVE  b[Name(LidarScanFields, k)]
               = Settled(Kind(LidarScanFields, k), scan[Name(LidarScanFields, k)])
  <2>1. PICK x : x = Name(LidarScanFields, k)
    OBVIOUS
  <2>2. x \in ScanNames \ {"unknown"}
    BY <2>1, ScanIsFlat DEF FlatType
  <2>3. b[x] = IF x \in {"echo_index", "echo_count"} THEN r[x] % 256 ELSE r[x]
    BY <1>4, <1>5, <2>2
  <2>4. r[x] = Settled(Kind(LidarScanFields, k), scan[x])
    BY <1>2, <2>1
  <2>5. CASE x \notin {"echo_index", "echo_count"}
    BY <2>1, <2>3, <2>4, <2>5
  <2>6. CASE x \in {"echo_index", "echo_count"}
    <3>1. Kind(LidarScanFields, k) # "float"
      BY <2>1, <2>6 DEF LidarScanFields, Name, Kind
    <3>2. r[x] = scan[x]
      BY <2>4, <3>1, SettledIs
    <3>3. scan[x] \in 0..255
      BY <2>6, ScanIs
    <3>4. PICK v \in 0..255 : v = scan[x] /\ v % 256 = v
      BY <3>3
    <3> QED
      BY <2>1, <2>3, <2>4, <2>6, <3>2, <3>4
  <2> QED
    BY <2>5, <2>6
<1> QED
  BY <1>1, <1>5, <1>6, <1>7, Zenon DEF Back

(* Field by field.                                                         *)
LEMMA BackIsAlike ==
  ASSUME NEW scan \in Scan
  PROVE  \A x \in ScanNames \ {"unknown"} : Alike(Back(scan)[x], scan[x])
<1> SUFFICES ASSUME NEW x \in ScanNames \ {"unknown"} PROVE Alike(Back(scan)[x], scan[x])
  OBVIOUS
<1>1. PICK k \in 1..13 : x = Name(LidarScanFields, k)
  BY ScanIsFlat
<1> QED
  BY <1>1, BackIs, SettledIs

(* scan_codec.cpp: any scan comes through the bytes as it was.             *)
THEOREM BackEqualsScan ==
  ASSUME NEW scan \in Scan
  PROVE  Reread(scan).ok /\ AsNumbers(Back(scan)) = AsNumbers(scan)
<1>1. PICK b : b = Back(scan)
  OBVIOUS
<1>2. b = [x \in ScanNames \ {"unknown"} |-> b[x]] /\ DOMAIN b = ScanNames \ {"unknown"}
  BY <1>1, BackIs
<1>3. DOMAIN scan = ScanNames \ {"unknown"}
  BY ScanIs
<1>4. \A x \in ScanNames \ {"unknown"} :
        (IF b[x] = NegZero THEN 0 ELSE b[x]) = (IF scan[x] = NegZero THEN 0 ELSE scan[x])
  BY <1>1, BackIsAlike DEF Alike
<1>5. AsNumbers(b) = AsNumbers(scan)
  BY <1>2, <1>3, <1>4 DEF AsNumbers
<1> QED
  BY <1>1, <1>5, ScanComesBack

(* It is a scan again, so that it can be sent on.                          *)
LEMMA BackIsScan ==
  ASSUME NEW scan \in Scan
  PROVE  Back(scan) \in Scan
<1>1. PICK b : b = Back(scan)
  OBVIOUS
<1>2. b = [x \in ScanNames \ {"unknown"} |-> b[x]]
  BY <1>1, BackIs
<1>3. \A k \in 1..13 : b[Name(LidarScanFields, k)]
                       = Settled(Kind(LidarScanFields, k), scan[Name(LidarScanFields, k)])
  BY <1>1, BackIs
<1>4. ASSUME NEW x \in ScanNames \ {"unknown"},
             x \notin {"angle_min", "angle_max", "angle_increment", "range_min", "range_max"}
      PROVE  b[x] = scan[x]
  <2>1. PICK k \in 1..13 : x = Name(LidarScanFields, k)
    BY ScanIsFlat
  <2>2. Kind(LidarScanFields, k) # "float"
    BY <1>4, <2>1 DEF LidarScanFields, Name, Kind
  <2> QED
    BY <1>3, <2>1, <2>2, SettledIs
<1>5. ASSUME NEW x \in {"angle_min", "angle_max", "angle_increment", "range_min", "range_max"}
      PROVE  b[x] \in Float
  <2>1. Alike(b[x], scan[x])
    BY <1>1, BackIsAlike DEF ScanNames
  <2>2. scan[x] \in Float
    BY DEF Scan
  <2> QED
    BY <2>1, <2>2 DEF Alike, Float
<1>6. PICK F : F = Float
  OBVIOUS
<1>7. PICK Q : Q = Seq(F)
  OBVIOUS
<1>8. PICK U : U = Utf8
  OBVIOUS
<1>9. Scan = [frame_id : U, stamp_ns : Int, scan_time_ns : Int, time_increment_ns : Int,
              angle_min : F, angle_max : F, angle_increment : F,
              range_min : F, range_max : F, echo_index : 0..255, echo_count : 0..255,
              ranges : Q, intensities : Q]
  BY <1>6, <1>7, <1>8 DEF Scan
<1>10. /\ scan.frame_id \in U /\ scan.stamp_ns \in Int /\ scan.scan_time_ns \in Int
       /\ scan.time_increment_ns \in Int /\ scan.echo_index \in 0..255
       /\ scan.echo_count \in 0..255 /\ scan.ranges \in Q /\ scan.intensities \in Q
  BY <1>9
<1>11. /\ b.frame_id \in U /\ b.stamp_ns \in Int /\ b.scan_time_ns \in Int
       /\ b.time_increment_ns \in Int /\ b.echo_index \in 0..255
       /\ b.echo_count \in 0..255 /\ b.ranges \in Q /\ b.intensities \in Q
  BY <1>4, <1>10 DEF ScanNames
<1>12. /\ b.angle_min \in F /\ b.angle_max \in F /\ b.angle_increment \in F
       /\ b.range_min \in F /\ b.range_max \in F
  BY <1>5, <1>6
<1>13. b \in Scan
  BY <1>2, <1>9, <1>11, <1>12 DEF ScanNames
<1> QED
  BY <1>1, <1>13

(* What came back is written as it was: a reader's object, sent on, makes   *)
(* the same bytes.                                                         *)
LEMMA BackWritesTheSame ==
  ASSUME NEW scan \in Scan
  PROVE  LidarScanWrite(to_proto(Back(scan), LidarScanNew))
           = LidarScanWrite(to_proto(scan, LidarScanNew))
<1>1. PICK K : K = LidarScanFields
  OBVIOUS
<1>2. PICK m, w : m = to_proto(scan, LidarScanNew) /\ w = to_proto(Back(scan), LidarScanNew)
  OBVIOUS
<1>3. FlatType(K, 13) /\ Sendable(K, m, 13) /\ Sendable(K, w, 13)
  BY <1>1, <1>2, ScanIsFlat, ScanIsSendable, BackIsScan
<1>4. DOMAIN K = 1..13 /\ \A k \in 1..13 : Name(K, k) \in ScanNames \ {"unknown"}
  BY <1>1, ScanIsFlat DEF FlatType
<1>5. \A k \in 1..13 : Value(K, m, k) = scan[Name(K, k)] /\ Value(K, w, k) = Back(scan)[Name(K, k)]
  BY <1>2, <1>4, ScanInMessage, BackIsScan DEF Value
<1>6. \A k \in 1..13 : Value(K, w, k) = Settled(Kind(K, k), Value(K, m, k))
  BY <1>1, <1>5, BackIs
<1>7. \A k \in 1..13 : k \in Given(K, w) <=> k \in Given(K, m)
  BY <1>4, <1>6, SettledIs DEF Given
<1>8. \A k \in 1..13 : k \in Given(K, m) => Entry(K, w, k) = Entry(K, m, k)
  BY <1>4, <1>6, SettledIs DEF Given, Entry
<1>9. [k \in 1..13 |-> IF k \in Given(K, w) THEN <<Entry(K, w, k)>> ELSE <<>>]
      = [k \in 1..13 |-> IF k \in Given(K, m) THEN <<Entry(K, m, k)>> ELSE <<>>]
  BY <1>7, <1>8
<1>10. Write(K, NoSubWrite, w)
         = FlattenSeq([k \in 1..13 |-> IF k \in Given(K, w) THEN <<Entry(K, w, k)>> ELSE <<>>]) \o <<>>
  BY <1>3, WrittenFlat, Zenon
<1>11. Write(K, NoSubWrite, m)
         = FlattenSeq([k \in 1..13 |-> IF k \in Given(K, m) THEN <<Entry(K, m, k)>> ELSE <<>>]) \o <<>>
  BY <1>3, WrittenFlat, Zenon
<1>12. Write(K, NoSubWrite, w) = Write(K, NoSubWrite, m)
  BY <1>9, <1>10, <1>11, Zenon
<1> QED
  BY <1>1, <1>2, <1>12, Zenon DEF LidarScanWrite

-----------------------------------------------------------------------------
(* The sizes of messages.                                                  *)

(* Every number and every length takes at least one byte.                  *)
LEMMA VarintTakesBytes == ASSUME NEW v PROVE VarintSize(v) \in Nat \ {0}
<1>1. PICK C : C = {k \in 1..4 : v >= 2 ^ (7 * k)} /\ C \subseteq 1..4
  OBVIOUS
<1>2. IsFiniteSet(1..4)
  <2>1. PICK a \in Int, b \in Int : a = 1 /\ b = 4
    OBVIOUS
  <2>2. IsFiniteSet(a..b)
    BY FS_Interval
  <2> QED
    BY <2>1, <2>2
<1>3. IsFiniteSet(C)
  BY <1>1, <1>2, FS_Subset
<1>4. PICK c \in Nat : c = Cardinality(C)
  BY <1>3, FS_CardinalityType
<1>5. VarintSize(v) = IF v < 0 THEN 10 ELSE 1 + c
  BY <1>1, <1>4, Zenon DEF VarintSize
<1> QED
  BY <1>5

LEMMA DelimitedTakesBytes == ASSUME NEW size \in Nat PROVE Delimited(size) \in Nat \ {0}
<1>1. PICK x \in Nat : x = VarintSize(size)
  BY VarintTakesBytes
<1> QED
  BY <1>1 DEF Delimited

(* A message whose texts have a size.                                      *)
Measured(K, m, n) ==
  \A k \in 1..n : /\ Kind(K, k) = "text" => Value(K, m, k) \in DOMAIN TextSize
                  /\ Kind(K, k) = "floats" => IsSeq(Value(K, m, k))

(* So does every field.                                                    *)
LEMMA EntryTakesBytes ==
  ASSUME NEW K, NEW n, FlatType(K, n), NEW m, Measured(K, m, n), NEW k \in 1..n
  PROVE  Size(Entry(K, m, k)) \in Nat \ {0}
<1>1. PICK f : f = Entry(K, m, k)
  OBVIOUS
<1>2. f.kind = Kind(K, k) /\ f.v = Value(K, m, k) /\ f.kind \in FlatKinds
  BY <1>1, EntryIs DEF FlatType
<1>3. f.kind # "header"
  BY <1>2 DEF FlatKinds
<1>4. Size(f) = FlatSize(f)
  BY <1>3, Zenon DEF Size
<1>5. FlatSize(f) \in Nat \ {0}
  <2>1. CASE f.kind = "int"
    <3>1. FlatSize(f) = 1 + VarintSize(f.v)
      BY <2>1 DEF FlatSize
    <3> QED
      BY <3>1, VarintTakesBytes
  <2>2. CASE f.kind = "float"
    <3>1. FlatSize(f) = 1 + 4
      BY <2>2 DEF FlatSize
    <3> QED
      BY <3>1
  <2>3. CASE f.kind = "text"
    <3>1. FlatSize(f) = Delimited(TextSize[f.v])
      BY <2>3 DEF FlatSize
    <3>2. TextSize[f.v] \in Nat
      BY <1>2, <2>3, ProtobufAssumption DEF Measured
    <3> QED
      BY <3>1, <3>2, DelimitedTakesBytes
  <2>4. CASE f.kind = "floats"
    <3>1. FlatSize(f) = Delimited(4 * Len(f.v))
      BY <2>4 DEF FlatSize
    <3>2. 4 * Len(f.v) \in Nat
      <4>1. PICK S : f.v \in Seq(S)
        BY <1>2, <2>4 DEF Measured, IsSeq
      <4>2. PICK l \in Nat : l = Len(f.v)
        BY <4>1
      <4> QED
        BY <4>2
    <3> QED
      BY <3>1, <3>2, DelimitedTakesBytes
  <2> QED
    BY <1>2, <2>1, <2>2, <2>3, <2>4 DEF FlatKinds
<1> QED
  BY <1>1, <1>4, <1>5

(* The size of the chosen fields is the sum over all of them of what each   *)
(* adds.                                                                   *)
LEMMA TotalOneMore ==
  ASSUME NEW S, \A r \in S : Size(r) \in Nat, NEW s \in Seq(S), NEW a \in S
  PROVE  TotalSize(s \o <<a>>) = TotalSize(s) + Size(a)
<1>1. PICK l \in Nat : l = Len(s)
  OBVIOUS
<1>2. PICK t : t = s \o <<a>>
  OBVIOUS
<1>3. /\ t \in Seq(S) /\ DOMAIN s = 1..l /\ DOMAIN t = 1..(l + 1)
      /\ \A j \in 1..l : t[j] = s[j]
      /\ t[l + 1] = a
  BY <1>1, <1>2
<1>4. PICK p : p = [i \in 1..l |-> Size(s[i])]
  OBVIOUS
<1>5. PICK h \in Nat : h = l + 1
  OBVIOUS
<1>6. PICK q : q = [i \in 1..h |-> Size(t[i])]
  OBVIOUS
<1>7. Len(p) = l /\ \A i \in 1..l : p[i] \in Nat
  BY <1>1, <1>4
<1>8. Len(q) = l + 1
  BY <1>5, <1>6
<1>9. PICK v \in Nat : v = Size(a)
  OBVIOUS
<1>10. q[l + 1] = v /\ \A i \in 1..l : q[i] = p[i]
  BY <1>3, <1>4, <1>5, <1>6, <1>9
<1>11. OneMore(q, p, l, v)
  BY <1>7, <1>8, <1>10, Zenon DEF OneMore
<1>12. SumOf(q) = SumOf(p) + v
  BY <1>11, SumAppend
<1>13. TotalSize(s) = SumOf(p)
  BY <1>3, <1>4, Zenon DEF TotalSize
<1>14. TotalSize(t) = SumOf(q)
  BY <1>3, <1>5, <1>6, Zenon DEF TotalSize
<1> QED
  BY <1>2, <1>9, <1>12, <1>13, <1>14

(* Nothing takes no bytes.                                                 *)
LEMMA TotalOfNone == TotalSize(<<>>) = 0
<1>1. PICK p : p = [i \in DOMAIN <<>> |-> Size(<<>>[i])]
  OBVIOUS
<1>2. Len(p) = 0
  BY <1>1
<1>3. TotalSize(<<>>) = SumOf(p)
  BY <1>1, Zenon DEF TotalSize
<1> QED
  BY <1>2, <1>3, SumOfNone

(* What each field adds to the size: its own if it is written.             *)
Adding(sizes, n, on, e) == sizes = [k \in 1..n |-> IF k \in on THEN Size(e[k]) ELSE 0]

(* The size of what is written is the sum of what every field adds.        *)
LEMMA ChosenTotal ==
  ASSUME NEW S, \A r \in S : Size(r) \in Nat,
         NEW n \in Nat, NEW on, on \subseteq 1..n, NEW e, \A k \in on : e[k] \in S,
         NEW p, Choice(p, n, on, e),
         NEW sizes, Adding(sizes, n, on, e)
  PROVE  TotalSize(FlattenSeq(p)) = SumOf(sizes)
<1>1. sizes = [k \in 1..n |-> IF k \in on THEN Size(e[k]) ELSE 0]
  BY Zenon DEF Adding
<1> USE <1>1
<1>2. p = [k \in 1..n |-> IF k \in on THEN <<e[k]>> ELSE <<>>]
  BY Zenon DEF Choice
<1>3. \A k \in 1..n : p[k] \in Seq(S)
  <2> SUFFICES ASSUME NEW k \in 1..n PROVE p[k] \in Seq(S)
    OBVIOUS
  <2>1. CASE k \in on
    <3>1. p[k] = <<e[k]>> /\ e[k] \in S
      BY <1>2, <2>1
    <3> QED
      BY <3>1
  <2>2. CASE k \notin on
    <3>1. p[k] = <<>>
      BY <1>2, <2>2
    <3> QED
      BY <3>1
  <2> QED
    BY <2>1, <2>2
<1>4. PICK r \in Seq(Seq(S)) : r = p /\ n = Len(r)
  <2>1. p = [k \in 1..n |-> p[k]]
    BY <1>2
  <2> QED
    BY <1>3, <2>1
<1>5. PICK f : Joins(f, r, n, S) /\ FlattenSeq(r) = f[n]
  BY <1>4, Flattened
<1>6. /\ f \in [0..n -> Seq(S)] /\ f[0] = <<>>
      /\ \A i \in 1..n : f[i] = f[i - 1] \o p[i]
      /\ FlattenSeq(p) = f[n]
  BY <1>4, <1>5 DEF Joins
<1>7. n = Len(sizes) /\ \A i \in 1..n : sizes[i] \in Nat
  OBVIOUS
<1>8. PICK g : Totals(g, sizes, n) /\ SumOf(sizes) = g[n]
  BY <1>7, Summed
<1>9. g[0] = 0 /\ \A i \in 1..n : g[i] = g[i - 1] + sizes[i]
  BY <1>8 DEF Totals, Adds
<1>10. \A i \in 0..n : g[i] \in Nat
  BY <1>8 DEF Totals
<1> DEFINE T == {i \in 0..n : TotalSize(f[i]) = g[i]}
<1>11. 0 \in T
  BY <1>6, <1>9, TotalOfNone
<1>12. ASSUME NEW m \in 1..n, m - 1 \in T PROVE m \in T
  <2>1. PICK u \in Seq(S) : u = f[m - 1]
    <3>1. m - 1 \in 0..n
      OBVIOUS
    <3> QED
      BY <1>6, <3>1
  <2>2. TotalSize(u) = g[m - 1] /\ g[m - 1] \in Nat
    BY <1>12, <1>10, <2>1
  <2>3. PICK t : t = f[m] /\ t = u \o p[m]
    BY <1>6, <2>1
  <2>4. m \in 0..n
    OBVIOUS
  <2> SUFFICES TotalSize(f[m]) = g[m]
    BY <2>4
  <2>5. CASE m \notin on
    <3>1. t = u \o <<>> /\ sizes[m] = 0
      BY <1>2, <2>3, <2>5
    <3>2. t = u
      BY <3>1
    <3>3. g[m] = g[m - 1]
      BY <1>9, <2>2, <3>1
    <3> QED
      BY <2>2, <2>3, <3>2, <3>3
  <2>6. CASE m \in on
    <3>1. PICK a \in S : a = e[m]
      BY <2>6
    <3>2. t = u \o <<a>> /\ sizes[m] = Size(a)
      BY <1>2, <2>3, <2>6, <3>1
    <3>3. TotalSize(t) = TotalSize(u) + Size(a)
      BY <3>2, TotalOneMore
    <3>4. g[m] = g[m - 1] + Size(a)
      BY <1>9, <3>2
    <3> QED
      BY <2>2, <2>3, <3>3, <3>4
  <2> QED
    BY <2>5, <2>6
<1>13. n \in T
  <2>1. \A i \in 1..n : i - 1 \in T => i \in T
    BY <1>12
  <2> HIDE DEF T
  <2> QED
    BY <1>11, <2>1, Inductive
<1> QED
  BY <1>6, <1>8, <1>13

-----------------------------------------------------------------------------
(* The replies of the query server.                                        *)

(* The bytes of a scan.                                                    *)
FieldsOfScans == {Entry(LidarScanFields, to_proto(scan, LidarScanNew), k) : scan \in Scan, k \in 1..13}

(* What is written of a scan, and its bytes.                               *)
Written(scan) == LidarScanWrite(to_proto(scan, LidarScanNew))
Body(scan)    == Bytes(Written(scan))

(* A scan has a size.                                                      *)
LEMMA ScanIsMeasured ==
  ASSUME NEW scan \in Scan
  PROVE  Measured(LidarScanFields, to_proto(scan, LidarScanNew), 13)
<1>1. PICK m : m = to_proto(scan, LidarScanNew)
  OBVIOUS
<1>2. \A x \in ScanNames \ {"unknown"} : m[x] = scan[x]
  BY <1>1, ScanInMessage
<1>3. \A k \in 1..13 :
        /\ Kind(LidarScanFields, k) = "text" => Name(LidarScanFields, k) = "frame_id"
        /\ Kind(LidarScanFields, k) = "floats" => Name(LidarScanFields, k) \in {"ranges", "intensities"}
  BY DEF LidarScanFields, Name, Kind
<1>4. m.frame_id \in DOMAIN TextSize /\ IsSeq(m.ranges) /\ IsSeq(m.intensities)
  BY <1>2, ScanIs DEF IsSeq, ScanNames
<1>5. Measured(LidarScanFields, m, 13)
  BY <1>3, <1>4 DEF Measured, Value
<1> QED
  BY <1>1, <1>5

(* Each of its fields takes bytes.                                         *)
LEMMA ScanFieldsTakeBytes == \A r \in FieldsOfScans : Size(r) \in Nat \ {0}
<1> SUFFICES ASSUME NEW scan \in Scan, NEW k \in 1..13
             PROVE  Size(Entry(LidarScanFields, to_proto(scan, LidarScanNew), k)) \in Nat \ {0}
  BY DEF FieldsOfScans
<1> QED
  BY ScanIsFlat, ScanIsMeasured, EntryTakesBytes

(* What is written of a scan is some of its fields.                        *)
LEMMA WrittenIs == ASSUME NEW scan \in Scan PROVE Written(scan) \in Seq(FieldsOfScans)
<1>1. PICK m : m = to_proto(scan, LidarScanNew)
  OBVIOUS
<1>2. Enumerates(Written(scan), LidarScanFields, m, 13)
  BY <1>1, ScanIsFlat, ScanIsSendable, WritesSet DEF Written, LidarScanWrite
<1>3. {Entry(LidarScanFields, m, k) : k \in 1..13} \subseteq FieldsOfScans
  BY <1>1 DEF FieldsOfScans
<1>4. PICK s : s = Written(scan)
  OBVIOUS
<1>5. s \in Seq({Entry(LidarScanFields, m, k) : k \in 1..13})
  BY <1>2, <1>4, Zenon DEF Enumerates
<1>6. PICK S : S = {Entry(LidarScanFields, m, k) : k \in 1..13} /\ S \subseteq FieldsOfScans
  BY <1>3
<1>7. s \in Seq(S) /\ S \subseteq FieldsOfScans
  BY <1>5, <1>6
<1>8. s \in Seq(FieldsOfScans)
  BY <1>7, SeqMonotonic
<1> QED
  BY <1>4, <1>8

(* A scan's bytes say what was written, and are as many as its fields      *)
(* take.                                                                   *)
LEMMA BodyIs ==
  ASSUME NEW scan \in Scan
  PROVE  /\ Body(scan) \in Seq(Octets(FieldsOfScans))
         /\ FieldsIn(Body(scan)) = Written(scan)
         /\ Len(Body(scan)) = TotalSize(Written(scan))
BY WrittenIs, ScanFieldsTakeBytes, BytesAndBack, FieldsRead DEF Body

(* The size that was computed is the size of the bytes.                     *)
LEMMA ByteSizeIs ==
  ASSUME NEW scan \in Scan
  PROVE  LidarScanByteSize(to_proto(scan, LidarScanNew)) = Len(Body(scan))
<1>1. PICK m : m = to_proto(scan, LidarScanNew)
  OBVIOUS
<1>2. PICK K : K = LidarScanFields
  OBVIOUS
<1>3. FlatType(K, 13) /\ Sendable(K, m, 13) /\ DOMAIN K = 1..13
  BY <1>1, <1>2, ScanIsFlat, ScanIsSendable DEF FlatType
<1>4. PICK n \in Nat : n = 13
  OBVIOUS
<1>5. PICK on : on = Given(K, m) /\ on \subseteq 1..n
  BY <1>3, <1>4 DEF Given
<1>6. PICK e : e = [k \in 1..n |-> Entry(K, m, k)]
  OBVIOUS
<1>7. PICK p : p = [k \in 1..n |-> IF k \in on THEN <<e[k]>> ELSE <<>>]
  OBVIOUS
<1>8. Choice(p, n, on, e)
  BY <1>7, Zenon DEF Choice
<1>9. PICK S : S = FieldsOfScans /\ \A r \in S : Size(r) \in Nat
  BY ScanFieldsTakeBytes
<1>10. \A k \in on : e[k] \in S
  BY <1>1, <1>2, <1>4, <1>5, <1>6, <1>9 DEF FieldsOfScans
<1>11. PICK sizes : sizes = [k \in 1..n |-> IF k \in on THEN Size(e[k]) ELSE 0]
  OBVIOUS
<1>12. Adding(sizes, n, on, e)
  BY <1>11, Zenon DEF Adding
<1>13. TotalSize(FlattenSeq(p)) = SumOf(sizes)
  BY <1>5, <1>8, <1>9, <1>10, <1>12, ChosenTotal
<1>14. p = [k \in 1..13 |-> IF k \in Given(K, m) THEN <<Entry(K, m, k)>> ELSE <<>>]
  BY <1>4, <1>5, <1>6, <1>7
<1>15. Written(scan) = FlattenSeq(p) \o <<>>
  <2>1. Write(K, NoSubWrite, m) = FlattenSeq(p) \o <<>>
    BY <1>3, <1>14, WrittenFlat, Zenon
  <2> QED
    BY <1>1, <1>2, <2>1, Zenon DEF Written, LidarScanWrite
<1>16. FlattenSeq(p) \o <<>> = FlattenSeq(p)
  <2>1. PICK s : s = FlattenSeq(p)
    OBVIOUS
  <2>2. Distinct(e, on)
    BY <1>5, <1>6, EntryIs DEF Distinct
  <2>3. s \in Seq(S)
    BY <1>5, <1>8, <1>10, <2>1, <2>2, Chosen DEF Selects
  <2>4. s \o <<>> = s
    BY <2>3
  <2> QED
    BY <2>1, <2>4
<1>17. TotalSize(Written(scan)) = SumOf(sizes)
  BY <1>13, <1>15, <1>16
<1>18. m.unknown = <<>>
  BY <1>3, Zenon DEF Sendable
<1>19. LidarScanByteSize(m) = SumOf([k \in DOMAIN LidarScanFields |->
           IF Unset(Kind(LidarScanFields, k), m[Name(LidarScanFields, k)]) THEN 0
           ELSE Size(Field(k, Kind(LidarScanFields, k), m[Name(LidarScanFields, k)]))])
         + TotalSize(m.unknown)
  BY Zenon DEF LidarScanByteSize
<1>20. \A k \in 1..n : (IF Unset(Kind(K, k), m[Name(K, k)]) THEN 0
                       ELSE Size(Field(k, Kind(K, k), m[Name(K, k)]))) = sizes[k]
  <2> SUFFICES ASSUME NEW k \in 1..n
               PROVE  (IF Unset(Kind(K, k), m[Name(K, k)]) THEN 0
                       ELSE Size(Field(k, Kind(K, k), m[Name(K, k)]))) = sizes[k]
    OBVIOUS
  <2>1. e[k] = Field(k, Kind(K, k), m[Name(K, k)])
    BY <1>6, Zenon DEF Entry, Value
  <2>2. k \in on <=> ~Unset(Kind(K, k), m[Name(K, k)])
    BY <1>3, <1>4, <1>5 DEF Given, Value
  <2> QED
    BY <1>11, <2>1, <2>2
<1>21. [k \in DOMAIN LidarScanFields |->
           IF Unset(Kind(LidarScanFields, k), m[Name(LidarScanFields, k)]) THEN 0
           ELSE Size(Field(k, Kind(LidarScanFields, k), m[Name(LidarScanFields, k)]))] = sizes
  BY <1>2, <1>3, <1>4, <1>11, <1>20
<1>22. SumOf(sizes) \in Nat
  <2>1. n = Len(sizes)
    BY <1>11
  <2>2. \A k \in 1..n : sizes[k] \in Nat
    BY <1>9, <1>10, <1>11
  <2> QED
    BY <2>1, <2>2, SumIsNat
<1>23. LidarScanByteSize(m) = SumOf(sizes) + 0
  BY <1>18, <1>19, <1>21, TotalOfNone
<1>24. LidarScanByteSize(m) = SumOf(sizes)
  BY <1>22, <1>23
<1> QED
  BY <1>1, <1>17, <1>24, BodyIs

(* The encoder's one object shows nothing of the scan before.               *)
LEMMA EncoderObject ==
  ASSUME NEW scans, NEW n \in Nat, n = Len(scans)
  PROVE  \A i \in 1..n : EncoderWires(scans)[i] = to_proto(scans[i], LidarScanNew)
<1> DEFINE F(f) == [i \in 0..n |-> IF i = 0 THEN LidarScanNew ELSE to_proto(scans[i], f[i - 1])]
           h == CHOOSE f : f = F(f)
<1>1. PICK e : e = [i \in 0..n |-> IF i = 0 THEN LidarScanNew ELSE to_proto(scans[i], LidarScanNew)]
  OBVIOUS
<1>2. \A i \in 0..n : Usable(e[i], LidarScanNew)
  BY <1>1, NewScan, ScanObjectReused
<1>3. \A i \in 0..n : i = 0 \/ i - 1 \in 0..n
  OBVIOUS
<1>4. \A i \in 0..n : i # 0 => to_proto(scans[i], e[i - 1]) = to_proto(scans[i], LidarScanNew)
  BY <1>2, <1>3, ScanObjectReused
<1>5. e = F(e)
  BY <1>1, <1>4
<1>6. h = F(h)
  BY <1>5, Zenon
<1>7. EncoderWires(scans) = h
  BY Zenon DEF EncoderWires
<1> HIDE DEF h
<1>8. \A i \in 0..n : h[i] = IF i = 0 THEN LidarScanNew ELSE to_proto(scans[i], h[i - 1])
  BY <1>6
<1> DEFINE T == {i \in 0..n : Usable(h[i], LidarScanNew)}
<1>9. 0 \in T
  BY <1>8, NewScan
<1>10. ASSUME NEW i \in 1..n, i - 1 \in T PROVE i \in T
  <2>1. i \in 0..n /\ i # 0
    OBVIOUS
  <2>2. Usable(h[i - 1], LidarScanNew)
    BY <1>10
  <2>3. h[i] = to_proto(scans[i], h[i - 1])
    BY <1>8, <2>1
  <2> QED
    BY <2>1, <2>2, <2>3, ScanObjectReused
<1>11. \A i \in 0..n : i \in T
  <2>1. \A i \in 1..n : i - 1 \in T => i \in T
    BY <1>10
  <2> HIDE DEF T
  <2> QED
    BY <1>9, <2>1, Inductive
<1>12. ASSUME NEW i \in 1..n PROVE h[i] = to_proto(scans[i], LidarScanNew)
  <2>1. i - 1 \in 0..n /\ i \in 0..n /\ i # 0
    OBVIOUS
  <2>2. Usable(h[i - 1], LidarScanNew)
    BY <1>11, <2>1
  <2>3. h[i] = to_proto(scans[i], h[i - 1])
    BY <1>8, <2>1
  <2> QED
    BY <2>2, <2>3, ScanObjectReused
<1> QED
  BY <1>7, <1>12

(* The bytes of a reply.                                                   *)
Part(scan) == u32_le(Len(Body(scan))) \o Body(scan)

(* encode_scans: the count, and each scan behind its length.               *)
LEMMA ReplyIs ==
  ASSUME NEW n \in Nat, NEW scans, scans = [i \in 1..n |-> scans[i]], \A i \in 1..n : scans[i] \in Scan
  PROVE  encode_scans(scans) = u32_le(n) \o FlattenSeq([i \in 1..n |-> Part(scans[i])])
<1>1. n = Len(scans) /\ DOMAIN scans = 1..n
  OBVIOUS
<1>2. PICK h : h = EncoderWires(scans)
  OBVIOUS
<1>3. \A i \in 1..n : h[i] = to_proto(scans[i], LidarScanNew)
  BY <1>1, <1>2, EncoderObject
<1>4. encode_scans(scans) = u32_le(Len(scans)) \o FlattenSeq([i \in DOMAIN scans |->
       u32_le(LidarScanByteSize(h[i])) \o Bytes(LidarScanWrite(h[i]))])
  BY <1>2, Zenon DEF encode_scans
<1>5. ASSUME NEW i \in 1..n
      PROVE  u32_le(LidarScanByteSize(h[i])) \o Bytes(LidarScanWrite(h[i])) = Part(scans[i])
  <2>1. LidarScanByteSize(h[i]) = Len(Body(scans[i]))
    BY <1>3, ByteSizeIs
  <2>2. Bytes(LidarScanWrite(h[i])) = Body(scans[i])
    BY <1>3, Zenon DEF Body, Written
  <2> QED
    BY <2>1, <2>2, Zenon DEF Part
<1>6. [i \in DOMAIN scans |-> u32_le(LidarScanByteSize(h[i])) \o Bytes(LidarScanWrite(h[i]))]
      = [i \in 1..n |-> Part(scans[i])]
  BY <1>1, <1>5
<1> QED
  BY <1>1, <1>4, <1>6

(* A reply decodes to what its scans are in a message, and to nothing when  *)
(* it is cut.                                                              *)
LEMMA ReplyIsFramed ==
  ASSUME NEW n \in Nat, n <= Widest, NEW scans, scans = [i \in 1..n |-> scans[i]],
         \A i \in 1..n : scans[i] \in Scan /\ Len(Body(scans[i])) <= Widest
  PROVE  \E O, pos : /\ Framing(encode_scans(scans), pos, [i \in 1..n |-> Body(scans[i])], n, O)
                     /\ Sound([i \in 1..n |-> Body(scans[i])], n, O)
<1>1. PICK O : O = Octets(FieldsOfScans) \cup [u8 : Nat]
  OBVIOUS
<1>2. HasNumbers(O) /\ Octets(FieldsOfScans) \subseteq O
  BY <1>1 DEF HasNumbers
<1>3. PICK body : body = [i \in 1..n |-> Body(scans[i])]
  OBVIOUS
<1>4. PICK q : q = [i \in 1..n |-> Part(scans[i])]
  OBVIOUS
<1>5. ASSUME NEW i \in 1..n
      PROVE  body[i] \in Seq(O) /\ Len(body[i]) <= Widest /\ body[i] = Body(scans[i])
  <2>1. PICK b : b = Body(scans[i])
    OBVIOUS
  <2>2. b \in Seq(Octets(FieldsOfScans))
    BY <2>1, BodyIs
  <2>3. b \in Seq(O)
    BY <1>2, <2>2, SeqMonotonic
  <2> QED
    BY <1>3, <2>1, <2>3
<1>6. ASSUME NEW i \in 1..n
      PROVE  q[i] \in Seq(O) /\ IsPart(q[i], body[i])
  <2>1. PICK b \in Seq(O) : b = body[i] /\ Len(b) <= Widest /\ b = Body(scans[i])
    BY <1>5
  <2>2. q[i] = u32_le(Len(b)) \o b
    BY <1>4, <2>1 DEF Part
  <2> QED
    BY <1>2, <2>1, <2>2, PartMade
<1>7. PICK Q : Q = Seq(O)
  OBVIOUS
<1>8. q \in Seq(Q) /\ n = Len(q)
  <2>1. \A i \in 1..n : q[i] \in Q
    BY <1>6, <1>7
  <2> QED
    BY <1>4, <2>1
<1>9. q \in Seq(Seq(O))
  BY <1>7, <1>8
<1>10. \A i \in 1..n : body[i] \in Seq(O) /\ IsPart(q[i], body[i])
  BY <1>5, <1>6
<1>11. \E pos : Framing(u32_le(n) \o FlattenSeq(q), pos, body, n, O)
  BY <1>2, <1>8, <1>9, <1>10, Framed
<1>12. encode_scans(scans) = u32_le(n) \o FlattenSeq(q)
  BY <1>4, ReplyIs
<1>13. Sound(body, n, O)
  <2> SUFFICES ASSUME NEW i \in 1..n
               PROVE  body[i] \in Seq(O) /\ Len(body[i]) <= Widest /\ Says(body[i]).ok
    BY DEF Sound
  <2>1. Says(body[i]) = Reread(scans[i])
    BY <1>5, BodyIs, Zenon DEF Says, Reread, Written
  <2>2. Reread(scans[i]).ok
    BY ScanComesBack
  <2> QED
    BY <1>5, <2>1, <2>2
<1> QED
  BY <1>3, <1>11, <1>12, <1>13

(* Scans that fit into a reply, and a reply that decodes to them, and to    *)
(* nothing when it is cut.                                                 *)
Fitting(scans, n) ==
  /\ scans = [i \in 1..n |-> scans[i]]
  /\ \A i \in 1..n : scans[i] \in Scan /\ Len(Body(scans[i])) <= Widest

Returning(bytes, scans, n) ==
  /\ decode_scans(bytes).ok /\ Len(decode_scans(bytes).scans) = n
  /\ \A i \in 1..n : decode_scans(bytes).scans[i] = Back(scans[i])
  /\ \A cut \in 0..(Len(bytes) - 1) : ~decode_scans(SubSeq(bytes, 1, cut)).ok

(* query_wire.cpp: a reply of any scans decodes to these scans, in their    *)
(* order, and is refused when it is cut anywhere.                          *)
THEOREM ReplyDecodes ==
  ASSUME NEW n \in Nat, n <= Widest, NEW scans, Fitting(scans, n)
  PROVE  Returning(encode_scans(scans), scans, n)
<1>1. PICK body : body = [i \in 1..n |-> Body(scans[i])]
  OBVIOUS
<1>2. PICK bytes : bytes = encode_scans(scans)
  OBVIOUS
<1>3. PICK O, pos : Framing(bytes, pos, body, n, O) /\ Sound(body, n, O)
  BY <1>1, <1>2, ReplyIsFramed DEF Fitting
<1>4. /\ decode_scans(bytes).ok /\ Len(decode_scans(bytes).scans) = n
      /\ \A i \in 1..n : decode_scans(bytes).scans[i] = Told(body[i])
  <2>1. DecodesTo(bytes, body, n)
    BY <1>3, DecodesAll
  <2> QED
    BY <2>1, Zenon DEF DecodesTo
<1>5. \A cut \in 0..(Len(bytes) - 1) : ~decode_scans(SubSeq(bytes, 1, cut)).ok
  BY <1>3, CutRefused
<1>6. \A i \in 1..n : Told(body[i]) = Back(scans[i])
  <2> SUFFICES ASSUME NEW i \in 1..n PROVE Told(body[i]) = Back(scans[i])
    OBVIOUS
  <2>1. body[i] = Body(scans[i]) /\ scans[i] \in Scan
    BY <1>1 DEF Fitting
  <2> QED
    BY <2>1, BodyIs, Zenon DEF Told, Says, Back, Reread, Written
<1>7. Returning(bytes, scans, n)
  BY <1>4, <1>5, <1>6 DEF Returning
<1> QED
  BY <1>2, <1>7

-----------------------------------------------------------------------------
(* Clouds.                                                                 *)

(* Clouds, in the same way.                                                *)
CloudNames == {"frame_id", "stamp_ns", "scan_time_ns", "range_min", "range_max",
               "ranges", "azimuths", "elevations", "intensities"}

(* The fields of a cloud's message.                                        *)
LEMMA CloudFields ==
  /\ {Name(LidarPointCloudFields, k) : k \in 1..9} = CloudNames
  /\ DOMAIN LidarPointCloudNew = CloudNames \cup {"unknown"}
  /\ LidarPointCloudNew["unknown"] = <<>>
<1>1. {Name(LidarPointCloudFields, k) : k \in 1..9} = CloudNames
  BY DEF LidarPointCloudFields, Name, CloudNames
<1>2. /\ DOMAIN New(LidarPointCloudFields)
           = {Name(LidarPointCloudFields, k) : k \in 1..9} \cup {"unknown"}
      /\ New(LidarPointCloudFields)["unknown"] = <<>>
  BY CloudIsFlat, NewIs
<1> QED
  BY <1>1, <1>2 DEF LidarPointCloudNew

(* What a cloud has in a field is what its message has.                    *)
LEMMA CloudInMessage ==
  ASSUME NEW cloud
  PROVE  LET m == cloud_to_proto(cloud, LidarPointCloudNew)
         IN m.unknown = <<>> /\ \A x \in CloudNames : m[x] = cloud[x]
<1>1. "unknown" \notin CloudNames
  BY DEF CloudNames
<1> QED
  BY <1>1, CloudFields DEF cloud_to_proto, copy_floats

(* A cloud's message can be written and read.                              *)
LEMMA CloudIsSendable ==
  ASSUME NEW cloud \in PointCloud
  PROVE  Sendable(LidarPointCloudFields, cloud_to_proto(cloud, LidarPointCloudNew), 9)
<1>1. PICK m : m = cloud_to_proto(cloud, LidarPointCloudNew)
  OBVIOUS
<1>2. m.unknown = <<>> /\ \A x \in CloudNames : m[x] = cloud[x]
  BY <1>1, CloudInMessage
<1>3. \A k \in 1..9 :
        /\ Kind(LidarPointCloudFields, k) = "text" => Name(LidarPointCloudFields, k) = "frame_id"
        /\ Kind(LidarPointCloudFields, k) = "floats" =>
             Name(LidarPointCloudFields, k) \in {"ranges", "azimuths", "elevations", "intensities"}
  BY DEF LidarPointCloudFields, Name, Kind
<1>4. /\ cloud.frame_id # Garbled /\ cloud.ranges \in Seq(Float) /\ cloud.azimuths \in Seq(Float)
      /\ cloud.elevations \in Seq(Float) /\ cloud.intensities \in Seq(Float)
  BY DEF PointCloud, Utf8
<1>5. /\ m.frame_id # Garbled /\ IsSeq(m.ranges) /\ IsSeq(m.azimuths)
      /\ IsSeq(m.elevations) /\ IsSeq(m.intensities)
  BY <1>2, <1>4 DEF IsSeq, CloudNames
<1>6. Sendable(LidarPointCloudFields, m, 9)
  BY <1>2, <1>3, <1>5 DEF Sendable, Value
<1> QED
  BY <1>1, <1>6

(* One cloud through the bytes, from a new object to another.              *)
RereadCloud(cloud) ==
  LidarPointCloudParse(LidarPointCloudNew,
    LidarPointCloudWrite(cloud_to_proto(cloud, LidarPointCloudNew)))

(* cloud_codec.cpp: any cloud comes through the bytes as it was.            *)
THEOREM CloudsComeBack ==
  ASSUME NEW cloud \in PointCloud
  PROVE  /\ RereadCloud(cloud).ok
         /\ AsNumbers(cloud_from_proto(RereadCloud(cloud).msg)) = AsNumbers(cloud)
<1>1. PICK m : m = cloud_to_proto(cloud, LidarPointCloudNew)
  OBVIOUS
<1>2. PICK K : K = LidarPointCloudFields
  OBVIOUS
<1>3. FlatType(K, 9) /\ Sendable(K, m, 9)
  BY <1>1, <1>2, CloudIsFlat, CloudIsSendable
<1>4. PICK back : back = Afresh(K, Write(K, NoSubWrite, m))
  OBVIOUS
<1>5. back.ok /\ \A k \in 1..9 : back.msg[Name(K, k)] = Settled(Kind(K, k), Value(K, m, k))
  BY <1>3, <1>4, FlatComesBack, Zenon
<1>6. RereadCloud(cloud) = back
  BY <1>1, <1>2, <1>4, Zenon
  DEF RereadCloud, LidarPointCloudParse, LidarPointCloudNew, LidarPointCloudWrite, Afresh
<1>7. DOMAIN back.msg = CloudNames \cup {"unknown"}
  <2>1. back.msg = ReadInto(K, NoSubRead, New(K),
                     Kept(K, NoSubReadable, Write(K, NoSubWrite, m)))
    BY <1>4, Zenon DEF Afresh
  <2>2. DOMAIN back.msg = DOMAIN New(K)
    BY <2>1, Zenon DEF ReadInto
  <2> QED
    BY <1>2, <2>2, CloudFields DEF LidarPointCloudNew
<1>8. PICK r : r = back.msg
  OBVIOUS
<1>9. ASSUME NEW x \in CloudNames PROVE Alike(r[x], cloud[x])
  <2>1. PICK k \in 1..9 : x = Name(K, k)
    BY <1>2, CloudFields
  <2>2. Value(K, m, k) = cloud[x]
    BY <1>1, <2>1, CloudInMessage DEF Value
  <2> QED
    BY <1>5, <1>8, <2>1, <2>2, SettledIs
<1>10. PICK b : b = cloud_from_proto(r)
  OBVIOUS
<1>11. b = [x \in CloudNames |-> r[x]]
  <2>1. (CloudNames \cup {"unknown"}) \ {"unknown"} = CloudNames
    BY DEF CloudNames
  <2> QED
    BY <1>7, <1>8, <1>10, <2>1 DEF cloud_from_proto
<1>12. DOMAIN cloud = CloudNames
  BY DEF PointCloud, CloudNames
<1>13. \A x \in CloudNames :
        (IF b[x] = NegZero THEN 0 ELSE b[x]) = (IF cloud[x] = NegZero THEN 0 ELSE cloud[x])
  BY <1>9, <1>11 DEF Alike
<1>14. DOMAIN b = CloudNames
  BY <1>11
<1>15. AsNumbers(b) = AsNumbers(cloud)
  BY <1>12, <1>13, <1>14 DEF AsNumbers
<1> QED
  BY <1>5, <1>6, <1>8, <1>10, <1>15

-----------------------------------------------------------------------------
(* The message header, and the beats that carry it.                         *)

HeaderNames == {"schema_version", "publisher", "sequence", "publish_time_ns", "unknown"}

(* The field that a newer build adds.                                      *)
LaterField == Field(14, "int", 1)

Later(version) == IF version > kSchemaVersion THEN <<LaterField>> ELSE <<>>

(* A header as a program stamps it.                                        *)
HeaderOf(version, number, now, later) ==
  [x \in HeaderNames |-> CASE x = "schema_version"  -> version
                           [] x = "publisher"       -> "auv"
                           [] x = "sequence"        -> number
                           [] x = "publish_time_ns" -> now
                           [] OTHER                 -> later]

LEMMA HeaderIsFlat ==
  /\ FlatType(HeaderFields, 4)
  /\ {Name(HeaderFields, k) : k \in 1..4} \cup {"unknown"} = HeaderNames
  /\ Name(HeaderFields, 1) = "schema_version" /\ Kind(HeaderFields, 1) = "int"
  /\ \A k \in 1..4 : /\ Kind(HeaderFields, k) \in {"int", "text"}
                     /\ Kind(HeaderFields, k) = "text" => Name(HeaderFields, k) = "publisher"
<1>1. DOMAIN HeaderFields = 1..4
  BY DEF HeaderFields
<1>2. {Name(HeaderFields, k) : k \in 1..4} \cup {"unknown"} = HeaderNames
  BY DEF HeaderFields, Name, HeaderNames
<1>3. \A k \in 1..4 : /\ Kind(HeaderFields, k) \in {"int", "text"}
                      /\ Kind(HeaderFields, k) = "text" => Name(HeaderFields, k) = "publisher"
                      /\ Name(HeaderFields, k) # "unknown"
  BY DEF HeaderFields, Name, Kind
<1>4. \A k, l \in 1..4 : Name(HeaderFields, k) = Name(HeaderFields, l) => k = l
  BY DEF HeaderFields, Name
<1>5. Name(HeaderFields, 1) = "schema_version" /\ Kind(HeaderFields, 1) = "int"
  BY DEF HeaderFields, Name, Kind
<1>6. FlatType(HeaderFields, 4)
  BY <1>1, <1>3, <1>4 DEF FlatType, FlatKinds
<1> QED
  BY <1>2, <1>3, <1>5, <1>6

LEMMA NewHeader ==
  /\ DOMAIN HeaderNew = HeaderNames /\ HeaderNew = [x \in HeaderNames |-> HeaderNew[x]]
  /\ HeaderNew["unknown"] = <<>>
  /\ \A k \in 1..4 : HeaderNew[Name(HeaderFields, k)] = Default[Kind(HeaderFields, k)]
<1>1. /\ DOMAIN New(HeaderFields) = {Name(HeaderFields, k) : k \in 1..4} \cup {"unknown"}
      /\ New(HeaderFields)["unknown"] = <<>>
      /\ \A k \in 1..4 : New(HeaderFields)[Name(HeaderFields, k)] = Default[Kind(HeaderFields, k)]
  BY HeaderIsFlat, NewIs
<1>2. New(HeaderFields) = [x \in DOMAIN New(HeaderFields) |-> New(HeaderFields)[x]]
  BY DEF New
<1> QED
  BY <1>1, <1>2, HeaderIsFlat DEF HeaderNew

LEMMA HeaderIs ==
  ASSUME NEW version, NEW number, NEW now, NEW later
  PROVE  /\ HeaderOf(version, number, now, later).schema_version = version
         /\ HeaderOf(version, number, now, later).publisher = "auv"
         /\ HeaderOf(version, number, now, later).sequence = number
         /\ HeaderOf(version, number, now, later).publish_time_ns = now
         /\ HeaderOf(version, number, now, later).unknown = later
         /\ HeaderOf(version, number, now, later)
              = [x \in HeaderNames |-> HeaderOf(version, number, now, later)[x]]
BY DEF HeaderOf, HeaderNames

(* message.cpp: what stamp() sets of a new header.                          *)
LEMMA StampedIs ==
  ASSUME NEW number, NEW now
  PROVE  stamp_header(mutable_header(HeartbeatNew.header), "auv", number, now)
           = HeaderOf(kSchemaVersion, number, now, <<>>)
<1>1. HeartbeatNew.header = <<>>
  <2>1. "header" \in {Name(HeartbeatFields, k) : k \in DOMAIN HeartbeatFields}
    BY DEF HeartbeatFields, Name
  <2>2. \A k \in DOMAIN HeartbeatFields : Name(HeartbeatFields, k) = "header" => k = 1
    BY DEF HeartbeatFields, Name
  <2>3. 1 \in DOMAIN HeartbeatFields /\ Name(HeartbeatFields, 1) = "header"
        /\ Kind(HeartbeatFields, 1) = "header"
    BY DEF HeartbeatFields, Name, Kind
  <2>4. Number(HeartbeatFields, "header") = 1
    BY <2>2, <2>3 DEF Number
  <2>5. Default["header"] = <<>>
    BY DEF Default
  <2> QED
    BY <2>1, <2>3, <2>4, <2>5 DEF HeartbeatNew, New
<1>2. mutable_header(HeartbeatNew.header) = HeaderNew
  BY <1>1 DEF mutable_header
<1>3. PICK h : h = HeaderNew
  OBVIOUS
<1>4. h = [x \in HeaderNames |-> h[x]] /\ h["unknown"] = <<>>
  BY <1>3, NewHeader
<1> DEFINE one   == [h EXCEPT !.schema_version = kSchemaVersion]
           two   == [one EXCEPT !.publisher = "auv"]
           three == [two EXCEPT !.sequence = number]
           four  == [three EXCEPT !.publish_time_ns = now]
<1>5. four = HeaderOf(kSchemaVersion, number, now, <<>>)
  <2>1. one = [x \in HeaderNames |-> IF x = "schema_version" THEN kSchemaVersion ELSE h[x]]
    BY <1>4 DEF HeaderNames
  <2> HIDE DEF one
  <2>2. two = [x \in HeaderNames |-> IF x = "publisher" THEN "auv" ELSE one[x]]
    BY <2>1 DEF HeaderNames
  <2> HIDE DEF two
  <2>3. three = [x \in HeaderNames |-> IF x = "sequence" THEN number ELSE two[x]]
    BY <2>2 DEF HeaderNames
  <2> HIDE DEF three
  <2>4. four = [x \in HeaderNames |-> IF x = "publish_time_ns" THEN now ELSE three[x]]
    BY <2>3 DEF HeaderNames
  <2> HIDE DEF four
  <2> QED
    BY <1>4, <2>1, <2>2, <2>3, <2>4 DEF HeaderOf, HeaderNames
<1>6. stamp_header(h, "auv", number, now) = four
  BY DEF stamp_header, set_publish_time_ns, set_sequence, set_publisher, set_schema_version
<1> QED
  BY <1>2, <1>3, <1>5, <1>6

(* A header can be written and read.                                       *)
LEMMA HeaderIsSendable ==
  ASSUME NEW version, NEW number, NEW now
  PROVE  Sendable(HeaderFields, HeaderOf(version, number, now, <<>>), 4)
<1>1. PICK h : h = HeaderOf(version, number, now, <<>>)
  OBVIOUS
<1>2. h.unknown = <<>> /\ h["publisher"] = "auv"
  BY <1>1, HeaderIs
<1>3. "auv" # Garbled
  BY SamplesAssumption DEF Utf8
<1>4. Sendable(HeaderFields, h, 4)
  BY <1>2, <1>3, HeaderIsFlat DEF Sendable, Value
<1> QED
  BY <1>1, <1>4

LEMMA HeaderValue ==
  ASSUME NEW version, NEW number, NEW now, NEW h, h = HeaderOf(version, number, now, <<>>)
  PROVE  /\ Readable(HeaderFields, NoSubReadable, HeaderWrite(h))
         /\ Kept(HeaderFields, NoSubReadable, HeaderWrite(h)) = HeaderWrite(h)
         /\ \A k \in 1..4 : ReadInto(HeaderFields, NoSubRead, New(HeaderFields), HeaderWrite(h))
                              [Name(HeaderFields, k)] = h[Name(HeaderFields, k)]
         /\ ReadInto(HeaderFields, NoSubRead, New(HeaderFields), HeaderWrite(h))["unknown"] = <<>>
<1>1. FlatType(HeaderFields, 4) /\ Sendable(HeaderFields, h, 4)
  BY HeaderIsFlat, HeaderIsSendable
<1>2. PICK fs : fs = HeaderWrite(h)
  OBVIOUS
<1>3. fs = Write(HeaderFields, NoSubWrite, h)
  BY <1>2, Zenon DEF HeaderWrite
<1>4. Enumerates(fs, HeaderFields, h, 4)
  BY <1>1, <1>3, WritesSet, Zenon
<1>5. Readable(HeaderFields, NoSubReadable, fs) /\ Kept(HeaderFields, NoSubReadable, fs) = fs
  BY <1>1, <1>4, AllReadable, Zenon
<1>6. ReadInto(HeaderFields, NoSubRead, New(HeaderFields), fs)["unknown"] = <<>>
  BY <1>1, <1>4, UnknownRead, Zenon
<1>7. ASSUME NEW k \in 1..4
      PROVE  ReadInto(HeaderFields, NoSubRead, New(HeaderFields), fs)[Name(HeaderFields, k)]
               = h[Name(HeaderFields, k)]
  <2>1. ReadInto(HeaderFields, NoSubRead, New(HeaderFields), fs)[Name(HeaderFields, k)]
          = Settled(Kind(HeaderFields, k), Value(HeaderFields, h, k))
    BY <1>1, <1>4, FieldComesBack, Zenon
  <2>2. Kind(HeaderFields, k) # "float"
    BY HeaderIsFlat
  <2>3. Settled(Kind(HeaderFields, k), Value(HeaderFields, h, k)) = Value(HeaderFields, h, k)
    BY <2>2, SettledIs, Zenon
  <2> QED
    BY <2>1, <2>3, Zenon DEF Value
<1> QED
  BY <1>2, <1>5, <1>6, <1>7, Zenon

(* message.cpp, envelope.proto: a header that stamp() made is read from its *)
(* bytes, into a new object, as it was.                                    *)
THEOREM HeaderComesBack ==
  ASSUME NEW version, NEW number, NEW now, NEW h, h = HeaderOf(version, number, now, <<>>)
  PROVE  HeaderReadable(HeaderWrite(h)) /\ HeaderRead(HeaderNew, HeaderWrite(h)) = h
<1>1. HeaderReadable(HeaderWrite(h))
  BY HeaderValue, Zenon DEF HeaderReadable
<1>2. PICK r : r = HeaderRead(HeaderNew, HeaderWrite(h))
  OBVIOUS
<1>3. r = ReadInto(HeaderFields, NoSubRead, New(HeaderFields), HeaderWrite(h))
  BY <1>2, Zenon DEF HeaderRead, HeaderNew
<1>4. r = [x \in DOMAIN r |-> r[x]] /\ DOMAIN r = DOMAIN New(HeaderFields)
  <2>1. PICK D, G : r = [x \in D |-> G[x]] /\ D = DOMAIN New(HeaderFields)
    <3> DEFINE new == New(HeaderFields)
               fs  == HeaderWrite(h)
               V(x) == IF x = "unknown"
     THEN new[x] \o FlattenSeq([i \in DOMAIN fs |-> IF Fits(HeaderFields, fs[i]) THEN <<>> ELSE <<fs[i]>>])
     ELSE LET own  == {i \in DOMAIN fs : Fits(HeaderFields, fs[i]) /\ Name(HeaderFields, fs[i].n) = x}
              kind == Kind(HeaderFields, Number(HeaderFields, x))
          IN IF own = {} THEN new[x]
             ELSE CASE kind = "floats" ->
                         new[x] \o FlattenSeq([i \in DOMAIN fs |->
                                   IF i \in own THEN Elements(fs[i]) ELSE <<>>])
                    [] kind = "header" ->
                         <<NoSubRead(new[x], FlattenSeq([i \in DOMAIN fs |->
                                           IF i \in own THEN Payload(fs[i]) ELSE <<>>]))>>
                    [] OTHER -> fs[Max(own)].v
    <3>1. r = [x \in DOMAIN new |-> V(x)]
      BY <1>3, Zenon DEF ReadInto
    <3> HIDE DEF V, new
    <3>2. PICK G : G = [x \in DOMAIN new |-> V(x)]
      OBVIOUS
    <3>3. r = [x \in DOMAIN new |-> G[x]]
      BY <3>1, <3>2
    <3> QED
      BY <3>3 DEF new
  <2> QED
    BY <2>1
<1>5. \A k \in 1..4 : r[Name(HeaderFields, k)] = h[Name(HeaderFields, k)]
  BY <1>3, HeaderValue, Zenon
<1>6. r["unknown"] = h["unknown"]
  BY <1>3, HeaderValue, HeaderIs
<1>7. DOMAIN r = HeaderNames
  BY <1>4, NewHeader DEF HeaderNew
<1>8. \A x \in HeaderNames : r[x] = h[x]
  <2> SUFFICES ASSUME NEW x \in HeaderNames PROVE r[x] = h[x]
    OBVIOUS
  <2>1. CASE x = "unknown"
    BY <1>6, <2>1
  <2>2. CASE x # "unknown"
    <3>1. PICK k \in 1..4 : x = Name(HeaderFields, k)
      BY <2>2, HeaderIsFlat
    <3> QED
      BY <1>5, <3>1
  <2> QED
    BY <2>1, <2>2
<1>9. h = [x \in HeaderNames |-> h[x]]
  BY HeaderIs
<1>10. r = h
  BY <1>4, <1>7, <1>8, <1>9
<1> QED
  BY <1>1, <1>2, <1>10, Zenon

(* message.cpp: the accepted header is copied out as it is.                 *)
LEMMA HeaderCopied ==
  ASSUME NEW version, NEW number, NEW now, NEW h, h = HeaderOf(version, number, now, <<>>)
  PROVE  HeaderCopyFrom(HeaderNew, h) = h
<1>1. PICK m : m = HeaderNew
  OBVIOUS
<1>2. DOMAIN m = HeaderNames /\ m["unknown"] = <<>>
  BY <1>1, NewHeader
<1>3. PICK c : c = HeaderCopyFrom(HeaderNew, h)
  OBVIOUS
<1>4. c = [x \in DOMAIN m |->
     IF x = "unknown" THEN m[x] \o h[x]
     ELSE LET kind == Kind(HeaderFields, Number(HeaderFields, x))
          IN IF Unset(kind, h[x]) THEN m[x]
             ELSE IF kind = "floats" THEN m[x] \o h[x] ELSE h[x]]
  BY <1>1, <1>3, Zenon DEF HeaderCopyFrom, HeaderMergeFrom, HeaderClear, MergeInto
<1>5. ASSUME NEW x \in HeaderNames PROVE c[x] = h[x]
  <2>1. CASE x = "unknown"
    <3>1. h["unknown"] = <<>>
      BY HeaderIs
    <3>2. <<>> \o <<>> = <<>>
      OBVIOUS
    <3>3. c[x] = m[x] \o h[x]
      BY <1>2, <1>4, <1>5, <2>1, Zenon
    <3> QED
      BY <1>2, <2>1, <3>1, <3>2, <3>3, Zenon
  <2>2. CASE x # "unknown"
    <3>1. PICK k \in 1..4 : x = Name(HeaderFields, k)
      BY <1>5, <2>2, HeaderIsFlat
    <3>2. Number(HeaderFields, x) = k
      BY <3>1, HeaderIsFlat, NumberOf
    <3>3. PICK kind : kind = Kind(HeaderFields, k)
      OBVIOUS
    <3>4. c[x] = IF Unset(kind, h[x]) THEN m[x]
                 ELSE IF kind = "floats" THEN m[x] \o h[x] ELSE h[x]
      BY <1>2, <1>4, <1>5, <2>2, <3>2, <3>3, Zenon
    <3>5. kind # "floats" /\ kind # "float"
      BY <3>3, HeaderIsFlat
    <3>6. m[x] = Default[kind]
      BY <1>1, <3>1, <3>3, NewHeader
    <3>7. Unset(kind, h[x]) => h[x] = Default[kind]
      BY <3>5 DEF Unset
    <3> QED
      BY <3>4, <3>5, <3>6, <3>7, Zenon
  <2> QED
    BY <2>1, <2>2
<1>6. h = [x \in HeaderNames |-> h[x]]
  BY HeaderIs
<1>7. c = [x \in HeaderNames |-> c[x]]
  <2> DEFINE V(x) == IF x = "unknown" THEN m[x] \o h[x]
     ELSE LET kind == Kind(HeaderFields, Number(HeaderFields, x))
          IN IF Unset(kind, h[x]) THEN m[x]
             ELSE IF kind = "floats" THEN m[x] \o h[x] ELSE h[x]
  <2>1. c = [x \in HeaderNames |-> V(x)]
    BY <1>2, <1>4, Zenon
  <2> HIDE DEF V
  <2> QED
    BY <2>1
<1>8. c = h
  BY <1>5, <1>6, <1>7
<1> QED
  BY <1>3, <1>8

(* A scalar that is on the wire once, or not at all.                        *)
LEMMA ReadOnce ==
  ASSUME NEW K, NEW n, FlatType(K, n), NEW k \in 1..n, Kind(K, k) # "floats",
         NEW fs, NEW j \in Nat, Own(fs, K, Name(K, k)) = {j}
  PROVE  ReadInto(K, NoSubRead, New(K), fs)[Name(K, k)] = fs[j].v
<1>1. PICK x : x = Name(K, k)
  OBVIOUS
<1>2. PICK r : r = ReadInto(K, NoSubRead, New(K), fs)[x]
  OBVIOUS
<1>3. r = IF Own(fs, K, x) = {} THEN New(K)[x]
          ELSE IF Kind(K, k) = "floats"
               THEN New(K)[x] \o FlattenSeq([i \in DOMAIN fs |->
                      IF i \in Own(fs, K, x) THEN Elements(fs[i]) ELSE <<>>])
               ELSE fs[Max(Own(fs, K, x))].v
  BY <1>1, <1>2, FieldRead, Zenon
<1>4. Max({j}) = j
  <2>1. j >= j
    OBVIOUS
  <2> QED
    BY <2>1, Zenon DEF Max
<1>5. {j} # {}
  OBVIOUS
<1> QED
  BY <1>1, <1>2, <1>3, <1>4, <1>5, Zenon

LEMMA ReadNowhere ==
  ASSUME NEW K, NEW n, FlatType(K, n), NEW k \in 1..n, NEW fs, Own(fs, K, Name(K, k)) = {}
  PROVE  ReadInto(K, NoSubRead, New(K), fs)[Name(K, k)] = Default[Kind(K, k)]
<1>1. PICK x : x = Name(K, k)
  OBVIOUS
<1>2. PICK r : r = ReadInto(K, NoSubRead, New(K), fs)[x]
  OBVIOUS
<1>3. r = IF Own(fs, K, x) = {} THEN New(K)[x]
          ELSE IF Kind(K, k) = "floats"
               THEN New(K)[x] \o FlattenSeq([i \in DOMAIN fs |->
                      IF i \in Own(fs, K, x) THEN Elements(fs[i]) ELSE <<>>])
               ELSE fs[Max(Own(fs, K, x))].v
  BY <1>1, <1>2, FieldRead, Zenon
<1>4. New(K)[x] = Default[Kind(K, k)]
  BY <1>1, NewIs, Zenon
<1> QED
  BY <1>1, <1>2, <1>3, <1>4, Zenon

(* A header with the field of a newer build still says its version.         *)
LEMMA VersionRead ==
  ASSUME NEW version, NEW number, NEW now, NEW later, later \in {<<>>, <<LaterField>>},
         NEW h, h = HeaderOf(version, number, now, later)
  PROVE  /\ HeaderReadable(HeaderWrite(h))
         /\ HeaderRead(HeaderNew, HeaderWrite(h)).schema_version = version
         /\ IsSeq(HeaderWrite(h))
<1>1. PICK b : b = HeaderOf(version, number, now, <<>>)
  OBVIOUS
<1>2. FlatType(HeaderFields, 4) /\ Sendable(HeaderFields, b, 4)
  BY <1>1, HeaderIsFlat, HeaderIsSendable
<1>3. PICK ws : ws = HeaderWrite(b)
  OBVIOUS
<1>4. Enumerates(ws, HeaderFields, b, 4)
  BY <1>2, <1>3, WritesSet, Zenon DEF HeaderWrite
<1>5. HeaderWrite(h) = ws \o later
  <2> DEFINE Out(m, n) == IF Unset(Kind(HeaderFields, n), m[Name(HeaderFields, n)]) THEN <<>>
                ELSE <<Field(n, Kind(HeaderFields, n), IF Kind(HeaderFields, n) = "header"
                                            THEN NoSubWrite(m[Name(HeaderFields, n)][1])
                                            ELSE m[Name(HeaderFields, n)])>>
  <2>1. \A m : HeaderWrite(m) = FlattenSeq([n \in DOMAIN HeaderFields |-> Out(m, n)]) \o m.unknown
    BY Zenon DEF HeaderWrite, Write
  <2>2. \A n \in DOMAIN HeaderFields : h[Name(HeaderFields, n)] = b[Name(HeaderFields, n)]
    <3> SUFFICES ASSUME NEW n \in DOMAIN HeaderFields
                 PROVE  h[Name(HeaderFields, n)] = b[Name(HeaderFields, n)]
      OBVIOUS
    <3>1. PICK x : x = Name(HeaderFields, n)
      OBVIOUS
    <3>2. x \in {"schema_version", "publisher", "sequence", "publish_time_ns"}
      BY <3>1 DEF HeaderFields, Name
    <3>3. h[x] = b[x]
      BY <1>1, <3>2, HeaderIs
    <3> QED
      BY <3>1, <3>3
  <2>3. \A n \in DOMAIN HeaderFields : Out(h, n) = Out(b, n)
    BY <2>2, Zenon
  <2>4. PICK p : p = [n \in DOMAIN HeaderFields |-> Out(b, n)]
    OBVIOUS
  <2>5. p = [n \in DOMAIN HeaderFields |-> Out(h, n)]
    <3> HIDE DEF Out
    <3> QED
      BY <2>3, <2>4
  <2>6. HeaderWrite(b) = FlattenSeq(p) \o b.unknown /\ HeaderWrite(h) = FlattenSeq(p) \o h.unknown
    BY <2>1, <2>4, <2>5, Zenon
  <2>7. b.unknown = <<>> /\ h.unknown = later
    BY <1>1, HeaderIs
  <2>8. PICK q : q = FlattenSeq(p)
    OBVIOUS
  <2>9. ws = q
    <3>1. ws = q \o <<>>
      BY <1>3, <2>6, <2>7, <2>8, Zenon
    <3>2. PICK S : q \in Seq(S)
      <4>1. PICK on, e, S : Choice(p, 4, on, e) /\ on \subseteq 1..4 /\ Distinct(e, on) /\ \A k \in on : e[k] \in S
        <5>1. PICK on : on = {n \in 1..4 : ~Unset(Kind(HeaderFields, n), b[Name(HeaderFields, n)])}
          OBVIOUS
        <5>2. PICK e : e = [n \in 1..4 |-> Field(n, Kind(HeaderFields, n), b[Name(HeaderFields, n)])]
          OBVIOUS
        <5>3. PICK S : S = {e[n] : n \in on}
          OBVIOUS
        <5>4. on \subseteq 1..4
          BY <5>1
        <5>5. \A n \in 1..4 : e[n].n = n
          BY <5>2 DEF Field
        <5>6. Distinct(e, on)
          BY <5>4, <5>5 DEF Distinct
        <5>7. \A k \in on : e[k] \in S
          BY <5>3
        <5>8. DOMAIN HeaderFields = 1..4
          BY HeaderIsFlat DEF FlatType
        <5>9. ASSUME NEW n \in 1..4 PROVE Out(b, n) = IF n \in on THEN <<e[n]>> ELSE <<>>
          <6>1. Kind(HeaderFields, n) # "header"
            BY HeaderIsFlat
          <6>2. e[n] = Field(n, Kind(HeaderFields, n), b[Name(HeaderFields, n)])
            BY <5>2, <5>9
          <6>3. n \in on <=> ~Unset(Kind(HeaderFields, n), b[Name(HeaderFields, n)])
            BY <5>1, <5>9, Zenon
          <6>4. CASE n \in on
            BY <6>1, <6>2, <6>3, <6>4, Zenon
          <6>5. CASE n \notin on
            BY <6>3, <6>5, Zenon
          <6> QED
            BY <6>4, <6>5
        <5>10. Choice(p, 4, on, e)
          <6> HIDE DEF Out
          <6> QED
            BY <2>4, <5>8, <5>9 DEF Choice
        <5> QED
          BY <5>4, <5>6, <5>7, <5>10
      <4>2. PICK n \in Nat : n = 4
        OBVIOUS
      <4>3. Selects(q, on, e, S)
        BY <2>8, <4>1, <4>2, Chosen
      <4> QED
        BY <4>3 DEF Selects
    <3> QED
      BY <3>1, <3>2
  <2> QED
    BY <2>6, <2>7, <2>8, <2>9, Zenon
<1>6. PICK fs : fs = ws \o later
  OBVIOUS
<1>7. PICK S : ws \in Seq(S)
  BY <1>4 DEF Enumerates
<1>8. PICK T : T = S \cup {LaterField}
  OBVIOUS
<1>9. ws \in Seq(T) /\ later \in Seq(T)
  <2>1. LaterField \in T /\ \A i \in DOMAIN ws : ws[i] \in T
    <3>1. \A i \in DOMAIN ws : ws[i] \in S
      BY <1>7
    <3> QED
      BY <1>8, <3>1, Zenon
  <2>2. <<>> \in Seq(T) /\ <<LaterField>> \in Seq(T)
    BY <2>1
  <2>3. ws \in Seq(T)
    <3>1. PICK m \in Nat : m = Len(ws) /\ DOMAIN ws = 1..m
      BY <1>7
    <3>2. ws = [i \in 1..m |-> ws[i]]
      BY <1>7, <3>1
    <3>3. ws \in [1..m -> T]
      BY <2>1, <3>1, <3>2, Zenon
    <3> QED
      BY <3>1, <3>3
  <2> QED
    BY <2>2, <2>3
<1>10. PICK l \in Nat : l = Len(ws) /\ DOMAIN ws = 1..l
  BY <1>7
<1>11. /\ fs \in Seq(T)
       /\ \A i \in 1..l : i \in DOMAIN fs /\ fs[i] = ws[i]
       /\ \A i \in DOMAIN fs : i \in Int /\ (i \in 1..l \/ fs[i] = LaterField)
  BY <1>6, <1>9, <1>10
<1>12. ~Fits(HeaderFields, LaterField) /\ LaterField.kind # "cut"
  <2>1. LaterField.n \notin DOMAIN HeaderFields
    BY DEF LaterField, Field, HeaderFields
  <2> QED
    BY <2>1 DEF Fits, LaterField, Field
<1>13. HeaderReadable(fs)
  <2>1. ASSUME NEW i \in DOMAIN fs PROVE ~Unreadable(HeaderFields, NoSubReadable, fs[i])
    <3>1. CASE i \in 1..l
      <4>1. i \in DOMAIN ws /\ fs[i] = ws[i]
        BY <1>10, <1>11, <3>1
      <4>2. Readable(HeaderFields, NoSubReadable, ws)
        BY <1>2, <1>4, AllReadable, Zenon
      <4>3. ~Unreadable(HeaderFields, NoSubReadable, ws[i])
        BY <4>1, <4>2, Zenon DEF Readable
      <4> QED
        BY <4>1, <4>3, Zenon
    <3>2. CASE fs[i] = LaterField
      BY <1>12, <3>2, Zenon DEF Unreadable
    <3> QED
      BY <1>11, <3>1, <3>2
  <2> QED
    BY <2>1, Zenon DEF HeaderReadable, Readable
<1>14. HeaderRead(HeaderNew, fs)["schema_version"] = version
  <2>1. PICK x : x = "schema_version"
    OBVIOUS
  <2>2. PICK k \in 1..4 : k = 1
    OBVIOUS
  <2>3. Name(HeaderFields, k) = x /\ Kind(HeaderFields, k) = "int"
    BY <2>1, <2>2, HeaderIsFlat
  <2>4. Own(fs, HeaderFields, x) = Own(ws, HeaderFields, x)
    <3>1. ASSUME NEW i PROVE i \in Own(fs, HeaderFields, x) <=> i \in Own(ws, HeaderFields, x)
      <4>1. CASE i \in 1..l
        BY <1>10, <1>11, <4>1, Zenon DEF Own
      <4>2. CASE i \notin 1..l
        BY <1>10, <1>11, <1>12, <4>2, Zenon DEF Own
      <4> QED
        BY <4>1, <4>2
    <3>2. \A A, B : (\A i : i \in A <=> i \in B) => A = B
      OBVIOUS
    <3> QED
      BY <3>1, <3>2, Zenon
  <2>5. PICK r : r = ReadInto(HeaderFields, NoSubRead, New(HeaderFields), fs)[x]
    OBVIOUS
  <2>7. Value(HeaderFields, b, k) = version
    BY <1>1, <2>1, <2>3, HeaderIs DEF Value
  <2>9. r = version
    <3>1. CASE k \in Given(HeaderFields, b)
      <4>1. PICK j \in DOMAIN ws : /\ ws[j] = Entry(HeaderFields, b, k)
                                   /\ Own(ws, HeaderFields, Name(HeaderFields, k)) = {j}
        BY <1>2, <1>4, <3>1, OwnIs, Zenon
      <4>2. Own(fs, HeaderFields, x) = {j} /\ fs[j] = Entry(HeaderFields, b, k) /\ j \in Nat
        BY <1>10, <1>11, <2>3, <2>4, <4>1
      <4>3. /\ FlatType(HeaderFields, 4) /\ Kind(HeaderFields, k) # "floats" /\ j \in Nat
            /\ Own(fs, HeaderFields, Name(HeaderFields, k)) = {j}
        BY <1>2, <2>3, <4>2
      <4>4. r = fs[j].v
        <5>1. ReadInto(HeaderFields, NoSubRead, New(HeaderFields), fs)[Name(HeaderFields, k)] = fs[j].v
          BY <4>3, ReadOnce
        <5> QED
          BY <2>3, <2>5, <5>1, Zenon
      <4> QED
        BY <2>7, <4>2, <4>4, EntryIs
    <3>2. CASE k \notin Given(HeaderFields, b)
      <4>1. Own(ws, HeaderFields, Name(HeaderFields, k)) = {}
        BY <1>2, <1>4, <3>2, OwnIs, Zenon
      <4>2. r = Default["int"]
        BY <1>2, <2>3, <2>4, <2>5, <4>1, ReadNowhere, Zenon
      <4>3. Unset("int", version)
        <5>1. k \in DOMAIN HeaderFields
          BY <1>2 DEF FlatType
        <5> QED
          BY <2>3, <2>7, <3>2, <5>1 DEF Given
      <4>4. version = Default["int"]
        <5>1. "int" # "float"
          OBVIOUS
        <5> QED
          BY <4>3, <5>1, Zenon DEF Unset
      <4> QED
        BY <4>2, <4>4
    <3> QED
      BY <3>1, <3>2
  <2> QED
    BY <2>1, <2>5, <2>9, Zenon DEF HeaderRead, HeaderNew
<1>15. IsSeq(fs)
  BY <1>11 DEF IsSeq
<1> QED
  BY <1>5, <1>6, <1>13, <1>14, <1>15

(* What peek_header takes for a header: a delimited field with number one.  *)
LEMMA HeaderFits ==
  ASSUME NEW f
  PROVE  /\ Fits(AnyHeaderFields, f) <=> f.n = 1 /\ WireType[f.kind] = 2
         /\ Fits(AnyHeaderFields, f) => Name(AnyHeaderFields, f.n) = "header"
         /\ Unreadable(AnyHeaderFields, HeaderReadable, f) <=>
              \/ f.kind = "cut"
              \/ Fits(AnyHeaderFields, f) /\ (f.kind = "floats" \/ ~HeaderReadable(Payload(f)))
<1>1. DOMAIN AnyHeaderFields = {1}
  BY DEF AnyHeaderFields
<1>2. Name(AnyHeaderFields, 1) = "header" /\ Kind(AnyHeaderFields, 1) = "header"
  BY DEF AnyHeaderFields, Name, Kind
<1>3. WireType["header"] = 2
  BY DEF WireType
<1>4. "header" # "floats" /\ "header" # "text"
  OBVIOUS
<1>5. Fits(AnyHeaderFields, f) <=> f.n = 1 /\ WireType[f.kind] = 2
  <2>1. f.n \in {1} <=> f.n = 1
    OBVIOUS
  <2>2. Fits(AnyHeaderFields, f) <=>
          /\ f.n \in {1}
          /\ \/ WireType[f.kind] = WireType[Kind(AnyHeaderFields, f.n)]
             \/ Kind(AnyHeaderFields, f.n) = "floats" /\ f.kind = "float"
    BY <1>1, Zenon DEF Fits
  <2>3. CASE f.n = 1
    BY <1>2, <1>3, <1>4, <2>1, <2>2, <2>3, Zenon
  <2>4. CASE f.n # 1
    BY <2>1, <2>2, <2>4, Zenon
  <2> QED
    BY <2>3, <2>4
<1>6. Unreadable(AnyHeaderFields, HeaderReadable, f) <=>
              \/ f.kind = "cut"
              \/ Fits(AnyHeaderFields, f) /\ (f.kind = "floats" \/ ~HeaderReadable(Payload(f)))
  <2>1. CASE f.n = 1
    <3>1. Kind(AnyHeaderFields, f.n) = "header"
      BY <1>2, <2>1
    <3> QED
      BY <1>4, <3>1, Zenon DEF Unreadable
  <2>2. CASE f.n # 1
    <3>1. ~Fits(AnyHeaderFields, f)
      BY <1>5, <2>2
    <3> QED
      BY <3>1, Zenon DEF Unreadable
  <2> QED
    BY <2>1, <2>2
<1> QED
  BY <1>2, <1>5, <1>6, Zenon

(* One header in a message, at j; or none.                                 *)
HeaderAt(fs, j) == /\ j \in DOMAIN fs
                   /\ \A i \in DOMAIN fs : Fits(AnyHeaderFields, fs[i]) <=> i = j
Headless(fs)    == \A i \in DOMAIN fs : ~Fits(AnyHeaderFields, fs[i])
Uncut(fs)       == \A i \in DOMAIN fs : fs[i].kind # "cut"

LEMMA NewAnyHeader ==
  /\ "header" \in DOMAIN AnyHeaderNew /\ AnyHeaderNew["header"] = <<>>
  /\ Kind(AnyHeaderFields, Number(AnyHeaderFields, "header")) = "header"
<1>1. DOMAIN AnyHeaderFields = {1}
  BY DEF AnyHeaderFields
<1>2. Name(AnyHeaderFields, 1) = "header" /\ Kind(AnyHeaderFields, 1) = "header"
  BY DEF AnyHeaderFields, Name, Kind
<1>3. Number(AnyHeaderFields, "header") = 1
  BY <1>1, <1>2 DEF Number
<1>4. Default["header"] = <<>>
  BY DEF Default
<1>5. "header" \in {Name(AnyHeaderFields, n) : n \in DOMAIN AnyHeaderFields} \cup {"unknown"}
  BY <1>1, <1>2
<1> QED
  BY <1>2, <1>3, <1>4, <1>5 DEF AnyHeaderNew, New

(* The header that is read out of a message.                               *)
LEMMA HeaderReadOut ==
  ASSUME NEW fs
  PROVE  LET own == {i \in DOMAIN fs : Fits(AnyHeaderFields, fs[i])}
         IN ReadInto(AnyHeaderFields, SubmessageRead, AnyHeaderNew, fs)["header"] =
              IF own = {} THEN <<>>
              ELSE <<HeaderRead(HeaderNew, FlattenSeq([i \in DOMAIN fs |->
                                 IF i \in own THEN Payload(fs[i]) ELSE <<>>]))>>
<1>1. PICK x : x = "header" /\ x # "unknown"
  OBVIOUS
<1> DEFINE own == {i \in DOMAIN fs : Fits(AnyHeaderFields, fs[i]) /\ Name(AnyHeaderFields, fs[i].n) = x}
           own2 == {i \in DOMAIN fs : Fits(AnyHeaderFields, fs[i])}
           P(o) == FlattenSeq([i \in DOMAIN fs |-> IF i \in o THEN Payload(fs[i]) ELSE <<>>])
           kind == Kind(AnyHeaderFields, Number(AnyHeaderFields, x))
           Far == CASE kind = "floats" ->
                         AnyHeaderNew[x] \o FlattenSeq([i \in DOMAIN fs |->
                                   IF i \in own THEN Elements(fs[i]) ELSE <<>>])
                    [] kind = "header" ->
                         <<SubmessageRead(AnyHeaderNew[x], FlattenSeq([i \in DOMAIN fs |->
                                           IF i \in own THEN Payload(fs[i]) ELSE <<>>]))>>
                    [] OTHER -> fs[Max(own)].v
<1>2. x \in DOMAIN AnyHeaderNew /\ AnyHeaderNew[x] = <<>> /\ kind = "header"
  BY <1>1, NewAnyHeader
<1>3. own = own2
  BY <1>1, HeaderFits, Zenon
<1>4. ReadInto(AnyHeaderFields, SubmessageRead, AnyHeaderNew, fs)[x]
        = IF own = {} THEN AnyHeaderNew[x] ELSE Far
  BY <1>1, <1>2, Zenon DEF ReadInto
<1>5. Far = <<SubmessageRead(AnyHeaderNew[x], P(own))>>
  <2> HIDE DEF own
  <2>1. kind = "header" /\ kind # "floats"
    BY <1>2
  <2> QED
    BY <2>1, Zenon
<1>6. SubmessageRead(<<>>, P(own)) = HeaderRead(HeaderNew, P(own))
  BY Zenon DEF SubmessageRead, mutable_header
<1> HIDE DEF Far, kind, P, own, own2
<1>7. ReadInto(AnyHeaderFields, SubmessageRead, AnyHeaderNew, fs)["header"]
        = IF own2 = {} THEN <<>> ELSE <<HeaderRead(HeaderNew, P(own2))>>
  BY <1>1, <1>2, <1>3, <1>4, <1>5, <1>6, Zenon
<1> QED
  BY <1>7, Zenon DEF own2, P

LEMMA NoHeaderFound ==
  ASSUME NEW fs, Headless(fs)
  PROVE  ReadInto(AnyHeaderFields, SubmessageRead, AnyHeaderNew, fs)["header"] = <<>>
<1>1. {i \in DOMAIN fs : Fits(AnyHeaderFields, fs[i])} = {}
  BY DEF Headless
<1> QED
  BY <1>1, HeaderReadOut, Zenon

LEMMA HeaderFound ==
  ASSUME NEW fs, IsSeq(fs), NEW j, HeaderAt(fs, j), IsSeq(Payload(fs[j]))
  PROVE  ReadInto(AnyHeaderFields, SubmessageRead, AnyHeaderNew, fs)["header"]
           = <<HeaderRead(HeaderNew, Payload(fs[j]))>>
<1>1. PICK own : own = {i \in DOMAIN fs : Fits(AnyHeaderFields, fs[i])}
  OBVIOUS
<1>2. own = {j} /\ own # {}
  BY <1>1 DEF HeaderAt
<1>3. PICK l \in Nat : DOMAIN fs = 1..l
  BY DEF IsSeq
<1>4. PICK p : p = [i \in 1..l |-> IF i \in own THEN Payload(fs[i]) ELSE <<>>]
  OBVIOUS
<1>5. PICK q : q = Payload(fs[j])
  OBVIOUS
<1>6. PICK S : q \in Seq(S)
  BY <1>5 DEF IsSeq
<1>7. j \in 1..l
  BY <1>3 DEF HeaderAt
<1>8. \A i \in 1..l : p[i] = IF i = j THEN q ELSE <<>>
  BY <1>2, <1>4, <1>5
<1>9. p \in Seq(Seq(S)) /\ l = Len(p) /\ p[j] = q /\ \A i \in 1..l : i # j => p[i] = <<>>
  <2>1. <<>> \in Seq(S)
    OBVIOUS
  <2>2. \A i \in 1..l : p[i] \in Seq(S)
    BY <1>6, <1>8, <2>1
  <2>3. p = [i \in 1..l |-> p[i]]
    BY <1>4
  <2> QED
    BY <1>3, <1>7, <1>8, <2>2, <2>3
<1>10. FlattenSeq(p) = q
  BY <1>3, <1>7, <1>9, Sole
<1>11. ReadInto(AnyHeaderFields, SubmessageRead, AnyHeaderNew, fs)["header"]
         = <<HeaderRead(HeaderNew, FlattenSeq([i \in DOMAIN fs |->
                                 IF i \in own THEN Payload(fs[i]) ELSE <<>>]))>>
  BY <1>1, <1>2, HeaderReadOut, Zenon
<1> QED
  BY <1>3, <1>4, <1>5, <1>10, <1>11, Zenon

(* message.cpp: a header that can be read is accepted if its version is the *)
(* reader's own, and refused otherwise.                                    *)
LEMMA HeaderPeeked ==
  ASSUME NEW fs, IsSeq(fs), Uncut(fs), NEW j, HeaderAt(fs, j), fs[j].kind # "floats",
         IsSeq(Payload(fs[j])), HeaderReadable(Payload(fs[j])),
         NEW h, h = HeaderRead(HeaderNew, Payload(fs[j])), h.schema_version \in Nat
  PROVE  IF h.schema_version = kSchemaVersion
         THEN /\ peek_header(fs, HeaderNew).status = "kOk"
              /\ peek_header(fs, HeaderNew).out = HeaderCopyFrom(HeaderNew, h)
         ELSE peek_header(fs, HeaderNew).status # "kOk"
<1>1. \A i \in DOMAIN fs : ~Unreadable(AnyHeaderFields, HeaderReadable, fs[i])
  <2> SUFFICES ASSUME NEW i \in DOMAIN fs
               PROVE  ~Unreadable(AnyHeaderFields, HeaderReadable, fs[i])
    OBVIOUS
  <2>1. fs[i].kind # "cut" /\ (Fits(AnyHeaderFields, fs[i]) => i = j)
    BY Zenon DEF Uncut, HeaderAt
  <2> QED
    BY <2>1, HeaderFits, Zenon
<1>2. Readable(AnyHeaderFields, HeaderReadable, fs)
  BY <1>1, Zenon DEF Readable
<1>3. Kept(AnyHeaderFields, HeaderReadable, fs) = fs
  <2>1. {i \in DOMAIN fs : Unreadable(AnyHeaderFields, HeaderReadable, fs[i])} = {}
    BY <1>1, Zenon
  <2> QED
    BY <2>1, Zenon DEF Kept
<1>4. PICK any : any = AnyHeaderParse(AnyHeaderNew, fs)
  OBVIOUS
<1>5. any.ok /\ any.msg = ReadInto(AnyHeaderFields, SubmessageRead, AnyHeaderNew, fs)
  <2>1. PICK r : r = ReadInto(AnyHeaderFields, SubmessageRead, AnyHeaderNew, fs)
    OBVIOUS
  <2>2. any = [ok |-> Readable(AnyHeaderFields, HeaderReadable, fs), msg |-> r]
    BY <1>3, <1>4, <2>1, Zenon DEF AnyHeaderParse, AnyHeaderClear
  <2>3. PICK b \in BOOLEAN : b = Readable(AnyHeaderFields, HeaderReadable, fs)
    BY Zenon DEF Readable
  <2>4. any = [ok |-> b, msg |-> r]
    BY <2>2, <2>3, Zenon
  <2>5. any.ok = b /\ any.msg = r
    BY <2>4
  <2> QED
    BY <1>2, <2>1, <2>3, <2>5, Zenon
<1>6. any.msg["header"] = <<h>>
  BY <1>5, HeaderFound, Zenon
<1>7. PICK m : m = any.msg
  OBVIOUS
<1>8. has_header(m) /\ header(m) = h
  <2>1. PICK s : s = m.header /\ s = <<h>>
    BY <1>6, <1>7
  <2>2. s # <<>> /\ s[1] = h
    BY <2>1
  <2> QED
    BY <2>1, <2>2, Zenon DEF has_header, header, mutable_header
<1>9. PICK k \in Nat : k = kSchemaVersion
  BY VersionAssumption
<1>10. PICK v \in Nat : v = h.schema_version
  OBVIOUS
<1>11. PICK out : out = HeaderCopyFrom(HeaderNew, h)
  OBVIOUS
<1>12. PICK new : new = HeaderNew
  OBVIOUS
<1>13. PICK peeked : peeked = peek_header(fs, HeaderNew)
  OBVIOUS
<1>14. peeked = IF v > k THEN [status |-> "kSchemaTooNew", out |-> new]
                ELSE IF v < k THEN [status |-> "kSchemaTooOld", out |-> new]
                ELSE [status |-> "kOk", out |-> out]
  BY <1>4, <1>5, <1>7, <1>8, <1>9, <1>10, <1>11, <1>12, <1>13, Zenon DEF peek_header
<1>15. IF v = k THEN peeked.status = "kOk" /\ peeked.out = out ELSE peeked.status # "kOk"
  BY <1>14
<1> QED
  BY <1>9, <1>10, <1>11, <1>13, <1>15, Zenon

(* A message without one, or with one that cannot be read, is refused.      *)
LEMMA HeaderMissed ==
  ASSUME NEW fs, Uncut(fs),
         \/ Headless(fs)
         \/ \E i \in DOMAIN fs : /\ Fits(AnyHeaderFields, fs[i])
                                 /\ ~HeaderReadable(Payload(fs[i]))
  PROVE  peek_header(fs, HeaderNew).status # "kOk"
<1>1. PICK any : any = AnyHeaderParse(AnyHeaderNew, fs)
  OBVIOUS
<1>2. PICK b \in BOOLEAN : b = Readable(AnyHeaderFields, HeaderReadable, fs)
  BY Zenon DEF Readable
<1>3. PICK r : r = ReadInto(AnyHeaderFields, SubmessageRead, AnyHeaderNew,
                            Kept(AnyHeaderFields, HeaderReadable, fs))
  OBVIOUS
<1>4. any = [ok |-> b, msg |-> r]
  BY <1>1, <1>2, <1>3, Zenon DEF AnyHeaderParse, AnyHeaderClear
<1>5. any.ok = b /\ any.msg = r
  BY <1>4
<1>6. PICK peeked : peeked = peek_header(fs, HeaderNew)
  OBVIOUS
<1>7. PICK new : new = HeaderNew
  OBVIOUS
<1>8. ASSUME ~b PROVE peeked.status # "kOk"
  <2>1. peeked = [status |-> "kNotParsable", out |-> new]
    BY <1>1, <1>5, <1>6, <1>7, <1>8, Zenon DEF peek_header
  <2> QED
    BY <2>1
<1>9. CASE Headless(fs)
  <2>1. CASE b
    <3>1. \A i \in DOMAIN fs : ~Unreadable(AnyHeaderFields, HeaderReadable, fs[i])
      BY <1>2, <2>1, Zenon DEF Readable
    <3>2. {i \in DOMAIN fs : Unreadable(AnyHeaderFields, HeaderReadable, fs[i])} = {}
      BY <3>1, Zenon
    <3>3. Kept(AnyHeaderFields, HeaderReadable, fs) = fs
      BY <3>2, Zenon DEF Kept
    <3>4. r.header = <<>>
      BY <1>3, <1>9, <3>3, NoHeaderFound, Zenon
    <3>5. ~has_header(r)
      BY <3>4, Zenon DEF has_header
    <3>6. peeked = [status |-> "kMissingHeader", out |-> new]
      BY <1>1, <1>5, <1>6, <1>7, <2>1, <3>5, Zenon DEF peek_header
    <3> QED
      BY <1>6, <3>6
  <2> QED
    BY <1>6, <1>8, <2>1
<1>10. CASE \E i \in DOMAIN fs : /\ Fits(AnyHeaderFields, fs[i])
                                 /\ ~HeaderReadable(Payload(fs[i]))
  <2>1. PICK i \in DOMAIN fs : Fits(AnyHeaderFields, fs[i]) /\ ~HeaderReadable(Payload(fs[i]))
    BY <1>10
  <2>2. Unreadable(AnyHeaderFields, HeaderReadable, fs[i])
    BY <2>1, HeaderFits, Zenon
  <2>3. ~b
    BY <1>2, <2>1, <2>2, Zenon DEF Readable
  <2> QED
    BY <1>6, <1>8, <2>3
<1> QED
  BY <1>9, <1>10

HeartbeatNames ==
  {"header", "node_name", "state", "tick_count", "overruns", "wcet_us", "unknown"}

(* A beat as mw_pub and mw_msgdemo make it of a header.                     *)
BeatOf(h, ticks, wcet, later) ==
  [x \in HeartbeatNames |-> CASE x = "header"     -> <<h>>
                              [] x = "node_name"  -> "auv"
                              [] x = "state"      -> NODE_STATE_RUNNING
                              [] x = "tick_count" -> ticks
                              [] x = "overruns"   -> 0
                              [] x = "wcet_us"    -> wcet
                              [] OTHER            -> later]

LEMMA BeatIs ==
  ASSUME NEW h, NEW ticks, NEW wcet, NEW later
  PROVE  /\ BeatOf(h, ticks, wcet, later)["header"] = <<h>>
         /\ BeatOf(h, ticks, wcet, later)["node_name"] = "auv"
         /\ BeatOf(h, ticks, wcet, later)["state"] = 2
         /\ BeatOf(h, ticks, wcet, later).unknown = later
BY DEF BeatOf, HeartbeatNames, NODE_STATE_RUNNING

LEMMA BeatNames ==
  /\ DOMAIN HeartbeatFields = 1..6
  /\ {Name(HeartbeatFields, k) : k \in 1..6} \cup {"unknown"} = HeartbeatNames
  /\ \A k \in 1..6 : /\ Kind(HeartbeatFields, k) \in {"header", "text", "int"}
                     /\ Kind(HeartbeatFields, k) = "header" <=> k = 1
                     /\ Kind(HeartbeatFields, k) = "text" => k = 2
                     /\ Name(HeartbeatFields, k) # "unknown"
                     /\ Name(HeartbeatFields, k) = "header" <=> k = 1
                     /\ Name(HeartbeatFields, k) = "node_name" <=> k = 2
                     /\ Name(HeartbeatFields, k) = "state" <=> k = 3
<1>1. DOMAIN HeartbeatFields = 1..6
  BY DEF HeartbeatFields
<1>2. {Name(HeartbeatFields, k) : k \in 1..6} \cup {"unknown"} = HeartbeatNames
  BY DEF HeartbeatFields, Name, HeartbeatNames
<1>3. \A k \in 1..6 :
                     /\ Kind(HeartbeatFields, k) \in {"header", "text", "int"}
                     /\ Kind(HeartbeatFields, k) = "header" <=> k = 1
                     /\ Kind(HeartbeatFields, k) = "text" => k = 2
  BY DEF HeartbeatFields, Kind
<1>4. \A k \in 1..6 :
                     /\ Name(HeartbeatFields, k) # "unknown"
                     /\ Name(HeartbeatFields, k) = "header" <=> k = 1
                     /\ Name(HeartbeatFields, k) = "node_name" <=> k = 2
                     /\ Name(HeartbeatFields, k) = "state" <=> k = 3
  BY DEF HeartbeatFields, Name
<1> QED
  BY <1>1, <1>2, <1>3, <1>4

LEMMA NewBeat ==
  HeartbeatNew = [x \in HeartbeatNames |-> HeartbeatNew[x]] /\ HeartbeatNew["unknown"] = <<>>
<1>1. HeartbeatNew = [x \in HeartbeatNames |->
                  IF x = "unknown" THEN <<>>
                  ELSE Default[Kind(HeartbeatFields, Number(HeartbeatFields, x))]]
  BY BeatNames, Zenon DEF HeartbeatNew, New
<1>2. "unknown" \in HeartbeatNames
  BY DEF HeartbeatNames
<1> QED
  BY <1>1, <1>2

(* mw_pub.cpp, mw_msgdemo.cpp: what they set of a new beat.                 *)
LEMMA BeatMade ==
  ASSUME NEW h, NEW ticks, NEW wcet
  PROVE  set_counts(set_state(set_node_name(set_header(HeartbeatNew, h), "auv"),
                              NODE_STATE_RUNNING), ticks, 0, wcet) = BeatOf(h, ticks, wcet, <<>>)
<1>1. PICK b : b = HeartbeatNew
  OBVIOUS
<1>2. b = [x \in HeartbeatNames |-> b[x]] /\ b["unknown"] = <<>>
  BY <1>1, NewBeat
<1> DEFINE one   == [b EXCEPT !.header = <<h>>]
           two   == [one EXCEPT !.node_name = "auv"]
           three == [two EXCEPT !.state = 2]
           four  == [three EXCEPT !.tick_count = ticks, !.overruns = 0, !.wcet_us = wcet]
<1>3. four = BeatOf(h, ticks, wcet, <<>>)
  <2>1. one = [x \in HeartbeatNames |-> IF x = "header" THEN <<h>> ELSE b[x]]
    BY <1>2 DEF HeartbeatNames
  <2> HIDE DEF one
  <2>2. two = [x \in HeartbeatNames |-> IF x = "node_name" THEN "auv" ELSE one[x]]
    BY <2>1 DEF HeartbeatNames
  <2> HIDE DEF two
  <2>3. three = [x \in HeartbeatNames |-> IF x = "state" THEN 2 ELSE two[x]]
    BY <2>2 DEF HeartbeatNames
  <2> HIDE DEF three
  <2>4. four = [x \in HeartbeatNames |-> IF x = "tick_count" THEN ticks
                  ELSE IF x = "overruns" THEN 0 ELSE IF x = "wcet_us" THEN wcet ELSE three[x]]
    BY <2>3 DEF HeartbeatNames
  <2> QED
    BY <1>2, <2>1, <2>2, <2>3, <2>4 DEF BeatOf, HeartbeatNames, NODE_STATE_RUNNING
<1>4. set_counts(set_state(set_node_name(set_header(b, h), "auv"),
                           NODE_STATE_RUNNING), ticks, 0, wcet) = four
  BY DEF set_counts, set_state, set_node_name, set_header, NODE_STATE_RUNNING
<1> QED
  BY <1>1, <1>3, <1>4

(* The entries of a beat on the wire.                                      *)
BeatEntry(h, m, k) ==
  Field(k, Kind(HeartbeatFields, k), IF k = 1 THEN HeaderWrite(h) ELSE m[Name(HeartbeatFields, k)])

BeatGiven(m) == {k \in 1..6 : ~Unset(Kind(HeartbeatFields, k), m[Name(HeartbeatFields, k)])}

BeatEntries(s, h, m) ==
  /\ IsSeq(s)
  /\ \A j \in DOMAIN s : \E k \in 1..6 : s[j] = BeatEntry(h, m, k)
  /\ \A k \in {1, 2, 3} : \E j \in DOMAIN s : s[j] = BeatEntry(h, m, k)
  /\ \A i, j \in DOMAIN s : s[i] = s[j] => i = j

WritesAs(h, m, later) == \E s : BeatEntries(s, h, m) /\ HeartbeatWrite(m) = s \o later

LEMMA BeatWritten ==
  ASSUME NEW h, NEW ticks, NEW wcet, NEW later, NEW m, m = BeatOf(h, ticks, wcet, later)
  PROVE  WritesAs(h, m, later)
<1> DEFINE Out(k) == IF Unset(Kind(HeartbeatFields, k), m[Name(HeartbeatFields, k)]) THEN <<>>
                     ELSE <<Field(k, Kind(HeartbeatFields, k),
                                  IF Kind(HeartbeatFields, k) = "header"
                                            THEN HeaderWrite(m[Name(HeartbeatFields, k)][1])
                                            ELSE m[Name(HeartbeatFields, k)])>>
<1>1. HeartbeatWrite(m) = FlattenSeq([k \in DOMAIN HeartbeatFields |-> Out(k)]) \o m.unknown
  BY Zenon DEF HeartbeatWrite, Write
<1>2. m["header"] = <<h>> /\ m["node_name"] = "auv" /\ m["state"] = 2 /\ m.unknown = later
  BY BeatIs
<1>3. PICK on : on = BeatGiven(m) /\ on \subseteq 1..6
  BY DEF BeatGiven
<1>4. PICK e : e = [k \in 1..6 |-> BeatEntry(h, m, k)]
  OBVIOUS
<1>5. PICK S : S = {BeatEntry(h, m, k) : k \in 1..6}
  OBVIOUS
<1>6. \A k \in 1..6 : e[k] = BeatEntry(h, m, k) /\ e[k] \in S /\ e[k].n = k
  BY <1>4, <1>5 DEF BeatEntry, Field
<1>7. Distinct(e, on)
  BY <1>3, <1>6 DEF Distinct
<1>8. ASSUME NEW k \in 1..6 PROVE Out(k) = IF k \in on THEN <<e[k]>> ELSE <<>>
  <2>1. k \in on <=> ~Unset(Kind(HeartbeatFields, k), m[Name(HeartbeatFields, k)])
    BY <1>3, <1>8, Zenon DEF BeatGiven
  <2>2. CASE k \in on
    <3>1. Kind(HeartbeatFields, k) = "header" <=> k = 1
      BY <1>8, BeatNames
    <3>2. k = 1 => m[Name(HeartbeatFields, k)][1] = h
      <4> SUFFICES ASSUME k = 1 PROVE m[Name(HeartbeatFields, k)][1] = h
        OBVIOUS
      <4>1. Name(HeartbeatFields, k) = "header"
        BY <1>8, BeatNames
      <4>2. m[Name(HeartbeatFields, k)] = <<h>>
        BY <1>2, <4>1
      <4> QED
        BY <4>2
    <3>3. Out(k) = <<BeatEntry(h, m, k)>>
      <4>1. CASE k = 1
        BY <2>1, <2>2, <3>1, <3>2, <4>1, Zenon DEF BeatEntry
      <4>2. CASE k # 1
        BY <2>1, <2>2, <3>1, <4>2, Zenon DEF BeatEntry
      <4> QED
        BY <4>1, <4>2
    <3>4. e[k] = BeatEntry(h, m, k)
      BY <1>6, <1>8
    <3> QED
      BY <2>2, <3>3, <3>4, Zenon
  <2>3. CASE k \notin on
    BY <2>1, <2>3, Zenon
  <2> QED
    BY <2>2, <2>3
<1>9. PICK p : p = [k \in DOMAIN HeartbeatFields |-> Out(k)]
  OBVIOUS
<1>10. Choice(p, 6, on, e)
  <2> HIDE DEF Out
  <2> QED
    BY <1>8, <1>9, BeatNames DEF Choice
<1>11. PICK s : s = FlattenSeq(p)
  OBVIOUS
<1>12. PICK n \in Nat : n = 6
  OBVIOUS
<1>13. \A k \in on : e[k] \in S
  BY <1>3, <1>6
<1>14. Selects(s, on, e, S)
  BY <1>3, <1>7, <1>10, <1>11, <1>12, <1>13, Chosen
<1>15. {1, 2, 3} \subseteq on
  <2>1. 1 \in on
    <3>1. PICK k \in 1..6 : k = 1
      OBVIOUS
    <3>2. Kind(HeartbeatFields, k) = "header" /\ Name(HeartbeatFields, k) = "header"
      BY <3>1, BeatNames
    <3>3. <<h>> # <<>>
      OBVIOUS
    <3>4. ~Unset("header", m["header"])
      BY <1>2, <3>3 DEF Unset, Default
    <3> QED
      BY <1>3, <3>1, <3>2, <3>4 DEF BeatGiven
  <2>2. 2 \in on
    <3>1. PICK k \in 1..6 : k = 2
      OBVIOUS
    <3>2. Name(HeartbeatFields, k) = "node_name" /\ Kind(HeartbeatFields, k) = "text"
      BY <3>1 DEF HeartbeatFields, Name, Kind
    <3>3. ~Unset("text", m["node_name"])
      BY <1>2 DEF Unset, Default
    <3> QED
      BY <1>3, <3>1, <3>2, <3>3 DEF BeatGiven
  <2>3. 3 \in on
    <3>1. PICK k \in 1..6 : k = 3
      OBVIOUS
    <3>2. Name(HeartbeatFields, k) = "state" /\ Kind(HeartbeatFields, k) = "int"
      BY <3>1 DEF HeartbeatFields, Name, Kind
    <3>3. ~Unset("int", m["state"])
      BY <1>2 DEF Unset, Default
    <3> QED
      BY <1>3, <3>1, <3>2, <3>3 DEF BeatGiven
  <2> QED
    BY <2>1, <2>2, <2>3
<1>16. BeatEntries(s, h, m)
  <2>1. /\ s \in Seq(S)
        /\ \A j \in DOMAIN s : \E k \in on : s[j] = e[k]
        /\ \A k \in on : \E j \in DOMAIN s : s[j] = e[k]
        /\ \A i, j \in DOMAIN s : s[i] = s[j] => i = j
    BY <1>14, Zenon DEF Selects
  <2>2. IsSeq(s)
    BY <2>1 DEF IsSeq
  <2>3. \A j \in DOMAIN s : \E k \in 1..6 : s[j] = BeatEntry(h, m, k)
    BY <1>3, <1>6, <2>1
  <2>4. \A k \in {1, 2, 3} : \E j \in DOMAIN s : s[j] = BeatEntry(h, m, k)
    <3> SUFFICES ASSUME NEW k \in {1, 2, 3} PROVE \E j \in DOMAIN s : s[j] = BeatEntry(h, m, k)
      OBVIOUS
    <3>1. k \in on
      BY <1>15
    <3>2. e[k] = BeatEntry(h, m, k)
      BY <1>3, <1>6, <3>1
    <3>3. PICK j \in DOMAIN s : s[j] = e[k]
      BY <2>1, <3>1, Zenon
    <3>4. s[j] = BeatEntry(h, m, k)
      BY <3>2, <3>3
    <3> QED
      BY <3>4, Zenon
  <2> QED
    BY <2>1, <2>2, <2>3, <2>4, Zenon DEF BeatEntries
<1>17. HeartbeatWrite(m) = s \o later
  BY <1>1, <1>2, <1>9, <1>11, Zenon
<1> QED
  BY <1>16, <1>17, Zenon DEF WritesAs

(* A sequence of fields, and that of a newer build behind it or not.        *)
Extends(fs, s) ==
  /\ IsSeq(fs)
  /\ \A i \in DOMAIN s : i \in DOMAIN fs /\ fs[i] = s[i]
  /\ \A i \in DOMAIN fs : i \in DOMAIN s \/ fs[i] = LaterField

LEMMA Extended ==
  ASSUME NEW s, IsSeq(s), NEW later, later \in {<<>>, <<LaterField>>}, NEW fs, fs = s \o later
  PROVE  Extends(fs, s) /\ (later = <<>> => fs = s)
<1>1. PICK S : s \in Seq(S)
  BY DEF IsSeq
<1>2. CASE later = <<>>
  <2>1. fs = s
    BY <1>1, <1>2
  <2> QED
    BY <1>1, <2>1 DEF Extends
<1>3. CASE later = <<LaterField>>
  <2>1. PICK l \in Nat : l = Len(s) /\ DOMAIN s = 1..l
    BY <1>1
  <2>2. PICK a : a = LaterField
    OBVIOUS
  <2>3. fs = Append(s, a)
    BY <1>1, <1>3, <2>2
  <2>4. <<LaterField>> # <<>>
    OBVIOUS
  <2>5. PICK T : T = S \cup {a}
    OBVIOUS
  <2>6. S \subseteq T /\ a \in T
    BY <2>5
  <2>7. s \in Seq(T)
    BY <1>1, <2>6, SeqMonotonic
  <2>8. /\ fs \in Seq(T) /\ DOMAIN fs = 1..(l + 1) /\ fs[l + 1] = a
        /\ \A i \in 1..l : fs[i] = s[i]
    BY <2>1, <2>3, <2>6, <2>7
  <2>9. \A i \in 1..(l + 1) : i \in 1..l \/ i = l + 1
    OBVIOUS
  <2>10. \A i \in 1..l : i \in 1..(l + 1)
    OBVIOUS
  <2>11. IsSeq(fs)
    BY <2>8 DEF IsSeq
  <2> QED
    BY <1>3, <2>1, <2>2, <2>4, <2>8, <2>9, <2>10, <2>11, Zenon DEF Extends
<1> QED
  BY <1>2, <1>3

LEMMA BeatEntryIs ==
  ASSUME NEW h, NEW m, NEW k \in 1..6
  PROVE  /\ BeatEntry(h, m, k).n = k
         /\ BeatEntry(h, m, k).kind = Kind(HeartbeatFields, k)
         /\ k = 1 => BeatEntry(h, m, k).v = HeaderWrite(h)
         /\ k # 1 => BeatEntry(h, m, k).v = m[Name(HeartbeatFields, k)]
BY DEF BeatEntry, Field

(* mw_pub.cpp, mw_sub.cpp: the header that is read of a beat is the one that *)
(* was stamped, if its version is the reader's own, and refused otherwise.  *)
LEMMA BeatPeeked ==
  ASSUME NEW version \in Nat, NEW number, NEW now, NEW ticks, NEW wcet,
         NEW h, h = HeaderOf(version, number, now, Later(version)),
         NEW m, m = BeatOf(h, ticks, wcet, Later(version)), NEW fs, fs = HeartbeatWrite(m)
  PROVE  IF version = kSchemaVersion
         THEN /\ peek_header(fs, HeaderNew).status = "kOk"
              /\ peek_header(fs, HeaderNew).out = h
         ELSE peek_header(fs, HeaderNew).status # "kOk"
<1>1. PICK later \in {<<>>, <<LaterField>>} : later = Later(version)
  BY Zenon DEF Later
<1>2. HeaderReadable(HeaderWrite(h)) /\ IsSeq(HeaderWrite(h))
      /\ HeaderRead(HeaderNew, HeaderWrite(h)).schema_version = version
  BY <1>1, VersionRead
<1>3. PICK s : BeatEntries(s, h, m) /\ fs = s \o later
  <2>1. WritesAs(h, m, later)
    BY <1>1, BeatWritten
  <2> QED
    BY <2>1, Zenon DEF WritesAs
<1>4. /\ IsSeq(s)
      /\ \A j \in DOMAIN s : \E k \in 1..6 : s[j] = BeatEntry(h, m, k)
      /\ \A k \in {1, 2, 3} : \E j \in DOMAIN s : s[j] = BeatEntry(h, m, k)
      /\ \A i, j \in DOMAIN s : s[i] = s[j] => i = j
  BY <1>3, Zenon DEF BeatEntries
<1>5. /\ IsSeq(fs)
      /\ \A i \in DOMAIN s : i \in DOMAIN fs /\ fs[i] = s[i]
      /\ \A i \in DOMAIN fs : i \in DOMAIN s \/ fs[i] = LaterField
  <2>1. PICK t : t = s \o later
    OBVIOUS
  <2>2. Extends(t, s)
    BY <1>4, <2>1, Extended
  <2>3. t = fs
    BY <1>3, <2>1, Zenon
  <2> QED
    BY <2>2, <2>3, Zenon DEF Extends
<1>6. PICK j \in DOMAIN s : s[j] = BeatEntry(h, m, 1)
  BY <1>4
<1>7. /\ fs[j].n = 1 /\ fs[j].kind = "header" /\ fs[j].v = HeaderWrite(h)
      /\ j \in DOMAIN fs
  <2>1. PICK k \in 1..6 : k = 1
    OBVIOUS
  <2>2. Kind(HeartbeatFields, k) = "header"
    BY <2>1, BeatNames
  <2> QED
    BY <1>5, <1>6, <2>1, <2>2, BeatEntryIs
<1>8. LaterField.n # 1 /\ LaterField.kind # "cut"
  BY DEF LaterField, Field
<1>9. ASSUME NEW i \in DOMAIN fs, fs[i].n = 1 PROVE i = j
  <2>1. i \in DOMAIN s /\ fs[i] = s[i]
    BY <1>5, <1>8, <1>9
  <2>2. PICK k \in 1..6 : s[i] = BeatEntry(h, m, k)
    BY <1>4, <2>1
  <2>3. k = 1
    BY <1>9, <2>1, <2>2, BeatEntryIs
  <2> QED
    BY <1>4, <1>6, <2>1, <2>2, <2>3
<1>10. HeaderAt(fs, j)
  <2>1. WireType["header"] = 2
    BY DEF WireType
  <2> QED
    <3>1. Fits(AnyHeaderFields, fs[j])
      BY <1>7, <2>1, HeaderFits
    <3>2. \A i \in DOMAIN fs : Fits(AnyHeaderFields, fs[i]) => i = j
      BY <1>9, HeaderFits
    <3> QED
      BY <1>7, <3>1, <3>2, Zenon DEF HeaderAt
<1>11. Uncut(fs)
  <2> SUFFICES ASSUME NEW i \in DOMAIN fs PROVE fs[i].kind # "cut"
    BY DEF Uncut
  <2>1. CASE fs[i] = LaterField
    BY <1>8, <2>1
  <2>2. CASE i \in DOMAIN s
    <3>1. PICK k \in 1..6 : s[i] = BeatEntry(h, m, k)
      BY <1>4, <2>2
    <3>2. fs[i].kind = Kind(HeartbeatFields, k)
      BY <1>5, <2>2, <3>1, BeatEntryIs
    <3> QED
      BY <3>2, BeatNames
  <2> QED
    BY <1>5, <2>1, <2>2
<1>12. Payload(fs[j]) = HeaderWrite(h) /\ fs[j].kind # "floats"
  BY <1>7 DEF Payload
<1>13. PICK g : g = HeaderRead(HeaderNew, Payload(fs[j]))
  OBVIOUS
<1>14. g.schema_version = version
  BY <1>2, <1>12, <1>13
<1>15. IF version = kSchemaVersion
       THEN /\ peek_header(fs, HeaderNew).status = "kOk"
            /\ peek_header(fs, HeaderNew).out = HeaderCopyFrom(HeaderNew, g)
       ELSE peek_header(fs, HeaderNew).status # "kOk"
  <2>1. IsSeq(Payload(fs[j])) /\ HeaderReadable(Payload(fs[j])) /\ g.schema_version \in Nat
    BY <1>2, <1>12, <1>14
  <2>2. IF g.schema_version = kSchemaVersion
        THEN /\ peek_header(fs, HeaderNew).status = "kOk"
             /\ peek_header(fs, HeaderNew).out = HeaderCopyFrom(HeaderNew, g)
        ELSE peek_header(fs, HeaderNew).status # "kOk"
    BY <1>5, <1>10, <1>11, <1>12, <1>13, <2>1, HeaderPeeked
  <2> QED
    BY <1>14, <2>2, Zenon
<1>16. ASSUME version = kSchemaVersion PROVE HeaderCopyFrom(HeaderNew, g) = h
  <2>1. Later(version) = <<>>
    BY <1>16, VersionAssumption DEF Later
  <2>2. h = HeaderOf(version, number, now, <<>>)
    BY <2>1, Zenon
  <2>3. g = h
    BY <1>12, <1>13, <2>2, HeaderComesBack, Zenon
  <2> QED
    BY <2>2, <2>3, HeaderCopied, Zenon
<1> QED
  BY <1>15, <1>16, Zenon

IsNone(later) == later = <<>>

(* Such a beat can be read as a whole, and says what it said.               *)
LEMMA BeatParsed ==
  ASSUME NEW number, NEW now, NEW ticks, NEW wcet, NEW later, IsNone(later),
         NEW h, h = HeaderOf(kSchemaVersion, number, now, later),
         NEW m, m = BeatOf(h, ticks, wcet, later), NEW fs, fs = HeartbeatWrite(m)
  PROVE  /\ HeartbeatParse(HeartbeatNew, fs).ok
         /\ HeartbeatParse(HeartbeatNew, fs).msg.state = NODE_STATE_RUNNING
<1>1. PICK version : version = kSchemaVersion
  OBVIOUS
<1>2. HeaderReadable(HeaderWrite(h))
  <2>1. later \in {<<>>, <<LaterField>>}
    BY DEF IsNone
  <2> QED
    BY <1>1, <2>1, VersionRead, Zenon
<1>3. PICK s : BeatEntries(s, h, m) /\ fs = s \o <<>>
  <2>1. WritesAs(h, m, later)
    BY BeatWritten
  <2>2. later = <<>>
    BY DEF IsNone
  <2> QED
    BY <2>1, <2>2, Zenon DEF WritesAs
<1>4. /\ IsSeq(s)
      /\ \A j \in DOMAIN s : \E k \in 1..6 : s[j] = BeatEntry(h, m, k)
      /\ \A k \in {1, 2, 3} : \E j \in DOMAIN s : s[j] = BeatEntry(h, m, k)
      /\ \A i, j \in DOMAIN s : s[i] = s[j] => i = j
  BY <1>3, Zenon DEF BeatEntries
<1>5. fs = s
  BY <1>3, <1>4, Extended
<1>6. m["node_name"] = "auv" /\ m["state"] = 2
  BY BeatIs
<1>7. ASSUME NEW k \in 1..6
      PROVE  /\ ~Unreadable(HeartbeatFields, HeaderReadable, BeatEntry(h, m, k))
             /\ Fits(HeartbeatFields, BeatEntry(h, m, k))
  <2>1. PICK f : f = BeatEntry(h, m, k)
    OBVIOUS
  <2>2. /\ f.n = k /\ f.kind = Kind(HeartbeatFields, k)
        /\ k = 1 => f.v = HeaderWrite(h)
        /\ k # 1 => f.v = m[Name(HeartbeatFields, k)]
    BY <1>7, <2>1, BeatEntryIs
  <2>3. f.kind # "cut"
    BY <1>7, <2>2, BeatNames
  <2>4. f.n \in DOMAIN HeartbeatFields /\ Kind(HeartbeatFields, f.n) = f.kind
    BY <1>7, <2>2, BeatNames
  <2>5. Fits(HeartbeatFields, f)
    BY <2>4, Zenon DEF Fits
  <2>6. ~Unreadable(HeartbeatFields, HeaderReadable, f)
    <3>1. CASE f.kind = "header"
      <4>1. k = 1
        BY <1>7, <2>2, <3>1, BeatNames
      <4>2. Payload(f) = HeaderWrite(h)
        BY <2>2, <3>1, <4>1 DEF Payload
      <4>3. HeaderReadable(Payload(f))
        BY <1>2, <4>2
      <4>4. "header" # "text" /\ "header" # "floats"
        OBVIOUS
      <4> QED
        BY <2>3, <2>4, <3>1, <4>3, <4>4, Zenon DEF Unreadable
    <3>2. CASE f.kind = "text"
      <4>1. k = 2
        BY <1>7, <2>2, <3>2, BeatNames
      <4>2. Name(HeartbeatFields, k) = "node_name"
        BY <1>7, <4>1, BeatNames
      <4>3. f.v = "auv"
        BY <1>6, <2>2, <4>1, <4>2
      <4>4. "auv" # Garbled
        BY SamplesAssumption DEF Utf8
      <4> QED
        BY <2>3, <2>4, <3>2, <4>3, <4>4, Zenon DEF Unreadable
    <3>3. CASE f.kind = "int"
      <4>1. "int" # "text" /\ "int" # "floats" /\ "int" # "header"
        OBVIOUS
      <4> QED
        BY <2>3, <2>4, <3>3, <4>1, Zenon DEF Unreadable
    <3>4. f.kind \in {"header", "text", "int"}
      BY <1>7, <2>2, BeatNames
    <3> QED
      BY <3>1, <3>2, <3>3, <3>4
  <2> QED
    BY <2>1, <2>5, <2>6, Zenon
<1>8. \A i \in DOMAIN fs : ~Unreadable(HeartbeatFields, HeaderReadable, fs[i])
  <2> SUFFICES ASSUME NEW i \in DOMAIN fs
               PROVE  ~Unreadable(HeartbeatFields, HeaderReadable, fs[i])
    OBVIOUS
  <2>1. PICK k \in 1..6 : fs[i] = BeatEntry(h, m, k)
    BY <1>4, <1>5
  <2> QED
    BY <1>7, <2>1, Zenon
<1>9. Readable(HeartbeatFields, HeaderReadable, fs)
  BY <1>8, Zenon DEF Readable
<1>10. Kept(HeartbeatFields, HeaderReadable, fs) = fs
  <2>1. {i \in DOMAIN fs : Unreadable(HeartbeatFields, HeaderReadable, fs[i])} = {}
    BY <1>8, Zenon
  <2> QED
    BY <2>1, Zenon DEF Kept
<1>11. PICK j \in DOMAIN fs : fs[j] = BeatEntry(h, m, 3)
  BY <1>4, <1>5
<1>12. PICK x : x = "state"
  OBVIOUS
<1>13. PICK own : own = {i \in DOMAIN fs : /\ Fits(HeartbeatFields, fs[i])
                                          /\ Name(HeartbeatFields, fs[i].n) = x}
  OBVIOUS
<1>14. own = {j}
  <2>1. j \in own
    <3>1. PICK k \in 1..6 : k = 3
      OBVIOUS
    <3>2. Name(HeartbeatFields, k) = x
      BY <1>12, <3>1, BeatNames
    <3>3. fs[j].n = k /\ Fits(HeartbeatFields, fs[j])
      BY <1>7, <1>11, <3>1, BeatEntryIs
    <3> QED
      BY <1>13, <3>2, <3>3
  <2>2. ASSUME NEW i \in own PROVE i = j
    <3>1. i \in DOMAIN fs /\ Name(HeartbeatFields, fs[i].n) = x
      BY <1>13, <2>2
    <3>2. PICK k \in 1..6 : fs[i] = BeatEntry(h, m, k)
      BY <1>4, <1>5, <3>1
    <3>3. Name(HeartbeatFields, k) = "state"
      BY <1>12, <3>1, <3>2, BeatEntryIs
    <3>4. k = 3
      BY <3>3, BeatNames
    <3> QED
      BY <1>4, <1>5, <1>11, <3>1, <3>2, <3>4
  <2> QED
    BY <2>1, <2>2
<1>15. fs[j].v = NODE_STATE_RUNNING
  <2>1. PICK k \in 1..6 : k = 3
    OBVIOUS
  <2>2. Name(HeartbeatFields, k) = "state"
    BY <2>1, BeatNames
  <2> QED
    BY <1>6, <1>11, <2>1, <2>2, BeatEntryIs DEF NODE_STATE_RUNNING
<1>16. ReadInto(HeartbeatFields, SubmessageRead, HeartbeatNew, fs)[x] = fs[j].v
  <2>1. PICK k \in 1..6 : k = 3
    OBVIOUS
  <2>2. Name(HeartbeatFields, k) = x /\ Kind(HeartbeatFields, k) = "int"
    BY <1>12, <2>1 DEF HeartbeatFields, Name, Kind
  <2>3. Number(HeartbeatFields, x) = k
    <3>1. \A l \in 1..6 : Name(HeartbeatFields, l) = x => l = k
      BY <1>12, <2>1, BeatNames
    <3>2. DOMAIN HeartbeatFields = 1..6
      BY BeatNames
    <3>3. Number(HeartbeatFields, x) \in 1..6
          /\ Name(HeartbeatFields, Number(HeartbeatFields, x)) = x
      BY <2>2, <3>2, Zenon DEF Number
    <3> QED
      BY <3>1, <3>3
  <2>4. PICK kind : kind = Kind(HeartbeatFields, Number(HeartbeatFields, x))
    OBVIOUS
  <2>5. kind # "floats" /\ kind # "header"
    BY <2>2, <2>3, <2>4
  <2>6. x \in DOMAIN HeartbeatNew /\ x # "unknown"
    BY <1>12, NewBeat DEF HeartbeatNames
  <2> DEFINE Far == CASE kind = "floats" ->
                         HeartbeatNew[x] \o FlattenSeq([i \in DOMAIN fs |->
                                   IF i \in own THEN Elements(fs[i]) ELSE <<>>])
                    [] kind = "header" ->
                         <<SubmessageRead(HeartbeatNew[x], FlattenSeq([i \in DOMAIN fs |->
                                           IF i \in own THEN Payload(fs[i]) ELSE <<>>]))>>
                    [] OTHER -> fs[Max(own)].v
  <2>7. ReadInto(HeartbeatFields, SubmessageRead, HeartbeatNew, fs)[x]
          = IF own = {} THEN HeartbeatNew[x] ELSE Far
    BY <1>13, <2>4, <2>6, Zenon DEF ReadInto
  <2>8. Far = fs[Max(own)].v
    BY <2>5, Zenon
  <2> HIDE DEF Far
  <2>9. Max(own) = j
    <3>1. j \in Int
      BY <1>4, <1>5 DEF IsSeq
    <3>2. j >= j
      BY <3>1
    <3> QED
      BY <1>14, <3>2, Zenon DEF Max
  <2>10. own # {}
    BY <1>14
  <2> QED
    BY <2>7, <2>8, <2>9, <2>10, Zenon
<1>17. PICK r : r = ReadInto(HeartbeatFields, SubmessageRead, HeartbeatNew, fs)
  OBVIOUS
<1>18. PICK parsed : parsed = HeartbeatParse(HeartbeatNew, fs)
  OBVIOUS
<1>19. PICK b \in BOOLEAN : b = Readable(HeartbeatFields, HeaderReadable, fs)
  BY Zenon DEF Readable
<1>20. parsed = [ok |-> b, msg |-> r]
  BY <1>10, <1>17, <1>18, <1>19, Zenon DEF HeartbeatParse, HeartbeatClear
<1>21. parsed.ok = b /\ parsed.msg = r
  BY <1>20
<1>22. r[x] = NODE_STATE_RUNNING
  BY <1>15, <1>16, <1>17, Zenon
<1> QED
  BY <1>9, <1>12, <1>18, <1>19, <1>21, <1>22

(* A text in a header's place: bytes that read as one are of no version.    *)
LEMMA TextIsNoHeader ==
  ASSUME NEW f, f.kind = "text"
  PROVE  /\ IsSeq(Payload(f))
         /\ HeaderReadable(Payload(f)) =>
              HeaderRead(HeaderNew, Payload(f)).schema_version = 0
<1>1. PICK a, b : a = Field(13, "int", 1) /\ b = Cut
  OBVIOUS
<1>2. PICK fs : fs = Payload(f)
  OBVIOUS
<1>3. fs = <<a>> \/ fs = <<b>>
  BY <1>1, <1>2 DEF Payload
<1>4. IsSeq(fs)
  <2>1. <<a>> \in Seq({a}) /\ <<b>> \in Seq({b})
    OBVIOUS
  <2> QED
    BY <1>3, <2>1 DEF IsSeq
<1>5. CASE fs = <<b>>
  <2>1. 1 \in DOMAIN fs /\ fs[1] = b
    BY <1>5
  <2>2. b.kind = "cut"
    BY <1>1 DEF Cut, Field
  <2>3. ~HeaderReadable(fs)
    BY <2>1, <2>2, Zenon DEF HeaderReadable, Readable, Unreadable
  <2> QED
    BY <1>2, <1>4, <2>3, Zenon
<1>6. CASE fs = <<a>>
  <2>1. FlatType(HeaderFields, 4) /\ Name(HeaderFields, 1) = "schema_version"
        /\ Kind(HeaderFields, 1) = "int"
    BY HeaderIsFlat
  <2>2. DOMAIN fs = {1} /\ fs[1] = a
    BY <1>6
  <2>3. ~Fits(HeaderFields, a)
    <3>1. a.n \notin DOMAIN HeaderFields
      BY <1>1, <2>1 DEF FlatType, Field
    <3> QED
      BY <3>1, Zenon DEF Fits
  <2>4. PICK k \in 1..4 : k = 1
    OBVIOUS
  <2>5. Own(fs, HeaderFields, Name(HeaderFields, k)) = {}
    BY <2>2, <2>3 DEF Own
  <2>6. ReadInto(HeaderFields, NoSubRead, New(HeaderFields), fs)[Name(HeaderFields, k)]
          = Default[Kind(HeaderFields, k)]
    BY <2>1, <2>5, ReadNowhere, Zenon
  <2>7. Default["int"] = 0
    BY DEF Default
  <2>8. HeaderRead(HeaderNew, fs)["schema_version"] = 0
    BY <2>1, <2>4, <2>6, <2>7, Zenon DEF HeaderRead, HeaderNew
  <2> QED
    BY <1>2, <1>4, <2>8, Zenon
<1> QED
  BY <1>3, <1>5, <1>6

(* A message that begins with a text is refused, as one without a header.   *)
LEMMA FlatRefused ==
  ASSUME NEW K, NEW n, FlatType(K, n), NEW m, Sendable(K, m, n), 1 \in 1..n, Kind(K, 1) = "text"
  PROVE  peek_header(Write(K, NoSubWrite, m), HeaderNew).status # "kOk"
<1>1. PICK fs : fs = Write(K, NoSubWrite, m)
  OBVIOUS
<1>2. Enumerates(fs, K, m, n)
  BY <1>1, WritesSet, Zenon
<1>3. ASSUME NEW i \in DOMAIN fs
      PROVE  \E k \in 1..n : fs[i] = Entry(K, m, k) /\ k \in Given(K, m)
  BY <1>2 DEF Enumerates, Given, FlatType
<1>4. Uncut(fs)
  <2> SUFFICES ASSUME NEW i \in DOMAIN fs PROVE fs[i].kind # "cut"
    BY DEF Uncut
  <2>1. PICK k \in 1..n : fs[i] = Entry(K, m, k)
    BY <1>3
  <2>2. fs[i].kind = Kind(K, k) /\ Kind(K, k) \in FlatKinds
    BY <2>1, EntryIs DEF FlatType
  <2> QED
    BY <2>2 DEF FlatKinds
<1>5. ASSUME NEW i \in DOMAIN fs, Fits(AnyHeaderFields, fs[i])
      PROVE  fs[i] = Entry(K, m, 1) /\ 1 \in Given(K, m)
  <2>1. PICK k \in 1..n : fs[i] = Entry(K, m, k) /\ k \in Given(K, m)
    BY <1>3, <1>5
  <2>2. fs[i].n = 1
    BY <1>5, HeaderFits
  <2>3. k = 1
    BY <2>1, <2>2, EntryIs
  <2> QED
    BY <2>1, <2>3
<1>6. CASE Headless(fs)
  BY <1>1, <1>4, <1>6, HeaderMissed, Zenon
<1>7. CASE ~Headless(fs)
  <2>1. PICK j \in DOMAIN fs : Fits(AnyHeaderFields, fs[j])
    BY <1>7 DEF Headless
  <2>2. fs[j] = Entry(K, m, 1)
    BY <1>5, <2>1
  <2>3. fs[j].kind = "text"
    BY <2>2, EntryIs
  <2>4. HeaderAt(fs, j)
    <3>1. \A i, l \in DOMAIN fs : fs[i] = fs[l] => i = l
      BY <1>2 DEF Enumerates
    <3>2. \A i \in DOMAIN fs : Fits(AnyHeaderFields, fs[i]) => fs[i] = fs[j]
      BY <1>5, <2>2
    <3> QED
      BY <2>1, <3>1, <3>2 DEF HeaderAt
  <2>5. CASE ~HeaderReadable(Payload(fs[j]))
    BY <1>1, <1>4, <2>1, <2>5, HeaderMissed, Zenon
  <2>6. CASE HeaderReadable(Payload(fs[j]))
    <3>1. PICK h : h = HeaderRead(HeaderNew, Payload(fs[j]))
      OBVIOUS
    <3>2. h.schema_version = 0 /\ IsSeq(Payload(fs[j]))
      BY <2>3, <2>6, <3>1, TextIsNoHeader, Zenon
    <3>3. h.schema_version \in Nat /\ h.schema_version # kSchemaVersion
      BY <3>2, VersionAssumption
    <3>4. IsSeq(fs)
      BY <1>2 DEF Enumerates, IsSeq
    <3>5. fs[j].kind # "floats"
      BY <2>3
    <3>6. IF h.schema_version = kSchemaVersion
          THEN /\ peek_header(fs, HeaderNew).status = "kOk"
               /\ peek_header(fs, HeaderNew).out = HeaderCopyFrom(HeaderNew, h)
          ELSE peek_header(fs, HeaderNew).status # "kOk"
      BY <1>4, <2>4, <2>6, <3>1, <3>2, <3>3, <3>4, <3>5, HeaderPeeked
    <3>7. peek_header(fs, HeaderNew).status # "kOk"
      BY <3>3, <3>6, Zenon
    <3> QED
      BY <1>1, <3>7, Zenon
  <2> QED
    BY <2>5, <2>6
<1> QED
  BY <1>6, <1>7

(* Scans and clouds are no messages with a header.                         *)
LEMMA SampleRefused ==
  /\ \A scan \in Scan :
       peek_header(LidarScanWrite(to_proto(scan, LidarScanNew)), HeaderNew).status # "kOk"
  /\ \A cloud \in PointCloud :
       peek_header(LidarPointCloudWrite(cloud_to_proto(cloud, LidarPointCloudNew)),
                   HeaderNew).status # "kOk"
<1>1. ASSUME NEW scan \in Scan
      PROVE  peek_header(LidarScanWrite(to_proto(scan, LidarScanNew)), HeaderNew).status # "kOk"
  <2>1. PICK m : m = to_proto(scan, LidarScanNew)
    OBVIOUS
  <2>2. PICK n \in Nat : n = 13
    OBVIOUS
  <2>3. FlatType(LidarScanFields, n) /\ Sendable(LidarScanFields, m, n)
    BY <1>1, <2>1, <2>2, ScanIsFlat, ScanIsSendable
  <2>4. 1 \in 1..n /\ Kind(LidarScanFields, 1) = "text"
    BY <2>2 DEF LidarScanFields, Kind
  <2>5. peek_header(Write(LidarScanFields, NoSubWrite, m), HeaderNew).status # "kOk"
    BY <2>3, <2>4, FlatRefused, Zenon
  <2> QED
    BY <2>1, <2>5, Zenon DEF LidarScanWrite
<1>2. ASSUME NEW cloud \in PointCloud
      PROVE  peek_header(LidarPointCloudWrite(cloud_to_proto(cloud, LidarPointCloudNew)),
                   HeaderNew).status # "kOk"
  <2>1. PICK m : m = cloud_to_proto(cloud, LidarPointCloudNew)
    OBVIOUS
  <2>2. PICK n \in Nat : n = 9
    OBVIOUS
  <2>3. FlatType(LidarPointCloudFields, n) /\ Sendable(LidarPointCloudFields, m, n)
    BY <1>2, <2>1, <2>2, CloudIsFlat, CloudIsSendable
  <2>4. 1 \in 1..n /\ Kind(LidarPointCloudFields, 1) = "text"
    BY <2>2 DEF LidarPointCloudFields, Kind
  <2>5. peek_header(Write(LidarPointCloudFields, NoSubWrite, m), HeaderNew).status # "kOk"
    BY <2>3, <2>4, FlatRefused, Zenon
  <2> QED
    BY <2>1, <2>5, Zenon DEF LidarPointCloudWrite
<1> QED
  BY <1>1, <1>2

-----------------------------------------------------------------------------
(* The samples there are.                                                  *)

(* A stamped scan is a scan.                                               *)
LEMMA SampleIsScan ==
  ASSUME NEW shape \in Scan, NEW t \in Int
  PROVE  [shape EXCEPT !.stamp_ns = t] \in Scan
<1>1. PICK F, Q, U : F = Float /\ Q = Seq(Float) /\ U = Utf8
  OBVIOUS
<1>2. Scan = [frame_id : U, stamp_ns : Int, scan_time_ns : Int, time_increment_ns : Int,
              angle_min : F, angle_max : F, angle_increment : F,
              range_min : F, range_max : F, echo_index : 0..255, echo_count : 0..255,
              ranges : Q, intensities : Q]
  BY <1>1 DEF Scan
<1> QED
  BY <1>2

(* A stamped cloud is a cloud.                                             *)
LEMMA SampleIsCloud ==
  ASSUME NEW shape \in PointCloud, NEW t \in Int
  PROVE  [shape EXCEPT !.stamp_ns = t] \in PointCloud
<1>1. PICK F, Q, U : F = Float /\ Q = Seq(Float) /\ U = Utf8
  OBVIOUS
<1>2. PointCloud = [frame_id : U, stamp_ns : Int, scan_time_ns : Int, range_min : F, range_max : F,
                    ranges : Q, azimuths : Q, elevations : Q, intensities : Q]
  BY <1>1 DEF PointCloud
<1> QED
  BY <1>2

(* record_sample_data.cpp: what it makes up are scans.                      *)
LEMMA MadeUpIsScan ==
  ASSUME NEW n \in Nat
  PROVE  make_sample_scan(n) \in Scan
<1>1. PICK new : new = LidarScanNew
  OBVIOUS
<1>2. /\ new["time_increment_ns"] = 0 /\ new["range_min"] = 0
      /\ new["echo_index"] = 0 /\ new["intensities"] = <<>>
  <2>1. \A k \in 1..13 : new[Name(LidarScanFields, k)] = Default[Kind(LidarScanFields, k)]
    BY <1>1, ScanIsFlat, NewIs DEF LidarScanNew
  <2>2. /\ Name(LidarScanFields, 4) = "time_increment_ns" /\ Kind(LidarScanFields, 4) = "int"
        /\ Name(LidarScanFields, 8) = "range_min" /\ Kind(LidarScanFields, 8) = "float"
        /\ Name(LidarScanFields, 10) = "echo_index" /\ Kind(LidarScanFields, 10) = "int"
        /\ Name(LidarScanFields, 13) = "intensities" /\ Kind(LidarScanFields, 13) = "floats"
    BY DEF LidarScanFields, Name, Kind
  <2>3. Default["int"] = 0 /\ Default["float"] = 0 /\ Default["floats"] = <<>>
    BY DEF Default
  <2> QED
    BY <2>1, <2>2, <2>3
<1>3. PICK D : D = DefaultScan
  OBVIOUS
<1>4. D = [x \in ScanNames \ {"unknown"} |-> IF x = "echo_count" THEN 1 ELSE new[x]]
  BY <1>1, <1>3, NewScan DEF DefaultScan
<1>5. PICK s : s = make_sample_scan(n)
  OBVIOUS
<1>6. s = [D EXCEPT !.frame_id = "lidar", !.stamp_ns = n, !.scan_time_ns = 1,
             !.angle_min = -3, !.angle_max = 3, !.angle_increment = 1, !.range_max = 20,
             !.ranges = <<2, 2 + n>>]
  BY <1>3, <1>5 DEF make_sample_scan
<1>7. /\ s = [x \in ScanNames \ {"unknown"} |-> s[x]]
      /\ s.frame_id = "lidar" /\ s.stamp_ns = n /\ s.scan_time_ns = 1
      /\ s.time_increment_ns = 0 /\ s.angle_min = -3 /\ s.angle_max = 3
      /\ s.angle_increment = 1 /\ s.range_min = 0 /\ s.range_max = 20
      /\ s.echo_index = 0 /\ s.echo_count = 1
      /\ s.ranges = <<2, 2 + n>> /\ s.intensities = <<>>
  BY <1>2, <1>4, <1>6 DEF ScanNames
<1>8. PICK F : F = Float
  OBVIOUS
<1>9. Int \subseteq F
  BY <1>8 DEF Float
<1>10. <<2, 2 + n>> \in Seq(F) /\ <<>> \in Seq(F)
  BY <1>9
<1>11. PICK Q, U : Q = Seq(F) /\ U = Utf8 /\ "lidar" \in U
  BY SamplesAssumption
<1>12. Scan = [frame_id : U, stamp_ns : Int, scan_time_ns : Int, time_increment_ns : Int,
               angle_min : F, angle_max : F, angle_increment : F,
               range_min : F, range_max : F, echo_index : 0..255, echo_count : 0..255,
               ranges : Q, intensities : Q]
  BY <1>8, <1>11 DEF Scan
<1>13. /\ s.frame_id \in U /\ s.stamp_ns \in Int /\ s.scan_time_ns \in Int
       /\ s.time_increment_ns \in Int /\ s.echo_index \in 0..255 /\ s.echo_count \in 0..255
  BY <1>7, <1>11
<1>14. /\ s.angle_min \in F /\ s.angle_max \in F /\ s.angle_increment \in F
       /\ s.range_min \in F /\ s.range_max \in F
  BY <1>7, <1>9
<1>15. s.ranges \in Q /\ s.intensities \in Q
  BY <1>7, <1>10, <1>11
<1>16. s \in Scan
  BY <1>7, <1>12, <1>13, <1>14, <1>15 DEF ScanNames
<1> QED
  BY <1>5, <1>16

(* What there is to carry has the types of the structs.                     *)
LEMMA RecordableAreScans == Recordable \subseteq Scan
<1> SUFFICES ASSUME NEW scan \in Recordable PROVE scan \in Scan
  OBVIOUS
<1>1. 0..MaxTaken \subseteq Nat
  BY DataPathAssumption
<1>2. CASE \E n \in 0..MaxTaken : scan = make_sample_scan(n)
  BY <1>1, <1>2, MadeUpIsScan
<1>3. CASE \E shape \in Shapes, t \in 0..MaxTaken : scan = [shape EXCEPT !.stamp_ns = t]
  <2>1. PICK shape \in Scan, t \in Int : scan = [shape EXCEPT !.stamp_ns = t]
    BY <1>1, <1>3, SamplesAssumption
  <2> QED
    BY <2>1, SampleIsScan
<1> QED
  BY <1>2, <1>3 DEF Recordable, HandedOut

LEMMA HandedOutAreClouds == HandedOut(CloudShapes) \subseteq PointCloud
<1> SUFFICES ASSUME NEW shape \in CloudShapes, NEW t \in 0..MaxTaken
             PROVE  [shape EXCEPT !.stamp_ns = t] \in PointCloud
  BY DEF HandedOut
<1>1. shape \in PointCloud /\ t \in Int
  BY SamplesAssumption, DataPathAssumption
<1> QED
  BY <1>1, SampleIsCloud

(* The bytes of what is recorded, and of what is read of it, can be framed. *)
LEMMA BodiesFit ==
  ASSUME NEW scan \in Recordable
  PROVE  /\ Back(scan) \in Scan
         /\ Len(Body(Back(scan))) <= Widest
<1>1. scan \in Scan
  BY RecordableAreScans
<1>2. Back(scan) \in Scan
  BY <1>1, BackIsScan
<1>3. Body(Back(scan)) = Body(scan)
  BY <1>1, BackWritesTheSame, Zenon DEF Body, Written
<1>4. Len(Body(scan)) <= Widest
  BY <1>1, ByteSizeIs, SizesAssumption
<1> QED
  BY <1>2, <1>3, <1>4

-----------------------------------------------------------------------------
(* What the queue, the last message and the log hold: the lists themselves, *)
(* and that only the programs that exist run.                               *)
Lists == IsSeq(log) /\ IsSeq(queue) /\ program \in Programs

(* What is published carries the sample in hand, and its serialised bytes.  *)
Carrying(fields) == [by |-> program, value |-> hand, fields |-> fields]

LEMMA Published ==
  ASSUME Publish
  PROVE  \/ queue' = queue
         \/ queue' = Append(queue, Carrying(
              IF program = "cloud_publisher"
              THEN LidarPointCloudWrite(cloud_to_proto(hand, wire.pub))
              ELSE LidarScanWrite(to_proto(hand, wire.pub))))
<1>1. CASE program = "cloud_publisher"
  BY <1>1, Zenon DEF Publish, Send, Carrying
<1>2. CASE program # "cloud_publisher"
  BY <1>2, Zenon DEF Publish, Send, Carrying
<1> QED
  BY <1>1, <1>2

LEMMA InitLists == Init => Lists
<1> SUFFICES ASSUME Init PROVE Lists
  OBVIOUS
<1>1. <<>> \in Seq({})
  OBVIOUS
<1> QED
  BY <1>1 DEF Init, Lists, IsSeq

LEMMA ListsKept == Lists /\ [Next]_vars => Lists'
<1> SUFFICES ASSUME Lists, [Next]_vars PROVE Lists'
  OBVIOUS
<1> USE DEF Lists
<1>1. CASE Start
  BY <1>1 DEF Start
<1>2. CASE Crash
  BY <1>2 DEF Crash
<1>3. CASE Poll
  BY <1>3 DEF Poll
<1>4. CASE Record
  BY <1>4, Appended DEF Record
<1>5. CASE RecordFails
  BY <1>5 DEF RecordFails
<1>6. CASE Publish
  <2>1. PICK m : queue' = queue \/ queue' = Append(queue, m)
    BY <1>6, Published
  <2>2. UNCHANGED <<program, log>>
    BY <1>6 DEF Publish
  <2>3. IsSeq(queue')
    <3>1. CASE queue' = queue
      BY <3>1
    <3>2. CASE queue' = Append(queue, m)
      BY <3>2, Appended
    <3> QED
      BY <2>1, <3>1, <3>2
  <2> QED
    BY <2>2, <2>3
<1>7. CASE Beat
  BY <1>7, Appended DEF Beat, Send
<1>8. CASE Demonstrate
  BY <1>8 DEF Demonstrate
<1>9. CASE SomeoneElsePublishes
  BY <1>9, Appended DEF SomeoneElsePublishes
<1>10. CASE Deliver
  BY <1>10, Taken DEF Deliver
<1>11. CASE DeliverCloud
  BY <1>11, Taken DEF DeliverCloud
<1>12. CASE DeliverAny
  BY <1>12, Taken DEF DeliverAny
<1>13. CASE Query
  BY <1>13 DEF Query
<1>14. CASE Dump
  BY <1>14 DEF Dump
<1>15. CASE UNCHANGED vars
  BY <1>15 DEF vars
<1> QED
  BY <1>1, <1>2, <1>3, <1>4, <1>5, <1>6, <1>7, <1>8, <1>9, <1>10, <1>11, <1>12, <1>13, <1>14,
     <1>15 DEF Next

-----------------------------------------------------------------------------
(* What is live is recorded.                                               *)

IsRecorded(sample) == \E i \in DOMAIN log : log[i].sample = sample

Traced(message) == message.by = program => IsRecorded(message.value)

(* The recording service publishes what it has just recorded.              *)
Serves ==
  program = "service" =>
    /\ pc = "publish" => IsRecorded(hand)
    /\ \A i \in DOMAIN queue : Traced(queue[i])
    /\ got # Nothing => Traced(got.message)

(* Nothing that was recorded is forgotten.                                 *)
LEMMA RecordedStays ==
  ASSUME Lists, log' = log \/ \E e : log' = Append(log, e), NEW sample, IsRecorded(sample)
  PROVE  IsRecorded(sample)'
BY Appended DEF Lists, IsRecorded

(* A step that only takes a message from the queue, or none.                *)
LEMMA WatchersKeep ==
  ASSUME Lists, Serves, UNCHANGED <<program, pc, hand, log>>,
         \/ UNCHANGED <<queue, got>>
         \/ queue # <<>> /\ queue' = Tail(queue) /\ got'.message = Head(queue)
  PROVE  Serves'
<1> SUFFICES ASSUME program = "service" PROVE Serves'
  BY DEF Serves
<1>1. \A m : Traced(m)' <=> Traced(m)
  BY DEF Traced, IsRecorded
<1>2. CASE UNCHANGED <<queue, got>>
  BY <1>1, <1>2 DEF Serves, IsRecorded
<1>3. CASE queue # <<>> /\ queue' = Tail(queue) /\ got'.message = Head(queue)
  <2>1. /\ 1 \in DOMAIN queue /\ Head(queue) = queue[1]
        /\ \A i \in DOMAIN queue' : i + 1 \in DOMAIN queue /\ queue'[i] = queue[i + 1]
    BY <1>3, Taken DEF Lists
  <2>2. Traced(got'.message) /\ \A i \in DOMAIN queue' : Traced(queue'[i])
    BY <1>3, <2>1 DEF Serves
  <2> QED
    BY <1>1, <2>2 DEF Serves, IsRecorded
<1> QED
  BY <1>2, <1>3

LEMMA ServesKept == Lists /\ Serves /\ [Next]_vars => Serves'
<1> SUFFICES ASSUME Lists, Serves, [Next]_vars, program = "service" PROVE Serves'
  BY DEF Serves, Next, Start, Crash, Poll, Record, RecordFails, Publish, Beat, Demonstrate,
     SomeoneElsePublishes, Deliver, DeliverCloud, DeliverAny, Query, Dump, vars
<1>1. CASE Start
  BY <1>1 DEF Start, Serves, Traced, IsRecorded
<1>2. CASE Crash
  BY <1>2 DEF Crash, Serves, Traced, IsRecorded
<1>3. CASE Poll
  BY <1>3 DEF Poll, Serves, Traced, IsRecorded, Records
<1>4. CASE Record
  <2>1. PICK e : log' = Append(log, e) /\ e.sample = hand
    BY <1>4 DEF Record
  <2>2. UNCHANGED <<program, hand, queue, got>>
    BY <1>4 DEF Record
  <2>3. \A sample : IsRecorded(sample) => IsRecorded(sample)'
    BY <2>1, RecordedStays
  <2>4. IsRecorded(hand)'
    <3>1. \E i \in DOMAIN log' : log'[i] = e
      BY <2>1, Appended DEF Lists
    <3> QED
      BY <2>1, <2>2, <3>1 DEF IsRecorded
  <2>5. \A m : Traced(m) => Traced(m)'
    BY <2>2, <2>3 DEF Traced
  <2> QED
    BY <2>2, <2>4, <2>5 DEF Serves
<1>5. CASE RecordFails
  BY <1>5 DEF RecordFails, Serves, Traced, IsRecorded
<1>6. CASE Publish
  <2>1. PICK m : /\ queue' = queue \/ queue' = Append(queue, m)
                 /\ m.value = hand
    BY <1>6, Published DEF Carrying
  <2>2. /\ pc = "publish" /\ pc' = "poll" /\ UNCHANGED <<program, hand, log, got>>
    BY <1>6 DEF Publish
  <2>3. Traced(m) /\ \A i \in DOMAIN queue : Traced(queue[i])
    BY <2>1, <2>2 DEF Serves, Traced
  <2>4. \A i \in DOMAIN queue' : Traced(queue'[i])
    BY <2>1, <2>3, Appended DEF Lists
  <2>5. \A x : Traced(x)' <=> Traced(x)
    BY <2>2 DEF Traced, IsRecorded
  <2> QED
    BY <2>2, <2>4, <2>5 DEF Serves
<1>7. CASE Beat \/ Demonstrate
  BY <1>7 DEF Beat, Demonstrate
<1>8. CASE SomeoneElsePublishes
  <2>1. PICK m : queue' = Append(queue, m) /\ m.by = "another"
    BY <1>8 DEF SomeoneElsePublishes
  <2>2. UNCHANGED <<program, pc, hand, log, got>>
    BY <1>8 DEF SomeoneElsePublishes
  <2>3. Traced(m) /\ \A i \in DOMAIN queue : Traced(queue[i])
    BY <2>1 DEF Serves, Traced
  <2>4. \A i \in DOMAIN queue' : Traced(queue'[i])
    BY <2>1, <2>3, Appended DEF Lists
  <2>5. \A x : Traced(x)' <=> Traced(x)
    BY <2>2 DEF Traced, IsRecorded
  <2> QED
    BY <2>2, <2>4, <2>5 DEF Serves, IsRecorded
<1>9. CASE Deliver \/ DeliverCloud
  <2>1. PICK parsed, value : Judged(parsed, value)
    BY <1>9 DEF Deliver, DeliverCloud
  <2>2. got'.message = Head(queue)
    BY <2>1 DEF Judged
  <2> QED
    BY <1>9, <2>2, WatchersKeep DEF Deliver, DeliverCloud
<1>10. CASE DeliverAny
  <2>1. got'.message = Head(queue)
    BY <1>10 DEF DeliverAny
  <2> QED
    BY <1>10, <2>1, WatchersKeep DEF DeliverAny
<1>11. CASE Query \/ Dump \/ UNCHANGED vars
  BY <1>11, WatchersKeep DEF Query, Dump, vars
<1> QED
  BY <1>1, <1>2, <1>3, <1>4, <1>5, <1>6, <1>7, <1>8, <1>9, <1>10, <1>11 DEF Next

(* service.cpp: whatever the service has sent is in its log, however often  *)
(* it dies, fails to record or is started again.                           *)
THEOREM WhatIsLiveIsRecorded == Spec => []LiveIsRecorded
<1>1. Serves => LiveIsRecorded
  BY DEF Serves, LiveIsRecorded, Traced, IsRecorded
<1>2. Init => Serves
  BY DEF Init, Serves
<1> QED
  BY <1>1, <1>2, InitLists, ListsKept, ServesKept, PTL DEF Spec

-----------------------------------------------------------------------------
(* Message objects, used again and again.                                  *)

LEMMA CloudObjectReused ==
  ASSUME NEW w, Usable(w, LidarPointCloudNew), NEW cloud
  PROVE  /\ cloud_to_proto(cloud, w) = cloud_to_proto(cloud, LidarPointCloudNew)
         /\ Usable(cloud_to_proto(cloud, w), LidarPointCloudNew)
<1>1. DOMAIN w = DOMAIN LidarPointCloudNew /\ w["unknown"] = LidarPointCloudNew["unknown"]
      /\ w["unknown"] = <<>> /\ "unknown" \in DOMAIN LidarPointCloudNew
  BY NewCloud DEF Usable, LidarPointCloudNew, New
<1> QED
  BY <1>1 DEF cloud_to_proto, copy_floats, Usable

-----------------------------------------------------------------------------
(* What a typed subscriber hands out.                                      *)

(* The message that a program makes of a sample it has in hand, with a new  *)
(* object.                                                                 *)
FieldsOf(sample) ==
  IF program = "cloud_publisher"
  THEN LidarPointCloudWrite(cloud_to_proto(sample, LidarPointCloudNew))
  ELSE LidarScanWrite(to_proto(sample, LidarScanNew))

Samples == HandedOut(IF program = "cloud_publisher" THEN CloudShapes ELSE Shapes)

(* Or of a beat, with the version of any build.                            *)
IsBeat(message) ==
  \E version \in Nat : \E number, now, ticks, wcet :
    LET h == HeaderOf(version, number, now, Later(version))
    IN /\ message.value = BeatOf(h, ticks, wcet, Later(version))
       /\ message.fields = HeartbeatWrite(message.value)

Samplers == {"service", "scan_publisher", "cloud_publisher"}
Beaters  == {"mw_pub", "mw_msgdemo"}

Genuine(message) ==
  /\ message.by \in {program, "another"}
  /\ message.by = program =>
       IF program \in Samplers
       THEN message.value \in Samples /\ message.fields = FieldsOf(message.value)
       ELSE IsBeat(message)

(* What a new object makes of a message.                                   *)
ReadAfresh(message) ==
  IF program = "cloud_publisher"
  THEN LidarPointCloudParse(LidarPointCloudNew, message.fields)
  ELSE LidarScanParse(LidarScanNew, message.fields)

ValueOf(parsed) ==
  IF program = "cloud_publisher" THEN cloud_from_proto(parsed.msg) ELSE from_proto(parsed.msg)

Faithful ==
  LET parsed == ReadAfresh(got.message)
  IN IF parsed.ok THEN got.status = "handed out" /\ got.value = ValueOf(parsed)
     ELSE got.status = "refused"

(* What mw_sub says of the header of a message.                             *)
Honest(g) ==
  IF g.message.by \in Beaters
  THEN LET stamped == g.message.value.header[1]
       IN IF stamped.schema_version = kSchemaVersion
          THEN g.status = "kOk" /\ g.header = stamped
               /\ g.parsed /\ g.state = NODE_STATE_RUNNING
          ELSE g.status # "kOk"
  ELSE g.message.by \in Programs => g.status # "kOk"

(* Of every message on its way it is known what its program put into it, and*)
(* of every sample in hand, and object in use, what the program needs to    *)
(* put the next one in.                                                    *)
Sends ==
  watcher # "query" =>
    /\ program \in IF watcher = "typed" THEN Samplers ELSE Samplers \cup Beaters
    /\ DOMAIN wire = {"rec", "pub", "sub", "read"}
    /\ program \in Samplers => taken \in 0..MaxTaken
    /\ pc \in {"record", "publish"} => program \in Samplers /\ hand \in Samples
    /\ program \in Samplers /\ pc # "down" => Usable(wire.pub, CloudNew)
    /\ \A i \in DOMAIN queue : Genuine(queue[i])

Typed   == watcher = "typed" /\ got # Nothing => Genuine(got.message) /\ Faithful
Watched == watcher = "mw_sub" /\ got # Nothing => Honest(got)

LEMMA InitSends == Init => Sends /\ Typed /\ Watched
<1> SUFFICES ASSUME Init PROVE Sends /\ Typed /\ Watched
  OBVIOUS
<1>1. watcher # "query" =>
        program \in IF watcher = "typed" THEN Samplers ELSE Samplers \cup Beaters
  BY DEF Init, Programs, ScanPrograms, Watchers, Samplers, Beaters
<1>2. 0 \in 0..MaxTaken
  BY DataPathAssumption
<1> QED
  BY <1>1, <1>2 DEF Init, Sends, Typed, Watched

LEMMA ProgramStays == [Next]_vars => UNCHANGED <<program, watcher>>
BY DEF Next, Start, Crash, Poll, Record, RecordFails, Publish, Beat, Demonstrate,
     SomeoneElsePublishes, Deliver, DeliverCloud, DeliverAny, Query, Dump, vars

(* What mw_pub and mw_msgdemo stamp and fill in.                            *)
Stamped(version, number, now, later) ==
  [set_schema_version(stamp_header(mutable_header(HeartbeatNew.header), "auv", number, now),
                      version) EXCEPT !.unknown = later]

FilledIn(h, ticks, wcet) ==
  set_counts(set_state(set_node_name(set_header(HeartbeatNew, h), "auv"), NODE_STATE_RUNNING),
             ticks, 0, wcet)

Enlarged(hb, later) == [hb EXCEPT !.unknown = later]

LEMMA StampedWith ==
  ASSUME NEW version, NEW number, NEW now, NEW later
  PROVE  Stamped(version, number, now, later) = HeaderOf(version, number, now, later)
<1>1. PICK h : h = HeaderOf(kSchemaVersion, number, now, <<>>)
  OBVIOUS
<1>2. stamp_header(mutable_header(HeartbeatNew.header), "auv", number, now) = h
  BY <1>1, StampedIs, Zenon
<1>3. [set_schema_version(h, version) EXCEPT !.unknown = later]
        = HeaderOf(version, number, now, later)
  BY <1>1 DEF HeaderOf, HeaderNames, set_schema_version
<1> QED
  BY <1>2, <1>3, Zenon DEF Stamped

LEMMA FilledWith ==
  ASSUME NEW h, NEW ticks, NEW wcet, NEW later
  PROVE  Enlarged(FilledIn(h, ticks, wcet), later) = BeatOf(h, ticks, wcet, later)
<1>1. PICK hb : hb = BeatOf(h, ticks, wcet, <<>>)
  OBVIOUS
<1>2. FilledIn(h, ticks, wcet) = hb
  BY <1>1, BeatMade, Zenon DEF FilledIn
<1>3. [hb EXCEPT !.unknown = later] = BeatOf(h, ticks, wcet, later)
  BY <1>1 DEF BeatOf, HeartbeatNames
<1> QED
  BY <1>2, <1>3, Zenon DEF Enlarged

(* What mw_pub sends is such a beat.                                        *)
LEMMA BeatSent ==
  ASSUME NEW version \in Nat, NEW number, NEW now, NEW ticks, NEW wcet, NEW m,
         m.value = Enlarged(FilledIn(Stamped(version, number, now, Later(version)), ticks, wcet),
                            Later(version)),
         m.fields = HeartbeatWrite(m.value)
  PROVE  IsBeat(m)
<1>1. PICK h : h = HeaderOf(version, number, now, Later(version))
  OBVIOUS
<1>2. Stamped(version, number, now, Later(version)) = h
  BY <1>1, StampedWith, Zenon
<1>3. PICK hb : hb = BeatOf(h, ticks, wcet, Later(version))
  OBVIOUS
<1>4. Enlarged(FilledIn(h, ticks, wcet), Later(version)) = hb
  BY <1>3, FilledWith, Zenon
<1>5. m.value = hb
  BY <1>2, <1>4, Zenon
<1> QED
  BY <1>1, <1>3, <1>5, Zenon DEF IsBeat

LEMMA SendsKept == Lists /\ Sends /\ [Next]_vars => Sends'
<1> SUFFICES ASSUME Lists, Sends, [Next]_vars, watcher # "query" PROVE Sends'
  BY ProgramStays DEF Sends
<1>1. UNCHANGED <<program, watcher>>
  BY ProgramStays
<1>2. /\ Samples' = Samples /\ CloudNew' = CloudNew
      /\ \A m : Genuine(m)' <=> Genuine(m)
  BY <1>1 DEF Samples, CloudNew, Genuine, FieldsOf, IsBeat
<1>3. /\ program \in IF watcher = "typed" THEN Samplers ELSE Samplers \cup Beaters
      /\ DOMAIN wire = {"rec", "pub", "sub", "read"}
      /\ program \in Samplers => taken \in 0..MaxTaken
      /\ pc \in {"record", "publish"} => program \in Samplers /\ hand \in Samples
      /\ program \in Samplers /\ pc # "down" => Usable(wire.pub, CloudNew)
      /\ \A i \in DOMAIN queue : Genuine(queue[i])
  BY DEF Sends
<1>4. Samplers \cap Beaters = {} /\ {"mw_pub", "mw_msgdemo"} = Beaters
      /\ Samplers \cap {"record_sample"} = {}
  BY DEF Samplers, Beaters
<1>5. CASE Start
  <2>1. DOMAIN wire' = {"rec", "pub", "sub", "read"} /\ wire'.pub = CloudNew
    BY <1>3, <1>5 DEF Start
  <2>2. Usable(CloudNew, CloudNew)
    BY NewScan, NewCloud DEF CloudNew
  <2>3. pc' = "poll" /\ UNCHANGED <<taken, queue>>
    BY <1>5 DEF Start
  <2> QED
    BY <1>1, <1>2, <1>3, <2>1, <2>2, <2>3 DEF Sends
<1>6. CASE Crash
  BY <1>1, <1>2, <1>3, <1>6 DEF Crash, Sends
<1>7. CASE Poll
  <2>1. /\ pc = "poll" /\ taken < MaxTaken /\ taken' = taken + 1 /\ program \in Samplers
        /\ UNCHANGED <<wire, queue>>
    BY <1>3, <1>4, <1>7 DEF Poll
  <2>2. taken' \in 0..MaxTaken
    BY <1>3, <2>1, DataPathAssumption
  <2>3. hand' \in Samples
    BY <1>3, <1>4, <1>7, <2>1 DEF Poll, Samples, HandedOut
  <2> QED
    BY <1>1, <1>2, <1>3, <2>1, <2>2, <2>3 DEF Sends
<1>8. CASE Record \/ RecordFails
  <2>1. /\ pc = "record" /\ (pc' = "down" \/ pc' = "publish" \/ pc' = "poll")
        /\ UNCHANGED <<taken, hand, queue>>
        /\ wire' = [wire EXCEPT !.rec = to_proto(hand, wire.rec)]
    BY <1>8 DEF Record, RecordFails
  <2>2. DOMAIN wire' = {"rec", "pub", "sub", "read"} /\ wire'.pub = wire.pub
    BY <1>3, <2>1
  <2> QED
    BY <1>1, <1>2, <1>3, <2>1, <2>2 DEF Sends
<1>9. CASE Publish
  <2>1. pc = "publish" /\ pc' = "poll" /\ UNCHANGED <<taken, hand>>
    BY <1>9 DEF Publish
  <2>2. /\ DOMAIN wire' = {"rec", "pub", "sub", "read"}
        /\ wire'.pub = IF program = "cloud_publisher" THEN cloud_to_proto(hand, wire.pub)
                       ELSE to_proto(hand, wire.pub)
    BY <1>3, <1>9 DEF Publish
  <2>3. Usable(wire'.pub, CloudNew)
    BY <1>3, <2>1, <2>2, ScanObjectReused, CloudObjectReused DEF CloudNew
  <2>4. \/ queue' = queue
        \/ queue' = Append(queue, Carrying(FieldsOf(hand)))
    BY <1>3, <1>9, <2>1, Published, ScanObjectReused, CloudObjectReused DEF CloudNew, FieldsOf
  <2>5. Genuine(Carrying(FieldsOf(hand)))
    BY <1>3, <2>1 DEF Genuine, Carrying
  <2>6. \A i \in DOMAIN queue' : Genuine(queue'[i])
    BY <1>3, <2>4, <2>5, Appended DEF Lists
  <2> QED
    BY <1>1, <1>2, <1>3, <2>1, <2>2, <2>3, <2>6 DEF Sends
<1>10. CASE Beat
  <2>1. program = "mw_pub" /\ UNCHANGED <<wire, pc, hand>>
    BY <1>10 DEF Beat
  <2>2. program \notin Samplers
    BY <1>4, <2>1
  <2>3. PICK m : m.by = program /\ IsBeat(m) /\ (queue' = queue \/ queue' = Append(queue, m))
    <3>1. PICK version \in Versions :
            LET later   == IF version > kSchemaVersion THEN <<Field(14, "int", 1)>> ELSE <<>>
                stamped == [set_schema_version(
                              stamp_header(mutable_header(HeartbeatNew.header), "auv",
                                           sequence, taken),
                              version) EXCEPT !.unknown = later]
                hb      == [set_counts(set_state(set_node_name(set_header(HeartbeatNew, stamped),
                              "auv"), NODE_STATE_RUNNING), sequence', 0, taken)
                            EXCEPT !.unknown = later]
            IN Send([by |-> program, value |-> hb, fields |-> HeartbeatWrite(hb)])
      BY <1>10, Zenon DEF Beat
    <3>2. version \in Nat
      BY DataPathAssumption
    <3>3. PICK hb : hb = Enlarged(FilledIn(Stamped(version, sequence, taken, Later(version)),
                                           sequence', taken), Later(version))
      OBVIOUS
    <3>4. Send([by |-> program, value |-> hb, fields |-> HeartbeatWrite(hb)])
      BY <3>1, <3>3, Zenon DEF Enlarged, FilledIn, Stamped, Later, LaterField
    <3>5. PICK m : m = [by |-> program, value |-> hb, fields |-> HeartbeatWrite(hb)]
      OBVIOUS
    <3>6. m.by = program /\ m.value = hb /\ m.fields = HeartbeatWrite(m.value)
      BY <3>5
    <3>7. IsBeat(m)
      BY <3>2, <3>3, <3>6, BeatSent, Zenon
    <3>8. queue' = queue \/ queue' = Append(queue, m)
      BY <3>4, <3>5 DEF Send
    <3> QED
      BY <3>6, <3>7, <3>8
  <2>4. Genuine(m)
    BY <2>2, <2>3 DEF Genuine
  <2>5. \A i \in DOMAIN queue' : Genuine(queue'[i])
    BY <1>3, <2>3, <2>4, Appended DEF Lists
  <2> QED
    BY <1>1, <1>2, <1>3, <2>1, <2>2, <2>5 DEF Sends
<1>11. CASE Demonstrate
  <2>1. program \notin Samplers /\ pc' = "down" /\ UNCHANGED <<wire, queue>>
    BY <1>4, <1>11 DEF Demonstrate
  <2> QED
    BY <1>1, <1>2, <1>3, <2>1 DEF Sends
<1>12. CASE SomeoneElsePublishes
  <2>1. PICK m : queue' = Append(queue, m) /\ m.by = "another"
    BY <1>12 DEF SomeoneElsePublishes
  <2>2. Genuine(m)
    <3>1. program # "another"
      BY <1>3 DEF Samplers, Beaters
    <3> QED
      BY <2>1, <3>1 DEF Genuine
  <2>3. \A i \in DOMAIN queue' : Genuine(queue'[i])
    BY <1>3, <2>1, <2>2, Appended DEF Lists
  <2>4. UNCHANGED <<pc, hand, taken, wire>>
    BY <1>12 DEF SomeoneElsePublishes
  <2> QED
    BY <1>1, <1>2, <1>3, <2>3, <2>4 DEF Sends
<1>13. CASE Deliver \/ DeliverCloud \/ DeliverAny
  <2>1. queue # <<>> /\ queue' = Tail(queue) /\ UNCHANGED <<pc, hand, taken>>
    BY <1>13 DEF Deliver, DeliverCloud, DeliverAny
  <2>2. \A i \in DOMAIN queue' : i + 1 \in DOMAIN queue /\ queue'[i] = queue[i + 1]
    BY <2>1, Taken DEF Lists
  <2>3. \A i \in DOMAIN queue' : Genuine(queue'[i])
    BY <1>3, <2>2
  <2>4. DOMAIN wire' = {"rec", "pub", "sub", "read"} /\ wire'.pub = wire.pub
    <3>1. wire' = wire \/ \E w : wire' = [wire EXCEPT !.sub = w]
      BY <1>13, Zenon DEF Deliver, DeliverCloud, DeliverAny, Judged
    <3> QED
      BY <1>3, <3>1
  <2> QED
    BY <1>1, <1>2, <1>3, <2>1, <2>3, <2>4 DEF Sends
<1>14. CASE Query \/ Dump
  BY <1>14 DEF Query, Dump
<1>15. CASE UNCHANGED vars
  BY <1>1, <1>2, <1>3, <1>15 DEF vars, Sends
<1> QED
  BY <1>5, <1>6, <1>7, <1>8, <1>9, <1>10, <1>11, <1>12, <1>13, <1>14, <1>15 DEF Next

(* The message that a watcher takes is one of those.                        *)
LEMMA HeadIsGenuine ==
  ASSUME Lists, Sends, watcher # "query", queue # <<>>
  PROVE  Genuine(Head(queue))
<1>1. 1 \in DOMAIN queue /\ Head(queue) = queue[1]
  BY Taken DEF Lists
<1> QED
  BY <1>1 DEF Sends

LEMMA TypedKept == Lists /\ Sends /\ Typed /\ [Next]_vars => Typed'
<1> SUFFICES ASSUME Lists, Sends, Typed, [Next]_vars, watcher = "typed" PROVE Typed'
  BY ProgramStays DEF Typed
<1>1. UNCHANGED <<program, watcher>>
  BY ProgramStays
<1>2. \A m : Genuine(m)' <=> Genuine(m)
  BY <1>1 DEF Samples, Genuine, FieldsOf, IsBeat
<1>3. got' = got => (Faithful' <=> Faithful)
  BY <1>1 DEF Faithful, ReadAfresh, ValueOf
<1>4. CASE Deliver \/ DeliverCloud
  <2>1. Judged(ReadAfresh(Head(queue)), ValueOf(ReadAfresh(Head(queue))))
    BY <1>4, Zenon DEF Deliver, DeliverCloud, ReadAfresh, ValueOf, LidarScanParse,
       LidarScanClear, LidarPointCloudParse
  <2>2. Genuine(Head(queue))
    BY <1>4, HeadIsGenuine DEF Deliver, DeliverCloud
  <2>3. got'.message = Head(queue) /\ Faithful'
    BY <1>1, <2>1 DEF Judged, Faithful, ReadAfresh, ValueOf
  <2> QED
    BY <1>1, <1>2, <2>2, <2>3 DEF Typed
<1>5. CASE Demonstrate
  BY <1>5 DEF Demonstrate, Sends, Samplers
<1>6. CASE DeliverAny
  BY <1>6 DEF DeliverAny
<1>7. CASE ~(Deliver \/ DeliverCloud \/ Demonstrate \/ DeliverAny)
  <2>1. got' = got
    BY <1>7 DEF Next, Start, Crash, Poll, Record, RecordFails, Publish, Beat,
       SomeoneElsePublishes, Query, Dump, vars
  <2> QED
    BY <1>1, <1>2, <1>3, <2>1 DEF Typed
<1> QED
  BY <1>4, <1>5, <1>6, <1>7

(* scan_subscriber.cpp, cloud_subscriber.cpp: a subscriber hands out exactly *)
(* what was published, whatever the objects of both sides held before,      *)
(* whatever was lost, refused or sent by others, and however often the      *)
(* program died.                                                           *)
THEOREM SubscribersAreExact == Spec => []GotIsItsOrigin
<1>1. Sends /\ Typed => GotIsItsOrigin
  <2> SUFFICES ASSUME Sends, Typed, watcher = "typed", got # Nothing
               PROVE  IF got.message.by = program
                      THEN got.status = "handed out"
                           /\ AsNumbers(got.value) = AsNumbers(got.message.value)
                      ELSE got.status = "handed out" =>
                             got.value = ValueOf(ReadAfresh(got.message))
    BY DEF GotIsItsOrigin, ValueOf, ReadAfresh
  <2>1. Genuine(got.message) /\ Faithful
    BY DEF Typed
  <2>2. CASE got.message.by = program
    <3>1. program \in Samplers
      BY DEF Sends
    <3>2. got.message.value \in Samples /\ got.message.fields = FieldsOf(got.message.value)
      BY <2>1, <2>2, <3>1 DEF Genuine
    <3>3. /\ ReadAfresh(got.message).ok
          /\ AsNumbers(ValueOf(ReadAfresh(got.message))) = AsNumbers(got.message.value)
      <4>1. PICK v : v = got.message.value
        OBVIOUS
      <4>2. CASE program = "cloud_publisher"
        <5>1. v \in PointCloud
          BY <3>2, <4>1, <4>2, HandedOutAreClouds DEF Samples
        <5>2. ReadAfresh(got.message) = RereadCloud(v)
          BY <3>2, <4>1, <4>2, Zenon DEF ReadAfresh, FieldsOf, RereadCloud
        <5>3. ValueOf(RereadCloud(v)) = cloud_from_proto(RereadCloud(v).msg)
          BY <4>2, Zenon DEF ValueOf
        <5> QED
          BY <4>1, <5>1, <5>2, <5>3, CloudsComeBack
      <4>3. CASE program # "cloud_publisher"
        <5>1. v \in Scan
          BY <3>2, <4>1, <4>3, RecordableAreScans DEF Samples, Recordable
        <5>2. ReadAfresh(got.message) = Reread(v)
          BY <3>2, <4>1, <4>3, Zenon DEF ReadAfresh, FieldsOf, Reread
        <5>3. ValueOf(Reread(v)) = Back(v)
          BY <4>3, Zenon DEF ValueOf, Back
        <5> QED
          BY <4>1, <5>1, <5>2, <5>3, BackEqualsScan
      <4> QED
        BY <4>2, <4>3
    <3> QED
      BY <2>1, <2>2, <3>3 DEF Faithful
  <2>3. CASE got.message.by # program
    BY <2>1, <2>3 DEF Faithful
  <2> QED
    BY <2>2, <2>3
<1> QED
  BY <1>1, InitLists, ListsKept, InitSends, SendsKept, TypedKept, PTL DEF Spec

-----------------------------------------------------------------------------
(* What mw_sub and mw_msgdemo make of a header.                            *)

(* What mw_sub says of the header of a beat.                               *)
PeekedRight(message) ==
  LET peeked  == peek_header(message.fields, HeaderNew)
      parsed  == HeartbeatParse(HeartbeatNew, message.fields)
      stamped == message.value.header[1]
  IN IF stamped.schema_version = kSchemaVersion
     THEN /\ peeked.status = "kOk" /\ peeked.out = stamped
          /\ parsed.ok /\ parsed.msg.state = NODE_STATE_RUNNING
     ELSE peeked.status # "kOk"

LEMMA BeatsArePeekedRight ==
  ASSUME NEW message, IsBeat(message)
  PROVE  PeekedRight(message) /\ message.value.state = NODE_STATE_RUNNING
<1>1. PICK version \in Nat :
        \E number, now, ticks, wcet :
          LET h == HeaderOf(version, number, now, Later(version))
          IN /\ message.value = BeatOf(h, ticks, wcet, Later(version))
             /\ message.fields = HeartbeatWrite(message.value)
  BY Zenon DEF IsBeat
<1>2. PICK number, now, ticks, wcet :
        LET h == HeaderOf(version, number, now, Later(version))
        IN /\ message.value = BeatOf(h, ticks, wcet, Later(version))
           /\ message.fields = HeartbeatWrite(message.value)
  BY <1>1, Zenon
<1>3. PICK h : h = HeaderOf(version, number, now, Later(version))
  OBVIOUS
<1>4. PICK m : m = BeatOf(h, ticks, wcet, Later(version))
  OBVIOUS
<1>5. PICK fs : fs = HeartbeatWrite(m)
  OBVIOUS
<1>6. message.value = m /\ message.fields = fs
  BY <1>2, <1>3, <1>4, <1>5, Zenon
<1>7. IF version = kSchemaVersion
      THEN /\ peek_header(fs, HeaderNew).status = "kOk"
           /\ peek_header(fs, HeaderNew).out = h
      ELSE peek_header(fs, HeaderNew).status # "kOk"
  BY <1>3, <1>4, <1>5, BeatPeeked
<1>8. m.header[1] = h /\ m.state = NODE_STATE_RUNNING
  <2>1. m["header"] = <<h>> /\ m["state"] = 2
    BY <1>4, BeatIs
  <2> QED
    BY <2>1 DEF NODE_STATE_RUNNING
<1>9. h.schema_version = version
  BY <1>3 DEF HeaderOf, HeaderNames
<1>10. version = kSchemaVersion => /\ HeartbeatParse(HeartbeatNew, fs).ok
                                  /\ HeartbeatParse(HeartbeatNew, fs).msg.state = NODE_STATE_RUNNING
  <2> SUFFICES ASSUME version = kSchemaVersion
               PROVE  /\ HeartbeatParse(HeartbeatNew, fs).ok
                      /\ HeartbeatParse(HeartbeatNew, fs).msg.state = NODE_STATE_RUNNING
    OBVIOUS
  <2>1. PICK later : later = Later(version)
    OBVIOUS
  <2>2. IsNone(later)
    BY <2>1, VersionAssumption DEF IsNone, Later
  <2>3. h = HeaderOf(kSchemaVersion, number, now, later)
    BY <1>3, <2>1
  <2>4. m = BeatOf(h, ticks, wcet, later)
    BY <1>4, <2>1, Zenon
  <2> QED
    BY <1>5, <2>2, <2>3, <2>4, BeatParsed, Zenon
<1> QED
  BY <1>6, <1>7, <1>8, <1>9, <1>10, Zenon DEF PeekedRight

(* And of a sample, which has none.                                        *)
LEMMA SamplesArePeekedRight ==
  ASSUME program \in Samplers, NEW message, message.value \in Samples,
         message.fields = FieldsOf(message.value)
  PROVE  peek_header(message.fields, HeaderNew).status # "kOk"
<1>1. PICK v : v = message.value
  OBVIOUS
<1>2. CASE program = "cloud_publisher"
  <2>1. v \in PointCloud
    BY <1>1, <1>2, HandedOutAreClouds DEF Samples
  <2>2. message.fields = LidarPointCloudWrite(cloud_to_proto(v, LidarPointCloudNew))
    BY <1>1, <1>2, Zenon DEF FieldsOf
  <2> QED
    BY <2>1, <2>2, SampleRefused, Zenon
<1>3. CASE program # "cloud_publisher"
  <2>1. v \in Scan
    BY <1>1, <1>3, RecordableAreScans DEF Samples, Recordable
  <2>2. message.fields = LidarScanWrite(to_proto(v, LidarScanNew))
    BY <1>1, <1>3, Zenon DEF FieldsOf
  <2> QED
    BY <2>1, <2>2, SampleRefused, Zenon
<1> QED
  BY <1>2, <1>3

LEMMA Such ==
  ASSUME NEW version \in Nat, NEW number, NEW now, NEW ticks, NEW wcet,
         NEW h, h = HeaderOf(version, number, now, Later(version)),
         NEW message, message.value = BeatOf(h, ticks, wcet, Later(version)),
         message.fields = HeartbeatWrite(message.value)
  PROVE  IsBeat(message)
BY Zenon DEF IsBeat

(* The beat of mw_msgdemo is one of the program's own version.              *)
LEMMA Demonstrated ==
  ASSUME NEW number, NEW now, NEW s, NEW hb, NEW message,
         s = stamp_header(mutable_header(HeartbeatNew.header), "auv", number, now),
         hb = FilledIn(s, 42, 910), message.value = hb, message.fields = HeartbeatWrite(hb)
  PROVE  /\ IsBeat(message)
         /\ hb.header[1].schema_version = kSchemaVersion
<1>1. PICK later : later = Later(kSchemaVersion)
  OBVIOUS
<1>2. later = <<>>
  BY <1>1, VersionAssumption DEF Later
<1>3. s = HeaderOf(kSchemaVersion, number, now, later)
  <2>1. stamp_header(mutable_header(HeartbeatNew.header), "auv", number, now)
          = HeaderOf(kSchemaVersion, number, now, <<>>)
    BY StampedIs
  <2> QED
    BY <1>2, <2>1
<1>4. PICK ticks, wcet : ticks = 42 /\ wcet = 910
  OBVIOUS
<1>5. hb = BeatOf(s, ticks, wcet, later)
  <2>1. set_counts(set_state(set_node_name(set_header(HeartbeatNew, s), "auv"),
                             NODE_STATE_RUNNING), ticks, 0, wcet) = BeatOf(s, ticks, wcet, <<>>)
    BY BeatMade
  <2>2. hb = set_counts(set_state(set_node_name(set_header(HeartbeatNew, s), "auv"),
                                  NODE_STATE_RUNNING), ticks, 0, wcet)
    BY <1>4, Zenon DEF FilledIn
  <2> QED
    BY <1>2, <2>1, <2>2
<1>6. kSchemaVersion \in Nat
  BY VersionAssumption
<1>7. IsBeat(message)
  <2>1. PICK version \in Nat : version = kSchemaVersion
    BY <1>6
  <2>2. PICK h : h = HeaderOf(version, number, now, Later(version))
    OBVIOUS
  <2>3. s = h
    BY <1>1, <1>3, <2>1, <2>2
  <2>4. /\ message.value = BeatOf(h, ticks, wcet, Later(version))
        /\ message.fields = HeartbeatWrite(message.value)
    BY <1>1, <1>5, <2>1, <2>3
  <2> QED
    BY <2>2, <2>4, Such
<1>8. s.schema_version = kSchemaVersion
  BY <1>3 DEF HeaderOf, HeaderNames
<1>9. hb["header"] = <<s>>
  BY <1>5 DEF BeatOf, HeartbeatNames
<1> QED
  BY <1>7, <1>8, <1>9

LEMMA WatchedKept == Lists /\ Sends /\ Watched /\ [Next]_vars => Watched'
<1> SUFFICES ASSUME Lists, Sends, Watched, [Next]_vars, watcher = "mw_sub" PROVE Watched'
  BY ProgramStays DEF Watched
<1>1. UNCHANGED <<program, watcher>>
  BY ProgramStays
<1>2. program \in Samplers \cup Beaters /\ "another" \notin Programs \cup Beaters
  BY DEF Sends, Programs, ScanPrograms, Beaters
<1>3. Samplers \cap Beaters = {}
  BY DEF Samplers, Beaters
<1>4. CASE DeliverAny
  <2>1. PICK message : message = Head(queue)
    OBVIOUS
  <2>2. Genuine(message)
    BY <1>4, <2>1, HeadIsGenuine DEF DeliverAny
  <2>3. PICK peeked, parsed : /\ peeked = peek_header(message.fields, HeaderNew)
                              /\ parsed = HeartbeatParse(HeartbeatNew, message.fields)
    OBVIOUS
  <2>4. got' = [status |-> peeked.status, message |-> message, header |-> peeked.out,
                parsed |-> peeked.status = "kOk" /\ parsed.ok, state |-> parsed.msg.state]
    BY <1>4, <2>1, <2>3, Zenon DEF DeliverAny
  <2>5. /\ got'.status = peeked.status /\ got'.message = message /\ got'.header = peeked.out
        /\ got'.parsed = (peeked.status = "kOk" /\ parsed.ok) /\ got'.state = parsed.msg.state
    BY <2>4, Zenon
  <2>6. CASE message.by \in Beaters
    <3>1. message.by = program
      BY <1>2, <2>2, <2>6 DEF Genuine
    <3>2. program \notin Samplers
      BY <1>3, <2>6, <3>1
    <3>3. IsBeat(message)
      BY <2>2, <3>1, <3>2, Zenon DEF Genuine
    <3>4. PeekedRight(message)
      BY <3>3, BeatsArePeekedRight
    <3>5. Honest(got')
      BY <2>3, <2>5, <2>6, <3>4, Zenon DEF PeekedRight, Honest
    <3> QED
      BY <3>5 DEF Watched
  <2>7. CASE message.by \notin Beaters
    <3>1. message.by \in Programs => peeked.status # "kOk"
      <4> SUFFICES ASSUME message.by \in Programs PROVE peeked.status # "kOk"
        OBVIOUS
      <4>1. message.by = program /\ program \in Samplers
        BY <1>2, <2>2, <2>7 DEF Genuine
      <4>2. message.value \in Samples /\ message.fields = FieldsOf(message.value)
        BY <2>2, <4>1, Zenon DEF Genuine
      <4> QED
        BY <2>3, <4>1, <4>2, SamplesArePeekedRight, Zenon
    <3>2. Honest(got')
      BY <2>5, <2>7, <3>1, Zenon DEF Honest
    <3> QED
      BY <3>2 DEF Watched
  <2> QED
    BY <2>6, <2>7
<1>5. CASE Demonstrate
  <2>1. PICK s : s = stamp_header(mutable_header(HeartbeatNew.header), "auv", sequence, taken)
    OBVIOUS
  <2>2. PICK hb : hb = FilledIn(s, 42, 910)
    OBVIOUS
  <2>3. PICK message : message = [by |-> program, value |-> hb, fields |-> HeartbeatWrite(hb)]
    OBVIOUS
  <2>4. message.by = program /\ message.value = hb /\ message.fields = HeartbeatWrite(hb)
    BY <2>3
  <2>5. PICK peeked : peeked = peek_header(message.fields, HeaderNew)
    OBVIOUS
  <2>6. got' = [status |-> peeked.status, message |-> message, header |-> peeked.out,
                parsed |-> TRUE, state |-> hb.state]
    BY <1>5, <2>1, <2>2, <2>3, <2>5 DEF Demonstrate, FilledIn
  <2>7. /\ got'.status = peeked.status /\ got'.message = message /\ got'.header = peeked.out
        /\ got'.parsed /\ got'.state = hb.state
    BY <2>6, Zenon
  <2>8. program \in Beaters
    BY <1>5 DEF Demonstrate, Beaters
  <2>9. IsBeat(message) /\ hb.header[1].schema_version = kSchemaVersion
    BY <2>1, <2>2, <2>4, Demonstrated
  <2>10. PeekedRight(message) /\ hb.state = NODE_STATE_RUNNING
    BY <2>4, <2>9, BeatsArePeekedRight
  <2>11. Honest(got')
    BY <2>4, <2>5, <2>7, <2>8, <2>9, <2>10, Zenon DEF PeekedRight, Honest
  <2> QED
    BY <2>11 DEF Watched
<1>6. CASE ~(DeliverAny \/ Demonstrate)
  <2>1. ~Deliver /\ ~DeliverCloud
    BY DEF Deliver, DeliverCloud
  <2>2. got' = got
    BY <1>6, <2>1 DEF Next, Start, Crash, Poll, Record, RecordFails, Publish, Beat,
       SomeoneElsePublishes, Query, Dump, vars
  <2> QED
    BY <1>1, <2>2, Zenon DEF Watched, Honest
<1> QED
  BY <1>4, <1>5, <1>6

(* mw_pub.cpp, mw_sub.cpp, mw_msgdemo.cpp, message.cpp: what is acted upon  *)
(* as a header is exactly what a program of the same schema version         *)
(* stamped; those of an older build, of a newer one with fields that this   *)
(* one does not know, and messages without any header are refused.         *)
THEOREM PeekedHeadersAreHonest == Spec => []PeekIsHonest
<1>1. Watched => PeekIsHonest
  BY Zenon DEF Watched, Honest, Beaters, PeekIsHonest
<1> QED
  BY <1>1, InitLists, ListsKept, InitSends, SendsKept, WatchedKept, PTL DEF Spec

-----------------------------------------------------------------------------
(* What is read back from a recording.                                     *)

(* A row is what it was when it was recorded, with a new object.            *)
RowHolds(row) ==
  row.sample \in Recordable /\ row.fields = LidarScanWrite(to_proto(row.sample, LidarScanNew))

Exact(a) ==
  /\ a.ok
  /\ Len(a.scans) = Len(a.asked)
  /\ \A i \in DOMAIN a.asked : AsNumbers(a.scans[i]) = AsNumbers(a.asked[i])
  /\ a.status = "reply" =>
       \A cut \in 0..(Len(a.bytes) - 1) : ~decode_scans(SubSeq(a.bytes, 1, cut)).ok

Looked ==
  watcher = "query" =>
    /\ program \in {"service", "record_live", "record_sample"}
    /\ DOMAIN wire = {"rec", "pub", "sub", "read"}
    /\ Usable(wire.rec, LidarScanNew)
    /\ taken \in 0..MaxTaken
    /\ sequence \in 0..taken
    /\ pc \in {"record", "publish"} => hand \in Recordable
    /\ Len(log) <= IF pc = "record" THEN taken - 1 ELSE taken
    /\ \A i \in DOMAIN log : RowHolds(log[i])
    /\ answer # Nothing => Exact(answer)

(* One row after the other, whatever the object held before: the reader     *)
(* has the scans that were recorded, as far as numbers tell.                *)
LEMMA RowsAreRecorded ==
  ASSUME NEW first \in Nat, NEW last \in Nat, 1 <= first, first <= last + 1
  PROVE  \A i \in first..last :
           ReaderWires(first, last)[i] = LidarScanParse(LidarScanNew, log[i].fields).msg
<1> DEFINE S    == (first - 1)..last
           F(f) == [i \in S |-> IF i < first THEN wire.read
                                ELSE LidarScanParse(f[i - 1], log[i].fields).msg]
           g    == [i \in S |-> IF i < first THEN wire.read
                                ELSE LidarScanParse(LidarScanNew, log[i].fields).msg]
           read == CHOOSE f : f = F(f)
<1>1. \A v, w, fs : LidarScanParse(v, fs) = LidarScanParse(w, fs)
  BY DEF LidarScanParse, LidarScanClear
<1> HIDE DEF S
<1>2. g = F(g)
  BY <1>1
<1>3. read = F(read)
  BY <1>2
<1>4. ReaderWires(first, last) = read
  BY DEF ReaderWires, S
<1>5. \A i \in first..last : i \in S /\ ~(i < first)
  BY DEF S
<1> HIDE DEF read
<1>6. \A i \in first..last : read[i] = LidarScanParse(read[i - 1], log[i].fields).msg
  BY <1>3, <1>5
<1> QED
  BY <1>1, <1>4, <1>6
(* A stretch of the log, read and sent, or only read.                       *)
LEMMA StretchOfLog ==
  ASSUME Lists, Looked, watcher = "query",
         NEW first \in Nat, NEW last \in Nat, 1 <= first, first <= last + 1, last <= Len(log)
  PROVE  LET n     == last - first + 1
             scans == Recorded(first, last)
         IN /\ n \in 0..MaxTaken
            /\ scans \in [1..n -> Recordable]
            /\ RowsRead(first, last) = [i \in 1..n |-> from_proto(Reread(scans[i]).msg)]
<1> DEFINE scans == Recorded(first, last)
<1>1. PICK S : log \in Seq(S)
  BY DEF Lists, IsSeq
<1>2. PICK m \in Nat : m = Len(log)
  BY <1>1
<1>3. DOMAIN log = 1..m
  BY <1>1, <1>2
<1>4. PICK n \in Int : n = last - first + 1
  OBVIOUS
<1>5. m <= MaxTaken
  BY <1>2, DataPathAssumption DEF Looked
<1>6. n \in 0..MaxTaken
  BY <1>2, <1>4, <1>5, DataPathAssumption
<1>7. \A i \in 1..n : /\ first + i - 1 \in first..last
                      /\ first + i - 1 \in 1..m
  BY <1>2, <1>4
<1>8. \A i \in 1..n : RowHolds(log[first + i - 1])
  BY <1>3, <1>7 DEF Looked
<1>9. scans = [i \in 1..n |-> log[first + i - 1].sample]
  BY <1>4 DEF Recorded
<1>10. scans \in [1..n -> Recordable]
  BY <1>8, <1>9 DEF RowHolds
<1>11. \A i \in 1..n : ReaderWires(first, last)[first + i - 1] = Reread(scans[i]).msg
  <2> SUFFICES ASSUME NEW i \in 1..n
               PROVE  ReaderWires(first, last)[first + i - 1] = Reread(scans[i]).msg
    OBVIOUS
  <2>1. PICK k : k = first + i - 1
    OBVIOUS
  <2>2. k \in first..last /\ RowHolds(log[k]) /\ scans[i] = log[k].sample
    BY <1>7, <1>8, <1>9, <2>1
  <2>3. ReaderWires(first, last)[k] = LidarScanParse(LidarScanNew, log[k].fields).msg
    BY <2>2, RowsAreRecorded
  <2> QED
    BY <2>1, <2>2, <2>3 DEF RowHolds, Reread
<1>12. RowsRead(first, last) = [i \in 1..n |-> from_proto(Reread(scans[i]).msg)]
  BY <1>4, <1>11 DEF RowsRead
<1> QED
  BY <1>4, <1>6, <1>10, <1>12

LEMMA InitLooked == Init => Looked
<1> SUFFICES ASSUME Init, watcher = "query" PROVE Looked
  BY DEF Looked
<1>1. 0 \in 0..MaxTaken /\ 0 \in 0..0 /\ Len(<<>>) = 0
  BY DataPathAssumption
<1>2. Usable(LidarScanNew, LidarScanNew)
  BY NewScan
<1> QED
  BY <1>1, <1>2 DEF Init, Looked

LEMMA AnsweredExactly ==
  ASSUME Lists, Looked, watcher = "query", Query \/ Dump
  PROVE  Exact(answer')
<1>1. PICK S : log \in Seq(S)
  BY DEF Lists, IsSeq
<1>2. PICK m \in Nat : m = Len(log)
  BY <1>1
<1>3. CASE Query
  <2>1. PICK first \in 1..(m + 1), last \in 0..m :
          /\ first <= last + 1
          /\ answer' = [status |-> "reply", asked |-> Recorded(first, last),
                        bytes |-> encode_scans(RowsRead(first, last)),
                        ok    |-> decode_scans(encode_scans(RowsRead(first, last))).ok,
                        scans |-> decode_scans(encode_scans(RowsRead(first, last))).scans]
    BY <1>2, <1>3 DEF Query
  <2>2. first \in Nat /\ last \in Nat /\ 1 <= first /\ last <= Len(log)
    BY <1>2, <2>1
  <2>3. PICK n \in Int : n = last - first + 1
    BY <2>2
  <2>4. PICK scans : scans = Recorded(first, last)
    OBVIOUS
  <2>5. PICK rows : rows = RowsRead(first, last)
    OBVIOUS
  <2>6. /\ n \in 0..MaxTaken
        /\ scans \in [1..n -> Recordable]
        /\ rows = [i \in 1..n |-> from_proto(Reread(scans[i]).msg)]
    BY <2>1, <2>2, <2>3, <2>4, <2>5, StretchOfLog
  <2>7. PICK bytes : bytes = encode_scans(rows)
    OBVIOUS
  <2>8. PICK decoded : decoded = decode_scans(bytes)
    OBVIOUS
  <2>9. /\ decoded.ok /\ Len(decoded.scans) = n
        /\ \A i \in 1..n : AsNumbers(decoded.scans[i]) = AsNumbers(scans[i])
        /\ \A cut \in 0..(Len(bytes) - 1) : ~decode_scans(SubSeq(bytes, 1, cut)).ok
    <3>1. n \in Nat /\ n <= Widest
      <4>1. PICK w : w = Widest
        OBVIOUS
      <4>2. w \in Int /\ MaxTaken <= w
        BY <4>1, SizesAssumption, SMT DEF Widest
      <4>3. n \in Nat /\ n <= w
        BY <2>6, <4>2, DataPathAssumption
      <4> QED
        BY <4>1, <4>3
    <3>2. rows = [i \in 1..n |-> rows[i]]
      BY <2>6
    <3>3. ASSUME NEW i \in 1..n
          PROVE  /\ scans[i] \in Recordable /\ scans[i] \in Scan /\ rows[i] = Back(scans[i])
                 /\ rows[i] \in Scan /\ Len(Body(rows[i])) <= Widest
      <4>1. scans[i] \in Recordable
        BY <2>6
      <4>2. rows[i] = Back(scans[i])
        BY <2>6, Zenon DEF Back
      <4> QED
        BY <4>1, <4>2, BodiesFit, RecordableAreScans
    <3>4. /\ decoded.ok /\ Len(decoded.scans) = n
          /\ \A i \in 1..n : decoded.scans[i] = Back(rows[i])
          /\ \A cut \in 0..(Len(bytes) - 1) : ~decode_scans(SubSeq(bytes, 1, cut)).ok
      <4>1. Fitting(rows, n)
        BY <3>2, <3>3 DEF Fitting
      <4>2. Returning(bytes, rows, n)
        BY <2>7, <3>1, <4>1, ReplyDecodes
      <4> QED
        BY <2>8, <4>2, Zenon DEF Returning
    <3>5. \A i \in 1..n : AsNumbers(Back(rows[i])) = AsNumbers(scans[i])
      BY <3>3, BackEqualsScan
    <3> QED
      BY <3>4, <3>5
  <2>10. Len(scans) = n /\ DOMAIN scans = 1..n
    BY <2>6
  <2>11. /\ answer'.ok = decoded.ok /\ answer'.scans = decoded.scans
         /\ answer'.asked = scans /\ answer'.bytes = bytes
    BY <2>1, <2>4, <2>5, <2>7, <2>8
  <2> QED
    BY <2>9, <2>10, <2>11 DEF Exact
<1>4. CASE Dump
  <2>1. PICK limit : /\ limit \in 0..m
                     /\ answer' = [status |-> "dump", asked |-> Recorded(1, limit), ok |-> TRUE,
                                   scans |-> RowsRead(1, limit)]
    <3>1. PICK max \in Limits :
            answer' = [status |-> "dump",
                       asked  |-> Recorded(1, IF max # 0 /\ max < m THEN max ELSE m),
                       ok     |-> TRUE,
                       scans  |-> RowsRead(1, IF max # 0 /\ max < m THEN max ELSE m)]
      BY <1>2, <1>4, Zenon DEF Dump
    <3>2. PICK limit : limit = IF max # 0 /\ max < m THEN max ELSE m
      OBVIOUS
    <3>3. limit \in 0..m
      BY <3>2, DataPathAssumption
    <3> QED
      BY <3>1, <3>2, <3>3
  <2>2. limit \in Nat /\ limit - 1 + 1 = limit /\ 1 <= limit + 1 /\ limit <= Len(log)
    BY <1>2, <2>1
  <2>3. PICK scans : scans = Recorded(1, limit)
    OBVIOUS
  <2>4. PICK rows : rows = RowsRead(1, limit)
    OBVIOUS
  <2>5. /\ limit \in 0..MaxTaken
        /\ scans \in [1..limit -> Recordable]
        /\ rows = [i \in 1..limit |-> from_proto(Reread(scans[i]).msg)]
    BY <2>2, <2>3, <2>4, StretchOfLog
  <2>6. Len(scans) = limit /\ Len(rows) = limit /\ DOMAIN scans = 1..limit
    BY <2>2, <2>5
  <2>7. \A i \in 1..limit : AsNumbers(rows[i]) = AsNumbers(scans[i])
    BY <2>5, RecordableAreScans, BackEqualsScan DEF Back
  <2>8. /\ answer'.ok = TRUE /\ answer'.scans = rows /\ answer'.asked = scans
        /\ answer'.status = "dump"
    BY <2>1, <2>3, <2>4
  <2> QED
    BY <2>6, <2>7, <2>8 DEF Exact
<1> QED
  BY <1>3, <1>4

LEMMA LookedKept == Lists /\ Looked /\ [Next]_vars => Looked'
<1> SUFFICES ASSUME Lists, Looked, [Next]_vars, watcher = "query" PROVE Looked'
  BY DEF Looked, Next, Start, Crash, Poll, Record, RecordFails, Publish, Beat, Demonstrate,
     SomeoneElsePublishes, Deliver, DeliverCloud, DeliverAny, Query, Dump, vars
<1>1. UNCHANGED <<program, watcher>>
  BY DEF Next, Start, Crash, Poll, Record, RecordFails, Publish, Beat, Demonstrate,
     SomeoneElsePublishes, Deliver, DeliverCloud, DeliverAny, Query, Dump, vars
<1>2. PICK m \in Nat : m = Len(log)
  BY DEF Lists, IsSeq
<1>3. /\ program \in {"service", "record_live", "record_sample"}
      /\ DOMAIN wire = {"rec", "pub", "sub", "read"}
      /\ Usable(wire.rec, LidarScanNew)
      /\ pc \in {"record", "publish"} => hand \in Recordable
      /\ \A i \in DOMAIN log : RowHolds(log[i])
      /\ answer # Nothing => Exact(answer)
  BY DEF Looked
<1>4. PICK t \in Nat, s \in Nat :
        /\ t = taken /\ s = sequence /\ t <= MaxTaken /\ s <= t
        /\ m <= t /\ (pc = "record" => m <= t - 1)
  BY <1>2, DataPathAssumption DEF Looked
<1>5. CASE Start
  <2>1. /\ DOMAIN wire' = {"rec", "pub", "sub", "read"} /\ wire'.rec = LidarScanNew
        /\ pc' = "poll" /\ sequence' = 0
        /\ UNCHANGED <<taken, log, answer>>
    BY <1>3, <1>5 DEF Start
  <2>2. 0 \in 0..t /\ t \in 0..MaxTaken
    BY <1>4, DataPathAssumption
  <2> QED
    BY <1>1, <1>2, <1>3, <1>4, <2>1, <2>2, NewScan DEF Looked
<1>6. CASE Crash
  BY <1>1, <1>2, <1>3, <1>4, <1>6, DataPathAssumption DEF Crash, Looked
<1>7. CASE Poll
  <2>1. /\ taken < MaxTaken /\ taken' = taken + 1 /\ pc' = "record"
        /\ UNCHANGED <<wire, log, answer>>
    BY <1>3, <1>7 DEF Poll, Records
  <2>2. /\ hand' \in Recordable
        /\ sequence' = sequence \/ sequence' = sequence + 1
    <3>1. CASE program = "record_sample"
      <4>1. hand' = make_sample_scan(s) /\ sequence' = s + 1
        BY <1>4, <1>7, <3>1 DEF Poll
      <4>2. s \in 0..MaxTaken
        BY <1>4, DataPathAssumption
      <4> QED
        BY <1>4, <4>1, <4>2 DEF Recordable
    <3>2. CASE program # "record_sample"
      <4>1. sequence' = sequence
            /\ \E shape \in Shapes : hand' = [shape EXCEPT !.stamp_ns = t]
        BY <1>3, <1>4, <1>7, <3>2 DEF Poll
      <4>2. t \in 0..MaxTaken
        BY <1>4, DataPathAssumption
      <4> QED
        BY <4>1, <4>2 DEF Recordable, HandedOut
    <3> QED
      BY <3>1, <3>2
  <2>3. taken' \in 0..MaxTaken /\ sequence' \in 0..taken' /\ Len(log) <= taken' - 1
    BY <1>2, <1>4, <2>1, <2>2, DataPathAssumption
  <2> QED
    BY <1>1, <1>3, <2>1, <2>2, <2>3 DEF Looked
<1>8. CASE Record \/ RecordFails
  <2>1. /\ pc = "record" /\ pc' \in {"down", "publish", "poll"}
        /\ UNCHANGED <<taken, sequence, hand, answer>>
        /\ wire' = [wire EXCEPT !.rec = to_proto(hand, wire.rec)]
    BY <1>8 DEF Record, RecordFails
  <2>2. /\ DOMAIN wire' = {"rec", "pub", "sub", "read"}
        /\ wire'.rec = to_proto(hand, wire.rec)
    BY <1>3, <2>1
  <2>3. wire'.rec = to_proto(hand, LidarScanNew) /\ Usable(wire'.rec, LidarScanNew)
    BY <1>3, <2>2, ScanObjectReused
  <2>4. \/ log' = log
        \/ log' = Append(log, [sample |-> hand, fields |-> LidarScanWrite(wire'.rec)])
    BY <1>8 DEF Record, RecordFails
  <2>5. Len(log') <= t
    BY <1>2, <1>4, <2>1, <2>4 DEF Lists, IsSeq
  <2>6. \A i \in DOMAIN log' : RowHolds(log'[i])
    <3>1. CASE log' = log
      BY <1>3, <3>1
    <3>2. CASE log' = Append(log, [sample |-> hand, fields |-> LidarScanWrite(wire'.rec)])
      <4>1. RowHolds([sample |-> hand, fields |-> LidarScanWrite(wire'.rec)])
        BY <1>3, <2>1, <2>3 DEF RowHolds
      <4> QED
        BY <1>3, <3>2, <4>1, Appended DEF Lists
    <3> QED
      BY <2>4, <3>1, <3>2
  <2> QED
    BY <1>1, <1>3, <1>4, <2>1, <2>2, <2>3, <2>5, <2>6, DataPathAssumption DEF Looked
<1>9. CASE Publish
  <2>1. /\ pc' = "poll" /\ UNCHANGED <<taken, sequence, hand, log, answer>>
        /\ DOMAIN wire' = {"rec", "pub", "sub", "read"} /\ wire'.rec = wire.rec
    BY <1>3, <1>9 DEF Publish
  <2> QED
    BY <1>1, <1>2, <1>3, <1>4, <2>1, DataPathAssumption DEF Looked
<1>10. CASE Query \/ Dump
  <2>1. /\ UNCHANGED <<taken, sequence, pc, hand, log>>
        /\ DOMAIN wire' = {"rec", "pub", "sub", "read"} /\ wire'.rec = wire.rec
    BY <1>3, <1>10 DEF Query, Dump
  <2>2. Exact(answer')
    BY <1>10, AnsweredExactly
  <2> QED
    BY <1>1, <1>2, <1>3, <1>4, <2>1, <2>2, DataPathAssumption DEF Looked
<1>11. CASE Beat \/ Demonstrate \/ SomeoneElsePublishes \/ Deliver \/ DeliverCloud \/ DeliverAny
  BY <1>3, <1>11 DEF Beat, Demonstrate, SomeoneElsePublishes, Deliver, DeliverCloud, DeliverAny
<1>12. CASE UNCHANGED vars
  BY <1>1, <1>2, <1>3, <1>4, <1>12, DataPathAssumption DEF vars, Looked
<1> QED
  BY <1>5, <1>6, <1>7, <1>8, <1>9, <1>10, <1>11, <1>12 DEF Next

(* scan_reader.cpp, query_wire.cpp, dump_scans.cpp: an answer is exactly     *)
(* what was recorded, whatever the recorder's and the reader's objects held *)
(* before, and however often the recording program failed, died or started  *)
(* again; and a reply that was cut is refused.                             *)
THEOREM RecordingsAreExact == Spec => []AnswerIsExact
<1>1. Init => (watcher # "query" => answer = Nothing)
  BY DEF Init
<1> DEFINE Silent == watcher # "query" => answer = Nothing
<1>2. Silent /\ [Next]_vars => Silent'
  BY DEF Next, Start, Crash, Poll, Record, RecordFails, Publish, Beat, Demonstrate,
     SomeoneElsePublishes, Deliver, DeliverCloud, DeliverAny, Query, Dump, vars
<1>3. Looked /\ Silent => AnswerIsExact
  BY DEF Looked, Exact, AnswerIsExact
<1> QED
  BY <1>1, <1>2, <1>3, InitLists, ListsKept, InitLooked, LookedKept, PTL DEF Spec
=============================================================================
