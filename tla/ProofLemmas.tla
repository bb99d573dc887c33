------------------------------ MODULE ProofLemmas -----------------------------
(***************************************************************************)
(* Facts about sequences, finite sets and sums that the proofs of several  *)
(* components need.                                                        *)
(***************************************************************************)
EXTENDS Integers, Sequences, FiniteSets, SequenceTheorems, FiniteSetTheorems,
        NaturalsInduction, WellFoundedInduction, TLAPS

-------------------------------------------------------------------------------
(* Sequences *)

(* Overwriting one element of a sequence keeps its type and its domain.    *)
LEMMA SeqUpdate ==
  ASSUME NEW S, NEW s \in Seq(S), NEW i \in DOMAIN s, NEW e \in S
  PROVE  /\ [s EXCEPT ![i] = e] \in Seq(S)
         /\ DOMAIN [s EXCEPT ![i] = e] = DOMAIN s
         /\ Len([s EXCEPT ![i] = e]) = Len(s)
<1>1. i \in 1 .. Len(s)
  BY LenProperties
<1>. QED
  BY <1>1, ExceptSeq, LenProperties

(* Appending adds one index at the end and leaves the others alone.        *)
LEMMA SeqAppend ==
  ASSUME NEW S, NEW s \in Seq(S), NEW e \in S
  PROVE  /\ Append(s, e) \in Seq(S)
         /\ Len(s) + 1 \in DOMAIN Append(s, e)
         /\ DOMAIN Append(s, e) = DOMAIN s \cup {Len(s) + 1}
         /\ Len(s) + 1 \notin DOMAIN s
         /\ \A i \in DOMAIN s : Append(s, e)[i] = s[i]
         /\ Append(s, e)[Len(s) + 1] = e
         /\ Len(s) \in Nat
<1>1. /\ DOMAIN s = 1 .. Len(s) /\ Len(s) \in Nat
  BY LenProperties
<1>2. /\ Append(s, e) \in Seq(S)
      /\ Len(Append(s, e)) = Len(s) + 1
      /\ \A i \in 1 .. Len(s) : Append(s, e)[i] = s[i]
      /\ Append(s, e)[Len(s) + 1] = e
  BY AppendProperties
<1>3. DOMAIN Append(s, e) = 1 .. Len(s) + 1
  BY <1>2, LenProperties
<1>. QED
  BY <1>1, <1>2, <1>3

(* A sequence of whatever it has in it.                                    *)
AnySeq(s) == s \in Seq({s[i] : i \in DOMAIN s})

(* A sequence over a set is a sequence of what it has in it.               *)
LEMMA SeqIsAny ==
  ASSUME NEW S, NEW s \in Seq(S)
  PROVE  AnySeq(s) /\ Len(s) \in Nat /\ DOMAIN s = 1 .. Len(s)
<1>1. DOMAIN s = 1 .. Len(s) /\ Len(s) \in Nat /\ s = [i \in 1 .. Len(s) |-> s[i]]
  BY LenProperties, SeqDef
<1>2. s \in [1 .. Len(s) -> {s[i] : i \in DOMAIN s}]
  BY <1>1
<1>. QED
  BY <1>1, <1>2, SeqDef DEF AnySeq

(* So is the empty one.                                                    *)
LEMMA EmptyIsAny == AnySeq(<< >>) /\ Len(<< >>) = 0 /\ DOMAIN << >> = {}
BY DEF AnySeq

(* Append adds one place at the end and keeps the others.                  *)
LEMMA AppendAny ==
  ASSUME NEW s, AnySeq(s), NEW e
  PROVE  /\ AnySeq(Append(s, e))
         /\ DOMAIN s = 1 .. Len(s) /\ Len(s) \in Nat
         /\ Len(Append(s, e)) = Len(s) + 1 /\ DOMAIN Append(s, e) = 1 .. Len(s) + 1
         /\ \A i \in DOMAIN s : Append(s, e)[i] = s[i]
         /\ Append(s, e)[Len(s) + 1] = e
<1>. DEFINE S == {s[i] : i \in DOMAIN s} \cup {e}
<1>1. s \in Seq(S) /\ e \in S
  BY SeqMonotonic DEF AnySeq
<1>. HIDE DEF S
<1>2. DOMAIN s = 1 .. Len(s) /\ Len(s) \in Nat
  BY <1>1, LenProperties
<1>3. /\ Append(s, e) \in Seq(S)
      /\ Len(Append(s, e)) = Len(s) + 1
      /\ \A i \in 1 .. Len(s) : Append(s, e)[i] = s[i]
      /\ Append(s, e)[Len(s) + 1] = e
  BY <1>1, AppendProperties
<1>4. AnySeq(Append(s, e)) /\ DOMAIN Append(s, e) = 1 .. Len(s) + 1
  BY <1>3, SeqIsAny
<1>. QED
  BY <1>2, <1>3, <1>4

-------------------------------------------------------------------------------
(* Finite sets *)

(* How many elements a finite set has once one of them has gone in or out. *)
LEMMA OneMore ==
  ASSUME NEW S, IsFiniteSet(S), NEW x, x \notin S
  PROVE  /\ IsFiniteSet(S \cup {x})
         /\ Cardinality(S \cup {x}) = Cardinality(S) + 1
         /\ Cardinality(S) \in Nat
BY FS_AddElement, FS_CardinalityType

(* And what is taken out of it.                                            *)
LEMMA OneLess ==
  ASSUME NEW S, IsFiniteSet(S), NEW x \in S
  PROVE  /\ IsFiniteSet(S \ {x})
         /\ Cardinality(S) = Cardinality(S \ {x}) + 1
         /\ Cardinality(S \ {x}) \in Nat
<1>1. IsFiniteSet(S \ {x}) /\ Cardinality(S \ {x}) = Cardinality(S) - 1
  BY FS_RemoveElement
<1>2. Cardinality(S) \in Nat /\ Cardinality(S \ {x}) \in Nat
  BY <1>1, FS_CardinalityType
<1>. QED
  BY <1>1, <1>2

(* A set of places of a sequence is finite, and so has a size.             *)
LEMMA PlacesFinite ==
  ASSUME NEW n \in Nat, NEW S, S \subseteq 1 .. n
  PROVE  IsFiniteSet(S) /\ Cardinality(S) \in Nat
<1>1. IsFiniteSet(1 .. n)
  BY FS_Interval
<1>2. IsFiniteSet(S)
  BY <1>1, FS_Subset
<1>. QED
  BY <1>2, FS_CardinalityType

(* So has one of numbers up to one.                                        *)
LEMMA NumbersFinite ==
  ASSUME NEW n \in Nat, NEW S, S \subseteq 0 .. n
  PROVE  IsFiniteSet(S) /\ Cardinality(S) \in Nat
<1>1. IsFiniteSet(0 .. n)
  BY FS_Interval
<1>2. IsFiniteSet(S)
  BY <1>1, FS_Subset
<1>. QED
  BY <1>2, FS_CardinalityType

(* Two sets with nothing in common.                                        *)
LEMMA DisjointSizes ==
  ASSUME NEW S, NEW T, IsFiniteSet(S), IsFiniteSet(T), S \cap T = {}
  PROVE  Cardinality(S \cup T) = Cardinality(S) + Cardinality(T)
<1>1. /\ Cardinality(S \cup T) = Cardinality(S) + Cardinality(T) - Cardinality(S \cap T)
      /\ Cardinality(S \cap T) = 0
  BY FS_Union, FS_EmptySet
<1>2. Cardinality(S) \in Nat /\ Cardinality(T) \in Nat
  BY FS_CardinalityType
<1>. QED
  BY <1>1, <1>2

(* The numbers up to n are n.                                              *)
LEMMA HowMany == ASSUME NEW n \in Nat PROVE Cardinality(1 .. n) = n
<1>1. Cardinality(1 .. n) = IF 1 > n THEN 0 ELSE n - 1 + 1
  BY FS_Interval
<1>. QED
  BY <1>1

(* There is nothing in the empty set.                                      *)
LEMMA NoneAreZero == Cardinality({}) = 0
BY FS_EmptySet

(* A set that maps one to one into a finite one is no larger.              *)
LEMMA OneToOne ==
  ASSUME NEW S, NEW T, IsFiniteSet(T), NEW f \in [S -> T],
         \A x, y \in S : f[x] = f[y] => x = y
  PROVE  IsFiniteSet(S) /\ Cardinality(S) <= Cardinality(T) /\ Cardinality(S) \in Nat
<1>1. f \in Injection(S, T)
  BY DEF Injection, IsInjective
<1>. QED
  BY <1>1, FS_Injection, FS_CardinalityType

-------------------------------------------------------------------------------
(* Least numbers, and induction *)

(* A set of natural numbers that is not empty has a least one: induction   *)
(* as a set, since the induction theorems cannot be instantiated.          *)
LEMMA Least ==
  ASSUME NEW T, T \subseteq Nat, T # {}
  PROVE  \E x \in T : \A y \in T : x <= y
<1>. DEFINE R == {ss \in Nat \X Nat : ss[1] < ss[2]}
<1>1. R = OpToRel(<, Nat)
  BY Zenon DEF OpToRel
<1>2. IsWellFoundedOn(R, Nat)
  BY <1>1, NatLessThanWellFounded, Zenon
<1>3. \A x, y \in Nat : <<y, x>> \in R <=> y < x
  OBVIOUS
<1>. HIDE DEF R
<1>4. \E x \in T : \A y \in T : ~ (<<y, x>> \in R)
  BY <1>2, WFMin
<1>5. PICK x \in T : \A y \in T : ~ (<<y, x>> \in R)
  BY <1>4
<1>6. ASSUME NEW y \in T PROVE x <= y
  <2>1. y \in Nat /\ x \in Nat /\ ~ (<<y, x>> \in R)
    BY <1>5
  <2>2. ~(y < x)
    BY <1>3, <2>1
  <2>. QED
    BY <2>1, <2>2
<1>. QED
  BY <1>5, <1>6

(* And one that has an upper bound has a greatest.                         *)
LEMMA Greatest ==
  ASSUME NEW N \in Nat, NEW S, S \subseteq 0 .. N, S # {}
  PROVE  \E x \in S : \A y \in S : y <= x
<1>. PICK T : T = {N - x : x \in S}
  OBVIOUS
<1>1. T \subseteq Nat /\ T # {}
  <2>1. \A x \in S : N - x \in Nat
    OBVIOUS
  <2>. QED
    BY <2>1
<1>2. PICK t \in T : \A u \in T : t <= u
  BY <1>1, Least
<1>3. PICK x \in S : t = N - x
  OBVIOUS
<1>4. ASSUME NEW y \in S PROVE y <= x
  <2>1. t <= N - y
    BY <1>2
  <2>2. x \in Int /\ y \in Int
    OBVIOUS
  <2>. QED
    BY <1>3, <2>1, <2>2
<1>. QED
  BY <1>4

(* Induction up to a number, with the property as a set of numbers.        *)
LEMMA UpTo ==
  ASSUME NEW N \in Nat, NEW S, 0 \in S, \A k \in 1 .. N : k - 1 \in S => k \in S
  PROVE  \A k \in 0 .. N : k \in S
<1>. DEFINE Bad == {k \in 0 .. N : k \notin S}
<1>1. SUFFICES ASSUME Bad # {} PROVE FALSE
  OBVIOUS
<1>2. PICK x \in Bad : \A y \in Bad : x <= y
  <2>1. Bad \subseteq Nat
    OBVIOUS
  <2>. HIDE DEF Bad
  <2>. QED
    BY <1>1, <2>1, Least
<1>3. x # 0 /\ x \in 0 .. N
  BY <1>2
<1>4. x \in 1 .. N /\ x - 1 \in 0 .. N /\ ~(x <= x - 1)
  BY <1>3
<1>5. x - 1 \in S
  BY <1>2, <1>4
<1>. QED
  BY <1>2, <1>4, <1>5

-------------------------------------------------------------------------------
(* Sums *)

(* The running sums of the first m values of c.                            *)
Sums(c, m) ==
  {g \in [0 .. m -> Int] :
     g[0] = 0 /\ \A n \in 1 .. m : g[n] = g[n - 1] + c[n]}

(* Every sequence of integers has its sums.                                *)
LEMMA SumsExist ==
  ASSUME NEW c, NEW m \in Nat, \A n \in 1 .. m : c[n] \in Int
  PROVE  Sums(c, m) # {}
<1>. DEFINE Bad == {n \in 0 .. m : Sums(c, n) = {}}
<1>1. SUFFICES ASSUME Bad # {} PROVE FALSE
  OBVIOUS
<1>2. PICK x \in Bad : \A y \in Bad : x <= y
  <2>1. Bad \subseteq Nat
    OBVIOUS
  <2>. HIDE DEF Bad
  <2>. QED
    BY <1>1, <2>1, Least
<1>3. x # 0
  <2>1. [n \in 0 .. 0 |-> 0] \in Sums(c, 0)
    BY DEF Sums
  <2>. QED
    BY <2>1
<1>4. x - 1 \in 0 .. m /\ x - 1 \notin Bad /\ x \in 1 .. m
  BY <1>2, <1>3
<1>5. PICK g : g \in Sums(c, x - 1)
  BY <1>4
<1>6. g \in [0 .. x - 1 -> Int] /\ g[0] = 0 /\ \A n \in 1 .. x - 1 : g[n] = g[n - 1] + c[n]
  BY <1>5 DEF Sums
<1>. DEFINE h == [n \in 0 .. x |-> IF n = x THEN g[x - 1] + c[x] ELSE g[n]]
<1>7. h[0] = 0 /\ \A n \in 1 .. x : h[n] = h[n - 1] + c[n]
  BY <1>4, <1>6
<1>8. h \in [0 .. x -> Int]
  BY <1>4, <1>6
<1>9. h \in Sums(c, x)
  BY <1>7, <1>8 DEF Sums
<1>. QED
  BY <1>9

(* What adds up like the sums is the sums.                                 *)
LEMMA SumsAre ==
  ASSUME NEW c, NEW m \in Nat, \A n \in 1 .. m : c[n] \in Int,
         NEW h, h = [n \in 0 .. m |-> h[n]], h[0] = 0, \A n \in 1 .. m : h[n] = h[n - 1] + c[n]
  PROVE  h \in Sums(c, m)
<1>1. PICK g : g \in Sums(c, m)
  BY SumsExist
<1>2. g \in [0 .. m -> Int] /\ g[0] = 0 /\ \A n \in 1 .. m : g[n] = g[n - 1] + c[n]
  BY <1>1 DEF Sums
<1>. DEFINE Ok == {n \in 0 .. m : h[n] = g[n]}
<1>3. 0 \in Ok
  BY <1>2
<1>4. ASSUME NEW n \in 1 .. m, n - 1 \in Ok PROVE n \in Ok
  <2>1. h[n] = h[n - 1] + c[n] /\ g[n] = g[n - 1] + c[n]
    BY <1>2
  <2>2. h[n - 1] = g[n - 1]
    BY <1>4
  <2>3. n \in 0 .. m
    OBVIOUS
  <2>. QED
    BY <2>1, <2>2, <2>3
<1>. HIDE DEF Ok
<1>5. \A n \in 0 .. m : n \in Ok
  BY <1>3, <1>4, UpTo
<1>6. \A n \in 0 .. m : h[n] = g[n] /\ g[n] \in Int
  BY <1>2, <1>5 DEF Ok
<1>7. h \in [0 .. m -> Int]
  BY <1>6
<1>. QED
  BY <1>7 DEF Sums

(* The recursive definition of the sums defines them.                      *)
LEMMA SumsDefined ==
  ASSUME NEW c, NEW m \in Nat, \A n \in 1 .. m : c[n] \in Int,
         NEW h, h = CHOOSE s : s = [n \in 0 .. m |-> IF n = 0 THEN 0 ELSE s[n - 1] + c[n]]
  PROVE  h \in Sums(c, m)
<1>1. PICK g : g \in Sums(c, m)
  BY SumsExist
<1>2. g \in [0 .. m -> Int] /\ g[0] = 0 /\ \A n \in 1 .. m : g[n] = g[n - 1] + c[n]
  BY <1>1 DEF Sums
<1>3. g = [n \in 0 .. m |-> IF n = 0 THEN 0 ELSE g[n - 1] + c[n]]
  BY <1>2
<1>4. h = [n \in 0 .. m |-> IF n = 0 THEN 0 ELSE h[n - 1] + c[n]]
  BY <1>3
<1>5. h = [n \in 0 .. m |-> h[n]]
  BY <1>4
<1>6. \A n \in 0 .. m : h[n] = IF n = 0 THEN 0 ELSE h[n - 1] + c[n]
  BY <1>4
<1>7. h[0] = 0 /\ \A n \in 1 .. m : h[n] = h[n - 1] + c[n]
  BY <1>6
<1>. QED
  BY <1>5, <1>7, SumsAre

(* Among the first l values, e is c with d added at one index, f.          *)
DiffersAt(c, e, l, f, d) ==
  \A n \in 1 .. l : c[n] \in Int /\ e[n] = IF n = f THEN c[n] + d ELSE c[n]

(* Sums of values that differ by d at one index differ by d from there on. *)
LEMMA SumsDiffer ==
  ASSUME NEW c, NEW e, NEW l \in Nat, NEW m \in Nat, l <= m, NEW d \in Int, NEW f \in Nat \ {0},
         DiffersAt(c, e, l, f, d), NEW g \in Sums(c, l), NEW h \in Sums(e, m)
  PROVE  \A n \in 0 .. l : h[n] = g[n] + (IF n < f THEN 0 ELSE d)
<1>. DEFINE Bad == {n \in 0 .. l : h[n] # g[n] + (IF n < f THEN 0 ELSE d)}
<1>1. SUFFICES ASSUME Bad # {} PROVE FALSE
  OBVIOUS
<1>2. PICK x \in Bad : \A y \in Bad : x <= y
  <2>1. Bad \subseteq Nat
    OBVIOUS
  <2>. HIDE DEF Bad
  <2>. QED
    BY <1>1, <2>1, Least
<1>3. /\ g \in [0 .. l -> Int] /\ g[0] = 0 /\ \A n \in 1 .. l : g[n] = g[n - 1] + c[n]
      /\ h \in [0 .. m -> Int] /\ h[0] = 0 /\ \A n \in 1 .. m : h[n] = h[n - 1] + e[n]
  BY DEF Sums
<1>4. x # 0
  BY <1>2, <1>3
<1>5. x - 1 \in 0 .. l /\ x - 1 \notin Bad /\ x \in 1 .. l
  BY <1>2, <1>4
<1>6. h[x - 1] = g[x - 1] + (IF x - 1 < f THEN 0 ELSE d)
  BY <1>5
<1>7. /\ g[x] = g[x - 1] + c[x] /\ h[x] = h[x - 1] + e[x] /\ c[x] \in Int
      /\ e[x] = IF x = f THEN c[x] + d ELSE c[x]
      /\ g[x - 1] \in Int
  BY <1>3, <1>5 DEF DiffersAt
<1>. QED
  BY <1>2, <1>5, <1>6, <1>7

(* So the whole sum changes by as much as one of its values.               *)
LEMMA SumChanges ==
  ASSUME NEW c, NEW e, NEW l \in Nat, NEW d \in Int, NEW f \in 1 .. l,
         DiffersAt(c, e, l, f, d), NEW g \in Sums(c, l), NEW h \in Sums(e, l)
  PROVE  h[l] = g[l] + d
<1>1. f \in Nat \ {0} /\ l <= l /\ l \in 0 .. l /\ ~ (l < f)
  OBVIOUS
<1>2. \A n \in 0 .. l : h[n] = g[n] + (IF n < f THEN 0 ELSE d)
  BY <1>1, SumsDiffer
<1>. QED
  BY <1>1, <1>2

(* Values after the first l do not matter to the sum of these.             *)
LEMMA SumStays ==
  ASSUME NEW c, NEW e, NEW l \in Nat, NEW m \in Nat, l <= m,
         \A n \in 1 .. l : c[n] \in Int /\ e[n] = c[n],
         NEW g \in Sums(c, l), NEW h \in Sums(e, m)
  PROVE  h[l] = g[l] /\ g[l] \in Int
<1>0. PICK f, d : f = l + 1 /\ d = 0
  OBVIOUS
<1>1. f \in Nat \ {0} /\ d \in Int /\ l \in 0 .. l /\ l < f
  BY <1>0
<1>2. DiffersAt(c, e, l, f, d)
  BY <1>0 DEF DiffersAt
<1>3. \A n \in 0 .. l : h[n] = g[n] + (IF n < f THEN 0 ELSE d)
  BY <1>1, <1>2, SumsDiffer
<1>4. g[l] \in Int
  BY <1>1 DEF Sums
<1>. QED
  BY <1>1, <1>3, <1>4

===============================================================================
