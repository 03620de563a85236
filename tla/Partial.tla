------------------------------- MODULE Partial -------------------------------
(***************************************************************************)
(* Partial functions: the Maps and keyed lists of the front end, and what  *)
(* the proofs about its stores keep needing of them.                       *)
(***************************************************************************)
EXTENDS Naturals, Sequences, FiniteSets, WellFoundedInduction, TLAPS

CONSTANT Nothing    \* undefined, null, an absent reply
ASSUME NothingIsNoNumber == Nothing \notin Nat

None == <<>>
Put(f, k, v) == [x \in DOMAIN f \union {k} |-> IF x = k THEN v ELSE f[x]]
Drop(f, ks) == [x \in DOMAIN f \ ks |-> f[x]]
At(f, k) == IF k \in DOMAIN f THEN f[k] ELSE Nothing
Partially(S, T) == UNION {[D -> T] : D \in SUBSET S}
Bounded(S, n) == UNION {[1..k -> S] : k \in 0..n}
AtMost(m, n) == IF m <= n THEN m ELSE n
AtLeast(m, n) == IF m >= n THEN m ELSE n

-----------------------------------------------------------------------------
LEMMA PartialIs ==
  ASSUME NEW S, NEW T, NEW f
  PROVE  f \in Partially(S, T)
           <=> /\ f = [x \in DOMAIN f |-> f[x]]
               /\ DOMAIN f \subseteq S
               /\ \A x \in DOMAIN f : f[x] \in T
<1>1. ASSUME f \in Partially(S, T)
      PROVE  /\ f = [x \in DOMAIN f |-> f[x]]
             /\ DOMAIN f \subseteq S
             /\ \A x \in DOMAIN f : f[x] \in T
 <2>1. PICK D \in SUBSET S : f \in [D -> T]
   BY <1>1 DEF Partially
 <2> QED BY <2>1
<1>2. ASSUME f = [x \in DOMAIN f |-> f[x]],
             DOMAIN f \subseteq S,
             \A x \in DOMAIN f : f[x] \in T
      PROVE  f \in Partially(S, T)
 <2>1. f \in [DOMAIN f -> T]
   BY <1>2
 <2> QED BY <1>2, <2>1 DEF Partially
<1> QED BY <1>1, <1>2

LEMMA NonePartial ==
  ASSUME NEW S, NEW T
  PROVE  None \in Partially(S, T) /\ DOMAIN None = {}
<1>1. None \in [{} -> T] /\ DOMAIN None = {}
  BY DEF None
<1> QED BY <1>1 DEF Partially

LEMMA PutPartial ==
  ASSUME NEW S, NEW T, NEW f \in Partially(S, T), NEW k \in S, NEW v \in T
  PROVE  Put(f, k, v) \in Partially(S, T)
<1> DEFINE g == Put(f, k, v)
<1>1. DOMAIN f \subseteq S /\ \A x \in DOMAIN f : f[x] \in T
  BY PartialIs
<1>2. g = [x \in DOMAIN f \union {k} |-> IF x = k THEN v ELSE f[x]]
  BY DEF Put
<1>3. /\ DOMAIN g = DOMAIN f \union {k}
      /\ g[k] = v
      /\ \A x \in DOMAIN f : g[x] = IF x = k THEN v ELSE f[x]
  BY <1>2
<1>4. g = [x \in DOMAIN g |-> g[x]]
  BY <1>2
<1> HIDE DEF g
<1>5. g \in Partially(S, T)
  BY <1>1, <1>3, <1>4, PartialIs
<1> QED BY <1>5 DEF g

LEMMA DropPartial ==
  ASSUME NEW S, NEW T, NEW f \in Partially(S, T), NEW ks
  PROVE  Drop(f, ks) \in Partially(S, T)
<1> DEFINE g == Drop(f, ks)
<1>1. DOMAIN f \subseteq S /\ \A x \in DOMAIN f : f[x] \in T
  BY PartialIs
<1>2. g = [x \in DOMAIN f \ ks |-> f[x]]
  BY DEF Drop
<1>3. DOMAIN g = DOMAIN f \ ks /\ \A x \in DOMAIN f \ ks : g[x] = f[x]
  BY <1>2
<1>4. g = [x \in DOMAIN g |-> g[x]]
  BY <1>2
<1> HIDE DEF g
<1>5. g \in Partially(S, T)
  BY <1>1, <1>3, <1>4, PartialIs
<1> QED BY <1>5 DEF g

(* A map laid over another one.                                             *)
LEMMA LaidOver ==
  ASSUME NEW S, NEW T, NEW f \in Partially(S, T), NEW g \in Partially(S, T)
  PROVE  LET h == [x \in DOMAIN f \union DOMAIN g |-> IF x \in DOMAIN g THEN g[x] ELSE f[x]]
         IN  h \in Partially(S, T) /\ DOMAIN h = DOMAIN f \union DOMAIN g
<1> DEFINE h == [x \in DOMAIN f \union DOMAIN g |-> IF x \in DOMAIN g THEN g[x] ELSE f[x]]
<1>1. /\ DOMAIN f \subseteq S /\ \A x \in DOMAIN f : f[x] \in T
      /\ DOMAIN g \subseteq S /\ \A x \in DOMAIN g : g[x] \in T
  BY PartialIs
<1>2. /\ DOMAIN h = DOMAIN f \union DOMAIN g
      /\ \A x \in DOMAIN h : h[x] = IF x \in DOMAIN g THEN g[x] ELSE f[x]
      /\ h = [x \in DOMAIN h |-> h[x]]
  OBVIOUS
<1> HIDE DEF h
<1>3. h \in Partially(S, T)
  BY <1>1, <1>2, PartialIs
<1> QED BY <1>2, <1>3 DEF h

(* One entry changed in place.                                              *)
LEMMA EntryChanged ==
  ASSUME NEW S, NEW T, NEW f \in Partially(S, T), NEW k \in DOMAIN f, NEW v \in T
  PROVE  /\ [f EXCEPT ![k] = v] \in Partially(S, T)
         /\ DOMAIN [f EXCEPT ![k] = v] = DOMAIN f
         /\ [f EXCEPT ![k] = v][k] = v
         /\ \A x \in DOMAIN f \ {k} : [f EXCEPT ![k] = v][x] = f[x]
<1>1. /\ f = [x \in DOMAIN f |-> f[x]]
      /\ DOMAIN f \subseteq S
      /\ \A x \in DOMAIN f : f[x] \in T
  BY PartialIs
<1> DEFINE g == [f EXCEPT ![k] = v]
<1>2. /\ DOMAIN g = DOMAIN f
      /\ \A x \in DOMAIN f : g[x] = IF x = k THEN v ELSE f[x]
      /\ g = [x \in DOMAIN g |-> g[x]]
  BY <1>1
<1> HIDE DEF g
<1>3. g \in Partially(S, T)
  BY <1>1, <1>2, PartialIs
<1> QED BY <1>2, <1>3 DEF g

-----------------------------------------------------------------------------
(* A set of numbers that is not empty has a least one, and a greatest one   *)
(* if it is bounded.                                                        *)
Below == {ss \in Nat \X Nat : ss[1] < ss[2]}

LEMMA BelowWellFounded == IsWellFoundedOn(Below, Nat)
BY NatLessThanWellFounded DEF OpToRel, Below

LEMMA Least ==
  ASSUME NEW T, T \subseteq Nat, T # {}
  PROVE  \E x \in T : \A y \in T : x <= y
<1>2. PICK x \in T : \A y \in T : ~ (<<y, x>> \in Below)
  BY BelowWellFounded, WFMin
<1>3. \A y \in T : y \in Nat /\ x \in Nat /\ ~ (y < x)
  BY <1>2 DEF Below
<1>4. \A y \in T : x <= y
  BY <1>3
<1> QED BY <1>4

LEMMA Greatest ==
  ASSUME NEW T, NEW n \in Nat, T \subseteq 0..n, T # {}
  PROVE  \E x \in T : \A y \in T : y <= x
<1> DEFINE B == {b \in Nat : \A y \in T : y <= b}
<1>1. n \in B
  OBVIOUS
<1>2. PICK b \in B : \A c \in B : b <= c
 <2> B \subseteq Nat /\ B # {}
   BY <1>1
 <2> HIDE DEF B
 <2> QED BY Least
<1>3. b \in Nat /\ \A y \in T : y <= b /\ y \in Nat
  BY <1>2
<1>4. b \in T
 <2>1. SUFFICES ASSUME b \notin T PROVE FALSE
   OBVIOUS
 <2>2. \A y \in T : y <= b - 1 /\ y \in Nat
   BY <2>1, <1>3
 <2>3. PICK y \in T : TRUE
   OBVIOUS
 <2>4. b - 1 \in Nat
   BY <2>2, <2>3, <1>3
 <2>5. b - 1 \in B
   BY <2>2, <2>4
 <2> QED BY <2>5, <1>2, <1>3
<1> QED BY <1>3, <1>4
=============================================================================
