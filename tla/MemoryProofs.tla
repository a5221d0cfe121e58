---------------------------- MODULE MemoryProofs ----------------------------
(***************************************************************************)
(* Proofs about Memory, for any number of overlapping writes, any cap and  *)
(* any number of faults: the namespace never holds more than its cap and   *)
(* the writes in progress account for, and what was pruned is older than   *)
(* Cap records that were kept.                                             *)
(*                                                                         *)
(* Neither is inductive: what a DELETE will remove was found in an earlier *)
(* snapshot, and others may remove part of it first.  The invariant speaks *)
(* of every set D of DELETEs in progress at once: of what is left, and     *)
(* kept, when all of them have committed.  A DELETE that commits moves     *)
(* from D into the state, and one that takes its snapshot sees the cap     *)
(* itself.                                                                 *)
(***************************************************************************)
EXTENDS Memory, FiniteSetTheorems, TLAPS

Pending == {w \in Writer : pc[w] \in {"prune", "delete"}}
Pruners == {w \in Writer : pc[w] = "delete"}

\* What remains of the records when the DELETEs of D have committed, and with
\* it what the user took out.
Doomed(D) == UNION {doomed[w] : w \in D}
Left(D) == records \ Doomed(D)
Kept(D) == Left(D) \cup deleted

\* Of the records W those that are not in K have n younger ones in K.
Younger(K, x) == {y \in K : y > x}
Forgets(W, K, n) == \A x \in W \ K : Cardinality(Younger(K, x)) >= n

NewestOf(R, n) == {x \in R : Cardinality(Younger(R, x)) < n}

TypeInv ==
    /\ clock \in Nat \ {0}
    /\ faults \in Nat
    /\ pc \in [Writer -> {"idle", "insert", "prune", "delete"}]
    /\ at \in [Writer -> Nat]
    /\ doomed \in [Writer -> SUBSET written]
    /\ records \subseteq written
    /\ deleted \subseteq written
    /\ written \subseteq 1 .. clock - 1

\* A record is inserted once.
FreshInv ==
    /\ \A w \in Writer : pc[w] = "insert" => at[w] \in (1 .. clock - 1) \ written
    /\ \A v, w \in Writer : pc[v] = "insert" /\ pc[w] = "insert" /\ at[v] = at[w] => v = w

CapInv ==
    \A D \in SUBSET Pruners :
        Cardinality(Left(D)) <= Cap + faults + Cardinality(Pending \ D)

KeptInv ==
    \A D \in SUBSET Pruners : Forgets(written, Kept(D), Cap)

-----------------------------------------------------------------------------
(* Sets of naturals *)

\* A set of naturals that is not empty has a least element.
LEMMA LeastOf ==
    ASSUME NEW T \in SUBSET Nat, T # {}
    PROVE  \E x \in T : \A y \in T : x <= y
<1> DEFINE R == OpToRel(<, Nat)
<1>1. IsWellFoundedOn(R, Nat)
  BY NatLessThanWellFounded
<1>2. \A x, y \in Nat : x < y => <<x, y>> \in R
  BY DEF OpToRel
<1> HIDE DEF R
<1>3. PICK x \in T : \A y \in T : ~ (<<y, x>> \in R)
  BY <1>1, WFMin
<1>4. \A y \in T : ~ (y < x)
  BY <1>2, <1>3, Zenon
<1> QED
  BY <1>4

\* One that is bounded has a greatest element.
LEMMA GreatestOf ==
    ASSUME NEW b \in Nat, NEW T \in SUBSET (0 .. b), T # {}
    PROVE  \E x \in T : \A y \in T : y <= x
<1> DEFINE U == {u \in 0 .. b : b - u \in T}
<1>1. PICK t \in T : TRUE
  OBVIOUS
<1>2. t \in 0 .. b /\ b - t \in 0 .. b /\ b - (b - t) = t
  OBVIOUS
<1>3. U \in SUBSET Nat /\ b - t \in U
  BY <1>2
<1>4. PICK u \in U : \A v \in U : u <= v
  <2> HIDE DEF U
  <2> QED BY <1>3, LeastOf
<1>5. ASSUME NEW y \in T
      PROVE  y <= b - u
  <2>1. y \in 0 .. b /\ b - y \in 0 .. b /\ b - (b - y) = y
    OBVIOUS
  <2>2. u <= b - y
    BY <1>4, <2>1
  <2> QED
    BY <2>1, <2>2
<1> QED
  BY <1>5

\* Parts of a finite set are finite and not larger.
LEMMA PartIsSmaller ==
    ASSUME NEW T, IsFiniteSet(T), NEW S, S \subseteq T
    PROVE  /\ IsFiniteSet(S)
           /\ Cardinality(S) \in Nat
           /\ Cardinality(T) \in Nat
           /\ Cardinality(S) <= Cardinality(T)
<1>1. IsFiniteSet(S) /\ Cardinality(S) <= Cardinality(T)
  BY FS_Subset
<1>2. Cardinality(T) \in Nat
  BY FS_CardinalityType
<1>3. Cardinality(S) \in Nat
  BY <1>1, FS_CardinalityType
<1> QED
  BY <1>1, <1>2, <1>3

\* Records are finitely many.
LEMMA RecordsAreFinite ==
    ASSUME NEW b \in Nat, NEW S \in SUBSET (1 .. b)
    PROVE  IsFiniteSet(S) /\ Cardinality(S) \in Nat
<1>1. IsFiniteSet(1 .. b)
  BY FS_Interval
<1> QED
  BY <1>1, PartIsSmaller

\* ORDER BY created_at DESC LIMIT n gives n records at most.
LEMMA NewestIsSmall ==
    ASSUME NEW b \in Nat, NEW R \in SUBSET (1 .. b), NEW n \in Nat,
           NEW N, N = NewestOf(R, n)
    PROVE  IsFiniteSet(N) /\ Cardinality(N) <= n
<1> USE DEF NewestOf, Younger
<1>1. N \in SUBSET (1 .. b) /\ N \in SUBSET Nat
  <2>1. N \subseteq R
    BY Zenon
  <2>2. \A x \in R : x \in 1 .. b /\ x \in Nat
    OBVIOUS
  <2> QED
    BY <2>1, <2>2, Zenon
<1>2. IsFiniteSet(N) /\ Cardinality(N) \in Nat
  BY <1>1, RecordsAreFinite
<1>3. CASE N = {}
  <2>1. Cardinality(N) = 0
    BY <1>2, <1>3, FS_EmptySet, Zenon
  <2> QED
    BY <1>2, <2>1
<1>4. CASE N # {}
  <2>1. PICK x \in N : \A y \in N : x <= y
    BY <1>1, <1>4, LeastOf
  <2> DEFINE Y == {y \in R : y > x}
  <2>2. Cardinality(Y) < n
    OBVIOUS
  <2>3. Y \in SUBSET (1 .. b) /\ N \ {x} \subseteq Y
    <3>1. Y \in SUBSET (1 .. b)
      BY Zenon
    <3>2. ASSUME NEW y \in N \ {x} PROVE y \in Y
      <4>1. y \in R /\ y \in Nat /\ x \in Nat /\ x <= y /\ y # x
        BY <1>1, <2>1
      <4> QED
        BY <4>1
    <3> QED
      BY <3>1, <3>2, Zenon
  <2> HIDE DEF Y
  <2>4. IsFiniteSet(Y) /\ Cardinality(Y) \in Nat
    BY <2>3, RecordsAreFinite
  <2>5. Cardinality(N \ {x}) <= Cardinality(Y)
    BY <2>3, <2>4, PartIsSmaller
  <2>6. Cardinality(N \ {x}) = Cardinality(N) - 1
    BY <1>2, FS_RemoveElement
  <2> QED
    BY <1>2, <2>2, <2>4, <2>5, <2>6
<1> QED
  BY <1>3, <1>4

\* A prune keeps the promise for those in progress: U is what they will remove,
\* K what they keep, and L what is kept if the prune commits as well.
LEMMA PruneKeeps ==
    ASSUME NEW b \in Nat, NEW W \in SUBSET (1 .. b), NEW R \in SUBSET W,
           NEW Del \in SUBSET W, NEW U, NEW n \in Nat,
           Forgets(W, (R \ U) \cup Del, n)
    PROVE  Forgets(W, (R \ (U \cup (R \ NewestOf(R, n)))) \cup Del, n)
<1> DEFINE N == NewestOf(R, n)
           K == (R \ U) \cup Del
           L == (R \ (U \cup (R \ N))) \cup Del
<1> SUFFICES ASSUME NEW x \in W \ L
             PROVE  Cardinality(Younger(L, x)) >= n
  BY DEF Forgets
<1> USE DEF NewestOf, Forgets
<1> USE DEF Younger
<1> DEFINE Y == {y \in L : y > x}
<1>1. L \subseteq K /\ K \subseteq W /\ Y \in SUBSET (1 .. b) /\ R \subseteq 1 .. b
  OBVIOUS
<1>2. IsFiniteSet(Y) /\ Cardinality(Y) \in Nat
  <2> HIDE DEF Y
  <2> QED BY <1>1, RecordsAreFinite
<1>3. ASSUME NEW S \in SUBSET Y, Cardinality(S) >= n
      PROVE  Cardinality(Y) >= n
  <2> HIDE DEF Y
  <2>1. Cardinality(S) <= Cardinality(Y) /\ Cardinality(S) \in Nat
    BY <1>2, PartIsSmaller
  <2> QED
    BY <1>2, <1>3, <2>1
<1>4. CASE \E y \in K \ L : y >= x
  <2>1. R \ N # {} /\ R \ N \in SUBSET (0 .. b)
    <3>1. R \ N # {}
      BY <1>4
    <3>2. \A y \in R : y \in 0 .. b
      BY <1>1
    <3> QED
      BY <3>1, <3>2, Zenon
  <2>2. PICK m \in R \ N : \A y \in R \ N : y <= m
    BY <2>1, GreatestOf
  <2>3. PICK v \in R \ N : v >= x
    BY <1>4
  <2>4. m >= x /\ x \in 1 .. b /\ m \in 1 .. b
    BY <1>1, <2>2, <2>3
  <2> DEFINE B == {z \in R : z > m}
  <2>5. B \in SUBSET (1 .. b) /\ ~ (Cardinality(B) < n)
    BY <1>1
  <2>6. Cardinality(B) >= n
    <3> HIDE DEF B
    <3>1. Cardinality(B) \in Nat
      BY <2>5, RecordsAreFinite
    <3> QED BY <2>5, <3>1
  <2>7. CASE B \subseteq L
    <3>1. ASSUME NEW z \in B PROVE z \in Y
      <4>1. z \in 1 .. b /\ z > m /\ z > x
        BY <1>1, <2>4
      <4> QED
        BY <2>7, <4>1
    <3> QED
      BY <1>3, <2>6, <3>1
  <2>8. CASE ~ (B \subseteq L)
    <3>1. PICK z \in B : z \notin L
      BY <2>8
    <3>2. z \in N /\ z \in 1 .. b /\ z > m
      BY <1>1, <2>2, <2>4, <3>1
    <3>3. z \in W \ K
      BY <3>1, <3>2
    <3> DEFINE Z == {y \in K : y > z}
    <3>4. Cardinality(Z) >= n
      BY <3>3
    <3>5. ASSUME NEW y \in Z PROVE y \in Y
      <4>1. y \in 1 .. b /\ y > m /\ y > x
        BY <1>1, <2>4, <3>2
      <4>2. y \in R => y \in N
        BY <2>2, <2>4, <4>1
      <4> QED
        BY <4>1, <4>2
    <3> QED
      BY <1>3, <3>4, <3>5
  <2> QED
    BY <2>7, <2>8
<1>5. CASE ~ \E y \in K \ L : y >= x
  <2>1. x \in 1 .. b /\ x >= x
    OBVIOUS
  <2>2. x \in W \ K
    BY <1>5, <2>1
  <2> DEFINE Z == {y \in K : y > x}
  <2>3. Z \subseteq Y
    <3> SUFFICES ASSUME NEW y \in Z PROVE y \in L
      OBVIOUS
    <3>1. y \in 1 .. b /\ y >= x
      BY <1>1, <2>1
    <3> QED
      BY <1>5, <3>1
  <2>4. Cardinality(Z) >= n
    BY <2>2
  <2> QED
    BY <1>3, <2>3, <2>4
<1> QED
  BY <1>4, <1>5

-----------------------------------------------------------------------------
(* Types *)

\* Every step keeps the types, and a record is inserted once.
LEMMA TypeStep ==
    ASSUME MemoryAssumption, TypeInv, FreshInv, [Next]_vars
    PROVE  TypeInv' /\ FreshInv'
<1> USE DEF TypeInv, FreshInv
<1>1. ASSUME NEW w \in Writer, BeginWrite(w)
      PROVE  TypeInv' /\ FreshInv'
  BY <1>1 DEF BeginWrite
<1>2. ASSUME NEW w \in Writer, Insert(w)
      PROVE  TypeInv' /\ FreshInv'
  BY <1>2 DEF Insert
<1>3. ASSUME NEW w \in Writer, FindOld(w)
      PROVE  TypeInv' /\ FreshInv'
  BY <1>3 DEF FindOld, ToPrune
<1>4. ASSUME NEW w \in Writer, Prune(w) \/ PruneFails(w)
      PROVE  TypeInv' /\ FreshInv'
  <2>1. /\ pc' = [pc EXCEPT ![w] = "idle"]
        /\ at' = [at EXCEPT ![w] = 0]
        /\ doomed' = [doomed EXCEPT ![w] = {}]
        /\ faults' \in Nat /\ records' \subseteq records
        /\ UNCHANGED <<clock, written, deleted>>
    BY <1>4 DEF Prune, PruneFails, Return
  <2> QED
    BY <2>1
<1>5. ASSUME NEW x \in records, DeleteRecord(x)
      PROVE  TypeInv' /\ FreshInv'
  BY <1>5 DEF DeleteRecord
<1>6. CASE UNCHANGED vars
  BY <1>6 DEF vars
<1> QED
  BY <1>1, <1>2, <1>3, <1>4, <1>5, <1>6 DEF Next

-----------------------------------------------------------------------------
(* What the DELETEs in progress leave *)

\* Whatever they are, the records they leave are finitely many.
LEMMA LeftIsFinite ==
    ASSUME MemoryAssumption, TypeInv, NEW D
    PROVE  /\ IsFiniteSet(Left(D)) /\ Cardinality(Left(D)) \in Nat
           /\ IsFiniteSet(Kept(D)) /\ Kept(D) \subseteq 1 .. clock - 1
           /\ IsFiniteSet(Pending \ D) /\ Cardinality(Pending \ D) \in Nat
<1>1. clock - 1 \in Nat
  BY DEF TypeInv
<1>2. Left(D) \in SUBSET (1 .. clock - 1) /\ Kept(D) \in SUBSET (1 .. clock - 1)
  BY Zenon DEF TypeInv, Left, Kept
<1>3. IsFiniteSet(Left(D)) /\ Cardinality(Left(D)) \in Nat /\ IsFiniteSet(Kept(D))
  BY <1>1, <1>2, RecordsAreFinite
<1>4. Pending \ D \subseteq Writer
  BY DEF Pending
<1>5. IsFiniteSet(Pending \ D) /\ Cardinality(Pending \ D) \in Nat
  BY <1>4, PartIsSmaller, MemoryAssumption DEF MemoryAssumption
<1> QED
  BY <1>2, <1>3, <1>5

\* A step that is not a snapshot leaves what the other DELETEs will remove.
LEMMA DoomedStays ==
    ASSUME TypeInv, NEW D \in SUBSET Writer, \A w \in D : doomed'[w] = doomed[w]
    PROVE  Doomed(D)' = Doomed(D)
BY DEF Doomed

\* FindOld: the snapshot of a DELETE that begins.
LEMMA FindOldKeeps ==
    ASSUME MemoryAssumption, TypeInv, TypeInv', CapInv, KeptInv,
           NEW w \in Writer, FindOld(w)
    PROVE  CapInv' /\ KeptInv'
<1> DEFINE b == clock - 1
           N == NewestOf(records, Cap)
<1>1. /\ pc[w] = "prune" /\ pc' = [pc EXCEPT ![w] = "delete"]
      /\ doomed' = [doomed EXCEPT ![w] = records \ N]
      /\ UNCHANGED <<clock, records, at, faults, written, deleted>>
  BY DEF FindOld, ToPrune, Newest, NewestOf, Younger
<1>2. /\ w \notin Pruners /\ Pruners' = Pruners \cup {w} /\ Pending' = Pending
      /\ Pruners \subseteq Writer
  BY <1>1 DEF TypeInv, Pruners, Pending
<1>3. /\ doomed'[w] = records \ N
      /\ \A v \in Writer \ {w} : doomed'[v] = doomed[v]
  BY <1>1 DEF TypeInv
<1>4. /\ b \in Nat /\ Cap \in Nat /\ faults \in Nat
      /\ written \in SUBSET (1 .. b) /\ records \in SUBSET written
      /\ deleted \in SUBSET written
  BY MemoryAssumption DEF TypeInv, MemoryAssumption
<1>5. IsFiniteSet(N) /\ Cardinality(N) <= Cap /\ Cardinality(N) \in Nat
  <2>1. records \in SUBSET (1 .. b)
    BY <1>4, Zenon
  <2> HIDE DEF b
  <2>2. IsFiniteSet(N) /\ Cardinality(N) <= Cap
    BY <1>4, <2>1, NewestIsSmall
  <2> HIDE DEF N
  <2> QED
    BY <2>2, FS_CardinalityType
<1> HIDE DEF N, b
<1>6. ASSUME NEW D \in SUBSET Pruners', w \notin D
      PROVE  D \in SUBSET Pruners /\ Left(D)' = Left(D) /\ Kept(D)' = Kept(D)
  <2>1. D \in SUBSET Pruners /\ D \in SUBSET Writer /\ \A v \in D : doomed'[v] = doomed[v]
    BY <1>2, <1>3, <1>6, Zenon
  <2>2. Doomed(D)' = Doomed(D)
    BY <2>1, DoomedStays
  <2> QED
    BY <1>1, <2>1, <2>2 DEF Left, Kept
<1>7. ASSUME NEW D \in SUBSET Pruners', w \in D
      PROVE  /\ D \ {w} \in SUBSET Pruners
             /\ Left(D)' = records \ (Doomed(D \ {w}) \cup (records \ N))
  <2>1. D \ {w} \in SUBSET Pruners /\ \A v \in D \ {w} : doomed'[v] = doomed[v]
    BY <1>2, <1>3, Zenon
  <2>2. Doomed(D)' = Doomed(D \ {w}) \cup (records \ N)
    BY <1>3, <1>7, <2>1 DEF Doomed
  <2> QED
    BY <1>1, <2>1, <2>2 DEF Left
<1>8. CapInv'
  <2> SUFFICES ASSUME NEW D \in SUBSET Pruners'
               PROVE  Cardinality(Left(D)') <= Cap + faults + Cardinality(Pending \ D)
    BY <1>1, <1>2 DEF CapInv
  <2>1. CASE w \notin D
    BY <1>6, <2>1 DEF CapInv
  <2>2. CASE w \in D
    <3>1. Left(D)' \subseteq N
      BY <1>7, <2>2
    <3>2. Cardinality(Left(D)') <= Cardinality(N) /\ Cardinality(Left(D)') \in Nat
      BY <1>5, <3>1, PartIsSmaller
    <3>3. Cardinality(Pending \ D) \in Nat
      BY LeftIsFinite
    <3> QED
      BY <1>4, <1>5, <3>2, <3>3
  <2> QED
    BY <2>1, <2>2
<1>9. KeptInv'
  <2> SUFFICES ASSUME NEW D \in SUBSET Pruners'
               PROVE  Forgets(written, Kept(D)', Cap)
    BY <1>1 DEF KeptInv
  <2>1. CASE w \notin D
    BY <1>6, <2>1 DEF KeptInv
  <2>2. CASE w \in D
    <3> DEFINE U == Doomed(D \ {w})
               K == (records \ U) \cup deleted
               L == (records \ (U \cup (records \ N))) \cup deleted
    <3>1. Kept(D)' = L
      BY <1>1, <1>7, <2>2 DEF Kept
    <3>2. Kept(D \ {w}) = K
      BY DEF Kept, Left
    <3>3. Forgets(written, K, Cap)
      BY <1>7, <2>2, <3>2 DEF KeptInv
    <3>4. N = NewestOf(records, Cap)
      BY DEF N
    <3> HIDE DEF U
    <3>5. Forgets(written, L, Cap)
      BY <1>4, <3>3, <3>4, PruneKeeps
    <3> QED
      BY <3>1, <3>5
  <2> QED
    BY <2>1, <2>2
<1> QED
  BY <1>8, <1>9

\* What forgets the oldest still does when more is kept.
LEMMA ForgetsGrows ==
    ASSUME NEW W, NEW K, NEW V, NEW L, NEW n \in Nat, IsFiniteSet(L),
           Forgets(W, K, n), K \subseteq L, V \ L \subseteq W \ K
    PROVE  Forgets(V, L, n)
<1> SUFFICES ASSUME NEW x \in V \ L
             PROVE  Cardinality(Younger(L, x)) >= n
  BY DEF Forgets
<1>1. Cardinality(Younger(K, x)) >= n
  BY DEF Forgets
<1>2. Younger(K, x) \subseteq Younger(L, x) /\ Younger(L, x) \subseteq L
  BY DEF Younger
<1>3. IsFiniteSet(Younger(L, x))
  BY <1>2, PartIsSmaller
<1>4. /\ Cardinality(Younger(K, x)) <= Cardinality(Younger(L, x))
      /\ Cardinality(Younger(K, x)) \in Nat /\ Cardinality(Younger(L, x)) \in Nat
  BY <1>2, <1>3, PartIsSmaller
<1> QED
  BY <1>1, <1>4

\* Insert: one more record, and one more write that will prune.
LEMMA InsertKeeps ==
    ASSUME MemoryAssumption, TypeInv, TypeInv', FreshInv, CapInv, KeptInv,
           NEW w \in Writer, Insert(w)
    PROVE  CapInv' /\ KeptInv'
<1> DEFINE a == at[w]
<1>1. /\ pc[w] = "insert" /\ pc' = [pc EXCEPT ![w] = "prune"]
      /\ records' = records \cup {a} /\ written' = written \cup {a}
      /\ UNCHANGED <<clock, at, doomed, faults, deleted>>
  BY DEF Insert
<1>2. /\ Pruners' = Pruners /\ Pending' = Pending \cup {w} /\ w \notin Pending
      /\ Pruners \subseteq Writer /\ w \notin Pruners
  BY <1>1 DEF TypeInv, Pruners, Pending
<1>3. a \notin written
  BY <1>1 DEF FreshInv
<1> HIDE DEF a
<1>4. ASSUME NEW D \in SUBSET Pruners
      PROVE  Left(D)' = Left(D) \cup {a} /\ Kept(D)' = Kept(D) \cup {a} /\ a \notin Left(D)
  <2>1. Doomed(D)' = Doomed(D) /\ Doomed(D) \subseteq written
    BY <1>1, <1>2 DEF Doomed, TypeInv
  <2> QED
    BY <1>1, <1>3, <2>1 DEF Left, Kept, TypeInv
<1>5. CapInv'
  <2> SUFFICES ASSUME NEW D \in SUBSET Pruners
               PROVE  Cardinality(Left(D)') <= Cap + faults + Cardinality(Pending' \ D)
    BY <1>1, <1>2 DEF CapInv
  <2>1. Pending' \ D = (Pending \ D) \cup {w} /\ w \notin Pending \ D
    BY <1>2
  <2>2. /\ IsFiniteSet(Left(D)) /\ Cardinality(Left(D)) \in Nat
        /\ IsFiniteSet(Pending \ D) /\ Cardinality(Pending \ D) \in Nat
    BY LeftIsFinite
  <2>3. Cardinality(Left(D)') = Cardinality(Left(D)) + 1
    BY <1>4, <2>2, FS_AddElement
  <2>4. Cardinality(Pending' \ D) = Cardinality(Pending \ D) + 1
    BY <2>1, <2>2, FS_AddElement
  <2>5. Cardinality(Left(D)) <= Cap + faults + Cardinality(Pending \ D)
    BY DEF CapInv
  <2> QED
    BY <2>2, <2>3, <2>4, <2>5, MemoryAssumption DEF MemoryAssumption, TypeInv
<1>6. KeptInv'
  <2> SUFFICES ASSUME NEW D \in SUBSET Pruners
               PROVE  Forgets(written', Kept(D)', Cap)
    BY <1>2 DEF KeptInv
  <2>1. Forgets(written, Kept(D), Cap)
    BY DEF KeptInv
  <2>2. IsFiniteSet(Kept(D))
    BY LeftIsFinite
  <2>3. IsFiniteSet(Kept(D)')
    BY <1>4, <2>2, FS_AddElement
  <2>4. Kept(D) \subseteq Kept(D)' /\ written' \ Kept(D)' \subseteq written \ Kept(D)
    BY <1>1, <1>4
  <2>5. Cap \in Nat
    BY MemoryAssumption DEF MemoryAssumption
  <2> QED
    BY <2>1, <2>3, <2>4, <2>5, ForgetsGrows
<1> QED
  BY <1>5, <1>6

\* Prune: a DELETE commits, and what it leaves is what was said of it before.
LEMMA PruneStep ==
    ASSUME MemoryAssumption, TypeInv, CapInv, KeptInv, NEW w \in Writer, Prune(w)
    PROVE  CapInv' /\ KeptInv'
<1>1. /\ pc[w] = "delete" /\ pc' = [pc EXCEPT ![w] = "idle"]
      /\ records' = records \ doomed[w]
      /\ doomed' = [doomed EXCEPT ![w] = {}]
      /\ UNCHANGED <<clock, faults, written, deleted>>
  BY DEF Prune, Return
<1>2. /\ Pruners' = Pruners \ {w} /\ Pending' = Pending \ {w} /\ w \in Pruners
      /\ Pruners \subseteq Writer
  BY <1>1 DEF TypeInv, Pruners, Pending
<1>3. ASSUME NEW D \in SUBSET Pruners'
      PROVE  /\ D \cup {w} \in SUBSET Pruners
             /\ Left(D)' = Left(D \cup {w}) /\ Kept(D)' = Kept(D \cup {w})
             /\ Pending' \ D = Pending \ (D \cup {w})
  <2>1. D \in SUBSET Writer /\ \A v \in D : doomed'[v] = doomed[v]
    BY <1>1, <1>2 DEF TypeInv
  <2>2. Doomed(D)' = Doomed(D) /\ Doomed(D \cup {w}) = Doomed(D) \cup doomed[w]
    BY <2>1 DEF Doomed
  <2> QED
    BY <1>1, <1>2, <2>2 DEF Left, Kept
<1>4. CapInv'
  BY <1>1, <1>3 DEF CapInv
<1>5. KeptInv'
  <2> SUFFICES ASSUME NEW D \in SUBSET Pruners'
               PROVE  Forgets(written', Kept(D)', Cap)
    BY DEF KeptInv
  <2>1. D \cup {w} \in SUBSET Pruners /\ Kept(D)' = Kept(D \cup {w}) /\ written' = written
    BY <1>1, <1>3
  <2>2. Forgets(written, Kept(D \cup {w}), Cap)
    BY <2>1 DEF KeptInv
  <2> QED
    BY <2>1, <2>2
<1> QED
  BY <1>4, <1>5

\* PruneFails: one write less will prune, and one fault more is counted.
LEMMA PruneFailsKeeps ==
    ASSUME MemoryAssumption, TypeInv, CapInv, KeptInv, NEW w \in Writer, PruneFails(w)
    PROVE  CapInv' /\ KeptInv'
<1>1. /\ pc[w] \in {"prune", "delete"} /\ pc' = [pc EXCEPT ![w] = "idle"]
      /\ doomed' = [doomed EXCEPT ![w] = {}]
      /\ faults' = faults + 1
      /\ UNCHANGED <<clock, records, written, deleted>>
  BY DEF PruneFails, Return
<1>2. /\ Pruners' = Pruners \ {w} /\ Pending' = Pending \ {w} /\ w \in Pending
      /\ Pruners \subseteq Writer
  BY <1>1 DEF TypeInv, Pruners, Pending
<1>3. ASSUME NEW D \in SUBSET Pruners'
      PROVE  /\ D \in SUBSET Pruners /\ w \notin D
             /\ Left(D)' = Left(D) /\ Kept(D)' = Kept(D)
  <2>1. D \in SUBSET Writer /\ D \in SUBSET Pruners /\ w \notin D
        /\ \A v \in D : doomed'[v] = doomed[v]
    BY <1>1, <1>2 DEF TypeInv
  <2>2. Doomed(D)' = Doomed(D)
    BY <2>1, DoomedStays
  <2> QED
    BY <1>1, <2>1, <2>2 DEF Left, Kept
<1>4. CapInv'
  <2> SUFFICES ASSUME NEW D \in SUBSET Pruners'
               PROVE  Cardinality(Left(D)') <= Cap + faults' + Cardinality(Pending' \ D)
    BY DEF CapInv
  <2>1. Pending' \ D = (Pending \ D) \ {w} /\ w \in Pending \ D
    BY <1>2, <1>3
  <2>2. /\ Cardinality(Left(D)) \in Nat
        /\ IsFiniteSet(Pending \ D) /\ Cardinality(Pending \ D) \in Nat
    BY LeftIsFinite
  <2>3. Cardinality(Pending' \ D) = Cardinality(Pending \ D) - 1
    <3> DEFINE P == Pending \ D
    <3>1. IsFiniteSet(P) /\ w \in P
      BY <2>1, <2>2
    <3> HIDE DEF P
    <3>2. Cardinality(P \ {w}) = Cardinality(P) - 1
      BY <3>1, FS_RemoveElement
    <3> QED
      BY <2>1, <3>2 DEF P
  <2>4. Cardinality(Left(D)) <= Cap + faults + Cardinality(Pending \ D)
    BY <1>3 DEF CapInv
  <2> QED
    BY <1>1, <1>3, <2>2, <2>3, <2>4, MemoryAssumption DEF MemoryAssumption, TypeInv
<1>5. KeptInv'
  BY <1>1, <1>3 DEF KeptInv
<1> QED
  BY <1>4, <1>5

\* DeleteRecord: what the user takes out counts as kept.
LEMMA DeleteKeeps ==
    ASSUME MemoryAssumption, TypeInv, TypeInv', CapInv, KeptInv, NEW x \in records, DeleteRecord(x)
    PROVE  CapInv' /\ KeptInv'
<1>1. /\ records' = records \ {x} /\ deleted' = deleted \cup {x}
      /\ UNCHANGED <<clock, pc, at, doomed, faults, written>>
  BY DEF DeleteRecord
<1>2. Pruners' = Pruners /\ Pending' = Pending
  BY <1>1 DEF Pruners, Pending
<1>3. ASSUME NEW D \in SUBSET Pruners
      PROVE  Left(D)' \subseteq Left(D) /\ Kept(D)' = Kept(D) \cup {x}
  BY <1>1 DEF Left, Kept, Doomed
<1>4. CapInv'
  <2> SUFFICES ASSUME NEW D \in SUBSET Pruners
               PROVE  Cardinality(Left(D)') <= Cap + faults + Cardinality(Pending \ D)
    BY <1>1, <1>2 DEF CapInv
  <2>1. IsFiniteSet(Left(D)) /\ Cardinality(Pending \ D) \in Nat
    BY LeftIsFinite
  <2>2. /\ Cardinality(Left(D)') <= Cardinality(Left(D))
        /\ Cardinality(Left(D)') \in Nat /\ Cardinality(Left(D)) \in Nat
    BY <1>3, <2>1, PartIsSmaller
  <2>3. Cardinality(Left(D)) <= Cap + faults + Cardinality(Pending \ D)
    BY DEF CapInv
  <2> QED
    BY <2>1, <2>2, <2>3, MemoryAssumption DEF MemoryAssumption, TypeInv
<1>5. KeptInv'
  <2> SUFFICES ASSUME NEW D \in SUBSET Pruners
               PROVE  Forgets(written, Kept(D)', Cap)
    BY <1>1, <1>2 DEF KeptInv
  <2>1. Forgets(written, Kept(D), Cap)
    BY DEF KeptInv
  <2>2. IsFiniteSet(Kept(D))
    BY LeftIsFinite
  <2>3. IsFiniteSet(Kept(D)')
    BY <1>3, <2>2, FS_AddElement
  <2>4. Kept(D) \subseteq Kept(D)' /\ written \ Kept(D)' \subseteq written \ Kept(D)
    BY <1>3
  <2>5. Cap \in Nat
    BY MemoryAssumption DEF MemoryAssumption
  <2> QED
    BY <2>1, <2>3, <2>4, <2>5, ForgetsGrows
<1> QED
  BY <1>4, <1>5

\* Other steps change nothing that the invariant speaks of.
LEMMA OtherKeeps ==
    ASSUME TypeInv, CapInv, KeptInv, (\E w \in Writer : BeginWrite(w)) \/ UNCHANGED vars
    PROVE  CapInv' /\ KeptInv'
<1>1. UNCHANGED <<records, doomed, faults, written, deleted>>
  BY DEF BeginWrite, vars
<1>2. Pruners' = Pruners /\ Pending' = Pending
  BY DEF BeginWrite, vars, Pruners, Pending, TypeInv
<1>3. \A D : Left(D)' = Left(D) /\ Kept(D)' = Kept(D)
  BY <1>1 DEF Left, Kept, Doomed
<1>4. CapInv'
  BY <1>1, <1>2, <1>3 DEF CapInv
<1>5. KeptInv'
  BY <1>1, <1>2, <1>3 DEF KeptInv
<1> QED
  BY <1>4, <1>5

-----------------------------------------------------------------------------
(* Theorems *)

Inv == TypeInv /\ FreshInv /\ CapInv /\ KeptInv

\* The inductive invariant holds throughout.
LEMMA MemoryInvariant == Spec => []Inv
<1>1. Init => Inv
  <2> SUFFICES ASSUME Init PROVE Inv
    OBVIOUS
  <2>1. TypeInv /\ FreshInv
    BY DEF Init, TypeInv, FreshInv
  <2>2. Pruners = {} /\ Pending = {}
    BY DEF Init, Pruners, Pending
  <2>3. \A D : Left(D) = {} /\ Cardinality(Left(D)) = 0
    BY FS_EmptySet DEF Init, Left
  <2>4. \A D : Pending \ D = {} /\ Cardinality(Pending \ D) = 0
    BY <2>2, FS_EmptySet
  <2>5. CapInv
    BY <2>3, <2>4, MemoryAssumption DEF Init, CapInv, MemoryAssumption
  <2>6. KeptInv
    BY DEF Init, KeptInv, Forgets
  <2> QED
    BY <2>1, <2>5, <2>6 DEF Inv
<1>2. Inv /\ [Next]_vars => Inv'
  <2> SUFFICES ASSUME Inv, [Next]_vars PROVE Inv'
    OBVIOUS
  <2>1. TypeInv' /\ FreshInv'
    BY TypeStep, MemoryAssumption DEF Inv
  <2>2. CapInv' /\ KeptInv'
    BY <2>1, FindOldKeeps, InsertKeeps, PruneStep, PruneFailsKeeps, DeleteKeeps, OtherKeeps,
       MemoryAssumption DEF Inv, Next
  <2> QED
    BY <2>1, <2>2 DEF Inv
<1> QED
  BY <1>1, <1>2, PTL DEF Spec

\* MemoryStore.Write keeps the cap: beyond it the namespace holds at most one
\* record for each write that has not pruned yet, and for each that failed to.
THEOREM MemoryCapHolds == Spec => []CapHolds
<1>1. Inv => CapHolds
  <2> SUFFICES ASSUME Inv PROVE CapHolds
    OBVIOUS
  <2>1. Left({}) = records /\ Pending \ {} = Pending
    BY DEF Left, Doomed
  <2>2. Cardinality(records) <= Cap + faults + Cardinality(Pending)
    BY <2>1 DEF Inv, CapInv
  <2> QED
    BY <2>2 DEF CapHolds, Pending
<1> QED
  BY <1>1, MemoryInvariant, PTL

\* "It forgets the oldest thing": what was pruned is older than Cap records that
\* were not, whatever the snapshots of overlapping writes held.
THEOREM MemoryForgetsTheOldest == Spec => []ForgetsTheOldest
<1>1. Inv => ForgetsTheOldest
  <2> SUFFICES ASSUME Inv PROVE ForgetsTheOldest
    OBVIOUS
  <2>1. Kept({}) = records \cup deleted
    BY DEF Kept, Left, Doomed
  <2>2. Forgets(written, records \cup deleted, Cap)
    BY <2>1 DEF Inv, KeptInv
  <2> QED
    BY <2>2 DEF ForgetsTheOldest, Forgets, Younger
<1> QED
  BY <1>1, MemoryInvariant, PTL

=============================================================================
