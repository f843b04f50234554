--------------------------- MODULE Membrane_proofs ---------------------------
(***************************************************************************)
(* Theorems about Membrane, for every size of the two tables and of the     *)
(* list pool: a slot is on its free list exactly when it was handed out and *)
(* has no tenant; and, while no join has to compact, the lists of handles   *)
(* and grants are an exact index in both directions, from which follows     *)
(* that a revocation is final.                                              *)
(*                                                                         *)
(* The first invariant (MemOK) says that both tables are sound (TableOK):   *)
(* the free list, the mark of what was handed out and the parity of the     *)
(* versions agree.  Every operation is a transformer of the membrane, and   *)
(* may compact in the middle; so besides keeping MemOK each transformer is  *)
(* shown to reap only what no anchor names (Reaped), which Airlock_proofs   *)
(* builds on.  The second (ListsOK) adds that the tenants' runs fit end to  *)
(* end below the pool's mark (PoolOK), so that a compaction has room, and   *)
(* what the lists read from there say (IndexOK).                            *)
(***************************************************************************)
EXTENDS Membrane, FiniteSetTheorems, SequenceTheorems, WellFoundedInduction, TLAPS

\* A set of numbers that has a member has a least one.
LEMMA LeastNat ==
  ASSUME NEW S \in SUBSET Nat, S # {}
  PROVE  \E n \in S : \A k \in S : n <= k
<1> DEFINE R == OpToRel(<, Nat)
<1>1. IsWellFoundedOn(R, Nat)
  BY NatLessThanWellFounded
<1>2. \A k, n \in Nat : k < n => <<k, n>> \in R
  BY DEF OpToRel
<1> HIDE DEF R
<1>3. PICK n \in S : \A k \in S : <<k, n>> \notin R
  BY <1>1, WFMin
<1>4. \A k \in S : ~(k < n)
  BY <1>2, <1>3
<1>5. n \in Nat /\ \A k \in S : k \in Nat
  OBVIOUS
<1>6. \A k \in S : n <= k
  BY <1>4, <1>5
<1> QED
  BY <1>6

\* The sequence a compaction chains its freed slots from holds each of them once.
LEMMA DescendingSorts ==
  ASSUME NEW capacity \in Nat, NEW S \in SUBSET (0 .. capacity - 1)
  PROVE  /\ Descending(S) \in Seq(S)
         /\ ToSet(Descending(S)) = S
         /\ IsInjective(Descending(S))
<1> DEFINE above(x) == {y \in S : y > x}
           n == Cardinality(S)
           rank == [x \in S |-> Cardinality(above(x)) + 1]
<1>0. \A x \in S : x \in Int
  OBVIOUS
<1>1. IsFiniteSet(S) /\ n \in Nat
  <2>1. IsFiniteSet(0 .. capacity - 1)
    BY FS_Interval
  <2>2. IsFiniteSet(S)
    BY <2>1, FS_Subset
  <2> QED
    BY <2>2, FS_CardinalityType
<1>2. \A x \in S : IsFiniteSet(above(x)) /\ Cardinality(above(x)) \in Nat
  BY <1>1, FS_Subset, FS_CardinalityType
<1>3. \A x \in S : Cardinality(above(x)) < n
  <2> TAKE x \in S
  <2>1. above(x) \in SUBSET S /\ x \notin above(x)
    OBVIOUS
  <2>2. Cardinality(above(x)) <= n /\ (n = Cardinality(above(x)) => S = above(x))
    BY <1>1, <2>1, FS_Subset
  <2> QED
    BY <1>1, <1>2, <2>1, <2>2
<1>4. \A x, y \in S : x < y => Cardinality(above(y)) < Cardinality(above(x))
  <2> TAKE x, y \in S
  <2> HAVE x < y
  <2>1. above(y) \in SUBSET above(x) /\ y \in above(x) /\ y \notin above(y)
    <3>1. x \in Int /\ y \in Int /\ y > x /\ ~(y > y)
      BY <1>0
    <3>2. \A z \in S : z > y => z > x
      BY <1>0, <3>1
    <3> QED
      BY <3>1, <3>2
  <2>2. /\ Cardinality(above(y)) <= Cardinality(above(x))
        /\ Cardinality(above(x)) = Cardinality(above(y)) => above(x) = above(y)
    BY <1>2, <2>1, FS_Subset
  <2> QED
    BY <1>2, <2>1, <2>2
<1>5. rank \in [S -> 1 .. n]
  BY <1>1, <1>2, <1>3
<1>6. \A x, y \in S : x < y => rank[y] < rank[x]
  BY <1>2, <1>4
<1> HIDE DEF rank
<1>7. rank \in Injection(S, 1 .. n)
  <2>1. \A x, y \in S : rank[x] = rank[y] => x = y
    <3> TAKE x, y \in S
    <3>1. x \in Int /\ y \in Int /\ rank[x] \in Int /\ rank[y] \in Int
      BY <1>5
    <3> QED
      BY <1>6, <3>1
  <2> QED
    BY <1>5, <2>1 DEF Injection, IsInjective
<1>8. IsFiniteSet(1 .. n) /\ Cardinality(1 .. n) = n
  BY <1>1, FS_Interval
<1>9. rank \in Surjection(S, 1 .. n)
  BY <1>7, <1>8, FS_Injection
<1> DEFINE list == [i \in 1 .. n |-> CHOOSE x \in S : rank[x] = i]
<1>10. \A i \in 1 .. n : list[i] \in S /\ rank[list[i]] = i
  BY <1>9 DEF Surjection
<1>11. \A i, j \in 1 .. n : i < j => list[i] > list[j]
  <2> TAKE i, j \in 1 .. n
  <2> HAVE i < j
  <2>1. list[i] \in S /\ list[j] \in S /\ rank[list[i]] < rank[list[j]]
    BY <1>10
  <2>2. list[i] \in Int /\ list[j] \in Int /\ rank[list[i]] \in Int /\ rank[list[j]] \in Int
    <3>1. \A x \in S : rank[x] \in Int
      BY <1>1, <1>5
    <3> QED
      BY <1>0, <2>1, <3>1
  <2> QED
    BY <1>6, <2>1, <2>2
<1>12. list \in [1 .. n -> S]
  BY <1>10
<1> HIDE DEF list
<1>13. /\ Descending(S) \in [1 .. n -> S]
       /\ \A i, j \in 1 .. n : i < j => Descending(S)[i] > Descending(S)[j]
  BY <1>11, <1>12 DEF Descending
<1> DEFINE d == Descending(S)
<1> HIDE DEF d
<1>14. IsInjective(d)
  <2>1. \A i, j \in 1 .. n : d[i] = d[j] => i = j
    <3> TAKE i, j \in 1 .. n
    <3>1. d[i] \in Int /\ d[j] \in Int
      BY <1>0, <1>13 DEF d
    <3> QED
      BY <1>1, <1>13, <3>1 DEF d
  <2> QED
    BY <1>13, <2>1 DEF d, IsInjective
<1>15. d \in Injection(1 .. n, S)
  BY <1>13, <1>14 DEF d, Injection
<1>16. d \in Surjection(1 .. n, S)
  BY <1>1, <1>8, <1>15, FS_Injection
<1>17. \A x \in S : \E i \in 1 .. n : d[i] = x
  BY <1>16 DEF Surjection
<1>18. DOMAIN d = 1 .. n /\ d \in Seq(S)
  BY <1>1, <1>13 DEF d
<1>19. ToSet(d) = S
  BY <1>13, <1>17, <1>18 DEF d, ToSet
<1> QED
  BY <1>14, <1>18, <1>19 DEF d

(***************************************************************************)
(* A table: its entries, its free list and how far it was handed out.      *)
(***************************************************************************)
TableOK(entries, free, next, capacity) ==
  /\ next \in 0 .. capacity
  /\ free \in Seq(0 .. capacity - 1)
  /\ FreeListSound(entries, free, next, capacity)
  /\ \A s \in 0 .. capacity - 1 :
       /\ entries[s].ver \in Nat /\ entries[s].live \in BOOLEAN
       /\ entries[s].live <=> entries[s].ver % 2 = 1

\* What another table must agree on to be as sound.
SameTenants(entries, others, slots) ==
  \A s \in slots : others[s].ver = entries[s].ver /\ others[s].live = entries[s].live

\* A table is as sound as one with the same tenants and the same free list,
LEMMA TableSame ==
  ASSUME NEW entries, NEW others, NEW free, NEW next, NEW capacity \in Nat,
         TableOK(entries, free, next, capacity),
         SameTenants(entries, others, 0 .. capacity - 1)
  PROVE  TableOK(others, free, next, capacity)
<1>1. {s \in 0 .. next - 1 : ~others[s].live} = {s \in 0 .. next - 1 : ~entries[s].live}
  BY DEF TableOK, SameTenants
<1>2. \A s \in next .. capacity - 1 : others[s].ver = 0
  <2> TAKE s \in next .. capacity - 1
  <2>1. s \in 0 .. capacity - 1
    BY DEF TableOK
  <2>2. entries[s].ver = 0
    BY DEF TableOK, FreeListSound
  <2> QED
    BY <2>1, <2>2 DEF SameTenants
<1>3. \A s \in 0 .. capacity - 1 :
        /\ others[s].ver \in Nat /\ others[s].live \in BOOLEAN
        /\ others[s].live <=> others[s].ver % 2 = 1
  BY DEF TableOK, SameTenants
<1> QED
  BY <1>1, <1>2, <1>3 DEF TableOK, FreeListSound

\* A slot beyond those handed out has no tenant.
LEMMA TableFresh ==
  ASSUME NEW entries, NEW free, NEW next, NEW capacity \in Nat,
         TableOK(entries, free, next, capacity)
  PROVE  /\ \A s \in 0 .. capacity - 1 : entries[s].live => s < next
         /\ \A i \in 1 .. Len(free) :
              /\ free[i] \in 0 .. next - 1 /\ free[i] \in 0 .. capacity - 1
              /\ ~entries[free[i]].live
<1>1. next \in Nat /\ next <= capacity
  BY DEF TableOK
<1>2. \A s \in 0 .. capacity - 1 : entries[s].live => s < next
  <2> TAKE s \in 0 .. capacity - 1
  <2>1. ~(s < next) => s \in next .. capacity - 1
    BY <1>1
  <2>2. ~(s < next) => entries[s].ver = 0
    BY <2>1 DEF TableOK, FreeListSound
  <2>3. entries[s].live => entries[s].ver % 2 = 1
    BY DEF TableOK
  <2> QED
    BY <2>2, <2>3
<1>3. DOMAIN free = 1 .. Len(free)
  BY DEF TableOK
<1>4. \A i \in 1 .. Len(free) : free[i] \in {s \in 0 .. next - 1 : ~entries[s].live}
  BY <1>3 DEF TableOK, FreeListSound, ToSet
<1> QED
  BY <1>1, <1>2, <1>4

\* giving out the slot at the head of the free list,
LEMMA TableTakesFreed ==
  ASSUME NEW entries, NEW others, NEW free, NEW next, NEW capacity \in Nat,
         TableOK(entries, free, next, capacity), free # <<>>,
         others[Head(free)].ver = entries[Head(free)].ver + 1,
         others[Head(free)].live = TRUE,
         SameTenants(entries, others, (0 .. capacity - 1) \ {Head(free)})
  PROVE  TableOK(others, Tail(free), next, capacity)
<1> DEFINE h == Head(free)
           rest == Tail(free)
<1>1. /\ Len(free) \in Nat /\ Len(free) >= 1 /\ h = free[1]
      /\ DOMAIN free = 1 .. Len(free)
      /\ rest \in Seq(0 .. capacity - 1) /\ Len(rest) = Len(free) - 1
      /\ DOMAIN rest = 1 .. Len(rest)
      /\ \A i \in 1 .. Len(rest) : rest[i] = free[i + 1]
  BY DEF TableOK
<1>2. h \in 0 .. next - 1 /\ h \in 0 .. capacity - 1 /\ ~entries[h].live
  BY <1>1, TableFresh
<1>9. next \in Nat /\ next <= capacity
  BY DEF TableOK
<1>10. others[h].ver = entries[h].ver + 1 /\ others[h].live = TRUE
  OBVIOUS
<1>11. \A s \in 0 .. capacity - 1 : s # h =>
         others[s].ver = entries[s].ver /\ others[s].live = entries[s].live
  BY DEF SameTenants
<1> HIDE DEF h, rest
<1>3. \A i, j \in 1 .. Len(free) : free[i] = free[j] => i = j
  BY <1>1 DEF TableOK, FreeListSound, IsInjective
<1>4. IsInjective(rest)
  <2>1. \A i, j \in 1 .. Len(rest) : rest[i] = rest[j] => i = j
    BY <1>1, <1>3
  <2> QED
    BY <1>1, <2>1 DEF IsInjective
<1>5. ToSet(rest) = ToSet(free) \ {h}
  <2>1. \A i \in 1 .. Len(rest) : rest[i] \in ToSet(free) /\ rest[i] # h
    <3> TAKE i \in 1 .. Len(rest)
    <3>1. i + 1 \in 1 .. Len(free) /\ 1 \in 1 .. Len(free) /\ i + 1 # 1
      BY <1>1
    <3>2. rest[i] = free[i + 1] /\ free[i + 1] # free[1]
      BY <1>1, <1>3, <3>1
    <3> QED
      BY <1>1, <3>1, <3>2 DEF ToSet
  <2>2. \A i \in 1 .. Len(free) : free[i] # h => i - 1 \in 1 .. Len(rest) /\ rest[i - 1] = free[i]
    BY <1>1
  <2>3. \A x : x \in ToSet(rest) <=> \E i \in 1 .. Len(rest) : rest[i] = x
    BY <1>1 DEF ToSet
  <2>4. \A x : x \in ToSet(free) <=> \E i \in 1 .. Len(free) : free[i] = x
    BY <1>1 DEF ToSet
  <2>5. \A x : x \in ToSet(rest) <=> x \in ToSet(free) /\ x # h
    BY <2>1, <2>2, <2>3, <2>4
  <2> QED
    BY <2>5
<1>6. ToSet(rest) = {s \in 0 .. next - 1 : ~others[s].live}
  <2>1. ToSet(free) = {s \in 0 .. next - 1 : ~entries[s].live}
    BY DEF TableOK, FreeListSound
  <2>2. \A s \in 0 .. next - 1 : ~others[s].live <=> ~entries[s].live /\ s # h
    <3> TAKE s \in 0 .. next - 1
    <3>1. s \in 0 .. capacity - 1
      BY <1>9
    <3>2. CASE s = h
      BY <1>10, <3>2
    <3>3. CASE s # h
      BY <1>11, <3>1, <3>3
    <3> QED
      BY <3>2, <3>3
  <2> QED
    BY <1>5, <2>1, <2>2
<1>7. \A s \in next .. capacity - 1 : others[s].ver = 0
  <2> TAKE s \in next .. capacity - 1
  <2>1. s \in 0 .. capacity - 1 /\ s # h
    BY <1>2, <1>9
  <2>2. entries[s].ver = 0
    BY DEF TableOK, FreeListSound
  <2> QED
    BY <1>11, <2>1, <2>2
<1>8. \A s \in 0 .. capacity - 1 :
        /\ others[s].ver \in Nat /\ others[s].live \in BOOLEAN
        /\ others[s].live <=> others[s].ver % 2 = 1
  <2> TAKE s \in 0 .. capacity - 1
  <2>1. CASE s = h
    <3>1. entries[h].ver \in Nat /\ entries[h].ver % 2 # 1
      BY <1>2 DEF TableOK
    <3>2. (entries[h].ver + 1) % 2 = 1
      BY <3>1
    <3> QED
      <4>1. others[s].ver = entries[h].ver + 1 /\ others[s].live = TRUE
        BY <1>10, <2>1
      <4>2. others[s].ver \in Nat /\ others[s].ver % 2 = 1
        BY <3>1, <3>2, <4>1
      <4> QED
        BY <4>1, <4>2
  <2>2. CASE s # h
    BY <1>11, <2>2 DEF TableOK
  <2> QED
    BY <2>1, <2>2
<1> QED
  BY <1>1, <1>4, <1>6, <1>7, <1>8 DEF TableOK, FreeListSound, rest

\* and giving out the first slot not handed out yet, keep it sound.
LEMMA TableTakesNext ==
  ASSUME NEW entries, NEW others, NEW free, NEW next, NEW capacity \in Nat,
         TableOK(entries, free, next, capacity), next < capacity,
         others[next].ver = entries[next].ver + 1, others[next].live = TRUE,
         SameTenants(entries, others, (0 .. capacity - 1) \ {next})
  PROVE  TableOK(others, free, next + 1, capacity)
<1>1. next \in Nat /\ next + 1 \in 0 .. capacity /\ next \in 0 .. capacity - 1
  BY DEF TableOK
<1>2. entries[next].ver = 0
  BY <1>1 DEF TableOK, FreeListSound
<1>3. ToSet(free) = {s \in 0 .. next : ~others[s].live}
  <2>1. \A s \in 0 .. next - 1 : others[s].live = entries[s].live
    BY <1>1 DEF SameTenants
  <2> QED
    BY <1>1, <2>1 DEF TableOK, FreeListSound
<1>4. \A s \in next + 1 .. capacity - 1 : others[s].ver = 0
  BY <1>1 DEF TableOK, FreeListSound, SameTenants
<1>5. \A s \in 0 .. capacity - 1 :
        /\ others[s].ver \in Nat /\ others[s].live \in BOOLEAN
        /\ others[s].live <=> others[s].ver % 2 = 1
  <2> TAKE s \in 0 .. capacity - 1
  <2>1. CASE s = next
    <3>1. 0 + 1 = 1 /\ 1 % 2 = 1
      OBVIOUS
    <3>2. others[s].ver = 1 /\ others[s].live = TRUE
      BY <1>2, <2>1, <3>1
    <3>3. others[s].ver \in Nat /\ others[s].ver % 2 = 1
      BY <3>1, <3>2
    <3> QED
      BY <3>2, <3>3
  <2>2. CASE s # next
    BY <2>2 DEF TableOK, SameTenants
  <2> QED
    BY <2>1, <2>2
<1>6. (next + 1) - 1 = next
  BY <1>1
<1> QED
  BY <1>1, <1>3, <1>4, <1>5, <1>6 DEF TableOK, FreeListSound

\* A compaction frees some of the slots with a tenant.
LEMMA TableFrees ==
  ASSUME NEW entries, NEW others, NEW free, NEW next, NEW capacity \in Nat,
         TableOK(entries, free, next, capacity),
         NEW freed \in SUBSET {s \in 0 .. capacity - 1 : entries[s].live},
         \A s \in freed : others[s].ver = entries[s].ver + 1 /\ others[s].live = FALSE,
         SameTenants(entries, others, (0 .. capacity - 1) \ freed)
  PROVE  TableOK(others, Descending(freed) \o free, next, capacity)
<1> DEFINE back == Descending(freed)
           list == back \o free
<1>1. back \in Seq(freed) /\ ToSet(back) = freed /\ IsInjective(back)
  BY DescendingSorts
<1> HIDE DEF back
<1>2. back \in Seq(0 .. capacity - 1)
  <2>1. \A i \in 1 .. Len(back) : back[i] \in freed
    BY <1>1
  <2>2. \A i \in 1 .. Len(back) : back[i] \in 0 .. capacity - 1
    BY <2>1
  <2>3. Len(back) \in Nat /\ back = [i \in 1 .. Len(back) |-> back[i]]
    BY <1>1
  <2>4. [i \in 1 .. Len(back) |-> back[i]] \in Seq(0 .. capacity - 1)
    BY <2>2, <2>3
  <2> QED
    BY <2>3, <2>4
<1>3. free \in Seq(0 .. capacity - 1) /\ next \in Nat /\ next <= capacity
  BY DEF TableOK
<1>4. /\ Len(back) \in Nat /\ Len(free) \in Nat
      /\ list \in Seq(0 .. capacity - 1) /\ Len(list) = Len(back) + Len(free)
      /\ DOMAIN back = 1 .. Len(back) /\ DOMAIN free = 1 .. Len(free)
      /\ DOMAIN list = 1 .. Len(back) + Len(free)
  BY <1>2, <1>3
<1>5. \A i \in 1 .. Len(back) + Len(free) :
        list[i] = IF i <= Len(back) THEN back[i] ELSE free[i - Len(back)]
  BY <1>2, <1>3
<1> HIDE DEF list
<1>6. \A i \in 1 .. Len(back) : back[i] \in freed
  BY <1>1, <1>4 DEF ToSet
<1>7. \A i \in 1 .. Len(free) : free[i] \notin freed
  BY TableFresh
<1>8. IsInjective(list)
  <2>1. \A i, j \in 1 .. Len(back) : back[i] = back[j] => i = j
    BY <1>1, <1>4 DEF IsInjective
  <2>2. \A i, j \in 1 .. Len(free) : free[i] = free[j] => i = j
    BY <1>4 DEF IsInjective, TableOK, FreeListSound
  <2>3. \A i, j \in 1 .. Len(back) + Len(free) : list[i] = list[j] => i = j
    <3> SUFFICES ASSUME NEW i \in 1 .. Len(back) + Len(free),
                        NEW j \in 1 .. Len(back) + Len(free), list[i] = list[j]
                 PROVE  i = j
      OBVIOUS
    <3>1. CASE i <= Len(back) /\ j <= Len(back)
      <4>1. i \in 1 .. Len(back) /\ j \in 1 .. Len(back)
        BY <1>4, <3>1
      <4> QED
        BY <1>5, <2>1, <3>1, <4>1
    <3>2. CASE i <= Len(back) /\ ~(j <= Len(back))
      <4>1. i \in 1 .. Len(back) /\ j - Len(back) \in 1 .. Len(free)
        BY <1>4, <3>2
      <4> QED
        BY <1>5, <1>6, <1>7, <3>2, <4>1
    <3>3. CASE ~(i <= Len(back)) /\ j <= Len(back)
      <4>1. j \in 1 .. Len(back) /\ i - Len(back) \in 1 .. Len(free)
        BY <1>4, <3>3
      <4> QED
        BY <1>5, <1>6, <1>7, <3>3, <4>1
    <3>4. CASE ~(i <= Len(back)) /\ ~(j <= Len(back))
      <4>1. i - Len(back) \in 1 .. Len(free) /\ j - Len(back) \in 1 .. Len(free)
        BY <1>4, <3>4
      <4>2. i - Len(back) = j - Len(back)
        BY <1>5, <2>2, <3>4, <4>1
      <4> QED
        BY <1>4, <4>2
    <3> QED
      BY <3>1, <3>2, <3>3, <3>4
  <2> QED
    BY <1>4, <2>3 DEF IsInjective
<1>9. ToSet(list) = freed \cup ToSet(free)
  <2>1. \A i \in 1 .. Len(back) + Len(free) : list[i] \in freed \cup ToSet(free)
    <3> TAKE i \in 1 .. Len(back) + Len(free)
    <3>1. CASE i <= Len(back)
      BY <1>4, <1>5, <1>6, <3>1
    <3>2. CASE ~(i <= Len(back))
      <4>1. i - Len(back) \in 1 .. Len(free)
        BY <1>4, <3>2
      <4> QED
        BY <1>4, <1>5, <3>2, <4>1 DEF ToSet
    <3> QED
      BY <3>1, <3>2
  <2>2. \A s \in freed : \E i \in 1 .. Len(back) + Len(free) : list[i] = s
    <3> TAKE s \in freed
    <3>1. PICK i \in 1 .. Len(back) : back[i] = s
      BY <1>1, <1>4 DEF ToSet
    <3>2. i \in 1 .. Len(back) + Len(free) /\ i <= Len(back)
      BY <1>4
    <3> QED
      BY <1>5, <3>1, <3>2
  <2>3. \A s \in ToSet(free) : \E i \in 1 .. Len(back) + Len(free) : list[i] = s
    <3> TAKE s \in ToSet(free)
    <3>1. PICK i \in 1 .. Len(free) : free[i] = s
      BY <1>4 DEF ToSet
    <3>2. /\ i + Len(back) \in 1 .. Len(back) + Len(free)
          /\ ~(i + Len(back) <= Len(back)) /\ i + Len(back) - Len(back) = i
      BY <1>4
    <3> QED
      BY <1>5, <3>1, <3>2
  <2>4. \A x : x \in ToSet(list) <=> \E i \in 1 .. Len(back) + Len(free) : list[i] = x
    BY <1>4 DEF ToSet
  <2> QED
    <3>1. \A x : x \in ToSet(list) <=> x \in freed \/ x \in ToSet(free)
      <4> TAKE x
      <4>1. x \in ToSet(list) => x \in freed \/ x \in ToSet(free)
        BY <2>1, <2>4
      <4>2. x \in freed => x \in ToSet(list)
        BY <2>2, <2>4
      <4>3. x \in ToSet(free) => x \in ToSet(list)
        BY <2>3, <2>4
      <4> QED
        BY <4>1, <4>2, <4>3
    <3> QED
      BY <3>1
<1>10. ToSet(list) = {s \in 0 .. next - 1 : ~others[s].live}
  <2>1. ToSet(free) = {s \in 0 .. next - 1 : ~entries[s].live}
    BY DEF TableOK, FreeListSound
  <2>2. freed \subseteq 0 .. next - 1
    BY <1>3, TableFresh
  <2>3. \A s \in 0 .. next - 1 : others[s].live = IF s \in freed THEN FALSE ELSE entries[s].live
    <3> TAKE s \in 0 .. next - 1
    <3>1. s \in 0 .. capacity - 1
      BY <1>3
    <3>2. s \notin freed => others[s].live = entries[s].live
      BY <3>1 DEF SameTenants
    <3> QED
      BY <3>2
  <2> QED
    BY <1>9, <2>1, <2>2, <2>3
<1>11. \A s \in next .. capacity - 1 : others[s].ver = 0
  <2> TAKE s \in next .. capacity - 1
  <2>1. s \in 0 .. capacity - 1 /\ ~(s < next)
    BY <1>3
  <2>2. ~entries[s].live
    BY <2>1, TableFresh
  <2> QED
    BY <2>1, <2>2 DEF TableOK, FreeListSound, SameTenants
<1>12. \A s \in 0 .. capacity - 1 :
        /\ others[s].ver \in Nat /\ others[s].live \in BOOLEAN
        /\ others[s].live <=> others[s].ver % 2 = 1
  <2> TAKE s \in 0 .. capacity - 1
  <2>1. CASE s \in freed
    <3>1. entries[s].ver \in Nat /\ entries[s].ver % 2 = 1
      BY <2>1 DEF TableOK
    <3>2. (entries[s].ver + 1) % 2 # 1
      BY <3>1
    <3>3. others[s].ver = entries[s].ver + 1 /\ others[s].live = FALSE
      BY <2>1
    <3>4. others[s].ver \in Nat /\ others[s].ver % 2 # 1
      BY <3>1, <3>2, <3>3
    <3> QED
      BY <3>3, <3>4
  <2>2. CASE s \notin freed
    BY <2>2 DEF TableOK, SameTenants
  <2> QED
    BY <2>1, <2>2
<1> QED
  BY <1>3, <1>4, <1>8, <1>10, <1>11, <1>12 DEF TableOK, FreeListSound, list, back

(***************************************************************************)
(* The buffer: what its fields are, and that both tables are sound.        *)
(***************************************************************************)
MemFields == {"handles", "grants", "handleFree", "grantFree", "nextHandle",
              "nextGrant", "pool", "poolUsed", "rootGrants", "dispatch", "joined"}

MemShape(m) ==
  /\ DOMAIN m = MemFields
  /\ DOMAIN m.handles = HandleSlots
  /\ \A s \in HandleSlots : DOMAIN m.handles[s] = {"ver", "live", "off", "cnt"}
  /\ DOMAIN m.grants = GrantSlots
  /\ \A g \in GrantSlots :
       DOMAIN m.grants[g] = {"ver", "live", "off", "cnt", "revoked", "root"}
  /\ DOMAIN m.dispatch = Maps
  /\ \A map \in Maps : DOMAIN m.dispatch[map] = HandleSlots
  /\ m.rootGrants \subseteq GrantSlots

MemOK(m) ==
  /\ MemShape(m)
  /\ TableOK(m.handles, m.handleFree, m.nextHandle, HandleCapacity)
  /\ TableOK(m.grants, m.grantFree, m.nextGrant, GrantCapacity)

\* Nothing but the runs and the revoked flags differ.
SameMembrane(m, x) ==
  /\ SameTenants(m.handles, x.handles, HandleSlots)
  /\ SameTenants(m.grants, x.grants, GrantSlots)
  /\ \A g \in GrantSlots : x.grants[g].root = m.grants[g].root
  /\ x.handleFree = m.handleFree /\ x.nextHandle = m.nextHandle
  /\ x.grantFree = m.grantFree /\ x.nextGrant = m.nextGrant
  /\ x.rootGrants = m.rootGrants /\ x.dispatch = m.dispatch

\* What leaves the tenants and the free lists alone leaves a membrane sound.
LEMMA SameMembraneOK ==
  ASSUME NEW m, NEW x, MemOK(m), MemShape(x), SameMembrane(m, x)
  PROVE  MemOK(x)
<1>1. TableOK(x.handles, x.handleFree, x.nextHandle, HandleCapacity)
  BY TableSame, MembraneAssumption DEF MemOK, SameMembrane, HandleSlots
<1>2. TableOK(x.grants, x.grantFree, x.nextGrant, GrantCapacity)
  BY TableSame, MembraneAssumption DEF MemOK, SameMembrane, GrantSlots
<1> QED
  BY <1>1, <1>2 DEF MemOK

\* What a compaction does to the tenants, the root grants and the maps.
TenantsCompacted(m, x, liveHandles, liveGrants) ==
  /\ \A s \in HandleSlots :
       IF m.handles[s].live /\ s \notin liveHandles
       THEN x.handles[s].ver = m.handles[s].ver + 1 /\ x.handles[s].live = FALSE
       ELSE x.handles[s].ver = m.handles[s].ver /\ x.handles[s].live = m.handles[s].live
  /\ \A g \in GrantSlots :
       IF m.grants[g].live /\ g \notin liveGrants
       THEN x.grants[g].ver = m.grants[g].ver + 1 /\ x.grants[g].live = FALSE
       ELSE /\ x.grants[g].ver = m.grants[g].ver /\ x.grants[g].live = m.grants[g].live
            /\ x.grants[g].root = m.grants[g].root
  /\ x.handleFree = Descending(LiveHandles(m) \ liveHandles) \o m.handleFree
  /\ x.grantFree = Descending(LiveGrants(m) \ liveGrants) \o m.grantFree
  /\ x.nextHandle = m.nextHandle /\ x.nextGrant = m.nextGrant
  /\ x.rootGrants = m.rootGrants \ (LiveGrants(m) \ liveGrants)
  /\ \A map \in Maps, s \in HandleSlots :
       x.dispatch[map][s] =
         IF map \in PrunedMaps /\ m.handles[s].live /\ s \notin liveHandles THEN 0
         ELSE m.dispatch[map][s]

\* What a compaction does to each slot: it frees the dead ones and no other.
LEMMA CompactedTenants ==
  ASSUME NEW m, MemShape(m), NEW liveHandles, NEW liveGrants
  PROVE  /\ MemShape(Compacted(m, liveHandles, liveGrants))
         /\ TenantsCompacted(m, Compacted(m, liveHandles, liveGrants), liveHandles, liveGrants)
<1> DEFINE x == Compacted(m, liveHandles, liveGrants)
<1>1. /\ DOMAIN x = MemFields
      /\ DOMAIN x.handles = HandleSlots
      /\ DOMAIN x.grants = GrantSlots
      /\ x.handleFree = Descending(LiveHandles(m) \ liveHandles) \o m.handleFree
      /\ x.grantFree = Descending(LiveGrants(m) \ liveGrants) \o m.grantFree
      /\ x.nextHandle = m.nextHandle /\ x.nextGrant = m.nextGrant
      /\ x.rootGrants = m.rootGrants \ (LiveGrants(m) \ liveGrants)
      /\ x.dispatch = [map \in Maps |-> [s \in HandleSlots |->
           IF map \in PrunedMaps /\ s \in LiveHandles(m) \ liveHandles THEN 0
           ELSE m.dispatch[map][s]]]
  BY DEF MemShape, MemFields, Compacted
<1>2. \A s \in HandleSlots : s \in LiveHandles(m) \cap liveHandles =>
        \E o, c : x.handles[s] = [m.handles[s] EXCEPT !.off = o, !.cnt = c]
  BY DEF MemShape, MemFields, Compacted
<1>3. \A s \in HandleSlots : s \notin LiveHandles(m) \cap liveHandles =>
        x.handles[s] = IF s \in LiveHandles(m) \ liveHandles THEN FreedEntry(m.handles[s])
                       ELSE m.handles[s]
  BY DEF MemShape, MemFields, Compacted
<1>4. \A g \in GrantSlots : g \in LiveGrants(m) \cap liveGrants =>
        \E o, c : x.grants[g] = [m.grants[g] EXCEPT !.off = o, !.cnt = c]
  BY DEF MemShape, MemFields, Compacted
<1>5. \A g \in GrantSlots : g \notin LiveGrants(m) \cap liveGrants =>
        x.grants[g] = IF g \in LiveGrants(m) \ liveGrants
                      THEN [EmptyGrant EXCEPT !.ver = FreedEntry(m.grants[g]).ver]
                      ELSE m.grants[g]
  BY DEF MemShape, MemFields, Compacted
<1> HIDE DEF x
<1>6. \A s \in HandleSlots : s \in LiveHandles(m) <=> m.handles[s].live
  BY DEF LiveHandles
<1>7. \A g \in GrantSlots : g \in LiveGrants(m) <=> m.grants[g].live
  BY DEF LiveGrants
<1>8. \A s \in HandleSlots :
        /\ DOMAIN x.handles[s] = {"ver", "live", "off", "cnt"}
        /\ IF m.handles[s].live /\ s \notin liveHandles
           THEN x.handles[s].ver = m.handles[s].ver + 1 /\ x.handles[s].live = FALSE
           ELSE x.handles[s].ver = m.handles[s].ver /\ x.handles[s].live = m.handles[s].live
  <2> TAKE s \in HandleSlots
  <2>1. CASE s \in LiveHandles(m) \cap liveHandles
    <3>1. PICK o, c : x.handles[s] = [m.handles[s] EXCEPT !.off = o, !.cnt = c]
      BY <1>2, <2>1
    <3> QED
      BY <1>6, <2>1, <3>1 DEF MemShape
  <2>2. CASE s \in LiveHandles(m) \ liveHandles
    <3>1. x.handles[s] = FreedEntry(m.handles[s])
      BY <1>3, <2>2
    <3> QED
      BY <1>6, <2>2, <3>1 DEF FreedEntry, EmptyEntry
  <2>3. CASE s \notin LiveHandles(m)
    <3>1. x.handles[s] = m.handles[s]
      BY <1>3, <2>3
    <3> QED
      BY <1>6, <2>3, <3>1 DEF MemShape
  <2> QED
    BY <2>1, <2>2, <2>3
<1>9. \A g \in GrantSlots :
        /\ DOMAIN x.grants[g] = {"ver", "live", "off", "cnt", "revoked", "root"}
        /\ IF m.grants[g].live /\ g \notin liveGrants
           THEN x.grants[g].ver = m.grants[g].ver + 1 /\ x.grants[g].live = FALSE
           ELSE /\ x.grants[g].ver = m.grants[g].ver /\ x.grants[g].live = m.grants[g].live
                /\ x.grants[g].root = m.grants[g].root
  <2> TAKE g \in GrantSlots
  <2>1. CASE g \in LiveGrants(m) \cap liveGrants
    <3>1. PICK o, c : x.grants[g] = [m.grants[g] EXCEPT !.off = o, !.cnt = c]
      BY <1>4, <2>1
    <3> QED
      BY <1>7, <2>1, <3>1 DEF MemShape
  <2>2. CASE g \in LiveGrants(m) \ liveGrants
    <3>1. x.grants[g] = [EmptyGrant EXCEPT !.ver = FreedEntry(m.grants[g]).ver]
      BY <1>5, <2>2
    <3>2. FreedEntry(m.grants[g]).ver = m.grants[g].ver + 1
      BY DEF FreedEntry, EmptyEntry
    <3> QED
      BY <1>7, <2>2, <3>1, <3>2 DEF EmptyGrant
  <2>3. CASE g \notin LiveGrants(m)
    <3>1. x.grants[g] = m.grants[g]
      BY <1>5, <2>3
    <3> QED
      BY <1>7, <2>3, <3>1 DEF MemShape
  <2> QED
    BY <2>1, <2>2, <2>3
<1>10. /\ DOMAIN x.dispatch = Maps
       /\ \A map \in Maps : DOMAIN x.dispatch[map] = HandleSlots
       /\ \A map \in Maps, s \in HandleSlots :
            x.dispatch[map][s] =
              IF map \in PrunedMaps /\ m.handles[s].live /\ s \notin liveHandles THEN 0
              ELSE m.dispatch[map][s]
  BY <1>1, <1>6
<1>11. MemShape(x)
  BY <1>1, <1>8, <1>9, <1>10 DEF MemShape
<1>12. TenantsCompacted(m, x, liveHandles, liveGrants)
  BY <1>1, <1>8, <1>9, <1>10 DEF TenantsCompacted
<1> QED
  BY <1>11, <1>12 DEF x

\* A compaction, whatever it is told to keep, leaves a sound membrane sound,
LEMMA CompactedOK ==
  ASSUME NEW m, MemOK(m), NEW liveHandles, NEW liveGrants
  PROVE  MemOK(Compacted(m, liveHandles, liveGrants))
<1> DEFINE x == Compacted(m, liveHandles, liveGrants)
           freedHandles == LiveHandles(m) \ liveHandles
           freedGrants == LiveGrants(m) \ liveGrants
<1>1. MemShape(x) /\ TenantsCompacted(m, x, liveHandles, liveGrants)
  BY CompactedTenants DEF MemOK
<1> HIDE DEF x
<1>2. TableOK(x.handles, x.handleFree, x.nextHandle, HandleCapacity)
  <2>1. freedHandles \in SUBSET {s \in 0 .. HandleCapacity - 1 : m.handles[s].live}
    BY DEF LiveHandles, HandleSlots
  <2>2. \A s \in freedHandles :
          x.handles[s].ver = m.handles[s].ver + 1 /\ x.handles[s].live = FALSE
    BY <1>1 DEF TenantsCompacted, LiveHandles
  <2>3. SameTenants(m.handles, x.handles, (0 .. HandleCapacity - 1) \ freedHandles)
    BY <1>1 DEF TenantsCompacted, LiveHandles, SameTenants, HandleSlots
  <2>4. TableOK(m.handles, m.handleFree, m.nextHandle, HandleCapacity)
    BY DEF MemOK
  <2>5. TableOK(x.handles, Descending(freedHandles) \o m.handleFree, m.nextHandle,
                HandleCapacity)
    BY <2>1, <2>2, <2>3, <2>4, TableFrees, MembraneAssumption
  <2> QED
    BY <1>1, <2>5 DEF TenantsCompacted
<1>3. TableOK(x.grants, x.grantFree, x.nextGrant, GrantCapacity)
  <2>1. freedGrants \in SUBSET {g \in 0 .. GrantCapacity - 1 : m.grants[g].live}
    BY DEF LiveGrants, GrantSlots
  <2>2. \A g \in freedGrants :
          x.grants[g].ver = m.grants[g].ver + 1 /\ x.grants[g].live = FALSE
    BY <1>1 DEF TenantsCompacted, LiveGrants
  <2>3. SameTenants(m.grants, x.grants, (0 .. GrantCapacity - 1) \ freedGrants)
    BY <1>1 DEF TenantsCompacted, LiveGrants, SameTenants, GrantSlots
  <2>4. TableOK(m.grants, m.grantFree, m.nextGrant, GrantCapacity)
    BY DEF MemOK
  <2>5. TableOK(x.grants, Descending(freedGrants) \o m.grantFree, m.nextGrant,
                GrantCapacity)
    BY <2>1, <2>2, <2>3, <2>4, TableFrees, MembraneAssumption
  <2> QED
    BY <1>1, <2>5 DEF TenantsCompacted
<1> QED
  BY <1>1, <1>2, <1>3 DEF MemOK, x

\* with the list pool packed or not.
LEMMA CompactedForOK ==
  ASSUME NEW m, MemOK(m), NEW anchors
  PROVE  MemOK(CompactedFor(m, anchors))
BY CompactedOK DEF CompactedFor

\* The pool's garbage is nobody's business.
LEMMA SettledOK ==
  ASSUME NEW m, MemOK(m)
  PROVE  MemOK(Settled(m)) /\ SameMembrane(m, Settled(m))
<1>1. \A f \in MemFields \ {"pool"} : Settled(m)[f] = m[f]
  BY DEF Settled, MemOK, MemShape, MemFields
<1>2. DOMAIN Settled(m) = MemFields
  BY DEF Settled, MemOK, MemShape, MemFields
<1>3. /\ Settled(m).handles = m.handles /\ Settled(m).grants = m.grants
      /\ Settled(m).handleFree = m.handleFree /\ Settled(m).grantFree = m.grantFree
      /\ Settled(m).nextHandle = m.nextHandle /\ Settled(m).nextGrant = m.nextGrant
      /\ Settled(m).rootGrants = m.rootGrants /\ Settled(m).dispatch = m.dispatch
  BY DEF Settled, MemOK, MemShape, MemFields
<1>4. MemShape(Settled(m))
  BY <1>2, <1>3 DEF MemOK, MemShape
<1>5. SameMembrane(m, Settled(m))
  BY <1>3 DEF SameMembrane, SameTenants
<1> QED
  BY <1>4, <1>5, SameMembraneOK


\* An append moves a run: the tenants stay.
LEMMA RunMovedOK ==
  ASSUME NEW m, MemOK(m), NEW o, NEW c, NEW u, NEW p, NEW table \in {"handles", "grants"},
         NEW s \in IF table = "handles" THEN HandleSlots ELSE GrantSlots, NEW x,
         x = [m EXCEPT ![table][s].off = o, ![table][s].cnt = c, !.poolUsed = u, !.pool = p]
  PROVE  MemOK(x) /\ SameMembrane(m, x)
<1>1. MemShape(m)
  BY DEF MemOK
<1>2. CASE table = "handles"
  <2>1. /\ DOMAIN x = MemFields /\ x.grants = m.grants
        /\ x.handles = [m.handles EXCEPT ![s] = [m.handles[s] EXCEPT !.off = o, !.cnt = c]]
        /\ x.handleFree = m.handleFree /\ x.grantFree = m.grantFree
        /\ x.nextHandle = m.nextHandle /\ x.nextGrant = m.nextGrant
        /\ x.rootGrants = m.rootGrants /\ x.dispatch = m.dispatch
    BY <1>1, <1>2 DEF MemShape, MemFields
  <2>2. /\ DOMAIN x.handles = HandleSlots
        /\ \A i \in HandleSlots :
             /\ DOMAIN x.handles[i] = {"ver", "live", "off", "cnt"}
             /\ x.handles[i].ver = m.handles[i].ver /\ x.handles[i].live = m.handles[i].live
    <3>0. s \in HandleSlots /\ DOMAIN m.handles[s] = {"ver", "live", "off", "cnt"}
      BY <1>1, <1>2 DEF MemShape
    <3>1. \A i \in HandleSlots : i # s => x.handles[i] = m.handles[i]
      BY <1>1, <2>1 DEF MemShape
    <3>2. x.handles[s] = [m.handles[s] EXCEPT !.off = o, !.cnt = c]
      <4> DEFINE e == [m.handles[s] EXCEPT !.off = o, !.cnt = c]
      <4>1. DOMAIN m.handles = HandleSlots /\ x.handles = [m.handles EXCEPT ![s] = e]
        BY <1>1, <2>1 DEF MemShape
      <4> HIDE DEF e
      <4>2. x.handles[s] = e
        BY <3>0, <4>1
      <4> QED
        BY <4>2 DEF e
    <3>3. DOMAIN x.handles = HandleSlots
      BY <1>1, <2>1 DEF MemShape
    <3> SUFFICES ASSUME NEW i \in HandleSlots
                 PROVE  /\ DOMAIN x.handles[i] = DOMAIN m.handles[i]
                        /\ x.handles[i].ver = m.handles[i].ver /\ x.handles[i].live = m.handles[i].live
      BY <1>1, <3>3 DEF MemShape
    <3>4. CASE i = s
      BY <3>0, <3>2, <3>4
    <3>5. CASE i # s
      BY <3>1, <3>5
    <3> QED
      BY <3>4, <3>5
  <2>3. MemShape(x)
    BY <1>1, <2>1, <2>2 DEF MemShape
  <2>4. SameMembrane(m, x)
    BY <2>1, <2>2 DEF SameMembrane, SameTenants
  <2> QED
    BY <2>3, <2>4, SameMembraneOK
<1>3. CASE table = "grants"
  <2>1. /\ DOMAIN x = MemFields /\ x.handles = m.handles
        /\ x.grants = [m.grants EXCEPT ![s] = [m.grants[s] EXCEPT !.off = o, !.cnt = c]]
        /\ x.handleFree = m.handleFree /\ x.grantFree = m.grantFree
        /\ x.nextHandle = m.nextHandle /\ x.nextGrant = m.nextGrant
        /\ x.rootGrants = m.rootGrants /\ x.dispatch = m.dispatch
    BY <1>1, <1>3 DEF MemShape, MemFields
  <2>2. /\ DOMAIN x.grants = GrantSlots
        /\ \A i \in GrantSlots :
             /\ DOMAIN x.grants[i] = {"ver", "live", "off", "cnt", "revoked", "root"}
             /\ x.grants[i].ver = m.grants[i].ver /\ x.grants[i].live = m.grants[i].live
             /\ x.grants[i].root = m.grants[i].root
    <3>0. s \in GrantSlots /\ DOMAIN m.grants[s] = {"ver", "live", "off", "cnt", "revoked", "root"}
      BY <1>1, <1>3 DEF MemShape
    <3>1. \A i \in GrantSlots : i # s => x.grants[i] = m.grants[i]
      BY <1>1, <2>1 DEF MemShape
    <3>2. x.grants[s] = [m.grants[s] EXCEPT !.off = o, !.cnt = c]
      <4> DEFINE e == [m.grants[s] EXCEPT !.off = o, !.cnt = c]
      <4>1. DOMAIN m.grants = GrantSlots /\ x.grants = [m.grants EXCEPT ![s] = e]
        BY <1>1, <2>1 DEF MemShape
      <4> HIDE DEF e
      <4>2. x.grants[s] = e
        BY <3>0, <4>1
      <4> QED
        BY <4>2 DEF e
    <3>3. DOMAIN x.grants = GrantSlots
      BY <1>1, <2>1 DEF MemShape
    <3> SUFFICES ASSUME NEW i \in GrantSlots
                 PROVE  /\ DOMAIN x.grants[i] = DOMAIN m.grants[i]
                        /\ x.grants[i].ver = m.grants[i].ver /\ x.grants[i].live = m.grants[i].live
                        /\ x.grants[i].root = m.grants[i].root
      BY <1>1, <3>3 DEF MemShape
    <3>4. CASE i = s
      BY <3>0, <3>2, <3>4
    <3>5. CASE i # s
      BY <3>1, <3>5
    <3> QED
      BY <3>4, <3>5
  <2>3. MemShape(x)
    BY <1>1, <2>1, <2>2 DEF MemShape
  <2>4. SameMembrane(m, x)
    BY <2>1, <2>2 DEF SameMembrane, SameTenants
  <2> QED
    BY <2>3, <2>4, SameMembraneOK
<1> QED
  BY <1>2, <1>3

(***************************************************************************)
(* What an operation that may compact leaves of the tenants: those it was  *)
(* told to keep, and no new ones.                                          *)
(***************************************************************************)
Reaped(m, x, anchors) ==
  /\ \A s \in HandleSlots :
       /\ x.handles[s].live => m.handles[s].live /\ x.handles[s].ver = m.handles[s].ver
       /\ m.handles[s].live /\ s \in anchors.handles => x.handles[s].live
  /\ \A g \in GrantSlots :
       /\ x.grants[g].live => /\ m.grants[g].live /\ x.grants[g].ver = m.grants[g].ver
                              /\ x.grants[g].root = m.grants[g].root
       /\ m.grants[g].live /\ g \in anchors.grants \cup m.rootGrants => x.grants[g].live
  /\ x.rootGrants = m.rootGrants
  /\ \A map \in Maps, s \in HandleSlots :
       x.dispatch[map][s] =
         IF map \in PrunedMaps /\ m.handles[s].live /\ ~x.handles[s].live THEN 0
         ELSE m.dispatch[map][s]

\* Where every tenant stays, nothing was reaped;
LEMMA SameReaped ==
  ASSUME NEW m, NEW x, SameMembrane(m, x), NEW anchors
  PROVE  Reaped(m, x, anchors)
BY DEF SameMembrane, SameTenants, Reaped

\* what two steps reap, both were allowed to;
LEMMA ReapedTwice ==
  ASSUME NEW m, NEW x, NEW y, NEW anchors, MemOK(m), MemOK(x), MemOK(y),
         Reaped(m, x, anchors), Reaped(x, y, anchors)
  PROVE  Reaped(m, y, anchors)
<1>1. \A s \in HandleSlots :
        /\ y.handles[s].live => m.handles[s].live /\ y.handles[s].ver = m.handles[s].ver
        /\ m.handles[s].live /\ s \in anchors.handles => y.handles[s].live
  BY DEF Reaped
<1>2. x.rootGrants = m.rootGrants /\ y.rootGrants = m.rootGrants
  BY DEF Reaped
<1>3. \A g \in GrantSlots :
        /\ y.grants[g].live => /\ m.grants[g].live /\ y.grants[g].ver = m.grants[g].ver
                               /\ y.grants[g].root = m.grants[g].root
        /\ m.grants[g].live /\ g \in anchors.grants \cup m.rootGrants => y.grants[g].live
  BY <1>2 DEF Reaped
<1>4. \A map \in Maps, s \in HandleSlots :
        y.dispatch[map][s] =
          IF map \in PrunedMaps /\ m.handles[s].live /\ ~y.handles[s].live THEN 0
          ELSE m.dispatch[map][s]
  <2> TAKE map \in Maps, s \in HandleSlots
  <2>1. /\ x.dispatch[map][s] =
             IF map \in PrunedMaps /\ m.handles[s].live /\ ~x.handles[s].live THEN 0
             ELSE m.dispatch[map][s]
        /\ y.dispatch[map][s] =
             IF map \in PrunedMaps /\ x.handles[s].live /\ ~y.handles[s].live THEN 0
             ELSE x.dispatch[map][s]
        /\ x.handles[s].live => m.handles[s].live
        /\ y.handles[s].live => x.handles[s].live
    BY DEF Reaped
  <2> QED
    BY <2>1
<1> QED
  BY <1>1, <1>2, <1>3, <1>4 DEF Reaped

\* and a compaction reaps only what no anchor keeps.
LEMMA CompactedForReaps ==
  ASSUME NEW m, MemOK(m), NEW anchors
  PROVE  Reaped(m, CompactedFor(m, anchors), anchors)
<1> DEFINE more == UNION {ToSet(HandleList(m, s)) : s \in anchors.handles \cap LiveHandles(m)}
           liveGrants == anchors.grants \cup m.rootGrants \cup more
           x == CompactedFor(m, anchors)
<1>1. TenantsCompacted(m, x, anchors.handles, liveGrants)
  BY CompactedTenants DEF MemOK, CompactedFor
<1>2. anchors.grants \cup m.rootGrants \subseteq liveGrants
  OBVIOUS
<1> HIDE DEF liveGrants, x
<1>3. \A s \in HandleSlots :
        /\ x.handles[s].live => m.handles[s].live /\ x.handles[s].ver = m.handles[s].ver
        /\ m.handles[s].live /\ s \in anchors.handles => x.handles[s].live
        /\ m.handles[s].live /\ s \notin anchors.handles <=> m.handles[s].live /\ ~x.handles[s].live
  BY <1>1 DEF TenantsCompacted
<1>4. \A g \in GrantSlots :
        /\ x.grants[g].live => /\ m.grants[g].live /\ x.grants[g].ver = m.grants[g].ver
                               /\ x.grants[g].root = m.grants[g].root
        /\ m.grants[g].live /\ g \in anchors.grants \cup m.rootGrants => x.grants[g].live
  BY <1>1, <1>2 DEF TenantsCompacted
<1>5. x.rootGrants = m.rootGrants
  BY <1>1, <1>2 DEF TenantsCompacted
<1>6. \A map \in Maps, s \in HandleSlots :
        x.dispatch[map][s] =
          IF map \in PrunedMaps /\ m.handles[s].live /\ ~x.handles[s].live THEN 0
          ELSE m.dispatch[map][s]
  BY <1>1, <1>3 DEF TenantsCompacted
<1> QED
  BY <1>3, <1>4, <1>5, <1>6 DEF Reaped, x

\* Appending to a list of ids, which may compact on the way, does no more,
LEMMA AppendedOK ==
  ASSUME NEW m, MemOK(m), NEW table \in {"handles", "grants"},
         NEW s \in IF table = "handles" THEN HandleSlots ELSE GrantSlots,
         NEW id, NEW anchors
  PROVE  /\ MemOK(Appended(m, table, s, id, anchors).m)
         /\ Reaped(m, Appended(m, table, s, id, anchors).m, anchors)
<1> DEFINE x == Appended(m, table, s, id, anchors).m
<1>1. PICK base \in {m, CompactedFor(m, anchors)} :
        \/ x = base
        \/ \E o, c, u, p : x = [base EXCEPT ![table][s].off = o, ![table][s].cnt = c,
                                            !.poolUsed = u, !.pool = p]
  BY DEF Appended, WithRoom
<1> HIDE DEF x
<1>2. MemOK(base) /\ Reaped(m, base, anchors)
  <2>1. SameMembrane(m, m)
    BY DEF SameMembrane, SameTenants
  <2> QED
    BY <2>1, SameReaped, CompactedForOK, CompactedForReaps
<1>3. CASE x = base
  BY <1>2, <1>3 DEF x
<1>4. CASE x # base
  <2>1. MemOK(x) /\ SameMembrane(base, x)
    <3>1. PICK o, c, u, p : x = [base EXCEPT ![table][s].off = o, ![table][s].cnt = c,
                                             !.poolUsed = u, !.pool = p]
      BY <1>1, <1>4
    <3> QED
      BY <1>2, <3>1, RunMovedOK
  <2>2. Reaped(base, x, anchors)
    BY <2>1, SameReaped
  <2> QED
    BY <1>2, <2>1, <2>2, ReapedTwice DEF x
<1> QED
  BY <1>3, <1>4

\* nor does joining a handle and a grant, an append to the list of each.
LEMMA HandleAddedOK ==
  ASSUME NEW m, MemOK(m), NEW g \in GrantSlots, NEW s \in HandleSlots, NEW anchors
  PROVE  /\ MemOK(HandleAdded(m, g, s, anchors))
         /\ Reaped(m, HandleAdded(m, g, s, anchors), anchors)
<1> DEFINE first == Appended(m, "handles", s, g, anchors)
           noted == [first.m EXCEPT !.joined[s] = @ \cup {GrantName(m, g)}]
           second == Appended(noted, "grants", g, s, anchors)
<1>1. HandleAdded(m, g, s, anchors) \in {m, first.m, second.m}
  BY DEF HandleAdded
<1>2. MemOK(first.m) /\ Reaped(m, first.m, anchors)
  BY AppendedOK
<1>3. MemOK(m) /\ Reaped(m, m, anchors)
  BY SameReaped DEF SameMembrane, SameTenants
<1>4. MemOK(noted) /\ SameMembrane(first.m, noted)
  <2> DEFINE f == first.m
  <2> HIDE DEF first
  <2>1. MemShape(f)
    BY <1>2 DEF MemOK
  <2> HIDE DEF f
  <2> DEFINE x == [f EXCEPT !.joined[s] = @ \cup {GrantName(m, g)}]
  <2>2. /\ DOMAIN x = MemFields /\ x.grants = f.grants /\ x.handles = f.handles
        /\ x.handleFree = f.handleFree /\ x.grantFree = f.grantFree
        /\ x.nextHandle = f.nextHandle /\ x.nextGrant = f.nextGrant
        /\ x.rootGrants = f.rootGrants /\ x.dispatch = f.dispatch
    BY <2>1 DEF MemShape, MemFields
  <2> HIDE DEF x
  <2>3. MemShape(x) /\ SameMembrane(f, x)
    BY <2>1, <2>2 DEF MemShape, SameMembrane, SameTenants
  <2>4. MemOK(x)
    BY <1>2, <2>3, SameMembraneOK DEF f
  <2> QED
    BY <2>3, <2>4 DEF x, f
<1> HIDE DEF first, noted
<1>5. Reaped(m, noted, anchors)
  BY <1>2, <1>4, SameReaped, ReapedTwice
<1>6. MemOK(second.m) /\ Reaped(noted, second.m, anchors)
  BY <1>4, AppendedOK
<1> HIDE DEF second
<1>7. Reaped(m, second.m, anchors)
  BY <1>4, <1>5, <1>6, ReapedTwice
<1> QED
  BY <1>1, <1>2, <1>3, <1>6, <1>7

(***************************************************************************)
(* An allocation: the slot it takes is dead, and nothing else moves.       *)
(***************************************************************************)
LEMMA RegisteredOK ==
  ASSUME NEW m, MemOK(m), HandleSlotTaken(m) # NoSlot
  PROVE  LET s == HandleSlotTaken(m)
             x == Registered(m)
         IN  /\ MemOK(x)
             /\ s \in HandleSlots /\ ~m.handles[s].live
             /\ x.handles[s].live = TRUE /\ x.handles[s].ver = m.handles[s].ver + 1
             /\ \A i \in HandleSlots \ {s} : x.handles[i] = m.handles[i]
             /\ x.grants = m.grants /\ x.rootGrants = m.rootGrants
             /\ x.dispatch = m.dispatch
<1> DEFINE s == HandleSlotTaken(m)
           x == Registered(m)
<1>1. /\ MemShape(m)
      /\ TableOK(m.handles, m.handleFree, m.nextHandle, HandleCapacity)
      /\ TableOK(m.grants, m.grantFree, m.nextGrant, GrantCapacity)
      /\ HandleCapacity \in Nat /\ HandleSlots = 0 .. HandleCapacity - 1
  BY MembraneAssumption DEF MemOK, HandleSlots
<1>2. HandleRoom(m) /\ s = IF m.handleFree # <<>> THEN Head(m.handleFree) ELSE m.nextHandle
  BY DEF HandleSlotTaken
<1>3. /\ m.handleFree \in Seq(0 .. HandleCapacity - 1)
      /\ m.handleFree # <<>> => s = m.handleFree[1] /\ 1 \in 1 .. Len(m.handleFree)
  BY <1>1, <1>2 DEF TableOK
<1>4. m.handleFree = <<>> => m.nextHandle < HandleCapacity /\ s = m.nextHandle
  BY <1>2 DEF HandleRoom
<1>5. s \in HandleSlots /\ ~m.handles[s].live
  <2>1. CASE m.handleFree # <<>>
    BY <1>1, <1>3, <2>1, TableFresh
  <2>2. CASE m.handleFree = <<>>
    <3>1. s \in HandleSlots /\ m.nextHandle \in Nat
      BY <1>1, <1>4, <2>2 DEF TableOK
    <3>2. ~(s < m.nextHandle)
      BY <1>4, <2>2, <3>1
    <3> QED
      BY <1>1, <3>1, <3>2, TableFresh
  <2> QED
    BY <2>1, <2>2
<1> DEFINE e == [EmptyEntry EXCEPT !.ver = m.handles[s].ver + 1, !.live = TRUE]
<1>6. /\ DOMAIN x = MemFields
      /\ x.handles = [m.handles EXCEPT ![s] = e]
      /\ x.handleFree = IF m.handleFree # <<>> THEN Tail(m.handleFree) ELSE m.handleFree
      /\ x.nextHandle = IF m.handleFree # <<>> THEN m.nextHandle ELSE m.nextHandle + 1
      /\ x.grants = m.grants /\ x.grantFree = m.grantFree /\ x.nextGrant = m.nextGrant
      /\ x.rootGrants = m.rootGrants /\ x.dispatch = m.dispatch
  BY <1>1 DEF MemShape, MemFields, Registered
<1>7. DOMAIN e = {"ver", "live", "off", "cnt"} /\ e.ver = m.handles[s].ver + 1 /\ e.live = TRUE
  BY DEF EmptyEntry
<1> HIDE DEF x, s, e
<1>8. /\ DOMAIN x.handles = HandleSlots /\ x.handles[s] = e
      /\ \A i \in HandleSlots \ {s} : x.handles[i] = m.handles[i]
  BY <1>1, <1>5, <1>6 DEF MemShape
<1>9. MemShape(x)
  <2>1. \A i \in HandleSlots : DOMAIN x.handles[i] = {"ver", "live", "off", "cnt"}
    BY <1>1, <1>7, <1>8 DEF MemShape
  <2> QED
    BY <1>1, <1>6, <1>8, <2>1 DEF MemShape
<1>10. SameTenants(m.handles, x.handles, (0 .. HandleCapacity - 1) \ {s})
  BY <1>1, <1>8 DEF SameTenants
<1>11. TableOK(x.handles, x.handleFree, x.nextHandle, HandleCapacity)
  <2>1. CASE m.handleFree # <<>>
    <3>1. s = Head(m.handleFree)
      BY <1>2, <2>1
    <3>2. TableOK(x.handles, Tail(m.handleFree), m.nextHandle, HandleCapacity)
      BY <1>1, <1>7, <1>8, <1>10, <2>1, <3>1, TableTakesFreed
    <3> QED
      BY <1>6, <2>1, <3>2
  <2>2. CASE m.handleFree = <<>>
    <3>1. TableOK(x.handles, m.handleFree, m.nextHandle + 1, HandleCapacity)
      BY <1>1, <1>4, <1>7, <1>8, <1>10, <2>2, TableTakesNext
    <3> QED
      BY <1>6, <2>2, <3>1
  <2> QED
    BY <2>1, <2>2
<1>12. MemOK(x)
  BY <1>1, <1>6, <1>9, <1>11 DEF MemOK
<1> QED
  BY <1>5, <1>6, <1>7, <1>8, <1>12 DEF s, x

\* Nor does the creation of a grant.
LEMMA CreatedOK ==
  ASSUME NEW m, MemOK(m), GrantSlotTaken(m) # NoSlot
  PROVE  LET g == GrantSlotTaken(m)
             x == Created(m)
         IN  /\ MemOK(x)
             /\ g \in GrantSlots /\ ~m.grants[g].live
             /\ x.grants[g].live = TRUE /\ x.grants[g].ver = m.grants[g].ver + 1
             /\ x.grants[g].root = FALSE
             /\ \A i \in GrantSlots \ {g} : x.grants[i] = m.grants[i]
             /\ x.handles = m.handles /\ x.rootGrants = m.rootGrants
             /\ x.dispatch = m.dispatch
<1> DEFINE g == GrantSlotTaken(m)
           x == Created(m)
<1>1. /\ MemShape(m)
      /\ TableOK(m.handles, m.handleFree, m.nextHandle, HandleCapacity)
      /\ TableOK(m.grants, m.grantFree, m.nextGrant, GrantCapacity)
      /\ GrantCapacity \in Nat /\ GrantSlots = 0 .. GrantCapacity - 1
  BY MembraneAssumption DEF MemOK, GrantSlots
<1>2. GrantRoom(m) /\ g = IF m.grantFree # <<>> THEN Head(m.grantFree) ELSE m.nextGrant
  BY DEF GrantSlotTaken
<1>3. /\ m.grantFree \in Seq(0 .. GrantCapacity - 1)
      /\ m.grantFree # <<>> => g = m.grantFree[1] /\ 1 \in 1 .. Len(m.grantFree)
  BY <1>1, <1>2 DEF TableOK
<1>4. m.grantFree = <<>> => m.nextGrant < GrantCapacity /\ g = m.nextGrant
  BY <1>2 DEF GrantRoom
<1>5. g \in GrantSlots /\ ~m.grants[g].live
  <2>1. CASE m.grantFree # <<>>
    BY <1>1, <1>3, <2>1, TableFresh
  <2>2. CASE m.grantFree = <<>>
    <3>1. g \in GrantSlots /\ m.nextGrant \in Nat
      BY <1>1, <1>4, <2>2 DEF TableOK
    <3>2. ~(g < m.nextGrant)
      BY <1>4, <2>2, <3>1
    <3> QED
      BY <1>1, <3>1, <3>2, TableFresh
  <2> QED
    BY <2>1, <2>2
<1> DEFINE e == [EmptyGrant EXCEPT !.ver = m.grants[g].ver + 1, !.live = TRUE]
<1>6. /\ DOMAIN x = MemFields
      /\ x.grants = [m.grants EXCEPT ![g] = e]
      /\ x.grantFree = IF m.grantFree # <<>> THEN Tail(m.grantFree) ELSE m.grantFree
      /\ x.nextGrant = IF m.grantFree # <<>> THEN m.nextGrant ELSE m.nextGrant + 1
      /\ x.handles = m.handles /\ x.handleFree = m.handleFree
      /\ x.nextHandle = m.nextHandle
      /\ x.rootGrants = m.rootGrants /\ x.dispatch = m.dispatch
  BY <1>1 DEF MemShape, MemFields, Created
<1>7. /\ DOMAIN e = {"ver", "live", "off", "cnt", "revoked", "root"}
      /\ e.ver = m.grants[g].ver + 1 /\ e.live = TRUE /\ e.root = FALSE
  BY DEF EmptyGrant
<1> HIDE DEF x, g, e
<1>8. /\ DOMAIN x.grants = GrantSlots /\ x.grants[g] = e
      /\ \A i \in GrantSlots \ {g} : x.grants[i] = m.grants[i]
  BY <1>1, <1>5, <1>6 DEF MemShape
<1>9. MemShape(x)
  <2>1. \A i \in GrantSlots :
          DOMAIN x.grants[i] = {"ver", "live", "off", "cnt", "revoked", "root"}
    BY <1>1, <1>7, <1>8 DEF MemShape
  <2> QED
    BY <1>1, <1>6, <1>8, <2>1 DEF MemShape
<1>10. SameTenants(m.grants, x.grants, (0 .. GrantCapacity - 1) \ {g})
  BY <1>1, <1>8 DEF SameTenants
<1>11. TableOK(x.grants, x.grantFree, x.nextGrant, GrantCapacity)
  <2>1. CASE m.grantFree # <<>>
    <3>1. g = Head(m.grantFree)
      BY <1>2, <2>1
    <3>2. TableOK(x.grants, Tail(m.grantFree), m.nextGrant, GrantCapacity)
      BY <1>1, <1>7, <1>8, <1>10, <2>1, <3>1, TableTakesFreed
    <3> QED
      BY <1>6, <2>1, <3>2
  <2>2. CASE m.grantFree = <<>>
    <3>1. TableOK(x.grants, m.grantFree, m.nextGrant + 1, GrantCapacity)
      BY <1>1, <1>4, <1>7, <1>8, <1>10, <2>2, TableTakesNext
    <3> QED
      BY <1>6, <2>2, <3>1
  <2> QED
    BY <2>1, <2>2
<1>12. MemOK(x)
  BY <1>1, <1>6, <1>9, <1>11 DEF MemOK
<1> QED
  BY <1>5, <1>6, <1>7, <1>8, <1>12 DEF g, x

(***************************************************************************)
(* Each operation of the membrane keeps it sound.                          *)
(***************************************************************************)
LEMMA EmptyOK == MemOK(EmptyMembrane)
<1>1. MemShape(EmptyMembrane)
  BY DEF EmptyMembrane, EmptyEntry, EmptyGrant, MemShape, MemFields
<1>2. ASSUME NEW capacity \in Nat, NEW entries,
             \A s \in 0 .. capacity - 1 : entries[s].ver = 0 /\ entries[s].live = FALSE
      PROVE  TableOK(entries, <<>>, 0, capacity)
  <2>1. ToSet(<<>>) = {} /\ IsInjective(<<>>)
    BY DEF ToSet, IsInjective
  <2>2. {s \in 0 .. 0 - 1 : ~entries[s].live} = {}
    OBVIOUS
  <2>3. 0 % 2 # 1 /\ 0 \in 0 .. capacity /\ <<>> \in Seq(0 .. capacity - 1)
    OBVIOUS
  <2>4. \A s \in 0 .. capacity - 1 :
          /\ entries[s].ver \in Nat /\ entries[s].live \in BOOLEAN
          /\ entries[s].live <=> entries[s].ver % 2 = 1
    <3> TAKE s \in 0 .. capacity - 1
    <3>1. entries[s].ver = 0 /\ entries[s].live = FALSE
      BY <1>2
    <3>2. entries[s].ver \in Nat /\ entries[s].ver % 2 # 1
      BY <2>3, <3>1
    <3> QED
      BY <3>1, <3>2
  <2>5. FreeListSound(entries, <<>>, 0, capacity)
    BY <1>2, <2>1, <2>2, <2>3 DEF FreeListSound
  <2> QED
    BY <2>3, <2>4, <2>5 DEF TableOK
<1>3. /\ EmptyMembrane.handleFree = <<>> /\ EmptyMembrane.nextHandle = 0
      /\ EmptyMembrane.grantFree = <<>> /\ EmptyMembrane.nextGrant = 0
      /\ \A s \in 0 .. HandleCapacity - 1 :
           EmptyMembrane.handles[s].ver = 0 /\ EmptyMembrane.handles[s].live = FALSE
      /\ \A g \in 0 .. GrantCapacity - 1 :
           EmptyMembrane.grants[g].ver = 0 /\ EmptyMembrane.grants[g].live = FALSE
  BY DEF EmptyMembrane, EmptyEntry, EmptyGrant, HandleSlots, GrantSlots
<1> QED
  BY <1>1, <1>2, <1>3, MembraneAssumption DEF MemOK

\* Room is made by a compaction, or was there.
LEMMA WithRoomOK ==
  ASSUME NEW m, MemOK(m), NEW anchors, NEW x \in {m, CompactedFor(m, anchors)}
  PROVE  MemOK(x) /\ Reaped(m, x, anchors)
<1>1. SameMembrane(m, m)
  BY DEF SameMembrane, SameTenants
<1> QED
  BY <1>1, SameReaped, CompactedForOK, CompactedForReaps

\* The flags of a grant say nothing about its slot.
LEMMA FlagsOK ==
  ASSUME NEW m, MemOK(m), NEW g \in GrantSlots
  PROVE  /\ MemOK([m EXCEPT !.grants[g].revoked = TRUE])
         /\ MemOK([m EXCEPT !.grants[g].root = TRUE, !.rootGrants = @ \cup {g}])
<1>1. MemShape(m)
  BY DEF MemOK
<1>2. ASSUME NEW x, DOMAIN x = MemFields, x.handles = m.handles,
             x.handleFree = m.handleFree, x.nextHandle = m.nextHandle,
             x.grantFree = m.grantFree, x.nextGrant = m.nextGrant,
             x.dispatch = m.dispatch, x.rootGrants \subseteq GrantSlots,
             DOMAIN x.grants = GrantSlots,
             \A i \in GrantSlots : /\ DOMAIN x.grants[i] = DOMAIN m.grants[i]
                                   /\ x.grants[i].ver = m.grants[i].ver
                                   /\ x.grants[i].live = m.grants[i].live
      PROVE  MemOK(x)
  <2>1. MemShape(x)
    BY <1>1, <1>2 DEF MemShape
  <2>2. SameTenants(m.grants, x.grants, 0 .. GrantCapacity - 1)
    BY <1>2 DEF SameTenants, GrantSlots
  <2>3. TableOK(x.grants, x.grantFree, x.nextGrant, GrantCapacity)
    BY <1>2, <2>2, TableSame, MembraneAssumption DEF MemOK
  <2> QED
    BY <1>2, <2>1, <2>3 DEF MemOK
<1> DEFINE x == [m EXCEPT !.grants[g].revoked = TRUE]
           y == [m EXCEPT !.grants[g].root = TRUE, !.rootGrants = @ \cup {g}]
<1>3. /\ DOMAIN x = MemFields /\ x.handles = m.handles
      /\ x.handleFree = m.handleFree /\ x.nextHandle = m.nextHandle
      /\ x.grantFree = m.grantFree /\ x.nextGrant = m.nextGrant
      /\ x.dispatch = m.dispatch /\ x.rootGrants = m.rootGrants
      /\ x.grants = [m.grants EXCEPT ![g] = [m.grants[g] EXCEPT !.revoked = TRUE]]
  BY <1>1 DEF MemShape, MemFields
<1>4. /\ DOMAIN y = MemFields /\ y.handles = m.handles
      /\ y.handleFree = m.handleFree /\ y.nextHandle = m.nextHandle
      /\ y.grantFree = m.grantFree /\ y.nextGrant = m.nextGrant
      /\ y.dispatch = m.dispatch /\ y.rootGrants = m.rootGrants \cup {g}
      /\ y.grants = [m.grants EXCEPT ![g] = [m.grants[g] EXCEPT !.root = TRUE]]
  BY <1>1 DEF MemShape, MemFields
<1> HIDE DEF x, y
<1>5. ASSUME NEW f \in {"revoked", "root"}, NEW z,
             z.grants = [m.grants EXCEPT ![g] = [m.grants[g] EXCEPT ![f] = TRUE]]
      PROVE  /\ DOMAIN z.grants = GrantSlots
             /\ \A i \in GrantSlots : /\ DOMAIN z.grants[i] = DOMAIN m.grants[i]
                                      /\ z.grants[i].ver = m.grants[i].ver
                                      /\ z.grants[i].live = m.grants[i].live
  <2> DEFINE e == [m.grants[g] EXCEPT ![f] = TRUE]
  <2>1. DOMAIN m.grants = GrantSlots
        /\ DOMAIN m.grants[g] = {"ver", "live", "off", "cnt", "revoked", "root"}
    BY <1>1 DEF MemShape
  <2>2. DOMAIN e = DOMAIN m.grants[g] /\ e.ver = m.grants[g].ver /\ e.live = m.grants[g].live
    BY <2>1
  <2> HIDE DEF e
  <2>3. DOMAIN z.grants = GrantSlots /\ \A i \in GrantSlots :
          z.grants[i] = IF i = g THEN e ELSE m.grants[i]
    BY <1>5, <2>1 DEF e
  <2> QED
    BY <2>2, <2>3
<1>6. MemOK(x)
  BY <1>1, <1>2, <1>3, <1>5 DEF MemShape
<1>7. MemOK(y)
  BY <1>1, <1>2, <1>4, <1>5 DEF MemShape
<1> QED
  BY <1>6, <1>7 DEF x, y

\* The invariant is inductive: one case for each operation.
LEMMA MembraneStep == MemOK(mem) /\ [Next]_mem => MemOK(mem)'
<1> SUFFICES ASSUME MemOK(mem), [Next]_mem
             PROVE  MemOK(mem')
  OBVIOUS
<1>1. ASSUME Register PROVE MemOK(mem')
  <2>1. PICK anchors : LET base == WithRoom(mem, HandleRoom, anchors)
                       IN mem' = Settled(Registered(base))
    BY <1>1 DEF Register
  <2> DEFINE base == IF HandleRoom(mem) THEN mem ELSE CompactedFor(mem, anchors)
  <2>2. MemOK(base) /\ mem' = Settled(Registered(base))
    BY <2>1, WithRoomOK DEF WithRoom
  <2> HIDE DEF base
  <2>3. HandleSlotTaken(base) = NoSlot => Registered(base) = base
    BY DEF Registered
  <2>4. MemOK(Registered(base))
    BY <2>2, <2>3, RegisteredOK
  <2> QED
    BY <2>2, <2>4, SettledOK
<1>2. ASSUME CreateGrant PROVE MemOK(mem')
  <2>1. PICK anchors : LET base == WithRoom(mem, GrantRoom, anchors)
                       IN mem' = Settled(Created(base))
    BY <1>2 DEF CreateGrant
  <2> DEFINE base == IF GrantRoom(mem) THEN mem ELSE CompactedFor(mem, anchors)
  <2>2. MemOK(base) /\ mem' = Settled(Created(base))
    BY <2>1, WithRoomOK DEF WithRoom
  <2> HIDE DEF base
  <2>3. GrantSlotTaken(base) = NoSlot => Created(base) = base
    BY DEF Created
  <2>4. MemOK(Created(base))
    BY <2>2, <2>3, CreatedOK
  <2> QED
    BY <2>2, <2>4, SettledOK
<1>3. ASSUME NEW g \in GrantSlots, NEW s \in HandleSlots, AddHandle(g, s)
      PROVE  MemOK(mem')
  <2>1. PICK anchors : mem' = Settled(HandleAdded(mem, g, s, anchors))
    BY <1>3 DEF AddHandle
  <2> QED
    BY <2>1, HandleAddedOK, SettledOK
<1>4. ASSUME NEW g \in GrantSlots, Revoke(g) \/ MarkRoot(g)
      PROVE  MemOK(mem')
  <2>1. CASE Revoke(g)
    <3>1. mem' = [mem EXCEPT !.grants[g].revoked = TRUE]
      BY <2>1 DEF Revoke
    <3>2. MemOK([mem EXCEPT !.grants[g].revoked = TRUE])
      BY FlagsOK
    <3> QED
      BY <3>1, <3>2
  <2>2. CASE MarkRoot(g)
    <3>1. mem' = [mem EXCEPT !.grants[g].root = TRUE, !.rootGrants = @ \cup {g}]
      BY <2>2 DEF MarkRoot
    <3>2. MemOK([mem EXCEPT !.grants[g].root = TRUE, !.rootGrants = @ \cup {g}])
      BY FlagsOK
    <3> QED
      BY <3>1, <3>2
  <2> QED
    BY <1>4, <2>1, <2>2
<1>5. ASSUME Compact PROVE MemOK(mem')
  BY <1>5, CompactedForOK, SettledOK DEF Compact
<1> QED
  BY <1>1, <1>2, <1>3, <1>4, <1>5 DEF Next

(***************************************************************************)
(* The theorem.                                                            *)
(***************************************************************************)
\* For every size of the tables and of the pool, whatever a compaction is told
\* to keep and wherever in an operation it comes, the free lists hold each dead
\* slot once and no slot that has a tenant: no slot is given out twice or lost.
THEOREM SlotsNeitherSharedNorLost == Spec => []FreeListsSound
<1>1. Init => MemOK(mem)
  BY EmptyOK DEF Init
<1>2. MemOK(mem) => FreeListsSound
  <2>1. HandleCapacity \in Nat /\ GrantCapacity \in Nat
    BY MembraneAssumption
  <2> QED
    BY <2>1 DEF MemOK, TableOK, FreeListsSound, FreeListSound
<1> QED
  BY <1>1, <1>2, MembraneStep, PTL DEF Spec

(***************************************************************************)
(* What the operators of a compaction compute.                             *)
(***************************************************************************)
\* FlattenSeq of the prefixes: each is the one before it and one sequence more.
LEMMA FlattenPrefixes ==
  ASSUME NEW T, NEW runs \in Seq(Seq(T))
  PROVE  /\ FlattenSeq(SubSeq(runs, 1, 0)) = <<>>
         /\ \A i \in 1 .. Len(runs) :
              FlattenSeq(SubSeq(runs, 1, i)) = FlattenSeq(SubSeq(runs, 1, i - 1)) \o runs[i]
         /\ \A i \in 0 .. Len(runs) : FlattenSeq(SubSeq(runs, 1, i)) \in Seq(T)
<1> DEFINE N == Len(runs)
           more(i, prev) == IF i = 1 THEN runs[i] ELSE prev \o runs[i]
           Flat(f, n) == f = [i \in 1 .. n |-> more(i, f[i - 1])]
           P(n) == FlattenSeq(SubSeq(runs, 1, n))
<1>1. N \in Nat /\ \A i \in 1 .. N : runs[i] \in Seq(T)
  OBVIOUS
<1>2. \A i \in 1 .. N : \A prev : i = 1 \/ prev \in Seq(T) => more(i, prev) \in Seq(T)
  BY <1>1
<1>3. P(0) = <<>>
  <2>1. SubSeq(runs, 1, 0) = <<>>
    BY SubSeqEmpty
  <2> QED
    BY <2>1 DEF FlattenSeq
<1>4. ASSUME NEW n \in 1 .. N
      PROVE  P(n) = (CHOOSE f : Flat(f, n))[n]
  <2> DEFINE s == SubSeq(runs, 1, n)
  <2>1. Len(s) = n /\ \A i \in 1 .. n : s[i] = runs[i]
    <3>1. \A i \in 1 .. n : runs[i] \in Seq(T)
      BY <1>1
    <3>2. n \in Int /\ 1 \in Int
      BY <1>1
    <3> QED
      BY <3>1, <3>2, SubSeqProperties
  <2> HIDE DEF s
  <2>2. ASSUME NEW f
        PROVE  (f = [i \in 1 .. Len(s) |-> IF i = 1 THEN s[i] ELSE f[i - 1] \o s[i]])
                 = Flat(f, n)
    <3>1. [i \in 1 .. Len(s) |-> IF i = 1 THEN s[i] ELSE f[i - 1] \o s[i]]
            = [i \in 1 .. n |-> more(i, f[i - 1])]
      BY <2>1
    <3> QED
      BY <3>1
  <2> DEFINE w == CHOOSE f : f = [i \in 1 .. Len(s) |-> IF i = 1 THEN s[i] ELSE f[i - 1] \o s[i]]
  <2>4. w = CHOOSE f : Flat(f, n)
    BY <2>2
  <2>5. FlattenSeq(s) = w[n]
    BY <2>1 DEF FlattenSeq
  <2> QED
    BY <2>4, <2>5 DEF s
<1>5. \A i, prev : i = 1 => more(i, prev) = runs[1]
  OBVIOUS
<1>6. \A i, prev : i # 1 => more(i, prev) = prev \o runs[i]
  OBVIOUS
<1> HIDE DEF more
<1>7. ASSUME NEW n, NEW f, Flat(f, n)
      PROVE  \A i \in 1 .. n : f[i] = more(i, f[i - 1])
  <2> DEFINE e(i) == more(i, f[i - 1])
  <2>1. f = [i \in 1 .. n |-> e(i)]
    BY <1>7
  <2> HIDE DEF e
  <2>2. \A i \in 1 .. n : f[i] = e(i)
    BY <2>1
  <2> QED
    BY <2>2 DEF e
<1>8. ASSUME NEW n, NEW f, DOMAIN f = 1 .. n, f = [i \in 1 .. n |-> f[i]],
             \A i \in 1 .. n : f[i] = more(i, f[i - 1])
      PROVE  Flat(f, n)
  <2> DEFINE e(i) == more(i, f[i - 1])
  <2>1. f = [i \in 1 .. n |-> f[i]] /\ \A i \in 1 .. n : f[i] = e(i)
    BY <1>8
  <2> HIDE DEF e
  <2>2. f = [i \in 1 .. n |-> e(i)]
    BY <2>1
  <2> QED
    BY <2>2 DEF e
<1> HIDE DEF Flat, P, N
<1>9. \A n \in 0 .. N : \E f \in [1 .. n -> Seq(T)] : Flat(f, n)
  <2> DEFINE bad == {n \in 0 .. N : ~\E f \in [1 .. n -> Seq(T)] : Flat(f, n)}
  <2>1. SUFFICES ASSUME bad # {} PROVE FALSE
    OBVIOUS
  <2>2. bad \in SUBSET Nat
    BY <1>1
  <2>3. PICK n \in bad : \A k \in bad : n <= k
    BY <2>1, <2>2, LeastNat
  <2>4. n \in 0 .. N /\ ~\E f \in [1 .. n -> Seq(T)] : Flat(f, n)
    OBVIOUS
  <2>5. \A k \in 0 .. N : k < n => \E f \in [1 .. k -> Seq(T)] : Flat(f, k)
    <3> TAKE k \in 0 .. N
    <3> HAVE k < n
    <3>1. k \notin bad
      BY <1>1, <2>3, <2>4
    <3> QED
      BY <3>1
  <2> HIDE DEF bad
  <2>6. CASE n = 0
    <3> DEFINE f == [i \in 1 .. 0 |-> <<>>]
    <3>1. f \in [1 .. 0 -> Seq(T)] /\ \A i \in 1 .. 0 : FALSE
      OBVIOUS
    <3>2. DOMAIN f = 1 .. 0 /\ f = [i \in 1 .. 0 |-> f[i]]
      OBVIOUS
    <3> HIDE DEF f
    <3>3. Flat(f, 0)
      BY <1>8, <3>1, <3>2
    <3> QED
      BY <2>4, <2>6, <3>1, <3>3
  <2>7. CASE n # 0
    <3>1. n - 1 \in 0 .. N /\ n \in 1 .. N /\ n - 1 < n /\ n - 1 \in Nat
      BY <1>1, <2>4, <2>7
    <3>2. PICK f \in [1 .. n - 1 -> Seq(T)] : Flat(f, n - 1)
      BY <2>5, <3>1
    <3> DEFINE last == more(n, f[n - 1])
               g == [i \in 1 .. n |-> IF i = n THEN last ELSE f[i]]
    <3>3. last \in Seq(T)
      <4>1. n # 1 => f[n - 1] \in Seq(T)
        BY <3>1
      <4> QED
        BY <1>2, <3>1, <4>1
    <3>4. g \in [1 .. n -> Seq(T)] /\ DOMAIN g = 1 .. n /\ g = [i \in 1 .. n |-> g[i]]
      BY <3>1, <3>3
    <3>5. g[n] = last /\ \A i \in 1 .. n - 1 : g[i] = f[i]
      BY <3>1
    <3> HIDE DEF g
    <3>6. \A i \in 1 .. n : g[i] = more(i, g[i - 1])
      <4> TAKE i \in 1 .. n
      <4>0. i = 1 => more(i, g[i - 1]) = more(i, f[i - 1])
        BY <1>5
      <4>1. CASE i = n
        <5>1. n # 1 => g[n - 1] = f[n - 1]
          BY <3>1, <3>5
        <5> QED
          BY <3>5, <4>0, <4>1, <5>1
      <4>2. CASE i # n
        <5>1. i \in 1 .. n - 1
          BY <3>1, <4>2
        <5>2. f[i] = more(i, f[i - 1])
          BY <1>7, <3>2, <5>1
        <5>3. i # 1 => i - 1 \in 1 .. n - 1
          BY <3>1, <5>1
        <5>4. g[i] = f[i] /\ (i # 1 => g[i - 1] = f[i - 1])
          BY <3>5, <5>1, <5>3
        <5> QED
          BY <4>0, <5>2, <5>4
      <4> QED
        BY <4>1, <4>2
    <3>7. Flat(g, n)
      BY <1>8, <3>4, <3>6
    <3> QED
      BY <2>4, <3>4, <3>7
  <2> QED
    BY <2>6, <2>7
<1>10. ASSUME NEW n \in 0 .. N, NEW k \in 0 .. n, NEW f, NEW g, Flat(f, n), Flat(g, k)
       PROVE  \A i \in 1 .. k : f[i] = g[i]
  <2> DEFINE bad == {i \in 1 .. k : f[i] # g[i]}
  <2>1. SUFFICES ASSUME bad # {} PROVE FALSE
    OBVIOUS
  <2>2. bad \in SUBSET Nat
    OBVIOUS
  <2>3. PICK i \in bad : \A j \in bad : i <= j
    BY <2>1, <2>2, LeastNat
  <2>4. i \in 1 .. k /\ i \in 1 .. n /\ f[i] # g[i] /\ i \in Nat
    BY <1>1
  <2>5. f[i] = more(i, f[i - 1]) /\ g[i] = more(i, g[i - 1])
    BY <1>7, <1>10, <2>4
  <2>6. i # 1 => f[i - 1] = g[i - 1]
    <3> HAVE i # 1
    <3>1. i - 1 \in 1 .. k /\ ~(i <= i - 1)
      BY <2>4
    <3>2. i - 1 \notin bad
      BY <2>3, <3>1
    <3> QED
      BY <3>1, <3>2
  <2>7. i = 1 => more(i, f[i - 1]) = more(i, g[i - 1])
    BY <1>5
  <2> QED
    BY <2>4, <2>5, <2>6, <2>7
<1>11. ASSUME NEW n \in 1 .. N, NEW f, Flat(f, n)
       PROVE  P(n) = f[n]
  <2> DEFINE w == CHOOSE g : Flat(g, n)
  <2>1. Flat(w, n)
    BY <1>11
  <2>2. P(n) = w[n]
    BY <1>4
  <2> HIDE DEF w
  <2>3. n \in 0 .. N /\ n \in 0 .. n /\ n \in 1 .. n
    BY <1>1
  <2>4. w[n] = f[n]
    BY <1>10, <1>11, <2>1, <2>3
  <2> QED
    BY <2>2, <2>4
<1>12. ASSUME NEW n \in 1 .. N
       PROVE  P(n) = P(n - 1) \o runs[n] /\ P(n) \in Seq(T)
  <2>0. n \in 0 .. N /\ n \in 1 .. n /\ n \in Nat /\ n - 1 \in Nat
    BY <1>1
  <2>1. PICK f \in [1 .. n -> Seq(T)] : Flat(f, n)
    BY <1>9, <2>0
  <2>2. P(n) = f[n] /\ f[n] = more(n, f[n - 1])
    BY <1>7, <1>11, <2>0, <2>1
  <2>3. f[n] \in Seq(T)
    BY <2>0
  <2>4. CASE n = 1
    <3>1. <<>> \o runs[n] = runs[n]
      BY <1>1
    <3> QED
      BY <1>3, <1>5, <2>2, <2>3, <2>4, <3>1
  <2>5. CASE n # 1
    <3>1. n - 1 \in 1 .. N
      BY <1>1, <2>5
    <3> DEFINE h == [i \in 1 .. n - 1 |-> f[i]]
    <3>2. /\ DOMAIN h = 1 .. n - 1 /\ h = [i \in 1 .. n - 1 |-> h[i]]
          /\ \A i \in 1 .. n - 1 : h[i] = f[i]
      BY <2>0
    <3> HIDE DEF h
    <3>3. \A i \in 1 .. n - 1 : h[i] = more(i, h[i - 1])
      <4> TAKE i \in 1 .. n - 1
      <4>1. i \in 1 .. n /\ (i # 1 => i - 1 \in 1 .. n - 1)
        BY <2>0
      <4>2. f[i] = more(i, f[i - 1])
        BY <1>7, <2>1, <4>1
      <4>3. i # 1 => h[i - 1] = f[i - 1]
        BY <3>2, <4>1
      <4>4. i = 1 => more(i, f[i - 1]) = more(i, h[i - 1])
        BY <1>5
      <4> QED
        BY <3>2, <4>2, <4>3, <4>4
    <3>4. Flat(h, n - 1)
      BY <1>8, <3>2, <3>3
    <3>5. P(n - 1) = h[n - 1]
      BY <1>11, <3>1, <3>4
    <3>6. n - 1 \in 1 .. n - 1
      BY <1>1, <3>1
    <3>7. P(n - 1) = f[n - 1]
      BY <3>2, <3>5, <3>6
    <3> QED
      BY <1>6, <2>2, <2>3, <2>5, <3>7
  <2> QED
    BY <2>4, <2>5
<1>13. \A n \in 0 .. N : P(n) \in Seq(T)
  <2> TAKE n \in 0 .. N
  <2>1. n = 0 \/ n \in 1 .. N
    BY <1>1
  <2>2. <<>> \in Seq(T)
    OBVIOUS
  <2> QED
    BY <1>3, <1>12, <2>1, <2>2
<1> QED
  BY <1>3, <1>12, <1>13 DEF P, N

\* Where a sequence lies in the concatenation.
LEMMA FlattenPlaces ==
  ASSUME NEW T, NEW runs \in Seq(Seq(T)), NEW n \in 1 .. Len(runs),
         NEW k \in 1 .. Len(runs[n])
  PROVE  LET before == Len(FlattenSeq(SubSeq(runs, 1, n - 1)))
         IN  /\ before \in Nat
             /\ before + k \in 1 .. Len(FlattenSeq(runs))
             /\ FlattenSeq(runs)[before + k] = runs[n][k]
<1> DEFINE P(i) == FlattenSeq(SubSeq(runs, 1, i))
           before == Len(P(n - 1))
           N == Len(runs)
<1>1. /\ \A i \in 1 .. N : P(i) = P(i - 1) \o runs[i]
      /\ \A i \in 0 .. N : P(i) \in Seq(T)
  BY FlattenPrefixes
<1>2. P(N) = FlattenSeq(runs) /\ N \in Nat /\ \A i \in 1 .. N : runs[i] \in Seq(T)
  <2>1. SubSeq(runs, 1, Len(runs)) = runs
    BY SubSeqFull
  <2>2. N \in Nat /\ \A i \in 1 .. N : runs[i] \in Seq(T)
    OBVIOUS
  <2>3. P(N) = FlattenSeq(runs)
    BY <2>1
  <2> QED
    BY <2>2, <2>3
<1>c. ASSUME NEW u \in Seq(T), NEW v \in Seq(T)
      PROVE  /\ Len(u \o v) = Len(u) + Len(v)
             /\ \A i \in 1 .. Len(u) : (u \o v)[i] = u[i]
             /\ \A i \in 1 .. Len(v) : (u \o v)[Len(u) + i] = v[i]
  OBVIOUS
<1>3. n \in 1 .. N /\ n - 1 \in 0 .. N /\ k \in 1 .. Len(runs[n]) /\ Len(runs[n]) \in Nat
  BY <1>2
<1> HIDE DEF P, N
<1>4. before \in Nat
  BY <1>1, <1>3
<1> DEFINE Holds(i) == before + k \in 1 .. Len(P(i)) /\ P(i)[before + k] = runs[n][k]
<1>5. Holds(n)
  <2>1. P(n) = P(n - 1) \o runs[n] /\ P(n - 1) \in Seq(T) /\ runs[n] \in Seq(T)
    BY <1>1, <1>2, <1>3
  <2>2. /\ Len(P(n)) = before + Len(runs[n])
        /\ \A i \in 1 .. Len(runs[n]) : P(n)[before + i] = runs[n][i]
    BY <1>c, <2>1
  <2>3. before + k \in 1 .. before + Len(runs[n])
    BY <1>3, <1>4
  <2> QED
    BY <1>3, <2>2, <2>3
<1> HIDE DEF before
<1>6. ASSUME NEW i \in n + 1 .. N, Holds(i - 1)
      PROVE  Holds(i)
  <2>0. i \in 1 .. N /\ i - 1 \in 0 .. N
    BY <1>2, <1>3
  <2>1. P(i) = P(i - 1) \o runs[i] /\ P(i - 1) \in Seq(T) /\ runs[i] \in Seq(T)
    BY <1>1, <1>2, <2>0
  <2>2. /\ Len(P(i)) = Len(P(i - 1)) + Len(runs[i])
        /\ \A j \in 1 .. Len(P(i - 1)) : P(i)[j] = P(i - 1)[j]
    BY <1>c, <2>1
  <2>3. Len(P(i - 1)) \in Nat /\ Len(runs[i]) \in Nat
    BY <2>1
  <2>4. before + k \in 1 .. Len(P(i - 1)) /\ P(i - 1)[before + k] = runs[n][k]
    BY <1>6
  <2>5. before + k \in 1 .. Len(P(i))
    <3>1. PICK a \in Nat, c \in Nat : a = Len(P(i - 1)) /\ c = Len(runs[i])
      BY <2>3
    <3>2. before + k \in 1 .. a
      BY <2>4, <3>1
    <3>3. before + k \in 1 .. a + c
      BY <3>2
    <3> QED
      BY <2>2, <3>1, <3>3
  <2>6. P(i)[before + k] = runs[n][k]
    BY <2>2, <2>4
  <2> QED
    BY <2>5, <2>6
<1> HIDE DEF Holds
<1>7. \A i \in n .. N : Holds(i)
  <2> DEFINE bad == {i \in n .. N : ~Holds(i)}
  <2>1. SUFFICES ASSUME bad # {} PROVE FALSE
    OBVIOUS
  <2>2. bad \in SUBSET Nat
    BY <1>3
  <2>3. PICK i \in bad : \A j \in bad : i <= j
    BY <2>1, <2>2, LeastNat
  <2>4. i \in n .. N /\ ~Holds(i) /\ i \in Nat
    BY <1>3
  <2>5. i # n
    BY <1>5, <2>4
  <2>6. i - 1 \in n .. N /\ ~(i <= i - 1) /\ i \in n + 1 .. N
    BY <1>2, <1>3, <2>4, <2>5
  <2>7. i - 1 \notin bad
    BY <2>3, <2>6
  <2>8. Holds(i - 1)
    BY <2>6, <2>7
  <2> QED
    BY <1>6, <2>4, <2>6, <2>8
<1>8. Holds(N)
  BY <1>2, <1>3, <1>7
<1> QED
  BY <1>2, <1>4, <1>8 DEF Holds, before, P

\* How much longer a concatenation gets when at most one sequence grows by one.
LEMMA FlattenGrows ==
  ASSUME NEW T, NEW runs \in Seq(Seq(T)), NEW longer \in Seq(Seq(T)),
         Len(longer) = Len(runs), NEW j \in Int,
         \A i \in 1 .. Len(runs) :
           Len(longer[i]) <= Len(runs[i]) + (IF i = j THEN 1 ELSE 0)
  PROVE  Len(FlattenSeq(longer)) <=
           Len(FlattenSeq(runs)) + (IF j \in 1 .. Len(runs) THEN 1 ELSE 0)
<1> DEFINE P(i) == FlattenSeq(SubSeq(runs, 1, i))
           Q(i) == FlattenSeq(SubSeq(longer, 1, i))
           N == Len(runs)
<1>1. /\ P(0) = <<>> /\ \A i \in 1 .. N : P(i) = P(i - 1) \o runs[i]
      /\ \A i \in 0 .. N : P(i) \in Seq(T)
  BY FlattenPrefixes
<1>2. /\ Q(0) = <<>> /\ \A i \in 1 .. N : Q(i) = Q(i - 1) \o longer[i]
      /\ \A i \in 0 .. N : Q(i) \in Seq(T)
  BY FlattenPrefixes
<1>3. /\ N \in Nat
      /\ \A i \in 1 .. N : runs[i] \in Seq(T) /\ longer[i] \in Seq(T)
  OBVIOUS
<1>4. P(N) = FlattenSeq(runs) /\ Q(N) = FlattenSeq(longer)
  <2>1. SubSeq(runs, 1, Len(runs)) = runs /\ SubSeq(longer, 1, Len(longer)) = longer
    BY SubSeqFull
  <2> QED
    BY <2>1
<1>5. \A i \in 1 .. N : Len(longer[i]) <= Len(runs[i]) + (IF i = j THEN 1 ELSE 0)
  OBVIOUS
<1> DEFINE extra(i) == IF j \in 1 .. i THEN 1 ELSE 0
           Holds(i) == Len(Q(i)) <= Len(P(i)) + extra(i)
<1> HIDE DEF P, Q, N
<1>6. Holds(0)
  BY <1>1, <1>2
<1>7. ASSUME NEW i \in 1 .. N, Holds(i - 1)
      PROVE  Holds(i)
  <2>1. /\ P(i) = P(i - 1) \o runs[i] /\ P(i - 1) \in Seq(T) /\ runs[i] \in Seq(T)
        /\ Q(i) = Q(i - 1) \o longer[i] /\ Q(i - 1) \in Seq(T) /\ longer[i] \in Seq(T)
    <3>1. i \in 1 .. N /\ i - 1 \in 0 .. N
      BY <1>3
    <3> QED
      BY <1>1, <1>2, <1>3, <3>1
  <2>2. /\ Len(P(i)) = Len(P(i - 1)) + Len(runs[i])
        /\ Len(Q(i)) = Len(Q(i - 1)) + Len(longer[i])
    BY <2>1, ConcatProperties
  <2>3. extra(i) = extra(i - 1) + (IF i = j THEN 1 ELSE 0)
    <3>1. i \in Nat /\ j \in Int /\ i - 1 \in Nat
      BY <1>3
    <3> QED
      BY <3>1
  <2>4. /\ Len(P(i - 1)) \in Nat /\ Len(runs[i]) \in Nat
        /\ Len(Q(i - 1)) \in Nat /\ Len(longer[i]) \in Nat
    BY <2>1
  <2>5. Len(longer[i]) <= Len(runs[i]) + (IF i = j THEN 1 ELSE 0)
    BY <1>5
  <2>6. Len(Q(i - 1)) <= Len(P(i - 1)) + extra(i - 1) /\ extra(i - 1) \in Nat
    BY <1>7
  <2> HIDE DEF extra
  <2>7. PICK a \in Nat, b \in Nat, c \in Nat, d \in Nat, e \in Nat :
          a = Len(Q(i - 1)) /\ b = Len(P(i - 1)) /\ c = Len(longer[i]) /\ d = Len(runs[i])
            /\ e = extra(i - 1)
    BY <2>4, <2>6
  <2>8. PICK x \in Nat : x = IF i = j THEN 1 ELSE 0
    OBVIOUS
  <2>9. a <= b + e /\ c <= d + x
    BY <2>5, <2>6, <2>7, <2>8
  <2>10. a + c <= b + d + (e + x)
    BY <2>9
  <2>11. Len(Q(i)) = a + c /\ Len(P(i)) = b + d /\ extra(i) = e + x
    BY <2>2, <2>3, <2>7, <2>8
  <2>12. Len(Q(i)) <= Len(P(i)) + extra(i)
    BY <2>10, <2>11
  <2> QED
    BY <2>12
<1>8. Holds(N)
  <2> DEFINE bad == {i \in 0 .. N : ~Holds(i)}
  <2> HIDE DEF Holds
  <2>1. SUFFICES ASSUME bad # {} PROVE FALSE
    BY <1>3
  <2>2. bad \in SUBSET Nat
    BY <1>3
  <2>3. PICK i \in bad : \A k \in bad : i <= k
    BY <2>1, <2>2, LeastNat
  <2>4. i \in 0 .. N /\ ~Holds(i) /\ i # 0
    BY <1>6
  <2>5. i \in 1 .. N /\ i - 1 \in 0 .. N /\ ~(i <= i - 1)
    BY <1>3, <2>4
  <2>6. i - 1 \notin bad
    BY <2>3, <2>5
  <2>7. Holds(i - 1)
    BY <2>5, <2>6
  <2> QED
    BY <1>7, <2>4, <2>5, <2>7
<1> QED
  BY <1>4, <1>8 DEF N

\* A filtered list has the members that live, and one that lives is not changed.
LEMMA KeepingFilters ==
  ASSUME NEW T, NEW list \in Seq(T), NEW live
  PROVE  /\ Keeping(list, live) \in Seq(T)
         /\ Len(Keeping(list, live)) <= Len(list)
         /\ ToSet(Keeping(list, live)) = ToSet(list) \cap live
         /\ ToSet(list) \subseteq live => Keeping(list, live) = list
<1> DEFINE N == Len(list)
           more(i, prev) == IF i = 0 THEN <<>>
                            ELSE IF list[i] \in live THEN Append(prev, list[i]) ELSE prev
           Kept(f, n) == f = [i \in 0 .. n |-> more(i, f[i - 1])]
<1>1. N \in Nat /\ DOMAIN list = 1 .. N /\ \A i \in 1 .. N : list[i] \in T
  OBVIOUS
<1>2. Keeping(list, live) = (CHOOSE f : Kept(f, N))[N]
  BY DEF Keeping
<1>3. \A prev : more(0, prev) = <<>>
  OBVIOUS
<1>4. \A i \in 1 .. N : \A prev :
        more(i, prev) = IF list[i] \in live THEN Append(prev, list[i]) ELSE prev
  OBVIOUS
<1> HIDE DEF more
<1>5. ASSUME NEW n, NEW f, Kept(f, n)
      PROVE  \A i \in 0 .. n : f[i] = more(i, f[i - 1])
  <2> DEFINE e(i) == more(i, f[i - 1])
  <2>1. f = [i \in 0 .. n |-> e(i)]
    BY <1>5
  <2> HIDE DEF e
  <2>2. \A i \in 0 .. n : f[i] = e(i)
    BY <2>1
  <2> QED
    BY <2>2 DEF e
<1>6. ASSUME NEW n, NEW f, f = [i \in 0 .. n |-> f[i]],
             \A i \in 0 .. n : f[i] = more(i, f[i - 1])
      PROVE  Kept(f, n)
  <2> DEFINE e(i) == more(i, f[i - 1])
  <2>1. f = [i \in 0 .. n |-> f[i]] /\ \A i \in 0 .. n : f[i] = e(i)
    BY <1>6
  <2> HIDE DEF e
  <2>2. f = [i \in 0 .. n |-> e(i)]
    BY <2>1
  <2> QED
    BY <2>2 DEF e
<1> HIDE DEF Kept
<1>7. \A n \in 0 .. N : \E f : Kept(f, n)
  <2> DEFINE bad == {n \in 0 .. N : ~\E f : Kept(f, n)}
  <2>1. SUFFICES ASSUME bad # {} PROVE FALSE
    OBVIOUS
  <2>2. bad \in SUBSET Nat
    BY <1>1
  <2>3. PICK n \in bad : \A k \in bad : n <= k
    BY <2>1, <2>2, LeastNat
  <2>4. n \in 0 .. N /\ ~\E f : Kept(f, n)
    OBVIOUS
  <2>5. \A k \in 0 .. N : k < n => \E f : Kept(f, k)
    <3> TAKE k \in 0 .. N
    <3> HAVE k < n
    <3>1. k \notin bad
      BY <1>1, <2>3, <2>4
    <3> QED
      BY <3>1
  <2> HIDE DEF bad
  <2>6. PICK f : n # 0 => Kept(f, n - 1)
    <3>1. n # 0 => n - 1 \in 0 .. N /\ n - 1 < n
      BY <1>1, <2>4
    <3> QED
      BY <2>5, <3>1
  <2> DEFINE g == [i \in 0 .. n |-> IF i = n THEN more(n, f[n - 1]) ELSE f[i]]
  <2>7. /\ g = [i \in 0 .. n |-> g[i]]
        /\ g[n] = more(n, f[n - 1])
        /\ \A i \in 0 .. n : i # n => g[i] = f[i]
    BY <1>1, <2>4
  <2> HIDE DEF g
  <2>8. \A i \in 0 .. n : g[i] = more(i, g[i - 1])
    <3> TAKE i \in 0 .. n
    <3>1. i = 0 => more(i, g[i - 1]) = more(i, f[i - 1])
      BY <1>3
    <3>2. i # 0 => i - 1 \in 0 .. n /\ i - 1 # n
      BY <1>1, <2>4
    <3>3. more(i, g[i - 1]) = more(i, f[i - 1])
      BY <2>7, <3>1, <3>2
    <3>4. CASE i = n
      BY <2>7, <3>3, <3>4
    <3>5. CASE i # n
      <4>1. n # 0 /\ i \in 0 .. n - 1
        BY <1>1, <2>4, <3>5
      <4>2. f[i] = more(i, f[i - 1])
        BY <1>5, <2>6, <4>1
      <4> QED
        BY <2>7, <3>3, <3>5, <4>2
    <3> QED
      BY <3>4, <3>5
  <2>9. Kept(g, n)
    BY <1>6, <2>7, <2>8
  <2> QED
    BY <2>4, <2>9
<1> DEFINE f == CHOOSE g : Kept(g, N)
           Upto(i) == {list[k] : k \in 1 .. i}
           Good(i) == /\ f[i] \in Seq(T)
                      /\ Len(f[i]) <= i
                      /\ ToSet(f[i]) = Upto(i) \cap live
                      /\ Upto(i) \subseteq live => /\ Len(f[i]) = i
                                                   /\ \A k \in 1 .. i : f[i][k] = list[k]
<1>8. Kept(f, N) /\ Keeping(list, live) = f[N]
  <2>1. \E g : Kept(g, N)
    BY <1>1, <1>7
  <2> QED
    BY <1>2, <2>1
<1>9. f[0] = <<>> /\ \A i \in 1 .. N :
        f[i] = IF list[i] \in live THEN Append(f[i - 1], list[i]) ELSE f[i - 1]
  <2>1. \A i \in 0 .. N : f[i] = more(i, f[i - 1])
    BY <1>5, <1>8
  <2>2. 0 \in 0 .. N /\ \A i \in 1 .. N : i \in 0 .. N
    BY <1>1
  <2>3. f[0] = <<>>
    BY <1>3, <2>1, <2>2
  <2>4. ASSUME NEW i \in 1 .. N
        PROVE  f[i] = IF list[i] \in live THEN Append(f[i - 1], list[i]) ELSE f[i - 1]
    <3>1. f[i] = more(i, f[i - 1])
      BY <2>1, <2>2
    <3> QED
      BY <1>4, <3>1
  <2> QED
    BY <2>3, <2>4
<1> HIDE DEF f
<1>10. Good(0)
  <2>1. Upto(0) = {} /\ ToSet(<<>>) = {}
    BY DEF ToSet
  <2> QED
    BY <1>9, <2>1
<1>11. ASSUME NEW i \in 1 .. N, Good(i - 1)
       PROVE  Good(i)
  <2> DEFINE p == f[i - 1]
             q == f[i]
  <2>1. /\ p \in Seq(T) /\ Len(p) <= i - 1 /\ ToSet(p) = Upto(i - 1) \cap live
        /\ Upto(i - 1) \subseteq live =>
             Len(p) = i - 1 /\ \A k \in 1 .. i - 1 : p[k] = list[k]
    BY <1>11
  <2>2. q = IF list[i] \in live THEN Append(p, list[i]) ELSE p
    BY <1>9
  <2>3. list[i] \in T /\ i \in Nat
    BY <1>1
  <2>4. Upto(i) = Upto(i - 1) \cup {list[i]}
    <3>1. \A k : k \in 1 .. i <=> k \in 1 .. i - 1 \/ k = i
      BY <2>3
    <3> QED
      BY <3>1
  <2> HIDE DEF p, q, Upto
  <2>5. CASE list[i] \in live
    <3>1. q = Append(p, list[i])
      BY <2>2, <2>5
    <3>2. /\ q \in Seq(T) /\ Len(q) = Len(p) + 1 /\ q[Len(p) + 1] = list[i]
          /\ \A k \in 1 .. Len(p) : q[k] = p[k]
      BY <2>1, <2>3, <3>1, AppendProperties
    <3>3. ToSet(q) = ToSet(p) \cup {list[i]}
      <4>1. /\ DOMAIN q = 1 .. Len(p) + 1 /\ DOMAIN p = 1 .. Len(p) /\ Len(p) \in Nat
        BY <2>1, <3>2
      <4>2. \A k : k \in 1 .. Len(p) + 1 <=> k \in 1 .. Len(p) \/ k = Len(p) + 1
        BY <4>1
      <4> QED
        BY <3>2, <4>1, <4>2 DEF ToSet
    <3>4. ToSet(q) = Upto(i) \cap live
      BY <2>1, <2>4, <2>5, <3>3
    <3>5. Upto(i) \subseteq live => Len(q) = i /\ \A k \in 1 .. i : q[k] = list[k]
      <4> HAVE Upto(i) \subseteq live
      <4>1. Len(p) = i - 1 /\ \A k \in 1 .. i - 1 : p[k] = list[k]
        BY <2>1, <2>4
      <4> QED
        BY <2>3, <3>2, <4>1
    <3>6. Len(p) \in Nat
      BY <2>1
    <3> QED
      BY <2>1, <2>3, <3>2, <3>4, <3>5, <3>6 DEF q
  <2>6. CASE list[i] \notin live
    <3>1. q = p /\ ~(Upto(i) \subseteq live) /\ Upto(i) \cap live = Upto(i - 1) \cap live
      BY <2>2, <2>4, <2>6
    <3>2. Len(p) \in Nat
      BY <2>1
    <3> QED
      BY <2>1, <2>3, <3>1, <3>2 DEF q
  <2> QED
    BY <2>5, <2>6
<1>12. Good(N)
  <2> DEFINE bad == {i \in 0 .. N : ~Good(i)}
  <2> HIDE DEF Good
  <2>1. SUFFICES ASSUME bad # {} PROVE FALSE
    BY <1>1
  <2>2. bad \in SUBSET Nat
    BY <1>1
  <2>3. PICK i \in bad : \A k \in bad : i <= k
    BY <2>1, <2>2, LeastNat
  <2>4. i \in 0 .. N /\ ~Good(i) /\ i # 0
    BY <1>10
  <2>5. i \in 1 .. N /\ i - 1 \in 0 .. N /\ ~(i <= i - 1)
    BY <1>1, <2>4
  <2>6. i - 1 \notin bad
    BY <2>3, <2>5
  <2>7. Good(i - 1)
    BY <2>5, <2>6
  <2> QED
    BY <1>11, <2>4, <2>5, <2>7
<1>13. Upto(N) = ToSet(list)
  BY <1>1 DEF ToSet
<1> DEFINE kept == f[N]
<1>14. /\ kept \in Seq(T) /\ Len(kept) <= N /\ ToSet(kept) = ToSet(list) \cap live
       /\ ToSet(list) \subseteq live =>
            Len(kept) = N /\ \A k \in 1 .. N : kept[k] = list[k]
  BY <1>12, <1>13
<1> HIDE DEF kept, Good
<1>15. ToSet(list) \subseteq live => kept = list
  BY <1>14, SeqEqual
<1> QED
  BY <1>8, <1>14, <1>15 DEF kept

(***************************************************************************)
(* The pool and the lists in it.  The runs of the tenants lie below the    *)
(* mark, and there is room below it for all of them end to end: that is    *)
(* why a compaction always fits.  Their contents are an index in both      *)
(* directions.                                                             *)
(***************************************************************************)
RunOK(entry, used) ==
  /\ entry.off \in Nat /\ entry.cnt \in Nat
  /\ entry.off = 0 <=> entry.cnt = 0
  /\ entry.off + entry.cnt - 1 <= used
  /\ ~entry.live => entry.cnt = 0

Rows(m) ==
  [i \in 1 .. HandleCapacity + GrantCapacity |->
     IF i <= HandleCapacity
     THEN IF i - 1 \in LiveHandles(m) THEN HandleList(m, i - 1) ELSE <<>>
     ELSE IF i - HandleCapacity - 1 \in LiveGrants(m)
          THEN GrantList(m, i - HandleCapacity - 1) ELSE <<>>]

PoolShape(m) ==
  /\ m.poolUsed \in 0 .. PoolWords
  /\ m.pool \in [Words -> Int]
  /\ \A s \in HandleSlots : RunOK(m.handles[s], m.poolUsed)
  /\ \A g \in GrantSlots : RunOK(m.grants[g], m.poolUsed)
  /\ DOMAIN m.joined = HandleSlots

PoolOK(m) ==
  /\ PoolShape(m)
  /\ Len(FlattenSeq(Rows(m))) <= m.poolUsed

IndexOK(m) ==
  /\ \A s \in LiveHandles(m) :
       /\ IsInjective(HandleList(m, s))
       /\ ToSet(HandleList(m, s)) \subseteq LiveGrants(m)
       /\ {GrantName(m, g) : g \in ToSet(HandleList(m, s))} = m.joined[s]
  /\ \A g \in LiveGrants(m) : ToSet(GrantList(m, g)) \subseteq LiveHandles(m)
  /\ \A s \in LiveHandles(m), g \in LiveGrants(m) :
       g \in ToSet(HandleList(m, s)) <=> s \in ToSet(GrantList(m, g))

\* A run below the mark reads as a list of its length.
LEMMA ListTyped ==
  ASSUME NEW m, m.pool \in [Words -> Int], m.poolUsed \in 0 .. PoolWords,
         NEW entry, RunOK(entry, m.poolUsed)
  PROVE  /\ ListOf(m, entry) \in Seq(Int)
         /\ Len(ListOf(m, entry)) = entry.cnt
         /\ \A i \in 1 .. entry.cnt : /\ entry.off + i - 1 \in 1 .. m.poolUsed
                                      /\ ListOf(m, entry)[i] = m.pool[entry.off + i - 1]
<1>1. /\ entry.off \in Nat /\ entry.cnt \in Nat /\ PoolWords \in Nat
      /\ entry.off = 0 <=> entry.cnt = 0
      /\ entry.off + entry.cnt - 1 <= m.poolUsed
  BY MembraneAssumption DEF RunOK
<1>2. CASE entry.off = 0
  <2>1. ListOf(m, entry) = <<>> /\ entry.cnt = 0
    BY <1>1, <1>2 DEF ListOf
  <2> QED
    BY <2>1
<1>3. CASE entry.off # 0
  <2>1. \A i \in 1 .. entry.cnt : entry.off + i - 1 \in 1 .. m.poolUsed
    BY <1>1, <1>3
  <2>2. \A i \in 1 .. entry.cnt : m.pool[entry.off + i - 1] \in Int
    BY <1>1, <2>1 DEF Words
  <2>3. ListOf(m, entry) = [i \in 1 .. entry.cnt |-> m.pool[entry.off + i - 1]]
    BY <1>3 DEF ListOf
  <2>4. ListOf(m, entry) \in [1 .. entry.cnt -> Int]
    BY <2>2, <2>3
  <2>5. ListOf(m, entry) \in Seq(Int) /\ Len(ListOf(m, entry)) = entry.cnt
    BY <1>1, <2>4
  <2> QED
    BY <2>1, <2>3, <2>5
<1> QED
  BY <1>2, <1>3

\* It reads the same after anything that leaves its words alone.
LEMMA ListFrame ==
  ASSUME NEW m, NEW x, NEW entry, NEW moved,
         moved.off = entry.off, moved.cnt = entry.cnt,
         \A i \in 1 .. entry.cnt : x.pool[entry.off + i - 1] = m.pool[entry.off + i - 1]
  PROVE  ListOf(x, moved) = ListOf(m, entry)
BY DEF ListOf

\* So do all the lists of a membrane whose pool is in shape.
LEMMA ListsTyped ==
  ASSUME NEW m, PoolShape(m)
  PROVE  /\ \A s \in HandleSlots : /\ HandleList(m, s) \in Seq(Int)
                                   /\ Len(HandleList(m, s)) = m.handles[s].cnt
         /\ \A g \in GrantSlots : /\ GrantList(m, g) \in Seq(Int)
                                  /\ Len(GrantList(m, g)) = m.grants[g].cnt
<1>1. \A s \in HandleSlots : RunOK(m.handles[s], m.poolUsed)
  BY DEF PoolShape
<1>2. \A g \in GrantSlots : RunOK(m.grants[g], m.poolUsed)
  BY DEF PoolShape
<1>3. m.pool \in [Words -> Int] /\ m.poolUsed \in 0 .. PoolWords
  BY DEF PoolShape
<1> QED
  BY <1>1, <1>2, <1>3, ListTyped DEF HandleList, GrantList

\* The rows, one for each slot of each table.
LEMMA RowsTyped ==
  ASSUME NEW m, PoolShape(m)
  PROVE  /\ Rows(m) \in Seq(Seq(Int))
         /\ Len(Rows(m)) = HandleCapacity + GrantCapacity
         /\ \A s \in HandleSlots :
              /\ s + 1 \in 1 .. HandleCapacity + GrantCapacity
              /\ Rows(m)[s + 1] = IF s \in LiveHandles(m) THEN HandleList(m, s) ELSE <<>>
         /\ \A g \in GrantSlots :
              /\ HandleCapacity + g + 1 \in 1 .. HandleCapacity + GrantCapacity
              /\ Rows(m)[HandleCapacity + g + 1] =
                   IF g \in LiveGrants(m) THEN GrantList(m, g) ELSE <<>>
<1>1. HandleCapacity \in Nat /\ GrantCapacity \in Nat
  BY MembraneAssumption
<1> DEFINE n == HandleCapacity + GrantCapacity
<1>2. \A s \in HandleSlots : s \in Int /\ s + 1 \in 1 .. n /\ s + 1 <= HandleCapacity
                             /\ s + 1 - 1 = s
  BY <1>1 DEF HandleSlots
<1>3. \A g \in GrantSlots : /\ g \in Int /\ HandleCapacity + g + 1 \in 1 .. n
                            /\ ~(HandleCapacity + g + 1 <= HandleCapacity)
                            /\ HandleCapacity + g + 1 - HandleCapacity - 1 = g
  BY <1>1 DEF GrantSlots
<1>4. \A i \in 1 .. n : Rows(m)[i] \in Seq(Int)
  <2> TAKE i \in 1 .. n
  <2>1. LiveHandles(m) \subseteq HandleSlots /\ LiveGrants(m) \subseteq GrantSlots
    BY DEF LiveHandles, LiveGrants
  <2>2. <<>> \in Seq(Int)
    OBVIOUS
  <2>3. Rows(m)[i] = IF i <= HandleCapacity
                     THEN IF i - 1 \in LiveHandles(m) THEN HandleList(m, i - 1) ELSE <<>>
                     ELSE IF i - HandleCapacity - 1 \in LiveGrants(m)
                          THEN GrantList(m, i - HandleCapacity - 1) ELSE <<>>
    BY DEF Rows
  <2> QED
    BY <2>1, <2>2, <2>3, ListsTyped
<1>5. Rows(m) \in [1 .. n -> Seq(Int)]
  BY <1>4 DEF Rows
<1>6. Rows(m) \in Seq(Seq(Int)) /\ Len(Rows(m)) = n
  <2>1. n \in Nat
    BY <1>1
  <2> QED
    BY <1>5, <2>1
<1>7. \A s \in HandleSlots :
        Rows(m)[s + 1] = IF s \in LiveHandles(m) THEN HandleList(m, s) ELSE <<>>
  BY <1>2 DEF Rows
<1>8. \A g \in GrantSlots :
        Rows(m)[HandleCapacity + g + 1] = IF g \in LiveGrants(m) THEN GrantList(m, g) ELSE <<>>
  <2> TAKE g \in GrantSlots
  <2> DEFINE i == HandleCapacity + g + 1
  <2>1. i \in 1 .. n /\ ~(i <= HandleCapacity) /\ i - HandleCapacity - 1 = g
    <3>1. g \in 0 .. GrantCapacity - 1 /\ HandleCapacity \in Nat /\ GrantCapacity \in Nat
      BY <1>1 DEF GrantSlots
    <3> QED
      BY <3>1
  <2> HIDE DEF i, n
  <2>2. Rows(m)[i] = IF i <= HandleCapacity
                     THEN IF i - 1 \in LiveHandles(m) THEN HandleList(m, i - 1) ELSE <<>>
                     ELSE IF i - HandleCapacity - 1 \in LiveGrants(m)
                          THEN GrantList(m, i - HandleCapacity - 1) ELSE <<>>
    BY <2>1 DEF Rows, n
  <2> QED
    BY <2>1, <2>2 DEF i
<1> QED
  BY <1>2, <1>3, <1>6, <1>7, <1>8

\* Each row belongs to a slot.
LEMMA RowSlots ==
  ASSUME NEW i \in 1 .. HandleCapacity + GrantCapacity
  PROVE  \/ i - 1 \in HandleSlots /\ i = i - 1 + 1
         \/ /\ i - HandleCapacity - 1 \in GrantSlots
            /\ i = HandleCapacity + (i - HandleCapacity - 1) + 1
BY MembraneAssumption DEF HandleSlots, GrantSlots

\* A concatenation of sequences is one.
LEMMA FlattenTyped ==
  ASSUME NEW T, NEW runs \in Seq(Seq(T))
  PROVE  FlattenSeq(runs) \in Seq(T)
<1>1. Len(runs) \in 0 .. Len(runs)
  OBVIOUS
<1>2. SubSeq(runs, 1, Len(runs)) = runs
  BY SubSeqFull
<1>3. \A i \in 0 .. Len(runs) : FlattenSeq(SubSeq(runs, 1, i)) \in Seq(T)
  BY FlattenPrefixes
<1> QED
  BY <1>1, <1>2, <1>3

\* The two parts of a concatenation.
LEMMA ConcatParts ==
  ASSUME NEW T, NEW u \in Seq(T), NEW v \in Seq(T)
  PROVE  /\ u \o v \in Seq(T) /\ Len(u \o v) = Len(u) + Len(v)
         /\ \A i \in 1 .. Len(u) : (u \o v)[i] = u[i]
         /\ \A i \in 1 .. Len(v) : (u \o v)[Len(u) + i] = v[i]
OBVIOUS

\* A row is as long as its entry says, for a dead entry too.
LEMMA RowLengths ==
  ASSUME NEW m, PoolShape(m)
  PROVE  /\ \A s \in HandleSlots : Len(Rows(m)[s + 1]) = m.handles[s].cnt
         /\ \A g \in GrantSlots : Len(Rows(m)[HandleCapacity + g + 1]) = m.grants[g].cnt
<1>1. Len(<<>>) = 0
  OBVIOUS
<1>2. ASSUME NEW s \in HandleSlots
      PROVE  Len(Rows(m)[s + 1]) = m.handles[s].cnt
  <2>1. s \notin LiveHandles(m) => m.handles[s].cnt = 0
    BY DEF LiveHandles, PoolShape, RunOK
  <2> QED
    BY <1>1, <2>1, RowsTyped, ListsTyped
<1>3. ASSUME NEW g \in GrantSlots
      PROVE  Len(Rows(m)[HandleCapacity + g + 1]) = m.grants[g].cnt
  <2>1. g \notin LiveGrants(m) => m.grants[g].cnt = 0
    BY DEF LiveGrants, PoolShape, RunOK
  <2>2. g \in LiveGrants(m) \/ g \notin LiveGrants(m)
    OBVIOUS
  <2>3. Rows(m)[HandleCapacity + g + 1] = IF g \in LiveGrants(m) THEN GrantList(m, g) ELSE <<>>
    BY RowsTyped
  <2>4. Len(GrantList(m, g)) = m.grants[g].cnt
    BY ListsTyped
  <2> QED
    BY <1>1, <2>1, <2>3, <2>4
<1> QED
  BY <1>2, <1>3

\* How much longer all the lists together get when one grows by one.
LEMMA RowsGrow ==
  ASSUME NEW m, PoolShape(m), NEW x, PoolShape(x), NEW j \in Nat,
         \A s \in HandleSlots :
           x.handles[s].cnt <= m.handles[s].cnt + (IF s + 1 = j THEN 1 ELSE 0),
         \A g \in GrantSlots :
           x.grants[g].cnt <= m.grants[g].cnt + (IF HandleCapacity + g + 1 = j THEN 1 ELSE 0)
  PROVE  /\ j = 0 => Len(FlattenSeq(Rows(x))) <= Len(FlattenSeq(Rows(m)))
         /\ Len(FlattenSeq(Rows(x))) <= Len(FlattenSeq(Rows(m))) + 1
         /\ Len(FlattenSeq(Rows(x))) \in Nat /\ Len(FlattenSeq(Rows(m))) \in Nat
<1> DEFINE n == HandleCapacity + GrantCapacity
<1>1. /\ Rows(m) \in Seq(Seq(Int)) /\ Len(Rows(m)) = n
      /\ Rows(x) \in Seq(Seq(Int)) /\ Len(Rows(x)) = n
  BY RowsTyped
<1>2. ASSUME NEW i \in 1 .. n
      PROVE  Len(Rows(x)[i]) <= Len(Rows(m)[i]) + (IF i = j THEN 1 ELSE 0)
  <2>1. CASE i - 1 \in HandleSlots /\ i = i - 1 + 1
    <3>1. PICK s \in HandleSlots : i = s + 1
      BY <2>1
    <3>2. Len(Rows(x)[s + 1]) = x.handles[s].cnt /\ Len(Rows(m)[s + 1]) = m.handles[s].cnt
      BY RowLengths
    <3> QED
      BY <3>1, <3>2
  <2>2. CASE /\ i - HandleCapacity - 1 \in GrantSlots
             /\ i = HandleCapacity + (i - HandleCapacity - 1) + 1
    <3>1. PICK g \in GrantSlots : i = HandleCapacity + g + 1
      BY <2>2
    <3>2. /\ Len(Rows(x)[HandleCapacity + g + 1]) = x.grants[g].cnt
          /\ Len(Rows(m)[HandleCapacity + g + 1]) = m.grants[g].cnt
      BY RowLengths
    <3> QED
      BY <3>1, <3>2
  <2> QED
    BY <2>1, <2>2, RowSlots
<1>3. Len(FlattenSeq(Rows(x))) <=
        Len(FlattenSeq(Rows(m))) + (IF j \in 1 .. n THEN 1 ELSE 0)
  <2>1. \A i \in 1 .. Len(Rows(m)) :
          Len(Rows(x)[i]) <= Len(Rows(m)[i]) + (IF i = j THEN 1 ELSE 0)
    BY <1>1, <1>2
  <2>2. j \in Int /\ Len(Rows(x)) = Len(Rows(m))
    BY <1>1
  <2>3. Len(FlattenSeq(Rows(x))) <=
          Len(FlattenSeq(Rows(m))) + (IF j \in 1 .. Len(Rows(m)) THEN 1 ELSE 0)
    BY <1>1, <2>1, <2>2, FlattenGrows
  <2> QED
    BY <1>1, <2>3
<1>4. FlattenSeq(Rows(x)) \in Seq(Int) /\ FlattenSeq(Rows(m)) \in Seq(Int)
  BY <1>1, FlattenTyped
<1>5. Len(FlattenSeq(Rows(x))) \in Nat /\ Len(FlattenSeq(Rows(m))) \in Nat
  BY <1>4
<1> QED
  BY <1>3, <1>5

(***************************************************************************)
(* A compaction.                                                           *)
(***************************************************************************)
\* The runs it writes: the lists it keeps, filtered.
LEMMA KeptTyped ==
  ASSUME NEW m, PoolShape(m), NEW liveHandles, NEW liveGrants
  PROVE  LET runs == KeptRuns(m, liveHandles, liveGrants)
         IN  /\ runs \in Seq(Seq(Int))
             /\ Len(runs) = HandleCapacity + GrantCapacity
             /\ \A s \in HandleSlots :
                  runs[s + 1] = IF s \in LiveHandles(m) \cap liveHandles
                                THEN Keeping(HandleList(m, s), liveGrants) ELSE <<>>
             /\ \A g \in GrantSlots :
                  runs[HandleCapacity + g + 1] =
                    IF g \in LiveGrants(m) \cap liveGrants
                    THEN Keeping(GrantList(m, g), liveHandles) ELSE <<>>
<1> DEFINE left(i) == IF i - 1 \in LiveHandles(m) \cap liveHandles
                      THEN Keeping(HandleList(m, i - 1), liveGrants) ELSE <<>>
           right(i) == IF i - 1 \in LiveGrants(m) \cap liveGrants
                       THEN Keeping(GrantList(m, i - 1), liveHandles) ELSE <<>>
           a == [i \in 1 .. HandleCapacity |-> left(i)]
           b == [i \in 1 .. GrantCapacity |-> right(i)]
<1>1. HandleCapacity \in Nat /\ GrantCapacity \in Nat
  BY MembraneAssumption
<1>2. KeptRuns(m, liveHandles, liveGrants) = a \o b
  BY DEF KeptRuns
<1>3. LiveHandles(m) \subseteq HandleSlots /\ LiveGrants(m) \subseteq GrantSlots
  BY DEF LiveHandles, LiveGrants
<1>4. \A i : left(i) \in Seq(Int)
  <2> TAKE i
  <2>1. <<>> \in Seq(Int)
    OBVIOUS
  <2>2. i - 1 \in LiveHandles(m) => Keeping(HandleList(m, i - 1), liveGrants) \in Seq(Int)
    BY <1>3, ListsTyped, KeepingFilters
  <2> QED
    BY <2>1, <2>2
<1>5. \A i : right(i) \in Seq(Int)
  <2> TAKE i
  <2>1. <<>> \in Seq(Int)
    OBVIOUS
  <2>2. i - 1 \in LiveGrants(m) => Keeping(GrantList(m, i - 1), liveHandles) \in Seq(Int)
    BY <1>3, ListsTyped, KeepingFilters
  <2> QED
    BY <2>1, <2>2
<1>6. \A s \in HandleSlots : /\ s + 1 \in 1 .. HandleCapacity
                             /\ left(s + 1) = IF s \in LiveHandles(m) \cap liveHandles
                                THEN Keeping(HandleList(m, s), liveGrants) ELSE <<>>
  <2> TAKE s \in HandleSlots
  <2>1. PICK i : i = s + 1
    OBVIOUS
  <2>2. i - 1 = s /\ i \in 1 .. HandleCapacity
    BY <1>1, <2>1 DEF HandleSlots
  <2>3. left(i) = IF s \in LiveHandles(m) \cap liveHandles
                  THEN Keeping(HandleList(m, s), liveGrants) ELSE <<>>
    BY <2>2
  <2> QED
    BY <2>1, <2>2, <2>3
<1>7. \A g \in GrantSlots : /\ g + 1 \in 1 .. GrantCapacity
                            /\ right(g + 1) = IF g \in LiveGrants(m) \cap liveGrants
                                 THEN Keeping(GrantList(m, g), liveHandles) ELSE <<>>
  <2> TAKE g \in GrantSlots
  <2>1. PICK i : i = g + 1
    OBVIOUS
  <2>2. i - 1 = g /\ i \in 1 .. GrantCapacity
    BY <1>1, <2>1 DEF GrantSlots
  <2>3. right(i) = IF g \in LiveGrants(m) \cap liveGrants
                   THEN Keeping(GrantList(m, g), liveHandles) ELSE <<>>
    BY <2>2
  <2> QED
    BY <2>1, <2>2, <2>3
<1> HIDE DEF left, right
<1>8. /\ a \in Seq(Seq(Int)) /\ Len(a) = HandleCapacity
      /\ \A i \in 1 .. HandleCapacity : a[i] = left(i)
  <2>1. a \in [1 .. HandleCapacity -> Seq(Int)]
    BY <1>4
  <2> QED
    BY <1>1, <2>1
<1>9. /\ b \in Seq(Seq(Int)) /\ Len(b) = GrantCapacity
      /\ \A i \in 1 .. GrantCapacity : b[i] = right(i)
  <2>1. b \in [1 .. GrantCapacity -> Seq(Int)]
    BY <1>5
  <2> QED
    BY <1>1, <2>1
<1> HIDE DEF a, b
<1>10. /\ a \o b \in Seq(Seq(Int)) /\ Len(a \o b) = HandleCapacity + GrantCapacity
       /\ \A i \in 1 .. HandleCapacity : (a \o b)[i] = a[i]
       /\ \A i \in 1 .. GrantCapacity : (a \o b)[HandleCapacity + i] = b[i]
  <2>1. a \in Seq(Seq(Int)) /\ b \in Seq(Seq(Int))
    BY <1>8, <1>9
  <2>2. /\ a \o b \in Seq(Seq(Int)) /\ Len(a \o b) = Len(a) + Len(b)
        /\ \A i \in 1 .. Len(a) : (a \o b)[i] = a[i]
        /\ \A i \in 1 .. Len(b) : (a \o b)[Len(a) + i] = b[i]
    BY <2>1, ConcatParts
  <2>3. Len(a) = HandleCapacity /\ Len(b) = GrantCapacity
    BY <1>8, <1>9
  <2> QED
    BY <2>2, <2>3
<1>11. \A g \in GrantSlots : HandleCapacity + g + 1 = HandleCapacity + (g + 1)
  BY <1>1 DEF GrantSlots
<1> QED
  BY <1>2, <1>6, <1>7, <1>8, <1>9, <1>10, <1>11

\* Where a compaction puts a run, and what it leaves of a slot it frees.
LEMMA CompactedRuns ==
  ASSUME NEW m, MemShape(m), PoolShape(m), NEW liveHandles, NEW liveGrants
  PROVE  LET x == Compacted(m, liveHandles, liveGrants)
             runs == KeptRuns(m, liveHandles, liveGrants)
             packed == FlattenSeq(runs)
             place(i) == IF runs[i] = <<>> THEN 0
                         ELSE Len(FlattenSeq(SubSeq(runs, 1, i - 1))) + 1
         IN  /\ \A s \in HandleSlots :
                  /\ s \in LiveHandles(m) \cap liveHandles =>
                       /\ x.handles[s].off = place(s + 1)
                       /\ x.handles[s].cnt = Len(runs[s + 1])
                  /\ s \notin LiveHandles(m) \cap liveHandles =>
                       x.handles[s].off = 0 /\ x.handles[s].cnt = 0
             /\ \A g \in GrantSlots :
                  /\ g \in LiveGrants(m) \cap liveGrants =>
                       /\ x.grants[g].off = place(HandleCapacity + g + 1)
                       /\ x.grants[g].cnt = Len(runs[HandleCapacity + g + 1])
                  /\ g \notin LiveGrants(m) \cap liveGrants =>
                       x.grants[g].off = 0 /\ x.grants[g].cnt = 0
             /\ x.pool = [w \in Words |-> IF w <= Len(packed) THEN packed[w] ELSE m.pool[w]]
             /\ x.poolUsed = Len(packed)
             /\ x.joined = m.joined
<1> DEFINE x == Compacted(m, liveHandles, liveGrants)
           runs == KeptRuns(m, liveHandles, liveGrants)
           packed == FlattenSeq(runs)
           place(i) == IF runs[i] = <<>> THEN 0
                       ELSE Len(FlattenSeq(SubSeq(runs, 1, i - 1))) + 1
<1>1. /\ x.pool = [w \in Words |-> IF w <= Len(packed) THEN packed[w] ELSE m.pool[w]]
      /\ x.poolUsed = Len(packed)
      /\ x.joined = m.joined
  BY DEF MemShape, MemFields, Compacted
<1>2. \A s \in HandleSlots : s \in LiveHandles(m) \cap liveHandles =>
        x.handles[s] = [m.handles[s] EXCEPT !.off = place(s + 1), !.cnt = Len(runs[s + 1])]
  BY DEF MemShape, MemFields, Compacted
<1>3. \A g \in GrantSlots : g \in LiveGrants(m) \cap liveGrants =>
        x.grants[g] = [m.grants[g] EXCEPT !.off = place(HandleCapacity + g + 1),
                                          !.cnt = Len(runs[HandleCapacity + g + 1])]
  BY DEF MemShape, MemFields, Compacted
<1>4. \A s \in HandleSlots : s \notin LiveHandles(m) \cap liveHandles =>
        x.handles[s] = IF s \in LiveHandles(m) \ liveHandles THEN FreedEntry(m.handles[s])
                       ELSE m.handles[s]
  BY DEF MemShape, MemFields, Compacted
<1>5. \A g \in GrantSlots : g \notin LiveGrants(m) \cap liveGrants =>
        x.grants[g] = IF g \in LiveGrants(m) \ liveGrants
                      THEN [EmptyGrant EXCEPT !.ver = FreedEntry(m.grants[g]).ver]
                      ELSE m.grants[g]
  BY DEF MemShape, MemFields, Compacted
<1> HIDE DEF x, runs, packed, place
<1>6. \A s \in HandleSlots : s \in LiveHandles(m) \cap liveHandles =>
        x.handles[s].off = place(s + 1) /\ x.handles[s].cnt = Len(runs[s + 1])
  BY <1>2 DEF MemShape
<1>7. \A g \in GrantSlots : g \in LiveGrants(m) \cap liveGrants =>
        /\ x.grants[g].off = place(HandleCapacity + g + 1)
        /\ x.grants[g].cnt = Len(runs[HandleCapacity + g + 1])
  BY <1>3 DEF MemShape
<1>8. \A s \in HandleSlots : s \notin LiveHandles(m) \cap liveHandles =>
        x.handles[s].off = 0 /\ x.handles[s].cnt = 0
  <2> TAKE s \in HandleSlots
  <2> HAVE s \notin LiveHandles(m) \cap liveHandles
  <2>1. CASE s \in LiveHandles(m) \ liveHandles
    <3>1. x.handles[s] = FreedEntry(m.handles[s])
      BY <1>4, <2>1
    <3> QED
      BY <3>1 DEF FreedEntry, EmptyEntry
  <2>2. CASE s \notin LiveHandles(m)
    <3>1. x.handles[s] = m.handles[s]
      BY <1>4, <2>2
    <3>2. ~m.handles[s].live /\ RunOK(m.handles[s], m.poolUsed)
      BY <2>2 DEF LiveHandles, PoolShape
    <3> QED
      BY <3>1, <3>2 DEF RunOK
  <2> QED
    BY <2>1, <2>2
<1>9. \A g \in GrantSlots : g \notin LiveGrants(m) \cap liveGrants =>
        x.grants[g].off = 0 /\ x.grants[g].cnt = 0
  <2> TAKE g \in GrantSlots
  <2> HAVE g \notin LiveGrants(m) \cap liveGrants
  <2>1. CASE g \in LiveGrants(m) \ liveGrants
    <3>1. x.grants[g] = [EmptyGrant EXCEPT !.ver = FreedEntry(m.grants[g]).ver]
      BY <1>5, <2>1
    <3> QED
      BY <3>1 DEF EmptyGrant
  <2>2. CASE g \notin LiveGrants(m)
    <3>1. x.grants[g] = m.grants[g]
      BY <1>5, <2>2
    <3>2. ~m.grants[g].live /\ RunOK(m.grants[g], m.poolUsed)
      BY <2>2 DEF LiveGrants, PoolShape
    <3> QED
      BY <3>1, <3>2 DEF RunOK
  <2> QED
    BY <2>1, <2>2
<1> QED
  BY <1>1, <1>6, <1>7, <1>8, <1>9 DEF x, runs, packed, place

\* A run that was packed reads as it was written.
LEMMA PackedReads ==
  ASSUME NEW runs \in Seq(Seq(Int)), NEW i \in 1 .. Len(runs),
         NEW x, NEW entry,
         runs[i] = <<>> => entry.off = 0,
         runs[i] # <<>> => entry.off = Len(FlattenSeq(SubSeq(runs, 1, i - 1))) + 1,
         entry.cnt = Len(runs[i]),
         \A w \in Words : w <= Len(FlattenSeq(runs)) => x.pool[w] = FlattenSeq(runs)[w],
         Len(FlattenSeq(runs)) \in 0 .. PoolWords
  PROVE  /\ ListOf(x, entry) = runs[i]
         /\ entry.off \in Nat /\ entry.cnt \in Nat
         /\ entry.off = 0 <=> entry.cnt = 0
         /\ entry.off + entry.cnt - 1 <= Len(FlattenSeq(runs))
<1>1. runs[i] \in Seq(Int) /\ Len(runs[i]) \in Nat
  OBVIOUS
<1>2. PICK r : r = runs[i]
  OBVIOUS
<1>3. PICK packed : packed = FlattenSeq(runs)
  OBVIOUS
<1>4. r \in Seq(Int) /\ Len(r) \in Nat /\ entry.cnt = Len(r) /\ Len(packed) \in 0 .. PoolWords
  BY <1>1, <1>2, <1>3
<1>5. CASE r = <<>>
  <2>1. entry.off = 0 /\ entry.cnt = 0
    BY <1>2, <1>4, <1>5
  <2>2. ListOf(x, entry) = <<>>
    BY <2>1 DEF ListOf
  <2> QED
    BY <1>2, <1>3, <1>4, <1>5, <2>1, <2>2
<1>6. CASE r # <<>>
  <2>1. PICK before : before = Len(FlattenSeq(SubSeq(runs, 1, i - 1)))
    OBVIOUS
  <2>2. Len(r) # 0
    BY <1>4, <1>6
  <2>3. \A k \in 1 .. Len(r) :
          before \in Nat /\ before + k \in 1 .. Len(packed) /\ packed[before + k] = r[k]
    BY <1>2, <1>3, <2>1, FlattenPlaces
  <2>4. entry.off = before + 1
    BY <1>2, <1>6, <2>1
  <2>5. before \in Nat /\ before + Len(r) <= Len(packed)
    BY <1>4, <2>2, <2>3
  <2>6. entry.off # 0 /\ entry.off \in Nat /\ entry.off + entry.cnt - 1 <= Len(packed)
    BY <1>4, <2>4, <2>5
  <2>7. ListOf(x, entry) = [k \in 1 .. Len(r) |-> x.pool[entry.off + k - 1]]
    BY <1>4, <2>6 DEF ListOf
  <2>8. \A k \in 1 .. Len(r) : x.pool[entry.off + k - 1] = r[k]
    <3> TAKE k \in 1 .. Len(r)
    <3>1. PICK w : w = before + k
      OBVIOUS
    <3>2. entry.off + k - 1 = w /\ w \in Words /\ w <= Len(packed) /\ packed[w] = r[k]
      <4>1. w \in 1 .. Len(packed) /\ packed[w] = r[k] /\ before \in Nat
        BY <2>3, <3>1
      <4>2. w \in Words /\ w <= Len(packed)
        BY <1>4, <4>1, MembraneAssumption DEF Words
      <4>3. entry.off + k - 1 = w
        <5>1. \A a, c \in Nat : a + 1 + c - 1 = a + c
          OBVIOUS
        <5>2. before \in Nat /\ k \in Nat
          BY <1>4, <4>1
        <5> QED
          BY <2>4, <3>1, <5>1, <5>2
      <4> QED
        BY <4>1, <4>2, <4>3
    <3>3. \A v \in Words : v <= Len(packed) => x.pool[v] = packed[v]
      BY <1>3
    <3> QED
      BY <3>2, <3>3
  <2>9. r = [k \in 1 .. Len(r) |-> r[k]]
    BY <1>4
  <2>10. ListOf(x, entry) = r
    BY <2>7, <2>8, <2>9
  <2> QED
    BY <1>2, <1>3, <1>4, <2>2, <2>6, <2>10
<1> QED
  BY <1>5, <1>6

\* A compaction fits, and the lists it keeps read as they did, filtered.
LEMMA CompactedPool ==
  ASSUME NEW m, MemOK(m), PoolOK(m), NEW liveHandles, NEW liveGrants
  PROVE  LET x == Compacted(m, liveHandles, liveGrants)
         IN  /\ PoolOK(x) /\ x.joined = m.joined
             /\ LiveHandles(x) = LiveHandles(m) \cap liveHandles
             /\ LiveGrants(x) = LiveGrants(m) \cap liveGrants
             /\ \A s \in LiveHandles(m) \cap liveHandles :
                  HandleList(x, s) = Keeping(HandleList(m, s), liveGrants)
             /\ \A g \in LiveGrants(m) \cap liveGrants :
                  GrantList(x, g) = Keeping(GrantList(m, g), liveHandles)
<1> DEFINE x == Compacted(m, liveHandles, liveGrants)
           runs == KeptRuns(m, liveHandles, liveGrants)
           packed == FlattenSeq(runs)
           place(i) == IF runs[i] = <<>> THEN 0
                       ELSE Len(FlattenSeq(SubSeq(runs, 1, i - 1))) + 1
           n == HandleCapacity + GrantCapacity
<1>1. PoolShape(m) /\ Len(FlattenSeq(Rows(m))) <= m.poolUsed
  BY DEF PoolOK
<1>2. /\ runs \in Seq(Seq(Int)) /\ Len(runs) = n
      /\ \A s \in HandleSlots :
           runs[s + 1] = IF s \in LiveHandles(m) \cap liveHandles
                         THEN Keeping(HandleList(m, s), liveGrants) ELSE <<>>
      /\ \A g \in GrantSlots :
           runs[HandleCapacity + g + 1] =
             IF g \in LiveGrants(m) \cap liveGrants
             THEN Keeping(GrantList(m, g), liveHandles) ELSE <<>>
  BY <1>1, KeptTyped
<1>3. /\ \A s \in HandleSlots :
           /\ s \in LiveHandles(m) \cap liveHandles =>
                x.handles[s].off = place(s + 1) /\ x.handles[s].cnt = Len(runs[s + 1])
           /\ s \notin LiveHandles(m) \cap liveHandles =>
                x.handles[s].off = 0 /\ x.handles[s].cnt = 0
      /\ \A g \in GrantSlots :
           /\ g \in LiveGrants(m) \cap liveGrants =>
                /\ x.grants[g].off = place(HandleCapacity + g + 1)
                /\ x.grants[g].cnt = Len(runs[HandleCapacity + g + 1])
           /\ g \notin LiveGrants(m) \cap liveGrants =>
                x.grants[g].off = 0 /\ x.grants[g].cnt = 0
      /\ x.pool = [w \in Words |-> IF w <= Len(packed) THEN packed[w] ELSE m.pool[w]]
      /\ x.poolUsed = Len(packed)
      /\ x.joined = m.joined
  BY <1>1, CompactedRuns DEF MemOK
<1>4. /\ LiveHandles(x) = LiveHandles(m) \cap liveHandles
      /\ LiveGrants(x) = LiveGrants(m) \cap liveGrants
  <2>1. TenantsCompacted(m, x, liveHandles, liveGrants)
    BY CompactedTenants DEF MemOK
  <2> HIDE DEF x
  <2>2. \A s \in HandleSlots : x.handles[s].live = (m.handles[s].live /\ s \in liveHandles)
    <3> TAKE s \in HandleSlots
    <3>1. m.handles[s].live \in BOOLEAN
      BY DEF MemOK, TableOK, HandleSlots, GrantSlots
    <3> QED
      BY <2>1, <3>1, Zenon DEF TenantsCompacted
  <2>3. \A g \in GrantSlots : x.grants[g].live = (m.grants[g].live /\ g \in liveGrants)
    <3> TAKE g \in GrantSlots
    <3>1. m.grants[g].live \in BOOLEAN
      BY DEF MemOK, TableOK, HandleSlots, GrantSlots
    <3> QED
      BY <2>1, <3>1, Zenon DEF TenantsCompacted
  <2> QED
    BY <2>2, <2>3, Zenon DEF LiveHandles, LiveGrants
<1>5. /\ Rows(m) \in Seq(Seq(Int)) /\ Len(Rows(m)) = n
      /\ \A s \in HandleSlots :
           /\ s + 1 \in 1 .. n
           /\ Rows(m)[s + 1] = IF s \in LiveHandles(m) THEN HandleList(m, s) ELSE <<>>
      /\ \A g \in GrantSlots :
           /\ HandleCapacity + g + 1 \in 1 .. n
           /\ Rows(m)[HandleCapacity + g + 1] =
                IF g \in LiveGrants(m) THEN GrantList(m, g) ELSE <<>>
  BY <1>1, RowsTyped
<1> HIDE DEF x, runs, n
<1>6. \A list, live : list \in Seq(Int) => Len(Keeping(list, live)) <= Len(list)
  BY KeepingFilters
<1>7. Len(<<>>) = 0 /\ \A list \in Seq(Int) : 0 <= Len(list) /\ Len(list) <= Len(list)
  OBVIOUS
<1>8. \A i \in 1 .. n : Len(runs[i]) <= Len(Rows(m)[i])
  <2> TAKE i \in 1 .. n
  <2>1. ASSUME NEW s \in HandleSlots, i = s + 1
        PROVE  Len(runs[i]) <= Len(Rows(m)[i])
    <3>1. HandleList(m, s) \in Seq(Int)
      BY <1>1, ListsTyped
    <3>2. CASE s \in LiveHandles(m) \cap liveHandles
      <4>1. runs[i] = Keeping(HandleList(m, s), liveGrants) /\ Rows(m)[i] = HandleList(m, s)
        BY <1>2, <1>5, <2>1, <3>2
      <4> QED
        BY <1>6, <3>1, <4>1
    <3>3. CASE s \notin LiveHandles(m) \cap liveHandles
      <4>1. runs[i] = <<>> /\ Rows(m)[i] \in Seq(Int)
        BY <1>2, <1>5, <2>1, <3>3
      <4> QED
        BY <1>7, <4>1
    <3> QED
      BY <3>2, <3>3
  <2>2. ASSUME NEW g \in GrantSlots, i = HandleCapacity + g + 1
        PROVE  Len(runs[i]) <= Len(Rows(m)[i])
    <3>1. GrantList(m, g) \in Seq(Int)
      BY <1>1, ListsTyped
    <3>2. CASE g \in LiveGrants(m) \cap liveGrants
      <4>1. runs[i] = Keeping(GrantList(m, g), liveHandles) /\ Rows(m)[i] = GrantList(m, g)
        BY <1>2, <1>5, <2>2, <3>2
      <4> QED
        BY <1>6, <3>1, <4>1
    <3>3. CASE g \notin LiveGrants(m) \cap liveGrants
      <4>1. runs[i] = <<>> /\ Rows(m)[i] \in Seq(Int)
        BY <1>2, <1>5, <2>2, <3>3
      <4> QED
        BY <1>7, <4>1
    <3> QED
      BY <3>2, <3>3
  <2> QED
    BY <2>1, <2>2, RowSlots DEF n
<1>9. Len(packed) \in 0 .. PoolWords
  <2>1. \A i \in 1 .. Len(Rows(m)) :
          Len(runs[i]) <= Len(Rows(m)[i]) + (IF i = 0 THEN 1 ELSE 0)
    <3> TAKE i \in 1 .. Len(Rows(m))
    <3>1. i # 0 /\ i \in 1 .. n
      BY <1>5
    <3>2. Rows(m)[i] \in Seq(Int) /\ runs[i] \in Seq(Int)
      BY <1>2, <1>5, <3>1
    <3>3. Len(runs[i]) <= Len(Rows(m)[i]) /\ Len(runs[i]) \in Nat /\ Len(Rows(m)[i]) \in Nat
      BY <1>8, <3>1, <3>2
    <3> QED
      BY <3>1, <3>3
  <2>2. Len(runs) = Len(Rows(m)) /\ runs \in Seq(Seq(Int)) /\ Rows(m) \in Seq(Seq(Int))
    BY <1>2, <1>5
  <2>a. 0 \in Int
    OBVIOUS
  <2>3. Len(packed) <= Len(FlattenSeq(Rows(m))) + (IF 0 \in 1 .. Len(Rows(m)) THEN 1 ELSE 0)
    BY <2>1, <2>2, <2>a, FlattenGrows
  <2>4. packed \in Seq(Int) /\ FlattenSeq(Rows(m)) \in Seq(Int)
    BY <1>2, <1>5, FlattenTyped
  <2>5. /\ Len(packed) \in Nat /\ Len(FlattenSeq(Rows(m))) \in Nat
        /\ m.poolUsed \in Nat /\ m.poolUsed <= PoolWords /\ PoolWords \in Nat
    BY <1>1, <2>4, MembraneAssumption DEF PoolShape
  <2>6. ~(0 \in 1 .. Len(Rows(m)))
    OBVIOUS
  <2>7. Len(packed) <= Len(FlattenSeq(Rows(m)))
    BY <2>3, <2>5, <2>6
  <2> QED
    BY <1>1, <2>5, <2>7
<1>10. packed \in Seq(Int)
  BY <1>2, FlattenTyped
<1>11. ASSUME NEW i \in 1 .. n, NEW entry, entry.off = place(i), entry.cnt = Len(runs[i])
       PROVE  /\ ListOf(x, entry) = runs[i]
              /\ entry.off \in Nat /\ entry.cnt \in Nat
              /\ entry.off = 0 <=> entry.cnt = 0
              /\ entry.off + entry.cnt - 1 <= x.poolUsed
  <2>1. i \in 1 .. Len(runs) /\ runs \in Seq(Seq(Int))
    BY <1>2
  <2>2. /\ runs[i] = <<>> => entry.off = 0
        /\ runs[i] # <<>> => entry.off = Len(FlattenSeq(SubSeq(runs, 1, i - 1))) + 1
        /\ entry.cnt = Len(runs[i])
    BY <1>11
  <2>3. x.pool = [w \in Words |-> IF w <= Len(FlattenSeq(runs)) THEN FlattenSeq(runs)[w]
                                  ELSE m.pool[w]]
    BY <1>3
  <2>4. x.poolUsed = Len(FlattenSeq(runs)) /\ Len(FlattenSeq(runs)) \in 0 .. PoolWords
    BY <1>3, <1>9
  <2> HIDE DEF place, packed
  <2>6. \A w \in Words : w <= Len(FlattenSeq(runs)) => x.pool[w] = FlattenSeq(runs)[w]
    BY <2>3
  <2> HIDE <1>11
  <2>7. /\ ListOf(x, entry) = runs[i]
        /\ entry.off \in Nat /\ entry.cnt \in Nat
        /\ entry.off = 0 <=> entry.cnt = 0
        /\ entry.off + entry.cnt - 1 <= Len(FlattenSeq(runs))
    BY <2>1, <2>2, <2>4, <2>6, PackedReads, ZenonT(30)
  <2> QED
    BY <2>4, <2>7
<1> HIDE DEF packed, place
<1>12. \A s \in HandleSlots :
         /\ RunOK(x.handles[s], x.poolUsed)
         /\ s \in LiveHandles(m) \cap liveHandles => HandleList(x, s) = runs[s + 1]
  <2> TAKE s \in HandleSlots
  <2>1. CASE s \in LiveHandles(m) \cap liveHandles
    <3>1. x.handles[s].off = place(s + 1) /\ x.handles[s].cnt = Len(runs[s + 1])
          /\ s + 1 \in 1 .. n
      BY <1>3, <1>5, <2>1
    <3>2. x.handles[s].live
      BY <1>4, <2>1 DEF LiveHandles
    <3> QED
      BY <1>11, <3>1, <3>2 DEF RunOK, HandleList
  <2>2. CASE s \notin LiveHandles(m) \cap liveHandles
    <3>1. x.handles[s].off = 0 /\ x.handles[s].cnt = 0 /\ 0 + 0 - 1 <= x.poolUsed
      BY <1>3, <1>9, <2>2
    <3> QED
      BY <2>2, <3>1 DEF RunOK
  <2> QED
    BY <2>1, <2>2
<1>13. \A g \in GrantSlots :
         /\ RunOK(x.grants[g], x.poolUsed)
         /\ g \in LiveGrants(m) \cap liveGrants =>
              GrantList(x, g) = runs[HandleCapacity + g + 1]
  <2> TAKE g \in GrantSlots
  <2>1. CASE g \in LiveGrants(m) \cap liveGrants
    <3>1. /\ x.grants[g].off = place(HandleCapacity + g + 1)
          /\ x.grants[g].cnt = Len(runs[HandleCapacity + g + 1])
          /\ HandleCapacity + g + 1 \in 1 .. n
      BY <1>3, <1>5, <2>1
    <3>2. x.grants[g].live
      BY <1>4, <2>1 DEF LiveGrants
    <3> QED
      BY <1>11, <3>1, <3>2 DEF RunOK, GrantList
  <2>2. CASE g \notin LiveGrants(m) \cap liveGrants
    <3>1. x.grants[g].off = 0 /\ x.grants[g].cnt = 0 /\ 0 + 0 - 1 <= x.poolUsed
      BY <1>3, <1>9, <2>2
    <3> QED
      BY <2>2, <3>1 DEF RunOK
  <2> QED
    BY <2>1, <2>2
<1>14. x.pool \in [Words -> Int]
  <2>1. \A w \in Words : w <= Len(packed) => packed[w] \in Int
    <3> TAKE w \in Words
    <3> HAVE w <= Len(packed)
    <3>1. w \in 1 .. Len(packed)
      BY <1>9, MembraneAssumption DEF Words
    <3> QED
      BY <1>10, <3>1
  <2>2. \A w \in Words : m.pool[w] \in Int
    BY <1>1 DEF PoolShape
  <2> QED
    BY <1>3, <2>1, <2>2
<1>15. PoolShape(x)
  <2>1. x.poolUsed \in 0 .. PoolWords /\ DOMAIN x.joined = HandleSlots
    BY <1>1, <1>3, <1>9 DEF PoolShape
  <2> QED
    BY <1>12, <1>13, <1>14, <2>1 DEF PoolShape
<1>16. Len(FlattenSeq(Rows(x))) <= x.poolUsed
  <2>1. /\ Rows(x) \in Seq(Seq(Int)) /\ Len(Rows(x)) = n
        /\ \A s \in HandleSlots :
             Rows(x)[s + 1] = IF s \in LiveHandles(x) THEN HandleList(x, s) ELSE <<>>
        /\ \A g \in GrantSlots :
             Rows(x)[HandleCapacity + g + 1] =
               IF g \in LiveGrants(x) THEN GrantList(x, g) ELSE <<>>
    BY <1>15, RowsTyped DEF n
  <2>2. \A i \in 1 .. n : Rows(x)[i] = runs[i]
    <3> TAKE i \in 1 .. n
    <3>1. ASSUME NEW s \in HandleSlots, i = s + 1
          PROVE  Rows(x)[i] = runs[i]
      BY <1>2, <1>4, <1>12, <2>1, <3>1
    <3>2. ASSUME NEW g \in GrantSlots, i = HandleCapacity + g + 1
          PROVE  Rows(x)[i] = runs[i]
      BY <1>2, <1>4, <1>13, <2>1, <3>2
    <3> QED
      BY <3>1, <3>2, RowSlots DEF n
  <2>3. Rows(x) = runs
    BY <1>2, <2>1, <2>2, SeqEqual
  <2>4. Len(packed) \in Nat
    BY <1>9
  <2> QED
    BY <1>3, <2>3, <2>4 DEF packed
<1>17. /\ \A s \in LiveHandles(m) \cap liveHandles :
            HandleList(x, s) = Keeping(HandleList(m, s), liveGrants)
       /\ \A g \in LiveGrants(m) \cap liveGrants :
            GrantList(x, g) = Keeping(GrantList(m, g), liveHandles)
  <2>1. LiveHandles(m) \subseteq HandleSlots /\ LiveGrants(m) \subseteq GrantSlots
    BY DEF LiveHandles, LiveGrants
  <2> QED
    BY <1>2, <1>12, <1>13, <2>1
<1> QED
  BY <1>3, <1>4, <1>15, <1>16, <1>17 DEF PoolOK, x

\* A compaction keeps the grants on every list it keeps, so it loses none of
\* them, and the index it leaves is exact.
LEMMA CompactedForIndex ==
  ASSUME NEW m, MemOK(m), PoolOK(m), IndexOK(m), NEW anchors
  PROVE  PoolOK(CompactedFor(m, anchors)) /\ IndexOK(CompactedFor(m, anchors))
<1> DEFINE liveHandles == anchors.handles
           more == UNION {ToSet(HandleList(m, s)) : s \in liveHandles \cap LiveHandles(m)}
           liveGrants == anchors.grants \cup m.rootGrants \cup more
           x == Compacted(m, liveHandles, liveGrants)
<1>1. CompactedFor(m, anchors) = x
  BY DEF CompactedFor
<1>2. \A s \in LiveHandles(m) \cap liveHandles : ToSet(HandleList(m, s)) \subseteq liveGrants
  OBVIOUS
<1> HIDE DEF liveHandles, liveGrants
<1>3. /\ PoolOK(x) /\ x.joined = m.joined
      /\ LiveHandles(x) = LiveHandles(m) \cap liveHandles
      /\ LiveGrants(x) = LiveGrants(m) \cap liveGrants
      /\ \A s \in LiveHandles(m) \cap liveHandles :
           HandleList(x, s) = Keeping(HandleList(m, s), liveGrants)
      /\ \A g \in LiveGrants(m) \cap liveGrants :
           GrantList(x, g) = Keeping(GrantList(m, g), liveHandles)
  BY CompactedPool
<1>4. TenantsCompacted(m, x, liveHandles, liveGrants)
  BY CompactedTenants DEF MemOK
<1> HIDE DEF x
<1>5. LiveHandles(m) \subseteq HandleSlots /\ LiveGrants(m) \subseteq GrantSlots
  BY DEF LiveHandles, LiveGrants
<1>6. /\ \A s \in HandleSlots : HandleList(m, s) \in Seq(Int)
      /\ \A g \in GrantSlots : GrantList(m, g) \in Seq(Int)
  BY ListsTyped DEF PoolOK
<1>7. \A s \in LiveHandles(x) : HandleList(x, s) = HandleList(m, s)
  <2> TAKE s \in LiveHandles(x)
  <2>1. s \in LiveHandles(m) \cap liveHandles /\ HandleList(m, s) \in Seq(Int)
    BY <1>3, <1>5, <1>6
  <2>2. Keeping(HandleList(m, s), liveGrants) = HandleList(m, s)
    BY <1>2, <2>1, KeepingFilters
  <2> QED
    BY <1>3, <2>1, <2>2
<1>8. \A g \in LiveGrants(x) : ToSet(GrantList(x, g)) = ToSet(GrantList(m, g)) \cap liveHandles
  <2> TAKE g \in LiveGrants(x)
  <2>1. g \in LiveGrants(m) \cap liveGrants /\ GrantList(m, g) \in Seq(Int)
    BY <1>3, <1>5, <1>6
  <2>2. ToSet(Keeping(GrantList(m, g), liveHandles)) = ToSet(GrantList(m, g)) \cap liveHandles
    BY <2>1, KeepingFilters
  <2> QED
    BY <1>3, <2>1, <2>2
<1>9. \A g \in LiveGrants(x) : GrantName(x, g) = GrantName(m, g)
  <2> TAKE g \in LiveGrants(x)
  <2>1. g \in GrantSlots /\ g \in liveGrants
    BY <1>3, <1>5
  <2>2. x.grants[g].ver = m.grants[g].ver
    BY <1>4, <2>1 DEF TenantsCompacted
  <2> QED
    BY <2>2 DEF GrantName
<1>10. ASSUME NEW s \in LiveHandles(x)
       PROVE  /\ IsInjective(HandleList(x, s))
              /\ ToSet(HandleList(x, s)) \subseteq LiveGrants(x)
              /\ {GrantName(x, g) : g \in ToSet(HandleList(x, s))} = x.joined[s]
  <2>1. s \in LiveHandles(m) \cap liveHandles
    BY <1>3
  <2>2. /\ IsInjective(HandleList(m, s))
        /\ ToSet(HandleList(m, s)) \subseteq LiveGrants(m)
        /\ {GrantName(m, g) : g \in ToSet(HandleList(m, s))} = m.joined[s]
    BY <2>1 DEF IndexOK
  <2>3. ToSet(HandleList(m, s)) \subseteq LiveGrants(x)
    BY <1>2, <1>3, <2>1, <2>2
  <2>4. {GrantName(x, g) : g \in ToSet(HandleList(m, s))}
          = {GrantName(m, g) : g \in ToSet(HandleList(m, s))}
    BY <1>9, <2>3
  <2> QED
    BY <1>3, <1>7, <2>2, <2>3, <2>4
<1>11. \A g \in LiveGrants(x) : ToSet(GrantList(x, g)) \subseteq LiveHandles(x)
  <2> TAKE g \in LiveGrants(x)
  <2>1. ToSet(GrantList(m, g)) \subseteq LiveHandles(m)
    BY <1>3 DEF IndexOK
  <2> QED
    BY <1>3, <1>8, <2>1
<1>12. \A s \in LiveHandles(x), g \in LiveGrants(x) :
         g \in ToSet(HandleList(x, s)) <=> s \in ToSet(GrantList(x, g))
  <2> TAKE s \in LiveHandles(x), g \in LiveGrants(x)
  <2>1. s \in LiveHandles(m) /\ s \in liveHandles /\ g \in LiveGrants(m)
    BY <1>3
  <2>2. g \in ToSet(HandleList(m, s)) <=> s \in ToSet(GrantList(m, g))
    BY <2>1 DEF IndexOK
  <2> QED
    BY <1>7, <1>8, <2>1, <2>2
<1>13. IndexOK(x)
  BY <1>10, <1>11, <1>12 DEF IndexOK
<1> QED
  BY <1>1, <1>3, <1>13

\* Only the words of the runs matter,
LEMMA SettledIndex ==
  ASSUME NEW m, MemOK(m), PoolOK(m), IndexOK(m)
  PROVE  PoolOK(Settled(m)) /\ IndexOK(Settled(m))
<1> DEFINE used == (UNION {RunWords(m.handles[s]) : s \in LiveHandles(m)})
                     \cup (UNION {RunWords(m.grants[g]) : g \in LiveGrants(m)})
           pool == [w \in Words |-> IF w \in used THEN m.pool[w] ELSE 0]
           x == Settled(m)
<1>1. /\ x.pool = pool /\ x.handles = m.handles /\ x.grants = m.grants
      /\ x.poolUsed = m.poolUsed /\ x.joined = m.joined
  BY DEF MemOK, MemShape, MemFields, Settled
<1> HIDE DEF x
<1>2. PoolShape(m)
  BY DEF PoolOK
<1>3. pool \in [Words -> Int]
  <2>1. \A w \in Words : m.pool[w] \in Int
    BY <1>2 DEF PoolShape
  <2> HIDE DEF used
  <2> QED
    BY <2>1
<1>4. LiveHandles(x) = LiveHandles(m) /\ LiveGrants(x) = LiveGrants(m)
  BY <1>1 DEF LiveHandles, LiveGrants
<1>5. ASSUME NEW entry, RunOK(entry, m.poolUsed), RunWords(entry) \subseteq used
      PROVE  ListOf(x, entry) = ListOf(m, entry)
  <2>1. \A i \in 1 .. entry.cnt : x.pool[entry.off + i - 1] = m.pool[entry.off + i - 1]
    <3> TAKE i \in 1 .. entry.cnt
    <3>1. PICK w : w = entry.off + i - 1
      OBVIOUS
    <3>2. w \in Words /\ w \in RunWords(entry)
      <4>1. entry.off \in Nat /\ entry.cnt \in Nat /\ i \in Nat /\ i >= 1 /\ i <= entry.cnt
        BY <1>5 DEF RunOK
      <4>2. entry.off # 0
        BY <1>5, <4>1 DEF RunOK
      <4>3. w \in entry.off .. entry.off + entry.cnt - 1 /\ w >= 1
        BY <3>1, <4>1, <4>2
      <4>4. m.poolUsed \in Nat /\ m.poolUsed <= PoolWords /\ PoolWords \in Nat
            /\ entry.off + entry.cnt - 1 <= m.poolUsed
        BY <1>2, <1>5, MembraneAssumption DEF PoolShape, RunOK
      <4> QED
        BY <4>1, <4>3, <4>4 DEF Words, RunWords
    <3>3. w \in used
      BY <1>5, <3>2
    <3> HIDE DEF used
    <3> QED
      BY <1>1, <3>1, <3>2, <3>3
  <2> QED
    BY <2>1, ListFrame
<1>6. \A s \in LiveHandles(m) : HandleList(x, s) = HandleList(m, s)
  <2> TAKE s \in LiveHandles(m)
  <2>1. RunOK(m.handles[s], m.poolUsed) /\ RunWords(m.handles[s]) \subseteq used
    BY <1>2 DEF PoolShape, LiveHandles
  <2> QED
    BY <1>1, <1>5, <2>1 DEF HandleList
<1>7. \A g \in LiveGrants(m) : GrantList(x, g) = GrantList(m, g)
  <2> TAKE g \in LiveGrants(m)
  <2>1. RunOK(m.grants[g], m.poolUsed) /\ RunWords(m.grants[g]) \subseteq used
    BY <1>2 DEF PoolShape, LiveGrants
  <2> QED
    BY <1>1, <1>5, <2>1 DEF GrantList
<1>8. PoolShape(x)
  BY <1>1, <1>2, <1>3 DEF PoolShape
<1>9. Rows(x) = Rows(m)
  BY <1>4, <1>6, <1>7 DEF Rows
<1>10. PoolOK(x)
  BY <1>1, <1>8, <1>9 DEF PoolOK
<1>11. \A g : GrantName(x, g) = GrantName(m, g)
  BY <1>1 DEF GrantName
<1>12. IndexOK(x)
  BY <1>1, <1>4, <1>6, <1>7, <1>11 DEF IndexOK
<1> QED
  BY <1>10, <1>12 DEF x

(***************************************************************************)
(* An append that fits.                                                    *)
(***************************************************************************)
\* The pool after one: the old run again above the mark, and the id behind it.
PoolAppended(m, old, id) ==
  [w \in Words |->
     IF w \in m.poolUsed + 1 .. m.poolUsed + 1 + old.cnt
     THEN IF w = m.poolUsed + 1 + old.cnt THEN id ELSE m.pool[old.off + (w - (m.poolUsed + 1))]
     ELSE m.pool[w]]

RunAppended(m, table, s, id) ==
  [m EXCEPT ![table][s].off = m.poolUsed + 1,
            ![table][s].cnt = m[table][s].cnt + 1,
            !.poolUsed = m.poolUsed + 1 + m[table][s].cnt,
            !.pool = PoolAppended(m, m[table][s], id)]

\* An append with room copies a run that lies below what it writes, so no word
\* it reads is one it wrote.
LEMMA AppendedFits ==
  ASSUME NEW m, m.poolUsed \in Nat, NEW table, NEW s, RunOK(m[table][s], m.poolUsed),
         NEW id, NEW anchors, m.poolUsed + m[table][s].cnt + 1 <= PoolWords
  PROVE  /\ Appended(m, table, s, id, anchors).ok
         /\ Appended(m, table, s, id, anchors).m = RunAppended(m, table, s, id)
<1> DEFINE old == m[table][s]
           new == m.poolUsed + 1
           copy(f, i) == IF i = old.cnt THEN id
                         ELSE LET from == old.off + i
                              IN IF from \in new .. new + i - 1 THEN f[from - new]
                                 ELSE m.pool[from]
           word == CHOOSE f : f = [i \in 0 .. old.cnt |-> copy(f, i)]
           plain(i) == IF i = old.cnt THEN id ELSE m.pool[old.off + i]
<1>0. PICK fits : fits = (m.poolUsed + old.cnt + 1 <= PoolWords)
  OBVIOUS
<1>1. /\ Appended(m, table, s, id, anchors).ok = fits
      /\ Appended(m, table, s, id, anchors).m =
           [m EXCEPT ![table][s].off = new, ![table][s].cnt = old.cnt + 1,
                     !.poolUsed = new + old.cnt,
                     !.pool = [w \in Words |->
                        IF w \in new .. new + old.cnt THEN word[w - new] ELSE m.pool[w]]]
  BY <1>0 DEF Appended, WithRoom
<1>2. /\ old.off \in Nat /\ old.cnt \in Nat /\ m.poolUsed \in Nat
      /\ old.off + old.cnt - 1 <= m.poolUsed /\ (old.off = 0 <=> old.cnt = 0)
  BY DEF RunOK
<1> HIDE DEF old
<1>3. \A f : \A i \in 0 .. old.cnt : copy(f, i) = plain(i)
  <2> TAKE f
  <2> TAKE i \in 0 .. old.cnt
  <2>1. i # old.cnt => ~(old.off + i \in new .. new + i - 1)
    BY <1>2
  <2> QED
    BY <2>1
<1> HIDE DEF copy
<1>4. \A f : [i \in 0 .. old.cnt |-> copy(f, i)] = [i \in 0 .. old.cnt |-> plain(i)]
  BY <1>3
<1>5. word = [i \in 0 .. old.cnt |-> plain(i)]
  BY <1>4
<1> HIDE DEF word
<1>6. \A w \in Words : w \in new .. new + old.cnt =>
        word[w - new] = IF w = new + old.cnt THEN id ELSE m.pool[old.off + (w - new)]
  <2> TAKE w \in Words
  <2> HAVE w \in new .. new + old.cnt
  <2>1. w - new \in 0 .. old.cnt /\ (w - new = old.cnt <=> w = new + old.cnt)
    BY <1>2
  <2> QED
    BY <1>5, <2>1
<1>7. [w \in Words |-> IF w \in new .. new + old.cnt THEN word[w - new] ELSE m.pool[w]]
        = PoolAppended(m, old, id)
  BY <1>6 DEF PoolAppended
<1>8. fits
  BY <1>0 DEF old
<1> QED
  BY <1>1, <1>7, <1>8 DEF old, RunAppended

\* The list that was appended to reads one id longer, the others as before.
LEMMA AppendedLists ==
  ASSUME NEW m, m.poolUsed \in 0 .. PoolWords, m.pool \in [Words -> Int],
         NEW old, RunOK(old, m.poolUsed), m.poolUsed + old.cnt + 1 <= PoolWords,
         NEW id \in Int, NEW x, NEW moved, moved.live,
         moved.off = m.poolUsed + 1, moved.cnt = old.cnt + 1,
         x.poolUsed = m.poolUsed + 1 + old.cnt, x.pool = PoolAppended(m, old, id)
  PROVE  /\ ListOf(x, moved) = Append(ListOf(m, old), id)
         /\ RunOK(moved, x.poolUsed)
         /\ x.pool \in [Words -> Int] /\ x.poolUsed \in 0 .. PoolWords
         /\ \A entry : RunOK(entry, m.poolUsed) =>
              RunOK(entry, x.poolUsed) /\ ListOf(x, entry) = ListOf(m, entry)
<1>1. /\ old.off \in Nat /\ old.cnt \in Nat /\ m.poolUsed \in Nat /\ PoolWords \in Nat
      /\ old.off + old.cnt - 1 <= m.poolUsed /\ (old.off = 0 <=> old.cnt = 0)
  BY MembraneAssumption DEF RunOK
<1>2. PICK u \in Nat, c \in Nat : u = m.poolUsed /\ c = old.cnt /\ u + c + 1 <= PoolWords
  BY <1>1
<1>3. \A w \in Words : x.pool[w] =
        IF w \in u + 1 .. u + 1 + c
        THEN IF w = u + 1 + c THEN id ELSE m.pool[old.off + (w - (u + 1))]
        ELSE m.pool[w]
  BY <1>2 DEF PoolAppended
<1>4. x.poolUsed = u + 1 + c /\ x.poolUsed \in 0 .. PoolWords
  BY <1>1, <1>2
<1>5. x.pool \in [Words -> Int]
  <2>1. x.pool = [w \in Words |-> x.pool[w]]
    BY DEF PoolAppended
  <2>2. \A w \in Words : x.pool[w] \in Int
    <3> TAKE w \in Words
    <3>1. CASE w \in u + 1 .. u + 1 + c /\ w # u + 1 + c
      <4>1. old.off + (w - (u + 1)) \in Words
        <5>1. PICK o \in Nat : o = old.off
          BY <1>1
        <5>2. c # 0
          BY <1>2, <3>1
        <5>3. o >= 1 /\ o + c - 1 <= u /\ u <= PoolWords
          BY <1>1, <1>2, <5>1, <5>2
        <5>4. w \in Int
          BY DEF Words
        <5>5. PICK p \in Nat : p = PoolWords
          BY <1>1
        <5>6. o + (w - (u + 1)) \in 1 .. p
          BY <3>1, <5>3, <5>4, <5>5
        <5> QED
          BY <5>1, <5>5, <5>6 DEF Words
      <4>2. x.pool[w] = m.pool[old.off + (w - (u + 1))]
        BY <1>3, <3>1
      <4> QED
        BY <4>1, <4>2
    <3>2. CASE ~(w \in u + 1 .. u + 1 + c /\ w # u + 1 + c)
      <4>1. x.pool[w] = id \/ x.pool[w] = m.pool[w]
        BY <1>3, <3>2
      <4> QED
        BY <4>1
    <3> QED
      BY <3>1, <3>2
  <2> QED
    BY <2>1, <2>2
<1>6. RunOK(moved, x.poolUsed)
  BY <1>1, <1>2, <1>4 DEF RunOK
<1>7. \A w \in 1 .. u : w \in Words /\ x.pool[w] = m.pool[w]
  <2> TAKE w \in 1 .. u
  <2>1. w \in Words /\ ~(w \in u + 1 .. u + 1 + c)
    BY <1>1, <1>2 DEF Words
  <2> QED
    BY <1>3, <2>1
<1>8. ASSUME NEW entry, RunOK(entry, m.poolUsed)
      PROVE  RunOK(entry, x.poolUsed) /\ ListOf(x, entry) = ListOf(m, entry)
  <2>1. RunOK(entry, x.poolUsed)
    <3>1. entry.off \in Nat /\ entry.cnt \in Nat /\ entry.off + entry.cnt - 1 <= u
      BY <1>2, <1>8 DEF RunOK
    <3>2. entry.off + entry.cnt - 1 <= u + 1 + c
      BY <3>1
    <3> QED
      BY <1>4, <1>8, <3>2 DEF RunOK
  <2>2. \A i \in 1 .. entry.cnt : entry.off + i - 1 \in 1 .. u
    BY <1>2, <1>8, ListTyped
  <2>3. \A i \in 1 .. entry.cnt : x.pool[entry.off + i - 1] = m.pool[entry.off + i - 1]
    BY <1>7, <2>2
  <2> QED
    BY <2>1, <2>3, ListFrame
<1>9. ListOf(x, moved) = Append(ListOf(m, old), id)
  <2>1. PICK list : list = ListOf(m, old)
    OBVIOUS
  <2>2. /\ list \in Seq(Int) /\ Len(list) = c
        /\ \A i \in 1 .. c : list[i] = m.pool[old.off + i - 1]
    BY <1>2, <2>1, ListTyped
  <2>3. ListOf(x, moved) = [i \in 1 .. c + 1 |-> x.pool[u + 1 + i - 1]]
    <3>1. moved.off = u + 1 /\ moved.off # 0 /\ moved.cnt = c + 1
      BY <1>2
    <3> QED
      BY <3>1 DEF ListOf
  <2>4. \A i \in 1 .. c + 1 : x.pool[u + 1 + i - 1] = IF i = c + 1 THEN id ELSE list[i]
    <3> TAKE i \in 1 .. c + 1
    <3>1. PICK w : w = u + 1 + i - 1
      OBVIOUS
    <3>2. w \in Words /\ w \in u + 1 .. u + 1 + c /\ (w = u + 1 + c <=> i = c + 1)
      <4>1. PICK p \in Nat : p = PoolWords
        BY <1>1
      <4>2. w \in 1 .. p /\ w \in u + 1 .. u + 1 + c /\ (w = u + 1 + c <=> i = c + 1)
        BY <1>2, <3>1, <4>1
      <4> QED
        BY <4>1, <4>2 DEF Words
    <3>3. PICK o \in Nat : o = old.off
      BY <1>1
    <3>4. o + (w - (u + 1)) = o + i - 1
      BY <3>1
    <3>5. i # c + 1 => i \in 1 .. c
      OBVIOUS
    <3>6. x.pool[w] = IF w = u + 1 + c THEN id ELSE m.pool[old.off + (w - (u + 1))]
      BY <1>3, <3>2
    <3> QED
      BY <2>2, <3>1, <3>2, <3>3, <3>4, <3>5, <3>6
  <2>5. /\ Append(list, id) \in Seq(Int) /\ Len(Append(list, id)) = c + 1
        /\ \A i \in 1 .. c : Append(list, id)[i] = list[i]
        /\ Append(list, id)[c + 1] = id
    BY <2>2, AppendProperties
  <2>6. Append(list, id) = [i \in 1 .. c + 1 |-> Append(list, id)[i]]
    <3>1. PICK longer : longer = Append(list, id)
      OBVIOUS
    <3>2. longer \in Seq(Int) /\ Len(longer) = c + 1
      BY <2>5, <3>1
    <3>3. longer = [i \in 1 .. c + 1 |-> longer[i]]
      BY <3>2
    <3> QED
      BY <3>1, <3>3
  <2>7. \A i \in 1 .. c + 1 : Append(list, id)[i] = IF i = c + 1 THEN id ELSE list[i]
    <3> TAKE i \in 1 .. c + 1
    <3>1. i = c + 1 \/ i \in 1 .. c
      OBVIOUS
    <3> QED
      BY <2>5, <3>1
  <2> QED
    BY <2>1, <2>3, <2>4, <2>6, <2>7
<1> QED
  BY <1>4, <1>5, <1>6, <1>8, <1>9

\* An append to the list of a handle, with room for it,
LEMMA AppendedToHandle ==
  ASSUME NEW m, MemOK(m), PoolOK(m), NEW s \in LiveHandles(m), NEW id \in Int, NEW anchors,
         m.poolUsed + m.handles[s].cnt + 1 <= PoolWords
  PROVE  LET a == Appended(m, "handles", s, id, anchors)
         IN  /\ a.ok /\ MemOK(a.m) /\ SameMembrane(m, a.m) /\ PoolOK(a.m)
             /\ a.m.joined = m.joined /\ a.m.grants = m.grants
             /\ a.m.poolUsed = m.poolUsed + m.handles[s].cnt + 1
             /\ HandleList(a.m, s) = Append(HandleList(m, s), id)
             /\ \A i \in HandleSlots \ {s} : HandleList(a.m, i) = HandleList(m, i)
             /\ \A g \in GrantSlots : GrantList(a.m, g) = GrantList(m, g)
<1>t. PICK table \in {"handles", "grants"} : table = "handles"
  OBVIOUS
<1> DEFINE old == m.handles[s]
           x == RunAppended(m, table, s, id)
<1>0. s \in HandleSlots /\ m.handles[s].live
  BY DEF LiveHandles
<1>1. PoolShape(m) /\ RunOK(old, m.poolUsed) /\ m.poolUsed \in Nat /\ PoolWords \in Nat
      /\ m.poolUsed \in 0 .. PoolWords /\ m.pool \in [Words -> Int]
  BY <1>0, MembraneAssumption DEF PoolOK, PoolShape
<1>2. /\ Appended(m, "handles", s, id, anchors).ok
      /\ Appended(m, "handles", s, id, anchors).m = x
  <2>1. RunOK(m[table][s], m.poolUsed) /\ m.poolUsed + m[table][s].cnt + 1 <= PoolWords
    BY <1>1, <1>t
  <2>2. /\ Appended(m, table, s, id, anchors).ok
        /\ Appended(m, table, s, id, anchors).m = x
    BY <1>1, <2>1, AppendedFits
  <2>3. Appended(m, table, s, id, anchors) = Appended(m, "handles", s, id, anchors)
    BY <1>t
  <2> QED
    BY <2>2, <2>3
<1>3. MemOK(x) /\ SameMembrane(m, x)
  BY <1>0, <1>t, RunMovedOK DEF RunAppended
<1>4. /\ x.handles = [m.handles EXCEPT ![s] = [old EXCEPT !.off = m.poolUsed + 1,
                                                          !.cnt = old.cnt + 1]]
      /\ x.grants = m.grants /\ x.joined = m.joined
      /\ x.poolUsed = m.poolUsed + 1 + old.cnt
      /\ x.pool = PoolAppended(m, old, id)
  BY <1>t DEF RunAppended, MemOK, MemShape, MemFields
<1> HIDE DEF x
<1>5. /\ x.handles[s].off = m.poolUsed + 1 /\ x.handles[s].cnt = old.cnt + 1
      /\ x.handles[s].live
      /\ \A i \in HandleSlots \ {s} : x.handles[i] = m.handles[i]
  <2>1. DOMAIN m.handles = HandleSlots /\ DOMAIN old = {"ver", "live", "off", "cnt"}
    BY <1>0 DEF MemOK, MemShape
  <2> HIDE DEF old
  <2>2. /\ x.handles[s] = [old EXCEPT !.off = m.poolUsed + 1, !.cnt = old.cnt + 1]
        /\ \A i \in HandleSlots \ {s} : x.handles[i] = m.handles[i]
    <3> DEFINE e == [old EXCEPT !.off = m.poolUsed + 1, !.cnt = old.cnt + 1]
    <3>1. x.handles = [m.handles EXCEPT ![s] = e]
      BY <1>4
    <3> HIDE DEF e
    <3>2. x.handles[s] = e /\ \A i \in HandleSlots \ {s} : x.handles[i] = m.handles[i]
      BY <1>0, <2>1, <3>1
    <3> QED
      BY <3>2 DEF e
  <2>3. old.live
    BY <1>0 DEF old
  <2> QED
    BY <2>1, <2>2, <2>3
<1> HIDE DEF old
<1>6. m.poolUsed + old.cnt + 1 <= PoolWords
  BY DEF old
<1>7. /\ ListOf(x, x.handles[s]) = Append(ListOf(m, old), id)
      /\ RunOK(x.handles[s], x.poolUsed)
      /\ x.pool \in [Words -> Int] /\ x.poolUsed \in 0 .. PoolWords
      /\ \A entry : RunOK(entry, m.poolUsed) =>
           RunOK(entry, x.poolUsed) /\ ListOf(x, entry) = ListOf(m, entry)
  BY <1>1, <1>4, <1>5, <1>6, AppendedLists
<1>8. /\ \A i \in HandleSlots : RunOK(m.handles[i], m.poolUsed)
      /\ \A g \in GrantSlots : RunOK(m.grants[g], m.poolUsed)
      /\ DOMAIN m.joined = HandleSlots
  BY <1>1 DEF PoolShape
<1>9. \A i \in HandleSlots : RunOK(x.handles[i], x.poolUsed)
  BY <1>5, <1>7, <1>8
<1>10. \A g \in GrantSlots : RunOK(x.grants[g], x.poolUsed)
  BY <1>4, <1>7, <1>8
<1>11. PoolShape(x)
  BY <1>4, <1>7, <1>8, <1>9, <1>10 DEF PoolShape
<1>12. Len(FlattenSeq(Rows(x))) <= x.poolUsed
  <2>1. \A i \in HandleSlots :
          x.handles[i].cnt <= m.handles[i].cnt + (IF i + 1 = s + 1 THEN 1 ELSE 0)
    <3> TAKE i \in HandleSlots
    <3>1. m.handles[i].cnt \in Nat
      BY <1>8 DEF RunOK
    <3>2. CASE i = s
      BY <1>5, <3>1, <3>2 DEF old
    <3>3. CASE i # s
      BY <1>5, <3>1, <3>3
    <3> QED
      BY <3>2, <3>3
  <2>2. \A g \in GrantSlots :
          x.grants[g].cnt <= m.grants[g].cnt + (IF HandleCapacity + g + 1 = s + 1 THEN 1 ELSE 0)
    <3> TAKE g \in GrantSlots
    <3>1. m.grants[g].cnt \in Nat
      BY <1>8 DEF RunOK
    <3> QED
      BY <1>4, <3>1
  <2>3. s + 1 \in Nat
    BY <1>0, MembraneAssumption DEF HandleSlots
  <2>4. /\ Len(FlattenSeq(Rows(x))) <= Len(FlattenSeq(Rows(m))) + 1
        /\ Len(FlattenSeq(Rows(x))) \in Nat /\ Len(FlattenSeq(Rows(m))) \in Nat
    BY <1>1, <1>11, <2>1, <2>2, <2>3, RowsGrow
  <2>5. Len(FlattenSeq(Rows(m))) <= m.poolUsed /\ old.cnt \in Nat
    BY <1>1 DEF PoolOK, RunOK
  <2>6. PICK a \in Nat, b \in Nat, c \in Nat, u \in Nat :
          a = Len(FlattenSeq(Rows(x))) /\ b = Len(FlattenSeq(Rows(m))) /\ c = old.cnt
            /\ u = m.poolUsed
    BY <1>1, <2>4, <2>5
  <2>7. a <= u + 1 + c
    BY <2>4, <2>5, <2>6
  <2> QED
    BY <1>4, <2>6, <2>7
<1>13. PoolOK(x)
  BY <1>11, <1>12 DEF PoolOK
<1>14. /\ HandleList(x, s) = Append(HandleList(m, s), id)
       /\ \A i \in HandleSlots \ {s} : HandleList(x, i) = HandleList(m, i)
  <2>1. HandleList(x, s) = Append(HandleList(m, s), id)
    BY <1>7 DEF HandleList, old
  <2>2. \A i \in HandleSlots \ {s} : HandleList(x, i) = HandleList(m, i)
    BY <1>5, <1>7, <1>8 DEF HandleList
  <2> QED
    BY <2>1, <2>2
<1>15. \A g \in GrantSlots : GrantList(x, g) = GrantList(m, g)
  BY <1>4, <1>7, <1>8 DEF GrantList
<1>16. x.poolUsed = m.poolUsed + m.handles[s].cnt + 1
  <2>1. old.cnt \in Nat
    BY <1>1 DEF RunOK
  <2>2. x.poolUsed = m.poolUsed + old.cnt + 1
    BY <1>1, <1>4, <2>1
  <2> QED
    BY <2>2 DEF old
<1>17. x.joined = m.joined /\ x.grants = m.grants
  BY <1>4
<1> QED
  BY <1>2, <1>3, <1>13, <1>14, <1>15, <1>16, <1>17

\* and one to the list of a grant.
LEMMA AppendedToGrant ==
  ASSUME NEW m, MemOK(m), PoolOK(m), NEW g \in LiveGrants(m), NEW id \in Int, NEW anchors,
         m.poolUsed + m.grants[g].cnt + 1 <= PoolWords
  PROVE  LET a == Appended(m, "grants", g, id, anchors)
         IN  /\ a.ok /\ MemOK(a.m) /\ SameMembrane(m, a.m) /\ PoolOK(a.m)
             /\ a.m.joined = m.joined /\ a.m.handles = m.handles
             /\ GrantList(a.m, g) = Append(GrantList(m, g), id)
             /\ \A i \in GrantSlots \ {g} : GrantList(a.m, i) = GrantList(m, i)
             /\ \A s \in HandleSlots : HandleList(a.m, s) = HandleList(m, s)
<1>t. PICK table \in {"handles", "grants"} : table = "grants"
  OBVIOUS
<1> DEFINE old == m.grants[g]
           x == RunAppended(m, table, g, id)
<1>0. g \in GrantSlots /\ m.grants[g].live
  BY DEF LiveGrants
<1>1. PoolShape(m) /\ RunOK(old, m.poolUsed) /\ m.poolUsed \in Nat /\ PoolWords \in Nat
      /\ m.poolUsed \in 0 .. PoolWords /\ m.pool \in [Words -> Int]
  BY <1>0, MembraneAssumption DEF PoolOK, PoolShape
<1>2. /\ Appended(m, "grants", g, id, anchors).ok
      /\ Appended(m, "grants", g, id, anchors).m = x
  <2>1. RunOK(m[table][g], m.poolUsed) /\ m.poolUsed + m[table][g].cnt + 1 <= PoolWords
    BY <1>1, <1>t
  <2>2. /\ Appended(m, table, g, id, anchors).ok
        /\ Appended(m, table, g, id, anchors).m = x
    BY <1>1, <2>1, AppendedFits
  <2>3. Appended(m, table, g, id, anchors) = Appended(m, "grants", g, id, anchors)
    BY <1>t
  <2> QED
    BY <2>2, <2>3
<1>3. MemOK(x) /\ SameMembrane(m, x)
  BY <1>0, <1>t, RunMovedOK DEF RunAppended
<1>4. /\ x.grants = [m.grants EXCEPT ![g] = [old EXCEPT !.off = m.poolUsed + 1,
                                                        !.cnt = old.cnt + 1]]
      /\ x.handles = m.handles /\ x.joined = m.joined
      /\ x.poolUsed = m.poolUsed + 1 + old.cnt
      /\ x.pool = PoolAppended(m, old, id)
  BY <1>t DEF RunAppended, MemOK, MemShape, MemFields
<1> HIDE DEF x
<1>5. /\ x.grants[g].off = m.poolUsed + 1 /\ x.grants[g].cnt = old.cnt + 1
      /\ x.grants[g].live
      /\ \A i \in GrantSlots \ {g} : x.grants[i] = m.grants[i]
  <2>1. /\ DOMAIN m.grants = GrantSlots
        /\ DOMAIN old = {"ver", "live", "off", "cnt", "revoked", "root"}
    BY <1>0 DEF MemOK, MemShape
  <2> HIDE DEF old
  <2>2. /\ x.grants[g] = [old EXCEPT !.off = m.poolUsed + 1, !.cnt = old.cnt + 1]
        /\ \A i \in GrantSlots \ {g} : x.grants[i] = m.grants[i]
    <3> DEFINE e == [old EXCEPT !.off = m.poolUsed + 1, !.cnt = old.cnt + 1]
    <3>1. x.grants = [m.grants EXCEPT ![g] = e]
      BY <1>4
    <3> HIDE DEF e
    <3>2. x.grants[g] = e /\ \A i \in GrantSlots \ {g} : x.grants[i] = m.grants[i]
      BY <1>0, <2>1, <3>1
    <3> QED
      BY <3>2 DEF e
  <2>3. old.live
    BY <1>0 DEF old
  <2> QED
    BY <2>1, <2>2, <2>3
<1> HIDE DEF old
<1>6. m.poolUsed + old.cnt + 1 <= PoolWords
  BY DEF old
<1>7. /\ ListOf(x, x.grants[g]) = Append(ListOf(m, old), id)
      /\ RunOK(x.grants[g], x.poolUsed)
      /\ x.pool \in [Words -> Int] /\ x.poolUsed \in 0 .. PoolWords
      /\ \A entry : RunOK(entry, m.poolUsed) =>
           RunOK(entry, x.poolUsed) /\ ListOf(x, entry) = ListOf(m, entry)
  BY <1>1, <1>4, <1>5, <1>6, AppendedLists
<1>8. /\ \A i \in HandleSlots : RunOK(m.handles[i], m.poolUsed)
      /\ \A i \in GrantSlots : RunOK(m.grants[i], m.poolUsed)
      /\ DOMAIN m.joined = HandleSlots
  BY <1>1 DEF PoolShape
<1>9. \A i \in HandleSlots : RunOK(x.handles[i], x.poolUsed)
  BY <1>4, <1>7, <1>8
<1>10. \A i \in GrantSlots : RunOK(x.grants[i], x.poolUsed)
  BY <1>5, <1>7, <1>8
<1>11. PoolShape(x)
  BY <1>4, <1>7, <1>8, <1>9, <1>10 DEF PoolShape
<1>12. Len(FlattenSeq(Rows(x))) <= x.poolUsed
  <2> DEFINE j == HandleCapacity + g + 1
  <2>0. /\ j \in Nat
        /\ \A i \in GrantSlots : HandleCapacity + i + 1 = j <=> i = g
    BY <1>0, MembraneAssumption DEF GrantSlots
  <2> HIDE DEF j
  <2>1. \A i \in HandleSlots :
          x.handles[i].cnt <= m.handles[i].cnt + (IF i + 1 = j THEN 1 ELSE 0)
    <3> TAKE i \in HandleSlots
    <3>1. m.handles[i].cnt \in Nat
      BY <1>8 DEF RunOK
    <3> QED
      BY <1>4, <3>1
  <2>2. \A i \in GrantSlots :
          x.grants[i].cnt <= m.grants[i].cnt + (IF HandleCapacity + i + 1 = j THEN 1 ELSE 0)
    <3> TAKE i \in GrantSlots
    <3>1. m.grants[i].cnt \in Nat
      BY <1>8 DEF RunOK
    <3>2. CASE i = g
      <4>1. x.grants[i].cnt = m.grants[i].cnt + 1 /\ HandleCapacity + i + 1 = j
        BY <1>5, <2>0, <3>2 DEF old
      <4> QED
        BY <3>1, <4>1
    <3>3. CASE i # g
      BY <1>5, <3>1, <3>3
    <3> QED
      BY <3>2, <3>3
  <2>4. /\ Len(FlattenSeq(Rows(x))) <= Len(FlattenSeq(Rows(m))) + 1
        /\ Len(FlattenSeq(Rows(x))) \in Nat /\ Len(FlattenSeq(Rows(m))) \in Nat
    BY <1>1, <1>11, <2>0, <2>1, <2>2, RowsGrow
  <2>5. Len(FlattenSeq(Rows(m))) <= m.poolUsed /\ old.cnt \in Nat
    BY <1>1 DEF PoolOK, RunOK
  <2>6. PICK a \in Nat, b \in Nat, c \in Nat, u \in Nat :
          a = Len(FlattenSeq(Rows(x))) /\ b = Len(FlattenSeq(Rows(m))) /\ c = old.cnt
            /\ u = m.poolUsed
    BY <1>1, <2>4, <2>5
  <2>7. a <= u + 1 + c
    BY <2>4, <2>5, <2>6
  <2> QED
    BY <1>4, <2>6, <2>7
<1>13. PoolOK(x)
  BY <1>11, <1>12 DEF PoolOK
<1>14. /\ GrantList(x, g) = Append(GrantList(m, g), id)
       /\ \A i \in GrantSlots \ {g} : GrantList(x, i) = GrantList(m, i)
  <2>1. GrantList(x, g) = Append(GrantList(m, g), id)
    BY <1>7 DEF GrantList, old
  <2>2. \A i \in GrantSlots \ {g} : GrantList(x, i) = GrantList(m, i)
    BY <1>5, <1>7, <1>8 DEF GrantList
  <2> QED
    BY <2>1, <2>2
<1>15. \A s \in HandleSlots : HandleList(x, s) = HandleList(m, s)
  BY <1>4, <1>7, <1>8 DEF HandleList
<1>17. x.joined = m.joined /\ x.handles = m.handles
  BY <1>4
<1> QED
  BY <1>2, <1>3, <1>13, <1>14, <1>15, <1>17

(***************************************************************************)
(* The operations.                                                         *)
(***************************************************************************)
ListsOK(m) == MemOK(m) /\ PoolOK(m) /\ IndexOK(m)

\* Joining a handle and a grant when both appends fit makes each the last on
\* the other's list and notes the name; it is what the index asks for.
LEMMA HandleAddedIndex ==
  ASSUME NEW m, ListsOK(m), NEW g \in LiveGrants(m), NEW s \in LiveHandles(m), NEW anchors,
         g \in ToSet(HandleList(m, s)) \/ AppendsFit(m, g, s)
  PROVE  ListsOK(HandleAdded(m, g, s, anchors))
<1>1. MemOK(m) /\ PoolOK(m) /\ IndexOK(m) /\ PoolShape(m)
  BY DEF ListsOK, PoolOK
<1>2. CASE g \in ToSet(HandleList(m, s))
  BY <1>2 DEF HandleAdded
<1>3. CASE g \notin ToSet(HandleList(m, s))
  <2> DEFINE first == Appended(m, "handles", s, g, anchors)
             f == first.m
             noted == [f EXCEPT !.joined[s] = @ \cup {GrantName(m, g)}]
             second == Appended(noted, "grants", g, s, anchors)
             x == second.m
  <2>0. s \in HandleSlots /\ g \in GrantSlots /\ s \in Int /\ g \in Int
    BY MembraneAssumption DEF LiveHandles, LiveGrants, HandleSlots, GrantSlots
  <2>1. /\ m.handles[s].cnt \in Nat /\ m.grants[g].cnt \in Nat
        /\ m.poolUsed \in Nat /\ PoolWords \in Nat
        /\ m.poolUsed + m.handles[s].cnt + m.grants[g].cnt + 2 <= PoolWords
    BY <1>1, <1>3, <2>0, MembraneAssumption DEF PoolShape, RunOK, AppendsFit
  <2>2. m.poolUsed + m.handles[s].cnt + 1 <= PoolWords
    BY <2>1
  <2>3. /\ first.ok /\ MemOK(f) /\ SameMembrane(m, f) /\ PoolOK(f)
        /\ f.joined = m.joined /\ f.grants = m.grants
        /\ f.poolUsed = m.poolUsed + m.handles[s].cnt + 1
        /\ HandleList(f, s) = Append(HandleList(m, s), g)
        /\ \A i \in HandleSlots \ {s} : HandleList(f, i) = HandleList(m, i)
        /\ \A i \in GrantSlots : GrantList(f, i) = GrantList(m, i)
    BY <1>1, <2>0, <2>2, AppendedToHandle
  <2>4. HandleAdded(m, g, s, anchors) = x
    BY <1>3, <2>3 DEF HandleAdded
  <2> HIDE DEF first, f
  <2>5. /\ DOMAIN noted = MemFields /\ noted.grants = f.grants /\ noted.handles = f.handles
        /\ noted.handleFree = f.handleFree /\ noted.grantFree = f.grantFree
        /\ noted.nextHandle = f.nextHandle /\ noted.nextGrant = f.nextGrant
        /\ noted.rootGrants = f.rootGrants /\ noted.dispatch = f.dispatch
        /\ noted.pool = f.pool /\ noted.poolUsed = f.poolUsed
        /\ noted.joined = [f.joined EXCEPT ![s] = @ \cup {GrantName(m, g)}]
    BY <2>3 DEF MemOK, MemShape, MemFields
  <2> HIDE DEF noted
  <2>6. MemOK(noted)
    <3>1. MemShape(noted) /\ SameMembrane(f, noted)
      BY <2>3, <2>5 DEF MemOK, MemShape, SameMembrane, SameTenants
    <3> QED
      BY <2>3, <3>1, SameMembraneOK
  <2>7. /\ \A i : HandleList(noted, i) = HandleList(f, i)
        /\ \A i : GrantList(noted, i) = GrantList(f, i)
    BY <2>5 DEF HandleList, GrantList, ListOf
  <2>8. /\ LiveHandles(noted) = LiveHandles(m) /\ LiveGrants(noted) = LiveGrants(m)
        /\ LiveHandles(f) = LiveHandles(noted) /\ LiveGrants(f) = LiveGrants(noted)
    BY <2>3, <2>5 DEF LiveHandles, LiveGrants, SameMembrane, SameTenants
  <2>9. PoolOK(noted)
    <3>1. Rows(noted) = Rows(f)
      BY <2>7, <2>8 DEF Rows
    <3>2. DOMAIN noted.joined = HandleSlots
      BY <2>3, <2>5 DEF PoolOK, PoolShape
    <3> QED
      BY <2>3, <2>5, <3>1, <3>2 DEF PoolOK, PoolShape
  <2>10. noted.poolUsed + noted.grants[g].cnt + 1 <= PoolWords
    <3>1. noted.poolUsed = m.poolUsed + m.handles[s].cnt + 1 /\ noted.grants = m.grants
      BY <2>3, <2>5
    <3>2. PICK u \in Nat, a \in Nat, b \in Nat :
            u = m.poolUsed /\ a = m.handles[s].cnt /\ b = m.grants[g].cnt
      BY <2>1
    <3>3. u + a + 1 + b + 1 <= PoolWords
      BY <2>1, <3>2
    <3> QED
      BY <3>1, <3>2, <3>3
  <2>11. g \in LiveGrants(noted)
    BY <2>8
  <2>12. /\ MemOK(x) /\ SameMembrane(noted, x) /\ PoolOK(x)
         /\ x.joined = noted.joined /\ x.handles = noted.handles
         /\ GrantList(x, g) = Append(GrantList(noted, g), s)
         /\ \A i \in GrantSlots \ {g} : GrantList(x, i) = GrantList(noted, i)
         /\ \A i \in HandleSlots : HandleList(x, i) = HandleList(noted, i)
    BY <2>0, <2>6, <2>9, <2>10, <2>11, AppendedToGrant
  <2> HIDE DEF second, x
  <2>13. LiveHandles(x) = LiveHandles(m) /\ LiveGrants(x) = LiveGrants(m)
    <3>1. LiveHandles(x) = LiveHandles(noted) /\ LiveGrants(x) = LiveGrants(noted)
      BY <2>12 DEF LiveHandles, LiveGrants, SameMembrane, SameTenants
    <3> QED
      BY <2>8, <3>1
  <2>14. \A i \in GrantSlots : GrantName(x, i) = GrantName(m, i)
    BY <2>3, <2>5, <2>12 DEF GrantName, SameMembrane, SameTenants
  <2>15. /\ HandleList(x, s) = Append(HandleList(m, s), g)
         /\ \A i \in HandleSlots \ {s} : HandleList(x, i) = HandleList(m, i)
    BY <2>0, <2>3, <2>7, <2>12
  <2>16. /\ GrantList(x, g) = Append(GrantList(m, g), s)
         /\ \A i \in GrantSlots \ {g} : GrantList(x, i) = GrantList(m, i)
    BY <2>0, <2>3, <2>7, <2>12
  <2>17. ASSUME NEW list \in Seq(Int), NEW id \in Int
         PROVE  /\ ToSet(Append(list, id)) = ToSet(list) \cup {id}
                /\ IsInjective(list) /\ id \notin ToSet(list) =>
                     IsInjective(Append(list, id))
    <3>1. PICK n \in Nat : n = Len(list)
      OBVIOUS
    <3>2. PICK longer : longer = Append(list, id)
      OBVIOUS
    <3>3. /\ DOMAIN longer = 1 .. n + 1 /\ DOMAIN list = 1 .. n
          /\ longer[n + 1] = id /\ \A i \in 1 .. n : longer[i] = list[i]
      BY <3>1, <3>2, AppendProperties
    <3>4. \A i : i \in 1 .. n + 1 <=> i \in 1 .. n \/ i = n + 1
      OBVIOUS
    <3>5. ToSet(longer) = ToSet(list) \cup {id}
      BY <3>3, <3>4 DEF ToSet
    <3>6. IsInjective(list) /\ id \notin ToSet(list) => IsInjective(longer)
      BY <3>3, <3>4 DEF ToSet, IsInjective
    <3> QED
      BY <3>2, <3>5, <3>6
  <2>18. HandleList(m, s) \in Seq(Int) /\ GrantList(m, g) \in Seq(Int)
    BY <1>1, <2>0, ListsTyped
  <2>19. /\ ToSet(HandleList(x, s)) = ToSet(HandleList(m, s)) \cup {g}
         /\ ToSet(GrantList(x, g)) = ToSet(GrantList(m, g)) \cup {s}
    BY <2>0, <2>15, <2>16, <2>17, <2>18
  <2>20. x.joined = [m.joined EXCEPT ![s] = @ \cup {GrantName(m, g)}]
         /\ DOMAIN m.joined = HandleSlots
    BY <1>1, <2>3, <2>5, <2>12 DEF PoolShape
  <2>21. /\ x.joined[s] = m.joined[s] \cup {GrantName(m, g)}
         /\ \A i \in HandleSlots \ {s} : x.joined[i] = m.joined[i]
    BY <2>0, <2>20
  <2>22. ASSUME NEW i \in LiveHandles(x)
         PROVE  /\ IsInjective(HandleList(x, i))
                /\ ToSet(HandleList(x, i)) \subseteq LiveGrants(x)
                /\ {GrantName(x, h) : h \in ToSet(HandleList(x, i))} = x.joined[i]
    <3>1. /\ IsInjective(HandleList(m, i))
          /\ ToSet(HandleList(m, i)) \subseteq LiveGrants(m)
          /\ {GrantName(m, h) : h \in ToSet(HandleList(m, i))} = m.joined[i]
          /\ i \in HandleSlots /\ LiveGrants(m) \subseteq GrantSlots
      BY <1>1, <2>13 DEF IndexOK, LiveHandles, LiveGrants
    <3>2. ToSet(HandleList(x, i)) \subseteq LiveGrants(x)
      <4>1. ToSet(HandleList(x, i)) \subseteq ToSet(HandleList(m, i)) \cup {g}
        BY <2>15, <2>19, <3>1
      <4> QED
        BY <2>13, <3>1, <4>1
    <3>3. {GrantName(x, h) : h \in ToSet(HandleList(x, i))}
            = {GrantName(m, h) : h \in ToSet(HandleList(x, i))}
      BY <2>13, <2>14, <3>1, <3>2
    <3>4. CASE i = s
      <4>1. IsInjective(HandleList(x, s))
        BY <1>3, <2>0, <2>15, <2>17, <2>18, <3>1, <3>4
      <4>2. {GrantName(m, h) : h \in ToSet(HandleList(x, s))}
              = {GrantName(m, h) : h \in ToSet(HandleList(m, s))} \cup {GrantName(m, g)}
        BY <2>19
      <4> QED
        BY <2>21, <3>1, <3>2, <3>3, <3>4, <4>1, <4>2
    <3>5. CASE i # s
      BY <2>15, <2>21, <3>1, <3>2, <3>3, <3>5
    <3> QED
      BY <3>4, <3>5
  <2>23. \A i \in LiveGrants(x) : ToSet(GrantList(x, i)) \subseteq LiveHandles(x)
    <3> TAKE i \in LiveGrants(x)
    <3>1. ToSet(GrantList(m, i)) \subseteq LiveHandles(m) /\ i \in GrantSlots
      BY <1>1, <2>13 DEF IndexOK, LiveGrants
    <3>2. i # g => GrantList(x, i) = GrantList(m, i)
      BY <2>16, <3>1
    <3> QED
      BY <2>13, <2>19, <3>1, <3>2
  <2>24. \A i \in LiveHandles(x), h \in LiveGrants(x) :
           h \in ToSet(HandleList(x, i)) <=> i \in ToSet(GrantList(x, h))
    <3> TAKE i \in LiveHandles(x), h \in LiveGrants(x)
    <3>1. h \in ToSet(HandleList(m, i)) <=> i \in ToSet(GrantList(m, h))
      BY <1>1, <2>13 DEF IndexOK
    <3>2. i \in HandleSlots /\ h \in GrantSlots
      BY DEF LiveHandles, LiveGrants
    <3>3. h \in ToSet(HandleList(x, i)) <=>
            h \in ToSet(HandleList(m, i)) \/ (i = s /\ h = g)
      BY <2>15, <2>19, <3>2
    <3>4. i \in ToSet(GrantList(x, h)) <=>
            i \in ToSet(GrantList(m, h)) \/ (i = s /\ h = g)
      BY <2>16, <2>19, <3>2
    <3> QED
      BY <3>1, <3>3, <3>4
  <2>25. IndexOK(x)
    BY <2>22, <2>23, <2>24 DEF IndexOK
  <2> QED
    BY <2>4, <2>12, <2>25 DEF ListsOK
<1> QED
  BY <1>2, <1>3 DEF ListsOK

\* What leaves the runs and the pool alone leaves every list as it was.
LEMMA ListsKept ==
  ASSUME NEW m, PoolOK(m), NEW x, x.pool = m.pool, x.poolUsed = m.poolUsed,
         DOMAIN x.joined = HandleSlots,
         \A s \in HandleSlots : /\ x.handles[s].off = m.handles[s].off
                                /\ x.handles[s].cnt = m.handles[s].cnt
                                /\ m.handles[s].live => x.handles[s].live,
         \A g \in GrantSlots : /\ x.grants[g].off = m.grants[g].off
                               /\ x.grants[g].cnt = m.grants[g].cnt
                               /\ m.grants[g].live => x.grants[g].live
  PROVE  /\ PoolOK(x)
         /\ \A s \in HandleSlots : HandleList(x, s) = HandleList(m, s)
         /\ \A g \in GrantSlots : GrantList(x, g) = GrantList(m, g)
<1>1. PoolShape(m) /\ Len(FlattenSeq(Rows(m))) <= m.poolUsed
  BY DEF PoolOK
<1>2. PoolShape(x)
  <2>1. \A s \in HandleSlots : RunOK(x.handles[s], x.poolUsed)
    BY <1>1 DEF PoolShape, RunOK
  <2>2. \A g \in GrantSlots : RunOK(x.grants[g], x.poolUsed)
    BY <1>1 DEF PoolShape, RunOK
  <2> QED
    BY <1>1, <2>1, <2>2 DEF PoolShape
<1>3. Len(FlattenSeq(Rows(x))) <= x.poolUsed
  <2> DEFINE j == 0
  <2>1. j \in Nat /\ j = 0
    OBVIOUS
  <2> HIDE DEF j
  <2>2. \A s \in HandleSlots :
          x.handles[s].cnt <= m.handles[s].cnt + (IF s + 1 = j THEN 1 ELSE 0)
    <3> TAKE s \in HandleSlots
    <3>1. m.handles[s].cnt \in Nat
      BY <1>1 DEF PoolShape, RunOK
    <3> QED
      BY <3>1
  <2>3. \A g \in GrantSlots :
          x.grants[g].cnt <= m.grants[g].cnt + (IF HandleCapacity + g + 1 = j THEN 1 ELSE 0)
    <3> TAKE g \in GrantSlots
    <3>1. m.grants[g].cnt \in Nat
      BY <1>1 DEF PoolShape, RunOK
    <3> QED
      BY <3>1
  <2>4. /\ Len(FlattenSeq(Rows(x))) <= Len(FlattenSeq(Rows(m)))
        /\ Len(FlattenSeq(Rows(x))) \in Nat /\ Len(FlattenSeq(Rows(m))) \in Nat
    BY <1>1, <1>2, <2>1, <2>2, <2>3, RowsGrow
  <2>5. m.poolUsed \in Nat
    BY <1>1 DEF PoolShape
  <2> QED
    BY <1>1, <2>4, <2>5
<1>4. \A s \in HandleSlots : HandleList(x, s) = HandleList(m, s)
  BY DEF HandleList, ListOf
<1>5. \A g \in GrantSlots : GrantList(x, g) = GrantList(m, g)
  BY DEF GrantList, ListOf
<1> QED
  BY <1>2, <1>3, <1>4, <1>5 DEF PoolOK

\* A new handle starts with no list: no grant names its slot, which was dead.
LEMMA RegisteredIndex ==
  ASSUME NEW m, ListsOK(m)
  PROVE  ListsOK(Registered(m))
<1> DEFINE s == HandleSlotTaken(m)
           x == Registered(m)
<1>1. MemOK(m) /\ PoolOK(m) /\ IndexOK(m) /\ PoolShape(m)
  BY DEF ListsOK, PoolOK
<1>2. CASE s = NoSlot
  BY <1>2 DEF Registered
<1>3. CASE s # NoSlot
  <2>1. /\ MemOK(x) /\ s \in HandleSlots /\ ~m.handles[s].live
        /\ x.handles[s].live = TRUE /\ x.grants = m.grants
        /\ \A i \in HandleSlots \ {s} : x.handles[i] = m.handles[i]
    BY <1>1, <1>3, RegisteredOK
  <2> DEFINE e == [EmptyEntry EXCEPT !.ver = m.handles[s].ver + 1, !.live = TRUE]
  <2>2. /\ x.handles = [m.handles EXCEPT ![s] = e]
        /\ x.pool = m.pool /\ x.poolUsed = m.poolUsed
        /\ x.joined = [m.joined EXCEPT ![s] = {}]
    BY <1>1, <1>3 DEF MemOK, MemShape, MemFields, Registered
  <2>3. e.off = 0 /\ e.cnt = 0
    BY DEF EmptyEntry
  <2> HIDE DEF e, x, s
  <2>4. x.handles[s].off = 0 /\ x.handles[s].cnt = 0
    BY <1>1, <2>1, <2>2, <2>3 DEF MemOK, MemShape
  <2>5. m.handles[s].off = 0 /\ m.handles[s].cnt = 0
    BY <1>1, <2>1 DEF PoolShape, RunOK
  <2>6. /\ DOMAIN x.joined = HandleSlots /\ x.joined[s] = {}
        /\ \A i \in HandleSlots \ {s} : x.joined[i] = m.joined[i]
    BY <1>1, <2>1, <2>2 DEF PoolShape
  <2>7. \A i \in HandleSlots : /\ x.handles[i].off = m.handles[i].off
                               /\ x.handles[i].cnt = m.handles[i].cnt
                               /\ m.handles[i].live => x.handles[i].live
    BY <2>1, <2>4, <2>5
  <2>8. \A g \in GrantSlots : /\ x.grants[g].off = m.grants[g].off
                              /\ x.grants[g].cnt = m.grants[g].cnt
                              /\ m.grants[g].live => x.grants[g].live
    BY <2>1
  <2>9. /\ PoolOK(x)
        /\ \A i \in HandleSlots : HandleList(x, i) = HandleList(m, i)
        /\ \A g \in GrantSlots : GrantList(x, g) = GrantList(m, g)
    <3>1. x.pool = m.pool /\ x.poolUsed = m.poolUsed /\ DOMAIN x.joined = HandleSlots
      BY <2>2, <2>6
    <3> QED
      BY <1>1, <2>7, <2>8, <3>1, ListsKept
  <2>10. /\ LiveHandles(x) = LiveHandles(m) \cup {s} /\ s \notin LiveHandles(m)
         /\ LiveGrants(x) = LiveGrants(m)
    BY <2>1 DEF LiveHandles, LiveGrants
  <2>11. HandleList(x, s) = <<>>
    BY <2>4 DEF HandleList, ListOf
  <2>12. ToSet(<<>>) = {} /\ IsInjective(<<>>)
    BY DEF ToSet, IsInjective
  <2>13. \A g : GrantName(x, g) = GrantName(m, g)
    BY <2>1 DEF GrantName
  <2>14. ASSUME NEW i \in LiveHandles(x)
         PROVE  /\ IsInjective(HandleList(x, i))
                /\ ToSet(HandleList(x, i)) \subseteq LiveGrants(x)
                /\ {GrantName(x, g) : g \in ToSet(HandleList(x, i))} = x.joined[i]
    <3>1. CASE i = s
      BY <2>6, <2>11, <2>12, <3>1
    <3>2. CASE i # s
      <4>1. i \in LiveHandles(m) /\ i \in HandleSlots \ {s}
        BY <2>10, <3>2 DEF LiveHandles
      <4>2. /\ IsInjective(HandleList(m, i))
            /\ ToSet(HandleList(m, i)) \subseteq LiveGrants(m)
            /\ {GrantName(m, g) : g \in ToSet(HandleList(m, i))} = m.joined[i]
        BY <1>1, <4>1 DEF IndexOK
      <4> QED
        BY <2>6, <2>9, <2>10, <2>13, <4>1, <4>2
    <3> QED
      BY <3>1, <3>2
  <2>15. \A g \in LiveGrants(x) : ToSet(GrantList(x, g)) \subseteq LiveHandles(x)
    BY <1>1, <2>9, <2>10 DEF IndexOK, LiveGrants
  <2>16. \A i \in LiveHandles(x), g \in LiveGrants(x) :
           g \in ToSet(HandleList(x, i)) <=> i \in ToSet(GrantList(x, g))
    <3> TAKE i \in LiveHandles(x), g \in LiveGrants(x)
    <3>1. ToSet(GrantList(x, g)) \subseteq LiveHandles(m) /\ g \in LiveGrants(m)
      BY <1>1, <2>9, <2>10 DEF IndexOK, LiveGrants
    <3>2. CASE i = s
      BY <2>10, <2>11, <2>12, <3>1, <3>2
    <3>3. CASE i # s
      <4>1. i \in LiveHandles(m) /\ i \in HandleSlots /\ g \in GrantSlots
        BY <2>10, <3>3 DEF LiveHandles, LiveGrants
      <4>2. g \in ToSet(HandleList(m, i)) <=> i \in ToSet(GrantList(m, g))
        BY <1>1, <3>1, <4>1 DEF IndexOK
      <4> QED
        BY <2>9, <4>1, <4>2
    <3> QED
      BY <3>2, <3>3
  <2>17. IndexOK(x)
    BY <2>14, <2>15, <2>16 DEF IndexOK
  <2> QED
    BY <2>1, <2>9, <2>17 DEF ListsOK, x
<1> QED
  BY <1>2, <1>3

\* So does a new grant, which no handle names.
LEMMA CreatedIndex ==
  ASSUME NEW m, ListsOK(m)
  PROVE  ListsOK(Created(m))
<1> DEFINE n == GrantSlotTaken(m)
           x == Created(m)
<1>1. MemOK(m) /\ PoolOK(m) /\ IndexOK(m) /\ PoolShape(m)
  BY DEF ListsOK, PoolOK
<1>2. CASE n = NoSlot
  BY <1>2 DEF Created
<1>3. CASE n # NoSlot
  <2>1. /\ MemOK(x) /\ n \in GrantSlots /\ ~m.grants[n].live
        /\ x.grants[n].live = TRUE /\ x.handles = m.handles
        /\ \A g \in GrantSlots \ {n} : x.grants[g] = m.grants[g]
    BY <1>1, <1>3, CreatedOK
  <2> DEFINE e == [EmptyGrant EXCEPT !.ver = m.grants[n].ver + 1, !.live = TRUE]
  <2>2. /\ x.grants = [m.grants EXCEPT ![n] = e]
        /\ x.pool = m.pool /\ x.poolUsed = m.poolUsed /\ x.joined = m.joined
    BY <1>1, <1>3 DEF MemOK, MemShape, MemFields, Created
  <2>3. e.off = 0 /\ e.cnt = 0
    BY DEF EmptyGrant
  <2> HIDE DEF e, x, n
  <2>4. x.grants[n].off = 0 /\ x.grants[n].cnt = 0
    BY <1>1, <2>1, <2>2, <2>3 DEF MemOK, MemShape
  <2>5. m.grants[n].off = 0 /\ m.grants[n].cnt = 0
    BY <1>1, <2>1 DEF PoolShape, RunOK
  <2>6. DOMAIN x.joined = HandleSlots
    BY <1>1, <2>2 DEF PoolShape
  <2>7. \A g \in GrantSlots : /\ x.grants[g].off = m.grants[g].off
                              /\ x.grants[g].cnt = m.grants[g].cnt
                              /\ m.grants[g].live => x.grants[g].live
    BY <2>1, <2>4, <2>5
  <2>8. \A s \in HandleSlots : /\ x.handles[s].off = m.handles[s].off
                               /\ x.handles[s].cnt = m.handles[s].cnt
                               /\ m.handles[s].live => x.handles[s].live
    BY <2>1
  <2>9. /\ PoolOK(x)
        /\ \A s \in HandleSlots : HandleList(x, s) = HandleList(m, s)
        /\ \A g \in GrantSlots : GrantList(x, g) = GrantList(m, g)
    BY <1>1, <2>2, <2>6, <2>7, <2>8, ListsKept
  <2>10. /\ LiveHandles(x) = LiveHandles(m)
         /\ LiveGrants(x) = LiveGrants(m) \cup {n} /\ n \notin LiveGrants(m)
    BY <2>1 DEF LiveHandles, LiveGrants
  <2>11. GrantList(x, n) = <<>>
    BY <2>4 DEF GrantList, ListOf
  <2>12. ToSet(<<>>) = {}
    BY DEF ToSet
  <2>13. \A g \in LiveGrants(m) : GrantName(x, g) = GrantName(m, g)
    BY <2>1, <2>10 DEF GrantName, LiveGrants
  <2>14. ASSUME NEW s \in LiveHandles(x)
         PROVE  /\ IsInjective(HandleList(x, s))
                /\ ToSet(HandleList(x, s)) \subseteq LiveGrants(m)
                /\ {GrantName(x, g) : g \in ToSet(HandleList(x, s))} = x.joined[s]
    <3>1. s \in LiveHandles(m) /\ s \in HandleSlots
      BY <2>10 DEF LiveHandles
    <3>2. /\ IsInjective(HandleList(m, s))
          /\ ToSet(HandleList(m, s)) \subseteq LiveGrants(m)
          /\ {GrantName(m, g) : g \in ToSet(HandleList(m, s))} = m.joined[s]
      BY <1>1, <3>1 DEF IndexOK
    <3>3. {GrantName(x, g) : g \in ToSet(HandleList(m, s))}
            = {GrantName(m, g) : g \in ToSet(HandleList(m, s))}
      BY <2>13, <3>2
    <3> QED
      BY <2>2, <2>9, <3>1, <3>2, <3>3
  <2>15. \A g \in LiveGrants(x) : ToSet(GrantList(x, g)) \subseteq LiveHandles(x)
    <3> TAKE g \in LiveGrants(x)
    <3>1. CASE g = n
      BY <2>11, <2>12, <3>1
    <3>2. CASE g # n
      BY <1>1, <2>9, <2>10, <3>2 DEF IndexOK, LiveGrants
    <3> QED
      BY <3>1, <3>2
  <2>16. \A s \in LiveHandles(x), g \in LiveGrants(x) :
           g \in ToSet(HandleList(x, s)) <=> s \in ToSet(GrantList(x, g))
    <3> TAKE s \in LiveHandles(x), g \in LiveGrants(x)
    <3>1. CASE g = n
      <4>1. g \notin ToSet(HandleList(x, s))
        BY <2>10, <2>14, <3>1
      <4> QED
        BY <2>11, <2>12, <3>1, <4>1
    <3>2. CASE g # n
      <4>1. g \in LiveGrants(m) /\ s \in LiveHandles(m) /\ s \in HandleSlots /\ g \in GrantSlots
        BY <2>10, <3>2 DEF LiveHandles, LiveGrants
      <4>2. g \in ToSet(HandleList(m, s)) <=> s \in ToSet(GrantList(m, g))
        BY <1>1, <4>1 DEF IndexOK
      <4> QED
        BY <2>9, <4>1, <4>2
    <3> QED
      BY <3>1, <3>2
  <2>17. IndexOK(x)
    BY <2>10, <2>14, <2>15, <2>16 DEF IndexOK
  <2> QED
    BY <2>1, <2>9, <2>17 DEF ListsOK, x
<1> QED
  BY <1>2, <1>3

\* The flags of a grant say nothing about the lists.
LEMMA FlagsIndex ==
  ASSUME NEW m, ListsOK(m), NEW h \in GrantSlots
  PROVE  /\ ListsOK([m EXCEPT !.grants[h].revoked = TRUE])
         /\ ListsOK([m EXCEPT !.grants[h].root = TRUE, !.rootGrants = @ \cup {h}])
<1>1. MemOK(m) /\ PoolOK(m) /\ IndexOK(m) /\ PoolShape(m)
  BY DEF ListsOK, PoolOK
<1>2. ASSUME NEW x, MemOK(x), NEW f \in {"revoked", "root"},
             x.handles = m.handles, x.pool = m.pool, x.poolUsed = m.poolUsed,
             x.joined = m.joined,
             x.grants = [m.grants EXCEPT ![h] = [m.grants[h] EXCEPT ![f] = TRUE]]
      PROVE  ListsOK(x)
  <2> DEFINE e == [m.grants[h] EXCEPT ![f] = TRUE]
  <2>1. /\ DOMAIN m.grants = GrantSlots
        /\ DOMAIN m.grants[h] = {"ver", "live", "off", "cnt", "revoked", "root"}
    BY <1>1 DEF MemOK, MemShape
  <2>2. /\ e.ver = m.grants[h].ver /\ e.live = m.grants[h].live
        /\ e.off = m.grants[h].off /\ e.cnt = m.grants[h].cnt
    BY <2>1
  <2> HIDE DEF e
  <2>3. \A g \in GrantSlots : x.grants[g] = IF g = h THEN e ELSE m.grants[g]
    BY <1>2, <2>1 DEF e
  <2>4. \A g \in GrantSlots :
          /\ x.grants[g].ver = m.grants[g].ver /\ x.grants[g].live = m.grants[g].live
          /\ x.grants[g].off = m.grants[g].off /\ x.grants[g].cnt = m.grants[g].cnt
    BY <2>2, <2>3
  <2>5. DOMAIN x.joined = HandleSlots
    BY <1>1, <1>2 DEF PoolShape
  <2>6. /\ PoolOK(x)
        /\ \A s \in HandleSlots : HandleList(x, s) = HandleList(m, s)
        /\ \A g \in GrantSlots : GrantList(x, g) = GrantList(m, g)
    <3>1. x.pool = m.pool /\ x.poolUsed = m.poolUsed
      BY <1>2
    <3>2. /\ \A s \in HandleSlots : /\ x.handles[s].off = m.handles[s].off
                                    /\ x.handles[s].cnt = m.handles[s].cnt
                                    /\ m.handles[s].live => x.handles[s].live
          /\ \A g \in GrantSlots : /\ x.grants[g].off = m.grants[g].off
                                   /\ x.grants[g].cnt = m.grants[g].cnt
                                   /\ m.grants[g].live => x.grants[g].live
      BY <1>2, <2>4
    <3> QED
      BY <1>1, <2>5, <3>1, <3>2, ListsKept
  <2>7. /\ LiveHandles(x) = LiveHandles(m) /\ LiveGrants(x) = LiveGrants(m)
        /\ LiveHandles(m) \subseteq HandleSlots /\ LiveGrants(m) \subseteq GrantSlots
    BY <1>2, <2>4 DEF LiveHandles, LiveGrants
  <2>8. \A s \in LiveHandles(m) :
          {GrantName(x, g) : g \in ToSet(HandleList(m, s))}
            = {GrantName(m, g) : g \in ToSet(HandleList(m, s))}
    <3> TAKE s \in LiveHandles(m)
    <3>1. \A g \in ToSet(HandleList(m, s)) : GrantName(x, g) = GrantName(m, g)
      BY <1>1, <2>4, <2>7 DEF IndexOK, GrantName
    <3> QED
      BY <3>1
  <2>9. IndexOK(x)
    <3>1. \A s \in LiveHandles(x) :
            /\ IsInjective(HandleList(x, s))
            /\ ToSet(HandleList(x, s)) \subseteq LiveGrants(x)
            /\ {GrantName(x, g) : g \in ToSet(HandleList(x, s))} = x.joined[s]
      BY <1>1, <1>2, <2>6, <2>7, <2>8 DEF IndexOK
    <3>2. \A g \in LiveGrants(x) : ToSet(GrantList(x, g)) \subseteq LiveHandles(x)
      BY <1>1, <2>6, <2>7 DEF IndexOK
    <3>3. \A s \in LiveHandles(x), g \in LiveGrants(x) :
            g \in ToSet(HandleList(x, s)) <=> s \in ToSet(GrantList(x, g))
      BY <1>1, <2>6, <2>7 DEF IndexOK
    <3> QED
      BY <3>1, <3>2, <3>3 DEF IndexOK
  <2> QED
    BY <1>2, <2>6, <2>9 DEF ListsOK
<1> DEFINE x == [m EXCEPT !.grants[h].revoked = TRUE]
           y == [m EXCEPT !.grants[h].root = TRUE, !.rootGrants = @ \cup {h}]
<1>3. MemOK(x) /\ MemOK(y)
  BY <1>1, FlagsOK
<1>4. /\ x.handles = m.handles /\ x.pool = m.pool /\ x.poolUsed = m.poolUsed
      /\ x.joined = m.joined
      /\ x.grants = [m.grants EXCEPT ![h] = [m.grants[h] EXCEPT !["revoked"] = TRUE]]
  BY <1>1 DEF MemOK, MemShape, MemFields
<1>5. /\ y.handles = m.handles /\ y.pool = m.pool /\ y.poolUsed = m.poolUsed
      /\ y.joined = m.joined
      /\ y.grants = [m.grants EXCEPT ![h] = [m.grants[h] EXCEPT !["root"] = TRUE]]
  BY <1>1 DEF MemOK, MemShape, MemFields
<1> HIDE DEF x, y
<1>6. ListsOK(x)
  BY <1>2, <1>3, <1>4
<1>7. ListsOK(y)
  BY <1>2, <1>3, <1>5
<1> QED
  BY <1>6, <1>7 DEF x, y

\* An empty membrane.
LEMMA EmptyIndex == ListsOK(EmptyMembrane)
<1> DEFINE x == EmptyMembrane
<1>1. /\ x.poolUsed = 0 /\ x.pool = [w \in Words |-> 0]
      /\ \A s \in HandleSlots : x.handles[s] = EmptyEntry
      /\ \A g \in GrantSlots : x.grants[g] = EmptyGrant
      /\ DOMAIN x.joined = HandleSlots
  BY DEF EmptyMembrane
<1>2. PoolWords \in Nat /\ HandleCapacity \in Nat /\ GrantCapacity \in Nat
  BY MembraneAssumption
<1> HIDE DEF x
<1>3. PoolShape(x)
  BY <1>1, <1>2 DEF PoolShape, RunOK, EmptyEntry, EmptyGrant
<1>4. LiveHandles(x) = {} /\ LiveGrants(x) = {}
  BY <1>1 DEF LiveHandles, LiveGrants, EmptyEntry, EmptyGrant
<1>5. Len(FlattenSeq(Rows(x))) = 0
  <2>1. Rows(x) \in Seq(Seq(Int)) /\ Len(Rows(x)) = HandleCapacity + GrantCapacity
    BY <1>3, RowsTyped
  <2> DEFINE rows == Rows(x)
             P(i) == FlattenSeq(SubSeq(rows, 1, i))
             N == Len(rows)
  <2>2. \A i \in 1 .. N : rows[i] = <<>>
    BY <1>4, <2>1 DEF Rows
  <2> HIDE DEF rows
  <2>3. /\ P(0) = <<>> /\ \A i \in 1 .. N : P(i) = P(i - 1) \o rows[i]
    BY <2>1, FlattenPrefixes DEF rows
  <2>4. P(N) = FlattenSeq(rows) /\ N \in Nat
    <3>1. rows \in Seq(Seq(Int)) /\ N \in Nat
      BY <1>2, <2>1 DEF rows
    <3>2. SubSeq(rows, 1, Len(rows)) = rows
      BY <3>1, SubSeqFull
    <3> QED
      BY <3>1, <3>2
  <2> HIDE DEF P, N
  <2> DEFINE bad == {i \in 0 .. N : P(i) # <<>>}
  <2>5. bad = {}
    <3>1. SUFFICES ASSUME bad # {} PROVE FALSE
      OBVIOUS
    <3>2. bad \in SUBSET Nat
      BY <2>4
    <3>3. PICK i \in bad : \A k \in bad : i <= k
      BY <3>1, <3>2, LeastNat
    <3>4. i \in 0 .. N /\ P(i) # <<>> /\ i # 0
      BY <2>3
    <3>5. i \in 1 .. N /\ i - 1 \in 0 .. N /\ ~(i <= i - 1)
      BY <2>4, <3>4
    <3>6. P(i - 1) = <<>>
      BY <3>3, <3>5
    <3>7. <<>> \o <<>> = <<>>
      OBVIOUS
    <3> QED
      BY <2>2, <2>3, <3>4, <3>5, <3>6, <3>7
  <2>6. P(N) = <<>>
    BY <2>4, <2>5
  <2>7. Len(<<>>) = 0
    OBVIOUS
  <2> QED
    BY <2>4, <2>6, <2>7 DEF rows
<1>6. PoolOK(x)
  BY <1>1, <1>3, <1>5 DEF PoolOK
<1>7. IndexOK(x)
  BY <1>4 DEF IndexOK
<1> QED
  BY <1>6, <1>7, EmptyOK DEF ListsOK, x

(***************************************************************************)
(* The lists, while no join has to compact.                                *)
(***************************************************************************)
\* A join that has room for both of its appends, or that finds the pair joined
\* already, never compacts between reading a run's place and copying the run.
JoinHasRoom(g, s) == g \in ToSet(HandleList(mem, s)) \/ AppendsFit(mem, g, s)

NextWithRoom ==
  \/ Register
  \/ CreateGrant
  \/ \E g \in GrantSlots, s \in HandleSlots : JoinHasRoom(g, s) /\ AddHandle(g, s)
  \/ \E g \in GrantSlots : Revoke(g) \/ MarkRoot(g)
  \/ Compact

SpecWithRoom == Init /\ [][NextWithRoom]_mem

\* The invariant is inductive: one case for each operation.
LEMMA ListsStep == ListsOK(mem) /\ [NextWithRoom]_mem => ListsOK(mem)'
<1> SUFFICES ASSUME ListsOK(mem), [NextWithRoom]_mem
             PROVE  ListsOK(mem')
  OBVIOUS
<1>1. \A anchors : ListsOK(CompactedFor(mem, anchors))
  BY CompactedForOK, CompactedForIndex DEF ListsOK
<1>2. ASSUME NEW m, ListsOK(m)
      PROVE  ListsOK(Settled(m))
  BY <1>2, SettledOK, SettledIndex DEF ListsOK
<1>3. ASSUME Register PROVE ListsOK(mem')
  <2>1. PICK anchors : LET base == WithRoom(mem, HandleRoom, anchors)
                       IN mem' = Settled(Registered(base))
    BY <1>3 DEF Register
  <2> DEFINE base == IF HandleRoom(mem) THEN mem ELSE CompactedFor(mem, anchors)
  <2>2. ListsOK(base) /\ mem' = Settled(Registered(base))
    BY <1>1, <2>1 DEF WithRoom
  <2> HIDE DEF base
  <2> QED
    BY <1>2, <2>2, RegisteredIndex
<1>4. ASSUME CreateGrant PROVE ListsOK(mem')
  <2>1. PICK anchors : LET base == WithRoom(mem, GrantRoom, anchors)
                       IN mem' = Settled(Created(base))
    BY <1>4 DEF CreateGrant
  <2> DEFINE base == IF GrantRoom(mem) THEN mem ELSE CompactedFor(mem, anchors)
  <2>2. ListsOK(base) /\ mem' = Settled(Created(base))
    BY <1>1, <2>1 DEF WithRoom
  <2> HIDE DEF base
  <2> QED
    BY <1>2, <2>2, CreatedIndex
<1>5. ASSUME NEW g \in GrantSlots, NEW s \in HandleSlots, JoinHasRoom(g, s), AddHandle(g, s)
      PROVE  ListsOK(mem')
  <2>1. PICK anchors : mem' = Settled(HandleAdded(mem, g, s, anchors))
    BY <1>5 DEF AddHandle
  <2>2. g \in LiveGrants(mem) /\ s \in LiveHandles(mem)
    BY <1>5 DEF AddHandle, LiveGrants, LiveHandles
  <2>3. ListsOK(HandleAdded(mem, g, s, anchors))
    BY <1>5, <2>2, HandleAddedIndex DEF JoinHasRoom
  <2> QED
    BY <1>2, <2>1, <2>3
<1>6. ASSUME NEW g \in GrantSlots, Revoke(g) \/ MarkRoot(g)
      PROVE  ListsOK(mem')
  <2>1. CASE Revoke(g)
    <3>1. mem' = [mem EXCEPT !.grants[g].revoked = TRUE]
      BY <2>1 DEF Revoke
    <3>2. ListsOK([mem EXCEPT !.grants[g].revoked = TRUE])
      BY FlagsIndex
    <3> QED
      BY <3>1, <3>2
  <2>2. CASE MarkRoot(g)
    <3>1. mem' = [mem EXCEPT !.grants[g].root = TRUE, !.rootGrants = @ \cup {g}]
      BY <2>2 DEF MarkRoot
    <3>2. ListsOK([mem EXCEPT !.grants[g].root = TRUE, !.rootGrants = @ \cup {g}])
      BY FlagsIndex
    <3> QED
      BY <3>1, <3>2
  <2> QED
    BY <1>6, <2>1, <2>2
<1>7. ASSUME Compact PROVE ListsOK(mem')
  BY <1>1, <1>2, <1>7 DEF Compact
<1> QED
  BY <1>3, <1>4, <1>5, <1>6, <1>7 DEF NextWithRoom

\* So it is an invariant.
LEMMA ListsInvariant == SpecWithRoom => []ListsOK(mem)
<1>1. Init => ListsOK(mem)
  BY EmptyIndex DEF Init
<1> QED
  BY <1>1, ListsStep, PTL DEF SpecWithRoom

\* For every size of the tables and of the pool, and whatever compactions,
\* registrations, grants and revocations come between: the list of a live
\* handle names exactly the grants its tenant was added to, each still in the
\* slot it had.  No compaction loses one, or lets a later tenant stand for it.
THEOREM GrantListsAreExact == SpecWithRoom => []GrantListsExact
<1>1. ListsOK(mem) => GrantListsExact
  BY DEF ListsOK, IndexOK, GrantListsExact
<1> QED
  BY <1>1, ListsInvariant, PTL

\* The two halves of the inverse index agree on all that is alive: what a
\* compaction filters from one list it frees or filters from the other too.
THEOREM InverseIndexIsExact == SpecWithRoom => []InverseIndexAgrees
<1>1. ListsOK(mem) => InverseIndexAgrees
  BY DEF ListsOK, IndexOK, InverseIndexAgrees
<1> QED
  BY <1>1, ListsInvariant, PTL

\* A handle that was ever added to a grant since revoked or reaped is dead: as
\* its list still names that grant, no later grant makes it callable.
THEOREM RevocationStands == SpecWithRoom => []RevocationIsFinal
<1>1. ListsOK(mem) => RevocationIsFinal
  <2> SUFFICES ASSUME ListsOK(mem), NEW s \in LiveHandles(mem), NEW n \in mem.joined[s],
                      ~GrantCurrent(mem, n) \/ mem.grants[n[1]].revoked
               PROVE  ~Callable(mem, s, GrantSlots)
    BY DEF RevocationIsFinal
  <2>1. /\ ToSet(HandleList(mem, s)) \subseteq LiveGrants(mem)
        /\ {GrantName(mem, g) : g \in ToSet(HandleList(mem, s))} = mem.joined[s]
    BY DEF ListsOK, IndexOK
  <2>2. PICK g \in ToSet(HandleList(mem, s)) : n = GrantName(mem, g)
    BY <2>1
  <2>3. n[1] = g /\ n[2] = mem.grants[g].ver /\ mem.grants[g].live
    BY <2>1, <2>2 DEF GrantName, LiveGrants
  <2>4. mem.grants[g].revoked
    BY <2>3 DEF GrantCurrent
  <2> QED
    BY <2>2, <2>4 DEF Callable, GrantActive
<1> QED
  BY <1>1, ListsInvariant, PTL
=============================================================================
