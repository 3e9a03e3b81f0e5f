----------------------------- MODULE JsonProofs -----------------------------
(***************************************************************************)
(* The trees of cJSON.c stay whole: after any calls that keep the contract *)
(* of JsonTree, containers hold what was put into them, in the order it    *)
(* was put there, who reads by key or makes a copy finds it, and who adds, *)
(* inserts, detaches or replaces acts on a sequence.                       *)
(*                                                                         *)
(* The inductive invariant is Inv, the shape of the memory that each place *)
(* knows of its neighbours: operators that write are shown to be one of    *)
(* five changes (Filled, Emptied, Copied, Listed, and cells given back),   *)
(* and those are shown to keep the shape, and the order of the rest.       *)
(***************************************************************************)
EXTENDS JsonTree, FiniteSetTheorems, FunctionTheorems, SequenceTheorems,
        WellFoundedInduction, TLAPS

-------------------------------------------------------------------------------
(* What the walks compute.                                                 *)

\* A set of naturals that is not empty has a least element.
LEMMA LeastExists ==
  ASSUME NEW S, S \subseteq Nat, S # {}
  PROVE  \E x \in S : \A y \in S : x <= y
<1>1. PICK x \in S : \A y \in S : ~(<<y, x>> \in OpToRel(<, Nat))
  BY NatLessThanWellFounded, WFMin
<1>2. \A y \in S : ~(y < x)
  BY <1>1, Zenon DEF OpToRel
<1>3. QED
  BY <1>2

\* One step of Reached, and the table that it builds.
More(T, step) == T \cup UNION {step[j] : j \in T}

Grown(g, step, n, T) == IF n = 0 \/ More(T, step) = T THEN T ELSE g[n - 1][More(T, step)]

Grows(g, step, M) == g = [n \in 0 .. M |-> [T \in SUBSET Item |-> Grown(g, step, n, T)]]

LEMMA MoreFacts ==
  ASSUME NEW step \in [Item -> SUBSET Item], NEW T \in SUBSET Item
  PROVE  /\ More(T, step) \in SUBSET Item /\ T \subseteq More(T, step)
         /\ \A j \in T : step[j] \subseteq More(T, step)
         /\ \A K : T \subseteq K /\ (\A j \in K : step[j] \subseteq K) => More(T, step) \subseteq K
BY DEF More

LEMMA GrowingExists ==
  ASSUME NEW step \in [Item -> SUBSET Item], NEW N \in Nat
  PROVE  \E g : Grows(g, step, N)
<1> DEFINE Without == {M \in Nat : ~ \E g : Grows(g, step, M)}
<1>1. SUFFICES ASSUME Without # {} PROVE FALSE
  OBVIOUS
<1>2. PICK M \in Without : \A K \in Without : M <= K
  BY <1>1, LeastExists
<1>3. M # 0
  <2> DEFINE g == [n \in 0 .. 0 |-> [T \in SUBSET Item |-> T]]
  <2>1. \A n \in 0 .. 0 : n = 0
    OBVIOUS
  <2>2. Grows(g, step, 0)
    BY <2>1 DEF Grows, Grown
  <2>3. QED
    BY <1>2, <2>2
<1>4. M - 1 \in Nat /\ M - 1 \notin Without
  <2>1. Without \subseteq Nat
    OBVIOUS
  <2> HIDE DEF Without
  <2>2. QED
    BY <1>2, <1>3, <2>1
<1>5. PICK old : Grows(old, step, M - 1)
  BY <1>4
<1> DEFINE new == [n \in 0 .. M |-> [T \in SUBSET Item |->
                     IF n = M THEN Grown(old, step, M, T) ELSE old[n][T]]]
<1>6. Grows(new, step, M)
  <2>1. \A n \in 0 .. M - 1, T \in SUBSET Item : new[n][T] = old[n][T]
    BY <1>4
  <2>2. \A n \in 0 .. M - 1, T \in SUBSET Item : old[n][T] = Grown(old, step, n, T)
    BY <1>5 DEF Grows
  <2>3. \A T \in SUBSET Item : new[M][T] = Grown(old, step, M, T)
    BY <1>4
  <2>4. new = [n \in 0 .. M |-> [T \in SUBSET Item |-> new[n][T]]]
    OBVIOUS
  <2> HIDE DEF new
  <2>5. ASSUME NEW n \in 0 .. M, NEW T \in SUBSET Item
        PROVE  Grown(new, step, n, T) = Grown(old, step, n, T)
    <3>1. n = 0 \/ n - 1 \in 0 .. M - 1
      BY <1>4
    <3>2. n = 0 \/ new[n - 1][More(T, step)] = old[n - 1][More(T, step)]
      BY <2>1, <3>1, MoreFacts
    <3>3. QED
      BY <3>2 DEF Grown
  <2>6. \A n \in 0 .. M : n = M \/ n \in 0 .. M - 1
    BY <1>4
  <2>7. \A n \in 0 .. M, T \in SUBSET Item : new[n][T] = Grown(new, step, n, T)
    BY <2>1, <2>2, <2>3, <2>5, <2>6
  <2>8. QED
    BY <2>4, <2>7 DEF Grows
<1>7. QED
  BY <1>2, <1>6

\* Reached is the least set that holds S and what its items lead to.
LEMMA ReachedFacts ==
  ASSUME NEW S \in SUBSET Item, NEW step \in [Item -> SUBSET Item]
  PROVE  LET R == Reached(S, step) IN
         /\ S \subseteq R /\ R \in SUBSET Item
         /\ \A j \in R : step[j] \subseteq R
         /\ \A K : S \subseteq K /\ (\A j \in K : step[j] \subseteq K) => R \subseteq K
<1> DEFINE N == Cardinality(Item)
           g == CHOOSE g : Grows(g, step, N)
<1>1. N \in Nat
  BY ItemsAreFinite, FS_CardinalityType
<1>2. Reached(S, step) = g[N][S]
  BY DEF Reached, Grows, Grown, More
<1>3. Grows(g, step, N)
  BY <1>1, GrowingExists
<1> HIDE DEF g, N
<1>4. ASSUME NEW n \in 0 .. N, NEW T \in SUBSET Item PROVE g[n][T] = Grown(g, step, n, T)
  <2>1. g[n] = [U \in SUBSET Item |-> Grown(g, step, n, U)]
    BY <1>3 DEF Grows
  <2>2. QED
    BY <2>1
<1>9. ASSUME NEW T \in SUBSET Item
      PROVE  /\ More(T, step) \in SUBSET Item /\ T \subseteq More(T, step)
             /\ \A j \in T : step[j] \subseteq More(T, step)
             /\ \A K : T \subseteq K /\ (\A j \in K : step[j] \subseteq K) => More(T, step) \subseteq K
  BY DEF More
<1> DEFINE Good(n) == \A T \in SUBSET Item :
             /\ T \subseteq g[n][T] /\ g[n][T] \in SUBSET Item
             /\ Cardinality(Item \ T) <= n => \A j \in g[n][T] : step[j] \subseteq g[n][T]
             /\ \A K : T \subseteq K /\ (\A j \in K : step[j] \subseteq K) => g[n][T] \subseteq K
           Bad == {n \in 0 .. N : ~Good(n)}
<1>5. Bad = {}
  <2>1. SUFFICES ASSUME Bad # {} PROVE FALSE
    OBVIOUS
  <2>2. Bad \subseteq Nat
    OBVIOUS
  <2>3. PICK n \in Bad : \A m \in Bad : n <= m
    <3> HIDE DEF Bad
    <3>1. QED
      BY <2>1, <2>2, LeastExists
  <2>4. n \in 0 .. N /\ ~Good(n)
    OBVIOUS
  <2>5. n = 0 \/ (n - 1 \in 0 .. N /\ Good(n - 1))
    <3> HIDE DEF Good
    <3>1. n = 0 \/ n - 1 \in 0 .. N
      BY <1>1, <2>4
    <3>2. n - 1 \notin Bad
      <4> HIDE DEF Bad
      <4>1. QED
        BY <2>2, <2>3
    <3>3. QED
      BY <3>1, <3>2
  <2>6. ASSUME NEW T \in SUBSET Item
        PROVE  /\ T \subseteq g[n][T] /\ g[n][T] \in SUBSET Item
               /\ Cardinality(Item \ T) <= n => \A j \in g[n][T] : step[j] \subseteq g[n][T]
               /\ \A K : T \subseteq K /\ (\A j \in K : step[j] \subseteq K) => g[n][T] \subseteq K
    <3>1. g[n][T] = IF n = 0 \/ More(T, step) = T THEN T ELSE g[n - 1][More(T, step)]
      BY <1>4, <2>4 DEF Grown
    <3>2. /\ More(T, step) \in SUBSET Item /\ T \subseteq More(T, step)
          /\ \A j \in T : step[j] \subseteq More(T, step)
          /\ \A K : T \subseteq K /\ (\A j \in K : step[j] \subseteq K) => More(T, step) \subseteq K
      BY <1>9
    <3>3. CASE More(T, step) = T
      BY <3>1, <3>2, <3>3
    <3>4. CASE More(T, step) # T /\ n = 0
      <4>1. g[n][T] = T
        BY <3>1, <3>4
      <4>2. Cardinality(Item \ T) # 0
        <5>1. Item \ T # {} /\ IsFiniteSet(Item \ T)
          BY <3>2, <3>4, ItemsAreFinite, FS_Subset
        <5>2. QED
          BY <5>1, FS_EmptySet
      <4>3. Cardinality(Item \ T) \in Nat
        BY ItemsAreFinite, FS_Subset, FS_CardinalityType
      <4>4. QED
        BY <3>4, <4>1, <4>2, <4>3
    <3>5. CASE More(T, step) # T /\ n # 0
      <4>1. g[n][T] = g[n - 1][More(T, step)] /\ Good(n - 1)
        BY <2>5, <3>1, <3>5
      <4>2. Cardinality(Item \ T) <= n => Cardinality(Item \ More(T, step)) <= n - 1
        <5>1. IsFiniteSet(Item \ T) /\ Item \ More(T, step) \in SUBSET (Item \ T)
          BY <3>2, ItemsAreFinite, FS_Subset
        <5>2. Item \ More(T, step) # Item \ T
          BY <3>2, <3>5
        <5>3. /\ Cardinality(Item \ More(T, step)) <= Cardinality(Item \ T)
              /\ Cardinality(Item \ More(T, step)) # Cardinality(Item \ T)
              /\ IsFiniteSet(Item \ More(T, step))
          BY <5>1, <5>2, FS_Subset
        <5>4. Cardinality(Item \ More(T, step)) \in Nat /\ Cardinality(Item \ T) \in Nat
          BY <5>1, <5>3, FS_CardinalityType
        <5>5. QED
          BY <2>4, <5>3, <5>4
      <4>3. QED
        BY <3>2, <4>1, <4>2
    <3>6. QED
      BY <3>3, <3>4, <3>5
  <2>7. QED
    BY <2>4, <2>6
<1>6. Good(N)
  <2> HIDE DEF Good
  <2>1. N \in 0 .. N
    BY <1>1
  <2>2. QED
    BY <1>5, <2>1
<1>7. Cardinality(Item \ S) <= N
  BY ItemsAreFinite, FS_Subset DEF N
<1>8. QED
  BY <1>2, <1>6, <1>7

\* One step of the walk of Elements, and the table that it builds.
Walked(g, h, n, i) == IF n = 0 \/ i = NULL THEN <<>> ELSE <<i>> \o g[n - 1][h[i].next]

Walks(g, h, M) == g = [n \in 0 .. M |-> [i \in Pointer |-> Walked(g, h, n, i)]]

LEMMA WalkExists ==
  ASSUME NEW h \in [Item -> Cell], NEW N \in Nat
  PROVE  \E g : Walks(g, h, N)
<1> DEFINE Without == {M \in Nat : ~ \E g : Walks(g, h, M)}
<1>1. SUFFICES ASSUME Without # {} PROVE FALSE
  OBVIOUS
<1>2. PICK M \in Without : \A K \in Without : M <= K
  BY <1>1, LeastExists
<1>3. M # 0
  <2> DEFINE g == [n \in 0 .. 0 |-> [i \in Pointer |-> <<>>]]
  <2>1. \A n \in 0 .. 0 : n = 0
    OBVIOUS
  <2>2. Walks(g, h, 0)
    BY <2>1 DEF Walks, Walked
  <2>3. QED
    BY <1>2, <2>2
<1>4. M - 1 \in Nat /\ M - 1 \notin Without
  <2>1. Without \subseteq Nat
    OBVIOUS
  <2> HIDE DEF Without
  <2>2. QED
    BY <1>2, <1>3, <2>1
<1>5. PICK old : Walks(old, h, M - 1)
  BY <1>4
<1> DEFINE new == [n \in 0 .. M |-> [i \in Pointer |->
                     IF n = M THEN Walked(old, h, M, i) ELSE old[n][i]]]
<1>6. Walks(new, h, M)
  <2>1. \A n \in 0 .. M - 1, i \in Pointer : new[n][i] = old[n][i]
    BY <1>4
  <2>2. \A n \in 0 .. M - 1, i \in Pointer : old[n][i] = Walked(old, h, n, i)
    <3>1. \A n \in 0 .. M - 1 : old[n] = [i \in Pointer |-> Walked(old, h, n, i)]
      BY <1>5 DEF Walks
    <3>2. QED
      BY <3>1
  <2>3. \A i \in Pointer : new[M][i] = Walked(old, h, M, i)
    BY <1>4
  <2>4. new = [n \in 0 .. M |-> [i \in Pointer |-> new[n][i]]]
    OBVIOUS
  <2> HIDE DEF new
  <2>5. ASSUME NEW n \in 0 .. M, NEW i \in Pointer
        PROVE  Walked(new, h, n, i) = Walked(old, h, n, i)
    <3>1. n = 0 \/ n - 1 \in 0 .. M - 1
      BY <1>4
    <3>2. i = NULL \/ h[i].next \in Pointer
      BY DEF Pointer, Cell
    <3>3. n = 0 \/ i = NULL \/ new[n - 1][h[i].next] = old[n - 1][h[i].next]
      BY <2>1, <3>1, <3>2
    <3>4. QED
      BY <3>3 DEF Walked
  <2>6. \A n \in 0 .. M : n = M \/ n \in 0 .. M - 1
    BY <1>4
  <2>7. \A n \in 0 .. M, i \in Pointer : new[n][i] = Walked(new, h, n, i)
    BY <2>1, <2>2, <2>3, <2>5, <2>6
  <2>8. QED
    BY <2>4, <2>7 DEF Walks
<1>7. QED
  BY <1>2, <1>6

\* What the table of the walks says of an item and a number of steps.
WalkSays(h, n, i, w) ==
  /\ w \in Seq(Item) /\ Len(w) <= n
  /\ w = <<>> <=> n = 0 \/ i = NULL
  /\ n # 0 /\ i # NULL => w[1] = i
  /\ \A k \in 1 .. Len(w) : k < Len(w) => h[w[k]].next = w[k + 1]
  /\ n # 0 /\ i # NULL /\ Len(w) < n => h[w[Len(w)]].next = NULL

LEMMA WalkStep ==
  ASSUME NEW h \in [Item -> Cell], NEW n \in Nat \ {0}, NEW i \in Item, NEW v,
         WalkSays(h, n - 1, h[i].next, v)
  PROVE  WalkSays(h, n, i, <<i>> \o v)
<1> DEFINE w == <<i>> \o v
<1>1. v \in Seq(Item) /\ Len(v) \in Nat /\ Len(v) <= n - 1 /\ i # NULL
  BY ItemsAreFinite DEF WalkSays
<1>2. w \in Seq(Item) /\ Len(w) = Len(v) + 1 /\ w[1] = i /\ w # <<>>
  BY <1>1
<1>3. \A k \in 1 .. Len(w) : k # 1 => k - 1 \in 1 .. Len(v) /\ w[k] = v[k - 1]
  BY <1>1
<1> HIDE DEF w
<1>4. ASSUME NEW k \in 1 .. Len(w), k < Len(w) PROVE h[w[k]].next = w[k + 1]
  <2>1. w[k + 1] = v[k]
    <3>1. k + 1 \in 1 .. Len(w) /\ k + 1 # 1 /\ (k + 1) - 1 = k
      BY <1>1, <1>2, <1>4
    <3>2. QED
      BY <1>3, <3>1
  <2>2. CASE k = 1
    <3>1. Len(v) # 0 /\ v # <<>>
      BY <1>1, <1>2, <1>4, <2>2
    <3>2. v[1] = h[i].next
      BY <3>1 DEF WalkSays
    <3>3. QED
      BY <1>2, <2>1, <2>2, <3>2
  <2>3. CASE k # 1
    <3>1. k - 1 \in 1 .. Len(v) /\ k - 1 < Len(v) /\ (k - 1) + 1 = k
      BY <1>1, <1>2, <1>4, <2>3
    <3>2. h[v[k - 1]].next = v[k]
      BY <3>1 DEF WalkSays
    <3>3. QED
      BY <1>3, <2>1, <2>3, <3>2
  <2>4. QED
    BY <2>2, <2>3
<1>5. ASSUME Len(w) < n PROVE h[w[Len(w)]].next = NULL
  <2>1. Len(v) < n - 1 /\ n - 1 # 0
    BY <1>1, <1>2, <1>5
  <2>2. CASE h[i].next = NULL
    <3>1. v = <<>>
      BY <2>2 DEF WalkSays
    <3>2. QED
      BY <1>2, <2>2, <3>1
  <2>3. CASE h[i].next # NULL
    <3>1. v # <<>> /\ h[v[Len(v)]].next = NULL
      BY <2>1, <2>3 DEF WalkSays
    <3>2. Len(w) # 1 /\ Len(w) \in 1 .. Len(w) /\ Len(w) - 1 = Len(v)
      BY <1>1, <1>2, <3>1
    <3>3. QED
      BY <1>3, <3>1, <3>2
  <2>4. QED
    BY <2>2, <2>3
<1>6. QED
  BY <1>1, <1>2, <1>4, <1>5 DEF WalkSays, w

\* The list of a container follows next from its first item on, to the end or for as
\* many items as there are.
LEMMA ElementsWalk ==
  ASSUME NEW h \in [Item -> Cell], NEW a \in Item
  PROVE  WalkSays(h, Cardinality(Item), h[a].child, Elements(h, a))
<1> DEFINE N == Cardinality(Item)
           g == CHOOSE g : Walks(g, h, N)
<1>1. N \in Nat
  BY ItemsAreFinite, FS_CardinalityType
<1>2. Elements(h, a) = g[N][h[a].child]
  BY DEF Elements, Walks, Walked
<1>3. Walks(g, h, N)
  BY <1>1, WalkExists
<1> HIDE DEF g, N
<1>4. ASSUME NEW n \in 0 .. N, NEW i \in Pointer PROVE g[n][i] = Walked(g, h, n, i)
  <2>1. g[n] = [j \in Pointer |-> Walked(g, h, n, j)]
    BY <1>3 DEF Walks
  <2>2. QED
    BY <2>1
<1> DEFINE Good(n) == \A i \in Pointer : WalkSays(h, n, i, g[n][i])
           Bad == {n \in 0 .. N : ~Good(n)}
<1>5. Bad = {}
  <2>1. SUFFICES ASSUME Bad # {} PROVE FALSE
    OBVIOUS
  <2>2. Bad \subseteq Nat
    OBVIOUS
  <2>3. PICK n \in Bad : \A m \in Bad : n <= m
    <3> HIDE DEF Bad
    <3>1. QED
      BY <2>1, <2>2, LeastExists
  <2>4. n \in 0 .. N /\ ~Good(n)
    OBVIOUS
  <2>5. n = 0 \/ (n - 1 \in 0 .. N /\ Good(n - 1))
    <3> HIDE DEF Good
    <3>1. n = 0 \/ n - 1 \in 0 .. N
      BY <1>1, <2>4
    <3>2. n - 1 \notin Bad
      <4> HIDE DEF Bad
      <4>1. QED
        BY <2>2, <2>3
    <3>3. QED
      BY <3>1, <3>2
  <2>6. ASSUME NEW i \in Pointer PROVE WalkSays(h, n, i, g[n][i])
    <3>1. CASE n = 0 \/ i = NULL
      <4>1. g[n][i] = <<>>
        BY <1>4, <2>4, <3>1 DEF Walked
      <4>2. <<>> \in Seq(Item) /\ Len(<<>>) = 0 /\ 1 .. 0 = {}
        OBVIOUS
      <4>3. WalkSays(h, n, i, <<>>)
        BY <3>1, <4>2 DEF WalkSays
      <4>4. QED
        BY <4>1, <4>3
    <3>2. CASE n # 0 /\ i # NULL
      <4>1. g[n][i] = <<i>> \o g[n - 1][h[i].next] /\ i \in Item
        BY <1>4, <2>4, <3>2 DEF Walked, Pointer
      <4>2. h[i].next \in Pointer
        BY <4>1 DEF Cell
      <4>3. WalkSays(h, n - 1, h[i].next, g[n - 1][h[i].next])
        BY <2>5, <3>2, <4>2
      <4>4. n \in Nat \ {0}
        BY <2>4, <3>2
      <4>5. QED
        BY <4>1, <4>3, <4>4, WalkStep
    <3>3. QED
      BY <3>1, <3>2
  <2>7. QED
    BY <2>4, <2>6
<1>6. h[a].child \in Pointer /\ N \in 0 .. N
  BY <1>1 DEF Cell
<1>7. Good(N)
  <2> HIDE DEF Good
  <2>1. QED
    BY <1>5, <1>6
<1>8. QED
  BY <1>2, <1>6, <1>7 DEF N

-------------------------------------------------------------------------------
(* The shape of a memory h, where ho[i] is the container that item i is in.  *)

Owns(h, a) == h[a].type \in Container /\ ~h[a].ref

Held(h, ho, i) ==
  /\ Owns(h, ho[i]) /\ h[ho[i]].child # NULL /\ (h[ho[i]].type = "object" => h[i].string # NULL)
  /\ h[ho[i]].child = i =>
       h[i].prev = NULL \/ (ho[h[i].prev] = ho[i] /\ h[h[i].prev].next = NULL)
  /\ h[ho[i]].child # i => h[i].prev # NULL /\ h[h[i].prev].next = i
  /\ h[i].next # NULL => ho[h[i].next] = ho[i] /\ h[h[i].next].prev = i

Single(h, i) == h[i].next = NULL /\ h[i].prev = NULL

\* The list that i owns or shows begins in a container of its type.
Begins(h, ho, i) == h[i].child # NULL =>
  IF h[i].ref THEN ho[h[i].child] # NULL /\ h[ho[h[i].child]].type = h[i].type
              ELSE ho[h[i].child] = i

\* From its first item on, next leads to all that container a holds, and ends.
Full(h, ho, a) == Owns(h, a) /\ h[a].child # NULL =>
  /\ \A K \in SUBSET Item :
       h[a].child \in K /\ (\A j \in K : ho[j] = a /\ h[j].next # NULL => h[j].next \in K)
         => {j \in Item : ho[j] = a} \subseteq K
  /\ \E j \in Item : ho[j] = a /\ h[j].next = NULL

Typed(h, ho) ==
  /\ h \in [Item -> Cell] /\ ho \in [Item -> Pointer]
  /\ \A i \in Item : h[i].type = "free" => h[i] = Blank /\ ho[i] = NULL

Shaped(h, ho) ==
  /\ Typed(h, ho)
  /\ \A i \in Item : IF ho[i] # NULL THEN Held(h, ho, i) ELSE Single(h, i)
  /\ \A i \in Item : Begins(h, ho, i)
  /\ \A i \in Item : Full(h, ho, i)

\* No containers are in one another all around.
Acyclic(ho) == \A K \in SUBSET Item : (\A j \in K : ho[j] \in K) => K = {}

Inv == Shaped(cell, holder) /\ Acyclic(holder)

\* What of its neighbours a place knows.
LEMMA ShapeFacts ==
  ASSUME NEW h, NEW ho, Shaped(h, ho), NEW i \in Item
  PROVE  /\ h[i] \in Cell /\ h[i].next \in Pointer /\ h[i].prev \in Pointer /\ h[i].child \in Pointer
         /\ h[i].string \in Key \cup {NULL} /\ h[i].ref \in BOOLEAN /\ h[i].type \in Type
         /\ ho[i] \in Pointer
         /\ ho[i] # NULL => ho[i] \in Item /\ Held(h, ho, i)
         /\ ho[i] = NULL => Single(h, i)
         /\ h[i].next # NULL => h[i].next \in Item /\ ho[i] # NULL
         /\ h[i].prev # NULL => h[i].prev \in Item /\ ho[i] # NULL /\ ho[h[i].prev] = ho[i]
         /\ h[i].child # NULL => h[i].child \in Item /\ ho[h[i].child] # NULL
         /\ Begins(h, ho, i)
<1>1. h \in [Item -> Cell] /\ ho \in [Item -> Pointer]
  BY DEF Shaped, Typed
<1>2. /\ h[i] \in Cell /\ h[i].next \in Pointer /\ h[i].prev \in Pointer /\ h[i].child \in Pointer
      /\ h[i].string \in Key \cup {NULL} /\ h[i].ref \in BOOLEAN /\ h[i].type \in Type
      /\ ho[i] \in Pointer
  BY <1>1 DEF Cell
<1>3. /\ ho[i] # NULL => ho[i] \in Item /\ Held(h, ho, i)
      /\ ho[i] = NULL => Single(h, i)
      /\ Begins(h, ho, i)
  BY <1>2 DEF Shaped, Pointer
<1>4. /\ h[i].next # NULL => h[i].next \in Item /\ ho[i] # NULL
      /\ h[i].prev # NULL => h[i].prev \in Item /\ ho[i] # NULL
      /\ h[i].child # NULL => h[i].child \in Item
  BY <1>2, <1>3 DEF Pointer, Single
<1>5. h[i].prev # NULL => ho[h[i].prev] = ho[i]
  <2> SUFFICES ASSUME h[i].prev # NULL, h[ho[i]].child # i PROVE ho[h[i].prev] = ho[i]
    BY <1>3, <1>4 DEF Held
  <2> DEFINE p == h[i].prev
  <2>1. p \in Item /\ h[p].next = i /\ i # NULL
    BY <1>3, <1>4, ItemsAreFinite DEF Held
  <2> HIDE DEF p
  <2>2. ho[p] # NULL => Held(h, ho, p)
    BY <2>1 DEF Shaped
  <2>3. ho[p] = NULL => h[p].next = NULL
    BY <2>1 DEF Shaped, Single
  <2>4. ho[p] = ho[i]
    BY <2>1, <2>2, <2>3 DEF Held
  <2>5. QED
    BY <2>4 DEF p
<1>6. h[i].child # NULL => ho[h[i].child] # NULL
  BY <1>2, <1>3, <1>4, ItemsAreFinite DEF Begins
<1>7. QED
  BY <1>2, <1>3, <1>4, <1>5, <1>6

-------------------------------------------------------------------------------
(* What the shape says of the walks.                                       *)

\* The walk along the list of a container that owns it visits what the container
\* holds, each item once.
LEMMA ElementsFacts ==
  ASSUME NEW h, NEW ho, Shaped(h, ho), NEW a \in Item, Owns(h, a)
  PROVE  LET w == Elements(h, a) IN
         w \in Seq(Item) /\ Range(w) = {i \in Item : ho[i] = a} /\ IsInjective(w)
<1> DEFINE w == Elements(h, a)
           N == Cardinality(Item)
           mine == {i \in Item : ho[i] = a}
<1>1. WalkSays(h, N, h[a].child, w) /\ h \in [Item -> Cell] /\ a # NULL
  BY ElementsWalk, ItemsAreFinite DEF Shaped, Typed
<1>2. N \in Nat /\ N # 0
  BY ItemsAreFinite, FS_CardinalityType, FS_EmptySet
<1>3. CASE h[a].child = NULL
  <2>1. w = <<>>
    BY <1>1, <1>3 DEF WalkSays
  <2>2. mine = {}
    BY <1>1, <1>3, ShapeFacts DEF Held
  <2>3. Range(w) = {} /\ IsInjective(w) /\ w \in Seq(Item)
    BY <2>1 DEF Range, IsInjective
  <2>4. QED
    BY <2>2, <2>3
<1>4. CASE h[a].child # NULL
  <2> HIDE DEF w, N
  <2>1. /\ w \in Seq(Item) /\ Len(w) \in Nat /\ Len(w) # 0 /\ Len(w) <= N /\ w[1] = h[a].child
        /\ \A k \in 1 .. Len(w) : k < Len(w) => h[w[k]].next = w[k + 1]
        /\ Len(w) < N => h[w[Len(w)]].next = NULL
    BY <1>1, <1>2, <1>4 DEF WalkSays
  <2>2. /\ \A k \in 1 .. Len(w) : w[k] \in Item /\ w[k] # NULL
        /\ h[a].child \in Item /\ ho[h[a].child] = a
    BY <1>4, <2>1, ShapeFacts, ItemsAreFinite DEF Owns, Begins
  <2> DEFINE Out == {k \in 1 .. Len(w) : ho[w[k]] # a}
  <2>3. Out = {}
    <3>1. SUFFICES ASSUME Out # {} PROVE FALSE
      OBVIOUS
    <3>2. PICK k \in Out : \A m \in Out : k <= m
      <4>1. Out \subseteq Nat
        OBVIOUS
      <4> HIDE DEF Out
      <4>2. QED
        BY <3>1, <4>1, LeastExists
    <3>3. k \in 1 .. Len(w) /\ ho[w[k]] # a /\ k # 1
      BY <2>1, <2>2
    <3>4. k - 1 \in 1 .. Len(w) /\ k - 1 < Len(w) /\ (k - 1) + 1 = k /\ k - 1 \notin Out
      <4>1. Out \subseteq Nat
        OBVIOUS
      <4> HIDE DEF Out
      <4>2. QED
        BY <2>1, <3>2, <3>3, <4>1
    <3>5. h[w[k - 1]].next = w[k] /\ ho[w[k - 1]] = a
      BY <2>1, <3>4
    <3>6. ho[w[k]] = a
      BY <1>1, <2>2, <3>3, <3>4, <3>5, ShapeFacts DEF Held
    <3>7. QED
      BY <3>3, <3>6
  <2>4. \A k \in 1 .. Len(w) : ho[w[k]] = a
    BY <2>3
  <2>5. Range(w) \subseteq mine
    BY <2>1, <2>2, <2>4 DEF Range
  <2>6. \A k \in 1 .. Len(w) : k # 1 => h[w[k]].prev = w[k - 1] /\ h[w[k - 1]].next = w[k]
    <3> TAKE k \in 1 .. Len(w)
    <3> SUFFICES ASSUME k # 1 PROVE h[w[k]].prev = w[k - 1] /\ h[w[k - 1]].next = w[k]
      OBVIOUS
    <3>1. k - 1 \in 1 .. Len(w) /\ k - 1 < Len(w) /\ (k - 1) + 1 = k
      BY <2>1
    <3>2. h[w[k - 1]].next = w[k]
      BY <2>1, <3>1
    <3>3. Held(h, ho, w[k - 1])
      BY <1>1, <2>2, <2>4, <3>1, ShapeFacts
    <3>4. QED
      BY <2>2, <3>2, <3>3 DEF Held
  <2> DEFINE Twice == {k \in 1 .. Len(w) : \E m \in 1 .. Len(w) : k < m /\ w[k] = w[m]}
  <2>7. Twice = {}
    <3>1. SUFFICES ASSUME Twice # {} PROVE FALSE
      OBVIOUS
    <3>2. PICK k \in Twice : \A m \in Twice : k <= m
      <4>1. Twice \subseteq Nat
        OBVIOUS
      <4> HIDE DEF Twice
      <4>2. QED
        BY <3>1, <4>1, LeastExists
    <3>3. PICK m \in 1 .. Len(w) : k \in 1 .. Len(w) /\ k < m /\ w[k] = w[m]
      OBVIOUS
    <3>4. m # 1 /\ h[w[m]].prev = w[m - 1] /\ h[w[m - 1]].next = w[m] /\ m - 1 \in 1 .. Len(w)
      BY <2>1, <2>6, <3>3
    <3>5. CASE k = 1
      <4>1. Held(h, ho, w[1]) /\ w[1] \in Item
        BY <1>1, <2>2, <2>4, <3>3, <3>5, ShapeFacts
      <4>2. h[ho[w[1]]].child = w[1]
        BY <2>1, <2>2
      <4>3. h[w[1]].prev = w[m - 1] /\ h[w[m - 1]].next = w[1]
        BY <3>3, <3>4, <3>5
      <4>4. h[w[1]].prev # NULL
        BY <2>2, <3>4, <4>3
      <4>5. w[1] # NULL
        BY <4>1, ItemsAreFinite
      <4>6. QED
        BY <4>1, <4>2, <4>3, <4>4, <4>5 DEF Held
    <3>6. CASE k # 1
      <4>1. k - 1 \in 1 .. Len(w) /\ k - 1 < m - 1 /\ w[k - 1] = w[m - 1] /\ ~ k <= k - 1
        BY <2>1, <2>6, <3>3, <3>4, <3>6
      <4>2. k - 1 \in Twice
        BY <3>4, <4>1
      <4>3. QED
        BY <3>2, <4>1, <4>2
    <3>7. QED
      BY <3>5, <3>6
  <2>8. IsInjective(w)
    <3>1. \A k, m \in 1 .. Len(w) : k < m \/ m < k \/ k = m
      BY <2>1
    <3>2. DOMAIN w = 1 .. Len(w)
      BY <2>1
    <3>3. ASSUME NEW k \in 1 .. Len(w), NEW m \in 1 .. Len(w), w[k] = w[m] PROVE k = m
      BY <2>7, <3>1, <3>3
    <3>4. QED
      BY <3>2, <3>3 DEF IsInjective
  <2>9. mine \subseteq Range(w)
    <3>1. CASE Len(w) < N
      <4>1. \A j \in Range(w) : h[j].next # NULL => h[j].next \in Range(w)
        <5>1. ASSUME NEW k \in 1 .. Len(w), h[w[k]].next # NULL PROVE h[w[k]].next \in Range(w)
          <6>1. k # Len(w)
            BY <2>1, <3>1, <5>1
          <6>2. k + 1 \in DOMAIN w /\ h[w[k]].next = w[k + 1]
            BY <2>1, <6>1
          <6>3. QED
            BY <6>2 DEF Range
        <5>2. QED
          BY <2>1, <5>1 DEF Range
      <4>2. h[a].child \in Range(w) /\ Range(w) \in SUBSET Item
        BY <2>1 DEF Range
      <4>3. Full(h, ho, a)
        BY DEF Shaped
      <4>4. QED
        BY <1>4, <4>1, <4>2, <4>3 DEF Full
    <3>2. CASE ~(Len(w) < N)
      <4>1. Len(w) = N
        BY <1>2, <2>1, <3>2
      <4>2. w \in Injection(1 .. N, Item)
        BY <2>1, <2>8, <4>1 DEF Injection, IsInjective
      <4>3. Cardinality(1 .. N) = N /\ IsFiniteSet(1 .. N)
        BY <1>2, FS_Interval
      <4>4. w \in Surjection(1 .. N, Item)
        BY <4>2, <4>3, ItemsAreFinite, FS_Surjection, FS_Injection DEF N
      <4>5. QED
        BY <4>4 DEF Surjection, Range
    <3>3. QED
      BY <3>1, <3>2
  <2>10. QED
    BY <2>1, <2>5, <2>8, <2>9 DEF w
<1>5. QED
  BY <1>3, <1>4

\* The walk to the last item of a list ends at an item of it that leads nowhere.
LEMMA LastFacts ==
  ASSUME NEW h, NEW ho, Shaped(h, ho), NEW a \in Item, Owns(h, a), h[a].child # NULL
  PROVE  LET last == LastOf(h, h[a].child) IN
         last \in Item /\ ho[last] = a /\ h[last].next = NULL
<1> DEFINE first == h[a].child
           step == [i \in Item |-> {h[i].next} \ {NULL}]
           R == Chain(h, first)
           mine == {j \in Item : ho[j] = a}
<1>1. first \in Item /\ ho[first] = a /\ a # NULL /\ Full(h, ho, a)
  BY ShapeFacts, ItemsAreFinite DEF Owns, Begins, Shaped
<1>2. step \in [Item -> SUBSET Item]
  BY ShapeFacts
<1>3. /\ first \in R /\ R \in SUBSET Item
      /\ \A j \in R : step[j] \subseteq R
      /\ \A K : {first} \subseteq K /\ (\A j \in K : step[j] \subseteq K) => R \subseteq K
  <2>1. {first} \in SUBSET Item
    BY <1>1
  <2>2. R = Reached({first}, step)
    BY DEF Chain
  <2> HIDE DEF R, step, first
  <2>3. QED
    BY <1>2, <2>1, <2>2, ReachedFacts
<1> HIDE DEF R
<1>4. R \subseteq mine
  <2>1. \A j \in mine : step[j] \subseteq mine
    BY <1>1, ShapeFacts DEF Held
  <2>2. {first} \subseteq mine
    BY <1>1
  <2> HIDE DEF mine, step, first
  <2>3. QED
    BY <1>3, <2>1, <2>2
<1>5. mine \subseteq R
  <2>1. \A j \in R : h[j].next # NULL => h[j].next \in R
    BY <1>3
  <2>2. QED
    BY <1>1, <1>3, <2>1 DEF Full
<1>6. \E j \in R : h[j].next = NULL
  BY <1>1, <1>5 DEF Full
<1>7. LastOf(h, first) \in R /\ h[LastOf(h, first)].next = NULL
  BY <1>6, Zenon DEF LastOf, R
<1>8. QED
  BY <1>4, <1>7

\* X is item i with all that lies below it.
Branch(ho, i, X) ==
  /\ X \in SUBSET Item /\ i \in X
  /\ \A j \in Item : ho[j] \in X => j \in X
  /\ \A j \in X : j # i => ho[j] \in X

LEMMA OneBranch ==
  ASSUME NEW ho, Acyclic(ho), NEW i \in Item, NEW X, NEW Y, Branch(ho, i, X), Branch(ho, i, Y)
  PROVE  X = Y
<1>1. X \ Y = {}
  <2>1. X \ Y \in SUBSET Item /\ \A j \in X \ Y : ho[j] \in X \ Y
    BY DEF Branch
  <2>2. QED
    BY <2>1 DEF Acyclic
<1>2. Y \ X = {}
  <2>1. Y \ X \in SUBSET Item /\ \A j \in Y \ X : ho[j] \in Y \ X
    BY DEF Branch
  <2>2. QED
    BY <2>1 DEF Acyclic
<1>3. QED
  BY <1>1, <1>2

\* Where a delete leads from an item.
Leads(h) == [j \in Item |->
  ({h[j].next} \cup IF h[j].ref THEN {} ELSE {h[j].child}) \ {NULL}]

LEMMA DeletedLeast ==
  ASSUME NEW h, NEW ho, Shaped(h, ho), NEW i \in Item
  PROVE  /\ i \in Deleted(h, i) /\ Deleted(h, i) \in SUBSET Item
         /\ \A j \in Deleted(h, i) :
              /\ h[j].next # NULL => h[j].next \in Deleted(h, i)
              /\ ~h[j].ref /\ h[j].child # NULL => h[j].child \in Deleted(h, i)
         /\ \A K \in SUBSET Item :
              i \in K /\ (\A j \in K : /\ h[j].next # NULL => h[j].next \in K
                                       /\ ~h[j].ref /\ h[j].child # NULL => h[j].child \in K)
              => Deleted(h, i) \subseteq K
<1> DEFINE D == Deleted(h, i)
           step == Leads(h)
<1>1. step \in [Item -> SUBSET Item]
  BY ShapeFacts DEF Leads
<1>2. /\ {i} \subseteq D /\ D \in SUBSET Item
      /\ \A j \in D : step[j] \subseteq D
      /\ \A K : {i} \subseteq K /\ (\A j \in K : step[j] \subseteq K) => D \subseteq K
  <2>1. D = Reached({i}, step)
    BY DEF Deleted, Leads
  <2> HIDE DEF D, step
  <2>2. QED
    BY <1>1, <2>1, ReachedFacts
<1>3. ASSUME NEW j \in Item, NEW K
      PROVE  step[j] \subseteq K <=> /\ h[j].next # NULL => h[j].next \in K
                                     /\ ~h[j].ref /\ h[j].child # NULL => h[j].child \in K
  BY DEF Leads
<1> HIDE DEF D, step
<1>4. \A j \in D : /\ h[j].next # NULL => h[j].next \in D
                   /\ ~h[j].ref /\ h[j].child # NULL => h[j].child \in D
  BY <1>2, <1>3
<1>5. ASSUME NEW K \in SUBSET Item, i \in K,
             \A j \in K : /\ h[j].next # NULL => h[j].next \in K
                          /\ ~h[j].ref /\ h[j].child # NULL => h[j].child \in K
      PROVE  D \subseteq K
  <2>1. \A j \in K : step[j] \subseteq K
    BY <1>3, <1>5
  <2>2. QED
    BY <1>2, <1>5, <2>1
<1>6. QED
  BY <1>2, <1>4, <1>5 DEF D

\* What is below an item of a set closed like this one is in the set.
LEMMA HeldInside ==
  ASSUME NEW h, NEW ho, Shaped(h, ho), NEW D \in SUBSET Item, NEW a \in Item,
         \A j \in D : h[j].next # NULL => h[j].next \in D,
         Owns(h, a) /\ h[a].child # NULL => h[a].child \in D
  PROVE  \A j \in Item : ho[j] = a => j \in D
<1> TAKE j \in Item
<1> SUFFICES ASSUME ho[j] = a PROVE j \in D
  OBVIOUS
<1>1. Owns(h, a) /\ h[a].child # NULL /\ Full(h, ho, a)
  BY ShapeFacts, ItemsAreFinite DEF Held, Shaped
<1>2. QED
  BY <1>1 DEF Full

\* Deleting an item that is in no container gives back what lies below it.
LEMMA DeletedFacts ==
  ASSUME NEW h, NEW ho, Shaped(h, ho), NEW i \in Item, ho[i] = NULL
  PROVE  Branch(ho, i, Deleted(h, i))
<1> DEFINE D == Deleted(h, i)
<1>1. /\ i \in D /\ D \in SUBSET Item
      /\ \A j \in D :
           /\ h[j].next # NULL => h[j].next \in D
           /\ ~h[j].ref /\ h[j].child # NULL => h[j].child \in D
      /\ \A K \in SUBSET Item :
           i \in K /\ (\A j \in K : /\ h[j].next # NULL => h[j].next \in K
                                    /\ ~h[j].ref /\ h[j].child # NULL => h[j].child \in K)
           => D \subseteq K
  BY DeletedLeast
<1> HIDE DEF D
<1> DEFINE K == {j \in D : j # i => ho[j] \in D}
<1>2. ASSUME NEW j \in K
      PROVE  /\ h[j].next # NULL => h[j].next \in K
             /\ ~h[j].ref /\ h[j].child # NULL => h[j].child \in K
  <2>1. j \in Item /\ j \in D /\ (j # i => ho[j] \in D)
    BY <1>1
  <2>2. h[j].next # NULL => h[j].next \in D /\ j # i /\ ho[h[j].next] = ho[j]
    BY <1>1, <2>1, ShapeFacts DEF Single, Held
  <2>3. ~h[j].ref /\ h[j].child # NULL => h[j].child \in D /\ ho[h[j].child] = j
    BY <1>1, <2>1, ShapeFacts DEF Begins
  <2>4. QED
    BY <2>1, <2>2, <2>3
<1>3. D \subseteq K
  <2>1. K \in SUBSET Item /\ i \in K
    BY <1>1
  <2> HIDE DEF K
  <2>2. QED
    BY <1>1, <1>2, <2>1
<1>4. ASSUME NEW j \in Item, ho[j] \in D PROVE j \in D
  <2>1. ho[j] \in Item /\ (Owns(h, ho[j]) /\ h[ho[j]].child # NULL => h[ho[j]].child \in D)
    BY <1>1, <1>4 DEF Owns
  <2>2. QED
    BY <1>1, <2>1, HeldInside
<1>5. QED
  BY <1>1, <1>3, <1>4 DEF Branch, D

\* Whole(i), of any memory.
WholeOf(h, i) ==
    {i} \cup IF h[i].ref \/ h[i].child = NULL THEN {} ELSE Deleted(h, h[i].child)

LEMMA WholeFacts ==
  ASSUME NEW h, NEW ho, Shaped(h, ho), NEW i \in Item
  PROVE  Branch(ho, i, WholeOf(h, i))
<1>1. CASE h[i].ref \/ h[i].child = NULL
  <2>1. WholeOf(h, i) = {i}
    BY <1>1 DEF WholeOf
  <2>2. \A j \in Item : ho[j] # i
    BY <1>1, ShapeFacts, ItemsAreFinite DEF Held, Owns
  <2>3. QED
    BY <2>1, <2>2 DEF Branch
<1>2. CASE ~h[i].ref /\ h[i].child # NULL
  <2> DEFINE c == h[i].child
             D == Deleted(h, c)
             X == WholeOf(h, i)
  <2>1. X = {i} \cup D /\ c \in Item /\ ho[c] = i
    BY <1>2, ShapeFacts DEF WholeOf, Begins
  <2>2. /\ c \in D /\ D \in SUBSET Item
        /\ \A j \in D :
             /\ h[j].next # NULL => h[j].next \in D
             /\ ~h[j].ref /\ h[j].child # NULL => h[j].child \in D
        /\ \A K \in SUBSET Item :
             c \in K /\ (\A j \in K : /\ h[j].next # NULL => h[j].next \in K
                                      /\ ~h[j].ref /\ h[j].child # NULL => h[j].child \in K)
             => D \subseteq K
    <3> HIDE DEF c
    <3>1. QED
      BY <2>1, DeletedLeast
  <2> HIDE DEF D, X
  <2> DEFINE K == {j \in D : ho[j] \in X}
  <2>3. ASSUME NEW j \in K
        PROVE  /\ h[j].next # NULL => h[j].next \in K
               /\ ~h[j].ref /\ h[j].child # NULL => h[j].child \in K
    <3>1. j \in Item /\ j \in D /\ ho[j] \in X
      BY <2>2
    <3>2. h[j].next # NULL => h[j].next \in D /\ ho[h[j].next] = ho[j]
      BY <2>2, <3>1, ShapeFacts DEF Held
    <3>3. ~h[j].ref /\ h[j].child # NULL => h[j].child \in D /\ ho[h[j].child] = j
      BY <2>2, <3>1, ShapeFacts DEF Begins
    <3>4. QED
      BY <2>1, <3>1, <3>2, <3>3
  <2>4. D \subseteq K
    <3>1. K \in SUBSET Item /\ c \in K
      BY <2>1, <2>2
    <3> HIDE DEF K, c
    <3>2. QED
      BY <2>2, <2>3, <3>1
  <2>5. ASSUME NEW j \in Item, ho[j] \in X PROVE j \in D
    <3>1. ho[j] \in Item
      BY <2>1, <2>2, <2>5
    <3>2. Owns(h, ho[j]) /\ h[ho[j]].child # NULL => h[ho[j]].child \in D
      BY <2>1, <2>2, <2>5 DEF Owns
    <3> HIDE DEF c
    <3>3. QED
      BY <2>2, <3>1, <3>2, HeldInside
  <2>6. QED
    BY <2>1, <2>2, <2>4, <2>5 DEF Branch, X
<1>3. QED
  BY <1>1, <1>2

\* There is memory for the things of S, a cell for each, where there are enough.
LEMMA AllocatedFacts ==
  ASSUME NEW S, IsFiniteSet(S), CanAllocate(S)
  PROVE  /\ Allocated(S) \in [S -> Free]
         /\ \A x, y \in S : Allocated(S)[x] = Allocated(S)[y] => x = y
<1> DEFINE m == Cardinality(S)
           n == Cardinality(Free)
<1>1. IsFiniteSet(Free)
  BY ItemsAreFinite, FS_Subset DEF Free
<1>2. m \in Nat /\ n \in Nat /\ m <= n
  BY <1>1, FS_CardinalityType DEF CanAllocate
<1>3. PICK f : f \in Bijection(1 .. m, S)
  BY FS_CardinalityType, Fun_ExistsBij
<1>4. PICK g : g \in Bijection(1 .. n, Free)
  BY <1>1, FS_CardinalityType, Fun_ExistsBij
<1>5. /\ f \in [1 .. m -> S] /\ \A y \in S : \E k \in 1 .. m : f[k] = y
      /\ \A j, k \in 1 .. m : f[j] = f[k] => j = k
  BY <1>3 DEF Bijection, Injection, Surjection, IsInjective
<1>6. g \in [1 .. n -> Free] /\ \A j, k \in 1 .. n : g[j] = g[k] => j = k
  BY <1>4 DEF Bijection, Injection, IsInjective
<1> DEFINE at(x) == CHOOSE k \in 1 .. m : f[k] = x
           new == [x \in S |-> g[at(x)]]
<1>7. \A x \in S : at(x) \in 1 .. m /\ f[at(x)] = x
  BY <1>5
<1> HIDE DEF at, m, n
<1>8. \A x \in S : at(x) \in 1 .. n
  BY <1>2, <1>7
<1>9. new \in [S -> Free]
  BY <1>6, <1>8
<1>10. \A x, y \in S : new[x] = new[y] => x = y
  BY <1>6, <1>7, <1>8
<1> HIDE DEF new
<1>11. new \in Injection(S, Free)
  BY <1>9, <1>10 DEF Injection, IsInjective
<1>12. Allocated(S) \in Injection(S, Free)
  BY <1>11 DEF Allocated
<1>13. QED
  BY <1>12 DEF Injection, IsInjective

-------------------------------------------------------------------------------
(* Linking an item into a list.                                            *)

LEMMA SameCell ==
  ASSUME NEW c \in Cell, NEW d \in Cell, c.type = d.type, c.ref = d.ref, c.next = d.next,
         c.prev = d.prev, c.child = d.child, c.string = d.string
  PROVE  c = d
BY DEF Cell

\* Item i, which is in no container, may go where p is before it and n after it in
\* the list of a, and then has q as its prev.
Gap(h, ho, a, p, n, q, i) ==
  \/ h[a].child = NULL /\ p = NULL /\ n = NULL /\ q \in {i, NULL}
  \/ h[a].child # NULL /\ p \in Item /\ ho[p] = a /\ h[p].next = NULL /\ n = NULL /\ q = p
  \/ h[a].child # NULL /\ n = h[a].child /\ p = NULL /\ q = h[n].prev
  \/ n \in Item /\ ho[n] = a /\ n # h[a].child /\ p = h[n].prev /\ q = p

\* The memory h2 is h with i put there.
Filled(h, h2, a, p, n, q, i) ==
  /\ h2 \in [Item -> Cell]
  /\ \A x \in Item :
       /\ h2[x].type = h[x].type /\ h2[x].ref = h[x].ref /\ h2[x].string = h[x].string
       /\ h2[x].next = IF x = i THEN n ELSE IF x = p THEN i ELSE h[x].next
       /\ h2[x].child = IF x = a /\ p = NULL THEN i ELSE h[x].child
       /\ h2[x].prev = IF x = i THEN q
                       ELSE IF x = n \/ (n = NULL /\ x = h[a].child) THEN i ELSE h[x].prev

MayFill(h, ho, a, i) ==
  /\ Owns(h, a) /\ ho[i] = NULL /\ a # i /\ h[i].type # "free"
  /\ h[a].type = "object" => h[i].string # NULL

\* The first item of a list has nothing that leads to it.
LEMMA FirstFacts ==
  ASSUME NEW h, NEW ho, Shaped(h, ho), NEW x \in Item, h[x].next # NULL, ho[x] # NULL
  PROVE  h[ho[x]].child # h[x].next
<1>1. h[x].next \in Item /\ ho[h[x].next] = ho[x] /\ h[h[x].next].prev = x
  BY ShapeFacts DEF Held
<1>2. Held(h, ho, h[x].next) /\ x # NULL
  BY <1>1, ShapeFacts, ItemsAreFinite
<1>3. QED
  BY <1>1, <1>2 DEF Held

LEMMA GapFacts ==
  ASSUME NEW h, NEW ho, Shaped(h, ho), NEW a \in Item, NEW i \in Item, MayFill(h, ho, a, i),
         NEW p, NEW n, NEW q, Gap(h, ho, a, p, n, q, i)
  PROVE  /\ a # NULL /\ i # NULL /\ h[i].next = NULL /\ h[i].prev = NULL
         /\ p # NULL => p \in Item /\ ho[p] = a /\ p # i /\ h[p].next = n
         /\ n # NULL => n \in Item /\ ho[n] = a /\ n # i /\ (p # NULL => h[n].prev = p)
         /\ q # NULL => q \in Item
         /\ p = NULL => n = h[a].child
         /\ h[a].child # NULL => h[a].child \in Item /\ ho[h[a].child] = a
         /\ \A x \in Item : h[x].child # i /\ h[x].next # i /\ h[x].prev # i
<1>1. a # NULL /\ i # NULL /\ h[i].next = NULL /\ h[i].prev = NULL
  BY ItemsAreFinite, ShapeFacts DEF MayFill, Single
<1>2. h[a].child # NULL => h[a].child \in Item /\ ho[h[a].child] = a
  BY ShapeFacts DEF MayFill, Owns, Begins
<1>3. \A x \in Item : h[x].child # i /\ h[x].next # i /\ h[x].prev # i
  BY <1>1, ShapeFacts DEF Held, MayFill
<1>4. CASE h[a].child = NULL /\ p = NULL /\ n = NULL /\ q \in {i, NULL}
  BY <1>1, <1>2, <1>3, <1>4
<1>5. CASE h[a].child # NULL /\ p \in Item /\ ho[p] = a /\ h[p].next = NULL /\ n = NULL /\ q = p
  BY <1>1, <1>2, <1>3, <1>5, ItemsAreFinite DEF MayFill
<1>6. CASE h[a].child # NULL /\ n = h[a].child /\ p = NULL /\ q = h[n].prev
  BY <1>1, <1>2, <1>3, <1>6, ShapeFacts DEF MayFill
<1>7. CASE n \in Item /\ ho[n] = a /\ n # h[a].child /\ p = h[n].prev /\ q = p
  BY <1>1, <1>2, <1>3, <1>7, ShapeFacts DEF MayFill, Held
<1>8. QED
  BY <1>4, <1>5, <1>6, <1>7 DEF Gap

LEMMA FilledHeld ==
  ASSUME NEW h, NEW ho, Shaped(h, ho), NEW a \in Item, NEW i \in Item, MayFill(h, ho, a, i),
         NEW p, NEW n, NEW q, Gap(h, ho, a, p, n, q, i), NEW h2, Filled(h, h2, a, p, n, q, i),
         NEW x \in Item, x # i, ho[x] # NULL
  PROVE  Held(h2, [ho EXCEPT ![i] = a], x)
<1> DEFINE ho2 == [ho EXCEPT ![i] = a]
           b == ho[x]
<1>1. /\ a # NULL /\ i # NULL /\ h[i].next = NULL /\ h[i].prev = NULL
      /\ p # NULL => p \in Item /\ ho[p] = a /\ p # i /\ h[p].next = n
      /\ n # NULL => n \in Item /\ ho[n] = a /\ n # i /\ (p # NULL => h[n].prev = p)
      /\ p = NULL => n = h[a].child
      /\ h[a].child # NULL => h[a].child \in Item /\ ho[h[a].child] = a
      /\ h[x].child # i /\ h[x].next # i /\ h[x].prev # i
  BY GapFacts
<1>2. /\ b \in Item /\ Held(h, ho, x)
      /\ h[x].next # NULL => h[x].next \in Item
      /\ h[x].prev # NULL => h[x].prev \in Item /\ ho[h[x].prev] = ho[x]
      /\ h[x].next # NULL => h[b].child # h[x].next
  BY ShapeFacts, FirstFacts
<1>3. /\ ho2[x] = b /\ ho2[i] = a
      /\ \A y \in Item : y # i => ho2[y] = ho[y]
  BY DEF Shaped, Typed
<1> HIDE DEF ho2
<1>4. Owns(h2, b) /\ h2[b].child # NULL /\ (h2[b].type = "object" => h2[x].string # NULL)
  BY <1>1, <1>2 DEF Held, Owns, Filled
<1>5. ASSUME h2[b].child = x
      PROVE  h2[x].prev = NULL \/ (ho2[h2[x].prev] = b /\ h2[h2[x].prev].next = NULL)
  <2>1. h[b].child = x /\ (b = a => p # NULL)
    BY <1>1, <1>2, <1>5 DEF Filled
  <2>2. CASE b = a /\ n = NULL
    <3>1. h2[x].prev = i /\ h2[i].next = NULL
      BY <1>2, <2>1, <2>2 DEF Filled
    <3>2. QED
      BY <1>3, <2>2, <3>1
  <2>3. CASE b = a /\ n # NULL
    <3>1. x # n
      <4>1. h[p].next = n /\ ho[p] = b /\ p \in Item
        BY <1>1, <2>1, <2>3
      <4>2. QED
        BY <1>2, <2>1, <2>3, <4>1, FirstFacts
    <3>2. h2[x].prev = h[x].prev
      BY <2>3, <3>1 DEF Filled
    <3>3. h[x].prev # NULL => h[h[x].prev].next = NULL /\ h[x].prev # p
      BY <1>1, <1>2, <2>1, <2>3 DEF Held
    <3>4. QED
      BY <1>1, <1>2, <1>3, <3>2, <3>3 DEF Filled
  <2>4. CASE b # a
    <3>1. h2[x].prev = h[x].prev
      BY <1>1, <2>4, ItemsAreFinite DEF Filled
    <3>2. h[x].prev # NULL => h[h[x].prev].next = NULL /\ h[x].prev # p
      BY <1>1, <1>2, <2>1, <2>4 DEF Held
    <3>3. QED
      BY <1>1, <1>2, <1>3, <3>1, <3>2 DEF Filled
  <2>5. QED
    BY <2>2, <2>3, <2>4
<1>6. ASSUME h2[b].child # x
      PROVE  h2[x].prev # NULL /\ h2[h2[x].prev].next = x
  <2>1. CASE x = n
    <3>1. h2[x].prev = i /\ h2[i].next = x
      BY <2>1 DEF Filled
    <3>2. QED
      BY <1>1, <3>1
  <2>2. CASE x # n
    <3>1. h[b].child # x
      BY <1>1, <1>2, <1>6, <2>2 DEF Filled
    <3>2. h2[x].prev = h[x].prev
      BY <1>1, <1>2, <2>2, <3>1 DEF Filled
    <3>3. h[x].prev # NULL /\ h[h[x].prev].next = x /\ h[x].prev # p
      BY <1>1, <1>2, <2>2, <3>1 DEF Held
    <3>4. QED
      BY <1>1, <1>2, <3>2, <3>3 DEF Filled
  <2>3. QED
    BY <2>1, <2>2
<1>7. ASSUME h2[x].next # NULL
      PROVE  ho2[h2[x].next] = b /\ h2[h2[x].next].prev = x
  <2>1. CASE x = p
    <3>1. h2[x].next = i /\ h2[i].prev = q
      BY <2>1 DEF Filled
    <3>2. p # NULL /\ q = p /\ ho[p] = a
      BY <1>1, <2>1, ItemsAreFinite DEF Gap
    <3>3. QED
      BY <1>3, <2>1, <3>1, <3>2
  <2>2. CASE x # p
    <3>1. h2[x].next = h[x].next
      BY <2>2 DEF Filled
    <3>2. h[x].next \in Item /\ ho[h[x].next] = b /\ h[h[x].next].prev = x
      BY <1>2, <1>7, <3>1 DEF Held
    <3>3. h[x].next # n
      <4>1. CASE p = NULL
        BY <1>1, <1>2, <1>7, <3>1, <3>2, <4>1
      <4>2. CASE p # NULL
        BY <1>1, <1>7, <2>2, <3>1, <3>2, <4>2
      <4>3. QED
        BY <4>1, <4>2
    <3>4. h[x].next # h[a].child
      BY <1>1, <1>2, <1>7, <3>1, <3>2
    <3>5. h2[h[x].next].prev = x
      BY <1>1, <3>2, <3>3, <3>4 DEF Filled
    <3>6. QED
      BY <1>1, <1>3, <3>1, <3>2, <3>5
  <2>3. QED
    BY <2>1, <2>2
<1>8. QED
  BY <1>3, <1>4, <1>5, <1>6, <1>7 DEF Held, ho2

LEMMA FilledNew ==
  ASSUME NEW h, NEW ho, Shaped(h, ho), NEW a \in Item, NEW i \in Item, MayFill(h, ho, a, i),
         NEW p, NEW n, NEW q, Gap(h, ho, a, p, n, q, i), NEW h2, Filled(h, h2, a, p, n, q, i)
  PROVE  Held(h2, [ho EXCEPT ![i] = a], i)
<1> DEFINE ho2 == [ho EXCEPT ![i] = a]
<1>1. /\ a # NULL /\ i # NULL
      /\ p # NULL => p \in Item /\ ho[p] = a /\ p # i /\ h[p].next = n
      /\ n # NULL => n \in Item /\ ho[n] = a /\ n # i /\ (p # NULL => h[n].prev = p)
      /\ p = NULL => n = h[a].child
      /\ h[a].child # NULL => h[a].child \in Item /\ ho[h[a].child] = a
      /\ h[a].child # i
  BY GapFacts
<1>2. ho2[i] = a /\ \A y \in Item : y # i => ho2[y] = ho[y]
  BY DEF Shaped, Typed
<1> HIDE DEF ho2
<1>3. Owns(h2, a) /\ h2[a].child # NULL /\ (h2[a].type = "object" => h2[i].string # NULL)
  <2>1. p # NULL => h[a].child # NULL
    BY <1>1, ShapeFacts DEF Held
  <2>2. QED
    BY <1>1, <2>1 DEF Owns, MayFill, Filled
<1>4. h2[i].next = n /\ (n # NULL => ho2[n] = a /\ h2[n].prev = i)
  BY <1>1, <1>2 DEF Filled
<1>5. h2[a].child = i <=> p = NULL
  BY <1>1 DEF Filled
<1>6. p # NULL => h2[i].prev = p /\ h2[p].next = i
  BY <1>1, ItemsAreFinite DEF Filled, Gap
<1>7. ASSUME p = NULL
      PROVE  h2[i].prev = NULL \/ (ho2[h2[i].prev] = a /\ h2[h2[i].prev].next = NULL)
  <2>1. CASE n = NULL
    <3>1. h2[i].prev \in {i, NULL} /\ h2[i].next = NULL
      BY <1>1, <1>7, <2>1, ItemsAreFinite DEF Filled, Gap
    <3>2. QED
      BY <1>2, <3>1
  <2>2. CASE n # NULL
    <3>1. n = h[a].child /\ h2[i].prev = h[n].prev
      BY <1>1, <1>7, <2>2, ItemsAreFinite, ShapeFacts DEF Filled, Gap, Held
    <3>2. n \in Item /\ Held(h, ho, n) /\ ho[n] = a /\ h[n].prev # i
      BY <1>1, <2>2, GapFacts, ShapeFacts
    <3>3. h[n].prev # NULL => h[n].prev \in Item /\ ho[h[n].prev] = a /\ h[h[n].prev].next = NULL
      BY <3>1, <3>2, ShapeFacts DEF Held
    <3>4. h[n].prev # NULL => h2[h[n].prev].next = NULL
      BY <1>7, <3>2, <3>3, ItemsAreFinite DEF Filled
    <3>5. QED
      BY <1>2, <3>1, <3>2, <3>3, <3>4
  <2>3. QED
    BY <2>1, <2>2
<1>8. QED
  BY <1>1, <1>2, <1>3, <1>4, <1>5, <1>6, <1>7 DEF Held, ho2

LEMMA FilledFull ==
  ASSUME NEW h, NEW ho, Shaped(h, ho), NEW a \in Item, NEW i \in Item, MayFill(h, ho, a, i),
         NEW p, NEW n, NEW q, Gap(h, ho, a, p, n, q, i), NEW h2, Filled(h, h2, a, p, n, q, i),
         NEW b \in Item
  PROVE  Full(h2, [ho EXCEPT ![i] = a], b)
<1> DEFINE ho2 == [ho EXCEPT ![i] = a]
<1>1. /\ a # NULL /\ i # NULL
      /\ p # NULL => p \in Item /\ ho[p] = a /\ p # i /\ h[p].next = n
      /\ n # NULL => n \in Item /\ ho[n] = a /\ n # i /\ (p # NULL => h[n].prev = p)
      /\ p = NULL => n = h[a].child
      /\ h[a].child # NULL => h[a].child \in Item /\ ho[h[a].child] = a
      /\ ho[i] = NULL
  BY GapFacts DEF MayFill
<1>2. ho2[i] = a /\ (\A y \in Item : y # i => ho2[y] = ho[y]) /\ Full(h, ho, b)
  BY DEF Shaped, Typed
<1> HIDE DEF ho2
<1>3. SUFFICES ASSUME Owns(h2, b), h2[b].child # NULL
               PROVE  /\ \A K \in SUBSET Item :
                           /\ h2[b].child \in K
                           /\ \A j \in K : ho2[j] = b /\ h2[j].next # NULL => h2[j].next \in K
                           => {j \in Item : ho2[j] = b} \subseteq K
                      /\ \E j \in Item : ho2[j] = b /\ h2[j].next = NULL
  BY DEF Full, ho2
<1>4. Owns(h, b)
  BY <1>3 DEF Owns, Filled
<1>5. CASE b # a
  <2>1. h[b].child = h2[b].child /\ \A j \in Item : ho2[j] = b <=> ho[j] = b
    BY <1>1, <1>2, <1>5, ItemsAreFinite DEF Filled
  <2>2. \A j \in Item : ho[j] = b => h2[j].next = h[j].next
    BY <1>1, <1>5, ItemsAreFinite DEF Filled
  <2>3. QED
    BY <1>2, <1>3, <1>4, <2>1, <2>2 DEF Full
<1>6. CASE b = a
  <2>1. ASSUME NEW K \in SUBSET Item, h2[a].child \in K,
               \A j \in K : ho2[j] = a /\ h2[j].next # NULL => h2[j].next \in K
        PROVE  {j \in Item : ho2[j] = a} \subseteq K
    <3>1. i \in K => (n # NULL => n \in K)
      BY <1>1, <1>2, <2>1 DEF Filled
    <3>2. p # NULL /\ p \in K => i \in K
      BY <1>1, <1>2, <2>1 DEF Filled
    <3>3. p = NULL => i \in K
      BY <2>1 DEF Filled
    <3>4. h[a].child # NULL => h[a].child \in K
      BY <1>1, <2>1, <3>1, <3>3 DEF Filled
    <3>5. \A j \in K : ho[j] = a /\ h[j].next # NULL => h[j].next \in K
      <4> TAKE j \in K
      <4> SUFFICES ASSUME ho[j] = a, h[j].next # NULL PROVE h[j].next \in K
        OBVIOUS
      <4>1. j # i /\ ho2[j] = a
        BY <1>1, <1>2
      <4>2. CASE j = p
        BY <1>1, <3>1, <3>2, <4>2, ItemsAreFinite
      <4>3. CASE j # p
        BY <2>1, <4>1, <4>3 DEF Filled
      <4>4. QED
        BY <4>2, <4>3
    <3>6. h[a].child # NULL => {j \in Item : ho[j] = a} \subseteq K
      BY <1>2, <1>4, <1>6, <3>4, <3>5 DEF Full
    <3>7. h[a].child = NULL => \A j \in Item : ho[j] # a
      BY <1>1, ShapeFacts DEF Held
    <3>8. i \in K
      BY <1>1, <3>2, <3>3, <3>6, <3>7
    <3>9. QED
      BY <1>2, <3>6, <3>7, <3>8
  <2>2. \E j \in Item : ho2[j] = a /\ h2[j].next = NULL
    <3>1. CASE n = NULL
      BY <1>2, <3>1 DEF Filled
    <3>2. CASE n # NULL
      <4>1. h[a].child # NULL
        BY <1>1, <3>2, ShapeFacts DEF Held
      <4>2. PICK j \in Item : ho[j] = a /\ h[j].next = NULL
        BY <1>2, <1>4, <1>6, <4>1 DEF Full
      <4>3. j # i /\ j # p
        BY <1>1, <3>2, <4>2, ItemsAreFinite
      <4>4. QED
        BY <1>2, <4>2, <4>3 DEF Filled
    <3>3. QED
      BY <3>1, <3>2
  <2>3. QED
    BY <1>6, <2>1, <2>2
<1>7. QED
  BY <1>5, <1>6

\* An item put into a gap of a list leaves a memory of the same shape.
LEMMA FilledShaped ==
  ASSUME NEW h, NEW ho, Shaped(h, ho), NEW a \in Item, NEW i \in Item, MayFill(h, ho, a, i),
         NEW p, NEW n, NEW q, Gap(h, ho, a, p, n, q, i), NEW h2, Filled(h, h2, a, p, n, q, i)
  PROVE  Shaped(h2, [ho EXCEPT ![i] = a])
<1> DEFINE ho2 == [ho EXCEPT ![i] = a]
<1>1. /\ a # NULL /\ i # NULL
      /\ p # NULL => p \in Item /\ ho[p] = a
      /\ n # NULL => n \in Item /\ ho[n] = a
      /\ p = NULL => n = h[a].child
      /\ h[a].child # NULL => h[a].child \in Item /\ ho[h[a].child] = a
      /\ \A x \in Item : h[x].child # i
      /\ Owns(h, a) /\ ho[i] = NULL /\ h[i].type # "free"
  BY GapFacts DEF MayFill
<1>2. ho2[i] = a /\ (\A y \in Item : y # i => ho2[y] = ho[y]) /\ ho2 \in [Item -> Pointer]
  BY DEF Shaped, Typed, Pointer
<1> HIDE DEF ho2
<1>3. ASSUME NEW x \in Item PROVE IF ho2[x] # NULL THEN Held(h2, ho2, x) ELSE Single(h2, x)
  <2>1. CASE ho2[x] # NULL
    <3>1. CASE x = i
      BY <2>1, <3>1, FilledNew DEF ho2
    <3>2. CASE x # i
      <4>1. ho[x] # NULL
        BY <1>2, <2>1, <3>2
      <4>2. QED
        BY <2>1, <3>2, <4>1, FilledHeld DEF ho2
    <3>3. QED
      BY <3>1, <3>2
  <2>2. CASE ho2[x] = NULL
    <3>1. x # i /\ x # p /\ x # n /\ x # h[a].child /\ Single(h, x)
      BY <1>1, <1>2, <2>2, ItemsAreFinite, ShapeFacts
    <3>2. QED
      BY <2>2, <3>1 DEF Single, Filled
  <2>3. QED
    BY <2>1, <2>2
<1>4. ASSUME NEW x \in Item PROVE Begins(h2, ho2, x)
  <2>1. Begins(h, ho, x) /\ (h[x].child # NULL => h[x].child \in Item /\ ho[h[x].child] # NULL)
    BY ShapeFacts
  <2>2. CASE x = a /\ p = NULL
    BY <1>1, <1>2, <2>2 DEF Begins, Owns, Filled
  <2>3. CASE ~(x = a /\ p = NULL)
    <3>1. h2[x].child = h[x].child /\ h2[x].ref = h[x].ref /\ h2[x].type = h[x].type
      BY <2>3 DEF Filled
    <3>2. h[x].child # NULL => h[x].child # i /\ ho[h[x].child] \in Item
      BY <1>1, <2>1, ShapeFacts
    <3>3. h[x].child # NULL => h2[ho[h[x].child]].type = h[ho[h[x].child]].type
      BY <3>2 DEF Filled
    <3>4. QED
      BY <1>2, <2>1, <3>1, <3>2, <3>3 DEF Begins
  <2>4. QED
    BY <2>2, <2>3
<1>5. ASSUME NEW x \in Item, h2[x].type = "free" PROVE h2[x] = Blank /\ ho2[x] = NULL
  <2>1. h[x].type = "free" /\ h[x] = Blank /\ ho[x] = NULL /\ h[x] \in Cell /\ h2[x] \in Cell
    BY <1>5 DEF Filled, Shaped, Typed
  <2>2. x # i /\ x # a /\ x # p /\ x # n /\ x # h[a].child
    BY <1>1, <2>1, ItemsAreFinite DEF Owns, Container
  <2>3. h2[x] = h[x]
    <3>1. /\ h2[x].type = h[x].type /\ h2[x].ref = h[x].ref /\ h2[x].string = h[x].string
          /\ h2[x].next = h[x].next /\ h2[x].child = h[x].child /\ h2[x].prev = h[x].prev
      BY <2>2 DEF Filled
    <3>2. QED
      BY <2>1, <3>1, SameCell
  <2>4. QED
    BY <1>2, <2>1, <2>2, <2>3
<1>6. \A x \in Item : Full(h2, ho2, x)
  BY FilledFull DEF ho2
<1>7. QED
  BY <1>2, <1>3, <1>4, <1>5, <1>6 DEF Shaped, Typed, Filled, ho2

\* A pointer written into a memory leaves a memory.
LEMMA WritesAreCells ==
  ASSUME NEW h \in [Item -> Cell], NEW x \in Item, NEW v \in Pointer
  PROVE  /\ [h EXCEPT ![x].next = v] \in [Item -> Cell]
         /\ [h EXCEPT ![x].prev = v] \in [Item -> Cell]
         /\ [h EXCEPT ![x].child = v] \in [Item -> Cell]
<1>1. /\ [h[x] EXCEPT !.next = v] \in Cell
      /\ [h[x] EXCEPT !.prev = v] \in Cell
      /\ [h[x] EXCEPT !.child = v] \in Cell
  BY DEF Cell
<1>2. QED
  BY <1>1

\* What the lookups of a container give is in it.
LEMMA GetArrayItemFacts ==
  ASSUME NEW h, NEW ho, Shaped(h, ho), NEW a \in Item, Owns(h, a), NEW index \in Nat,
         GetArrayItem(h, a, index) # NULL
  PROVE  GetArrayItem(h, a, index) \in Item /\ ho[GetArrayItem(h, a, index)] = a
<1> DEFINE w == Elements(h, a)
<1>1. w \in Seq(Item) /\ Range(w) = {i \in Item : ho[i] = a}
  BY ElementsFacts
<1>2. index < Len(w) /\ GetArrayItem(h, a, index) = w[index + 1]
  BY DEF GetArrayItem, GetArraySize
<1> HIDE DEF w
<1>3. index + 1 \in DOMAIN w
  BY <1>1, <1>2
<1>4. QED
  BY <1>1, <1>2, <1>3 DEF Range

LEMMA GetObjectItemFacts ==
  ASSUME NEW h, NEW ho, Shaped(h, ho), NEW o \in Item, Owns(h, o), NEW key, NEW exact,
         GetObjectItem(h, o, key, exact) # NULL
  PROVE  GetObjectItem(h, o, key, exact) \in Item /\ ho[GetObjectItem(h, o, key, exact)] = o
<1> DEFINE w == Elements(h, o)
           string(n) == h[w[n]].string
           ends == {n \in DOMAIN w :
                     IF exact THEN string(n) \in {NULL, key}
                     ELSE NULL \notin {string(n), key} /\ Lower[string(n)] = Lower[key]}
<1>1. w \in Seq(Item) /\ Range(w) = {i \in Item : ho[i] = o}
  BY ElementsFacts
<1>2. ends # {} /\ GetObjectItem(h, o, key, exact) = w[Min(ends)]
  BY Zenon DEF GetObjectItem
<1>3. ends \subseteq DOMAIN w
  OBVIOUS
<1> HIDE DEF w, ends
<1>4. ends \subseteq Nat
  BY <1>1, <1>3
<1>5. \E x \in ends : \A y \in ends : x <= y
  BY <1>2, <1>4, LeastExists
<1>6. Min(ends) \in ends
  BY <1>5 DEF Min
<1>7. QED
  BY <1>1, <1>2, <1>3, <1>6 DEF Range

LEMMA AddFills ==
  ASSUME NEW h, NEW ho, Shaped(h, ho), NEW a \in Item, NEW i \in Item, MayFill(h, ho, a, i)
  PROVE  \E p, n, q : /\ n = NULL
                      /\ Gap(h, ho, a, p, n, q, i) /\ Filled(h, AddItemToArray(h, a, i), a, p, n, q, i)
<1> DEFINE h2 == AddItemToArray(h, a, i)
           child == h[a].child
           last == IF h[child].prev # NULL THEN h[child].prev ELSE LastOf(h, child)
<1>1. /\ h \in [Item -> Cell] /\ a # NULL /\ i # NULL /\ NULL \notin Item /\ a # i
      /\ h[i].next = NULL /\ child \in Pointer
      /\ child # NULL => child \in Item /\ ho[child] = a /\ child # i
  BY ItemsAreFinite, ShapeFacts DEF Shaped, Typed, MayFill, Owns, Begins, Single
<1>2. CASE child = NULL
  <2>1. h2 = [h EXCEPT ![a].child = i, ![i].prev = i, ![i].next = NULL]
    BY <1>2 DEF AddItemToArray
  <2>2. h2 \in [Item -> Cell]
    <3> DEFINE f == [h EXCEPT ![a].child = i]
               g == [f EXCEPT ![i].prev = i]
    <3>1. f \in [Item -> Cell]
      BY <1>1, WritesAreCells DEF Pointer
    <3>2. g \in [Item -> Cell]
      <4> HIDE DEF f
      <4>1. QED
        BY <3>1, WritesAreCells DEF Pointer
    <3>3. h2 = [g EXCEPT ![i].next = NULL]
      BY <2>1
    <3> HIDE DEF g, h2
    <3>4. QED
      BY <3>2, <3>3, WritesAreCells DEF Pointer
  <2>3. Filled(h, h2, a, NULL, NULL, i, i)
    <3>1. \A x \in Item :
            /\ h2[x].type = h[x].type /\ h2[x].ref = h[x].ref /\ h2[x].string = h[x].string
            /\ h2[x].next = IF x = i THEN NULL ELSE h[x].next
            /\ h2[x].child = IF x = a THEN i ELSE h[x].child
            /\ h2[x].prev = IF x = i THEN i ELSE h[x].prev
      BY <1>1, <2>1 DEF Cell
    <3> HIDE DEF h2
    <3>2. QED
      BY <1>1, <1>2, <2>2, <3>1 DEF Filled
  <2>4. Gap(h, ho, a, NULL, NULL, i, i)
    BY <1>2 DEF Gap
  <2>5. QED
    BY <2>3, <2>4
<1>3. CASE child # NULL
  <2>1. h2 = [SuffixObject(h, last, i) EXCEPT ![child].prev = i]
    BY <1>3 DEF AddItemToArray
  <2>2. last \in Item /\ ho[last] = a /\ h[last].next = NULL
    <3>1. Owns(h, a) /\ Held(h, ho, child)
      BY <1>1, <1>3, ShapeFacts DEF MayFill
    <3>2. CASE h[child].prev # NULL
      <4>1. ho[child] = a /\ h[a].child = child /\ child \in Item
        BY <1>1, <1>3
      <4>2. h[child].prev \in Item /\ ho[h[child].prev] = a
        BY <3>2, <4>1, ShapeFacts
      <4>3. h[h[child].prev].next = NULL
        BY <3>1, <3>2, <4>1 DEF Held
      <4>4. QED
        BY <3>2, <4>2, <4>3
    <3>3. CASE h[child].prev = NULL
      BY <1>3, <3>1, <3>3, LastFacts
    <3>4. QED
      BY <3>2, <3>3
  <2>3. last # i
    BY <1>1, <2>2 DEF MayFill
  <2> HIDE DEF last
  <2>4. h2 = [h EXCEPT ![last].next = i, ![i].prev = last, ![child].prev = i]
    BY <2>1 DEF SuffixObject
  <2> HIDE DEF h2, child
  <2>5. h2 \in [Item -> Cell]
    <3> DEFINE f == [h EXCEPT ![last].next = i]
               g == [f EXCEPT ![i].prev = last]
    <3>1. f \in [Item -> Cell]
      BY <1>1, <2>2, WritesAreCells DEF Pointer
    <3>2. g \in [Item -> Cell]
      <4> HIDE DEF f
      <4>1. QED
        BY <2>2, <3>1, WritesAreCells DEF Pointer
    <3>3. h2 = [g EXCEPT ![child].prev = i]
      BY <2>4
    <3> HIDE DEF g
    <3>4. QED
      BY <1>1, <1>3, <3>2, <3>3, WritesAreCells DEF Pointer, child
  <2>6. Filled(h, h2, a, last, NULL, last, i)
    <3>1. \A x \in Item :
            /\ h2[x].type = h[x].type /\ h2[x].ref = h[x].ref /\ h2[x].string = h[x].string
            /\ h2[x].next = IF x = i THEN NULL ELSE IF x = last THEN i ELSE h[x].next
            /\ h2[x].child = h[x].child
            /\ h2[x].prev = IF x = i THEN last ELSE IF x = child THEN i ELSE h[x].prev
      BY <1>1, <1>3, <2>2, <2>3, <2>4 DEF Cell
    <3>2. QED
      BY <1>1, <1>3, <2>2, <2>5, <3>1 DEF Filled, child
  <2>7. Gap(h, ho, a, last, NULL, last, i)
    BY <1>3, <2>2 DEF Gap, child
  <2>8. QED
    BY <2>6, <2>7 DEF h2
<1>4. QED
  BY <1>2, <1>3

LEMMA InsertFills ==
  ASSUME NEW h, NEW ho, Shaped(h, ho), NEW a \in Item, NEW i \in Item, MayFill(h, ho, a, i),
         NEW which \in Nat
  PROVE  \E p, n, q : /\ n = GetArrayItem(h, a, which) /\ Gap(h, ho, a, p, n, q, i)
                      /\ Filled(h, InsertItemInArray(h, a, which, i), a, p, n, q, i)
<1> DEFINE h2 == InsertItemInArray(h, a, which, i)
           n == GetArrayItem(h, a, which)
           prev == h[n].prev
<1>1. CASE n = NULL
  BY <1>1, AddFills DEF InsertItemInArray
<1>2. CASE n # NULL
  <2>1. n \in Item /\ ho[n] = a
    BY <1>2, GetArrayItemFacts DEF MayFill
  <2>2. h2 = IF n = h[a].child
             THEN [h EXCEPT ![i].next = n, ![i].prev = prev, ![n].prev = i, ![a].child = i]
             ELSE [h EXCEPT ![i].next = n, ![i].prev = prev, ![n].prev = i, ![prev].next = i]
    BY <1>2 DEF InsertItemInArray
  <2> HIDE DEF n, h2
  <2>3. /\ h \in [Item -> Cell] /\ a # NULL /\ i # NULL /\ n # i /\ NULL \notin Item /\ a # i
        /\ prev \in Pointer /\ prev # i /\ a \in Item /\ i \in Item
        /\ n # h[a].child => prev \in Item
    <3>1. Held(h, ho, n) /\ h[n].prev \in Pointer /\ (h[n].prev # NULL => ho[h[n].prev] = a)
      BY <2>1, ShapeFacts, ItemsAreFinite
    <3>2. QED
      BY <2>1, <3>1, ItemsAreFinite DEF Shaped, Typed, MayFill, Held, Pointer
  <2> HIDE DEF prev
  <2>4. CASE n = h[a].child
    <3>1. h2 = [h EXCEPT ![i].next = n, ![i].prev = prev, ![n].prev = i, ![a].child = i]
      BY <2>2, <2>4
    <3>2. h2 \in [Item -> Cell]
      <4> DEFINE e == [h EXCEPT ![i].next = n]
                 f == [e EXCEPT ![i].prev = prev]
                 g == [f EXCEPT ![n].prev = i]
      <4>1. e \in [Item -> Cell]
        BY <2>1, <2>3, WritesAreCells DEF Pointer
      <4>2. f \in [Item -> Cell]
        <5> HIDE DEF e
        <5>1. QED
          BY <2>3, <4>1, WritesAreCells
      <4>3. g \in [Item -> Cell]
        <5> HIDE DEF f
        <5>1. QED
          BY <2>1, <2>3, <4>2, WritesAreCells DEF Pointer
      <4>4. h2 = [g EXCEPT ![a].child = i]
        BY <3>1
      <4> HIDE DEF g
      <4>5. QED
        BY <2>3, <4>3, <4>4, WritesAreCells DEF Pointer
    <3>3. \A x \in Item :
            /\ h2[x].type = h[x].type /\ h2[x].ref = h[x].ref /\ h2[x].string = h[x].string
            /\ h2[x].next = IF x = i THEN n ELSE h[x].next
            /\ h2[x].child = IF x = a THEN i ELSE h[x].child
            /\ h2[x].prev = IF x = i THEN prev ELSE IF x = n THEN i ELSE h[x].prev
      BY <2>1, <2>3, <3>1 DEF Cell
    <3>4. Filled(h, h2, a, NULL, n, prev, i)
      BY <1>2, <2>3, <3>2, <3>3 DEF Filled
    <3>5. Gap(h, ho, a, NULL, n, prev, i)
      BY <1>2, <2>4 DEF Gap, prev
    <3>6. QED
      BY <3>4, <3>5 DEF h2, n
  <2>5. CASE n # h[a].child
    <3>1. h2 = [h EXCEPT ![i].next = n, ![i].prev = prev, ![n].prev = i, ![prev].next = i]
      BY <2>2, <2>5
    <3>2. h2 \in [Item -> Cell]
      <4> DEFINE e == [h EXCEPT ![i].next = n]
                 f == [e EXCEPT ![i].prev = prev]
                 g == [f EXCEPT ![n].prev = i]
      <4>1. e \in [Item -> Cell]
        BY <2>1, <2>3, WritesAreCells DEF Pointer
      <4>2. f \in [Item -> Cell]
        <5> HIDE DEF e
        <5>1. QED
          BY <2>3, <4>1, WritesAreCells
      <4>3. g \in [Item -> Cell]
        <5> HIDE DEF f
        <5>1. QED
          BY <2>1, <2>3, <4>2, WritesAreCells DEF Pointer
      <4>4. h2 = [g EXCEPT ![prev].next = i]
        BY <3>1
      <4> HIDE DEF g
      <4>5. QED
        BY <2>3, <2>5, <4>3, <4>4, WritesAreCells DEF Pointer
    <3>3. \A x \in Item :
            /\ h2[x].type = h[x].type /\ h2[x].ref = h[x].ref /\ h2[x].string = h[x].string
            /\ h2[x].next = IF x = i THEN n ELSE IF x = prev THEN i ELSE h[x].next
            /\ h2[x].child = h[x].child
            /\ h2[x].prev = IF x = i THEN prev ELSE IF x = n THEN i ELSE h[x].prev
      BY <2>1, <2>3, <2>5, <3>1 DEF Cell
    <3>4. Filled(h, h2, a, prev, n, prev, i)
      BY <1>2, <2>3, <2>5, <3>2, <3>3 DEF Filled
    <3>5. Gap(h, ho, a, prev, n, prev, i)
      BY <2>1, <2>5 DEF Gap, prev
    <3>6. QED
      BY <3>4, <3>5 DEF h2, n
  <2>6. QED
    BY <2>4, <2>5
<1>3. QED
  BY <1>1, <1>2

-------------------------------------------------------------------------------
(* Taking an item out of its list.                                         *)

\* The memory h2 is h without item i in the list of a.
Emptied(h, h2, a, i) ==
  LET first == h[a].child IN
  /\ h2 \in [Item -> Cell]
  /\ \A x \in Item :
       /\ h2[x].type = h[x].type /\ h2[x].ref = h[x].ref /\ h2[x].string = h[x].string
       /\ h2[x].next = IF x = i THEN NULL
                       ELSE IF i # first /\ x = h[i].prev THEN h[i].next ELSE h[x].next
       /\ h2[x].child = IF x = a /\ i = first THEN h[i].next ELSE h[x].child
       /\ h2[x].prev = IF x = i THEN NULL
                       ELSE IF x = h[i].next \/ (i # first /\ h[i].next = NULL /\ x = first)
                            THEN h[i].prev
                       ELSE h[x].prev

MayEmpty(h, ho, a, i) ==
  Owns(h, a) /\ ho[i] = a /\ \A r \in Item : h[r].ref => h[r].child # i

LEMMA TakenFacts ==
  ASSUME NEW h, NEW ho, Shaped(h, ho), NEW a \in Item, NEW i \in Item, MayEmpty(h, ho, a, i)
  PROVE  LET first == h[a].child
             p == h[i].prev
             n == h[i].next IN
         /\ a # NULL /\ i # NULL /\ first \in Item /\ ho[first] = a /\ ho[i] = a
         /\ p \in Pointer /\ n \in Pointer
         /\ p # NULL => p \in Item /\ ho[p] = a
         /\ i # first => p \in Item /\ p # i /\ h[p].next = i
         /\ i = first /\ p # NULL => h[p].next = NULL
         /\ n # NULL => n \in Item /\ ho[n] = a /\ n # i /\ h[n].prev = i /\ n # first
         /\ i = first /\ n = NULL => \A x \in Item : ho[x] = a => x = i
         /\ \A x \in Item : ho[x] # NULL /\ h[x].next = i => i # first /\ x = p
         /\ \A x \in Item : h[x].child = i => x = a /\ i = first
<1> DEFINE first == h[a].child
           p == h[i].prev
           n == h[i].next
<1>1. a # NULL /\ i # NULL /\ ho[i] = a /\ Held(h, ho, i) /\ Owns(h, a) /\ NULL \notin Item
  BY ItemsAreFinite, ShapeFacts DEF MayEmpty
<1>2. first \in Item /\ ho[first] = a
  BY <1>1, ShapeFacts DEF Held, Owns, Begins
<1>3. /\ p \in Pointer /\ n \in Pointer
      /\ p # NULL => p \in Item /\ ho[p] = a
      /\ n # NULL => n \in Item /\ ho[n] = a /\ h[n].prev = i /\ n # first
  BY <1>1, ShapeFacts, FirstFacts DEF Held
<1>4. i # first => p \in Item /\ h[p].next = i
  BY <1>1, <1>3 DEF Held
<1>5. i = first /\ p # NULL => h[p].next = NULL
  BY <1>1 DEF Held
<1>6. n # i
  <2>1. SUFFICES ASSUME n = i PROVE FALSE
    OBVIOUS
  <2>2. i # first /\ p = i
    BY <1>1, <1>3, <2>1
  <2>3. Full(h, ho, a) /\ first # NULL
    BY <1>1, <1>2 DEF Shaped
  <2> DEFINE K == {x \in Item : x # i}
  <2>4. \A j \in K : ho[j] = a /\ h[j].next # NULL => h[j].next \in K
    <3> TAKE j \in K
    <3> SUFFICES ASSUME ho[j] = a, h[j].next = i PROVE FALSE
      BY ShapeFacts
    <3>1. Held(h, ho, j)
      BY <1>1, ShapeFacts
    <3>2. h[i].prev = j
      BY <1>1, <3>1 DEF Held
    <3>3. QED
      BY <2>2, <3>2
  <2>5. first \in K /\ K \in SUBSET Item
    BY <1>2, <2>2
  <2> HIDE DEF K, first
  <2>6. {x \in Item : ho[x] = a} \subseteq K
    BY <1>1, <2>3, <2>4, <2>5 DEF Full, first
  <2>7. QED
    BY <1>1, <2>6 DEF K
<1>7. i = first /\ n = NULL => \A x \in Item : ho[x] = a => x = i
  <2>1. Full(h, ho, a) /\ first # NULL
    BY <1>1, <1>2 DEF Shaped
  <2>2. ASSUME i = first, n = NULL PROVE {x \in Item : ho[x] = a} \subseteq {i}
    <3>1. \A j \in {i} : ho[j] = a /\ h[j].next # NULL => h[j].next \in {i}
      BY <2>2
    <3>2. {i} \in SUBSET Item /\ first \in {i}
      BY <2>2
    <3>3. QED
      BY <1>1, <2>1, <3>1, <3>2 DEF Full
  <2>3. QED
    BY <2>2
<1>8. ASSUME NEW x \in Item, ho[x] # NULL, h[x].next = i PROVE i # first /\ x = p
  <2>1. ho[x] = a /\ h[i].prev = x
    BY <1>1, <1>8, ShapeFacts DEF Held
  <2>2. QED
    BY <1>1, <1>8, <2>1, FirstFacts
<1>9. \A x \in Item : h[x].child = i => x = a /\ i = first
  BY <1>1, ShapeFacts DEF MayEmpty, Begins
<1>10. i # first => p # i
  BY <1>4, <1>6
<1>11. QED
  BY <1>1, <1>2, <1>3, <1>4, <1>5, <1>6, <1>7, <1>8, <1>9, <1>10

LEMMA EmptiedHeld ==
  ASSUME NEW h, NEW ho, Shaped(h, ho), NEW a \in Item, NEW i \in Item, MayEmpty(h, ho, a, i),
         NEW h2, Emptied(h, h2, a, i), NEW x \in Item, x # i, ho[x] # NULL
  PROVE  Held(h2, [ho EXCEPT ![i] = NULL], x)
<1> DEFINE ho2 == [ho EXCEPT ![i] = NULL]
           b == ho[x]
           first == h[a].child
           p == h[i].prev
           n == h[i].next
<1>1. /\ a # NULL /\ i # NULL /\ first \in Item /\ ho[first] = a /\ ho[i] = a
      /\ p \in Pointer /\ n \in Pointer
      /\ p # NULL => p \in Item /\ ho[p] = a
      /\ i # first => p \in Item /\ p # i /\ h[p].next = i
      /\ i = first /\ p # NULL => h[p].next = NULL
      /\ n # NULL => n \in Item /\ ho[n] = a /\ n # i /\ h[n].prev = i /\ n # first
      /\ i = first /\ n = NULL => \A y \in Item : ho[y] = a => y = i
      /\ h[x].next = i => i # first /\ x = p
      /\ NULL \notin Item
  BY TakenFacts, ItemsAreFinite
<1>2. /\ b \in Item /\ Held(h, ho, x)
      /\ h[x].next # NULL => h[x].next \in Item
      /\ h[x].prev # NULL => h[x].prev \in Item /\ ho[h[x].prev] = ho[x]
      /\ h[x].next # NULL => h[b].child # h[x].next
  BY ShapeFacts, FirstFacts
<1>3. /\ ho2[x] = b /\ \A y \in Item : y # i => ho2[y] = ho[y]
  BY DEF Shaped, Typed
<1>4. /\ h2[x].next = IF i # first /\ x = p THEN n ELSE h[x].next
      /\ h2[x].prev = IF x = n \/ (i # first /\ n = NULL /\ x = first) THEN p ELSE h[x].prev
      /\ h2[b].child = IF b = a /\ i = first THEN n ELSE h[b].child
      /\ h2[b].type = h[b].type /\ h2[b].ref = h[b].ref /\ h2[x].string = h[x].string
      /\ \A y \in Item : y # i =>
           /\ h2[y].next = IF i # first /\ y = p THEN n ELSE h[y].next
           /\ h2[y].prev = IF y = n \/ (i # first /\ n = NULL /\ y = first) THEN p ELSE h[y].prev
  BY <1>2 DEF Emptied
<1> HIDE DEF ho2, first, p, n
<1>5. Owns(h2, b) /\ h2[b].child # NULL /\ (h2[b].type = "object" => h2[x].string # NULL)
  BY <1>1, <1>2, <1>4 DEF Held, Owns
<1>6. ASSUME h2[b].child = x
      PROVE  h2[x].prev = NULL \/ (ho2[h2[x].prev] = b /\ h2[h2[x].prev].next = NULL)
  <2>1. CASE b = a /\ i = first
    <3>1. x = n /\ h2[x].prev = p
      BY <1>4, <1>6, <2>1
    <3>2. p # NULL => p # i /\ h[p].next = NULL /\ p \in Item
      BY <1>1, <1>2, <2>1, <3>1 DEF n
    <3>3. QED
      BY <1>1, <1>3, <1>4, <2>1, <3>1, <3>2
  <2>2. CASE b = a /\ i # first
    <3>1. x = first
      BY <1>4, <1>6, <2>2 DEF first
    <3>2. CASE n = NULL
      <4>1. h2[x].prev = p /\ h2[p].next = NULL /\ ho2[p] = a
        BY <1>1, <1>3, <1>4, <2>2, <3>1, <3>2
      <4>2. QED
        BY <2>2, <4>1
    <3>3. CASE n # NULL
      <4>1. h2[x].prev = h[x].prev
        BY <1>1, <1>4, <3>1, <3>3
      <4>2. h[x].prev # NULL => h[h[x].prev].next = NULL /\ h[x].prev # p /\ h[x].prev # i
        BY <1>1, <1>2, <2>2, <3>1, <3>3 DEF Held, first, n
      <4>3. QED
        BY <1>2, <1>3, <1>4, <4>1, <4>2
    <3>4. QED
      BY <3>2, <3>3
  <2>3. CASE b # a
    <3>1. h2[x].prev = h[x].prev /\ h[b].child = x
      BY <1>1, <1>4, <1>6, <2>3
    <3>2. h[x].prev # NULL => h[h[x].prev].next = NULL /\ h[x].prev # p /\ h[x].prev # i
      BY <1>1, <1>2, <2>3, <3>1 DEF Held
    <3>3. QED
      BY <1>2, <1>3, <1>4, <3>1, <3>2
  <2>4. QED
    BY <2>1, <2>2, <2>3
<1>7. ASSUME h2[b].child # x
      PROVE  h2[x].prev # NULL /\ h2[h2[x].prev].next = x
  <2>1. CASE x = n
    <3>1. i # first
      BY <1>1, <1>4, <1>7, <2>1
    <3>2. h2[x].prev = p /\ p \in Item /\ p # i /\ h2[p].next = n
      BY <1>1, <1>4, <2>1, <3>1
    <3>3. QED
      BY <1>1, <2>1, <3>2
  <2>2. CASE x # n
    <3>1. h[b].child # x
      BY <1>1, <1>4, <1>7 DEF first
    <3>2. h2[x].prev = h[x].prev
      BY <1>1, <1>4, <2>2, <3>1 DEF first
    <3>3. h[x].prev \in Item /\ h[h[x].prev].next = x
      BY <1>2, <3>1 DEF Held
    <3>4. h[x].prev # i
      BY <2>2, <3>3 DEF n
    <3>5. i # first => h[x].prev # p
      BY <1>1, <3>3
    <3>6. h2[h[x].prev].next = x
      BY <1>4, <3>3, <3>4, <3>5
    <3>7. QED
      BY <1>1, <3>2, <3>3, <3>6
  <2>3. QED
    BY <2>1, <2>2
<1>8. ASSUME h2[x].next # NULL
      PROVE  ho2[h2[x].next] = b /\ h2[h2[x].next].prev = x
  <2>1. CASE i # first /\ x = p
    <3>1. h2[x].next = n /\ n \in Item /\ n # i /\ ho[n] = a /\ b = a
      BY <1>1, <1>4, <1>8, <2>1
    <3>2. h2[n].prev = p
      BY <1>4, <3>1
    <3>3. QED
      BY <1>3, <2>1, <3>1, <3>2
  <2>2. CASE ~(i # first /\ x = p)
    <3>1. h2[x].next = h[x].next /\ h[x].next # i
      BY <1>1, <1>4, <2>2
    <3>2. h[x].next \in Item /\ ho[h[x].next] = b /\ h[h[x].next].prev = x
      BY <1>2, <1>8, <3>1 DEF Held
    <3>3. h[x].next # n
      BY <1>1, <3>2
    <3>4. h[x].next # first
      BY <1>1, <1>2, <1>8, <3>1, <3>2 DEF first
    <3>5. h2[h[x].next].prev = x
      BY <1>4, <3>1, <3>2, <3>3, <3>4
    <3>6. QED
      BY <1>3, <3>1, <3>2, <3>5
  <2>3. QED
    BY <2>1, <2>2
<1>9. QED
  BY <1>3, <1>5, <1>6, <1>7, <1>8 DEF Held, ho2

LEMMA EmptiedFull ==
  ASSUME NEW h, NEW ho, Shaped(h, ho), NEW a \in Item, NEW i \in Item, MayEmpty(h, ho, a, i),
         NEW h2, Emptied(h, h2, a, i), NEW b \in Item
  PROVE  Full(h2, [ho EXCEPT ![i] = NULL], b)
<1> DEFINE ho2 == [ho EXCEPT ![i] = NULL]
           first == h[a].child
           p == h[i].prev
           n == h[i].next
<1>1. /\ a # NULL /\ i # NULL /\ first \in Item /\ ho[first] = a /\ ho[i] = a
      /\ i # first => p \in Item /\ ho[p] = a /\ p # i /\ h[p].next = i
      /\ n # NULL => n \in Item /\ ho[n] = a /\ n # i
      /\ \A y \in Item : ho[y] # NULL /\ h[y].next = i => i # first /\ y = p
      /\ NULL \notin Item
  BY TakenFacts, ItemsAreFinite
<1>2. ho2[i] = NULL /\ (\A y \in Item : y # i => ho2[y] = ho[y]) /\ Full(h, ho, b)
  BY DEF Shaped, Typed
<1>3. \A y \in Item :
        /\ h2[y].next = IF y = i THEN NULL
                        ELSE IF i # first /\ y = p THEN n ELSE h[y].next
        /\ h2[y].child = IF y = a /\ i = first THEN n ELSE h[y].child
        /\ h2[y].type = h[y].type /\ h2[y].ref = h[y].ref
  BY DEF Emptied
<1> HIDE DEF ho2, first, p, n
<1>4. SUFFICES ASSUME Owns(h2, b), h2[b].child # NULL
               PROVE  /\ \A K \in SUBSET Item :
                           /\ h2[b].child \in K
                           /\ \A j \in K : ho2[j] = b /\ h2[j].next # NULL => h2[j].next \in K
                           => {j \in Item : ho2[j] = b} \subseteq K
                      /\ \E j \in Item : ho2[j] = b /\ h2[j].next = NULL
  BY DEF Full, ho2
<1>5. Owns(h, b)
  BY <1>3, <1>4 DEF Owns
<1>6. CASE b # a
  <2>1. h[b].child = h2[b].child /\ \A j \in Item : ho2[j] = b <=> ho[j] = b
    BY <1>1, <1>2, <1>3, <1>6
  <2>2. \A j \in Item : ho[j] = b => h2[j].next = h[j].next
    BY <1>1, <1>3, <1>6
  <2>3. QED
    BY <1>2, <1>4, <1>5, <2>1, <2>2 DEF Full
<1>7. CASE b = a
  <2>1. ASSUME NEW K \in SUBSET Item, h2[a].child \in K,
               \A j \in K : ho2[j] = a /\ h2[j].next # NULL => h2[j].next \in K
        PROVE  {j \in Item : ho2[j] = a} \subseteq K
    <3> DEFINE J == IF i = first \/ p \in K THEN K \cup {i} ELSE K \ {i}
    <3>1. J \in SUBSET Item /\ first \in J
      BY <1>1, <1>3, <2>1 DEF first
    <3>2. \A j \in J : ho[j] = a /\ h[j].next # NULL => h[j].next \in J
      <4> TAKE j \in J
      <4> SUFFICES ASSUME ho[j] = a, h[j].next # NULL PROVE h[j].next \in J
        OBVIOUS
      <4>1. CASE j = i
        <5>1. j \in J /\ (i = first \/ p \in K) /\ n # NULL
          BY <4>1 DEF n
        <5>2. CASE i = first
          <6>1. n \in K
            BY <1>3, <2>1, <5>2
          <6>2. QED
            BY <4>1, <5>1, <6>1 DEF n
        <5>3. CASE i # first
          <6>1. p \in K /\ ho2[p] = a /\ h2[p].next = n
            BY <1>1, <1>2, <1>3, <5>1, <5>3
          <6>2. n \in K
            BY <2>1, <5>1, <6>1
          <6>3. QED
            BY <4>1, <5>1, <6>2 DEF n
        <5>4. QED
          BY <5>2, <5>3
      <4>2. CASE j # i /\ h[j].next = i
        <5>1. i # first /\ j = p /\ j \in K
          BY <1>1, <3>1, <4>2
        <5>2. QED
          BY <4>2, <5>1
      <4>3. CASE j # i /\ h[j].next # i
        <5>1. j \in K /\ ho2[j] = a /\ j \in Item
          BY <1>2, <3>1, <4>3
        <5>2. ~(i # first /\ j = p)
          BY <1>1, <4>3
        <5>3. h2[j].next = h[j].next
          BY <1>3, <4>3, <5>1, <5>2
        <5>4. QED
          BY <2>1, <4>3, <5>1, <5>3
      <4>4. QED
        BY <4>1, <4>2, <4>3
    <3>3. {j \in Item : ho[j] = a} \subseteq J
      <4>1. h[a].child # NULL /\ h[a].child \in J /\ Owns(h, a) /\ Full(h, ho, a)
        BY <1>1, <1>2, <1>5, <1>7, <3>1 DEF first
      <4> HIDE DEF J
      <4>2. QED
        BY <3>1, <3>2, <4>1 DEF Full
    <3>4. QED
      BY <1>1, <1>2, <3>3
  <2>2. \E j \in Item : ho2[j] = a /\ h2[j].next = NULL
    <3>1. PICK j \in Item : ho[j] = a /\ h[j].next = NULL
      BY <1>1, <1>2, <1>5, <1>7 DEF Full, first
    <3>2. CASE j # i
      <4>1. ~(i # first /\ j = p)
        BY <1>1, <3>1
      <4>2. QED
        BY <1>2, <1>3, <3>1, <3>2, <4>1
    <3>3. CASE j = i
      <4>1. n = NULL /\ i # first
        BY <1>3, <1>4, <1>7, <3>1, <3>3 DEF n
      <4>2. QED
        BY <1>1, <1>2, <1>3, <4>1
    <3>4. QED
      BY <3>2, <3>3
  <2>3. QED
    BY <1>7, <2>1, <2>2
<1>8. QED
  BY <1>6, <1>7

\* Taking an item out of its list leaves a memory of the same shape.
LEMMA EmptiedShaped ==
  ASSUME NEW h, NEW ho, Shaped(h, ho), NEW a \in Item, NEW i \in Item, MayEmpty(h, ho, a, i),
         NEW h2, Emptied(h, h2, a, i)
  PROVE  Shaped(h2, [ho EXCEPT ![i] = NULL])
<1> DEFINE ho2 == [ho EXCEPT ![i] = NULL]
           first == h[a].child
           p == h[i].prev
           n == h[i].next
<1>1. /\ a # NULL /\ i # NULL /\ first \in Item /\ ho[first] = a /\ ho[i] = a
      /\ i # first => p \in Item /\ ho[p] = a
      /\ n # NULL => n \in Item /\ ho[n] = a /\ n # i
      /\ \A x \in Item : h[x].child = i => x = a /\ i = first
      /\ Owns(h, a) /\ NULL \notin Item
  BY TakenFacts, ItemsAreFinite DEF MayEmpty
<1>2. /\ ho2[i] = NULL /\ (\A y \in Item : y # i => ho2[y] = ho[y])
      /\ ho2 \in [Item -> Pointer]
  BY DEF Shaped, Typed, Pointer
<1>3. \A x \in Item :
        /\ h2[x].type = h[x].type /\ h2[x].ref = h[x].ref /\ h2[x].string = h[x].string
        /\ h2[x].next = IF x = i THEN NULL
                        ELSE IF i # first /\ x = p THEN n ELSE h[x].next
        /\ h2[x].child = IF x = a /\ i = first THEN n ELSE h[x].child
        /\ h2[x].prev = IF x = i THEN NULL
                        ELSE IF x = n \/ (i # first /\ n = NULL /\ x = first) THEN p
                        ELSE h[x].prev
  BY DEF Emptied
<1> HIDE DEF ho2
<1>4. ASSUME NEW x \in Item PROVE IF ho2[x] # NULL THEN Held(h2, ho2, x) ELSE Single(h2, x)
  <2>1. CASE ho2[x] # NULL
    <3>1. x # i /\ ho[x] # NULL
      BY <1>2, <2>1
    <3>2. QED
      BY <2>1, <3>1, EmptiedHeld DEF ho2
  <2>2. CASE x = i
    BY <1>2, <1>3, <2>2 DEF Single
  <2>3. CASE ho2[x] = NULL /\ x # i
    <3>1. ho[x] = NULL
      BY <1>2, <2>3
    <3>2. Single(h, x) /\ x # first /\ x # n /\ ~(i # first /\ x = p)
      BY <1>1, <3>1, ShapeFacts
    <3>3. QED
      BY <1>3, <2>3, <3>2 DEF Single
  <2>4. QED
    BY <2>1, <2>2, <2>3
<1>5. ASSUME NEW x \in Item PROVE Begins(h2, ho2, x)
  <2>1. Begins(h, ho, x) /\ (h[x].child # NULL => h[x].child \in Item /\ ho[h[x].child] \in Item)
    BY ShapeFacts
  <2>2. CASE x = a
    <3>1. ~h2[x].ref /\ (h2[x].child # NULL => h2[x].child \in Item /\ h2[x].child # i
                                              /\ ho[h2[x].child] = a)
      BY <1>1, <1>3, <2>2 DEF Owns
    <3>2. QED
      BY <1>2, <2>2, <3>1 DEF Begins
  <2>3. CASE x # a
    <3>1. h2[x].child = h[x].child /\ h2[x].ref = h[x].ref /\ h2[x].type = h[x].type
      BY <1>3, <2>3
    <3>2. h[x].child # NULL => ho2[h[x].child] = ho[h[x].child]
      BY <1>1, <1>2, <2>1, <2>3
    <3>3. h[x].child # NULL => h2[ho[h[x].child]].type = h[ho[h[x].child]].type
      BY <1>3, <2>1
    <3>4. QED
      BY <2>1, <3>1, <3>2, <3>3 DEF Begins
  <2>4. QED
    BY <2>2, <2>3
<1>6. ASSUME NEW x \in Item, h2[x].type = "free" PROVE h2[x] = Blank /\ ho2[x] = NULL
  <2>1. h[x].type = "free" /\ h[x] = Blank /\ ho[x] = NULL /\ h[x] \in Cell /\ h2[x] \in Cell
    BY <1>6 DEF Emptied, Shaped, Typed
  <2>2. x # i /\ x # a /\ x # first /\ x # n /\ ~(i # first /\ x = p)
    BY <1>1, <2>1 DEF Owns, Container
  <2>3. h2[x] = h[x]
    <3>1. /\ h2[x].type = h[x].type /\ h2[x].ref = h[x].ref /\ h2[x].string = h[x].string
          /\ h2[x].next = h[x].next /\ h2[x].child = h[x].child /\ h2[x].prev = h[x].prev
      BY <1>3, <2>2
    <3>2. QED
      BY <2>1, <3>1, SameCell
  <2>4. QED
    BY <1>2, <2>1, <2>2, <2>3
<1>7. \A x \in Item : Full(h2, ho2, x)
  BY EmptiedFull DEF ho2
<1>8. QED
  BY <1>2, <1>4, <1>5, <1>6, <1>7 DEF Shaped, Typed, Emptied, ho2

LEMMA DetachEmpties ==
  ASSUME NEW h, NEW ho, Shaped(h, ho), NEW a \in Item, NEW i \in Item, MayEmpty(h, ho, a, i)
  PROVE  Emptied(h, DetachItemViaPointer(h, a, i), a, i)
<1> DEFINE h2 == DetachItemViaPointer(h, a, i)
           first == h[a].child
           prev == h[i].prev
           next == h[i].next
           before == IF i # first THEN [h EXCEPT ![prev].next = next] ELSE h
           after == IF next # NULL THEN [before EXCEPT ![next].prev = prev] ELSE before
           out == IF i = first THEN [after EXCEPT ![a].child = next]
                  ELSE IF next = NULL THEN [after EXCEPT ![first].prev = prev]
                  ELSE after
           half == [out EXCEPT ![i].prev = NULL]
<1>1. /\ h \in [Item -> Cell] /\ NULL \in Pointer /\ NULL \notin Item
      /\ first \in Item /\ prev \in Pointer /\ next \in Pointer
      /\ next # NULL => next \in Item /\ next # i
      /\ i # first => prev \in Item /\ prev # i
  BY TakenFacts, ItemsAreFinite DEF Pointer, Shaped, Typed
<1>2. h2 = [half EXCEPT ![i].next = NULL]
  BY DEF DetachItemViaPointer
<1> HIDE DEF first, prev, next, h2
<1>3. before \in [Item -> Cell] /\ \A x \in Item :
        /\ before[x].type = h[x].type /\ before[x].ref = h[x].ref /\ before[x].string = h[x].string
        /\ before[x].next = IF i # first /\ x = prev THEN next ELSE h[x].next
        /\ before[x].child = h[x].child /\ before[x].prev = h[x].prev
  <2>1. before \in [Item -> Cell]
    BY <1>1, WritesAreCells
  <2>2. QED
    BY <1>1, <2>1 DEF Cell
<1> HIDE DEF before
<1>4. after \in [Item -> Cell] /\ \A x \in Item :
        /\ after[x].type = h[x].type /\ after[x].ref = h[x].ref /\ after[x].string = h[x].string
        /\ after[x].next = before[x].next
        /\ after[x].child = h[x].child
        /\ after[x].prev = IF x = next THEN prev ELSE h[x].prev
  <2>1. after \in [Item -> Cell]
    BY <1>1, <1>3, WritesAreCells
  <2>2. QED
    BY <1>1, <1>3, <2>1 DEF Cell
<1> HIDE DEF after
<1>5. out \in [Item -> Cell] /\ \A x \in Item :
        /\ out[x].type = h[x].type /\ out[x].ref = h[x].ref /\ out[x].string = h[x].string
        /\ out[x].next = before[x].next
        /\ out[x].child = IF x = a /\ i = first THEN next ELSE h[x].child
        /\ out[x].prev = IF x = next \/ (i # first /\ next = NULL /\ x = first) THEN prev ELSE h[x].prev
  <2>1. out \in [Item -> Cell]
    BY <1>1, <1>4, WritesAreCells
  <2>2. QED
    BY <1>1, <1>4, <2>1 DEF Cell
<1> HIDE DEF out
<1>6. half \in [Item -> Cell] /\ \A x \in Item :
        /\ half[x].type = h[x].type /\ half[x].ref = h[x].ref /\ half[x].string = h[x].string
        /\ half[x].next = before[x].next
        /\ half[x].child = out[x].child
        /\ half[x].prev = IF x = i THEN NULL ELSE out[x].prev
  <2>1. half \in [Item -> Cell]
    BY <1>1, <1>5, WritesAreCells
  <2>2. QED
    BY <1>1, <1>5, <2>1 DEF Cell
<1> HIDE DEF half
<1>7. h2 \in [Item -> Cell] /\ \A x \in Item :
        /\ h2[x].type = h[x].type /\ h2[x].ref = h[x].ref /\ h2[x].string = h[x].string
        /\ h2[x].next = IF x = i THEN NULL ELSE before[x].next
        /\ h2[x].child = out[x].child
        /\ h2[x].prev = half[x].prev
  <2>1. h2 \in [Item -> Cell]
    BY <1>1, <1>2, <1>6, WritesAreCells
  <2>2. QED
    BY <1>1, <1>2, <1>6, <2>1 DEF Cell
<1>8. \A x \in Item :
       /\ h2[x].type = h[x].type /\ h2[x].ref = h[x].ref /\ h2[x].string = h[x].string
       /\ h2[x].next = IF x = i THEN NULL
                       ELSE IF i # first /\ x = prev THEN next ELSE h[x].next
       /\ h2[x].child = IF x = a /\ i = first THEN next ELSE h[x].child
       /\ h2[x].prev = IF x = i THEN NULL
                       ELSE IF x = next \/ (i # first /\ next = NULL /\ x = first)
                            THEN prev
                       ELSE h[x].prev
  BY <1>3, <1>5, <1>6, <1>7
<1>9. QED
  BY <1>7, <1>8 DEF Emptied, h2, first, prev, next

\* Replacing an item fills the gap that taking it out leaves.
LEMMA ReplaceFills ==
  ASSUME NEW h, NEW ho, Shaped(h, ho), NEW a \in Item, NEW i \in Item, MayEmpty(h, ho, a, i),
         NEW r \in Item, MayFill(h, ho, a, r), NEW h1, Emptied(h, h1, a, i)
  PROVE  \E p, n, q :
           /\ n = h[i].next
           /\ Gap(h1, [ho EXCEPT ![i] = NULL], a, p, n, q, r)
           /\ Filled(h1, ReplaceItemViaPointer(h, a, i, r), a, p, n, q, r)
<1> DEFINE ho1 == [ho EXCEPT ![i] = NULL]
           h2 == ReplaceItemViaPointer(h, a, i, r)
           first == h[a].child
           next == h[i].next
           was == h[i].prev
           prev == IF first = i /\ was = i THEN r ELSE was
           p == IF first = i THEN NULL ELSE was
           half == [h EXCEPT ![r].next = next]
           taken == [half EXCEPT ![r].prev = prev]
           after == IF next # NULL THEN [taken EXCEPT ![next].prev = r] ELSE taken
           before == IF prev # NULL THEN [after EXCEPT ![prev].next = r] ELSE after
           last == IF next = NULL THEN [before EXCEPT ![first].prev = r] ELSE before
           out == IF first = i THEN [after EXCEPT ![a].child = r] ELSE last
           loose == [out EXCEPT ![i].next = NULL]
<1>1. /\ h \in [Item -> Cell] /\ NULL \in Pointer /\ NULL \notin Item /\ r \in Pointer
      /\ r # i /\ r # a /\ ho[r] = NULL /\ a # NULL
      /\ first \in Item /\ was \in Pointer /\ next \in Pointer /\ prev \in Pointer
      /\ first # r /\ next # r /\ was # r
      /\ next # NULL => next \in Item /\ next # i /\ next # first /\ ho[next] = a
      /\ was # NULL => was \in Item /\ ho[was] = a
      /\ i # first => was \in Item /\ was # i /\ prev = was
      /\ i = first /\ was # NULL => h[was].next = NULL
      /\ i = first /\ next = NULL => \A x \in Item : ho[x] = a => x = i
  BY TakenFacts, ItemsAreFinite DEF Pointer, Shaped, Typed, MayFill
<1>2. /\ ho1[i] = NULL /\ \A y \in Item : y # i => ho1[y] = ho[y]
  BY DEF Shaped, Typed
<1>3. h2 = [loose EXCEPT ![i].prev = NULL]
  BY DEF ReplaceItemViaPointer, Replaced, Unlinked
<1>4. \A x \in Item :
       /\ h1[x].type = h[x].type /\ h1[x].ref = h[x].ref /\ h1[x].string = h[x].string
       /\ h1[x].next = IF x = i THEN NULL
                       ELSE IF i # first /\ x = was THEN next ELSE h[x].next
       /\ h1[x].child = IF x = a /\ i = first THEN next ELSE h[x].child
       /\ h1[x].prev = IF x = i THEN NULL
                       ELSE IF x = next \/ (i # first /\ next = NULL /\ x = first)
                            THEN was
                       ELSE h[x].prev
  BY DEF Emptied
<1> HIDE DEF first, next, was, h2, ho1
<1>5. half \in [Item -> Cell] /\ \A x \in Item :
        /\ half[x].type = h[x].type /\ half[x].ref = h[x].ref /\ half[x].string = h[x].string
        /\ half[x].next = IF x = r THEN next ELSE h[x].next
        /\ half[x].child = h[x].child /\ half[x].prev = h[x].prev
  <2>1. half \in [Item -> Cell]
    BY <1>1, WritesAreCells
  <2>2. QED
    BY <1>1, <2>1 DEF Cell
<1> HIDE DEF half
<1>6. taken \in [Item -> Cell] /\ \A x \in Item :
        /\ taken[x].type = h[x].type /\ taken[x].ref = h[x].ref /\ taken[x].string = h[x].string
        /\ taken[x].next = half[x].next /\ taken[x].child = h[x].child
        /\ taken[x].prev = IF x = r THEN prev ELSE h[x].prev
  <2>1. taken \in [Item -> Cell]
    BY <1>1, <1>5, WritesAreCells
  <2>2. QED
    BY <1>1, <1>5, <2>1 DEF Cell
<1> HIDE DEF taken, prev
<1>7. after \in [Item -> Cell] /\ \A x \in Item :
        /\ after[x].type = h[x].type /\ after[x].ref = h[x].ref /\ after[x].string = h[x].string
        /\ after[x].next = half[x].next /\ after[x].child = h[x].child
        /\ after[x].prev = IF x = next THEN r ELSE taken[x].prev
  <2>1. after \in [Item -> Cell]
    BY <1>1, <1>6, WritesAreCells
  <2>2. QED
    BY <1>1, <1>6, <2>1 DEF Cell
<1> HIDE DEF after
<1>8. CASE first = i
  <2>1. out \in [Item -> Cell] /\ \A x \in Item :
          /\ out[x].type = h[x].type /\ out[x].ref = h[x].ref /\ out[x].string = h[x].string
          /\ out[x].next = half[x].next /\ out[x].child = IF x = a THEN r ELSE h[x].child
          /\ out[x].prev = after[x].prev
    <3>1. out \in [Item -> Cell]
      BY <1>1, <1>7, <1>8, WritesAreCells
    <3>2. QED
      BY <1>1, <1>7, <1>8, <3>1 DEF Cell
  <2> HIDE DEF out
  <2>2. loose \in [Item -> Cell] /\ \A x \in Item :
          /\ loose[x].type = h[x].type /\ loose[x].ref = h[x].ref /\ loose[x].string = h[x].string
          /\ loose[x].next = IF x = i THEN NULL ELSE out[x].next
          /\ loose[x].child = out[x].child /\ loose[x].prev = out[x].prev
    <3>1. loose \in [Item -> Cell]
      BY <1>1, <2>1, WritesAreCells
    <3>2. QED
      BY <1>1, <2>1, <3>1 DEF Cell
  <2> HIDE DEF loose
  <2>3. h2 \in [Item -> Cell] /\ \A x \in Item :
          /\ h2[x].type = h[x].type /\ h2[x].ref = h[x].ref /\ h2[x].string = h[x].string
          /\ h2[x].next = loose[x].next /\ h2[x].child = out[x].child
          /\ h2[x].prev = IF x = i THEN NULL ELSE out[x].prev
    <3>1. h2 \in [Item -> Cell]
      BY <1>1, <1>3, <2>2, WritesAreCells
    <3>2. QED
      BY <1>1, <1>3, <2>2, <3>1 DEF Cell
  <2>4. Filled(h1, h2, a, NULL, next, prev, r)
    <3>1. \A x \in Item :
            /\ h2[x].type = h1[x].type /\ h2[x].ref = h1[x].ref /\ h2[x].string = h1[x].string
            /\ h2[x].next = IF x = r THEN next ELSE h1[x].next
            /\ h2[x].child = IF x = a THEN r ELSE h1[x].child
      BY <1>1, <1>4, <1>5, <1>8, <2>1, <2>2, <2>3
    <3>2. h1[a].child = next
      BY <1>4, <1>8
    <3>3. ASSUME NEW x \in Item
          PROVE  h2[x].prev = IF x = r THEN prev ELSE IF x = next THEN r ELSE h1[x].prev
      BY <1>1, <1>4, <1>6, <1>7, <1>8, <2>1, <2>3
    <3>4. \A x \in Item : x # NULL
      BY <1>1
    <3>5. QED
      BY <2>3, <3>1, <3>2, <3>3, <3>4 DEF Filled
  <2>5. Gap(h1, ho1, a, NULL, next, prev, r)
    <3>1. h1[a].child = next
      BY <1>4, <1>8
    <3>2. CASE next = NULL
      <4>1. was \in {i, NULL}
        BY <1>1, <1>8, <3>2
      <4>2. prev \in {r, NULL}
        BY <1>8, <4>1 DEF prev
      <4>3. QED
        BY <3>1, <3>2, <4>2 DEF Gap
    <3>3. CASE next # NULL
      <4>1. was # i
        BY <1>1, <1>8, <3>3 DEF next
      <4>2. prev = was /\ h1[next].prev = was
        BY <1>1, <1>4, <3>3, <4>1 DEF prev
      <4>3. QED
        BY <3>1, <3>3, <4>2 DEF Gap
    <3>4. QED
      BY <3>2, <3>3
  <2>6. QED
    BY <2>4, <2>5 DEF h2, ho1, next
<1>9. CASE first # i
  <2>1. prev = was /\ was \in Item /\ was # i
    BY <1>1, <1>9 DEF prev
  <2>2. before \in [Item -> Cell] /\ \A x \in Item :
          /\ before[x].type = h[x].type /\ before[x].ref = h[x].ref /\ before[x].string = h[x].string
          /\ before[x].next = IF x = was THEN r ELSE half[x].next
          /\ before[x].child = h[x].child /\ before[x].prev = after[x].prev
    <3>1. before \in [Item -> Cell]
      BY <1>1, <1>7, <2>1, WritesAreCells
    <3>2. QED
      BY <1>1, <1>7, <2>1, <3>1 DEF Cell
  <2> HIDE DEF before
  <2>3. last \in [Item -> Cell] /\ \A x \in Item :
          /\ last[x].type = h[x].type /\ last[x].ref = h[x].ref /\ last[x].string = h[x].string
          /\ last[x].next = before[x].next /\ last[x].child = h[x].child
          /\ last[x].prev = IF next = NULL /\ x = first THEN r ELSE after[x].prev
    <3>1. last \in [Item -> Cell]
      BY <1>1, <2>2, WritesAreCells
    <3>2. QED
      BY <1>1, <2>2, <3>1 DEF Cell
  <2> HIDE DEF last
  <2>4. out = last
    BY <1>9
  <2> HIDE DEF out
  <2>5. loose \in [Item -> Cell] /\ \A x \in Item :
          /\ loose[x].type = h[x].type /\ loose[x].ref = h[x].ref /\ loose[x].string = h[x].string
          /\ loose[x].next = IF x = i THEN NULL ELSE before[x].next
          /\ loose[x].child = h[x].child /\ loose[x].prev = last[x].prev
    <3>1. loose \in [Item -> Cell]
      BY <1>1, <2>3, <2>4, WritesAreCells
    <3>2. QED
      BY <1>1, <2>3, <2>4, <3>1 DEF Cell
  <2> HIDE DEF loose
  <2>6. h2 \in [Item -> Cell] /\ \A x \in Item :
          /\ h2[x].type = h[x].type /\ h2[x].ref = h[x].ref /\ h2[x].string = h[x].string
          /\ h2[x].next = loose[x].next /\ h2[x].child = h[x].child
          /\ h2[x].prev = IF x = i THEN NULL ELSE last[x].prev
    <3>1. h2 \in [Item -> Cell]
      BY <1>1, <1>3, <2>5, WritesAreCells
    <3>2. QED
      BY <1>1, <1>3, <2>5, <3>1 DEF Cell
  <2>7. Filled(h1, h2, a, was, next, was, r)
    <3>1. \A x \in Item :
            /\ h2[x].type = h1[x].type /\ h2[x].ref = h1[x].ref /\ h2[x].string = h1[x].string
            /\ h2[x].next = IF x = r THEN next ELSE IF x = was THEN r ELSE h1[x].next
            /\ h2[x].child = h1[x].child
      BY <1>1, <1>4, <1>5, <1>9, <2>1, <2>2, <2>5, <2>6
    <3>2. h1[a].child = first
      BY <1>4, <1>9 DEF first
    <3>3. ASSUME NEW x \in Item
          PROVE  h2[x].prev = IF x = r THEN was
                              ELSE IF x = next \/ (next = NULL /\ x = first) THEN r ELSE h1[x].prev
      BY <1>1, <1>4, <1>6, <1>7, <1>9, <2>1, <2>3, <2>6
    <3>4. was # NULL
      BY <1>1, <2>1
    <3>5. QED
      BY <2>6, <3>1, <3>2, <3>3, <3>4 DEF Filled
  <2>8. Gap(h1, ho1, a, was, next, was, r)
    <3>1. h1[a].child = first /\ first # NULL
      BY <1>1, <1>4, <1>9 DEF first
    <3>2. was \in Item /\ ho1[was] = a /\ h1[was].next = next
      BY <1>1, <1>2, <1>4, <1>9, <2>1
    <3>3. next # NULL => next \in Item /\ ho1[next] = a /\ next # first /\ h1[next].prev = was
      BY <1>1, <1>2, <1>4
    <3>4. QED
      BY <3>1, <3>2, <3>3 DEF Gap
  <2>9. QED
    BY <2>7, <2>8 DEF h2, ho1, next
<1>10. QED
  BY <1>8, <1>9

-------------------------------------------------------------------------------
(* Giving memory back, and making items.                                   *)

LEMMA AcyclicLess ==
  ASSUME NEW ho, Acyclic(ho), NEW ho2, \A x \in Item : ho2[x] \in {ho[x], NULL}
  PROVE  Acyclic(ho2)
<1> SUFFICES ASSUME NEW K \in SUBSET Item, \A j \in K : ho2[j] \in K PROVE K = {}
  BY DEF Acyclic
<1>1. \A j \in K : ho[j] \in K
  BY ItemsAreFinite
<1>2. QED
  BY <1>1 DEF Acyclic

LEMMA AcyclicMore ==
  ASSUME NEW ho \in [Item -> Pointer], Acyclic(ho), NEW i \in Item, ho[i] = NULL,
         NEW X, Branch(ho, i, X), NEW a \in Item, a \notin X
  PROVE  Acyclic([ho EXCEPT ![i] = a])
<1> DEFINE ho2 == [ho EXCEPT ![i] = a]
<1>1. ho2[i] = a /\ \A x \in Item : x # i => ho2[x] = ho[x]
  OBVIOUS
<1> HIDE DEF ho2
<1> SUFFICES ASSUME NEW K \in SUBSET Item, \A j \in K : ho2[j] \in K PROVE K = {}
  BY DEF Acyclic, ho2
<1>2. \A j \in K \ X : ho[j] \in K \ X
  BY <1>1 DEF Branch
<1>3. K \ X = {}
  <2>1. K \ X \in SUBSET Item
    OBVIOUS
  <2>2. QED
    BY <1>2, <2>1 DEF Acyclic
<1>4. i \notin K
  BY <1>1, <1>3
<1>5. \A j \in K : ho[j] \in K
  BY <1>1, <1>4
<1>6. QED
  BY <1>5 DEF Acyclic

\* A branch that is given back leaves a memory of the same shape, where no reference
\* that stays shows any of it.
LEMMA DeleteShaped ==
  ASSUME NEW h, NEW ho, Shaped(h, ho), NEW i \in Item, ho[i] = NULL,
         \A r \in Item \ Deleted(h, i) : h[r].ref => h[r].child \notin Deleted(h, i)
  PROVE  Shaped(Delete(h, i), [j \in Item |-> IF j \in Deleted(h, i) THEN NULL ELSE ho[j]])
<1> DEFINE D == Deleted(h, i)
           h2 == Delete(h, i)
           ho2 == [j \in Item |-> IF j \in D THEN NULL ELSE ho[j]]
<1>1. /\ D \in SUBSET Item /\ NULL \notin Item
      /\ \A j \in Item : ho[j] # NULL => (ho[j] \in D <=> j \in D)
  BY DeletedFacts, ItemsAreFinite DEF Branch
<1>2. /\ h2 = [j \in Item |-> IF j \in D THEN Blank ELSE h[j]]
      /\ h \in [Item -> Cell] /\ ho \in [Item -> Pointer]
  BY DEF Delete, Shaped, Typed
<1>3. \A r \in Item : r \notin D /\ h[r].ref => h[r].child \notin D
  OBVIOUS
<1> HIDE DEF D, h2
<1>4. Blank \in Cell
  BY DEF Blank, Cell, Type, Pointer
<1>5. h2 \in [Item -> Cell] /\ ho2 \in [Item -> Pointer]
  BY <1>2, <1>4 DEF Pointer
<1>6. \A j \in Item : h2[j] = (IF j \in D THEN Blank ELSE h[j]) /\ ho2[j] = IF j \in D THEN NULL ELSE ho[j]
  BY <1>2
<1> HIDE DEF ho2
<1>7. ASSUME NEW x \in Item PROVE IF ho2[x] # NULL THEN Held(h2, ho2, x) ELSE Single(h2, x)
  <2>1. CASE x \in D
    BY <1>6, <2>1 DEF Single, Blank
  <2>2. CASE x \notin D /\ ho[x] = NULL
    BY <1>6, <2>2, ShapeFacts DEF Single
  <2>3. CASE x \notin D /\ ho[x] # NULL
    <3>1. ho[x] \in Item /\ ho[x] \notin D /\ Held(h, ho, x)
      BY <1>1, <2>3, ShapeFacts
    <3>2. h[x].prev # NULL => h[x].prev \in Item /\ h[x].prev \notin D /\ ho[h[x].prev] = ho[x]
      BY <1>1, <2>3, <3>1, ShapeFacts
    <3>3. h[x].next # NULL => h[x].next \in Item /\ h[x].next \notin D /\ ho[h[x].next] = ho[x]
      BY <1>1, <2>3, <3>1, ShapeFacts DEF Held
    <3>4. /\ h2[x] = h[x] /\ ho2[x] = ho[x] /\ h2[ho[x]] = h[ho[x]]
          /\ h[x].prev # NULL => h2[h[x].prev] = h[h[x].prev] /\ ho2[h[x].prev] = ho[x]
          /\ h[x].next # NULL => h2[h[x].next] = h[h[x].next] /\ ho2[h[x].next] = ho[x]
      BY <1>6, <2>3, <3>1, <3>2, <3>3
    <3>5. Held(h2, ho2, x)
      BY <3>1, <3>2, <3>3, <3>4 DEF Held, Owns
    <3>6. QED
      BY <2>3, <3>4, <3>5
  <2>4. QED
    BY <2>1, <2>2, <2>3
<1>8. ASSUME NEW x \in Item PROVE Begins(h2, ho2, x)
  <2>1. CASE x \in D
    BY <1>6, <2>1 DEF Begins, Blank
  <2>2. CASE x \notin D
    <3>1. /\ Begins(h, ho, x)
          /\ h[x].child # NULL => h[x].child \in Item /\ ho[h[x].child] # NULL /\ ho[h[x].child] \in Item
      BY ShapeFacts
    <3>2. h[x].child # NULL => h[x].child \notin D /\ ho[h[x].child] \notin D
      BY <1>1, <1>3, <2>2, <3>1 DEF Begins
    <3>3. /\ h2[x] = h[x]
          /\ h[x].child # NULL => ho2[h[x].child] = ho[h[x].child] /\ h2[ho[h[x].child]] = h[ho[h[x].child]]
      BY <1>6, <2>2, <3>1, <3>2
    <3>4. QED
      BY <3>1, <3>3 DEF Begins
  <2>3. QED
    BY <2>1, <2>2
<1>9. ASSUME NEW x \in Item PROVE Full(h2, ho2, x)
  <2>1. CASE x \in D
    BY <1>6, <2>1 DEF Full, Blank, Owns, Container
  <2>2. CASE x \notin D
    <3>1. \A j \in Item : ho[j] = x => j \notin D
      BY <1>1, <2>2
    <3>2. \A j \in Item : ho2[j] = x <=> ho[j] = x
      BY <1>1, <1>6, <3>1
    <3>3. \A j \in Item : ho[j] = x => h2[j] = h[j]
      BY <1>6, <3>1
    <3>4. h2[x] = h[x]
      BY <1>6, <2>2
    <3>5. Full(h, ho, x)
      BY DEF Shaped
    <3>6. SUFFICES ASSUME Owns(h, x), h[x].child # NULL
                   PROVE  /\ \A K \in SUBSET Item :
                               /\ h[x].child \in K
                               /\ \A j \in K : ho2[j] = x /\ h2[j].next # NULL => h2[j].next \in K
                               => {j \in Item : ho2[j] = x} \subseteq K
                          /\ \E j \in Item : ho2[j] = x /\ h2[j].next = NULL
      BY <3>4 DEF Full, Owns
    <3>7. QED
      BY <3>2, <3>3, <3>5, <3>6 DEF Full
  <2>3. QED
    BY <2>1, <2>2
<1>10. \A x \in Item : h2[x].type = "free" => h2[x] = Blank /\ ho2[x] = NULL
  BY <1>6 DEF Shaped, Typed
<1>11. QED
  BY <1>5, <1>7, <1>8, <1>9, <1>10 DEF Shaped, Typed, h2, ho2, D

\* A free cell becomes an item in no container, with nothing in it, or a reference.
LEMMA MakeShaped ==
  ASSUME NEW h, NEW ho, Shaped(h, ho), NEW i \in Item, h[i].type = "free",
         NEW c \in Cell, c.type # "free", c.next = NULL, c.prev = NULL,
         c.child # NULL => /\ c.ref /\ ho[c.child] \in Item /\ h[ho[c.child]].type = c.type
  PROVE  Shaped([h EXCEPT ![i] = c], ho)
<1> DEFINE h2 == [h EXCEPT ![i] = c]
<1>1. /\ h \in [Item -> Cell] /\ ho \in [Item -> Pointer] /\ NULL \notin Item
      /\ h[i] = Blank /\ ho[i] = NULL
  BY ItemsAreFinite DEF Shaped, Typed
<1>2. h2 \in [Item -> Cell] /\ h2[i] = c /\ \A x \in Item : x # i => h2[x] = h[x]
  BY <1>1
<1> HIDE DEF h2
<1>3. \A x \in Item : ho[x] # i
  BY <1>1, ShapeFacts DEF Held, Owns, Container, Blank
<1>4. \A x \in Item : h[x].child # i /\ h[x].next # i /\ h[x].prev # i
  <2>1. i # NULL
    BY <1>1
  <2>2. QED
    BY <1>1, <2>1, ShapeFacts DEF Held
<1>5. ASSUME NEW x \in Item PROVE IF ho[x] # NULL THEN Held(h2, ho, x) ELSE Single(h2, x)
  <2>1. CASE x = i
    BY <1>1, <1>2, <2>1 DEF Single
  <2>2. CASE x # i /\ ho[x] = NULL
    BY <1>2, <2>2, ShapeFacts DEF Single
  <2>3. CASE x # i /\ ho[x] # NULL
    <3>1. /\ ho[x] \in Item /\ ho[x] # i /\ Held(h, ho, x)
          /\ h[x].prev # NULL => h[x].prev \in Item /\ h[x].prev # i
          /\ h[x].next # NULL => h[x].next \in Item /\ h[x].next # i
      BY <1>3, <1>4, <2>3, ShapeFacts
    <3>2. /\ h2[x] = h[x] /\ h2[ho[x]] = h[ho[x]]
          /\ h[x].prev # NULL => h2[h[x].prev] = h[h[x].prev]
          /\ h[x].next # NULL => h2[h[x].next] = h[h[x].next]
      BY <1>2, <2>3, <3>1
    <3>3. Held(h2, ho, x)
      BY <3>1, <3>2 DEF Held, Owns
    <3>4. QED
      BY <2>3, <3>3
  <2>4. QED
    BY <2>1, <2>2, <2>3
<1>6. ASSUME NEW x \in Item PROVE Begins(h2, ho, x)
  <2>1. CASE x = i
    <3>1. c.child # NULL => ho[c.child] # i
      BY <1>1 DEF Blank
    <3>2. c.child # NULL => h2[ho[c.child]] = h[ho[c.child]] /\ ho[c.child] # NULL
      <4>1. SUFFICES ASSUME c.child # NULL PROVE h2[ho[c.child]] = h[ho[c.child]] /\ ho[c.child] # NULL
        OBVIOUS
      <4>2. ho[c.child] # i /\ ho[c.child] \in Item
        BY <1>1, <1>3, <4>1 DEF Cell, Pointer
      <4>3. QED
        BY <1>1, <1>2, <4>2
    <3>3. QED
      BY <1>2, <2>1, <3>2 DEF Begins
  <2>2. CASE x # i
    <3>1. /\ Begins(h, ho, x) /\ h2[x] = h[x]
          /\ h[x].child # NULL => h[x].child \in Item /\ ho[h[x].child] \in Item /\ ho[h[x].child] # i
      BY <1>2, <1>3, <2>2, ShapeFacts
    <3>2. QED
      BY <1>2, <3>1 DEF Begins
  <2>3. QED
    BY <2>1, <2>2
<1>7. ASSUME NEW x \in Item PROVE Full(h2, ho, x)
  <2>1. CASE x = i
    BY <1>2, <2>1 DEF Full, Owns
  <2>2. CASE x # i
    <3>1. Full(h, ho, x) /\ h2[x] = h[x]
      BY <1>2, <2>2 DEF Shaped
    <3>2. \A j \in Item : ho[j] = x => h2[j] = h[j]
      BY <1>1, <1>2
    <3>3. SUFFICES ASSUME Owns(h, x), h[x].child # NULL
                   PROVE  /\ \A K \in SUBSET Item :
                               /\ h[x].child \in K
                               /\ \A j \in K : ho[j] = x /\ h2[j].next # NULL => h2[j].next \in K
                               => {j \in Item : ho[j] = x} \subseteq K
                          /\ \E j \in Item : ho[j] = x /\ h2[j].next = NULL
      BY <3>1 DEF Full, Owns
    <3>4. QED
      BY <3>1, <3>2, <3>3 DEF Full
  <2>3. QED
    BY <2>1, <2>2
<1>8. \A x \in Item : h2[x].type = "free" => h2[x] = Blank /\ ho[x] = NULL
  BY <1>1, <1>2 DEF Shaped, Typed
<1>9. QED
  BY <1>1, <1>2, <1>5, <1>6, <1>7, <1>8 DEF Shaped, Typed, h2

\* An item in no container may take another key.
LEMMA RenameShaped ==
  ASSUME NEW h, NEW ho, Shaped(h, ho), NEW i \in Item, h[i].type # "free", ho[i] = NULL,
         NEW s \in Key \cup {NULL}
  PROVE  Shaped([h EXCEPT ![i].string = s], ho)
<1> DEFINE h2 == [h EXCEPT ![i].string = s]
<1>1. h \in [Item -> Cell] /\ ho \in [Item -> Pointer] /\ NULL \notin Item
  BY ItemsAreFinite DEF Shaped, Typed
<1>2. h2 \in [Item -> Cell]
  <2>1. [h[i] EXCEPT !.string = s] \in Cell
    BY <1>1 DEF Cell
  <2>2. QED
    BY <1>1, <2>1
<1>3. \A x \in Item :
        /\ h2[x].type = h[x].type /\ h2[x].ref = h[x].ref /\ h2[x].next = h[x].next
        /\ h2[x].prev = h[x].prev /\ h2[x].child = h[x].child
        /\ x # i => h2[x] = h[x]
  BY <1>1, <1>2 DEF Cell
<1> HIDE DEF h2
<1>4. ASSUME NEW x \in Item PROVE IF ho[x] # NULL THEN Held(h2, ho, x) ELSE Single(h2, x)
  <2>1. CASE ho[x] # NULL
    <3>1. /\ ho[x] \in Item /\ Held(h, ho, x) /\ x # i
          /\ h[x].prev # NULL => h[x].prev \in Item
          /\ h[x].next # NULL => h[x].next \in Item
      BY <2>1, ShapeFacts
    <3>2. Held(h2, ho, x)
      BY <1>3, <3>1 DEF Held, Owns
    <3>3. QED
      BY <2>1, <3>2
  <2>2. CASE ho[x] = NULL
    BY <1>3, <2>2, ShapeFacts DEF Single
  <2>3. QED
    BY <2>1, <2>2
<1>5. ASSUME NEW x \in Item PROVE Begins(h2, ho, x)
  <2>1. Begins(h, ho, x) /\ (h[x].child # NULL => ho[h[x].child] \in Item)
    BY ShapeFacts
  <2>2. QED
    BY <1>3, <2>1 DEF Begins
<1>6. ASSUME NEW x \in Item PROVE Full(h2, ho, x)
  <2>1. Full(h, ho, x)
    BY DEF Shaped
  <2>2. SUFFICES ASSUME Owns(h, x), h[x].child # NULL
                 PROVE  /\ \A K \in SUBSET Item :
                             /\ h[x].child \in K
                             /\ \A j \in K : ho[j] = x /\ h2[j].next # NULL => h2[j].next \in K
                             => {j \in Item : ho[j] = x} \subseteq K
                        /\ \E j \in Item : ho[j] = x /\ h2[j].next = NULL
    BY <1>3 DEF Full, Owns
  <2>3. QED
    BY <1>3, <2>1, <2>2 DEF Full
<1>7. \A x \in Item : h2[x].type = "free" => h2[x] = Blank /\ ho[x] = NULL
  BY <1>3 DEF Shaped, Typed
<1>8. QED
  BY <1>1, <1>2, <1>4, <1>5, <1>6, <1>7 DEF Shaped, Typed, h2

-------------------------------------------------------------------------------
(* Many new items at once.                                                 *)

\* Cell x is one of the new items F, linked to none but them.
NewPart(h2, ho2, F, x) ==
  /\ h2[x].type # "free" /\ ho2[x] \in F \cup {NULL}
  /\ IF ho2[x] # NULL THEN Held(h2, ho2, x) ELSE Single(h2, x)
  /\ Begins(h2, ho2, x) /\ Full(h2, ho2, x)

\* Free cells F become a part of the memory to which nothing else leads.
Extends(h, ho, F, h2, ho2) ==
  /\ h2 \in [Item -> Cell] /\ ho2 \in [Item -> Pointer] /\ F \in SUBSET Item
  /\ \A x \in F : h[x].type = "free" /\ NewPart(h2, ho2, F, x)
  /\ \A x \in Item \ F : h2[x] = h[x] /\ ho2[x] = ho[x]

LEMMA ExtendsShaped ==
  ASSUME NEW h, NEW ho, Shaped(h, ho), NEW F, NEW h2, NEW ho2, Extends(h, ho, F, h2, ho2)
  PROVE  Shaped(h2, ho2)
<1>0. /\ h2 \in [Item -> Cell] /\ ho2 \in [Item -> Pointer] /\ F \in SUBSET Item
      /\ \A x \in F : h[x].type = "free" /\ NewPart(h2, ho2, F, x)
      /\ \A x \in F : ho2[x] \in F \cup {NULL} /\ h2[x].type # "free"
      /\ \A x \in Item \ F : h2[x] = h[x] /\ ho2[x] = ho[x]
  BY DEF Extends, NewPart
<1>1. /\ h \in [Item -> Cell] /\ ho \in [Item -> Pointer] /\ NULL \notin Item
      /\ \A x \in F : h[x] = Blank /\ ho[x] = NULL
  BY <1>0, ItemsAreFinite DEF Shaped, Typed
<1>2. \A x \in Item : /\ ho[x] \notin F /\ h[x].child \notin F
                      /\ h[x].next \notin F /\ h[x].prev \notin F
  <2>1. \A x \in Item : ho[x] \notin F
    BY <1>0, <1>1, ShapeFacts DEF Held, Owns, Container
  <2>2. QED
    BY <1>0, <1>1, <2>1, ShapeFacts DEF Held
<1>3. ASSUME NEW x \in Item PROVE IF ho2[x] # NULL THEN Held(h2, ho2, x) ELSE Single(h2, x)
  <2>1. CASE x \in F
    BY <1>0, <2>1 DEF NewPart
  <2>2. CASE x \notin F /\ ho[x] = NULL
    BY <1>0, <2>2, ShapeFacts DEF Single
  <2>3. CASE x \notin F /\ ho[x] # NULL
    <3>1. /\ ho[x] \in Item /\ Held(h, ho, x)
          /\ h[x].prev # NULL => h[x].prev \in Item
          /\ h[x].next # NULL => h[x].next \in Item
      BY <2>3, ShapeFacts
    <3>2. /\ h2[x] = h[x] /\ h2[ho[x]] = h[ho[x]] /\ ho2[x] = ho[x]
          /\ h[x].prev # NULL => h2[h[x].prev] = h[h[x].prev] /\ ho2[h[x].prev] = ho[h[x].prev]
          /\ h[x].next # NULL => h2[h[x].next] = h[h[x].next] /\ ho2[h[x].next] = ho[h[x].next]
      BY <1>0, <1>2, <2>3, <3>1
    <3>3. Held(h2, ho2, x)
      BY <3>1, <3>2 DEF Held, Owns
    <3>4. QED
      BY <2>3, <3>2, <3>3
  <2>4. QED
    BY <2>1, <2>2, <2>3
<1>4. ASSUME NEW x \in Item PROVE Begins(h2, ho2, x)
  <2>1. CASE x \in F
    BY <1>0, <2>1 DEF NewPart
  <2>2. CASE x \notin F
    <3>1. /\ Begins(h, ho, x) /\ h2[x] = h[x]
          /\ h[x].child # NULL => /\ h[x].child \in Item \ F /\ ho[h[x].child] \in Item \ F
      BY <1>0, <1>2, <2>2, ShapeFacts
    <3>2. h[x].child # NULL => ho2[h[x].child] = ho[h[x].child] /\ h2[ho[h[x].child]] = h[ho[h[x].child]]
      BY <1>0, <3>1
    <3>3. QED
      BY <3>1, <3>2 DEF Begins
  <2>3. QED
    BY <2>1, <2>2
<1>5. ASSUME NEW x \in Item PROVE Full(h2, ho2, x)
  <2>1. CASE x \in F
    BY <1>0, <2>1 DEF NewPart
  <2>2. CASE x \notin F
    <3>1. Full(h, ho, x) /\ h2[x] = h[x]
      BY <1>0, <2>2 DEF Shaped
    <3>2. \A j \in Item : /\ ho2[j] = x <=> ho[j] = x
                          /\ ho[j] = x => h2[j] = h[j]
      BY <1>0, <1>1, <2>2
    <3>3. SUFFICES ASSUME Owns(h, x), h[x].child # NULL
                   PROVE  /\ \A K \in SUBSET Item :
                               /\ h[x].child \in K
                               /\ \A j \in K : ho2[j] = x /\ h2[j].next # NULL => h2[j].next \in K
                               => {j \in Item : ho2[j] = x} \subseteq K
                          /\ \E j \in Item : ho2[j] = x /\ h2[j].next = NULL
      BY <3>1 DEF Full, Owns
    <3>4. QED
      BY <3>1, <3>2, <3>3 DEF Full
  <2>3. QED
    BY <2>1, <2>2
<1>6. \A x \in Item : h2[x].type = "free" => h2[x] = Blank /\ ho2[x] = NULL
  BY <1>0 DEF Shaped, Typed
<1>7. QED
  BY <1>0, <1>3, <1>4, <1>5, <1>6 DEF Shaped, Typed

\* No container is one of cells that were free, so what closes a circle is new.
LEMMA ExtendsAcyclic ==
  ASSUME NEW h, NEW ho, Shaped(h, ho), Acyclic(ho), NEW F, NEW h2, NEW ho2,
         Extends(h, ho, F, h2, ho2),
         \A K \in SUBSET F : (\A j \in K : ho2[j] \in K) => K = {}
  PROVE  Acyclic(ho2)
<1>0. /\ F \in SUBSET Item /\ \A x \in F : h[x].type = "free" /\ ho2[x] \in F \cup {NULL}
      /\ \A x \in Item \ F : ho2[x] = ho[x]
  BY DEF Extends, NewPart
<1>1. \A x \in Item : ho[x] \notin F /\ NULL \notin Item
  BY <1>0, ItemsAreFinite, ShapeFacts DEF Held, Owns, Container, Shaped, Typed
<1> SUFFICES ASSUME NEW K \in SUBSET Item, \A j \in K : ho2[j] \in K PROVE K = {}
  BY DEF Acyclic
<1>2. K \ F = {}
  <2>1. K \ F \in SUBSET Item /\ \A j \in K \ F : ho[j] \in K \ F
    BY <1>0, <1>1
  <2>2. QED
    BY <2>1 DEF Acyclic
<1>3. QED
  BY <1>2

\* The memory h2 has a new container, and in it the list of the new items w.
Listed(h, h2, a, w, n) ==
  /\ h2 \in [Item -> Cell]
  /\ h2[a].type \in Container /\ ~h2[a].ref /\ h2[a].child = w[1] /\ Single(h2, a)
  /\ \A m \in 1 .. n :
       /\ h2[w[m]].type # "free" /\ (h2[a].type = "object" => h2[w[m]].string # NULL)
       /\ h2[w[m]].child = NULL
       /\ h2[w[m]].next = IF m = n THEN NULL ELSE w[m + 1]
       /\ IF m = 1 THEN h2[w[m]].prev \in {w[n], NULL} ELSE h2[w[m]].prev = w[m - 1]
  /\ \A x \in Item : x # a /\ (\A m \in 1 .. n : x # w[m]) => h2[x] = h[x]

\* Free cells become a list, as Listed says, and the caller knows where they are.
NewList(h, ho, h2, ho2, a, w, n) ==
  /\ a \in Item /\ h[a].type = "free" /\ n \in Nat \ {0} /\ w \in [1 .. n -> Item]
  /\ \A m \in 1 .. n : h[w[m]].type = "free" /\ w[m] # a
  /\ \A m, k \in 1 .. n : w[m] = w[k] => m = k
  /\ Listed(h, h2, a, w, n)
  /\ ho2 \in [Item -> Pointer]
  /\ \A x \in Item : ho2[x] = IF \E m \in 1 .. n : x = w[m] THEN a ELSE ho[x]

LEMMA ListedShaped ==
  ASSUME NEW h, NEW ho, NEW h2, NEW ho2, NEW a, NEW w, NEW n,
         Shaped(h, ho), NewList(h, ho, h2, ho2, a, w, n)
  PROVE  Shaped(h2, ho2) /\ (Acyclic(ho) => Acyclic(ho2))
<1>0. /\ a \in Item /\ h[a].type = "free" /\ n \in Nat \ {0} /\ w \in [1 .. n -> Item]
      /\ \A m \in 1 .. n : h[w[m]].type = "free" /\ w[m] # a
      /\ \A m, k \in 1 .. n : w[m] = w[k] => m = k
      /\ Listed(h, h2, a, w, n)
      /\ ho2 \in [Item -> Pointer]
      /\ \A x \in Item : ho2[x] = IF \E m \in 1 .. n : x = w[m] THEN a ELSE ho[x]
  BY DEF NewList
<1> USE <1>0
<1> DEFINE F == {a} \cup {w[m] : m \in 1 .. n}
<1>1. /\ F \in SUBSET Item /\ \A x \in F : h[x].type = "free"
      /\ \A x \in Item : x \notin F <=> x # a /\ \A m \in 1 .. n : x # w[m]
      /\ NULL \notin Item /\ 1 \in 1 .. n /\ n \in 1 .. n
      /\ \A m \in 1 .. n : w[m] \in Item /\ w[m] # NULL
  BY ItemsAreFinite
<1>2. /\ \A x \in F : ho[x] = NULL
      /\ ho2[a] = NULL /\ \A m \in 1 .. n : ho2[w[m]] = a
      /\ \A x \in Item \ F : ho2[x] = ho[x] /\ h2[x] = h[x]
  BY <1>1 DEF Shaped, Typed, Listed
<1>3. \A x \in F : x = a \/ \E m \in 1 .. n : x = w[m]
  OBVIOUS
<1> HIDE DEF F
<1>4. ASSUME NEW m \in 1 .. n PROVE Held(h2, ho2, w[m])
  <2>1. /\ ho2[w[m]] = a /\ Owns(h2, a) /\ h2[a].child = w[1] /\ h2[a].child # NULL
        /\ (h2[a].type = "object" => h2[w[m]].string # NULL)
    BY <1>1, <1>2 DEF Listed, Owns
  <2>2. CASE m = 1
    <3>1. h2[w[m]].prev \in {w[n], NULL} /\ ho2[w[n]] = a /\ h2[w[n]].next = NULL
      BY <1>1, <1>2, <2>2 DEF Listed
    <3>2. h2[w[m]].next # NULL => ho2[h2[w[m]].next] = a /\ h2[h2[w[m]].next].prev = w[m]
      <4>1. CASE m = n
        BY <4>1 DEF Listed
      <4>2. CASE m # n
        <5>1. m + 1 \in 1 .. n /\ m + 1 # 1 /\ (m + 1) - 1 = m
          BY <4>2
        <5>2. h2[w[m]].next = w[m + 1] /\ h2[w[m + 1]].prev = w[m]
          BY <4>2, <5>1 DEF Listed
        <5>3. QED
          BY <1>2, <5>1, <5>2
      <4>3. QED
        BY <4>1, <4>2
    <3>3. QED
      BY <2>1, <2>2, <3>1, <3>2 DEF Held
  <2>3. CASE m # 1
    <3>1. m - 1 \in 1 .. n /\ m - 1 # n /\ (m - 1) + 1 = m /\ w[m] # w[1]
      BY <1>1, <2>3
    <3>2. h2[w[m]].prev = w[m - 1] /\ h2[w[m - 1]].next = w[m]
      BY <2>3, <3>1 DEF Listed
    <3>3. h2[w[m]].next # NULL => ho2[h2[w[m]].next] = a /\ h2[h2[w[m]].next].prev = w[m]
      <4>1. CASE m = n
        BY <4>1 DEF Listed
      <4>2. CASE m # n
        <5>1. m + 1 \in 1 .. n /\ m + 1 # 1 /\ (m + 1) - 1 = m
          BY <4>2
        <5>2. h2[w[m]].next = w[m + 1] /\ h2[w[m + 1]].prev = w[m]
          BY <4>2, <5>1 DEF Listed
        <5>3. QED
          BY <1>2, <5>1, <5>2
      <4>3. QED
        BY <4>1, <4>2
    <3>4. QED
      BY <1>1, <2>1, <3>1, <3>2, <3>3 DEF Held
  <2>4. QED
    BY <2>2, <2>3
<1>5. ASSUME NEW x \in F PROVE NewPart(h2, ho2, F, x)
  <2>1. CASE x = a
    <3>1. h2[x].type # "free" /\ ho2[x] = NULL /\ Single(h2, x)
      BY <1>2, <2>1 DEF Listed, Container
    <3>2. Begins(h2, ho2, x)
      BY <1>1, <1>2, <2>1 DEF Begins, Listed
    <3>3. ASSUME NEW K \in SUBSET Item, w[1] \in K,
                 \A j \in K : ho2[j] = a /\ h2[j].next # NULL => h2[j].next \in K
          PROVE  {j \in Item : ho2[j] = a} \subseteq K
      <4> DEFINE Out == {m \in 1 .. n : w[m] \notin K}
      <4>1. Out = {}
        <5>1. SUFFICES ASSUME Out # {} PROVE FALSE
          OBVIOUS
        <5>2. PICK m \in Out : \A k \in Out : m <= k
          <6>1. Out \subseteq Nat
            OBVIOUS
          <6> HIDE DEF Out
          <6>2. QED
            BY <5>1, <6>1, LeastExists
        <5>3. m \in 1 .. n /\ m # 1 /\ w[m] \notin K
          BY <3>3
        <5>4. m - 1 \in 1 .. n /\ m - 1 # n /\ (m - 1) + 1 = m /\ ~ m <= m - 1
          BY <5>3
        <5>5. w[m - 1] \in K
          BY <5>2, <5>4
        <5>6. h2[w[m - 1]].next = w[m] /\ ho2[w[m - 1]] = a
          BY <1>2, <5>4 DEF Listed
        <5>7. QED
          BY <1>1, <3>3, <5>3, <5>5, <5>6
      <4>2. \A j \in Item : ho2[j] = a => \E m \in 1 .. n : j = w[m]
        BY <1>1, ShapeFacts DEF Held, Owns, Container
      <4>3. QED
        BY <4>1, <4>2
    <3>4. \E j \in Item : ho2[j] = a /\ h2[j].next = NULL
      <4>1. w[n] \in Item /\ ho2[w[n]] = a /\ h2[w[n]].next = NULL
        BY <1>1, <1>2 DEF Listed
      <4>2. QED
        BY <4>1
    <3>5. h2[a].child = w[1]
      BY DEF Listed
    <3>6. Full(h2, ho2, x)
      BY <2>1, <3>3, <3>4, <3>5 DEF Full
    <3>7. QED
      BY <3>1, <3>2, <3>6 DEF NewPart
  <2>2. CASE x # a
    <3>1. PICK m \in 1 .. n : x = w[m]
      BY <1>3, <2>2
    <3>2. h2[x].type # "free" /\ h2[x].child = NULL /\ ho2[x] = a /\ a \in F /\ a # NULL
      BY <1>1, <1>2, <3>1 DEF Listed, F
    <3>3. Held(h2, ho2, x)
      BY <1>4, <3>1
    <3>4. QED
      BY <3>2, <3>3 DEF Begins, Full, NewPart
  <2>3. QED
    BY <2>1, <2>2
<1>6. Extends(h, ho, F, h2, ho2)
  BY <1>1, <1>2, <1>5 DEF Extends, Listed
<1>7. Shaped(h2, ho2)
  BY <1>6, ExtendsShaped
<1>8. ASSUME Acyclic(ho) PROVE Acyclic(ho2)
  <2>1. ASSUME NEW K \in SUBSET F, \A j \in K : ho2[j] \in K PROVE K = {}
    <3>1. a \notin K
      BY <1>1, <1>2, <2>1
    <3>2. \A j \in K : ho2[j] = a
      BY <1>2, <1>3, <3>1
    <3>3. QED
      BY <2>1, <3>1, <3>2
  <2>2. \A K \in SUBSET F : (\A j \in K : ho2[j] \in K) => K = {}
    BY <2>1
  <2>3. QED
    BY <1>6, <1>8, <2>2, ExtendsAcyclic
<1>9. QED
  BY <1>7, <1>8

\* Where the copy of a cell leads that leads to j.
CopyOf(copy, j) == IF j \in DOMAIN copy THEN copy[j] ELSE NULL

\* Each of the cells C has a copy of its own.
Copies(C, copy) ==
  C \in SUBSET Item /\ copy \in [C -> Item] /\ \A x, y \in C : copy[x] = copy[y] => x = y

\* In the memory h2 the copies take over what the tree below i is made of.
Copied(h, h2, i, C, copy) ==
  /\ h2 \in [Item -> Cell]
  /\ \A x \in C :
       /\ h2[copy[x]].type = h[x].type /\ h2[copy[x]].ref = FALSE
       /\ h2[copy[x]].string = h[x].string
       /\ h2[copy[x]].child = CopyOf(copy, h[x].child)
       /\ h2[copy[x]].next = IF x = i THEN NULL ELSE CopyOf(copy, h[x].next)
       /\ h2[copy[x]].prev = IF x = i \/ (\E p \in C : h[p].child = x) THEN NULL
                             ELSE CopyOf(copy, h[x].prev)
  /\ \A y \in Item : (\A x \in C : y # copy[x]) => h2[y] = h[y]

LEMMA DuplicateCopies ==
  ASSUME NEW h \in [Item -> Cell], NEW i \in Item, NEW C, NEW copy, Copies(C, copy)
  PROVE  Copied(h, Duplicate(h, i, copy), i, C, copy)
<1>2. C \in SUBSET Item /\ copy \in [C -> Item] /\ \A x, y \in C : copy[x] = copy[y] => x = y
  BY DEF Copies
<1> USE <1>2
<1> DEFINE F == {copy[x] : x \in C}
           h2 == Duplicate(h, i, copy)
           to(j) == IF j \in DOMAIN copy THEN copy[j] ELSE NULL
           first(j) == \E p \in DOMAIN copy : h[p].child = j
           new(x) == [h[x] EXCEPT !.ref = FALSE, !.child = to(h[x].child),
                                  !.next = IF x = i THEN NULL ELSE to(h[x].next),
                                  !.prev = IF x = i \/ first(x) THEN NULL ELSE to(h[x].prev)]
           old(j) == CHOOSE x \in DOMAIN copy : copy[x] = j
<1>3. h2 = [j \in Item |-> IF j \in F THEN new(old(j)) ELSE h[j]]
  <2>1. Range(copy) = F
    BY DEF Range
  <2>2. QED
    BY <2>1 DEF Duplicate
<1>4. \A x \in C : old(copy[x]) = x
  OBVIOUS
<1>5. \A j : to(j) \in Pointer
  BY DEF Pointer
<1> HIDE DEF to, old, first
<1>6. ASSUME NEW x \in C
      PROVE  /\ new(x) \in Cell /\ new(x).type = h[x].type /\ new(x).ref = FALSE
             /\ new(x).string = h[x].string /\ new(x).child = to(h[x].child)
             /\ new(x).next = IF x = i THEN NULL ELSE to(h[x].next)
             /\ new(x).prev = IF x = i \/ first(x) THEN NULL ELSE to(h[x].prev)
  <2> DEFINE c == to(h[x].child)
             n == IF x = i THEN NULL ELSE to(h[x].next)
             p == IF x = i \/ first(x) THEN NULL ELSE to(h[x].prev)
  <2>1. h[x] \in Cell /\ c \in Pointer /\ n \in Pointer /\ p \in Pointer
    BY <1>5 DEF Pointer
  <2>2. new(x) = [h[x] EXCEPT !.ref = FALSE, !.child = c, !.next = n, !.prev = p]
    OBVIOUS
  <2> HIDE DEF c, n, p, new
  <2>3. QED
    BY <2>1, <2>2 DEF Cell, c, n, p
<1> HIDE DEF new
<1>7. /\ h2 \in [Item -> Cell]
      /\ \A x \in C : /\ copy[x] \in F /\ h2[copy[x]].type = h[x].type /\ h2[copy[x]].ref = FALSE
                      /\ h2[copy[x]].string = h[x].string
                      /\ h2[copy[x]].child = to(h[x].child)
                      /\ h2[copy[x]].next = IF x = i THEN NULL ELSE to(h[x].next)
                      /\ h2[copy[x]].prev = IF x = i \/ first(x) THEN NULL ELSE to(h[x].prev)
      /\ \A y \in Item \ F : h2[y] = h[y]
  <2>1. \A x \in C : copy[x] \in F /\ copy[x] \in Item
    OBVIOUS
  <2>2. \A y \in F : \E x \in C : y = copy[x]
    OBVIOUS
  <2> HIDE DEF h2, F
  <2>3. \A x \in C : h2[copy[x]] = new(x)
    BY <1>3, <1>4, <2>1
  <2>4. \A y \in Item \ F : h2[y] = h[y]
    BY <1>3
  <2>9. ASSUME NEW y \in Item PROVE h2[y] \in Cell
    <3>1. CASE y \in F
      <4>1. PICK x \in C : y = copy[x]
        BY <2>2, <3>1
      <4>2. QED
        BY <1>6, <2>3, <4>1
    <3>2. CASE y \notin F
      BY <2>4, <3>2
    <3>3. QED
      BY <3>1, <3>2
  <2>5. h2 \in [Item -> Cell]
    <3>1. \A y \in Item : h2[y] \in Cell
      BY <2>9
    <3>2. h2 = [y \in Item |-> h2[y]]
      BY <1>3
    <3>3. QED
      BY <3>1, <3>2
  <2>6. ASSUME NEW x \in C
        PROVE  /\ copy[x] \in F /\ h2[copy[x]].type = h[x].type /\ h2[copy[x]].ref = FALSE
               /\ h2[copy[x]].string = h[x].string
               /\ h2[copy[x]].child = to(h[x].child)
               /\ h2[copy[x]].next = IF x = i THEN NULL ELSE to(h[x].next)
               /\ h2[copy[x]].prev = IF x = i \/ first(x) THEN NULL ELSE to(h[x].prev)
    BY <1>6, <2>1, <2>3
  <2>8. QED
    BY <2>4, <2>5, <2>6
<1>8. \A j : first(j) <=> \E p \in C : h[p].child = j
  BY DEF first
<1>9. QED
  BY <1>7, <1>8 DEF Copied, CopyOf, to

\* A copy of a branch that holds no reference.
LEMMA DuplicateShaped ==
  ASSUME NEW h, NEW ho, Shaped(h, ho), Acyclic(ho), NEW i \in Item, h[i].type # "free",
         NEW C, Branch(ho, i, C), \A x \in C : ~h[x].ref,
         NEW copy \in [C -> Item], \A x \in C : h[copy[x]].type = "free",
         \A x, y \in C : copy[x] = copy[y] => x = y,
         NEW ho2 \in [Item -> Pointer],
         \A x \in C : ho2[copy[x]] = IF x = i THEN NULL ELSE copy[ho[x]],
         \A y \in Item : (\A x \in C : y # copy[x]) => ho2[y] = ho[y]
  PROVE  Shaped(Duplicate(h, i, copy), ho2) /\ Acyclic(ho2)
<1> DEFINE F == {copy[x] : x \in C}
           h2 == Duplicate(h, i, copy)
           to(j) == IF j \in C THEN copy[j] ELSE NULL
           first(j) == \E p \in C : h[p].child = j
<1>1. /\ C \in SUBSET Item /\ i \in C /\ NULL \notin Item /\ ho[i] \notin C
      /\ \A x \in Item : ho[x] \in C => x \in C
      /\ \A x \in C : x # i => ho[x] \in C
  <2>1. ho[i] \notin C
    BY DEF Branch, Acyclic
  <2>2. QED
    BY <2>1, ItemsAreFinite DEF Branch
<1>2. /\ F \in SUBSET Item /\ \A y \in F : h[y].type = "free"
      /\ h \in [Item -> Cell] /\ ho \in [Item -> Pointer]
  BY DEF Shaped, Typed
<1>5. \A j : to(j) \in Pointer /\ (j \in C => to(j) = copy[j] /\ to(j) # NULL) /\ (j \notin C => to(j) = NULL)
  BY <1>1 DEF Pointer
<1>7. /\ h2 \in [Item -> Cell]
      /\ \A x \in C : /\ copy[x] \in F /\ h2[copy[x]].type = h[x].type /\ h2[copy[x]].ref = FALSE
                      /\ h2[copy[x]].string = h[x].string
                      /\ h2[copy[x]].child = to(h[x].child)
                      /\ h2[copy[x]].next = IF x = i THEN NULL ELSE to(h[x].next)
                      /\ h2[copy[x]].prev = IF x = i \/ first(x) THEN NULL ELSE to(h[x].prev)
      /\ \A y \in Item \ F : h2[y] = h[y]
  <2>1. \A x \in C : copy[x] \in F
    OBVIOUS
  <2>2. \A j : CopyOf(copy, j) = to(j)
    BY DEF CopyOf
  <2>3. Copied(h, h2, i, C, copy)
    BY <1>1, <1>2, DuplicateCopies DEF Copies
  <2> HIDE DEF h2, to
  <2>4. QED
    BY <2>1, <2>2, <2>3 DEF Copied
<1> HIDE DEF to, first
<1>8. \A y \in F : \E x \in C : y = copy[x]
  OBVIOUS
<1>9. \A y \in Item \ F : ho2[y] = ho[y]
  OBVIOUS
<1> HIDE DEF F, h2
<1>10. ASSUME NEW x \in C, x # i PROVE Held(h2, ho2, copy[x])
  <2> DEFINE b == ho[x]
             c == h[b].child
  <2>1. /\ b \in C /\ Held(h, ho, x) /\ c \in Item /\ ho[c] = b /\ c \in C
        /\ ho2[copy[x]] = copy[b] /\ x \in Item
    BY <1>1, <1>10, ShapeFacts DEF Held, Owns, Begins
  <2>2. /\ Owns(h2, copy[b]) /\ h2[copy[b]].child = copy[c] /\ copy[c] # NULL
        /\ (h2[copy[b]].type = "object" => h2[copy[x]].string # NULL)
    BY <1>5, <1>7, <2>1 DEF Held, Owns
  <2>3. first(x) <=> c = x
    BY <1>1, <2>1, ShapeFacts DEF first, Begins
  <2>4. ASSUME c = x PROVE h2[copy[x]].prev = NULL
    BY <1>7, <2>3, <2>4
  <2>5. ASSUME c # x PROVE h2[copy[x]].prev # NULL /\ h2[h2[copy[x]].prev].next = copy[x]
    <3> DEFINE p == h[x].prev
    <3>1. p \in Item /\ ho[p] = b /\ h[p].next = x /\ p \in C /\ p # i
      BY <1>1, <2>1, <2>5, ShapeFacts DEF Held
    <3>2. h2[copy[x]].prev = copy[p] /\ copy[p] # NULL
      BY <1>5, <1>7, <1>10, <2>3, <2>5, <3>1
    <3>3. h2[copy[p]].next = copy[x]
      BY <1>5, <1>7, <3>1
    <3>4. QED
      BY <3>2, <3>3
  <2>6. ASSUME h2[copy[x]].next # NULL
        PROVE  ho2[h2[copy[x]].next] = copy[b] /\ h2[h2[copy[x]].next].prev = copy[x]
    <3> DEFINE z == h[x].next
    <3>1. z \in C /\ h2[copy[x]].next = copy[z]
      BY <1>5, <1>7, <1>10, <2>6
    <3>2. z # NULL /\ ho[z] = b /\ h[z].prev = x /\ z # i /\ c # z
      BY <1>1, <2>1, <3>1, FirstFacts DEF Held
    <3>3. ho2[copy[z]] = copy[b]
      BY <3>1, <3>2
    <3>4. ~first(z)
      BY <1>1, <3>1, <3>2, ShapeFacts DEF first, Begins
    <3>5. h2[copy[z]].prev = copy[x]
      BY <1>5, <1>7, <3>1, <3>2, <3>4
    <3>6. QED
      BY <3>1, <3>3, <3>5
  <2>7. copy[c] = copy[x] <=> c = x
    BY <2>1
  <2>8. QED
    BY <2>1, <2>2, <2>4, <2>5, <2>6, <2>7 DEF Held
<1>11. ASSUME NEW x \in C PROVE Begins(h2, ho2, copy[x])
  <2>1. SUFFICES ASSUME h2[copy[x]].child # NULL PROVE ho2[h2[copy[x]].child] = copy[x]
    BY <1>7 DEF Begins
  <2>2. h[x].child \in C /\ h2[copy[x]].child = copy[h[x].child]
    BY <1>5, <1>7, <2>1
  <2>3. ho[h[x].child] = x /\ h[x].child # i
    BY <1>1, <2>2, ShapeFacts DEF Begins
  <2>4. QED
    BY <2>2, <2>3
<1>12. ASSUME NEW x \in C PROVE Full(h2, ho2, copy[x])
  <2>1. SUFFICES ASSUME Owns(h2, copy[x]), h2[copy[x]].child # NULL
                 PROVE  /\ \A K \in SUBSET Item :
                             /\ h2[copy[x]].child \in K
                             /\ \A j \in K : ho2[j] = copy[x] /\ h2[j].next # NULL => h2[j].next \in K
                             => {j \in Item : ho2[j] = copy[x]} \subseteq K
                        /\ \E j \in Item : ho2[j] = copy[x] /\ h2[j].next = NULL
    BY DEF Full
  <2>2. h[x].child \in C /\ h2[copy[x]].child = copy[h[x].child]
    BY <1>5, <1>7, <2>1
  <2>3. Full(h, ho, x) /\ Owns(h, x) /\ h[x].child # NULL
    BY <1>1, <1>7, <2>1, <2>2 DEF Shaped, Owns
  <2>4. \A z \in Item : ho[z] = x => z \in C /\ z # i /\ ho2[copy[z]] = copy[x]
    BY <1>1
  <2>5. ASSUME NEW K \in SUBSET Item, h2[copy[x]].child \in K,
               \A j \in K : ho2[j] = copy[x] /\ h2[j].next # NULL => h2[j].next \in K
        PROVE  {j \in Item : ho2[j] = copy[x]} \subseteq K
    <3> DEFINE J == {z \in C : copy[z] \in K}
    <3>1. J \in SUBSET Item /\ h[x].child \in J
      BY <1>1, <2>2, <2>5
    <3>2. ASSUME NEW z \in J, ho[z] = x, h[z].next # NULL PROVE h[z].next \in J
      <4>1. z \in C /\ z \in Item /\ copy[z] \in K /\ z # i
        BY <1>1, <2>4, <3>2
      <4>2. h[z].next \in Item /\ ho[h[z].next] = x
        BY <3>2, <4>1, ShapeFacts, <1>1 DEF Held
      <4>3. h[z].next \in C /\ h2[copy[z]].next = copy[h[z].next] /\ copy[h[z].next] # NULL
        BY <1>5, <1>7, <2>4, <4>1, <4>2
      <4>4. QED
        BY <2>4, <2>5, <3>2, <4>1, <4>3
    <3>3. {z \in Item : ho[z] = x} \subseteq J
      <4> HIDE DEF J
      <4>1. QED
        BY <2>3, <3>1, <3>2 DEF Full
    <3>4. ASSUME NEW y \in Item, ho2[y] = copy[x] PROVE y \in K
      <4>1. y \in F
        <5>1. SUFFICES ASSUME y \notin F PROVE FALSE
          OBVIOUS
        <5>2. ho[y] = copy[x]
          BY <1>9, <3>4, <5>1
        <5>3. Owns(h, copy[x])
          BY <1>1, <5>2, ShapeFacts DEF Held
        <5>4. QED
          BY <5>3 DEF Owns, Container
      <4>2. PICK z \in C : y = copy[z]
        BY <1>8, <4>1
      <4>3. z # i /\ copy[ho[z]] = copy[x]
        BY <1>1, <3>4, <4>2
      <4>4. ho[z] = x
        BY <1>1, <4>3
      <4>5. QED
        BY <1>1, <3>3, <4>2, <4>4
    <3>5. QED
      BY <3>4
  <2>6. \E j \in Item : ho2[j] = copy[x] /\ h2[j].next = NULL
    <3>1. PICK z \in Item : ho[z] = x /\ h[z].next = NULL
      BY <2>3 DEF Full
    <3>2. z \in C /\ z # i /\ ho2[copy[z]] = copy[x]
      BY <2>4, <3>1
    <3>3. h2[copy[z]].next = NULL
      BY <1>1, <1>5, <1>7, <3>1, <3>2
    <3>4. QED
      BY <3>2, <3>3
  <2>7. QED
    BY <2>5, <2>6
<1>13. ASSUME NEW y \in F PROVE NewPart(h2, ho2, F, y)
  <2>1. PICK x \in C : y = copy[x]
    BY <1>8
  <2>2. h2[y].type # "free"
    <3>1. x = i \/ ho[x] # NULL
      BY <1>1
    <3>2. h[x].type # "free"
      BY <1>1, <3>1 DEF Shaped, Typed
    <3>3. QED
      BY <1>7, <2>1, <3>2
  <2>3. ho2[y] \in F \cup {NULL}
    BY <1>1, <1>7, <2>1
  <2>4. IF ho2[y] # NULL THEN Held(h2, ho2, y) ELSE Single(h2, y)
    <3>1. CASE x = i
      BY <1>7, <2>1, <3>1 DEF Single
    <3>2. CASE x # i
      <4>1. ho2[y] \in Item
        BY <1>1, <2>1, <3>2
      <4>2. QED
        BY <1>1, <1>10, <2>1, <3>2, <4>1
    <3>3. QED
      BY <3>1, <3>2
  <2>5. QED
    BY <1>11, <1>12, <2>1, <2>2, <2>3, <2>4 DEF NewPart
<1>14. Extends(h, ho, F, h2, ho2)
  BY <1>2, <1>7, <1>9, <1>13 DEF Extends
<1>15. Shaped(h2, ho2)
  BY <1>14, ExtendsShaped
<1>16. Acyclic(ho2)
  <2>1. ASSUME NEW K \in SUBSET F, \A j \in K : ho2[j] \in K PROVE K = {}
    <3> DEFINE J == {x \in C : copy[x] \in K}
    <3>1. \A x \in J : ho[x] \in J
      BY <1>1, <1>2, <2>1
    <3>2. J \in SUBSET Item
      BY <1>1
    <3>3. J = {}
      <4> HIDE DEF J
      <4>1. QED
        BY <3>1, <3>2 DEF Acyclic
    <3>4. QED
      BY <1>8, <3>3
  <2>2. \A K \in SUBSET F : (\A j \in K : ho2[j] \in K) => K = {}
    BY <2>1
  <2>3. QED
    BY <1>14, <2>2, ExtendsAcyclic
<1>17. QED
  BY <1>15, <1>16 DEF h2

-------------------------------------------------------------------------------
(* The order of a list.                                                    *)

\* Walking from i along next comes to j.
Ahead(h, i, j) == \A K \in SUBSET Item :
  i \in K /\ (\A k \in K : h[k].next # NULL => h[k].next \in K) => j \in K

\* From h to h2 the items of S keep their order, and the cells of T what they are.
Keeps(h, h2, S, T) ==
  /\ S \in SUBSET Item /\ T \in SUBSET Item
  /\ \A i, j \in S : Ahead(h, i, j) => Ahead(h2, i, j)
  /\ \A a \in T : h[a].type # "free" => h2[a].type # "free" /\ h2[a].ref = h[a].ref

LEMMA KeepsBoth ==
  ASSUME NEW h, NEW h1, NEW h2, NEW S, NEW T, NEW U, NEW V, Keeps(h, h1, S, T), Keeps(h1, h2, U, V)
  PROVE  Keeps(h, h2, S \cap U, T \cap V)
BY DEF Keeps

LEMMA KeepsAll ==
  ASSUME NEW h, NEW h1, NEW h2, Keeps(h, h1, Item, Item), Keeps(h1, h2, Item, Item)
  PROVE  Keeps(h, h2, Item, Item)
BY DEF Keeps

\* What leaves every next alone that leads somewhere.
LEMMA SameKeeps ==
  ASSUME NEW h, NEW ho, Shaped(h, ho), NEW h2,
         \A x \in Item : h[x].type # "free" =>
           h2[x].type # "free" /\ h2[x].ref = h[x].ref /\ h2[x].next = h[x].next
  PROVE  Keeps(h, h2, Item, Item)
<1>1. \A x \in Item : h[x].next # NULL => h2[x].next = h[x].next
  BY DEF Shaped, Typed, Blank
<1>2. ASSUME NEW i \in Item, NEW j \in Item, Ahead(h, i, j) PROVE Ahead(h2, i, j)
  BY <1>1, <1>2 DEF Ahead
<1>3. QED
  BY <1>2 DEF Keeps

LEMMA KeptKeeps ==
  ASSUME NEW h, NEW ho, Shaped(h, ho), NEW new \in Item, h[new].type = "free", NEW h2,
         \A x \in Item : x # new => h2[x] = h[x]
  PROVE  Keeps(h, h2, Item, Item)
<1>1. \A x \in Item : h[x].type # "free" =>
        h2[x].type # "free" /\ h2[x].ref = h[x].ref /\ h2[x].next = h[x].next
  OBVIOUS
<1>2. QED
  BY <1>1, SameKeeps

LEMMA RenameKeeps ==
  ASSUME NEW h, NEW ho, Shaped(h, ho), NEW i \in Item, NEW key
  PROVE  Keeps(h, [h EXCEPT ![i].string = key], Item, Item)
<1> DEFINE h2 == [h EXCEPT ![i].string = key]
<1>1. \A x \in Item : h2[x].type = h[x].type /\ h2[x].ref = h[x].ref /\ h2[x].next = h[x].next
  BY DEF Shaped, Typed, Cell
<1> HIDE DEF h2
<1>2. Keeps(h, h2, Item, Item)
  BY <1>1, SameKeeps
<1>3. QED
  BY <1>2 DEF h2

LEMMA FilledKeeps ==
  ASSUME NEW h, NEW ho, Shaped(h, ho), NEW a \in Item, NEW i \in Item, MayFill(h, ho, a, i),
         NEW p, NEW n, NEW q, Gap(h, ho, a, p, n, q, i), NEW h2, Filled(h, h2, a, p, n, q, i)
  PROVE  Keeps(h, h2, Item, Item)
<1>1. /\ h[i].next = NULL /\ p # i /\ NULL \notin Item
      /\ p # NULL => p \in Item /\ h[p].next = n
  <2>1. h[i].next = NULL /\ i # NULL /\ NULL \notin Item /\ a # NULL /\ ho[i] # a
    BY ItemsAreFinite, ShapeFacts DEF MayFill, Single
  <2>2. CASE p = NULL
    BY <2>1, <2>2
  <2>3. CASE p # NULL /\ p \in Item /\ ho[p] = a /\ h[p].next = NULL /\ n = NULL
    BY <2>1, <2>3
  <2>4. CASE p # NULL /\ n \in Item /\ ho[n] = a /\ n # h[a].child /\ p = h[n].prev
    <3>1. Held(h, ho, n) /\ p \in Item /\ ho[p] = a
      BY <2>1, <2>4, ShapeFacts
    <3>2. QED
      BY <2>1, <2>4, <3>1 DEF Held
  <2>5. QED
    BY <2>2, <2>3, <2>4 DEF Gap
<1>2. \A x \in Item : h2[x].next = IF x = i THEN n ELSE IF x = p THEN i ELSE h[x].next
  BY DEF Filled
<1>3. ASSUME NEW x \in Item, NEW y \in Item, Ahead(h, x, y),
             NEW K \in SUBSET Item, x \in K,
             \A k \in K : h2[k].next # NULL => h2[k].next \in K
      PROVE  y \in K
  <2>1. ASSUME NEW k \in K, h[k].next # NULL PROVE h[k].next \in K
    <3>1. CASE k # p
      BY <1>1, <1>2, <1>3, <2>1, <3>1
    <3>2. CASE k = p
      <4>1. h2[k].next = i /\ i # NULL
        BY <1>1, <1>2, <3>2
      <4>2. i \in K /\ h2[i].next = n /\ h[k].next = n
        BY <1>1, <1>2, <1>3, <3>2, <4>1
      <4>3. QED
        BY <1>3, <2>1, <4>2
    <3>3. QED
      BY <3>1, <3>2
  <2>2. QED
    BY <1>3, <2>1 DEF Ahead
<1>4. \A x, y \in Item : Ahead(h, x, y) => Ahead(h2, x, y)
  BY <1>3 DEF Ahead
<1>5. \A x \in Item : h2[x].type = h[x].type /\ h2[x].ref = h[x].ref
  BY DEF Filled
<1>6. QED
  BY <1>4, <1>5 DEF Keeps

LEMMA EmptiedKeeps ==
  ASSUME NEW h, NEW ho, Shaped(h, ho), NEW a \in Item, NEW i \in Item, MayEmpty(h, ho, a, i),
         NEW h2, Emptied(h, h2, a, i)
  PROVE  Keeps(h, h2, Item \ {i}, Item)
<1> DEFINE p == h[i].prev
           first == i = h[a].child
<1>1. /\ i # NULL /\ NULL \notin Item
      /\ h[i].next # NULL => h[i].next # i
      /\ \A k \in Item : h[k].next = i => ~first /\ k = p
  <2>1. ASSUME NEW k \in Item, h[k].next = i PROVE ~first /\ k = p
    <3>1. i # NULL /\ ho[i] = a
      BY ItemsAreFinite DEF MayEmpty
    <3>2. ho[k] # NULL /\ Held(h, ho, k)
      BY <2>1, <3>1, ShapeFacts
    <3>3. h[i].prev = k /\ ho[k] = a
      BY <2>1, <3>1, <3>2 DEF Held
    <3>4. QED
      BY <2>1, <3>1, <3>2, <3>3, FirstFacts
  <2>2. QED
    BY <2>1, TakenFacts, ItemsAreFinite
<1>2. \A x \in Item : h2[x].next = IF x = i THEN NULL
                                   ELSE IF ~first /\ x = p THEN h[i].next ELSE h[x].next
  BY DEF Emptied
<1> HIDE DEF p, first
<1>3. ASSUME NEW x \in Item \ {i}, NEW y \in Item \ {i}, Ahead(h, x, y),
             NEW K \in SUBSET Item, x \in K,
             \A k \in K : h2[k].next # NULL => h2[k].next \in K
      PROVE  y \in K
  <2> DEFINE L == (K \ {i}) \cup (IF ~first /\ p \in K /\ p # i THEN {i} ELSE {})
  <2>1. ASSUME NEW k \in L, h[k].next # NULL PROVE h[k].next \in L
    <3>1. CASE k = i
      <4>1. ~first /\ p \in K /\ p # i
        BY <3>1
      <4>2. h2[p].next = h[i].next
        BY <1>2, <4>1
      <4>3. QED
        BY <1>1, <1>3, <2>1, <3>1, <4>1, <4>2
    <3>2. CASE k # i /\ h[k].next = i
      BY <1>1, <3>2
    <3>3. CASE k # i /\ h[k].next # i
      <4>1. k \in K /\ k \in Item
        BY <3>3
      <4>2. CASE ~first /\ k = p
        <5>1. i \in Item
          OBVIOUS
        <5>2. ~first /\ p \in Item /\ h[p].next = i
          BY <4>1, <4>2, TakenFacts DEF first, p
        <5>3. QED
          BY <3>3, <4>2, <5>2
      <4>3. CASE ~(~first /\ k = p)
        <5>1. h2[k].next = h[k].next
          BY <1>2, <3>3, <4>1, <4>3
        <5>2. QED
          BY <1>3, <2>1, <3>3, <4>1, <5>1
      <4>4. QED
        BY <4>2, <4>3
    <3>4. QED
      BY <3>1, <3>2, <3>3
  <2>2. L \in SUBSET Item /\ x \in L
    BY <1>3
  <2>3. y \in L
    <3> HIDE DEF L
    <3>1. QED
      BY <1>3, <2>1, <2>2 DEF Ahead
  <2>4. QED
    BY <2>3
<1>4. \A x, y \in Item \ {i} : Ahead(h, x, y) => Ahead(h2, x, y)
  BY <1>3 DEF Ahead
<1>5. \A x \in Item : h2[x].type = h[x].type /\ h2[x].ref = h[x].ref
  BY DEF Emptied
<1>6. QED
  BY <1>4, <1>5 DEF Keeps

LEMMA DeleteKeeps ==
  ASSUME NEW h, NEW ho, Shaped(h, ho), NEW i \in Item, ho[i] = NULL,
         NEW W, Branch(ho, i, W), Deleted(h, i) = W
  PROVE  Keeps(h, Delete(h, i), Item \ W, Item \ W)
<1> DEFINE h2 == Delete(h, i)
<1>1. \A x \in Item \ W : h2[x] = h[x]
  BY DEF Delete
<1> HIDE DEF h2
<1>2. ASSUME NEW k \in Item \ W, h[k].next # NULL PROVE h[k].next \in Item \ W
  <2>1. h[k].next \in Item /\ ho[k] # NULL /\ ho[h[k].next] = ho[k]
    BY <1>2, ShapeFacts DEF Held
  <2>2. QED
    BY <1>2, <2>1 DEF Branch
<1>3. ASSUME NEW x \in Item \ W, NEW y \in Item \ W, Ahead(h, x, y),
             NEW K \in SUBSET Item, x \in K,
             \A k \in K : h2[k].next # NULL => h2[k].next \in K
      PROVE  y \in K
  <2>1. K \ W \in SUBSET Item /\ x \in K \ W
    BY <1>3
  <2>2. \A k \in K \ W : h[k].next # NULL => h[k].next \in K \ W
    BY <1>1, <1>2, <1>3
  <2>3. QED
    BY <1>3, <2>1, <2>2 DEF Ahead
<1>4. \A x, y \in Item \ W : Ahead(h, x, y) => Ahead(h2, x, y)
  BY <1>3 DEF Ahead
<1>5. Keeps(h, h2, Item \ W, Item \ W)
  BY <1>1, <1>4 DEF Keeps
<1>6. QED
  BY <1>5 DEF h2

\* What a step does to the order: who stays where it was keeps it, and who is there
\* after it is what it was.
Orderly ==
  \E S, T : /\ Keeps(cell, cell', S, T)
            /\ \A i \in Item \ S : holder[i] = NULL \/ holder'[i] # holder[i]
            /\ \A a \in Item \ T : cell'[a].type = "free"

LEMMA AllKeep == ASSUME Keeps(cell, cell', Item, Item) PROVE Orderly
BY DEF Orderly

-------------------------------------------------------------------------------
(* The shape says what the checked invariant says.                         *)

LEMMA ShapeIsWhole == ASSUME Inv PROVE ListsAreWhole
<1>1. Shaped(cell, holder)
  BY DEF Inv
<1>2. TypeOK
  BY <1>1 DEF TypeOK, Shaped, Typed, Free
<1>3. ASSUME NEW i \in Item
      PROVE  /\ cell[i].next # NULL =>
                   /\ holder[i] # NULL /\ holder[cell[i].next] = holder[i]
                   /\ cell[cell[i].next].prev = i
             /\ holder[i] # NULL /\ cell[holder[i]].child # i =>
                   cell[i].prev # NULL /\ cell[cell[i].prev].next = i
             /\ holder[i] # NULL /\ cell[holder[i]].child = i =>
                   \/ cell[i].prev = NULL
                   \/ cell[cell[i].prev].next = NULL /\ holder[cell[i].prev] = holder[i]
             /\ holder[i] = NULL => cell[i].next = NULL /\ cell[i].prev = NULL
  BY <1>1, ShapeFacts DEF Held, Single
<1>4. LinksAgree
  BY <1>3 DEF LinksAgree
<1>5. WalksFindAll
  <2> SUFFICES ASSUME NEW a \in Item, cell[a].type \in Container, ~cell[a].ref
               PROVE  /\ Range(Elements(cell, a)) = {i \in Item : holder[i] = a}
                      /\ IsInjective(Elements(cell, a))
    BY DEF WalksFindAll
  <2>1. QED
    BY <1>1, ElementsFacts DEF Owns
<1>6. NothingDangles
  <2> SUFFICES ASSUME NEW i \in Item, cell[i].type # "free",
                      NEW j \in {cell[i].next, cell[i].prev, cell[i].child} \ {NULL}
               PROVE  cell[j].type # "free"
    BY DEF NothingDangles
  <2>1. j \in Item /\ holder[j] # NULL
    BY <1>1, ShapeFacts, ItemsAreFinite DEF Held
  <2>2. QED
    BY <1>1, <2>1 DEF Shaped, Typed
<1>7. QED
  BY <1>2, <1>4, <1>5, <1>6 DEF ListsAreWhole

-------------------------------------------------------------------------------
(* Every call keeps the shape.                                             *)

LEMMA InitShape == ASSUME Init PROVE Inv
<1>1. /\ cell \in [Item -> Cell] /\ holder \in [Item -> Pointer] /\ NULL \notin Item
      /\ \A i \in Item : cell[i] = Blank /\ holder[i] = NULL
  <2>1. Blank \in Cell /\ NULL \in Pointer
    BY DEF Blank, Cell, Type, Pointer
  <2>2. QED
    BY <2>1, ItemsAreFinite DEF Init
<1>2. \A i \in Item : Single(cell, i) /\ Begins(cell, holder, i) /\ Full(cell, holder, i)
  BY <1>1 DEF Single, Begins, Full, Owns, Blank, Container
<1>3. Acyclic(holder)
  BY <1>1 DEF Acyclic
<1>4. QED
  BY <1>1, <1>2, <1>3 DEF Inv, Shaped, Typed

\* What the invariant says of the items of a call.
LEMMA MemoryFacts ==
  ASSUME Inv
  PROVE  /\ Shaped(cell, holder) /\ Acyclic(holder) /\ NULL \notin Item
         /\ cell \in [Item -> Cell] /\ holder \in [Item -> Pointer]
         /\ \A i \in Free : cell[i] = Blank /\ holder[i] = NULL
         /\ Free # {} => New \in Free /\ New \in Item /\ cell[New].type = "free"
         /\ \A i \in Item : Whole(i) \in SUBSET Item /\ i \in Whole(i) /\ Branch(holder, i, Whole(i))
BY WholeFacts, ItemsAreFinite DEF Inv, Shaped, Typed, Free, New, Whole, WholeOf, Branch

LEMMA AddShaped ==
  ASSUME NEW h, NEW ho, Shaped(h, ho), NEW a \in Item, NEW i \in Item, MayFill(h, ho, a, i)
  PROVE  /\ Shaped(AddItemToArray(h, a, i), [ho EXCEPT ![i] = a])
         /\ Keeps(h, AddItemToArray(h, a, i), Item, Item)
BY AddFills, FilledShaped, FilledKeeps

LEMMA InsertShaped ==
  ASSUME NEW h, NEW ho, Shaped(h, ho), NEW a \in Item, NEW i \in Item, MayFill(h, ho, a, i),
         NEW which \in Nat
  PROVE  /\ Shaped(InsertItemInArray(h, a, which, i), [ho EXCEPT ![i] = a])
         /\ Keeps(h, InsertItemInArray(h, a, which, i), Item, Item)
BY InsertFills, FilledShaped, FilledKeeps

LEMMA DetachShaped ==
  ASSUME NEW h, NEW ho, Shaped(h, ho), NEW a \in Item, NEW i \in Item, MayEmpty(h, ho, a, i)
  PROVE  /\ Shaped(DetachItemViaPointer(h, a, i), [ho EXCEPT ![i] = NULL])
         /\ Keeps(h, DetachItemViaPointer(h, a, i), Item \ {i}, Item)
BY DetachEmpties, EmptiedShaped, EmptiedKeeps

LEMMA NewItemShaped ==
  ASSUME Inv, Free # {}, NEW t \in Leaf \cup Container
  PROVE  /\ Shaped(NewItem(cell, New, t), holder)
         /\ Keeps(cell, NewItem(cell, New, t), Item, Item)
         /\ NewItem(cell, New, t)[New] = [Blank EXCEPT !.type = t]
         /\ \A x \in Item : x # New => NewItem(cell, New, t)[x] = cell[x]
<1> DEFINE c == [Blank EXCEPT !.type = t]
<1>1. /\ c \in Cell /\ c.type # "free" /\ c.next = NULL /\ c.prev = NULL /\ c.child = NULL
  BY LeavesAreTyped DEF Blank, Cell, Type, Pointer, Container
<1>2. NewItem(cell, New, t) = [cell EXCEPT ![New] = c]
  BY DEF NewItem
<1> HIDE DEF c
<1>3. Shaped(cell, holder) /\ New \in Item /\ cell[New].type = "free"
  BY MemoryFacts
<1>4. Shaped([cell EXCEPT ![New] = c], holder)
  BY <1>1, <1>3, MakeShaped
<1>5. Shaped(NewItem(cell, New, t), holder)
  BY <1>2, <1>4
<1>6. NewItem(cell, New, t)[New] = c /\ \A x \in Item : x # New => NewItem(cell, New, t)[x] = cell[x]
  BY <1>2, MemoryFacts
<1>7. Keeps(cell, NewItem(cell, New, t), Item, Item)
  BY <1>3, <1>6, KeptKeeps
<1>8. QED
  BY <1>5, <1>6, <1>7 DEF c

LEMMA ReferenceShaped ==
  ASSUME Inv, Free # {}, NEW i \in Item, NEW t \in Container, Owner(i, t)
  PROVE  LET h == CreateReference(cell, i, New) IN
         /\ Shaped(h, holder) /\ Keeps(cell, h, Item, Item)
         /\ h[New].type = t /\ h[New].ref /\ \A x \in Item : x # New => h[x] = cell[x]
<1> DEFINE c == [cell[i] EXCEPT !.string = NULL, !.ref = TRUE, !.next = NULL, !.prev = NULL]
<1>1. cell[i] \in Cell /\ cell[i].type = t /\ ~cell[i].ref
  BY MemoryFacts DEF Owner, IsA
<1>2. /\ c \in Cell /\ c.type = t /\ c.ref /\ c.next = NULL /\ c.prev = NULL
      /\ c.child = cell[i].child
  BY <1>1 DEF Cell, Pointer
<1>3. CreateReference(cell, i, New) = [cell EXCEPT ![New] = c]
  BY DEF CreateReference
<1> HIDE DEF c
<1>4. c.child # NULL => holder[c.child] = i
  BY <1>1, <1>2, MemoryFacts, ShapeFacts DEF Begins
<1>5. t # "free"
  BY DEF Container
<1>6. Shaped(cell, holder) /\ New \in Item /\ cell[New].type = "free"
  BY MemoryFacts
<1>7. c.child # NULL => c.ref /\ holder[c.child] \in Item /\ cell[holder[c.child]].type = c.type
  BY <1>1, <1>2, <1>4
<1>8. Shaped([cell EXCEPT ![New] = c], holder)
  BY <1>2, <1>5, <1>6, <1>7, MakeShaped
<1>9. /\ CreateReference(cell, i, New)[New] = c
      /\ \A x \in Item : x # New => CreateReference(cell, i, New)[x] = cell[x]
  BY <1>3, MemoryFacts
<1>10. Keeps(cell, CreateReference(cell, i, New), Item, Item)
  BY <1>6, <1>9, KeptKeeps
<1>11. QED
  BY <1>2, <1>3, <1>8, <1>9, <1>10

\* An item that is in nothing and has nothing below it may go anywhere else.
LEMMA LeafAcyclic ==
  ASSUME NEW h, NEW ho, Shaped(h, ho), Acyclic(ho), NEW i \in Item, ho[i] = NULL,
         h[i].ref \/ h[i].child = NULL, NEW a \in Item, a # i
  PROVE  Acyclic([ho EXCEPT ![i] = a])
<1>1. Branch(ho, i, {i})
  BY WholeFacts DEF WholeOf
<1>2. ho \in [Item -> Pointer] /\ a \notin {i}
  BY DEF Shaped, Typed
<1>3. QED
  BY <1>1, <1>2, AcyclicMore

LEMMA CreateShape == ASSUME Inv, NEW t \in Leaf \cup Container, Create(t) PROVE Inv' /\ Orderly
<1>1. cell' = NewItem(cell, New, t) /\ holder' = holder /\ Free # {}
  BY DEF Create
<1>2. Shaped(cell', holder') /\ Keeps(cell, cell', Item, Item)
  BY <1>1, NewItemShaped
<1>3. QED
  BY <1>1, <1>2, AllKeep DEF Inv

LEMMA TakeFacts ==
  ASSUME Inv, NEW a \in Item, NEW i \in Item, NEW type \in Container, MayTake(a, type, i)
  PROVE  /\ holder[i] = NULL /\ a # i /\ cell[i].type # "free" /\ Owns(cell, a) /\ cell[a].type = type
         /\ Acyclic([holder EXCEPT ![i] = a])
<1>1. /\ holder[i] = NULL /\ cell[i].type # "free" /\ Owns(cell, a) /\ cell[a].type = type
      /\ a \notin Whole(i)
  BY DEF MayTake, Owner, IsA, Root, Owns
<1>2. QED
  BY <1>1, MemoryFacts, AcyclicMore

LEMMA AddToArrayShape ==
  ASSUME Inv, NEW a \in Item, NEW i \in Item, AddToArray(a, i) PROVE Inv' /\ Orderly
<1>1. /\ cell' = AddItemToArray(cell, a, i) /\ holder' = [holder EXCEPT ![i] = a]
      /\ MayTake(a, "array", i) /\ "array" \in Container
  BY DEF AddToArray, Container
<1>2. MayFill(cell, holder, a, i) /\ Acyclic([holder EXCEPT ![i] = a])
  BY <1>1, TakeFacts DEF MayFill
<1>3. Keeps(cell, cell', Item, Item) /\ Shaped(cell', holder')
  BY <1>1, <1>2, MemoryFacts, AddShaped
<1>4. QED
  BY <1>1, <1>2, <1>3, AllKeep DEF Inv

LEMMA InsertInArrayShape ==
  ASSUME Inv, NEW a \in Item, NEW i \in Item, NEW which \in Nat, InsertInArray(a, which, i)
  PROVE  Inv' /\ Orderly
<1>1. /\ cell' = InsertItemInArray(cell, a, which, i) /\ holder' = [holder EXCEPT ![i] = a]
      /\ MayTake(a, "array", i) /\ "array" \in Container
  BY DEF InsertInArray, Container
<1>2. MayFill(cell, holder, a, i) /\ Acyclic([holder EXCEPT ![i] = a])
  BY <1>1, TakeFacts DEF MayFill
<1>3. Keeps(cell, cell', Item, Item) /\ Shaped(cell', holder')
  BY <1>1, <1>2, MemoryFacts, InsertShaped
<1>4. QED
  BY <1>1, <1>2, <1>3, AllKeep DEF Inv

\* The key that an item takes before it is put into an object.
LEMMA KeyedShaped ==
  ASSUME NEW h, NEW ho, Shaped(h, ho), NEW o \in Item, Owns(h, o), NEW i \in Item, o # i,
         ho[i] = NULL, h[i].type # "free", NEW key \in Key
  PROVE  LET renamed == [h EXCEPT ![i].string = key] IN
         /\ Shaped(renamed, ho) /\ MayFill(renamed, ho, o, i)
         /\ Keeps(h, renamed, Item, Item)
<1> DEFINE renamed == [h EXCEPT ![i].string = key]
<1>1. Shaped(renamed, ho)
  BY RenameShaped
<1>2. Keeps(h, renamed, Item, Item)
  BY RenameKeeps
<1>3. /\ renamed[o] = h[o] /\ renamed[i].type = h[i].type /\ renamed[i].string = key /\ key # NULL
  BY ItemsAreFinite DEF Shaped, Typed, Cell
<1>4. QED
  BY <1>1, <1>2, <1>3 DEF MayFill, Owns

LEMMA AddToObjectShape ==
  ASSUME Inv, NEW o \in Item, NEW i \in Item, NEW key \in Key, AddToObject(o, key, i)
  PROVE  Inv' /\ Orderly
<1> DEFINE renamed == [cell EXCEPT ![i].string = key]
<1>1. /\ cell' = AddItemToArray(renamed, o, i) /\ holder' = [holder EXCEPT ![i] = o]
      /\ MayTake(o, "object", i) /\ "object" \in Container
  BY DEF AddToObject, AddItemToObject, Container
<1>2. /\ Shaped(renamed, holder) /\ MayFill(renamed, holder, o, i)
      /\ Keeps(cell, renamed, Item, Item)
  <2>1. holder[i] = NULL /\ o # i /\ cell[i].type # "free" /\ Owns(cell, o)
    BY <1>1, TakeFacts
  <2>2. Shaped(cell, holder)
    BY MemoryFacts
  <2>3. QED
    BY <2>1, <2>2, KeyedShaped
<1> HIDE DEF renamed
<1>3. Acyclic([holder EXCEPT ![i] = o])
  BY <1>1, TakeFacts
<1>4. Shaped(cell', holder') /\ Keeps(cell, cell', Item, Item)
  BY <1>1, <1>2, AddShaped, KeepsAll
<1>5. QED
  BY <1>1, <1>3, <1>4, AllKeep DEF Inv

LEMMA AddNewToObjectShape ==
  ASSUME Inv, NEW o \in Item, NEW key \in Key, NEW t \in Leaf \cup Container,
         AddNewToObject(o, key, t)
  PROVE  Inv' /\ Orderly
<1> DEFINE h == NewItem(cell, New, t)
           renamed == [h EXCEPT ![New].string = key]
<1>1. /\ cell' = AddItemToArray(renamed, o, New) /\ holder' = [holder EXCEPT ![New] = o]
      /\ Owner(o, "object") /\ Free # {}
  BY DEF AddNewToObject, AddItemToObject
<1>2. /\ Shaped(h, holder) /\ h[New] = [Blank EXCEPT !.type = t]
      /\ \A x \in Item : x # New => h[x] = cell[x]
      /\ Keeps(cell, h, Item, Item)
  BY <1>1, NewItemShaped
<1> HIDE DEF h
<1>3. h[New].type # "free" /\ h[New].child = NULL
  BY <1>2, LeavesAreTyped DEF Blank, Container
<1>4. New \in Item /\ holder[New] = NULL /\ o # New /\ Owns(h, o)
  BY <1>1, <1>2, MemoryFacts DEF Owner, IsA, Owns, Container
<1>5. /\ Shaped(renamed, holder) /\ MayFill(renamed, holder, o, New)
      /\ Keeps(h, renamed, Item, Item)
  BY <1>2, <1>3, <1>4, KeyedShaped
<1> HIDE DEF renamed
<1>6. Acyclic([holder EXCEPT ![New] = o])
  BY <1>2, <1>3, <1>4, MemoryFacts, LeafAcyclic
<1>7. Shaped(cell', holder') /\ Keeps(renamed, cell', Item, Item)
  BY <1>1, <1>4, <1>5, AddShaped
<1>8. Keeps(cell, cell', Item, Item)
  BY <1>2, <1>5, <1>7, KeepsAll
<1>9. QED
  BY <1>1, <1>6, <1>7, <1>8, AllKeep DEF Inv

LEMMA AddReferenceToArrayShape ==
  ASSUME Inv, NEW a \in Item, NEW i \in Item, AddReferenceToArray(a, i) PROVE Inv' /\ Orderly
<1> DEFINE h == CreateReference(cell, i, New)
<1>1. PICK t \in Container : Owner(i, t)
  BY DEF AddReferenceToArray, MayShow
<1>2. /\ cell' = AddItemToArray(h, a, New) /\ holder' = [holder EXCEPT ![New] = a]
      /\ Owner(a, "array") /\ Free # {}
  BY DEF AddReferenceToArray, MayShow
<1>3. /\ Shaped(h, holder) /\ h[New].type = t /\ h[New].ref /\ t # "free"
      /\ \A x \in Item : x # New => h[x] = cell[x]
      /\ Keeps(cell, h, Item, Item)
  BY <1>1, <1>2, ReferenceShaped DEF Container
<1> HIDE DEF h
<1>4. New \in Item /\ holder[New] = NULL /\ a # New /\ Owns(h, a) /\ h[a].type = "array"
  BY <1>2, <1>3, MemoryFacts DEF Owner, IsA, Owns, Container
<1>5. MayFill(h, holder, a, New)
  BY <1>3, <1>4 DEF MayFill
<1>6. Acyclic([holder EXCEPT ![New] = a])
  BY <1>3, <1>4, MemoryFacts, LeafAcyclic
<1>7. Shaped(cell', holder') /\ Keeps(cell, cell', Item, Item)
  BY <1>2, <1>3, <1>4, <1>5, AddShaped, KeepsAll
<1>8. QED
  BY <1>2, <1>6, <1>7, AllKeep DEF Inv

LEMMA AddReferenceToObjectShape ==
  ASSUME Inv, NEW o \in Item, NEW key \in Key, NEW i \in Item, AddReferenceToObject(o, key, i)
  PROVE  Inv' /\ Orderly
<1> DEFINE h == CreateReference(cell, i, New)
           renamed == [h EXCEPT ![New].string = key]
<1>1. PICK t \in Container : Owner(i, t)
  BY DEF AddReferenceToObject, MayShow
<1>2. /\ cell' = AddItemToArray(renamed, o, New) /\ holder' = [holder EXCEPT ![New] = o]
      /\ Owner(o, "object") /\ Free # {}
  BY DEF AddReferenceToObject, MayShow, AddItemToObject
<1>3. /\ Shaped(h, holder) /\ h[New].type = t /\ h[New].ref /\ t # "free"
      /\ \A x \in Item : x # New => h[x] = cell[x]
      /\ Keeps(cell, h, Item, Item)
  BY <1>1, <1>2, ReferenceShaped DEF Container
<1> HIDE DEF h
<1>4. New \in Item /\ holder[New] = NULL /\ o # New /\ Owns(h, o)
  BY <1>2, <1>3, MemoryFacts DEF Owner, IsA, Owns, Container
<1>5. /\ Shaped(renamed, holder) /\ MayFill(renamed, holder, o, New)
      /\ Keeps(h, renamed, Item, Item)
  BY <1>3, <1>4, KeyedShaped
<1> HIDE DEF renamed
<1>6. Acyclic([holder EXCEPT ![New] = o])
  BY <1>3, <1>4, MemoryFacts, LeafAcyclic
<1>7. Shaped(cell', holder') /\ Keeps(renamed, cell', Item, Item)
  BY <1>2, <1>4, <1>5, AddShaped
<1>8. Keeps(cell, cell', Item, Item)
  BY <1>3, <1>5, <1>7, KeepsAll
<1>9. QED
  BY <1>2, <1>6, <1>7, <1>8, AllKeep DEF Inv

\* What may be taken out of a container of the caller's.
LEMMA OutFacts ==
  ASSUME Inv, NEW p \in Item, NEW type \in Container, Owner(p, type), Unshared(p),
         NEW i \in Item, holder[i] = p
  PROVE  MayEmpty(cell, holder, p, i)
<1>1. Owns(cell, p)
  BY DEF Owner, IsA, Owns
<1>2. \A r \in Item : cell[r].ref => cell[r].child # i
  BY MemoryFacts DEF Unshared, References
<1>3. QED
  BY <1>1, <1>2 DEF MayEmpty

LEMMA DetachShape ==
  ASSUME Inv, NEW p \in Item, NEW type \in Container, NEW i \in Item, holder[i] = p,
         Detach(p, type, i)
  PROVE  Inv' /\ Orderly
<1>1. /\ cell' = DetachItemViaPointer(cell, p, i) /\ holder' = [holder EXCEPT ![i] = NULL]
      /\ MayEmpty(cell, holder, p, i)
  BY OutFacts DEF Detach
<1>2. Shaped(cell', holder') /\ Keeps(cell, cell', Item \ {i}, Item)
  BY <1>1, MemoryFacts, DetachShaped
<1>3. \A x \in Item : holder'[x] \in {holder[x], NULL}
  BY <1>1, MemoryFacts
<1>4. Acyclic(holder')
  BY <1>3, MemoryFacts, AcyclicLess
<1>5. Orderly
  <2>1. \A j \in Item \ (Item \ {i}) : holder[j] = NULL \/ holder'[j] # holder[j]
    BY <1>1, MemoryFacts
  <2>2. QED
    BY <1>2, <2>1 DEF Orderly
<1>6. QED
  BY <1>2, <1>4, <1>5 DEF Inv

\* From ho to ho2 the holders of the items of W are forgotten.
Dropped(ho, ho2, W) == ho2 = [j \in Item |-> IF j \in W THEN NULL ELSE ho[j]]

\* Giving back an item that was taken out.
LEMMA DropShaped ==
  ASSUME NEW h, NEW ho, Shaped(h, ho), Acyclic(ho), NEW i \in Item, ho[i] = NULL,
         NEW W, Branch(ho, i, W),
         \A r \in Item \ W : h[r].ref => h[r].child \notin W,
         NEW ho2, Dropped(ho, ho2, W), NEW h2, h2 = Delete(h, i)
  PROVE  Shaped(h2, ho2) /\ Keeps(h, h2, Item \ W, Item \ W)
<1>1. Deleted(h, i) = W
  BY DeletedFacts, OneBranch
<1>2. Shaped(h2, ho2)
  BY <1>1, DeleteShaped DEF Dropped
<1>3. Keeps(h, h2, Item \ W, Item \ W)
  BY <1>1, DeleteKeeps
<1>4. QED
  BY <1>2, <1>3

LEMMA DropAcyclic ==
  ASSUME NEW ho, Acyclic(ho), NEW W, NEW ho2, Dropped(ho, ho2, W) PROVE Acyclic(ho2)
<1>1. \A x \in Item : ho2[x] \in {ho[x], NULL}
  BY DEF Dropped
<1>2. QED
  BY <1>1, AcyclicLess

LEMMA DropEmpties ==
  ASSUME NEW h, NEW ho, Shaped(h, ho), Acyclic(ho), NEW i \in Item, ho[i] = NULL,
         NEW W, Branch(ho, i, W), NEW ho2, Dropped(ho, ho2, W)
  PROVE  \A j \in W : ho2[j] = NULL /\ Delete(h, i)[j].type = "free"
<1>1. Deleted(h, i) = W
  BY DeletedFacts, OneBranch
<1>2. QED
  BY <1>1 DEF Delete, Blank, Branch, Dropped

LEMMA GoneOrderly ==
  ASSUME Inv, NEW i \in Item, NEW h, Keeps(cell, h, Item \ {i}, Item),
         Keeps(h, cell', Item \ Whole(i), Item \ Whole(i)),
         \A j \in Whole(i) : holder'[j] = NULL /\ cell'[j].type = "free"
  PROVE  Orderly
<1>1. Whole(i) \in SUBSET Item /\ i \in Whole(i)
  BY MemoryFacts
<1>2. Keeps(cell, cell', (Item \ {i}) \cap (Item \ Whole(i)), Item \cap (Item \ Whole(i)))
  BY KeepsBoth
<1>3. /\ \A j \in Item \ ((Item \ {i}) \cap (Item \ Whole(i))) : holder[j] = NULL \/ holder'[j] # holder[j]
      /\ \A j \in Item \ (Item \cap (Item \ Whole(i))) : cell'[j].type = "free"
  BY <1>1
<1>4. QED
  BY <1>2, <1>3 DEF Orderly

LEMMA DeleteFromShape ==
  ASSUME Inv, NEW p \in Item, NEW type \in Container, NEW i \in Item, holder[i] = p,
         DeleteFrom(p, type, i)
  PROVE  Inv' /\ Orderly
<1> DEFINE h1 == DetachItemViaPointer(cell, p, i)
           ho1 == [holder EXCEPT ![i] = NULL]
           W == Whole(i)
<1>1. /\ cell' = Delete(h1, i) /\ holder' = Forget(W) /\ Unseen(W)
      /\ MayEmpty(cell, holder, p, i)
  BY OutFacts DEF DeleteFrom
<1>2. Shaped(h1, ho1) /\ Emptied(cell, h1, p, i) /\ Keeps(cell, h1, Item \ {i}, Item)
  BY <1>1, MemoryFacts, DetachShaped, DetachEmpties
<1>3. /\ ho1[i] = NULL /\ \A x \in Item : x # i => ho1[x] = holder[x]
      /\ NULL \notin Item /\ Branch(holder, i, W) /\ W \in SUBSET Item /\ Acyclic(holder)
  BY MemoryFacts
<1>4. \A x \in Item : h1[x].ref = cell[x].ref /\ (cell[x].ref => h1[x].child = cell[x].child)
  BY <1>1, <1>2 DEF Emptied, MayEmpty, Owns
<1> HIDE DEF h1, ho1, W
<1>5. Acyclic(ho1)
  BY <1>3, AcyclicLess
<1>6. Branch(ho1, i, W)
  BY <1>3 DEF Branch
<1>7. \A r \in Item \ W : h1[r].ref => h1[r].child \notin W
  BY <1>1, <1>4 DEF Unseen, References
<1>8. Dropped(ho1, holder', W)
  BY <1>1, <1>3 DEF Forget, Branch, Dropped
<1>9. /\ Shaped(cell', holder') /\ Acyclic(holder') /\ Keeps(h1, cell', Item \ W, Item \ W)
      /\ \A j \in W : holder'[j] = NULL /\ cell'[j].type = "free"
  <2>1. i \in Item /\ ho1[i] = NULL /\ Shaped(h1, ho1) /\ cell' = Delete(h1, i)
    BY <1>1, <1>2, <1>3
  <2>2. Shaped(cell', holder') /\ Keeps(h1, cell', Item \ W, Item \ W)
    BY ONLY <1>5, <1>6, <1>7, <1>8, <2>1, DropShaped
  <2>3. Acyclic(holder')
    BY <1>5, <1>8, DropAcyclic
  <2>4. \A j \in W : holder'[j] = NULL /\ Delete(h1, i)[j].type = "free"
    BY ONLY <1>5, <1>6, <1>8, <2>1, DropEmpties
  <2>5. QED
    BY <2>1, <2>2, <2>3, <2>4
<1>10. Orderly
  BY <1>2, <1>9, GoneOrderly DEF W
<1>11. QED
  BY <1>9, <1>10 DEF Inv

LEMMA DeleteRootShape == ASSUME Inv, NEW i \in Item, DeleteRoot(i) PROVE Inv' /\ Orderly
<1>1. /\ cell' = Delete(cell, i) /\ holder' = Forget(Whole(i)) /\ Unseen(Whole(i))
      /\ holder[i] = NULL
  BY DEF DeleteRoot, Root
<1>2. \A r \in Item \ Whole(i) : cell[r].ref => cell[r].child \notin Whole(i)
  BY <1>1 DEF Unseen, References
<1>3. /\ Shaped(cell', holder') /\ Acyclic(holder')
      /\ Keeps(cell, cell', Item \ Whole(i), Item \ Whole(i))
      /\ \A j \in Whole(i) : holder'[j] = NULL /\ cell'[j].type = "free"
  <2>1. Shaped(cell, holder) /\ Acyclic(holder) /\ Branch(holder, i, Whole(i))
    BY MemoryFacts
  <2>2. Dropped(holder, holder', Whole(i))
    BY <1>1 DEF Forget, Dropped
  <2>3. Shaped(cell', holder') /\ Keeps(cell, cell', Item \ Whole(i), Item \ Whole(i))
    BY <1>1, <1>2, <2>1, <2>2, DropShaped
  <2>4. Acyclic(holder')
    BY <2>1, <2>2, DropAcyclic
  <2>5. \A j \in Whole(i) : holder'[j] = NULL /\ Delete(cell, i)[j].type = "free"
    BY <1>1, <2>1, <2>2, DropEmpties
  <2>6. QED
    BY <1>1, <2>3, <2>4, <2>5
<1>4. Orderly
  <2>1. Keeps(cell, cell, Item \ {i}, Item)
    BY DEF Keeps
  <2>2. QED
    BY <1>3, <2>1, GoneOrderly
<1>5. QED
  BY <1>3, <1>4 DEF Inv

LEMMA ReplaceShape ==
  ASSUME Inv, NEW type \in Container, NEW p \in Item, NEW i \in Item, holder[i] = p,
         NEW r \in Item, MayTake(p, type, r),
         NEW h, Shaped(h, holder), MayFill(h, holder, p, r),
         \A x \in Item : /\ h[x].ref = cell[x].ref /\ h[x].child = cell[x].child
                         /\ h[x].type = cell[x].type,
         Keeps(cell, h, Item, Item), Replace(h, p, i, r)
  PROVE  Inv' /\ Orderly
<1> DEFINE h1 == DetachItemViaPointer(h, p, i)
           ho1 == [holder EXCEPT ![i] = NULL]
           h2 == ReplaceItemViaPointer(h, p, i, r)
           ho2 == [ho1 EXCEPT ![r] = p]
           W == Whole(i)
<1>1. /\ cell' = Delete(h2, i) /\ holder' = [Forget(W) EXCEPT ![r] = p] /\ Unseen(W)
  BY DEF Replace
<1>2. MayEmpty(h, holder, p, i)
  BY OutFacts DEF MayTake, MayEmpty, Owns
<1>3. Shaped(h1, ho1) /\ Emptied(h, h1, p, i) /\ Keeps(h, h1, Item \ {i}, Item)
  BY <1>2, DetachShaped, DetachEmpties
<1>4. /\ NULL \notin Item /\ Branch(holder, i, W) /\ W \in SUBSET Item /\ Acyclic(holder)
      /\ holder \in [Item -> Pointer] /\ r # i /\ p # r /\ holder[r] = NULL /\ p # NULL
      /\ Branch(holder, r, Whole(r)) /\ p \notin Whole(r)
  <2>1. holder[r] = NULL /\ p # r
    BY TakeFacts
  <2>2. p \notin Whole(r)
    BY DEF MayTake
  <2>3. QED
    BY <2>1, <2>2, MemoryFacts
<1>5. /\ ho1[i] = NULL /\ ho1[r] = NULL /\ \A x \in Item : x # i => ho1[x] = holder[x]
      /\ ho1 \in [Item -> Pointer]
  BY <1>4 DEF Pointer
<1>6. MayFill(h1, ho1, p, r)
  BY <1>3, <1>4, <1>5 DEF MayFill, Emptied, Owns
<1>7. PICK before, after, last : /\ Gap(h1, ho1, p, before, after, last, r)
                                 /\ Filled(h1, h2, p, before, after, last, r)
  BY <1>2, <1>3, ReplaceFills
<1>8. Shaped(h2, ho2) /\ Keeps(h1, h2, Item, Item)
  <2> HIDE DEF h1, ho1, h2
  <2>1. QED
    BY <1>3, <1>6, <1>7, FilledShaped, FilledKeeps
<1> HIDE DEF h1, ho1, h2, W
<1>9. /\ ho2[i] = NULL /\ ho2[r] = p /\ \A x \in Item : x # i /\ x # r => ho2[x] = holder[x]
  BY <1>4, <1>5
<1>10. Acyclic(ho2)
  <2>1. Branch(ho1, r, Whole(r))
    BY <1>4, <1>5 DEF Branch
  <2>2. Acyclic(ho1)
    BY <1>4, <1>5, AcyclicLess
  <2>3. QED
    BY <1>4, <1>5, <2>1, <2>2, AcyclicMore
<1> HIDE DEF ho2
<1>11. p \notin W /\ r \notin W
  BY <1>4 DEF Branch, Acyclic
<1>12. Branch(ho2, i, W)
  BY <1>4, <1>9, <1>11 DEF Branch
<1>13. \A x \in Item \ W : h2[x].ref => h2[x].child \notin W
  <2>1. \A x \in Item : h2[x].ref = cell[x].ref /\ (cell[x].ref => h2[x].child = cell[x].child)
    BY <1>2, <1>3, <1>7 DEF Emptied, Filled, MayEmpty, Owns
  <2>2. QED
    BY <1>1, <2>1 DEF Unseen, References
<1>14. Dropped(ho2, holder', W)
  <2>1. i \in W
    BY <1>4 DEF Branch
  <2>2. QED
    BY <1>1, <1>9, <1>11, <2>1 DEF Forget, Dropped
<1>15. /\ Shaped(Delete(h2, i), holder') /\ Acyclic(holder')
       /\ Keeps(h2, Delete(h2, i), Item \ W, Item \ W)
       /\ \A j \in W : holder'[j] = NULL /\ Delete(h2, i)[j].type = "free"
  <2>1. i \in Item /\ ho2[i] = NULL /\ Shaped(h2, ho2)
    BY <1>8, <1>9
  <2>2. Shaped(Delete(h2, i), holder') /\ Keeps(h2, Delete(h2, i), Item \ W, Item \ W)
    BY ONLY <1>10, <1>12, <1>13, <1>14, <2>1, DropShaped
  <2>3. Acyclic(holder')
    BY <1>10, <1>14, DropAcyclic
  <2>4. \A j \in W : holder'[j] = NULL /\ Delete(h2, i)[j].type = "free"
    BY ONLY <1>10, <1>12, <1>14, <2>1, DropEmpties
  <2>5. QED
    BY <2>2, <2>3, <2>4
<1>16. Orderly
  <2>1. Keeps(cell, h2, Item \ {i}, Item)
    <3>1. Keeps(cell, h1, Item \cap (Item \ {i}), Item \cap Item)
      BY <1>3, KeepsBoth
    <3>2. Keeps(cell, h2, (Item \cap (Item \ {i})) \cap Item, (Item \cap Item) \cap Item)
      BY <1>8, <3>1, KeepsBoth
    <3>3. QED
      BY <3>2 DEF Keeps
  <2>2. QED
    BY <1>1, <1>15, <2>1, GoneOrderly DEF W
<1>17. QED
  BY <1>1, <1>15, <1>16 DEF Inv

LEMMA ReplaceInArrayShape ==
  ASSUME Inv, NEW a \in Item, NEW which \in Nat, NEW r \in Item, ReplaceInArray(a, which, r)
  PROVE  Inv' /\ Orderly
<1> DEFINE i == GetArrayItem(cell, a, which)
<1>1. MayTake(a, "array", r) /\ Replace(cell, a, i, r) /\ i # NULL /\ "array" \in Container
  BY DEF ReplaceInArray, Replace, Container
<1>2. /\ holder[r] = NULL /\ a # r /\ cell[r].type # "free" /\ Owns(cell, a)
      /\ cell[a].type = "array"
  BY <1>1, TakeFacts
<1>3. Shaped(cell, holder) /\ MayFill(cell, holder, a, r)
  BY <1>2, MemoryFacts DEF MayFill
<1>4. i \in Item /\ holder[i] = a
  BY <1>1, <1>2, <1>3, GetArrayItemFacts
<1>5. Keeps(cell, cell, Item, Item)
  BY DEF Keeps
<1> HIDE DEF i
<1>6. QED
  BY <1>1, <1>3, <1>4, <1>5, ReplaceShape

LEMMA ReplaceInObjectShape ==
  ASSUME Inv, NEW o \in Item, NEW key \in Key, NEW r \in Item, NEW exact,
         ReplaceInObject(o, key, r, exact)
  PROVE  Inv' /\ Orderly
<1> DEFINE renamed == [cell EXCEPT ![r].string = key]
           i == GetObjectItem(renamed, o, key, exact)
<1>1. /\ MayTake(o, "object", r) /\ "object" \in Container
      /\ \/ Replace(renamed, o, i, r)
         \/ i = NULL /\ cell' = renamed /\ UNCHANGED holder
  BY DEF ReplaceInObject, Container
<1>2. /\ Shaped(renamed, holder) /\ MayFill(renamed, holder, o, r)
      /\ Keeps(cell, renamed, Item, Item)
  <2>1. holder[r] = NULL /\ o # r /\ cell[r].type # "free" /\ Owns(cell, o)
    BY <1>1, TakeFacts
  <2>2. Shaped(cell, holder)
    BY MemoryFacts
  <2>3. QED
    BY <2>1, <2>2, KeyedShaped
<1>3. \A x \in Item : /\ renamed[x].ref = cell[x].ref /\ renamed[x].child = cell[x].child
                      /\ renamed[x].type = cell[x].type
  BY MemoryFacts DEF Cell
<1> HIDE DEF renamed
<1>4. CASE Replace(renamed, o, i, r)
  <2>1. i # NULL
    BY <1>4 DEF Replace
  <2>2. i \in Item /\ holder[i] = o
    BY <1>2, <2>1, GetObjectItemFacts DEF MayFill
  <2> HIDE DEF i
  <2>3. QED
    BY <1>1, <1>2, <1>3, <1>4, <2>2, ReplaceShape
<1>5. CASE i = NULL /\ cell' = renamed /\ UNCHANGED holder
  BY <1>2, <1>5, MemoryFacts, AllKeep DEF Inv
<1>6. QED
  BY <1>1, <1>4, <1>5

LEMMA CreateWithItemsShape == ASSUME Inv, CreateWithItems PROVE Inv' /\ Orderly
<1>1. PICK n \in 1 .. MaxList, type \in Container, filled \in BOOLEAN :
      \E leaf \in [1..n -> Leaf],
         string \in [1..n -> IF type = "object" THEN Key ELSE {NULL}] :
        LET new == Allocated(0..n)
            a == new[0]
            items == [m \in 1..n |-> new[m]]
            made == [j \in Item |->
                       IF j = a THEN [Blank EXCEPT !.type = type]
                       ELSE IF j \notin Range(items) THEN cell[j]
                       ELSE LET m == CHOOSE x \in 1..n : items[x] = j IN
                            [Blank EXCEPT !.type = leaf[m], !.string = string[m]]]
        IN  /\ CanAllocate(0..n) /\ (filled => type = "array")
            /\ cell' = IF filled THEN FilledList(made, a, items)
                       ELSE ParsedList(made, a, items)
            /\ holder' = [j \in Item |-> IF j \in Range(items) THEN a ELSE holder[j]]
  BY Zenon DEF CreateWithItems
<1>2. PICK leaf \in [1..n -> Leaf],
           string \in [1..n -> IF type = "object" THEN Key ELSE {NULL}] :
        LET new == Allocated(0..n)
            a == new[0]
            items == [m \in 1..n |-> new[m]]
            made == [j \in Item |->
                       IF j = a THEN [Blank EXCEPT !.type = type]
                       ELSE IF j \notin Range(items) THEN cell[j]
                       ELSE LET m == CHOOSE x \in 1..n : items[x] = j IN
                            [Blank EXCEPT !.type = leaf[m], !.string = string[m]]]
        IN  /\ CanAllocate(0..n) /\ (filled => type = "array")
            /\ cell' = IF filled THEN FilledList(made, a, items)
                       ELSE ParsedList(made, a, items)
            /\ holder' = [j \in Item |-> IF j \in Range(items) THEN a ELSE holder[j]]
  BY <1>1, Zenon
<1> DEFINE new == Allocated(0..n)
           a == new[0]
           w == [m \in 1..n |-> new[m]]
           at(j) == CHOOSE x \in 1..n : w[x] = j
           place(j) == CHOOSE m \in DOMAIN w : w[m] = j
           made == [j \in Item |->
                      IF j = a THEN [Blank EXCEPT !.type = type]
                      ELSE IF j \notin Range(w) THEN cell[j]
                      ELSE [Blank EXCEPT !.type = leaf[at(j)], !.string = string[at(j)]]]
           parsed == ParsedList(made, a, w)
<1>3. /\ CanAllocate(0 .. n)
      /\ cell' = IF filled THEN [parsed EXCEPT ![w[1]].prev = NULL] ELSE parsed
      /\ holder' = [j \in Item |-> IF j \in Range(w) THEN a ELSE holder[j]]
  BY <1>2, Zenon DEF FilledList
<1>4. n \in Nat \ {0} /\ 0 \in 0 .. n /\ 1 .. n \subseteq 0 .. n /\ IsFiniteSet(0 .. n)
  BY BoundsAreNumbers, FS_Interval
<1>5. new \in [0 .. n -> Free] /\ \A x, y \in 0 .. n : new[x] = new[y] => x = y
  BY <1>3, <1>4, AllocatedFacts
<1> HIDE DEF new
<1>6. /\ a \in Item /\ cell[a].type = "free" /\ w \in [1 .. n -> Item]
      /\ \A m \in 1 .. n : w[m] \in Item /\ cell[w[m]].type = "free" /\ w[m] # a
      /\ \A m, k \in 1 .. n : w[m] = w[k] => m = k
  BY <1>4, <1>5 DEF Free
<1>7. /\ w \in Seq(Item) /\ Len(w) = n /\ DOMAIN w = 1 .. n
      /\ \A j : j \in Range(w) <=> \E m \in 1 .. n : j = w[m]
  BY <1>4, <1>6 DEF Range
<1>8. \A m \in 1 .. n : at(w[m]) = m /\ place(w[m]) = m
  BY <1>6
<1> HIDE DEF a, w
<1>9. ASSUME NEW j \in Item
      PROVE  parsed[j] = IF j = a THEN [made[j] EXCEPT !.child = w[1]]
                         ELSE IF j \notin Range(w) THEN made[j]
                         ELSE [made[j] EXCEPT
                                 !.next = IF place(j) = Len(w) THEN NULL ELSE w[place(j) + 1],
                                 !.prev = IF place(j) = 1 THEN w[Len(w)] ELSE w[place(j) - 1]]
  <2> HIDE DEF made
  <2>1. QED
    BY DEF ParsedList
<1>10. parsed = [j \in Item |-> parsed[j]]
  BY DEF ParsedList
<1> HIDE DEF parsed
<1>11. /\ made[a] = [Blank EXCEPT !.type = type]
       /\ \A m \in 1 .. n : made[w[m]] = [Blank EXCEPT !.type = leaf[m], !.string = string[m]]
       /\ \A j \in Item : j # a /\ j \notin Range(w) => made[j] = cell[j]
  <2>1. ASSUME NEW m \in 1 .. n
        PROVE  made[w[m]] = [Blank EXCEPT !.type = leaf[m], !.string = string[m]]
    <3>1. w[m] \in Item /\ w[m] # a /\ w[m] \in Range(w) /\ at(w[m]) = m
      BY <1>6, <1>7, <1>8
    <3> HIDE DEF at
    <3>2. QED
      BY <3>1
  <2> HIDE DEF at
  <2>2. QED
    BY <1>6, <2>1
<1> HIDE DEF made
<1>12. parsed[a] = [Blank EXCEPT !.type = type, !.child = w[1]]
  BY <1>6, <1>9, <1>11
<1>13. ASSUME NEW m \in 1 .. n
       PROVE  parsed[w[m]] = [Blank EXCEPT !.type = leaf[m], !.string = string[m],
                                !.next = IF m = n THEN NULL ELSE w[m + 1],
                                !.prev = IF m = 1 THEN w[n] ELSE w[m - 1]]
  <2>1. /\ w[m] \in Item /\ w[m] # a /\ w[m] \in Range(w) /\ place(w[m]) = m
        /\ Len(w) = n /\ made[w[m]] = [Blank EXCEPT !.type = leaf[m], !.string = string[m]]
    BY <1>6, <1>7, <1>8, <1>11
  <2> HIDE DEF place
  <2>2. parsed[w[m]] = [made[w[m]] EXCEPT
                          !.next = IF m = n THEN NULL ELSE w[m + 1],
                          !.prev = IF m = 1 THEN w[n] ELSE w[m - 1]]
    BY <1>9, <2>1
  <2>3. QED
    BY <2>1, <2>2
<1>14. \A j \in Item : j # a /\ j \notin Range(w) => parsed[j] = cell[j]
  BY <1>9, <1>11
<1>15. /\ \A m \in 1 .. n : parsed[w[m]] \in Cell
       /\ \A m \in 1 .. n :
            /\ parsed[w[m]].type # "free" /\ (type = "object" => parsed[w[m]].string # NULL)
            /\ parsed[w[m]].child = NULL
            /\ parsed[w[m]].next = IF m = n THEN NULL ELSE w[m + 1]
            /\ parsed[w[m]].prev = IF m = 1 THEN w[n] ELSE w[m - 1]
  <2> SUFFICES ASSUME NEW m \in 1 .. n
               PROVE  /\ parsed[w[m]] \in Cell
                      /\ parsed[w[m]].type # "free" /\ (type = "object" => parsed[w[m]].string # NULL)
                      /\ parsed[w[m]].child = NULL
                      /\ parsed[w[m]].next = IF m = n THEN NULL ELSE w[m + 1]
                      /\ parsed[w[m]].prev = IF m = 1 THEN w[n] ELSE w[m - 1]
    OBVIOUS
  <2> DEFINE next == IF m = n THEN NULL ELSE w[m + 1]
             prev == IF m = 1 THEN w[n] ELSE w[m - 1]
  <2>1. next \in Pointer /\ prev \in Pointer
    <3>1. m # n => m + 1 \in 1 .. n
      BY <1>4
    <3>2. m # 1 => m - 1 \in 1 .. n
      BY <1>4
    <3>3. n \in 1 .. n
      BY <1>4
    <3>4. QED
      BY <1>6, <3>1, <3>2, <3>3 DEF Pointer
  <2>2. /\ leaf[m] \in Leaf /\ leaf[m] # "free" /\ string[m] \in Key \cup {NULL}
        /\ (type = "object" => string[m] # NULL)
    BY LeavesAreTyped, ItemsAreFinite
  <2>3. parsed[w[m]] = [Blank EXCEPT !.type = leaf[m], !.string = string[m],
                                     !.next = next, !.prev = prev]
    BY <1>13
  <2> HIDE DEF next, prev
  <2>4. /\ parsed[w[m]] \in Cell
        /\ parsed[w[m]].type = leaf[m] /\ parsed[w[m]].string = string[m]
        /\ parsed[w[m]].child = NULL /\ parsed[w[m]].next = next /\ parsed[w[m]].prev = prev
    BY <2>1, <2>2, <2>3 DEF Blank, Cell, Type, Pointer
  <2>5. QED
    BY <2>2, <2>4 DEF next, prev
<1>16. /\ parsed[a] \in Cell /\ parsed[a].type = type /\ ~parsed[a].ref
       /\ parsed[a].child = w[1] /\ Single(parsed, a)
  <2>1. w[1] \in Pointer /\ type \in Type
    BY <1>4, <1>6 DEF Pointer, Type
  <2>2. QED
    BY <1>12, <2>1 DEF Blank, Cell, Pointer, Single
<1>17. parsed \in [Item -> Cell]
  <2>1. ASSUME NEW j \in Item PROVE parsed[j] \in Cell
    <3>1. CASE j \in Range(w)
      BY <1>7, <1>15, <3>1
    <3>2. CASE j \notin Range(w) /\ j # a
      <4>1. cell[j] \in Cell
        BY MemoryFacts
      <4>2. QED
        BY <1>14, <3>2, <4>1
    <3>3. QED
      BY <1>16, <3>1, <3>2
  <2>2. QED
    BY <1>10, <2>1
<1>18. Listed(cell, cell', a, w, n)
  <2>1. w[1] \in Item /\ NULL \in Pointer /\ w[1] # a /\ 1 \in 1 .. n
    BY <1>4, <1>6 DEF Pointer
  <2>2. cell' \in [Item -> Cell]
    BY <1>3, <1>17, <2>1, WritesAreCells
  <2>3. \A j \in Item :
          /\ cell'[j].type = parsed[j].type /\ cell'[j].ref = parsed[j].ref
          /\ cell'[j].string = parsed[j].string /\ cell'[j].child = parsed[j].child
          /\ cell'[j].next = parsed[j].next
          /\ j # w[1] => cell'[j] = parsed[j]
          /\ j = w[1] => cell'[j].prev \in {parsed[j].prev, NULL}
    BY <1>3, <1>17, <2>1 DEF Cell
  <2>4. ASSUME NEW m \in 1 .. n
        PROVE  /\ cell'[w[m]].type # "free" /\ (cell'[a].type = "object" => cell'[w[m]].string # NULL)
               /\ cell'[w[m]].child = NULL
               /\ cell'[w[m]].next = IF m = n THEN NULL ELSE w[m + 1]
               /\ IF m = 1 THEN cell'[w[m]].prev \in {w[n], NULL} ELSE cell'[w[m]].prev = w[m - 1]
    <3>1. w[m] \in Item /\ (m # 1 => w[m] # w[1])
      BY <1>6, <2>1
    <3>2. /\ cell'[w[m]].type = parsed[w[m]].type /\ cell'[w[m]].string = parsed[w[m]].string
          /\ cell'[w[m]].child = parsed[w[m]].child /\ cell'[w[m]].next = parsed[w[m]].next
          /\ cell'[a].type = type
      BY <1>6, <1>16, <2>3, <3>1
    <3>3. IF m = 1 THEN cell'[w[m]].prev \in {w[n], NULL} ELSE cell'[w[m]].prev = w[m - 1]
      <4>1. CASE m = 1
        <5>1. cell'[w[m]].prev \in {parsed[w[m]].prev, NULL} /\ parsed[w[m]].prev = w[n]
          BY <1>15, <2>3, <3>1, <4>1
        <5>2. QED
          BY <4>1, <5>1
      <4>2. CASE m # 1
        <5>1. cell'[w[m]] = parsed[w[m]] /\ parsed[w[m]].prev = w[m - 1]
          BY <1>15, <2>3, <3>1, <4>2
        <5>2. QED
          BY <4>2, <5>1
      <4>3. QED
        BY <4>1, <4>2
    <3>4. QED
      BY <1>15, <3>2, <3>3
  <2>5. /\ cell'[a].type \in Container /\ ~cell'[a].ref /\ cell'[a].child = w[1]
        /\ Single(cell', a)
    BY <1>6, <1>16, <2>1, <2>3 DEF Single
  <2>6. \A x \in Item : x # a /\ (\A m \in 1 .. n : x # w[m]) => cell'[x] = cell[x]
    BY <1>7, <1>14, <2>1, <2>3
  <2>7. QED
    BY <2>2, <2>4, <2>5, <2>6 DEF Listed
<1>19. /\ holder' \in [Item -> Pointer]
       /\ \A x \in Item : holder'[x] = IF \E m \in 1 .. n : x = w[m] THEN a ELSE holder[x]
  BY <1>3, <1>6, <1>7, MemoryFacts DEF Pointer
<1>20. Shaped(cell', holder') /\ (Acyclic(holder) => Acyclic(holder'))
  <2>1. Shaped(cell, holder)
    BY MemoryFacts
  <2>2. /\ a \in Item /\ cell[a].type = "free" /\ n \in Nat \ {0} /\ w \in [1 .. n -> Item]
        /\ \A m \in 1 .. n : cell[w[m]].type = "free" /\ w[m] # a
        /\ \A m, k \in 1 .. n : w[m] = w[k] => m = k
    BY <1>4, <1>6
  <2>3. NewList(cell, holder, cell', holder', a, w, n)
    BY <1>18, <1>19, <2>2 DEF NewList
  <2> HIDE DEF Inv, at, place
  <2>4. QED
    BY <2>1, <2>3, ListedShaped
<1>21. Keeps(cell, cell', Item, Item)
  <2>1. \A x \in Item : cell[x].type # "free" => cell'[x] = cell[x]
    BY <1>6, <1>18 DEF Listed
  <2>2. QED
    BY <2>1, MemoryFacts, SameKeeps
<1>22. QED
  BY <1>20, <1>21, MemoryFacts, AllKeep DEF Inv

\* The owners ho2 after the branch C of i was copied, as DuplicateShaped wants them.
CopiedOwners(h, ho, i, C, copy, ho2) ==
  /\ i \in Item /\ h[i].type # "free" /\ Branch(ho, i, C) /\ \A x \in C : ~h[x].ref
  /\ copy \in [C -> Item] /\ \A x \in C : h[copy[x]].type = "free"
  /\ \A x, y \in C : copy[x] = copy[y] => x = y
  /\ ho2 \in [Item -> Pointer]
  /\ \A x \in C : ho2[copy[x]] = IF x = i THEN NULL ELSE copy[ho[x]]
  /\ \A y \in Item : (\A x \in C : y # copy[x]) => ho2[y] = ho[y]

LEMMA DuplicateOwners ==
  ASSUME NEW h, NEW ho, Shaped(h, ho), Acyclic(ho), NEW i, NEW C, NEW copy, NEW ho2,
         CopiedOwners(h, ho, i, C, copy, ho2)
  PROVE  Shaped(Duplicate(h, i, copy), ho2) /\ Acyclic(ho2)
BY DuplicateShaped DEF CopiedOwners

LEMMA DuplicateItemShape ==
  ASSUME Inv, NEW i \in Item, NEW recurse \in BOOLEAN, DuplicateItem(i, recurse)
  PROVE  Inv' /\ Orderly
<1> DEFINE C == IF recurse THEN Whole(i) ELSE {i}
           copy == Allocated(C)
           old(j) == CHOOSE x \in C : copy[x] = j
<1>1. /\ cell[i].type # "free" /\ Whole(i) \cap References = {} /\ CanAllocate(C)
      /\ cell' = Duplicate(cell, i, copy)
      /\ holder' = [j \in Item |->
                      IF j \notin Range(copy) THEN holder[j]
                      ELSE IF old(j) = i THEN NULL ELSE copy[holder[old(j)]]]
  BY DEF DuplicateItem
<1>2. /\ C \in SUBSET Item /\ IsFiniteSet(C) /\ i \in C /\ \A x \in C : ~cell[x].ref
      /\ (recurse => Branch(holder, i, C)) /\ (~recurse => C = {i})
      /\ NULL \notin Item /\ holder[i] # i
  <2>1. C \in SUBSET Item /\ i \in C
    BY MemoryFacts
  <2>2. IsFiniteSet(C)
    BY <2>1, ItemsAreFinite, FS_Subset
  <2>3. \A x \in C : x \in Whole(i)
    BY MemoryFacts
  <2>4. holder[i] # i
    <3>1. Acyclic(holder) /\ {i} \in SUBSET Item /\ {i} # {}
      BY MemoryFacts
    <3>2. ~ \A j \in {i} : holder[j] \in {i}
      BY <3>1 DEF Acyclic
    <3>3. QED
      BY <3>2
  <2>5. QED
    BY <1>1, <2>1, <2>2, <2>3, <2>4, MemoryFacts DEF References
<1>3. copy \in [C -> Free] /\ \A x, y \in C : copy[x] = copy[y] => x = y
  BY <1>1, <1>2, AllocatedFacts
<1> HIDE DEF C, copy
<1>4. /\ copy \in [C -> Item] /\ \A x \in C : cell[copy[x]].type = "free" /\ old(copy[x]) = x
      /\ DOMAIN copy = C /\ \A j : j \in Range(copy) <=> \E x \in C : j = copy[x]
  BY <1>3 DEF Free, Range
<1> HIDE DEF old
<1>5. /\ \A x \in C : holder'[copy[x]] = IF x = i THEN NULL ELSE copy[holder[x]]
      /\ \A y \in Item : (\A x \in C : y # copy[x]) => holder'[y] = holder[y]
  BY <1>1, <1>4
<1>6. Keeps(cell, cell', Item, Item)
  <2>1. Copied(cell, cell', i, C, copy)
    BY <1>1, <1>2, <1>3, <1>4, MemoryFacts, DuplicateCopies DEF Copies
  <2>2. \A x \in Item : cell[x].type # "free" => cell'[x] = cell[x]
    BY <1>4, <2>1 DEF Copied
  <2>3. QED
    BY <2>2, MemoryFacts, SameKeeps
<1>7. CASE recurse
  <2>1. \A x \in C : x # i => holder[x] \in C
    BY <1>2, <1>7 DEF Branch
  <2>2. ASSUME NEW y \in Item PROVE holder'[y] \in Pointer
    <3>1. CASE \E x \in C : y = copy[x]
      BY <1>4, <1>5, <2>1, <3>1 DEF Pointer
    <3>2. CASE ~ \E x \in C : y = copy[x]
      BY <1>5, <3>2, MemoryFacts
    <3>3. QED
      BY <3>1, <3>2
  <2>3. holder' \in [Item -> Pointer]
    <3>1. holder' = [y \in Item |-> holder'[y]]
      BY <1>1
    <3>2. QED
      BY <2>2, <3>1
  <2>4. Shaped(cell, holder) /\ Acyclic(holder)
    BY MemoryFacts
  <2>5. Shaped(Duplicate(cell, i, copy), holder') /\ Acyclic(holder')
    <3>1. /\ i \in Item /\ cell[i].type # "free" /\ Branch(holder, i, C) /\ \A x \in C : ~cell[x].ref
          /\ \A x, y \in C : copy[x] = copy[y] => x = y
      BY <1>1, <1>2, <1>3, <1>7
    <3>2. /\ copy \in [C -> Item] /\ \A x \in C : cell[copy[x]].type = "free"
      BY <1>4
    <3>3. CopiedOwners(cell, holder, i, C, copy, holder')
      BY <3>1, <3>2, <1>5, <2>3 DEF CopiedOwners
    <3>4. QED
      BY <2>4, <3>3, DuplicateOwners
  <2>6. QED
    BY <1>1, <1>6, <2>5, AllKeep DEF Inv
<1>8. CASE ~recurse
  <2> DEFINE y == copy[i]
             c == [cell[i] EXCEPT !.ref = FALSE, !.child = NULL, !.next = NULL, !.prev = NULL]
  <2>1. C = {i} /\ y \in Item /\ cell[y].type = "free" /\ cell[i] \in Cell
        /\ \A j : j \in Range(copy) <=> j = y
    BY <1>2, <1>4, <1>8, MemoryFacts
  <2>2. cell[i].child # i
    BY <1>2, MemoryFacts, ShapeFacts DEF Begins
  <2>3. cell' = [cell EXCEPT ![y] = c]
    <3> DEFINE to(j) == IF j \in DOMAIN copy THEN copy[j] ELSE NULL
               first(j) == \E p \in DOMAIN copy : cell[p].child = j
               was(j) == CHOOSE x \in DOMAIN copy : copy[x] = j
               new(x) == [cell[x] EXCEPT !.ref = FALSE,
                               !.child = to(cell[x].child),
                               !.next = IF x = i THEN NULL ELSE to(cell[x].next),
                               !.prev = IF x = i \/ first(x) THEN NULL
                                        ELSE to(cell[x].prev)]
    <3>1. cell' = [j \in Item |-> IF j \in Range(copy) THEN new(was(j)) ELSE cell[j]]
      BY <1>1 DEF Duplicate
    <3>2. was(y) = i
      BY <1>4, <2>1
    <3>3. to(cell[i].child) = NULL
      BY <1>4, <2>1, <2>2
    <3> HIDE DEF was, to, first
    <3>4. new(i) = c
      BY <3>3
    <3> HIDE DEF new, c, y
    <3>5. \A j \in Item : cell'[j] = IF j = y THEN c ELSE cell[j]
      BY <2>1, <3>1, <3>2, <3>4
    <3>6. DOMAIN cell = Item /\ cell = [j \in Item |-> cell[j]]
      BY MemoryFacts
    <3>7. cell' = [j \in Item |-> cell'[j]]
      BY <3>1
    <3>8. QED
      BY <2>1, <3>5, <3>6, <3>7
  <2>4. holder' = holder
    <3>1. \A j \in Item : holder'[j] = holder[j]
      BY <1>2, <1>5, <2>1, MemoryFacts DEF Free
    <3>2. holder' = [j \in Item |-> holder'[j]]
      BY <1>1
    <3>3. QED
      BY <3>1, <3>2, MemoryFacts
  <2>5. /\ c \in Cell /\ c.type # "free" /\ c.next = NULL /\ c.prev = NULL /\ c.child = NULL
    BY <1>1, <2>1 DEF Cell, Pointer
  <2> HIDE DEF c, y
  <2>6. Shaped(cell, holder)
    BY MemoryFacts
  <2>7. Shaped([cell EXCEPT ![y] = c], holder)
    BY <2>1, <2>5, <2>6, MakeShaped
  <2>8. QED
    BY <1>6, <2>3, <2>4, <2>7, AllKeep DEF Inv
<1>9. QED
  BY <1>7, <1>8

-------------------------------------------------------------------------------
(* The calls that look their item up first, and the theorem.               *)

LEMMA LookupInArray ==
  ASSUME Inv, NEW a \in Item, NEW which \in 0 .. MaxIndex, Owner(a, "array"),
         GetArrayItem(cell, a, which) # NULL
  PROVE  /\ GetArrayItem(cell, a, which) \in Item /\ holder[GetArrayItem(cell, a, which)] = a
         /\ "array" \in Container
<1>1. which \in Nat
  BY BoundsAreNumbers
<1>2. Shaped(cell, holder) /\ Owns(cell, a) /\ "array" \in Container
  BY MemoryFacts DEF Owner, IsA, Owns, Container
<1>3. QED
  BY <1>1, <1>2, GetArrayItemFacts

LEMMA LookupInObject ==
  ASSUME Inv, NEW o \in Item, NEW key \in Key, NEW exact \in BOOLEAN, Owner(o, "object"),
         GetObjectItem(cell, o, key, exact) # NULL
  PROVE  /\ GetObjectItem(cell, o, key, exact) \in Item
         /\ holder[GetObjectItem(cell, o, key, exact)] = o
         /\ "object" \in Container
<1>1. Shaped(cell, holder) /\ Owns(cell, o) /\ "object" \in Container
  BY MemoryFacts DEF Owner, IsA, Owns, Container
<1>2. QED
  BY <1>1, GetObjectItemFacts

LEMMA DetachFromArrayShape ==
  ASSUME Inv, NEW a \in Item, NEW which \in 0 .. MaxIndex, DetachFromArray(a, which)
  PROVE  Inv' /\ Orderly
<1> DEFINE i == GetArrayItem(cell, a, which)
<1>1. Detach(a, "array", i) /\ Owner(a, "array") /\ i # NULL
  BY DEF DetachFromArray, Detach
<1>2. i \in Item /\ holder[i] = a /\ "array" \in Container
  BY <1>1, LookupInArray
<1> HIDE DEF i
<1>3. QED
  BY <1>1, <1>2, DetachShape

LEMMA DeleteFromArrayShape ==
  ASSUME Inv, NEW a \in Item, NEW which \in 0 .. MaxIndex, DeleteFromArray(a, which)
  PROVE  Inv' /\ Orderly
<1> DEFINE i == GetArrayItem(cell, a, which)
<1>1. DeleteFrom(a, "array", i) /\ Owner(a, "array") /\ i # NULL
  BY DEF DeleteFromArray, DeleteFrom
<1>2. i \in Item /\ holder[i] = a /\ "array" \in Container
  BY <1>1, LookupInArray
<1> HIDE DEF i
<1>3. QED
  BY <1>1, <1>2, DeleteFromShape

LEMMA DetachFromObjectShape ==
  ASSUME Inv, NEW o \in Item, NEW key \in Key, NEW exact \in BOOLEAN,
         DetachFromObject(o, key, exact)
  PROVE  Inv' /\ Orderly
<1> DEFINE i == GetObjectItem(cell, o, key, exact)
<1>1. Detach(o, "object", i) /\ Owner(o, "object") /\ i # NULL
  BY DEF DetachFromObject, Detach
<1>2. i \in Item /\ holder[i] = o /\ "object" \in Container
  BY <1>1, LookupInObject
<1> HIDE DEF i
<1>3. QED
  BY <1>1, <1>2, DetachShape

LEMMA DeleteFromObjectShape ==
  ASSUME Inv, NEW o \in Item, NEW key \in Key, NEW exact \in BOOLEAN,
         DeleteFromObject(o, key, exact)
  PROVE  Inv' /\ Orderly
<1> DEFINE i == GetObjectItem(cell, o, key, exact)
<1>1. DeleteFrom(o, "object", i) /\ Owner(o, "object") /\ i # NULL
  BY DEF DeleteFromObject, DeleteFrom
<1>2. i \in Item /\ holder[i] = o /\ "object" \in Container
  BY <1>1, LookupInObject
<1> HIDE DEF i
<1>3. QED
  BY <1>1, <1>2, DeleteFromShape

LEMMA OnArraysShape == ASSUME Inv, NEW a \in Item, OnArrays(a) PROVE Inv' /\ Orderly
<1>1. CASE \E i \in Roots : AddToArray(a, i)
  BY <1>1, AddToArrayShape DEF Roots
<1>2. CASE \E i \in Roots, which \in 0 .. MaxIndex : InsertInArray(a, which, i)
  <2>1. PICK i \in Item, which \in Nat : InsertInArray(a, which, i)
    BY <1>2, BoundsAreNumbers DEF Roots
  <2>2. QED
    BY <2>1, InsertInArrayShape
<1>3. CASE \E i \in Roots, which \in 0 .. MaxIndex : ReplaceInArray(a, which, i)
  <2>1. PICK i \in Item, which \in Nat : ReplaceInArray(a, which, i)
    BY <1>3, BoundsAreNumbers DEF Roots
  <2>2. QED
    BY <2>1, ReplaceInArrayShape
<1>4. CASE \E i \in Used : AddReferenceToArray(a, i)
  BY <1>4, AddReferenceToArrayShape DEF Used
<1>5. CASE \E which \in 0 .. MaxIndex : DetachFromArray(a, which)
  BY <1>5, DetachFromArrayShape
<1>6. CASE \E which \in 0 .. MaxIndex : DeleteFromArray(a, which)
  BY <1>6, DeleteFromArrayShape
<1>7. QED
  BY <1>1, <1>2, <1>3, <1>4, <1>5, <1>6 DEF OnArrays

LEMMA OnObjectsShape == ASSUME Inv, NEW o \in Item, OnObjects(o) PROVE Inv' /\ Orderly
<1>1. PICK key \in Key :
       \/ \E i \in Roots : AddToObject(o, key, i)
       \/ \E i \in Used : AddReferenceToObject(o, key, i)
       \/ \E t \in Leaf \cup Container : AddNewToObject(o, key, t)
       \/ \E exact \in BOOLEAN :
             \/ \E i \in Roots : ReplaceInObject(o, key, i, exact)
             \/ DetachFromObject(o, key, exact)
             \/ DeleteFromObject(o, key, exact)
  BY DEF OnObjects
<1>2. CASE \E i \in Roots : AddToObject(o, key, i)
  BY <1>2, AddToObjectShape DEF Roots
<1>3. CASE \E i \in Used : AddReferenceToObject(o, key, i)
  BY <1>3, AddReferenceToObjectShape DEF Used
<1>4. CASE \E t \in Leaf \cup Container : AddNewToObject(o, key, t)
  BY <1>4, AddNewToObjectShape
<1>5. CASE \E exact \in BOOLEAN, i \in Roots : ReplaceInObject(o, key, i, exact)
  BY <1>5, ReplaceInObjectShape DEF Roots
<1>6. CASE \E exact \in BOOLEAN : DetachFromObject(o, key, exact)
  BY <1>6, DetachFromObjectShape
<1>7. CASE \E exact \in BOOLEAN : DeleteFromObject(o, key, exact)
  BY <1>7, DeleteFromObjectShape
<1>8. QED
  BY <1>1, <1>2, <1>3, <1>4, <1>5, <1>6, <1>7

LEMMA NextShape == ASSUME Inv, Next PROVE Inv' /\ Orderly
<1>1. CASE \E t \in Leaf \cup Container : Create(t)
  BY <1>1, CreateShape
<1>2. CASE CreateWithItems
  BY <1>2, CreateWithItemsShape
<1>3. CASE \E a \in Owners("array") : OnArrays(a)
  BY <1>3, OnArraysShape DEF Owners
<1>4. CASE \E o \in Owners("object") : OnObjects(o)
  BY <1>4, OnObjectsShape DEF Owners
<1>5. CASE \E i \in Roots : DeleteRoot(i)
  BY <1>5, DeleteRootShape DEF Roots
<1>6. CASE \E i \in Used, recurse \in BOOLEAN : DuplicateItem(i, recurse)
  BY <1>6, DuplicateItemShape DEF Used
<1>7. QED
  BY <1>1, <1>2, <1>3, <1>4, <1>5, <1>6 DEF Next

LEMMA StepKeepsShape == Inv /\ [Next]_vars => Inv'
<1>1. ASSUME Inv, Next PROVE Inv'
  BY ONLY <1>1, NextShape
<1>2. ASSUME Inv, UNCHANGED vars PROVE Inv'
  BY <1>2 DEF Inv, vars
<1>3. QED
  BY <1>1, <1>2

\* Whatever memory the program has and whatever sequence of calls it makes within the
\* contract of cJSON.c, containers hold exactly what was put into them, linked both
\* ways, and lead to no memory that was given back.
THEOREM ListsStayWhole == Spec => []ListsAreWhole
<1>1. Init => Inv
  BY InitShape
<1>2. Inv /\ [Next]_vars => Inv'
  BY StepKeepsShape
<1>3. Inv => ListsAreWhole
  BY ShapeIsWhole
<1>4. QED
  BY <1>1, <1>2, <1>3, PTL DEF Spec

-------------------------------------------------------------------------------
(* Looking for keys.                                                       *)

\* What an object lists, its own or what a reference shows, has keys.
LEMMA ListedHaveKeys ==
  ASSUME Inv, NEW o \in Item, cell[o].type = "object"
  PROVE  /\ DOMAIN Elements(cell, o) \subseteq Nat
         /\ \A n \in DOMAIN Elements(cell, o) : cell[Elements(cell, o)[n]].string \in Key
<1> DEFINE w == Elements(cell, o)
           c == cell[o].child
           p == holder[c]
<1>1. /\ WalkSays(cell, Cardinality(Item), c, w) /\ w \in Seq(Item)
      /\ DOMAIN w = 1 .. Len(w) /\ Len(w) \in Nat
  <2>1. WalkSays(cell, Cardinality(Item), c, w)
    BY MemoryFacts, ElementsWalk
  <2> HIDE DEF w
  <2>2. QED
    BY <2>1 DEF WalkSays
<1>2. c # NULL => /\ c \in Item /\ p \in Item /\ p # NULL /\ cell[p].type = "object"
  BY MemoryFacts, ShapeFacts DEF Begins
<1> HIDE DEF w, c, p
<1>3. CASE w = <<>>
  BY <1>1, <1>3 DEF w
<1>4. CASE w # <<>>
  <2>1. c # NULL /\ w[1] = c /\ \A k \in 1 .. Len(w) : k < Len(w) => cell[w[k]].next = w[k + 1]
    BY <1>1, <1>4 DEF WalkSays
  <2> DEFINE Out == {n \in 1 .. Len(w) : holder[w[n]] # p}
  <2>2. Out = {}
    <3> SUFFICES ASSUME Out # {} PROVE FALSE
      OBVIOUS
    <3>1. PICK n \in Out : \A k \in Out : n <= k
      <4>1. Out \subseteq Nat
        OBVIOUS
      <4> HIDE DEF Out
      <4>2. QED
        BY <4>1, LeastExists
    <3>2. n \in 1 .. Len(w) /\ holder[w[n]] # p /\ n # 1
      BY <2>1 DEF p
    <3>3. n - 1 \in 1 .. Len(w) /\ n - 1 < Len(w) /\ (n - 1) + 1 = n /\ ~ n <= n - 1
      BY <1>1, <3>2
    <3>4. holder[w[n - 1]] = p
      BY <3>1, <3>3
    <3>5. cell[w[n - 1]].next = w[n] /\ w[n - 1] \in Item /\ w[n] \in Item
      BY <1>1, <2>1, <3>2, <3>3
    <3>6. Held(cell, holder, w[n - 1]) /\ w[n] # NULL
      BY <1>2, <2>1, <3>4, <3>5, MemoryFacts, ShapeFacts
    <3>7. QED
      BY <3>2, <3>4, <3>5, <3>6 DEF Held
  <2>3. ASSUME NEW n \in 1 .. Len(w) PROVE cell[w[n]].string \in Key
    <3>1. holder[w[n]] = p /\ w[n] \in Item
      BY <1>1, <2>2
    <3>2. Held(cell, holder, w[n]) /\ cell[w[n]].string \in Key \cup {NULL}
      BY <1>2, <2>1, <3>1, MemoryFacts, ShapeFacts
    <3>3. QED
      BY <1>2, <2>1, <3>1, <3>2 DEF Held
  <2>4. QED
    BY <1>1, <2>3 DEF w
<1>5. QED
  BY <1>3, <1>4

LEMMA KeysFindFirst == ASSUME Inv PROVE LookupsFindFirst
<1> SUFFICES ASSUME NEW o \in Item, NEW key \in Key, cell[o].type = "object"
             PROVE  LET items == Elements(cell, o)
                        at(keys) == {n \in DOMAIN items : cell[items[n]].string \in keys}
                        first(keys) == IF at(keys) = {} THEN NULL ELSE items[Min(at(keys))]
                    IN  /\ GetObjectItem(cell, o, key, TRUE) = first({key})
                        /\ GetObjectItem(cell, o, key, FALSE)
                              = first({k \in Key : Lower[k] = Lower[key]})
  BY DEF LookupsFindFirst
<1> DEFINE w == Elements(cell, o)
           at(keys) == {n \in DOMAIN w : cell[w[n]].string \in keys}
           ends(exact) == {n \in DOMAIN w :
                             IF exact THEN cell[w[n]].string \in {NULL, key}
                             ELSE /\ NULL \notin {cell[w[n]].string, key}
                                  /\ Lower[cell[w[n]].string] = Lower[key]}
           like == {k \in Key : Lower[k] = Lower[key]}
<1>1. DOMAIN w \subseteq Nat /\ \A n \in DOMAIN w : cell[w[n]].string \in Key
  BY ListedHaveKeys
<1>2. NULL \notin Key
  BY ItemsAreFinite
<1>3. \A exact \in BOOLEAN : GetObjectItem(cell, o, key, exact) =
        IF key = NULL \/ ends(exact) = {} \/ cell[w[Min(ends(exact))]].string = NULL
        THEN NULL ELSE w[Min(ends(exact))]
  BY Zenon DEF GetObjectItem
<1> HIDE DEF w
<1>4. ends(TRUE) = at({key}) /\ ends(FALSE) = at(like)
  BY <1>1, <1>2
<1>5. ASSUME NEW exact \in BOOLEAN, ends(exact) # {}
      PROVE  cell[w[Min(ends(exact))]].string # NULL
  <2> DEFINE S == ends(exact)
  <2>1. S \subseteq DOMAIN w /\ S \subseteq Nat /\ S # {}
    BY <1>1, <1>5
  <2> HIDE DEF S
  <2>2. \E x \in S : \A y \in S : x <= y
    BY <2>1, LeastExists
  <2>3. Min(S) \in S
    BY <2>2 DEF Min
  <2>4. cell[w[Min(S)]].string # NULL
    BY <1>1, <1>2, <2>1, <2>3
  <2>5. QED
    BY <2>4 DEF S
<1>6. \A exact \in BOOLEAN : GetObjectItem(cell, o, key, exact) =
        IF ends(exact) = {} THEN NULL ELSE w[Min(ends(exact))]
  <2> HIDE DEF ends
  <2>1. QED
    BY <1>2, <1>3, <1>5
<1>7. QED
  BY <1>4, <1>6, Zenon DEF w

-------------------------------------------------------------------------------
(* Comparing.                                                              *)

\* One step of Compare, by the table g of what is equal some levels down.
Seen(g, h, exact, n, x, y) ==
  /\ h[x].type = h[y].type
  /\ \/ x = y
     \/ h[x].type \in Leaf
     \/ /\ n > 0 /\ h[x].type = "array"
        /\ GetArraySize(h, x) = GetArraySize(h, y)
        /\ \A m \in 1 .. GetArraySize(h, x) : g[n - 1][Elements(h, x)[m]][Elements(h, y)[m]]
     \/ /\ n > 0 /\ h[x].type = "object"
        /\ \A e \in Range(Elements(h, x)) :
              /\ GetObjectItem(h, y, h[e].string, exact) # NULL
              /\ g[n - 1][e][GetObjectItem(h, y, h[e].string, exact)]
        /\ \A e \in Range(Elements(h, y)) :
              /\ GetObjectItem(h, x, h[e].string, exact) # NULL
              /\ g[n - 1][e][GetObjectItem(h, x, h[e].string, exact)]

Compares(g, h, exact, M) ==
  g = [n \in 0 .. M |-> [x \in Item |-> [y \in Item |-> Seen(g, h, exact, n, x, y)]]]

LEMMA FoundIsItem ==
  ASSUME NEW h \in [Item -> Cell], NEW o \in Item, NEW key, NEW exact
  PROVE  GetObjectItem(h, o, key, exact) \in Pointer
<1> DEFINE w == Elements(h, o)
           string(n) == h[w[n]].string
           ends == {n \in DOMAIN w :
                     IF exact THEN string(n) \in {NULL, key}
                     ELSE NULL \notin {string(n), key} /\ Lower[string(n)] = Lower[key]}
<1>1. w \in Seq(Item)
  BY ElementsWalk DEF WalkSays
<1>2. GetObjectItem(h, o, key, exact) =
        IF key = NULL \/ ends = {} \/ string(Min(ends)) = NULL THEN NULL ELSE w[Min(ends)]
  BY Zenon DEF GetObjectItem
<1>3. ends \subseteq DOMAIN w
  OBVIOUS
<1> HIDE DEF w, ends, string
<1>4. ASSUME ends # {} PROVE w[Min(ends)] \in Item
  <2>1. ends \subseteq Nat
    BY <1>1, <1>3
  <2>2. \E x \in ends : \A y \in ends : x <= y
    BY <1>4, <2>1, LeastExists
  <2>3. Min(ends) \in ends
    BY <2>2 DEF Min
  <2>4. QED
    BY <1>1, <1>3, <2>3
<1>5. QED
  BY <1>2, <1>4 DEF Pointer

\* Two tables say the same down to M levels.
Agree(f, g, M) == \A n \in 0 .. M, x, y \in Item : f[n][x][y] = g[n][x][y]

LEMMA CompareEntry ==
  ASSUME NEW g, NEW h, NEW exact, NEW M, Compares(g, h, exact, M),
         NEW n \in 0 .. M, NEW x \in Item, NEW y \in Item
  PROVE  g[n][x][y] = Seen(g, h, exact, n, x, y)
<1> DEFINE say(k, p, q) == Seen(g, h, exact, k, p, q)
           table == [k \in 0 .. M |-> [p \in Item |-> [q \in Item |-> say(k, p, q)]]]
<1>1. g = table
  BY DEF Compares
<1>2. table[n][x][y] = say(n, x, y)
  <2> HIDE DEF say
  <2>1. QED
    OBVIOUS
<1> HIDE DEF table
<1>3. QED
  BY <1>1, <1>2

LEMMA SeenAgrees ==
  ASSUME NEW h \in [Item -> Cell], NEW exact, NEW M \in Nat \ {0}, NEW f, NEW g, Agree(f, g, M - 1),
         NEW n \in 0 .. M, NEW x \in Item, NEW y \in Item
  PROVE  Seen(f, h, exact, n, x, y) = Seen(g, h, exact, n, x, y)
<1>1. /\ n > 0 => n - 1 \in 0 .. M - 1
      /\ \A k \in 0 .. M - 1, p, q \in Item : f[k][p][q] = g[k][p][q]
  BY DEF Agree
<1>2. \A z \in Item : /\ Elements(h, z) \in Seq(Item)
                      /\ \A m \in 1 .. GetArraySize(h, z) : Elements(h, z)[m] \in Item
                      /\ \A e \in Range(Elements(h, z)) : e \in Item
  <2> SUFFICES ASSUME NEW z \in Item
               PROVE  /\ Elements(h, z) \in Seq(Item)
                      /\ \A m \in 1 .. GetArraySize(h, z) : Elements(h, z)[m] \in Item
                      /\ \A e \in Range(Elements(h, z)) : e \in Item
    OBVIOUS
  <2>1. Elements(h, z) \in Seq(Item)
    BY ElementsWalk DEF WalkSays
  <2>2. QED
    BY <2>1 DEF GetArraySize, Range
<1>3. \A z \in Item : \A key : GetObjectItem(h, z, key, exact) # NULL => GetObjectItem(h, z, key, exact) \in Item
  BY FoundIsItem DEF Pointer
<1>4. ASSUME n > 0, GetArraySize(h, x) = GetArraySize(h, y)
      PROVE  \A m \in 1 .. GetArraySize(h, x) :
               f[n - 1][Elements(h, x)[m]][Elements(h, y)[m]] = g[n - 1][Elements(h, x)[m]][Elements(h, y)[m]]
  <2> TAKE m \in 1 .. GetArraySize(h, x)
  <2>1. Elements(h, x)[m] \in Item /\ Elements(h, y)[m] \in Item
    BY <1>2, <1>4
  <2>2. QED
    BY <1>1, <1>4, <2>1
<1>5. ASSUME n > 0, NEW u \in Item, NEW v \in Item, NEW e \in Range(Elements(h, u)),
             GetObjectItem(h, v, h[e].string, exact) # NULL
      PROVE  f[n - 1][e][GetObjectItem(h, v, h[e].string, exact)]
               = g[n - 1][e][GetObjectItem(h, v, h[e].string, exact)]
  BY <1>1, <1>2, <1>3, <1>5
<1>6. QED
  BY <1>4, <1>5 DEF Seen

LEMMA CompareExists ==
  ASSUME NEW h \in [Item -> Cell], NEW exact, NEW N \in Nat
  PROVE  \E g : Compares(g, h, exact, N)
<1> DEFINE Without == {M \in Nat : ~ \E g : Compares(g, h, exact, M)}
<1>1. SUFFICES ASSUME Without # {} PROVE FALSE
  OBVIOUS
<1>2. PICK M \in Without : \A K \in Without : M <= K
  BY <1>1, LeastExists
<1>3. M # 0
  <2> DEFINE none == [n \in 0 .. 0 |-> [x \in Item |-> [y \in Item |-> FALSE]]]
             g == [n \in 0 .. 0 |-> [x \in Item |-> [y \in Item |-> Seen(none, h, exact, n, x, y)]]]
  <2>1. \A n \in 0 .. 0 : n = 0
    OBVIOUS
  <2>2. \A x \in Item, y \in Item : Seen(none, h, exact, 0, x, y) = Seen(g, h, exact, 0, x, y)
    <3> HIDE DEF none, g
    <3>1. QED
      BY DEF Seen
  <2>3. Compares(g, h, exact, 0)
    BY <2>1, <2>2 DEF Compares
  <2>4. QED
    BY <1>2, <2>3
<1>4. M - 1 \in Nat /\ M - 1 \notin Without
  <2>1. Without \subseteq Nat
    OBVIOUS
  <2> HIDE DEF Without
  <2>2. QED
    BY <1>2, <1>3, <2>1
<1>5. PICK old : Compares(old, h, exact, M - 1)
  BY <1>4
<1> DEFINE new == [n \in 0 .. M |-> [x \in Item |-> [y \in Item |->
                     IF n = M THEN Seen(old, h, exact, M, x, y) ELSE old[n][x][y]]]]
<1>6. Compares(new, h, exact, M)
  <2>1. \A n \in 0 .. M - 1, x \in Item, y \in Item : new[n][x][y] = old[n][x][y]
    BY <1>4
  <2>2. \A n \in 0 .. M - 1, x \in Item, y \in Item : old[n][x][y] = Seen(old, h, exact, n, x, y)
    BY <1>5, CompareEntry
  <2>3. \A x \in Item, y \in Item : new[M][x][y] = Seen(old, h, exact, M, x, y)
    BY <1>4
  <2>4. new = [n \in 0 .. M |-> [x \in Item |-> [y \in Item |-> new[n][x][y]]]]
    OBVIOUS
  <2> HIDE DEF new
  <2>5. ASSUME NEW n \in 0 .. M, NEW x \in Item, NEW y \in Item
        PROVE  Seen(new, h, exact, n, x, y) = Seen(old, h, exact, n, x, y)
    <3>1. M \in Nat \ {0}
      BY <1>2, <1>3
    <3>2. Agree(new, old, M - 1)
      BY <2>1 DEF Agree
    <3>3. QED
      BY <3>1, <3>2, SeenAgrees
  <2>6. \A n \in 0 .. M : n = M \/ n \in 0 .. M - 1
    BY <1>4
  <2>7. \A n \in 0 .. M, x \in Item, y \in Item : new[n][x][y] = Seen(new, h, exact, n, x, y)
    BY <2>1, <2>2, <2>3, <2>5, <2>6
  <2>8. QED
    BY <2>4, <2>7 DEF Compares
<1>7. QED
  BY <1>2, <1>6

LEMMA CompareTable ==
  ASSUME NEW h \in [Item -> Cell], NEW exact
  PROVE  \E g : /\ Compares(g, h, exact, Cardinality(Item))
                /\ \A a, b \in Item : Compare(h, a, b, exact) = g[Cardinality(Item)][a][b]
<1> DEFINE N == Cardinality(Item)
           g == CHOOSE g : Compares(g, h, exact, N)
<1>1. N \in Nat
  BY ItemsAreFinite, FS_CardinalityType
<1>2. \A a, b \in Item : Compare(h, a, b, exact) = g[N][a][b]
  BY Zenon DEF Compare, Compares, Seen
<1>3. Compares(g, h, exact, N)
  BY <1>1, CompareExists
<1>4. QED
  BY <1>2, <1>3

-------------------------------------------------------------------------------
(* Copies.                                                                 *)

\* The walk of a container that owns its list follows next from the first item to
\* the last, which leads nowhere.
LEMMA ElementsLinks ==
  ASSUME NEW h, NEW ho, Shaped(h, ho), NEW a \in Item, Owns(h, a)
  PROVE  LET w == Elements(h, a) IN
         /\ w \in Seq(Item) /\ Len(w) \in Nat
         /\ \A m \in 1 .. Len(w) : w[m] \in Item /\ ho[w[m]] = a
         /\ \A m, k \in 1 .. Len(w) : w[m] = w[k] => m = k
         /\ h[a].child = NULL => Len(w) = 0
         /\ h[a].child # NULL => Len(w) # 0 /\ w[1] = h[a].child
         /\ \A m \in 1 .. Len(w) :
              h[w[m]].next = IF m = Len(w) THEN NULL ELSE w[m + 1]
<1> DEFINE w == Elements(h, a)
           N == Cardinality(Item)
<1>1. /\ WalkSays(h, N, h[a].child, w)
      /\ w \in Seq(Item) /\ Range(w) = {i \in Item : ho[i] = a} /\ IsInjective(w)
  BY ElementsWalk, ElementsFacts DEF Shaped, Typed
<1>2. N \in Nat /\ N # 0
  BY ItemsAreFinite, FS_CardinalityType, FS_EmptySet
<1> HIDE DEF w, N
<1>3. /\ Len(w) \in Nat /\ DOMAIN w = 1 .. Len(w)
      /\ \A m \in 1 .. Len(w) : w[m] \in Item /\ ho[w[m]] = a
      /\ \A m, k \in 1 .. Len(w) : w[m] = w[k] => m = k
  BY <1>1 DEF Range, IsInjective
<1>4. /\ h[a].child = NULL => Len(w) = 0
      /\ h[a].child # NULL => Len(w) # 0 /\ w[1] = h[a].child
      /\ \A m \in 1 .. Len(w) : m < Len(w) => h[w[m]].next = w[m + 1]
  BY <1>1, <1>2 DEF WalkSays
<1>5. ASSUME Len(w) # 0 PROVE h[w[Len(w)]].next = NULL
  <2> DEFINE last == w[Len(w)]
             j == h[last].next
  <2> SUFFICES ASSUME j # NULL PROVE FALSE
    OBVIOUS
  <2>1. Len(w) \in 1 .. Len(w) /\ last \in Item /\ ho[last] = a /\ a # NULL
    BY <1>3, <1>5, ItemsAreFinite
  <2>2. j \in Item /\ ho[j] = a /\ h[j].prev = last
    BY <2>1, ShapeFacts DEF Held
  <2>3. PICK k \in 1 .. Len(w) : w[k] = j
    BY <1>1, <1>3, <2>2 DEF Range
  <2>4. CASE k = 1
    <3>1. h[a].child = j /\ Held(h, ho, j) /\ last # NULL
      BY <1>4, <2>1, <2>2, <2>3, <2>4, ShapeFacts, ItemsAreFinite
    <3>2. QED
      BY <2>2, <3>1 DEF Held
  <2>5. CASE k # 1
    <3>1. k - 1 \in 1 .. Len(w) /\ k - 1 < Len(w) /\ (k - 1) + 1 = k /\ k - 1 # Len(w)
      BY <1>3, <2>5
    <3>2. h[w[k - 1]].next = j /\ w[k - 1] \in Item /\ ho[w[k - 1]] = a /\ w[k - 1] # last
      BY <1>3, <1>4, <2>1, <2>3, <3>1
    <3>3. Held(h, ho, w[k - 1])
      BY <2>1, <3>2, ShapeFacts
    <3>4. QED
      BY <2>2, <3>2, <3>3 DEF Held
  <2>6. QED
    BY <2>4, <2>5
<1>6. ASSUME NEW m \in 1 .. Len(w)
      PROVE  h[w[m]].next = IF m = Len(w) THEN NULL ELSE w[m + 1]
  <2>1. Len(w) \in Nat
    BY <1>3
  <2>2. Len(w) # 0 /\ (m # Len(w) => m < Len(w))
    BY ONLY <2>1, m \in 1 .. Len(w)
  <2>3. QED
    BY <1>4, <1>5, <2>2
<1>7. \A m \in 1 .. Len(w) : h[w[m]].next = IF m = Len(w) THEN NULL ELSE w[m + 1]
  BY <1>6
<1>8. QED
  BY <1>1, <1>3, <1>4, <1>7 DEF w

\* Container y has the copies of the items of x.
LEMMA CopiedElements ==
  ASSUME NEW h, NEW ho, Shaped(h, ho), NEW x \in Item, Owns(h, x), NEW y \in Item, Owns(h, y),
         NEW C \in SUBSET Item, NEW copy \in [C -> Item],
         h[y].child = CopyOf(copy, h[x].child),
         \A e \in Item : ho[e] = x => e \in C /\ h[copy[e]].next = CopyOf(copy, h[e].next)
  PROVE  /\ Len(Elements(h, x)) = Len(Elements(h, y))
         /\ \A m \in 1 .. Len(Elements(h, x)) :
              Elements(h, x)[m] \in C /\ Elements(h, y)[m] = copy[Elements(h, x)[m]]
<1> DEFINE u == Elements(h, x)
           v == Elements(h, y)
<1>1. /\ Len(u) \in Nat
      /\ \A m \in 1 .. Len(u) : u[m] \in Item /\ ho[u[m]] = x
      /\ h[x].child = NULL => Len(u) = 0
      /\ h[x].child # NULL => Len(u) # 0 /\ u[1] = h[x].child
      /\ \A m \in 1 .. Len(u) : h[u[m]].next = IF m = Len(u) THEN NULL ELSE u[m + 1]
  BY ElementsLinks
<1>2. /\ Len(v) \in Nat
      /\ \A m \in 1 .. Len(v) : v[m] \in Item
      /\ h[y].child = NULL => Len(v) = 0
      /\ h[y].child # NULL => Len(v) # 0 /\ v[1] = h[y].child
      /\ \A m \in 1 .. Len(v) : h[v[m]].next = IF m = Len(v) THEN NULL ELSE v[m + 1]
  BY ElementsLinks
<1>3. /\ NULL \notin Item
      /\ \A e \in C : CopyOf(copy, e) = copy[e] /\ copy[e] \in Item
      /\ CopyOf(copy, NULL) = NULL
  BY ItemsAreFinite DEF CopyOf
<1> HIDE DEF u, v
<1>4. \A m \in 1 .. Len(u) : /\ u[m] \in C /\ u[m] # NULL
                             /\ h[copy[u[m]]].next = CopyOf(copy, h[u[m]].next)
  BY <1>1, <1>3
<1> DEFINE Off == {m \in 1 .. Len(u) : m \in 1 .. Len(v) /\ v[m] # copy[u[m]]}
<1>5. Off = {}
  <2> SUFFICES ASSUME Off # {} PROVE FALSE
    OBVIOUS
  <2>1. PICK m \in Off : \A k \in Off : m <= k
    <3>1. Off \subseteq Nat
      OBVIOUS
    <3> HIDE DEF Off
    <3>2. QED
      BY <3>1, LeastExists
  <2>2. m \in 1 .. Len(u) /\ m \in 1 .. Len(v) /\ v[m] # copy[u[m]]
    OBVIOUS
  <2>3. m # 1
    <3>1. 1 \in 1 .. Len(u) \/ Len(u) = 0
      BY <1>1
    <3>2. QED
      BY <1>1, <1>2, <1>3, <1>4, <2>2, <3>1
  <2>4. /\ m - 1 \in 1 .. Len(u) /\ m - 1 \in 1 .. Len(v) /\ (m - 1) + 1 = m /\ ~ m <= m - 1
        /\ m - 1 # Len(u) /\ m - 1 # Len(v)
    BY <1>1, <1>2, <2>2, <2>3
  <2>5. v[m - 1] = copy[u[m - 1]]
    BY <2>1, <2>4
  <2>6. h[u[m - 1]].next = u[m] /\ h[v[m - 1]].next = v[m]
    BY <1>1, <1>2, <2>4
  <2>7. h[v[m - 1]].next = CopyOf(copy, u[m])
    BY <1>4, <2>4, <2>5, <2>6
  <2>8. QED
    BY <1>3, <1>4, <2>2, <2>6, <2>7
<1>6. Len(u) = Len(v)
  <2>1. Len(u) = 0 <=> Len(v) = 0
    <3>1. h[x].child # NULL => h[x].child \in C
      <4>1. Len(u) # 0 => 1 \in 1 .. Len(u)
        BY <1>1
      <4>2. QED
        BY <1>1, <1>4, <4>1
    <3>2. h[x].child = NULL <=> h[y].child = NULL
      BY <1>3, <3>1
    <3>3. QED
      BY <1>1, <1>2, <3>2
  <2>2. ASSUME Len(u) < Len(v), Len(u) # 0 PROVE FALSE
    <3>1. /\ Len(u) \in 1 .. Len(u) /\ Len(u) \in 1 .. Len(v) /\ Len(u) # Len(v)
          /\ Len(u) + 1 \in 1 .. Len(v)
      BY <1>1, <1>2, <2>2
    <3>2. v[Len(u)] = copy[u[Len(u)]]
      BY <1>5, <3>1
    <3>3. h[v[Len(u)]].next = v[Len(u) + 1] /\ v[Len(u) + 1] \in Item
      BY <1>2, <3>1
    <3>4. h[u[Len(u)]].next = NULL
      BY <1>1, <3>1
    <3>5. h[v[Len(u)]].next = NULL
      BY <1>3, <1>4, <3>1, <3>2, <3>4
    <3>6. QED
      BY <1>3, <3>3, <3>5
  <2>3. ASSUME Len(v) < Len(u), Len(v) # 0 PROVE FALSE
    <3>1. /\ Len(v) \in 1 .. Len(u) /\ Len(v) \in 1 .. Len(v) /\ Len(v) # Len(u)
          /\ Len(v) + 1 \in 1 .. Len(u)
      BY <1>1, <1>2, <2>3
    <3>2. v[Len(v)] = copy[u[Len(v)]]
      BY <1>5, <3>1
    <3>3. h[v[Len(v)]].next = NULL
      BY <1>2, <3>1
    <3>4. h[u[Len(v)]].next = u[Len(v) + 1]
      BY <1>1, <3>1
    <3>5. h[v[Len(v)]].next = copy[u[Len(v) + 1]] /\ copy[u[Len(v) + 1]] \in Item
      BY <1>3, <1>4, <3>1, <3>2, <3>4
    <3>6. QED
      BY <1>3, <3>3, <3>5
  <2>4. QED
    BY <1>1, <1>2, <2>1, <2>2, <2>3
<1>7. \A m \in 1 .. Len(u) : u[m] \in C /\ v[m] = copy[u[m]]
  BY <1>4, <1>5, <1>6
<1>8. QED
  BY <1>6, <1>7 DEF u, v

\* Of the items w only the one at m has its key.
OneHasKey(h, w, m) ==
  /\ m \in DOMAIN w /\ h[w[m]].string \in Key
  /\ \A n \in DOMAIN w : /\ h[w[n]].string \in Key
                         /\ h[w[n]].string = h[w[m]].string => n = m

\* Keys are compared as they are.
Exact(case_sensitive) == case_sensitive = TRUE

LEMMA KeyFinds ==
  ASSUME NEW h \in [Item -> Cell], NEW o \in Item, NEW m, OneHasKey(h, Elements(h, o), m),
         NEW exact, Exact(exact)
  PROVE  GetObjectItem(h, o, h[Elements(h, o)[m]].string, exact) = Elements(h, o)[m]
<1> DEFINE w == Elements(h, o)
           key == h[w[m]].string
           string(n) == h[w[n]].string
           ends == {n \in DOMAIN w :
                     IF exact THEN string(n) \in {NULL, key}
                     ELSE NULL \notin {string(n), key} /\ Lower[string(n)] = Lower[key]}
<1>1. w \in Seq(Item)
  BY ElementsWalk DEF WalkSays
<1>2. GetObjectItem(h, o, key, exact) =
        IF key = NULL \/ ends = {} \/ h[w[Min(ends)]].string = NULL THEN NULL ELSE w[Min(ends)]
  BY Zenon DEF GetObjectItem
<1>3. ends = {m}
  BY ItemsAreFinite DEF Exact, OneHasKey
<1>4. m \in Nat /\ key # NULL
  <2>1. m \in DOMAIN w /\ key \in Key
    BY DEF OneHasKey
  <2> HIDE DEF w, key
  <2>2. m \in Nat
    BY <1>1, <2>1
  <2>3. QED
    BY <2>1, <2>2, ItemsAreFinite
<1>5. Min({m}) = m
  BY <1>4 DEF Min
<1>6. QED
  BY <1>2, <1>3, <1>4, <1>5, Zenon

\* Item x and its copy are alike, and what they list are items and their copies; what
\* is in x is smaller than x.
Pair(h, C, copy, size, exact, x) ==
  /\ h[copy[x]].type = h[x].type /\ h[x].type \in Leaf \cup Container
  /\ h[x].type \in Container =>
       /\ Len(Elements(h, x)) = Len(Elements(h, copy[x]))
       /\ \A m \in 1 .. Len(Elements(h, x)) :
            /\ Elements(h, x)[m] \in C /\ Elements(h, copy[x])[m] = copy[Elements(h, x)[m]]
            /\ size[Elements(h, x)[m]] < size[x]
            /\ h[x].type = "object" =>
                 LET e == Elements(h, x)[m] IN
                 /\ GetObjectItem(h, copy[x], h[e].string, exact) = copy[e]
                 /\ GetObjectItem(h, x, h[copy[e]].string, exact) = e

LEMMA PairsAreEqual ==
  ASSUME NEW h \in [Item -> Cell], NEW C \in SUBSET Item, NEW copy \in [C -> Item],
         NEW size \in [C -> Nat \ {0}], NEW exact, \A x \in C : Pair(h, C, copy, size, exact, x),
         NEW N \in Nat, NEW g, Compares(g, h, exact, N)
  PROVE  \A n \in 0 .. N, x \in C :
           size[x] <= n => g[n][x][copy[x]] /\ g[n][copy[x]][x]
<1> DEFINE Differ == {n \in 0 .. N : \E x \in C :
                        size[x] <= n /\ ~(g[n][x][copy[x]] /\ g[n][copy[x]][x])}
<1>1. SUFFICES ASSUME Differ # {} PROVE FALSE
  OBVIOUS
<1>2. PICK n \in Differ : \A k \in Differ : n <= k
  <2>1. Differ \subseteq Nat
    OBVIOUS
  <2> HIDE DEF Differ
  <2>2. QED
    BY <1>1, <2>1, LeastExists
<1>3. PICK x \in C : size[x] <= n /\ ~(g[n][x][copy[x]] /\ g[n][copy[x]][x])
  OBVIOUS
<1>4. n \in 0 .. N /\ n > 0 /\ n - 1 \in 0 .. N /\ n - 1 \notin Differ
  <2>1. n \in 0 .. N /\ size[x] \in Nat \ {0} /\ Differ \subseteq Nat
    OBVIOUS
  <2>2. n > 0 /\ n - 1 \in 0 .. N /\ ~ n <= n - 1
    BY <1>3, <2>1
  <2> HIDE DEF Differ
  <2>3. QED
    BY <1>2, <2>1, <2>2
<1>5. PICK y \in Item : y = copy[x]
  BY <1>3
<1>6. ASSUME NEW e \in C, size[e] < size[x]
      PROVE  g[n - 1][e][copy[e]] /\ g[n - 1][copy[e]][e]
  <2>1. size[e] \in Nat /\ size[x] \in Nat /\ n \in Nat
    BY <1>4
  <2>2. size[e] <= n - 1
    BY <1>3, <1>6, <2>1
  <2>3. QED
    BY <1>4, <2>2
<1> HIDE DEF Differ
<1>7. /\ x \in Item /\ y \in Item /\ NULL \notin Item /\ Pair(h, C, copy, size, exact, x)
      /\ \A e \in C : e \in Item /\ copy[e] \in Item
      /\ Elements(h, x) \in Seq(Item) /\ Elements(h, y) \in Seq(Item)
  <2>1. \A z \in Item : Elements(h, z) \in Seq(Item)
    BY ElementsWalk DEF WalkSays
  <2>2. QED
    BY <2>1, ItemsAreFinite
<1>8. \A p, q \in Item : g[n][p][q] = Seen(g, h, exact, n, p, q)
  <2>1. n \in 0 .. N
    BY <1>4
  <2>2. QED
    BY ONLY <2>1, Compares(g, h, exact, N), CompareEntry
<1>9. /\ h[y].type = h[x].type /\ h[x].type \in Leaf \cup Container
  BY <1>5, <1>7 DEF Pair
<1>10. CASE h[x].type \in Leaf
  <2>1. Seen(g, h, exact, n, x, y) /\ Seen(g, h, exact, n, y, x)
    BY <1>9, <1>10 DEF Seen
  <2>2. x \in Item /\ y \in Item
    BY <1>7
  <2>3. g[n][x][y] = Seen(g, h, exact, n, x, y) /\ g[n][y][x] = Seen(g, h, exact, n, y, x)
    BY <1>8, <2>2
  <2>4. g[n][x][y] /\ g[n][y][x]
    BY <2>1, <2>3
  <2>5. QED
    BY <1>3, <1>5, <2>4
<1>11. CASE h[x].type \in Container
  <2> DEFINE u == Elements(h, x)
             v == Elements(h, y)
  <2>1. /\ Len(u) = Len(v) /\ DOMAIN u = 1 .. Len(u) /\ DOMAIN v = 1 .. Len(v)
        /\ \A m \in 1 .. Len(u) :
             /\ u[m] \in C /\ v[m] = copy[u[m]] /\ size[u[m]] < size[x]
             /\ h[x].type = "object" =>
                  /\ GetObjectItem(h, y, h[u[m]].string, exact) = v[m]
                  /\ GetObjectItem(h, x, h[v[m]].string, exact) = u[m]
    <3>1. /\ Len(Elements(h, x)) = Len(Elements(h, copy[x]))
          /\ \A m \in 1 .. Len(Elements(h, x)) :
               /\ Elements(h, x)[m] \in C /\ Elements(h, copy[x])[m] = copy[Elements(h, x)[m]]
               /\ size[Elements(h, x)[m]] < size[x]
               /\ h[x].type = "object" =>
                    /\ GetObjectItem(h, copy[x], h[Elements(h, x)[m]].string, exact)
                         = copy[Elements(h, x)[m]]
                    /\ GetObjectItem(h, x, h[copy[Elements(h, x)[m]]].string, exact)
                         = Elements(h, x)[m]
      BY <1>7, <1>11, Zenon DEF Pair
    <3>2. v = Elements(h, copy[x]) /\ DOMAIN u = 1 .. Len(u) /\ DOMAIN v = 1 .. Len(v)
      BY <1>5, <1>7
    <3> HIDE DEF u
    <3>3. QED
      BY <1>5, <3>1, <3>2 DEF u
  <2> HIDE DEF u, v
  <2>2. ASSUME NEW m \in 1 .. Len(u)
        PROVE  g[n - 1][u[m]][v[m]] /\ g[n - 1][v[m]][u[m]] /\ u[m] # NULL /\ v[m] # NULL
    BY <1>6, <1>7, <2>1
  <2>3. CASE h[x].type = "array"
    <3>1. GetArraySize(h, x) = Len(u) /\ GetArraySize(h, y) = Len(u)
      BY <2>1 DEF GetArraySize, u, v
    <3>2. Seen(g, h, exact, n, x, y) /\ Seen(g, h, exact, n, y, x)
      BY <1>4, <1>9, <2>2, <2>3, <3>1 DEF Seen, u, v
    <3>3. QED
      BY <1>5, <1>3, <1>8, <3>2
  <2>4. CASE h[x].type = "object"
    <3>1. ASSUME NEW e \in Range(u)
          PROVE  /\ GetObjectItem(h, y, h[e].string, exact) # NULL
                 /\ g[n - 1][e][GetObjectItem(h, y, h[e].string, exact)]
      <4>1. PICK m \in 1 .. Len(u) : e = u[m]
        BY <2>1 DEF Range
      <4>2. GetObjectItem(h, y, h[e].string, exact) = v[m]
        BY <2>1, <2>4, <4>1
      <4>3. QED
        BY <2>2, <4>1, <4>2
    <3>2. ASSUME NEW e \in Range(v)
          PROVE  /\ GetObjectItem(h, x, h[e].string, exact) # NULL
                 /\ g[n - 1][e][GetObjectItem(h, x, h[e].string, exact)]
      <4>1. PICK m \in 1 .. Len(u) : e = v[m]
        BY <2>1 DEF Range
      <4>2. GetObjectItem(h, x, h[e].string, exact) = u[m]
        BY <2>1, <2>4, <4>1
      <4>3. QED
        BY <2>2, <4>1, <4>2
    <3>3. Seen(g, h, exact, n, x, y) /\ Seen(g, h, exact, n, y, x)
      BY <1>4, <1>9, <2>4, <3>1, <3>2 DEF Seen, u, v
    <3>4. QED
      BY <1>5, <1>3, <1>8, <3>3
  <2>5. QED
    BY <1>11, <2>3, <2>4 DEF Container
<1>12. QED
  BY <1>9, <1>10, <1>11

\* What is in x is a part of what x is made of.
LEMMA BranchShrinks ==
  ASSUME NEW ho, Acyclic(ho), NEW x \in Item, NEW X, Branch(ho, x, X),
         NEW e \in Item, ho[e] = x, NEW E, Branch(ho, e, E)
  PROVE  Cardinality(E) < Cardinality(X) /\ Cardinality(E) \in Nat \ {0}
<1>1. E \in SUBSET X
  <2>1. E \ X \in SUBSET Item /\ \A j \in E \ X : ho[j] \in E \ X
    BY DEF Branch
  <2>2. QED
    BY <2>1 DEF Acyclic
<1>2. x \notin E
  <2>1. SUFFICES ASSUME x \in E PROVE FALSE
    OBVIOUS
  <2>2. E \in SUBSET Item /\ \A j \in E : ho[j] \in E
    BY <2>1 DEF Branch
  <2>3. QED
    BY <2>1, <2>2 DEF Acyclic
<1>3. x \in X /\ X \in SUBSET Item /\ e \in E
  BY DEF Branch
<1>4. IsFiniteSet(X) /\ IsFiniteSet(E)
  BY <1>1, <1>3, ItemsAreFinite, FS_Subset
<1>5. Cardinality(E) \in Nat /\ Cardinality(X) \in Nat /\ Cardinality(E) # 0
  BY <1>3, <1>4, FS_CardinalityType, FS_EmptySet
<1>6. Cardinality(E) <= Cardinality(X) /\ Cardinality(E) # Cardinality(X)
  BY <1>1, <1>2, <1>3, <1>4, FS_Subset
<1>7. QED
  BY <1>5, <1>6

\* The cells that a copy is made of, in the memory with the copy.
LEMMA CopyPairs ==
  ASSUME Inv, NEW i \in Item, cell[i].type # "free", Whole(i) \cap References = {}, KeysDiffer,
         NEW exact, Exact(exact), NEW copy, Copies(Whole(i), copy), \A x \in Whole(i) : cell[copy[x]].type = "free"
  PROVE  \A x \in Whole(i) :
           Pair(Duplicate(cell, i, copy), Whole(i), copy,
                [z \in Whole(i) |-> Cardinality(Whole(z))], exact, x)
<1> DEFINE C == Whole(i)
           h == Duplicate(cell, i, copy)
           F == {copy[x] : x \in C}
           old(j) == CHOOSE x \in C : copy[x] = j
           ho == [j \in Item |-> IF j \notin F THEN holder[j]
                                 ELSE IF old(j) = i THEN NULL ELSE copy[holder[old(j)]]]
           size == [z \in C |-> Cardinality(Whole(z))]
<1>1. /\ Shaped(cell, holder) /\ Acyclic(holder) /\ NULL \notin Item
      /\ cell \in [Item -> Cell] /\ holder \in [Item -> Pointer]
      /\ C \in SUBSET Item /\ i \in C /\ Branch(holder, i, C)
      /\ \A x \in Item : holder[x] \in C => x \in C
      /\ \A x \in C : x # i => holder[x] \in C
      /\ \A x \in C : ~cell[x].ref
  <2>1. /\ C \in SUBSET Item /\ i \in C /\ Branch(holder, i, C)
    BY MemoryFacts
  <2>2. QED
    BY <2>1, MemoryFacts DEF Branch, References
<1>2. /\ copy \in [C -> Item] /\ \A x, y \in C : copy[x] = copy[y] => x = y
      /\ \A x \in C : old(copy[x]) = x /\ copy[x] \in F
      /\ \A y \in F : \E x \in C : y = copy[x]
  BY DEF Copies
<1>3. Copied(cell, h, i, C, copy)
  BY <1>1, DuplicateCopies
<1> HIDE DEF C, h, old, F, size
<1>4. /\ \A x \in C : ho[copy[x]] = IF x = i THEN NULL ELSE copy[holder[x]]
      /\ \A y \in Item : y \notin F => ho[y] = holder[y]
      /\ holder[i] \notin C
  <2>1. holder[i] \notin C
    <3>1. SUFFICES ASSUME holder[i] \in C PROVE FALSE
      OBVIOUS
    <3>2. \A j \in C : holder[j] \in C
      BY <1>1, <3>1
    <3>3. QED
      BY <1>1, <3>2 DEF Acyclic
  <2>2. QED
    BY <1>1, <1>2, <2>1
<1>5. ho \in [Item -> Pointer]
  <2>1. ASSUME NEW y \in Item PROVE ho[y] \in Pointer
    <3>1. CASE y \in F
      BY <1>1, <1>2, <1>4, <3>1 DEF Pointer
    <3>2. CASE y \notin F
      BY <1>1, <1>4, <3>2
    <3>3. QED
      BY <3>1, <3>2
  <2>2. QED
    BY <2>1
<1> HIDE DEF ho
<1>6. Shaped(h, ho)
  <2>1. \A y \in Item : (\A x \in C : y # copy[x]) => ho[y] = holder[y]
    BY <1>2, <1>4
  <2>2. \A x \in C : cell[copy[x]].type = "free"
    BY DEF C
  <2>3. QED
    <3>1. /\ Shaped(cell, holder) /\ Acyclic(holder) /\ i \in Item /\ cell[i].type # "free"
          /\ Branch(holder, i, C) /\ \A x \in C : ~cell[x].ref
      BY <1>1
    <3>2. /\ copy \in [C -> Item] /\ \A x, y \in C : copy[x] = copy[y] => x = y
          /\ \A x \in C : ho[copy[x]] = IF x = i THEN NULL ELSE copy[holder[x]]
      BY <1>2, <1>4
    <3>3. Shaped(Duplicate(cell, i, copy), ho)
      BY ONLY <3>1, <3>2, <1>5, <2>1, <2>2, DuplicateShaped
    <3>4. QED
      BY <3>3 DEF h
<1>7. \A x \in C : cell[x].type # "free" /\ x \notin F /\ h[x] = cell[x]
  <2>1. \A x \in C : cell[x].type # "free"
    BY <1>1 DEF Shaped, Typed
  <2>2. \A y \in F : cell[y].type = "free"
    BY <1>2 DEF C
  <2>3. QED
    BY <1>1, <1>2, <1>3, <2>1, <2>2 DEF Copied
<1>8. ASSUME NEW x \in C PROVE Pair(h, C, copy, size, exact, x)
  <2> DEFINE y == copy[x]
             u == Elements(h, x)
             v == Elements(h, y)
  <2>1. /\ x \in Item /\ y \in Item /\ h[x] = cell[x] /\ cell[x].type \in Type \ {"free"}
        /\ h[y].type = cell[x].type /\ ~h[y].ref /\ ~h[x].ref
        /\ h[y].child = CopyOf(copy, h[x].child)
    BY <1>1, <1>2, <1>3, <1>7, ShapeFacts DEF Copied
  <2>2. h[y].type = h[x].type /\ h[x].type \in Leaf \cup Container
    BY <2>1 DEF Type
  <2>3. ASSUME h[x].type \in Container
        PROVE  /\ Len(u) = Len(v)
               /\ \A m \in 1 .. Len(u) :
                    /\ u[m] \in C /\ v[m] = copy[u[m]] /\ size[u[m]] < size[x]
                    /\ h[x].type = "object" =>
                         LET e == u[m] IN
                         /\ GetObjectItem(h, y, h[e].string, exact) = copy[e]
                         /\ GetObjectItem(h, x, h[copy[e]].string, exact) = e
    <3>1. Owns(h, x) /\ Owns(h, y)
      BY <2>1, <2>2, <2>3 DEF Owns
    <3>2. ASSUME NEW e \in Item, ho[e] = x
          PROVE  /\ e \in C /\ e # i /\ holder[e] = x
                 /\ h[copy[e]].next = CopyOf(copy, h[e].next)
                 /\ h[copy[e]].string = h[e].string
      <4>1. e \notin F
        <5>1. SUFFICES ASSUME NEW z \in C, e = copy[z] PROVE FALSE
          BY <1>2
        <5>2. x = copy[holder[z]] /\ holder[z] \in C
          BY <1>1, <1>4, <2>1, <3>2, <5>1
        <5>3. QED
          BY <1>2, <1>7, <5>2
      <4>2. holder[e] = x /\ e \in C /\ e # i
        BY <1>1, <1>4, <3>2, <4>1
      <4>3. QED
        BY <1>3, <1>7, <4>2 DEF Copied
    <3>3. /\ Len(u) = Len(v)
          /\ \A m \in 1 .. Len(u) : u[m] \in C /\ v[m] = copy[u[m]]
      <4>1. C \in SUBSET Item /\ copy \in [C -> Item]
        BY <1>1, <1>2
      <4>2. \A e \in Item : ho[e] = x => e \in C /\ h[copy[e]].next = CopyOf(copy, h[e].next)
        BY <3>2
      <4>3. x \in Item /\ y \in Item /\ h[y].child = CopyOf(copy, h[x].child)
        BY <2>1
      <4> HIDE DEF y
      <4>4. QED
        BY ONLY <1>6, <3>1, <4>1, <4>2, <4>3, CopiedElements DEF u, v
    <3>4. /\ u \in Seq(Item) /\ v \in Seq(Item) /\ Len(u) \in Nat
          /\ \A m \in 1 .. Len(u) : u[m] \in Item /\ ho[u[m]] = x
          /\ \A m, k \in 1 .. Len(u) : u[m] = u[k] => m = k
      BY <1>6, <2>1, <3>1, ElementsLinks
    <3> HIDE DEF u, v
    <3>5. \A m \in 1 .. Len(u) : size[u[m]] < size[x]
      <4>1. ASSUME NEW m \in 1 .. Len(u) PROVE size[u[m]] < size[x]
        <5>1. u[m] \in C /\ u[m] \in Item /\ holder[u[m]] = x
          BY <3>2, <3>3, <3>4
        <5>2. Branch(holder, x, Whole(x)) /\ Branch(holder, u[m], Whole(u[m]))
          BY <2>1, <5>1, MemoryFacts
        <5>3. Cardinality(Whole(u[m])) < Cardinality(Whole(x))
          BY <1>1, <2>1, <5>1, <5>2, BranchShrinks
        <5>4. QED
          BY <5>1, <5>3 DEF size
      <4>2. QED
        BY <4>1
    <3>6. ASSUME h[x].type = "object", NEW m \in 1 .. Len(u)
          PROVE  /\ GetObjectItem(h, y, h[u[m]].string, exact) = copy[u[m]]
                 /\ GetObjectItem(h, x, h[copy[u[m]]].string, exact) = u[m]
      <4>1. \A k \in 1 .. Len(u) :
              /\ h[u[k]].string \in Key /\ h[v[k]].string = h[u[k]].string
              /\ h[u[k]].string = h[u[m]].string => k = m
        <5> TAKE k \in 1 .. Len(u)
        <5>1. /\ u[k] \in Item /\ holder[u[k]] = x /\ h[u[k]] = cell[u[k]]
              /\ h[v[k]].string = h[u[k]].string
          BY <1>7, <3>2, <3>3, <3>4
        <5>2. u[m] \in Item /\ holder[u[m]] = x /\ h[u[m]] = cell[u[m]]
          BY <1>7, <3>2, <3>3, <3>4
        <5>3. h[u[k]].string \in Key
          <6>1. Held(cell, holder, u[k]) /\ cell[u[k]].string \in Key \cup {NULL}
            BY <1>1, <2>1, <5>1, ShapeFacts
          <6>2. QED
            BY <2>1, <3>6, <5>1, <6>1 DEF Held
        <5>4. u[k] # u[m] => cell[u[k]].string = NULL \/ cell[u[k]].string # cell[u[m]].string
          BY <1>1, <2>1, <5>1, <5>2 DEF KeysDiffer
        <5>5. NULL \notin Key
          BY ItemsAreFinite
        <5>6. QED
          BY <3>4, <5>1, <5>2, <5>3, <5>4, <5>5
      <4>2. DOMAIN u = 1 .. Len(u) /\ DOMAIN v = 1 .. Len(u) /\ h \in [Item -> Cell]
        BY <1>3, <3>3, <3>4 DEF Copied
      <4>3. GetObjectItem(h, y, h[v[m]].string, exact) = v[m]
        <5>1. OneHasKey(h, v, m) /\ y \in Item
          BY <2>1, <4>1, <4>2 DEF OneHasKey
        <5> HIDE DEF y
        <5>2. QED
          BY <4>2, <5>1, KeyFinds DEF v
      <4>4. GetObjectItem(h, x, h[u[m]].string, exact) = u[m]
        <5>1. OneHasKey(h, u, m) /\ x \in Item
          BY <2>1, <4>1, <4>2 DEF OneHasKey
        <5>2. QED
          BY <4>2, <5>1, KeyFinds DEF u
      <4>5. QED
        BY <3>3, <4>1, <4>3, <4>4
    <3>7. QED
      BY <3>3, <3>5, <3>6
  <2>4. QED
    BY <2>2, <2>3, Zenon DEF Pair
<1>9. QED
  BY <1>8 DEF C, h, size

LEMMA CopyIsEqual ==
  ASSUME Inv, NEW i \in Used, Whole(i) \cap References = {}, CanAllocate(Whole(i)), KeysDiffer,
         NEW exact, Exact(exact)
  PROVE  LET copy == Allocated(Whole(i)) IN
         Compare(Duplicate(cell, i, copy), i, copy[i], exact)
<1> DEFINE C == Whole(i)
           copy == Allocated(C)
           h == Duplicate(cell, i, copy)
           size == [z \in C |-> Cardinality(Whole(z))]
           N == Cardinality(Item)
<1>1. /\ i \in Item /\ cell[i].type # "free" /\ i \in C /\ C \in SUBSET Item
      /\ cell \in [Item -> Cell]
  BY MemoryFacts DEF Used, Free
<1>2. IsFiniteSet(C) /\ N \in Nat
  BY <1>1, ItemsAreFinite, FS_Subset, FS_CardinalityType
<1>3. /\ copy \in [C -> Item] /\ \A x \in C : cell[copy[x]].type = "free"
      /\ \A x, y \in C : copy[x] = copy[y] => x = y
  BY <1>2, AllocatedFacts DEF Free
<1> HIDE DEF copy
<1>4. Copies(C, copy)
  BY <1>1, <1>3 DEF Copies
<1>5. \A x \in C : Pair(h, C, copy, size, exact, x)
  BY <1>1, <1>3, <1>4, CopyPairs
<1>6. h \in [Item -> Cell]
  BY <1>1, <1>4, DuplicateCopies DEF Copied
<1>7. size \in [C -> Nat \ {0}] /\ size[i] <= N
  <2>1. ASSUME NEW z \in C PROVE Cardinality(Whole(z)) \in Nat \ {0} /\ Cardinality(Whole(z)) <= N
    <3>1. Whole(z) \in SUBSET Item /\ z \in Whole(z)
      BY <1>1, MemoryFacts
    <3>2. IsFiniteSet(Whole(z)) /\ Cardinality(Whole(z)) <= N
      BY <3>1, ItemsAreFinite, FS_Subset
    <3>3. QED
      BY <3>1, <3>2, FS_CardinalityType, FS_EmptySet
  <2>2. QED
    BY <1>1, <2>1
<1> HIDE DEF h, size
<1>8. PICK g : /\ Compares(g, h, exact, N)
               /\ \A a, b \in Item : Compare(h, a, b, exact) = g[N][a][b]
  BY <1>6, CompareTable
<1>9. g[N][i][copy[i]]
  <2>1. N \in 0 .. N
    BY <1>2
  <2> HIDE DEF C, N
  <2>2. \A n \in 0 .. N, z \in C : size[z] <= n => g[n][z][copy[z]] /\ g[n][copy[z]][z]
    <3> C \in SUBSET Item /\ N \in Nat
      BY <1>1, <1>2
    <3> HIDE DEF Compares, Pair
    <3>1. QED
      BY ONLY C \in SUBSET Item, N \in Nat, <1>3, <1>5, <1>6, <1>7, <1>8, PairsAreEqual
  <2>3. i \in C /\ size[i] <= N
    BY <1>1, <1>7
  <2>4. QED
    BY <2>1, <2>2, <2>3
<1>10. QED
  BY <1>1, <1>3, <1>8, <1>9 DEF h, copy

LEMMA CopiesCompare == ASSUME Inv PROVE CopiesAreEqual
<1> SUFFICES ASSUME NEW i \in Used,
                    Whole(i) \cap References = {}, CanAllocate(Whole(i)), KeysDiffer
             PROVE  Compare(Duplicate(cell, i, Allocated(Whole(i))), i, Allocated(Whole(i))[i], TRUE)
  BY DEF CopiesAreEqual
<1>1. PICK exact : exact = TRUE
  OBVIOUS
<1>2. Compare(Duplicate(cell, i, Allocated(Whole(i))), i, Allocated(Whole(i))[i], exact)
  <2>1. Exact(exact)
    BY <1>1 DEF Exact
  <2>2. QED
    BY <2>1, CopyIsEqual
<1>3. QED
  BY <1>1, <1>2, Zenon

\* Whatever calls made the trees, a key finds in an object, or in what a reference to
\* one shows, the first item under it, in either way of comparing; and the deep copy of
\* a tree compares as equal to it, where no object has two items under one key.
THEOREM ReadersFindWhatIsThere == Spec => []ReadersAgree
<1>1. Init => Inv
  BY InitShape
<1>2. Inv /\ [Next]_vars => Inv'
  BY StepKeepsShape
<1>3. Inv => ReadersAgree
  BY KeysFindFirst, CopiesCompare DEF ReadersAgree
<1>4. QED
  BY <1>1, <1>2, <1>3, PTL DEF Spec

-------------------------------------------------------------------------------
(* The order of the items that stay.                                       *)

\* In the walk of a container, who comes later is ahead, and nobody else.
LEMMA WalkGoesAhead ==
  ASSUME NEW h, NEW ho, Shaped(h, ho), NEW a \in Item, Owns(h, a),
         NEW m \in DOMAIN Elements(h, a), NEW n \in DOMAIN Elements(h, a)
  PROVE  Ahead(h, Elements(h, a)[m], Elements(h, a)[n]) <=> m <= n
<1> DEFINE w == Elements(h, a)
<1>1. /\ w \in Seq(Item) /\ Len(w) \in Nat
      /\ \A x \in 1 .. Len(w) : w[x] \in Item
      /\ \A x, y \in 1 .. Len(w) : w[x] = w[y] => x = y
      /\ \A x \in 1 .. Len(w) : h[w[x]].next = IF x = Len(w) THEN NULL ELSE w[x + 1]
  BY ElementsLinks
<1>2. m \in 1 .. Len(w) /\ n \in 1 .. Len(w)
  BY <1>1
<1> HIDE DEF w
<1>3. ASSUME Ahead(h, w[m], w[n]) PROVE m <= n
  <2> DEFINE K == {w[x] : x \in m .. Len(w)}
  <2>1. \A x \in m .. Len(w) : x \in 1 .. Len(w)
    BY <1>1, <1>2
  <2>2. K \in SUBSET Item /\ w[m] \in K
    BY <1>1, <1>2, <2>1
  <2>3. ASSUME NEW k \in K, h[k].next # NULL PROVE h[k].next \in K
    <3>1. PICK x \in m .. Len(w) : k = w[x]
      OBVIOUS
    <3>2. x # Len(w) /\ h[k].next = w[x + 1]
      BY <1>1, <2>1, <2>3, <3>1
    <3>3. x + 1 \in m .. Len(w)
      BY <1>1, <1>2, <3>2
    <3>4. QED
      BY <3>2, <3>3
  <2>4. w[n] \in K
    <3> HIDE DEF K
    <3>1. QED
      BY <1>3, <2>2, <2>3 DEF Ahead
  <2>5. PICK x \in m .. Len(w) : w[n] = w[x]
    BY <2>4
  <2>6. n = x
    BY <1>1, <1>2, <2>1, <2>5
  <2>7. QED
    BY <1>1, <1>2, <2>6
<1>4. ASSUME m <= n PROVE Ahead(h, w[m], w[n])
  <2> SUFFICES ASSUME NEW K \in SUBSET Item, w[m] \in K,
                      \A k \in K : h[k].next # NULL => h[k].next \in K
               PROVE  w[n] \in K
    BY DEF Ahead
  <2> DEFINE S == {x \in m .. n : w[x] \notin K}
  <2>1. SUFFICES ASSUME S # {} PROVE FALSE
    BY <1>1, <1>2, <1>4
  <2>2. PICK x \in S : \A y \in S : x <= y
    <3>1. S \subseteq Nat
      BY <1>1, <1>2
    <3> HIDE DEF S
    <3>2. QED
      BY <2>1, <3>1, LeastExists
  <2>3. x # m /\ x - 1 \in m .. n /\ x - 1 \notin S /\ x \in 1 .. Len(w)
    BY <1>1, <1>2, <2>2
  <2>4. w[x - 1] \in K /\ x - 1 \in 1 .. Len(w) /\ x - 1 # Len(w) /\ (x - 1) + 1 = x
    BY <1>1, <1>2, <2>3
  <2>5. h[w[x - 1]].next = w[x] /\ w[x] # NULL
    BY <1>1, <2>3, <2>4, ItemsAreFinite
  <2>6. w[x] \in K
    BY <2>4, <2>5
  <2>7. QED
    BY <2>2, <2>6
<1>5. QED
  BY <1>3, <1>4 DEF w

\* Who has a list is no free cell, and owns the list if it is no reference.
LEMMA ListsAreOwned ==
  ASSUME NEW h, NEW ho, Shaped(h, ho), NEW a \in Item, h[a].child # NULL
  PROVE  h[a].type # "free" /\ (~h[a].ref => Owns(h, a))
<1>1. h[a].type # "free"
  BY DEF Shaped, Typed, Blank
<1>2. ASSUME ~h[a].ref PROVE Owns(h, a)
  <2>1. h[a].child \in Item /\ ho[h[a].child] = a /\ a # NULL
    BY <1>2, ShapeFacts, ItemsAreFinite DEF Begins
  <2>2. Held(h, ho, h[a].child)
    BY <2>1, ShapeFacts
  <2>3. QED
    BY <2>1, <2>2 DEF Held
<1>3. QED
  BY <1>1, <1>2

LEMMA OrderlyKeepsOrder ==
  ASSUME Inv, Inv', Orderly, NEW a \in Item,
         ~cell[a].ref, cell[a].child # NULL, cell'[a].child # NULL,
         NEW m \in DOMAIN Elements(cell, a), NEW n \in DOMAIN Elements(cell, a), m < n,
         NEW p \in DOMAIN Elements(cell', a), NEW q \in DOMAIN Elements(cell', a),
         Elements(cell, a)[m] = Elements(cell', a)[p],
         Elements(cell, a)[n] = Elements(cell', a)[q]
  PROVE  p < q
<1> DEFINE s == Elements(cell, a)
           t == Elements(cell', a)
<1>1. Shaped(cell, holder) /\ Shaped(cell', holder')
  BY DEF Inv
<1>2. PICK S, T : /\ Keeps(cell, cell', S, T)
                  /\ \A i \in Item \ S : holder[i] = NULL \/ holder'[i] # holder[i]
                  /\ \A i \in Item \ T : cell'[i].type = "free"
  BY DEF Orderly
<1>3. Owns(cell, a) /\ cell[a].type # "free" /\ cell'[a].type # "free"
  BY <1>1, ListsAreOwned
<1>4. a \in T /\ ~cell'[a].ref
  BY <1>2, <1>3 DEF Keeps
<1>5. Owns(cell', a)
  BY <1>1, <1>4, ListsAreOwned
<1>6. /\ DOMAIN s = 1 .. Len(s) /\ Len(s) \in Nat
      /\ \A x \in 1 .. Len(s) : s[x] \in Item /\ holder[s[x]] = a
      /\ \A x, y \in 1 .. Len(s) : s[x] = s[y] => x = y
  BY <1>1, <1>3, ElementsLinks
<1>7. /\ DOMAIN t = 1 .. Len(t) /\ Len(t) \in Nat
      /\ \A x \in 1 .. Len(t) : t[x] \in Item /\ holder'[t[x]] = a
  BY <1>1, <1>5, ElementsLinks
<1>8. Ahead(cell, s[m], s[n])
  BY <1>1, <1>3, <1>6, WalkGoesAhead
<1> HIDE DEF s, t
<1>9. /\ m \in 1 .. Len(s) /\ n \in 1 .. Len(s) /\ p \in 1 .. Len(t) /\ q \in 1 .. Len(t)
      /\ s[m] = t[p] /\ s[n] = t[q]
  BY <1>6, <1>7 DEF s, t
<1>10. \A x \in {s[m], s[n]} : x \in Item /\ holder[x] = a /\ holder'[x] = a /\ a # NULL
  BY <1>6, <1>7, <1>9, ItemsAreFinite
<1>11. s[m] \in S /\ s[n] \in S
  BY <1>2, <1>10
<1>12. Ahead(cell', t[p], t[q])
  BY <1>2, <1>8, <1>9, <1>11 DEF Keeps
<1>13. p <= q
  BY <1>1, <1>5, <1>12, WalkGoesAhead DEF t
<1>14. p # q
  BY <1>6, <1>9
<1>15. QED
  BY <1>7, <1>9, <1>13, <1>14

\* What a step may not do to the order of a container.
OrderStep ==
  \A a \in Item : ~cell[a].ref /\ cell[a].child # NULL /\ cell'[a].child # NULL =>
    LET s == Elements(cell, a)
        t == Elements(cell', a)
    IN  \A m, n \in DOMAIN s, p, q \in DOMAIN t :
           s[m] = t[p] /\ s[n] = t[q] /\ m < n => p < q

\* Whatever memory the program has and whatever call of cJSON.c it makes, the items that
\* stay in a container stay in the order they had: no call moves an item that it neither
\* takes out nor puts in.
THEOREM OrderIsKept == Spec => OrderStays
<1>1. Init => Inv
  BY InitShape
<1>2. Inv /\ [Next]_vars => Inv'
  BY StepKeepsShape
<1>3. Inv /\ [Next]_vars => [OrderStep]_vars
  <2> SUFFICES ASSUME Inv, Next PROVE OrderStep
    OBVIOUS
  <2>1. Inv' /\ Orderly
    BY NextShape
  <2>2. QED
    BY <2>1, OrderlyKeepsOrder DEF OrderStep
<1>4. QED
  BY <1>1, <1>2, <1>3, PTL DEF Spec, OrderStays, OrderStep

-------------------------------------------------------------------------------
(* The calls on the list of a container, as operations on a sequence.      *)

\* A walk from the first item of a along next is u, and ends there.
IsList(h, a, u) ==
  /\ u \in Seq(Item)
  /\ h[a].child = IF Len(u) = 0 THEN NULL ELSE u[1]
  /\ \A m \in 1 .. Len(u) : h[u[m]].next = IF m = Len(u) THEN NULL ELSE u[m + 1]

\* As far as one walk goes, another goes the same way.
LEMMA WalksGoTogether ==
  ASSUME NEW h, NEW a \in Item, NEW u, NEW w, IsList(h, a, u), IsList(h, a, w)
  PROVE  \A m \in 1 .. Len(u) : m \in 1 .. Len(w) /\ u[m] = w[m]
<1> DEFINE Apart == {m \in 1 .. Len(u) : ~(m \in 1 .. Len(w) /\ u[m] = w[m])}
<1>1. /\ Len(u) \in Nat /\ Len(w) \in Nat /\ NULL \notin Item
      /\ \A m \in 1 .. Len(u) : u[m] \in Item
      /\ \A m \in 1 .. Len(w) : w[m] \in Item
  BY ItemsAreFinite DEF IsList
<1>2. SUFFICES ASSUME Apart # {} PROVE FALSE
  OBVIOUS
<1>3. PICK m \in Apart : \A k \in Apart : m <= k
  <2>1. Apart \subseteq Nat
    OBVIOUS
  <2> HIDE DEF Apart
  <2>2. QED
    BY <1>2, <2>1, LeastExists
<1>4. m \in 1 .. Len(u) /\ ~(m \in 1 .. Len(w) /\ u[m] = w[m])
  OBVIOUS
<1>5. m # 1
  <2> SUFFICES ASSUME m = 1 PROVE FALSE
    OBVIOUS
  <2>1. h[a].child = u[1] /\ u[1] \in Item
    BY <1>1, <1>4 DEF IsList
  <2>2. Len(w) # 0 /\ h[a].child = w[1]
    BY <1>1, <2>1 DEF IsList
  <2>3. QED
    BY <1>1, <1>4, <2>1, <2>2
<1>6. m - 1 \in 1 .. Len(u) /\ m - 1 \notin Apart
  <2>1. m - 1 \in 1 .. Len(u) /\ ~(m <= m - 1)
    BY <1>1, <1>4, <1>5
  <2>2. QED
    BY <1>3, <2>1
<1>7. m - 1 \in 1 .. Len(w) /\ u[m - 1] = w[m - 1]
  BY <1>6
<1> HIDE DEF Apart
<1>8. h[u[m - 1]].next = u[m] /\ u[m] \in Item
  BY <1>1, <1>4, <1>6 DEF IsList
<1>9. m - 1 # Len(w) /\ h[w[m - 1]].next = w[m]
  BY <1>1, <1>4, <1>7, <1>8 DEF IsList
<1>10. QED
  BY <1>1, <1>4, <1>7, <1>8, <1>9

LEMMA ListIsElements ==
  ASSUME NEW h, NEW ho, Shaped(h, ho), NEW a \in Item, Owns(h, a), NEW u, IsList(h, a, u)
  PROVE  Elements(h, a) = u
<1> DEFINE w == Elements(h, a)
<1>1. IsList(h, a, w)
  <2>1. h[a].child = NULL \/ h[a].child \in Item
    BY ShapeFacts
  <2>2. QED
    BY <2>1, ElementsLinks DEF IsList
<1> HIDE DEF w
<1>2. /\ \A m \in 1 .. Len(u) : m \in 1 .. Len(w) /\ u[m] = w[m]
      /\ \A m \in 1 .. Len(w) : m \in 1 .. Len(u) /\ w[m] = u[m]
  BY <1>1, WalksGoTogether
<1>3. u \in Seq(Item) /\ w \in Seq(Item) /\ Len(u) \in Nat /\ Len(w) \in Nat
  BY <1>1 DEF IsList
<1>4. Len(u) = Len(w)
  <2>1. Len(u) # 0 => Len(u) \in 1 .. Len(u)
    BY <1>3
  <2>2. Len(w) # 0 => Len(w) \in 1 .. Len(w)
    BY <1>3
  <2>3. QED
    BY <1>2, <1>3, <2>1, <2>2
<1>5. QED
  <2>1. u = w
    BY <1>2, <1>3, <1>4
  <2>2. QED
    BY <2>1 DEF w

\* What putting an item into a sequence and taking one out make of it.
IsPut(u, w, k, i) ==
  /\ u \in Seq(Item) /\ Len(u) = Len(w) + 1
  /\ \A m \in 1 .. Len(u) : u[m] = IF m < k THEN w[m] ELSE IF m = k THEN i ELSE w[m - 1]

IsTaken(u, w, k) ==
  /\ u \in Seq(Item) /\ Len(u) = Len(w) - 1
  /\ \A m \in 1 .. Len(u) : u[m] = IF m < k THEN w[m] ELSE w[m + 1]

LEMMA PutFacts ==
  ASSUME NEW w \in Seq(Item), NEW k \in 1 .. Len(w) + 1, NEW i \in Item
  PROVE  IsPut(InsertAt(w, k, i), w, k, i)
<1> DEFINE f == SubSeq(w, 1, k - 1)
           b == SubSeq(w, k, Len(w))
           c == f \o <<i>>
<1>1. Len(w) \in Nat /\ k \in Nat /\ \A m \in 1 .. Len(w) : w[m] \in Item
  OBVIOUS
<1>2. f \in Seq(Item) /\ Len(f) = k - 1 /\ \A m \in 1 .. k - 1 : f[m] = w[m]
  BY <1>1
<1>3. b \in Seq(Item) /\ Len(b) = Len(w) - k + 1 /\ \A m \in 1 .. Len(w) - k + 1 : b[m] = w[k + m - 1]
  BY <1>1
<1> HIDE DEF f, b
<1>4. c \in Seq(Item) /\ Len(c) = k /\ \A m \in 1 .. k : c[m] = IF m < k THEN w[m] ELSE i
  BY <1>1, <1>2
<1> HIDE DEF c
<1> DEFINE u == c \o b
<1>5. u \in Seq(Item) /\ Len(u) = Len(w) + 1
      /\ \A m \in 1 .. Len(u) : u[m] = IF m <= k THEN c[m] ELSE b[m - k]
  <2>1. /\ u \in Seq(Item) /\ Len(u) = Len(c) + Len(b)
        /\ \A m \in 1 .. Len(c) + Len(b) : u[m] = IF m <= Len(c) THEN c[m] ELSE b[m - Len(c)]
    BY <1>3, <1>4, ConcatProperties, Zenon
  <2> HIDE DEF u
  <2>2. Len(c) = k /\ Len(c) + Len(b) = Len(w) + 1
    BY <1>1, <1>3, <1>4
  <2>3. QED
    BY <2>1, <2>2
<1> HIDE DEF u
<1>6. ASSUME NEW m \in 1 .. Len(u)
      PROVE  u[m] = IF m < k THEN w[m] ELSE IF m = k THEN i ELSE w[m - 1]
  <2>1. CASE m <= k
    BY <1>1, <1>4, <1>5, <2>1
  <2>2. CASE m > k
    <3>1. m - k \in 1 .. Len(w) - k + 1 /\ k + (m - k) - 1 = m - 1 /\ ~(m <= k)
      BY <1>1, <1>5, <2>2
    <3>2. u[m] = b[m - k]
      BY <1>5, <3>1
    <3>3. b[m - k] = w[m - 1]
      BY <1>3, <3>1
    <3>4. ~(m < k) /\ m # k
      BY <1>1, <1>5, <2>2
    <3>5. QED
      BY <3>2, <3>3, <3>4
  <2>3. QED
    BY <1>1, <1>5, <2>1, <2>2
<1>7. InsertAt(w, k, i) = u
  BY DEF InsertAt, u, c, f, b
<1>8. IsPut(u, w, k, i)
  BY <1>5, <1>6 DEF IsPut
<1>9. QED
  BY <1>7, <1>8

LEMMA TakeOutFacts ==
  ASSUME NEW w \in Seq(Item), NEW k \in 1 .. Len(w)
  PROVE  IsTaken(RemoveAt(w, k), w, k)
<1> DEFINE f == SubSeq(w, 1, k - 1)
           b == SubSeq(w, k + 1, Len(w))
<1>1. Len(w) \in Nat /\ k \in Nat /\ \A m \in 1 .. Len(w) : w[m] \in Item
  OBVIOUS
<1>2. f \in Seq(Item) /\ Len(f) = k - 1 /\ \A m \in 1 .. k - 1 : f[m] = w[m]
  BY <1>1
<1>3. b \in Seq(Item) /\ Len(b) = Len(w) - k /\ \A m \in 1 .. Len(w) - k : b[m] = w[k + m]
  BY <1>1
<1> HIDE DEF f, b
<1> DEFINE u == f \o b
<1>4. u \in Seq(Item) /\ Len(u) = Len(w) - 1
      /\ \A m \in 1 .. Len(u) : u[m] = IF m <= k - 1 THEN f[m] ELSE b[m - (k - 1)]
  <2>1. /\ u \in Seq(Item) /\ Len(u) = Len(f) + Len(b)
        /\ \A m \in 1 .. Len(f) + Len(b) : u[m] = IF m <= Len(f) THEN f[m] ELSE b[m - Len(f)]
    BY <1>2, <1>3, ConcatProperties, Zenon
  <2> HIDE DEF u
  <2>2. Len(f) = k - 1 /\ Len(f) + Len(b) = Len(w) - 1
    BY <1>1, <1>2, <1>3
  <2>3. QED
    BY <2>1, <2>2
<1> HIDE DEF u
<1>5. ASSUME NEW m \in 1 .. Len(u) PROVE u[m] = IF m < k THEN w[m] ELSE w[m + 1]
  <2>1. CASE m < k
    BY <1>1, <1>2, <1>4, <2>1
  <2>2. CASE m >= k
    <3>1. m - (k - 1) \in 1 .. Len(w) - k /\ k + (m - (k - 1)) = m + 1 /\ ~(m <= k - 1)
      BY <1>1, <1>4, <2>2
    <3>2. u[m] = b[m - (k - 1)]
      BY <1>4, <3>1
    <3>3. b[m - (k - 1)] = w[m + 1] /\ ~(m < k)
      BY <1>1, <1>3, <1>4, <2>2, <3>1
    <3>4. QED
      BY <3>2, <3>3
  <2>3. QED
    BY <1>1, <1>4, <2>1, <2>2
<1>6. RemoveAt(w, k) = u
  BY DEF RemoveAt, u, f, b
<1>7. IsTaken(u, w, k)
  BY <1>4, <1>5 DEF IsTaken
<1>8. QED
  BY <1>6, <1>7

\* Put where one was taken out is put in its stead; put after the last is appended.
LEMMA PutBack ==
  ASSUME NEW w \in Seq(Item), NEW i \in Item
  PROVE  /\ InsertAt(w, Len(w) + 1, i) = Append(w, i)
         /\ \A k \in 1 .. Len(w) : InsertAt(RemoveAt(w, k), k, i) = ReplaceAt(w, k, i)
<1>1. Len(w) \in Nat /\ DOMAIN w = 1 .. Len(w) /\ \A m \in 1 .. Len(w) : w[m] \in Item
  OBVIOUS
<1>2. InsertAt(w, Len(w) + 1, i) = Append(w, i)
  <2> DEFINE u == InsertAt(w, Len(w) + 1, i)
             v == Append(w, i)
  <2>1. /\ u \in Seq(Item) /\ Len(u) = Len(w) + 1
        /\ \A m \in 1 .. Len(u) : u[m] = IF m < Len(w) + 1 THEN w[m]
                                         ELSE IF m = Len(w) + 1 THEN i ELSE w[m - 1]
    <3> DEFINE k == Len(w) + 1
    <3>1. k \in 1 .. Len(w) + 1
      BY <1>1
    <3> HIDE DEF k
    <3>2. IsPut(InsertAt(w, k, i), w, k, i)
      BY <3>1, PutFacts
    <3>3. QED
      BY <3>2 DEF IsPut, k
  <2>2. v \in Seq(Item) /\ Len(v) = Len(w) + 1 /\ \A m \in 1 .. Len(w) + 1 : v[m] = IF m <= Len(w) THEN w[m] ELSE i
    OBVIOUS
  <2> HIDE DEF u, v
  <2>3. \A m \in 1 .. Len(u) : u[m] = v[m]
    BY <1>1, <2>1, <2>2
  <2>4. u = v
    BY <2>1, <2>2, <2>3, SeqEqual
  <2>5. QED
    BY <2>4 DEF u, v
<1>3. ASSUME NEW k \in 1 .. Len(w) PROVE InsertAt(RemoveAt(w, k), k, i) = ReplaceAt(w, k, i)
  <2> DEFINE s == RemoveAt(w, k)
             u == InsertAt(s, k, i)
             v == ReplaceAt(w, k, i)
  <2>1. /\ s \in Seq(Item) /\ Len(s) = Len(w) - 1
        /\ \A m \in 1 .. Len(s) : s[m] = IF m < k THEN w[m] ELSE w[m + 1]
    <3>1. IsTaken(s, w, k)
      BY TakeOutFacts
    <3>2. QED
      BY <3>1 DEF IsTaken
  <2> HIDE DEF s
  <2>2. k \in 1 .. Len(s) + 1
    BY <1>1, <2>1
  <2>3. /\ u \in Seq(Item) /\ Len(u) = Len(s) + 1
        /\ \A m \in 1 .. Len(u) : u[m] = IF m < k THEN s[m] ELSE IF m = k THEN i ELSE s[m - 1]
    <3>1. IsPut(u, s, k, i)
      BY <2>1, <2>2, PutFacts
    <3> HIDE DEF u
    <3>2. QED
      BY <3>1 DEF IsPut
  <2>4. v \in Seq(Item) /\ Len(v) = Len(w) /\ \A m \in 1 .. Len(w) : v[m] = IF m = k THEN i ELSE w[m]
    BY <1>1 DEF ReplaceAt
  <2> HIDE DEF u, v
  <2>5. ASSUME NEW m \in 1 .. Len(u) PROVE u[m] = v[m]
    <3>1. CASE m < k
      <4>1. m \in 1 .. Len(s) /\ m \in 1 .. Len(w) /\ m # k
        BY <1>1, <2>1, <2>3, <3>1
      <4>2. u[m] = s[m] /\ s[m] = w[m] /\ v[m] = w[m]
        BY <2>1, <2>3, <2>4, <3>1, <4>1
      <4>3. QED
        BY <4>2
    <3>2. CASE m = k
      BY <1>1, <2>1, <2>3, <2>4, <3>2
    <3>3. CASE m > k
      <4>1. m - 1 \in 1 .. Len(s) /\ m - 1 + 1 = m /\ ~(m - 1 < k)
        BY <1>1, <2>1, <2>3, <3>3
      <4>2. s[m - 1] = w[m]
        BY <2>1, <4>1
      <4>3. QED
        BY <1>1, <2>1, <2>3, <2>4, <3>3, <4>2
    <3>4. QED
      BY <1>1, <2>1, <2>3, <3>1, <3>2, <3>3
  <2>6. u = v
    <3>1. Len(u) = Len(v)
      BY <1>1, <2>1, <2>3, <2>4
    <3>2. QED
      BY <2>3, <2>4, <2>5, <3>1, SeqEqual
  <2>7. QED
    BY <2>6 DEF u, v, s
<1>4. QED
  BY <1>2, <1>3

\* An item that goes in before the k-th one, or after the last one, becomes the k-th.
LEMMA FilledIsList ==
  ASSUME NEW h, NEW ho, Shaped(h, ho), NEW a \in Item, NEW i \in Item, MayFill(h, ho, a, i),
         NEW p, NEW n, NEW q, Gap(h, ho, a, p, n, q, i), NEW h2, Filled(h, h2, a, p, n, q, i),
         NEW k \in 1 .. Len(Elements(h, a)) + 1,
         n = IF k <= Len(Elements(h, a)) THEN Elements(h, a)[k] ELSE NULL
  PROVE  IsList(h2, a, InsertAt(Elements(h, a), k, i))
<1> DEFINE w == Elements(h, a)
           u == InsertAt(w, k, i)
<1>1. /\ w \in Seq(Item) /\ Len(w) \in Nat
      /\ \A m \in 1 .. Len(w) : w[m] \in Item /\ ho[w[m]] = a
      /\ \A m, j \in 1 .. Len(w) : w[m] = w[j] => m = j
      /\ h[a].child = NULL => Len(w) = 0
      /\ h[a].child # NULL => Len(w) # 0 /\ w[1] = h[a].child
      /\ \A m \in 1 .. Len(w) : h[w[m]].next = IF m = Len(w) THEN NULL ELSE w[m + 1]
  BY ElementsLinks DEF MayFill
<1>2. Range(w) = {x \in Item : ho[x] = a} /\ DOMAIN w = 1 .. Len(w)
  BY <1>1, ElementsFacts DEF MayFill
<1>3. /\ NULL \notin Item /\ ho[i] = NULL /\ a # NULL
      /\ p # NULL => p \in Item /\ ho[p] = a /\ h[p].next = n
      /\ p = NULL => n = h[a].child
  BY GapFacts, ItemsAreFinite DEF MayFill
<1>4. n = IF k <= Len(w) THEN w[k] ELSE NULL
  OBVIOUS
<1>5. k \in 1 .. Len(w) + 1
  OBVIOUS
<1>6. /\ u \in Seq(Item) /\ Len(u) = Len(w) + 1
      /\ \A m \in 1 .. Len(u) : u[m] = IF m < k THEN w[m] ELSE IF m = k THEN i ELSE w[m - 1]
  <2>1. IsPut(u, w, k, i)
    BY <1>1, <1>5, PutFacts
  <2> HIDE DEF u
  <2>2. QED
    BY <2>1 DEF IsPut
<1>7. \A x \in Item :
        /\ h2[x].next = IF x = i THEN n ELSE IF x = p THEN i ELSE h[x].next
        /\ h2[x].child = IF x = a /\ p = NULL THEN i ELSE h[x].child
  BY DEF Filled
<1> HIDE DEF w, u
<1>8. p # NULL => \E m \in 1 .. Len(w) : p = w[m] /\ n = IF m = Len(w) THEN NULL ELSE w[m + 1]
  <2>1. SUFFICES ASSUME p # NULL
                PROVE  \E m \in 1 .. Len(w) : p = w[m] /\ n = IF m = Len(w) THEN NULL ELSE w[m + 1]
    OBVIOUS
  <2>2. PICK m \in 1 .. Len(w) : p = w[m]
    BY <1>2, <1>3, <2>1 DEF Range
  <2>3. n = IF m = Len(w) THEN NULL ELSE w[m + 1]
    BY <1>1, <1>3, <2>1, <2>2
  <2>4. QED
    BY <2>2, <2>3
<1>9. p = IF k = 1 THEN NULL ELSE w[k - 1]
  <2>1. CASE k = 1
    <3>1. SUFFICES ASSUME p # NULL PROVE FALSE
      BY <2>1
    <3>2. PICK m \in 1 .. Len(w) : p = w[m] /\ n = IF m = Len(w) THEN NULL ELSE w[m + 1]
      BY <1>8, <3>1
    <3>3. n = w[1] /\ w[1] # NULL /\ 1 \in 1 .. Len(w)
      BY <1>1, <1>3, <1>4, <2>1, <3>2
    <3>4. m # Len(w) /\ m + 1 \in 1 .. Len(w) /\ w[m + 1] = w[1]
      BY <1>1, <3>2, <3>3
    <3>5. QED
      BY <1>1, <3>2, <3>3, <3>4
  <2>2. CASE k # 1
    <3>1. p # NULL
      <4>1. SUFFICES ASSUME n = h[a].child PROVE FALSE
        BY <1>3
      <4>2. CASE k <= Len(w)
        <5>1. n = w[k] /\ w[k] \in Item /\ k \in 1 .. Len(w) /\ 1 \in 1 .. Len(w)
          BY <1>1, <1>4, <1>5, <4>2
        <5>2. w[1] = w[k]
          BY <1>1, <1>3, <4>1, <5>1
        <5>3. QED
          BY <1>1, <2>2, <5>1, <5>2
      <4>3. CASE ~(k <= Len(w))
        BY <1>1, <1>4, <1>5, <2>2, <4>1, <4>3
      <4>4. QED
        BY <4>2, <4>3
    <3>2. PICK m \in 1 .. Len(w) : p = w[m] /\ n = IF m = Len(w) THEN NULL ELSE w[m + 1]
      BY <1>8, <3>1
    <3>3. CASE k <= Len(w)
      <4>1. n = w[k] /\ w[k] # NULL /\ k \in 1 .. Len(w)
        BY <1>1, <1>3, <1>4, <1>5, <3>3
      <4>2. m # Len(w) /\ m + 1 \in 1 .. Len(w) /\ w[m + 1] = w[k]
        BY <1>1, <3>2, <4>1
      <4>3. m + 1 = k
        BY <1>1, <4>1, <4>2
      <4>4. QED
        BY <1>1, <2>2, <3>2, <4>3
    <3>4. CASE ~(k <= Len(w))
      <4>1. n = NULL /\ k = Len(w) + 1
        BY <1>1, <1>4, <1>5, <3>4
      <4>2. m = Len(w)
        <5>1. m # Len(w) => m + 1 \in 1 .. Len(w)
          BY <1>1, <3>2
        <5>2. QED
          BY <1>1, <1>3, <3>2, <4>1, <5>1
      <4>3. QED
        BY <1>1, <2>2, <3>2, <4>1, <4>2
    <3>5. QED
      BY <3>3, <3>4
  <2>3. QED
    BY <2>1, <2>2
<1>10. h2[a].child = u[1] /\ Len(u) # 0
  <2>1. 1 \in 1 .. Len(u)
    BY <1>1, <1>6
  <2>2. CASE k = 1
    BY <1>5, <1>6, <1>7, <1>9, <2>1, <2>2
  <2>3. CASE k # 1
    <3>1. k - 1 \in 1 .. Len(w) /\ 1 < k
      BY <1>1, <1>5, <2>3
    <3>2. p # NULL /\ Len(w) # 0
      BY <1>1, <1>3, <1>9, <2>3, <3>1
    <3>3. h2[a].child = h[a].child /\ h[a].child = w[1]
      BY <1>1, <1>7, <3>2
    <3>4. QED
      BY <1>1, <1>6, <2>1, <3>1, <3>3
  <2>4. QED
    BY <2>2, <2>3
<1>11. ASSUME NEW m \in 1 .. Len(u) PROVE h2[u[m]].next = IF m = Len(u) THEN NULL ELSE u[m + 1]
  <2>1. \A x \in Item : ho[x] = a => x # i /\ h2[x].next = IF x = p THEN i ELSE h[x].next
    BY <1>3, <1>7
  <2>2. CASE m < k - 1
    <3>1. m \in 1 .. Len(w) /\ m + 1 \in 1 .. Len(w) /\ m + 1 \in 1 .. Len(u) /\ k - 1 \in 1 .. Len(w)
          /\ m # k - 1 /\ m + 1 < k /\ m < k /\ m # Len(w) /\ m # Len(u)
      BY <1>1, <1>5, <1>6, <2>2
    <3>2. u[m] = w[m] /\ u[m + 1] = w[m + 1]
      BY <1>6, <3>1
    <3>3. p = w[k - 1] /\ w[m] # p
      BY <1>1, <1>9, <1>5, <2>2, <3>1
    <3>4. h2[w[m]].next = h[w[m]].next
      BY <1>1, <2>1, <3>1, <3>3
    <3>5. QED
      BY <1>1, <3>1, <3>2, <3>4
  <2>3. CASE m = k - 1
    <3>1. m \in 1 .. Len(w) /\ m < k /\ m + 1 = k /\ k # 1 /\ k \in 1 .. Len(u) /\ m # Len(u)
      BY <1>1, <1>5, <1>6, <2>3
    <3>2. u[m] = w[m] /\ u[m + 1] = i /\ p = w[m]
      BY <1>6, <1>9, <2>3, <3>1
    <3>3. QED
      BY <1>1, <2>1, <3>1, <3>2
  <2>4. CASE m = k
    <3>1. u[m] = i /\ h2[i].next = n
      BY <1>6, <1>7, <2>4
    <3>2. m = Len(u) <=> ~(k <= Len(w))
      BY <1>1, <1>5, <1>6, <2>4
    <3>3. CASE k <= Len(w)
      <4>1. m + 1 \in 1 .. Len(u) /\ ~(m + 1 < k) /\ m + 1 # k /\ (m + 1) - 1 = k
        BY <1>1, <1>5, <1>6, <2>4, <3>3
      <4>2. u[m + 1] = w[k]
        BY <1>6, <4>1
      <4>3. QED
        BY <1>4, <3>1, <3>2, <3>3, <4>2
    <3>4. CASE ~(k <= Len(w))
      BY <1>4, <3>1, <3>2, <3>4
    <3>5. QED
      BY <3>3, <3>4
  <2>5. CASE m > k
    <3>1. m - 1 \in 1 .. Len(w) /\ ~(m < k) /\ m # k /\ m - 1 # k - 1 /\ (m - 1) + 1 = m
          /\ (m = Len(u) <=> m - 1 = Len(w))
      BY <1>1, <1>5, <1>6, <2>5
    <3>2. u[m] = w[m - 1]
      BY <1>6, <3>1
    <3>3. w[m - 1] # p
      <4>1. k # 1 => k - 1 \in 1 .. Len(w)
        BY <1>1, <1>5
      <4>2. CASE k = 1
        BY <1>1, <1>3, <1>9, <3>1, <4>2
      <4>3. CASE k # 1
        BY <1>1, <1>9, <3>1, <4>1, <4>3
      <4>4. QED
        BY <4>2, <4>3
    <3>4. h2[w[m - 1]].next = h[w[m - 1]].next
      BY <1>1, <2>1, <3>1, <3>3
    <3>5. h2[u[m]].next = IF m - 1 = Len(w) THEN NULL ELSE w[m]
      BY <1>1, <3>1, <3>2, <3>4
    <3>6. m # Len(u) => u[m + 1] = w[m]
      <4>1. m # Len(u) => m + 1 \in 1 .. Len(u) /\ ~(m + 1 < k) /\ m + 1 # k /\ (m + 1) - 1 = m
        BY <1>1, <1>5, <1>6, <2>5
      <4>2. QED
        BY <1>6, <4>1
    <3>7. QED
      BY <3>1, <3>5, <3>6
  <2>6. QED
    <3>1. m \in Int /\ k \in Int
      BY <1>1, <1>5, <1>6
    <3>2. QED
      BY <2>2, <2>3, <2>4, <2>5, <3>1
<1>12. IsList(h2, a, u)
  BY <1>6, <1>10, <1>11 DEF IsList
<1>13. QED
  BY <1>12 DEF u, w

\* Without its k-th item, a list closes where it was.
LEMMA EmptiedIsList ==
  ASSUME NEW h, NEW ho, Shaped(h, ho), NEW a \in Item, NEW i \in Item, MayEmpty(h, ho, a, i),
         NEW h2, Emptied(h, h2, a, i),
         NEW k \in 1 .. Len(Elements(h, a)), Elements(h, a)[k] = i
  PROVE  IsList(h2, a, RemoveAt(Elements(h, a), k))
<1> DEFINE w == Elements(h, a)
           u == RemoveAt(w, k)
           p == h[i].prev
<1>1. /\ w \in Seq(Item) /\ Len(w) \in Nat
      /\ \A m \in 1 .. Len(w) : w[m] \in Item /\ ho[w[m]] = a
      /\ \A m, j \in 1 .. Len(w) : w[m] = w[j] => m = j
      /\ h[a].child = NULL => Len(w) = 0
      /\ h[a].child # NULL => Len(w) # 0 /\ w[1] = h[a].child
      /\ \A m \in 1 .. Len(w) : h[w[m]].next = IF m = Len(w) THEN NULL ELSE w[m + 1]
  BY ElementsLinks DEF MayEmpty
<1>2. Range(w) = {x \in Item : ho[x] = a} /\ DOMAIN w = 1 .. Len(w)
  BY <1>1, ElementsFacts DEF MayEmpty
<1>3. k \in 1 .. Len(w) /\ w[k] = i
  OBVIOUS
<1>4. /\ NULL \notin Item
      /\ i # h[a].child => p \in Item /\ ho[p] = a /\ h[p].next = i
  BY TakenFacts, ItemsAreFinite
<1>5. /\ u \in Seq(Item) /\ Len(u) = Len(w) - 1
      /\ \A m \in 1 .. Len(u) : u[m] = IF m < k THEN w[m] ELSE w[m + 1]
  <2>1. IsTaken(u, w, k)
    BY <1>1, <1>3, TakeOutFacts
  <2> HIDE DEF u
  <2>2. QED
    BY <2>1 DEF IsTaken
<1>6. \A x \in Item :
        /\ h2[x].next = IF x = i THEN NULL
                        ELSE IF i # h[a].child /\ x = p THEN h[i].next ELSE h[x].next
        /\ h2[x].child = IF x = a /\ i = h[a].child THEN h[i].next ELSE h[x].child
  BY DEF Emptied
<1> HIDE DEF w, u, p
<1>7. h[a].child = w[1] /\ 1 \in 1 .. Len(w) /\ (i = h[a].child <=> k = 1)
  BY <1>1, <1>3
<1>8. h[i].next = IF k = Len(w) THEN NULL ELSE w[k + 1]
  BY <1>1, <1>3
<1>9. k # 1 => p = w[k - 1]
  <2>1. SUFFICES ASSUME k # 1 PROVE p = w[k - 1]
    OBVIOUS
  <2>2. PICK m \in 1 .. Len(w) : p = w[m]
    BY <1>2, <1>4, <1>7, <2>1 DEF Range
  <2>3. h[w[m]].next = i /\ i \in Item
    BY <1>4, <1>7, <2>1, <2>2
  <2>4. m # Len(w) /\ m + 1 \in 1 .. Len(w) /\ w[m + 1] = w[k]
    BY <1>1, <1>3, <1>4, <2>2, <2>3
  <2>5. m + 1 = k
    BY <1>1, <1>3, <2>4
  <2>6. QED
    BY <2>2, <2>5
<1>10. h2[a].child = IF Len(u) = 0 THEN NULL ELSE u[1]
  <2>1. Len(u) # 0 => 1 \in 1 .. Len(u)
    BY <1>1, <1>5
  <2>2. CASE k = 1
    <3>1. h2[a].child = h[i].next /\ (Len(u) = 0 <=> k = Len(w)) /\ ~(1 < k) /\ k + 1 = 1 + 1
      BY <1>1, <1>5, <1>6, <1>7, <2>2
    <3>2. Len(u) # 0 => u[1] = w[1 + 1]
      BY <1>5, <2>1, <3>1
    <3>3. QED
      BY <1>8, <3>1, <3>2
  <2>3. CASE k # 1
    <3>1. h2[a].child = w[1] /\ Len(u) # 0 /\ 1 < k
      BY <1>1, <1>3, <1>5, <1>6, <1>7, <2>3
    <3>2. QED
      BY <1>5, <2>1, <3>1
  <2>4. QED
    BY <2>2, <2>3
<1>11. ASSUME NEW m \in 1 .. Len(u) PROVE h2[u[m]].next = IF m = Len(u) THEN NULL ELSE u[m + 1]
  <2>1. ASSUME NEW j \in 1 .. Len(w), j # k PROVE
          h2[w[j]].next = IF k # 1 /\ j = k - 1 THEN h[i].next ELSE h[w[j]].next
    <3>1. w[j] # i /\ w[j] \in Item
      BY <1>1, <1>3, <2>1
    <3>2. k # 1 => k - 1 \in 1 .. Len(w)
      BY <1>1, <1>3
    <3>3. k # 1 => (w[j] = p <=> j = k - 1)
      BY <1>1, <1>9, <3>2
    <3>4. QED
      BY <1>6, <1>7, <3>1, <3>3
  <2>2. CASE m < k - 1
    <3>1. m \in 1 .. Len(w) /\ m + 1 \in 1 .. Len(u) /\ m < k /\ m + 1 < k /\ m # k /\ m # k - 1
          /\ m # Len(w) /\ m # Len(u)
      BY <1>1, <1>3, <1>5, <2>2
    <3>2. u[m] = w[m] /\ u[m + 1] = w[m + 1]
      BY <1>5, <3>1
    <3>3. h2[w[m]].next = h[w[m]].next
      BY <2>1, <3>1
    <3>4. QED
      BY <1>1, <3>1, <3>2, <3>3
  <2>3. CASE m = k - 1
    <3>1. m \in 1 .. Len(w) /\ m < k /\ m # k /\ k # 1 /\ (m = Len(u) <=> k = Len(w))
      BY <1>1, <1>3, <1>5, <2>3
    <3>2. u[m] = w[m] /\ h2[w[m]].next = h[i].next
      BY <1>5, <2>1, <2>3, <3>1
    <3>3. m # Len(u) => u[m + 1] = w[k + 1]
      <4>1. m # Len(u) => m + 1 \in 1 .. Len(u) /\ ~(m + 1 < k) /\ m + 1 + 1 = k + 1
        BY <1>1, <1>3, <1>5, <2>3
      <4>2. QED
        BY <1>5, <4>1
    <3>4. QED
      BY <1>8, <3>1, <3>2, <3>3
  <2>4. CASE m >= k
    <3>1. m + 1 \in 1 .. Len(w) /\ ~(m < k) /\ m + 1 # k /\ m + 1 # k - 1 /\ (m = Len(u) <=> m + 1 = Len(w))
      BY <1>1, <1>3, <1>5, <2>4
    <3>2. u[m] = w[m + 1] /\ h2[w[m + 1]].next = h[w[m + 1]].next
      BY <1>5, <2>1, <3>1
    <3>3. m # Len(u) => u[m + 1] = w[m + 1 + 1]
      <4>1. m # Len(u) => m + 1 \in 1 .. Len(u) /\ ~(m + 1 < k)
        BY <1>1, <1>3, <1>5, <2>4
      <4>2. QED
        BY <1>5, <4>1
    <3>4. QED
      BY <1>1, <3>1, <3>2, <3>3
  <2>5. QED
    <3>1. m \in Int /\ k \in Int
      BY <1>1, <1>3, <1>5
    <3>2. QED
      BY <2>2, <2>3, <2>4, <3>1
<1>12. IsList(h2, a, u)
  BY <1>5, <1>10, <1>11 DEF IsList
<1>13. QED
  BY <1>12 DEF u, w

\* Where types and references stay, the lists are known from each container's.
LEMMA ListsBecome ==
  ASSUME NEW h, NEW h2, NEW a \in Item, Owns(h, a), NEW t,
         \A x \in Item : h2[x].type = h[x].type /\ h2[x].ref = h[x].ref,
         Elements(h2, a) = t,
         \A b \in Item : b # a /\ Owns(h, b) => Elements(h2, b) = Elements(h, b)
  PROVE  Lists(h2) = [Lists(h) EXCEPT ![a] = t]
<1> DEFINE D == {x \in Item : h[x].type \in Container /\ ~h[x].ref}
           E == {x \in Item : h2[x].type \in Container /\ ~h2[x].ref}
<1>1. D = E
  OBVIOUS
<1>2. \A b \in D : Elements(h2, b) = IF b = a THEN t ELSE Elements(h, b)
  BY DEF Owns
<1>3. Lists(h) = [b \in D |-> Elements(h, b)] /\ Lists(h2) = [b \in D |-> Elements(h2, b)]
  BY <1>1 DEF Lists
<1> HIDE DEF D, E
<1>4. QED
  BY <1>2, <1>3

LEMMA FilledSequence ==
  ASSUME NEW h, NEW ho, Shaped(h, ho), NEW a \in Item, NEW i \in Item, MayFill(h, ho, a, i),
         NEW p, NEW n, NEW q, Gap(h, ho, a, p, n, q, i), NEW h2, Filled(h, h2, a, p, n, q, i),
         NEW k \in 1 .. Len(Elements(h, a)) + 1,
         n = IF k <= Len(Elements(h, a)) THEN Elements(h, a)[k] ELSE NULL
  PROVE  Lists(h2) = [Lists(h) EXCEPT ![a] = InsertAt(Elements(h, a), k, i)]
<1> DEFINE ho2 == [ho EXCEPT ![i] = a]
<1>1. Shaped(h2, ho2)
  BY FilledShaped
<1>2. /\ \A x \in Item : h2[x].type = h[x].type /\ h2[x].ref = h[x].ref
      /\ \A x \in Item : x # i /\ x # p => h2[x].next = h[x].next
      /\ \A x \in Item : x # a => h2[x].child = h[x].child
  BY DEF Filled
<1>3. Owns(h, a) /\ ho[i] = NULL /\ NULL \notin Item /\ (p # NULL => p \in Item /\ ho[p] = a)
  BY GapFacts, ItemsAreFinite DEF MayFill
<1> HIDE DEF ho2
<1>4. Elements(h2, a) = InsertAt(Elements(h, a), k, i)
  <2>1. IsList(h2, a, InsertAt(Elements(h, a), k, i))
    BY FilledIsList
  <2>2. Owns(h2, a)
    BY <1>2, <1>3 DEF Owns
  <2>3. QED
    BY <1>1, <2>1, <2>2, ListIsElements
<1>5. ASSUME NEW b \in Item, b # a, Owns(h, b) PROVE Elements(h2, b) = Elements(h, b)
  <2> DEFINE v == Elements(h, b)
  <2>1. /\ v \in Seq(Item) /\ Len(v) \in Nat
        /\ \A m \in 1 .. Len(v) : v[m] \in Item /\ ho[v[m]] = b
        /\ h[b].child = NULL => Len(v) = 0
        /\ h[b].child # NULL => Len(v) # 0 /\ v[1] = h[b].child
        /\ \A m \in 1 .. Len(v) : h[v[m]].next = IF m = Len(v) THEN NULL ELSE v[m + 1]
    BY <1>5, ElementsLinks
  <2> HIDE DEF v
  <2>2. ASSUME NEW m \in 1 .. Len(v) PROVE h2[v[m]].next = h[v[m]].next
    <3>1. v[m] \in Item /\ ho[v[m]] = b
      BY <2>1
    <3>2. v[m] # i /\ v[m] # p
      BY <1>3, <1>5, <3>1
    <3>3. QED
      BY <1>2, <3>1, <3>2
  <2>3. IsList(h2, b, v)
    BY <1>2, <1>5, <2>1, <2>2 DEF IsList
  <2>4. Owns(h2, b)
    BY <1>2, <1>5 DEF Owns
  <2>5. QED
    BY <1>1, <2>3, <2>4, ListIsElements DEF v
<1>6. QED
  BY <1>2, <1>3, <1>4, <1>5, ListsBecome

LEMMA EmptiedSequence ==
  ASSUME NEW h, NEW ho, Shaped(h, ho), NEW a \in Item, NEW i \in Item, MayEmpty(h, ho, a, i),
         NEW h2, Emptied(h, h2, a, i),
         NEW k \in 1 .. Len(Elements(h, a)), Elements(h, a)[k] = i
  PROVE  Lists(h2) = [Lists(h) EXCEPT ![a] = RemoveAt(Elements(h, a), k)]
<1> DEFINE ho2 == [ho EXCEPT ![i] = NULL]
<1>1. Shaped(h2, ho2)
  BY EmptiedShaped
<1>2. /\ \A x \in Item : h2[x].type = h[x].type /\ h2[x].ref = h[x].ref
      /\ \A x \in Item : x # i /\ ~(i # h[a].child /\ x = h[i].prev) => h2[x].next = h[x].next
      /\ \A x \in Item : x # a => h2[x].child = h[x].child
  BY DEF Emptied
<1>3. Owns(h, a) /\ ho[i] = a /\ (i # h[a].child => ho[h[i].prev] = a)
  BY TakenFacts, ItemsAreFinite DEF MayEmpty
<1> HIDE DEF ho2
<1>4. Elements(h2, a) = RemoveAt(Elements(h, a), k)
  <2>1. IsList(h2, a, RemoveAt(Elements(h, a), k))
    BY EmptiedIsList
  <2>2. Owns(h2, a)
    BY <1>2, <1>3 DEF Owns
  <2>3. QED
    BY <1>1, <2>1, <2>2, ListIsElements
<1>5. ASSUME NEW b \in Item, b # a, Owns(h, b) PROVE Elements(h2, b) = Elements(h, b)
  <2> DEFINE v == Elements(h, b)
  <2>1. /\ v \in Seq(Item) /\ Len(v) \in Nat
        /\ \A m \in 1 .. Len(v) : v[m] \in Item /\ ho[v[m]] = b
        /\ h[b].child = NULL => Len(v) = 0
        /\ h[b].child # NULL => Len(v) # 0 /\ v[1] = h[b].child
        /\ \A m \in 1 .. Len(v) : h[v[m]].next = IF m = Len(v) THEN NULL ELSE v[m + 1]
    BY <1>5, ElementsLinks
  <2> HIDE DEF v
  <2>2. ASSUME NEW m \in 1 .. Len(v) PROVE h2[v[m]].next = h[v[m]].next
    <3>1. v[m] \in Item /\ ho[v[m]] = b
      BY <2>1
    <3>2. v[m] # i /\ ~(i # h[a].child /\ v[m] = h[i].prev)
      BY <1>3, <1>5, <3>1
    <3>3. QED
      BY <1>2, <3>1, <3>2
  <2>3. IsList(h2, b, v)
    BY <1>2, <1>5, <2>1, <2>2 DEF IsList
  <2>4. Owns(h2, b)
    BY <1>2, <1>5 DEF Owns
  <2>5. QED
    BY <1>1, <2>3, <2>4, ListIsElements DEF v
<1>6. QED
  BY <1>2, <1>3, <1>4, <1>5, ListsBecome

\* A key changes no list.
LEMMA RenamedSequence ==
  ASSUME NEW h, NEW ho, Shaped(h, ho), NEW i \in Item, h[i].type # "free", ho[i] = NULL,
         NEW s \in Key \cup {NULL}
  PROVE  LET h2 == [h EXCEPT ![i].string = s] IN
         /\ Shaped(h2, ho) /\ Lists(h2) = Lists(h)
         /\ \A a \in Item : h2[a].type = h[a].type /\ h2[a].ref = h[a].ref /\ h2[a].child = h[a].child
         /\ h2[i].string = s
<1> DEFINE h2 == [h EXCEPT ![i].string = s]
           D == {x \in Item : h[x].type \in Container /\ ~h[x].ref}
           E == {x \in Item : h2[x].type \in Container /\ ~h2[x].ref}
<1>1. Shaped(h2, ho) /\ h \in [Item -> Cell]
  <2>1. h \in [Item -> Cell]
    BY DEF Shaped, Typed
  <2>2. Shaped(h2, ho)
    BY RenameShaped
  <2>3. QED
    BY <2>1, <2>2
<1>2. /\ \A x \in Item :
           /\ h2[x].type = h[x].type /\ h2[x].ref = h[x].ref
           /\ h2[x].next = h[x].next /\ h2[x].child = h[x].child
      /\ h2[i].string = s
  BY <1>1 DEF Cell
<1> HIDE DEF h2
<1>3. ASSUME NEW b \in Item, Owns(h, b) PROVE Elements(h2, b) = Elements(h, b)
  <2> DEFINE v == Elements(h, b)
  <2>1. /\ v \in Seq(Item) /\ Len(v) \in Nat
        /\ \A m \in 1 .. Len(v) : v[m] \in Item
        /\ h[b].child = NULL => Len(v) = 0
        /\ h[b].child # NULL => Len(v) # 0 /\ v[1] = h[b].child
        /\ \A m \in 1 .. Len(v) : h[v[m]].next = IF m = Len(v) THEN NULL ELSE v[m + 1]
    BY <1>3, ElementsLinks
  <2> HIDE DEF v
  <2>2. IsList(h2, b, v)
    BY <1>2, <1>3, <2>1 DEF IsList
  <2>3. Owns(h2, b)
    BY <1>2, <1>3 DEF Owns
  <2>4. QED
    BY <1>1, <2>2, <2>3, ListIsElements DEF v
<1>4. D = E /\ \A b \in D : Elements(h2, b) = Elements(h, b)
  BY <1>2, <1>3 DEF Owns
<1>5. Lists(h) = [b \in D |-> Elements(h, b)] /\ Lists(h2) = [b \in D |-> Elements(h2, b)]
  BY <1>4 DEF Lists
<1> HIDE DEF D, E
<1>6. Lists(h2) = Lists(h)
  BY <1>4, <1>5
<1>7. QED
  BY <1>1, <1>2, <1>6 DEF h2

\* What the calls do to the list of one container, from a memory of the shape.
LEMMA DetachActs ==
  ASSUME NEW h, NEW ho, Shaped(h, ho), NEW a \in Item, NEW k \in 1 .. Len(Elements(h, a)),
         MayEmpty(h, ho, a, Elements(h, a)[k]), Elements(h, a)[k] \in Item
  PROVE  Lists(DetachItemViaPointer(h, a, Elements(h, a)[k]))
           = [Lists(h) EXCEPT ![a] = RemoveAt(Elements(h, a), k)]
BY DetachEmpties, EmptiedSequence

LEMMA AddActs ==
  ASSUME NEW h, NEW ho, Shaped(h, ho), NEW a \in Item, NEW i \in Item, MayFill(h, ho, a, i)
  PROVE  Lists(AddItemToArray(h, a, i)) = [Lists(h) EXCEPT ![a] = Append(Elements(h, a), i)]
<1> DEFINE w == Elements(h, a)
           k == Len(w) + 1
<1>1. w \in Seq(Item) /\ Len(w) \in Nat
  BY ElementsLinks DEF MayFill
<1>2. k \in 1 .. Len(w) + 1 /\ ~(k <= Len(w))
  BY <1>1
<1>3. PICK p, n, q : /\ n = NULL /\ Gap(h, ho, a, p, n, q, i)
                     /\ Filled(h, AddItemToArray(h, a, i), a, p, n, q, i)
  BY AddFills
<1>4. n = IF k <= Len(w) THEN w[k] ELSE NULL
  BY <1>2, <1>3
<1> HIDE DEF k
<1>5. Lists(AddItemToArray(h, a, i)) = [Lists(h) EXCEPT ![a] = InsertAt(w, k, i)]
  BY <1>2, <1>3, <1>4, FilledSequence
<1>6. InsertAt(w, k, i) = Append(w, i)
  BY <1>1, PutBack DEF k
<1>7. QED
  BY <1>5, <1>6

LEMMA InsertActs ==
  ASSUME NEW h, NEW ho, Shaped(h, ho), NEW a \in Item, NEW i \in Item, MayFill(h, ho, a, i),
         NEW k \in 1 .. Len(Elements(h, a))
  PROVE  Lists(InsertItemInArray(h, a, k - 1, i))
           = [Lists(h) EXCEPT ![a] = InsertAt(Elements(h, a), k, i)]
<1> DEFINE w == Elements(h, a)
<1>1. w \in Seq(Item) /\ Len(w) \in Nat
  BY ElementsLinks DEF MayFill
<1>2. /\ k \in 1 .. Len(w) + 1 /\ k <= Len(w) /\ k - 1 < Len(w) /\ (k - 1) + 1 = k
      /\ k - 1 \in Nat
  BY <1>1
<1>3. PICK p, n, q : /\ n = GetArrayItem(h, a, k - 1) /\ Gap(h, ho, a, p, n, q, i)
                     /\ Filled(h, InsertItemInArray(h, a, k - 1, i), a, p, n, q, i)
  BY <1>2, InsertFills
<1>4. n = IF k <= Len(w) THEN w[k] ELSE NULL
  BY <1>2, <1>3 DEF GetArrayItem, GetArraySize
<1>5. QED
  BY <1>2, <1>3, <1>4, FilledSequence

LEMMA ReplaceActs ==
  ASSUME NEW h, NEW ho, Shaped(h, ho), NEW a \in Item, NEW r \in Item, MayFill(h, ho, a, r),
         NEW k \in 1 .. Len(Elements(h, a)), Elements(h, a)[k] \in Item,
         MayEmpty(h, ho, a, Elements(h, a)[k])
  PROVE  Lists(ReplaceItemViaPointer(h, a, Elements(h, a)[k], r))
           = [Lists(h) EXCEPT ![a] = ReplaceAt(Elements(h, a), k, r)]
<1> DEFINE w == Elements(h, a)
           i == w[k]
           h1 == DetachItemViaPointer(h, a, i)
           ho1 == [ho EXCEPT ![i] = NULL]
           v == RemoveAt(w, k)
<1>1. /\ w \in Seq(Item) /\ Len(w) \in Nat
      /\ \A m \in 1 .. Len(w) : h[w[m]].next = IF m = Len(w) THEN NULL ELSE w[m + 1]
  BY ElementsLinks DEF MayFill
<1>2. k \in 1 .. Len(w) /\ i \in Item
  OBVIOUS
<1>3. Emptied(h, h1, a, i) /\ Shaped(h1, ho1)
  <2>1. Emptied(h, h1, a, i)
    BY DetachEmpties
  <2>2. QED
    BY <2>1, EmptiedShaped
<1>4. Lists(h1) = [Lists(h) EXCEPT ![a] = v]
  BY <1>3, EmptiedSequence
<1>5. PICK p, n, q :
        /\ n = h[i].next
        /\ Gap(h1, ho1, a, p, n, q, r)
        /\ Filled(h1, ReplaceItemViaPointer(h, a, i, r), a, p, n, q, r)
  BY <1>3, ReplaceFills
<1>6. \A x \in Item :
        h1[x].type = h[x].type /\ h1[x].ref = h[x].ref /\ h1[x].string = h[x].string
  BY <1>3 DEF Emptied
<1>7. MayFill(h1, ho1, a, r) /\ Owns(h, a)
  <2>1. ho1[r] = NULL
    BY DEF MayFill, Shaped, Typed
  <2> HIDE DEF h1, ho1
  <2>2. QED
    BY <1>6, <2>1 DEF MayFill, Owns
<1>8. /\ v \in Seq(Item) /\ Len(v) = Len(w) - 1
      /\ \A m \in 1 .. Len(v) : v[m] = IF m < k THEN w[m] ELSE w[m + 1]
  <2>1. IsTaken(v, w, k)
    BY <1>1, <1>2, TakeOutFacts
  <2> HIDE DEF v
  <2>2. QED
    BY <2>1 DEF IsTaken
<1> HIDE DEF h1, ho1, v
<1>9. Elements(h1, a) = v
  <2>1. Lists(h1)[a] = Elements(h1, a) /\ a \in DOMAIN Lists(h)
    BY <1>6, <1>7 DEF Lists, Owns
  <2>2. QED
    BY <1>4, <2>1
<1>10. k \in 1 .. Len(v) + 1 /\ n = IF k <= Len(v) THEN v[k] ELSE NULL
  <2>1. k \in 1 .. Len(v) + 1 /\ (k <= Len(v) <=> k # Len(w))
    BY <1>1, <1>2, <1>8
  <2>2. k <= Len(v) => v[k] = w[k + 1]
    BY <1>1, <1>2, <1>8
  <2>3. n = IF k = Len(w) THEN NULL ELSE w[k + 1]
    BY <1>1, <1>2, <1>5
  <2>4. QED
    BY <2>1, <2>2, <2>3
<1>11. Lists(ReplaceItemViaPointer(h, a, i, r)) = [Lists(h1) EXCEPT ![a] = InsertAt(v, k, r)]
  <2>1. Shaped(h1, ho1)
    BY <1>3
  <2>2. QED
    BY <1>5, <1>7, <1>9, <1>10, <2>1, FilledSequence
<1>12. InsertAt(v, k, r) = ReplaceAt(w, k, r)
  BY <1>1, <1>2, PutBack DEF v
<1>13. QED
  BY <1>4, <1>11, <1>12

LEMMA CallsOnSequencesHold == ASSUME Inv PROVE CallsActOnSequences
<1>1. Shaped(cell, holder) /\ NULL \notin Item
  BY MemoryFacts
<1> SUFFICES ASSUME NEW a \in DOMAIN Lists(cell), Unshared(a)
             PROVE  LET lists == Lists(cell)
                        s == lists[a]
                        Becomes(h, t) == Lists(h) = [lists EXCEPT ![a] = t]
                    IN  /\ \A k \in DOMAIN s :
                             Becomes(DetachItemViaPointer(cell, a, s[k]), RemoveAt(s, k))
                        /\ \A i \in Roots : MayTake(a, cell[a].type, i) =>
                             \A key \in IF cell[a].type = "object" THEN Key ELSE {cell[i].string} :
                               LET h == [cell EXCEPT ![i].string = key] IN
                               /\ Becomes(AddItemToArray(h, a, i), Append(s, i))
                               /\ \A k \in DOMAIN s :
                                    /\ Becomes(InsertItemInArray(h, a, k - 1, i), InsertAt(s, k, i))
                                    /\ Becomes(ReplaceItemViaPointer(h, a, s[k], i), ReplaceAt(s, k, i))
  BY DEF CallsActOnSequences
<1> DEFINE s == Lists(cell)[a]
<1>2. /\ a \in Item /\ Owns(cell, a) /\ cell[a].type \in Container /\ Owner(a, cell[a].type)
      /\ s = Elements(cell, a)
  BY <1>1 DEF Lists, Owns, Owner, IsA
<1> HIDE DEF s
<1>3. /\ s \in Seq(Item) /\ DOMAIN s = 1 .. Len(s)
      /\ \A k \in 1 .. Len(s) : s[k] \in Item /\ holder[s[k]] = a
  BY <1>1, <1>2, ElementsLinks
<1>4. \A k \in 1 .. Len(s) : MayEmpty(cell, holder, a, s[k])
  BY <1>2, <1>3, OutFacts
<1>5. ASSUME NEW k \in DOMAIN s
      PROVE  Lists(DetachItemViaPointer(cell, a, s[k])) = [Lists(cell) EXCEPT ![a] = RemoveAt(s, k)]
  <2>1. k \in 1 .. Len(Elements(cell, a))
    BY <1>2, <1>3
  <2>2. MayEmpty(cell, holder, a, Elements(cell, a)[k]) /\ Elements(cell, a)[k] \in Item
    BY <1>2, <1>3, <1>4, <2>1
  <2>3. Lists(DetachItemViaPointer(cell, a, Elements(cell, a)[k]))
          = [Lists(cell) EXCEPT ![a] = RemoveAt(Elements(cell, a), k)]
    <3>1. a \in Item /\ Shaped(cell, holder)
      BY <1>1, <1>2
    <3> HIDE DEF s
    <3>2. QED
      BY ONLY <2>1, <2>2, <3>1, DetachActs
  <2>4. QED
    BY <1>2, <2>3
<1>6. ASSUME NEW i \in Roots, MayTake(a, cell[a].type, i),
             NEW key \in IF cell[a].type = "object" THEN Key ELSE {cell[i].string}
      PROVE  LET h == [cell EXCEPT ![i].string = key] IN
             /\ Lists(AddItemToArray(h, a, i)) = [Lists(cell) EXCEPT ![a] = Append(s, i)]
             /\ \A k \in DOMAIN s :
                  /\ Lists(InsertItemInArray(h, a, k - 1, i)) = [Lists(cell) EXCEPT ![a] = InsertAt(s, k, i)]
                  /\ Lists(ReplaceItemViaPointer(h, a, s[k], i)) = [Lists(cell) EXCEPT ![a] = ReplaceAt(s, k, i)]
  <2> DEFINE h == [cell EXCEPT ![i].string = key]
  <2>1. i \in Item /\ holder[i] = NULL /\ a # i /\ cell[i].type # "free"
    BY <1>2, <1>6, TakeFacts DEF Roots
  <2>2. key \in Key \cup {NULL} /\ (cell[a].type = "object" => key # NULL)
    BY <1>1, <2>1, ShapeFacts, ItemsAreFinite
  <2>3. /\ Shaped(h, holder) /\ Lists(h) = Lists(cell)
        /\ \A x \in Item :
             h[x].type = cell[x].type /\ h[x].ref = cell[x].ref /\ h[x].child = cell[x].child
        /\ h[i].string = key
    BY <1>1, <2>1, <2>2, RenamedSequence
  <2> HIDE DEF h
  <2>4. Elements(h, a) = s
    <3>1. a \in DOMAIN Lists(h) /\ Lists(h)[a] = Elements(h, a)
      BY <1>2, <2>3 DEF Lists, Owns
    <3>2. QED
      BY <2>3, <3>1 DEF s
  <2>5. MayFill(h, holder, a, i)
    BY <1>2, <2>1, <2>2, <2>3 DEF MayFill, Owns
  <2>6. \A k \in 1 .. Len(s) : MayEmpty(h, holder, a, s[k])
    BY <1>2, <1>4, <2>3 DEF MayEmpty, Owns
  <2>7. Lists(AddItemToArray(h, a, i)) = [Lists(cell) EXCEPT ![a] = Append(s, i)]
    BY <1>2, <2>1, <2>3, <2>4, <2>5, AddActs
  <2>8. ASSUME NEW k \in DOMAIN s
        PROVE  /\ Lists(InsertItemInArray(h, a, k - 1, i)) = [Lists(cell) EXCEPT ![a] = InsertAt(s, k, i)]
               /\ Lists(ReplaceItemViaPointer(h, a, s[k], i)) = [Lists(cell) EXCEPT ![a] = ReplaceAt(s, k, i)]
    <3>1. k \in 1 .. Len(s) /\ s[k] \in Item
      BY <1>3
    <3>2. Lists(InsertItemInArray(h, a, k - 1, i)) = [Lists(cell) EXCEPT ![a] = InsertAt(s, k, i)]
      BY <1>2, <2>1, <2>3, <2>4, <2>5, <3>1, InsertActs
    <3>3. Lists(ReplaceItemViaPointer(h, a, s[k], i)) = [Lists(cell) EXCEPT ![a] = ReplaceAt(s, k, i)]
      <4>1. k \in 1 .. Len(Elements(h, a)) /\ Elements(h, a)[k] \in Item
        BY <2>4, <3>1
      <4>2. MayEmpty(h, holder, a, Elements(h, a)[k])
        BY <2>4, <2>6, <3>1
      <4>3. Lists(ReplaceItemViaPointer(h, a, Elements(h, a)[k], i))
              = [Lists(h) EXCEPT ![a] = ReplaceAt(Elements(h, a), k, i)]
        BY <1>2, <2>1, <2>3, <2>5, <4>1, <4>2, ReplaceActs
      <4>4. QED
        BY <2>3, <2>4, <4>3
    <3>4. QED
      BY <3>2, <3>3
  <2>9. QED
    BY <2>7, <2>8 DEF h
<1>7. QED
  BY <1>5, <1>6 DEF s

\* Whatever memory the program has and whatever calls made its trees, the next call acts
\* on a container as on a sequence: it adds at the end, inserts before the item that had
\* the place, detaches or replaces that item alone, and no other container's list sees it.
THEOREM CallsOnSequences == Spec => []CallsActOnSequences
<1>1. Init => Inv
  BY InitShape
<1>2. Inv /\ [Next]_vars => Inv'
  BY StepKeepsShape
<1>3. Inv => CallsActOnSequences
  BY CallsOnSequencesHold
<1>4. QED
  BY <1>1, <1>2, <1>3, PTL DEF Spec
===============================================================================
