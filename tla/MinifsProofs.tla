---------------------------- MODULE MinifsProofs ----------------------------
(***************************************************************************)
(* Proofs about Minifs for every size of the volume and every set of       *)
(* paths: its invariants, and that it implements the tree of names.        *)
(*                                                                         *)
(* The operations hand a volume on, so the lemmas are about volumes: what  *)
(* ensure_block and free_inode_blocks do to the pointers, what dir_add and *)
(* dir_remove do to the entries, then what each call does.  The calls come *)
(* down to four kinds of steps (KeepStep, MakeStep, EraseStep, MoveStep),  *)
(* from which the invariants and the refinement follow.                    *)
(***************************************************************************)
EXTENDS Minifs, WellFoundedInduction, FiniteSetTheorems, SequenceTheorems, Remainders, TLAPS

-----------------------------------------------------------------------------
(* Induction over the natural numbers, in terms of sets.                   *)
LEMMA Least ==
  ASSUME NEW T \in SUBSET Nat, T # {}
  PROVE  \E x \in T : \A y \in T : x <= y
<1> DEFINE R == {ss \in Nat \X Nat : ss[1] < ss[2]}
<1>1. IsWellFoundedOn(R, Nat)
  BY NatLessThanWellFounded, Zenon DEF OpToRel
<1> HIDE DEF R
<1>2. PICK x \in T : \A y \in T : ~ (<<y, x>> \in R)
  BY <1>1, WFMin
<1>3. ASSUME NEW y \in T PROVE x <= y
  <2>1. x \in Nat /\ y \in Nat
    OBVIOUS
  <2>2. y < x => <<y, x>> \in R
    BY <2>1 DEF R
  <2> QED BY <1>2, <2>1, <2>2
<1> QED BY <1>3

(* Induction along the naturals, over a set instead of a predicate.        *)
LEMMA Induct ==
  ASSUME NEW T, 0 \in T, \A n \in Nat : n \in T => n + 1 \in T
  PROVE  Nat \subseteq T
<1> DEFINE U == Nat \ T
<1>1. CASE U # {}
  <2>1. PICK x \in U : \A y \in U : x <= y
    BY <1>1, Least
  <2>2. x - 1 \in Nat /\ x - 1 \notin U
    BY <2>1
  <2> QED BY <2>1, <2>2
<1> QED BY <1>1

(* Minima and maxima.                                                      *)
LEMMA MinIs ==
  ASSUME NEW T \in SUBSET Nat, T # {}
  PROVE  Min(T) \in T /\ \A y \in T : Min(T) <= y
<1>1. \E x \in T : \A y \in T : x <= y
  BY Least
<1> QED BY <1>1, Zenon DEF Min

LEMMA MinOfTwo ==
  ASSUME NEW a \in Int, NEW b \in Int
  PROVE  Min({a, b}) = IF a <= b THEN a ELSE b
  BY DEF Min

LEMMA MaxOfTwo ==
  ASSUME NEW a \in Int, NEW b \in Int
  PROVE  Max({a, b}) = IF a <= b THEN b ELSE a
  BY DEF Max

(* What a recursive definition along the naturals defines, given its step  *)
(* as a function.                                                          *)
Exists(T, base, step) ==
  \E f \in [Nat -> T] : f[0] = base /\ \A n \in Nat : f[n + 1] = step[<<f[n], n>>]

(* A recursive definition along the naturals has a value: the values up to *)
(* each m exist, and agree.                                                *)
LEMMA Recursion ==
  ASSUME NEW T, NEW base \in T, NEW step \in [T \X Nat -> T]
  PROVE  Exists(T, base, step)
<1> DEFINE Runs(m) == {p \in [0 .. m -> T] :
                         p[0] = base /\ \A n \in 0 .. m - 1 : p[n + 1] = step[<<p[n], n>>]}
<1>1. ASSUME NEW m \in Nat, NEW k \in Nat, NEW p \in Runs(m), NEW q \in Runs(k)
      PROVE  \A n \in Nat : n <= m /\ n <= k => p[n] = q[n]
  <2> DEFINE U == {n \in Nat : n <= m /\ n <= k => p[n] = q[n]}
  <2>1. 0 \in U
    OBVIOUS
  <2>2. ASSUME NEW n \in Nat, n \in U PROVE n + 1 \in U
    <3> SUFFICES ASSUME n + 1 <= m, n + 1 <= k PROVE p[n + 1] = q[n + 1]
      OBVIOUS
    <3>1. p[n] = q[n] /\ n \in 0 .. m - 1 /\ n \in 0 .. k - 1
      BY <2>2
    <3> QED BY <3>1
  <2> HIDE DEF U
  <2>3. Nat \subseteq U
    BY <2>1, <2>2, Induct
  <2> QED BY <2>3 DEF U
<1>2. \A m \in Nat : Runs(m) # {}
  <2> DEFINE U == {m \in Nat : Runs(m) # {}}
  <2>1. 0 \in U
    <3>1. [n \in 0 .. 0 |-> base] \in Runs(0)
      OBVIOUS
    <3> QED BY <3>1
  <2>2. ASSUME NEW m \in Nat, m \in U PROVE m + 1 \in U
    <3>1. PICK p \in Runs(m) : TRUE
      BY <2>2
    <3> DEFINE q == [n \in 0 .. m + 1 |-> IF n = m + 1 THEN step[<<p[m], m>>] ELSE p[n]]
    <3>2. q \in [0 .. m + 1 -> T]
      <4>1. p[m] \in T /\ step[<<p[m], m>>] \in T
        BY <3>1
      <4> QED BY <4>1, <3>1
    <3>3. q[0] = base
      BY <3>1
    <3>4. ASSUME NEW n \in 0 .. (m + 1) - 1 PROVE q[n + 1] = step[<<q[n], n>>]
      <4>1. n \in Nat /\ n <= m /\ n # m + 1 /\ n + 1 \in 0 .. m + 1 /\ n \in 0 .. m + 1
        OBVIOUS
      <4>2. q[n] = p[n]
        BY <4>1
      <4>3. CASE n = m
        <5>1. q[n + 1] = step[<<p[m], m>>]
          BY <4>3
        <5> QED BY <4>2, <4>3, <5>1
      <4>4. CASE n # m
        <5>1. n \in 0 .. m - 1 /\ n + 1 # m + 1
          BY <4>1, <4>4
        <5>2. q[n + 1] = p[n + 1]
          BY <4>1, <5>1
        <5> QED BY <3>1, <4>2, <5>1, <5>2
      <4> QED BY <4>3, <4>4
    <3>5. q \in Runs(m + 1)
      BY <3>2, <3>3, <3>4
    <3> HIDE DEF Runs, q
    <3> QED BY <3>5
  <2> HIDE DEF U
  <2>3. Nat \subseteq U
    BY <2>1, <2>2, Induct
  <2> QED BY <2>3 DEF U
<1> DEFINE run == [m \in Nat |-> CHOOSE p \in Runs(m) : TRUE]
<1>3. \A m \in Nat : run[m] \in Runs(m)
  BY <1>2
<1>4. \A m \in Nat : /\ run[m] \in [0 .. m -> T] /\ run[m][0] = base
                      /\ \A n \in 0 .. m - 1 : run[m][n + 1] = step[<<run[m][n], n>>]
  BY <1>3
<1>5. \A m \in Nat : run[m + 1][m] = run[m][m]
  <2> SUFFICES ASSUME NEW m \in Nat PROVE run[m + 1][m] = run[m][m]
    OBVIOUS
  <2> HIDE DEF Runs, run
  <2>1. run[m] \in Runs(m) /\ run[m + 1] \in Runs(m + 1)
    BY <1>3
  <2> QED BY <2>1, <1>1
<1> HIDE DEF run
<1> DEFINE f == [m \in Nat |-> run[m][m]]
<1>6. f \in [Nat -> T] /\ f[0] = base
  BY <1>4
<1>7. ASSUME NEW n \in Nat PROVE f[n + 1] = step[<<f[n], n>>]
  <2>1. run[n + 1][n + 1] = step[<<run[n + 1][n], n>>]
    BY <1>4
  <2> QED BY <2>1, <1>5
<1> QED BY <1>6, <1>7 DEF Exists

-----------------------------------------------------------------------------
(***************************************************************************)
(* Blocks.                                                                 *)
(***************************************************************************)
Inode == [used : BOOLEAN, type : {"free", "file", "dir"}, parent : 0 .. Inodes - 1,
          size : 0 .. Blocks * PerBlock, ptr : [0 .. Direct + 1 -> 0 .. Blocks]]
Entry == [name : Name, ino : 0 .. Inodes - 1, type : {"free", "file", "dir"}]
Volumes == [inodes : [Ino -> Inode], entries : [Ino -> Seq(Entry)],
            tables : [Block -> [0 .. PerTable - 1 -> 0 .. Blocks]],
            used : [Block -> BOOLEAN], cursor : Block]

(* What the assumption on the constants says, fact by fact.                *)
LEMMA Geometry ==
  /\ Direct \in Nat /\ Direct > 0 /\ PerTable \in Nat /\ PerTable > 0
  /\ PerBlock \in Nat /\ PerBlock > 0 /\ Blocks \in Nat /\ Blocks > 0
  /\ Blocks <= Direct + PerTable + PerTable * PerTable /\ PerTable * PerTable \in Nat
  /\ Inodes \in Nat /\ Inodes > 1 /\ Root \in Ino /\ 0 \notin Ino /\ Ino \subseteq Nat
  /\ Block \subseteq 0 .. Blocks /\ 0 \notin Block /\ 0 .. Blocks \subseteq Block \cup {0}
<1>1. PerTable * PerTable \in Nat
  BY GeometryAssumption
<1> QED BY <1>1, GeometryAssumption DEF Ino, Root, Block

LEMMA FollowIs ==
  ASSUME NEW v, NEW i
  PROVE  /\ \A k : Follow(v, i, <<k>>) = v.inodes[i].ptr[k]
         /\ \A h, k : Follow(v, i, <<h, k>>) = Pointer(v, v.inodes[i].ptr[h], k)
         /\ \A h, j, k : Follow(v, i, <<h, j, k>>)
                           = Pointer(v, Pointer(v, v.inodes[i].ptr[h], j), k)
  BY DEF Follow

LEMMA ShortSubSeq ==
  ASSUME NEW h, NEW j, NEW k
  PROVE  /\ SubSeq(<<h>>, 1, 1) = <<h>>
         /\ SubSeq(<<h, k>>, 1, 1) = <<h>> /\ SubSeq(<<h, k>>, 1, 2) = <<h, k>>
         /\ SubSeq(<<h, j, k>>, 1, 1) = <<h>> /\ SubSeq(<<h, j, k>>, 1, 2) = <<h, j>>
         /\ SubSeq(<<h, j, k>>, 1, 3) = <<h, j, k>>
<1> DEFINE S == {h, j, k}
<1>1. ASSUME NEW s \in Seq(S), NEW t \in Seq(S), Len(t) <= Len(s), Len(t) > 0,
             \A m \in 1 .. Len(t) : s[m] = t[m]
      PROVE  SubSeq(s, 1, Len(t)) = t
  <2>1. Len(t) \in Nat /\ Len(s) \in Nat
    OBVIOUS
  <2>2. \A m \in 1 .. Len(t) : s[m] \in S
    BY <2>1, <1>1
  <2>3. /\ SubSeq(s, 1, Len(t)) \in Seq(S)
        /\ Len(SubSeq(s, 1, Len(t))) = Len(t)
        /\ \A m \in 1 .. Len(t) : SubSeq(s, 1, Len(t))[m] = s[1 + m - 1]
    BY <2>1, <2>2, <1>1, SubSeqProperties, SMT
  <2>4. \A m \in 1 .. Len(t) : SubSeq(s, 1, Len(t))[m] = t[m]
    BY <2>1, <2>3, <1>1
  <2> QED BY <2>3, <2>4, SeqEqual
<1>2. <<h>> \in Seq(S) /\ <<h, k>> \in Seq(S) /\ <<h, j>> \in Seq(S) /\ <<h, j, k>> \in Seq(S)
  OBVIOUS
<1>3. Len(<<h>>) = 1 /\ Len(<<h, k>>) = 2 /\ Len(<<h, j>>) = 2 /\ Len(<<h, j, k>>) = 3
  OBVIOUS
<1>5. SubSeq(<<h>>, 1, Len(<<h>>)) = <<h>>
  <2>1. Len(<<h>>) <= Len(<<h>>) /\ Len(<<h>>) > 0
    OBVIOUS
  <2> QED BY <2>1, <1>1, <1>2, Zenon
<1>6. SubSeq(<<h, k>>, 1, Len(<<h>>)) = <<h>>
  <2>1. /\ Len(<<h>>) <= Len(<<h, k>>) /\ Len(<<h>>) > 0
        /\ \A m \in 1 .. Len(<<h>>) : <<h, k>>[m] = <<h>>[m]
    OBVIOUS
  <2> QED BY <2>1, <1>1, <1>2, Zenon
<1>7. SubSeq(<<h, j, k>>, 1, Len(<<h>>)) = <<h>>
  <2>1. /\ Len(<<h>>) <= Len(<<h, j, k>>) /\ Len(<<h>>) > 0
        /\ \A m \in 1 .. Len(<<h>>) : <<h, j, k>>[m] = <<h>>[m]
    OBVIOUS
  <2> QED BY <2>1, <1>1, <1>2, Zenon
<1>8. SubSeq(<<h, k>>, 1, Len(<<h, k>>)) = <<h, k>>
  <2>1. Len(<<h, k>>) <= Len(<<h, k>>) /\ Len(<<h, k>>) > 0
    OBVIOUS
  <2> QED BY <2>1, <1>1, <1>2, Zenon
<1>9. SubSeq(<<h, j, k>>, 1, Len(<<h, j>>)) = <<h, j>>
  <2>1. /\ Len(<<h, j>>) <= Len(<<h, j, k>>) /\ Len(<<h, j>>) > 0
        /\ \A m \in 1 .. Len(<<h, j>>) : <<h, j, k>>[m] = <<h, j>>[m]
    OBVIOUS
  <2> QED BY <2>1, <1>1, <1>2, Zenon
<1>10. SubSeq(<<h, j, k>>, 1, Len(<<h, j, k>>)) = <<h, j, k>>
  <2>1. Len(<<h, j, k>>) <= Len(<<h, j, k>>) /\ Len(<<h, j, k>>) > 0
    OBVIOUS
  <2> QED BY <2>1, <1>1, <1>2, Zenon
<1> QED BY <1>3, <1>5, <1>6, <1>7, <1>8, <1>9, <1>10

LEMMA Fronts ==
  /\ \A h, k : Front(<<h, k>>) = <<h>> /\ Last(<<h, k>>) = k
  /\ \A h, j, k : Front(<<h, j, k>>) = <<h, j>> /\ Last(<<h, j, k>>) = k
<1>1. ASSUME NEW h, NEW j, NEW k
      PROVE  SubSeq(<<h, k>>, 1, 2 - 1) = <<h>> /\ SubSeq(<<h, j, k>>, 1, 3 - 1) = <<h, j>>
  <2>1. 2 - 1 = 1 /\ 3 - 1 = 2
    OBVIOUS
  <2>2. SubSeq(<<h, k>>, 1, 1) = <<h>> /\ SubSeq(<<h, j, k>>, 1, 2) = <<h, j>>
    BY ShortSubSeq, Zenon
  <2> QED BY <2>1, <2>2
<1>2. \A h, j, k : Len(<<h, k>>) = 2 /\ Len(<<h, j, k>>) = 3
  OBVIOUS
<1>3. ASSUME NEW h, NEW j, NEW k PROVE Front(<<h, k>>) = <<h>> /\ Last(<<h, k>>) = k
  BY <1>1, <1>2 DEF Front, Last
<1>4. ASSUME NEW h, NEW j, NEW k PROVE Front(<<h, j, k>>) = <<h, j>> /\ Last(<<h, j, k>>) = k
  BY <1>1, <1>2 DEF Front, Last
<1> QED BY <1>3, <1>4, Zenon

(* A route is a pointer of the inode, or leads on from a shorter one.      *)
LEMMA RoutesAre ==
  ASSUME NEW r \in Routes
  PROVE  \/ \E k \in 0 .. Direct + 1 : r = <<k>>
         \/ \E h \in {Direct, Direct + 1}, k \in 0 .. PerTable - 1 : r = <<h, k>>
         \/ \E j, k \in 0 .. PerTable - 1 : r = <<Direct + 1, j, k>>
  BY DEF Routes

LEMMA RouteParts ==
  ASSUME NEW r \in Routes, NEW v, NEW i
  PROVE  /\ Len(r) \in 1 .. 3
         /\ Len(r) = 1 => r[1] \in 0 .. Direct + 1 /\ r = <<r[1]>>
         /\ Len(r) > 1 => /\ Front(r) \in Routes /\ Len(Front(r)) = Len(r) - 1
                          /\ Last(r) \in 0 .. PerTable - 1
         /\ Len(r) = 1 => Follow(v, i, r) = v.inodes[i].ptr[r[1]]
         /\ Len(r) > 1 => Follow(v, i, r) = Pointer(v, Follow(v, i, Front(r)), Last(r))
<1>1. CASE \E k \in 0 .. Direct + 1 : r = <<k>>
  BY <1>1, FollowIs
<1>2. CASE \E h \in {Direct, Direct + 1}, k \in 0 .. PerTable - 1 : r = <<h, k>>
  <2>1. PICK h \in {Direct, Direct + 1}, k \in 0 .. PerTable - 1 : r = <<h, k>>
    BY <1>2
  <2>2. h \in Nat /\ k \in Nat /\ h \in 0 .. Direct + 1
    BY Geometry
  <2>3. Front(r) = <<h>> /\ Last(r) = k /\ Len(r) = 2 /\ Len(<<h>>) = 1
    BY <2>1, <2>2, Fronts
  <2>4. <<h>> \in Routes
    BY <2>2 DEF Routes
  <2>5. Follow(v, i, <<h>>) = v.inodes[i].ptr[h]
    BY FollowIs
  <2>6. Follow(v, i, r) = Pointer(v, v.inodes[i].ptr[h], k)
    BY FollowIs, <2>1
  <2> QED BY <2>3, <2>4, <2>5, <2>6
<1>3. CASE \E j, k \in 0 .. PerTable - 1 : r = <<Direct + 1, j, k>>
  <2>1. PICK j, k \in 0 .. PerTable - 1 : r = <<Direct + 1, j, k>>
    BY <1>3
  <2>2. Direct + 1 \in Nat /\ k \in Nat /\ j \in Nat
    BY Geometry
  <2>3. Front(r) = <<Direct + 1, j>> /\ Last(r) = k /\ Len(r) = 3 /\ Len(<<Direct + 1, j>>) = 2
    <3>1. Front(<<Direct + 1, j, k>>) = <<Direct + 1, j>> /\ Last(<<Direct + 1, j, k>>) = k
      BY Fronts
    <3> QED BY <3>1, <2>1
  <2>4. <<Direct + 1, j>> \in Routes
    BY <2>2 DEF Routes
  <2>5. Follow(v, i, <<Direct + 1, j>>) = Pointer(v, v.inodes[i].ptr[Direct + 1], j)
    BY FollowIs
  <2>6. Follow(v, i, r) = Pointer(v, Pointer(v, v.inodes[i].ptr[Direct + 1], j), k)
    BY FollowIs, <2>1
  <2> QED BY <2>3, <2>4, <2>5, <2>6
<1> QED BY <1>1, <1>2, <1>3, RoutesAre

LEMMA RouteOne ==
  ASSUME NEW r \in Routes, Len(r) = 1, NEW v, NEW i
  PROVE  r[1] \in 0 .. Direct + 1 /\ r = <<r[1]>> /\ Follow(v, i, r) = v.inodes[i].ptr[r[1]]
<1>1. r[1] \in 0 .. Direct + 1 /\ r = <<r[1]>>
  BY RouteParts
<1>2. Follow(v, i, r) = v.inodes[i].ptr[r[1]]
  BY RouteParts
<1> QED BY <1>1, <1>2

LEMMA RouteOn ==
  ASSUME NEW r \in Routes, Len(r) > 1, NEW v, NEW i
  PROVE  /\ Front(r) \in Routes /\ Len(Front(r)) = Len(r) - 1 /\ Len(r) \in 2 .. 3
         /\ Last(r) \in 0 .. PerTable - 1
         /\ Follow(v, i, r) = Pointer(v, Follow(v, i, Front(r)), Last(r))
<1>1. Front(r) \in Routes /\ Len(Front(r)) = Len(r) - 1 /\ Len(r) \in 1 .. 3 /\ Last(r) \in 0 .. PerTable - 1
  BY RouteParts
<1>2. Follow(v, i, r) = Pointer(v, Follow(v, i, Front(r)), Last(r))
  BY RouteParts
<1> QED BY <1>1, <1>2

LEMMA RouteOf ==
  ASSUME NEW r \in Routes, NEW s \in Routes, Len(r) = Len(s),
         Len(r) = 1 => r[1] = s[1],
         Len(r) > 1 => Front(r) = Front(s) /\ Last(r) = Last(s)
  PROVE  r = s
<1>1. ASSUME NEW q \in Routes
      PROVE  /\ Len(q) \in 1 .. 3
             /\ Len(q) = 1 => q = <<q[1]>>
             /\ Len(q) = 2 => q = <<Front(q)[1], Last(q)>>
             /\ Len(q) = 3 => q = <<Front(q)[1], Front(q)[2], Last(q)>>
  <2>1. CASE \E k \in 0 .. Direct + 1 : q = <<k>>
    BY <2>1
  <2>2. CASE \E h \in {Direct, Direct + 1}, k \in 0 .. PerTable - 1 : q = <<h, k>>
    <3>1. PICK h \in {Direct, Direct + 1}, k \in 0 .. PerTable - 1 : q = <<h, k>>
      BY <2>2
    <3>2. h \in Nat /\ k \in Nat
      BY Geometry
    <3>3. Front(q) = <<h>> /\ Last(q) = k
      BY <3>1, <3>2, Fronts
    <3> QED BY <3>1, <3>3
  <2>3. CASE \E j, k \in 0 .. PerTable - 1 : q = <<Direct + 1, j, k>>
    <3>1. PICK j, k \in 0 .. PerTable - 1 : q = <<Direct + 1, j, k>>
      BY <2>3
    <3>2. Direct + 1 \in Nat /\ k \in Nat /\ j \in Nat
      BY Geometry
    <3>3. Front(q) = <<Direct + 1, j>> /\ Last(q) = k
      <4>1. Front(<<Direct + 1, j, k>>) = <<Direct + 1, j>> /\ Last(<<Direct + 1, j, k>>) = k
        BY Fronts
      <4> QED BY <4>1, <3>1
    <3> QED BY <3>1, <3>3
  <2> QED BY <2>1, <2>2, <2>3, RoutesAre
<1>2. /\ Len(r) \in 1 .. 3
      /\ Len(r) = 1 => r = <<r[1]>>
      /\ Len(r) = 2 => r = <<Front(r)[1], Last(r)>>
      /\ Len(r) = 3 => r = <<Front(r)[1], Front(r)[2], Last(r)>>
  BY <1>1, Zenon
<1>3. /\ Len(s) = 1 => s = <<s[1]>>
      /\ Len(s) = 2 => s = <<Front(s)[1], Last(s)>>
      /\ Len(s) = 3 => s = <<Front(s)[1], Front(s)[2], Last(s)>>
  BY <1>1, Zenon
<1> QED BY <1>2, <1>3

(* Each block in use is referred to, from one place; a free inode refers   *)
(* to none.                                                                *)
Owned(v) ==
  /\ \A i, j \in Ino, r, s \in Routes :
       Follow(v, i, r) # 0 /\ Follow(v, i, r) = Follow(v, j, s) => i = j /\ r = s
  /\ \A i \in Ino, r \in Routes : Follow(v, i, r) # 0 => v.used[Follow(v, i, r)]
  /\ \A b \in Block : v.used[b] => \E i \in Ino, r \in Routes : Follow(v, i, r) = b
  /\ \A i \in Ino : ~v.inodes[i].used => v.inodes[i].ptr = NoPtr

(* What holds at one step from the inode, and passes on from the front of  *)
(* a route, holds of every route.                                          *)
LEMMA RouteInduction ==
  ASSUME NEW T, \A s \in Routes : Len(s) = 1 => s \in T,
         \A s \in Routes : Len(s) > 1 /\ Front(s) \in T => s \in T
  PROVE  Routes \subseteq T
<1>1. ASSUME NEW s \in Routes
      PROVE  Len(s) \in 1 .. 3 /\ (Len(s) > 1 => Front(s) \in Routes /\ Len(Front(s)) = Len(s) - 1)
  BY RouteParts, Zenon
<1>2. ASSUME NEW s \in Routes, Len(s) = 2 PROVE s \in T
  <2>1. Front(s) \in Routes /\ Len(Front(s)) = 1
    BY <1>1, <1>2
  <2> QED BY <2>1, <1>2
<1>3. ASSUME NEW s \in Routes, Len(s) = 3 PROVE s \in T
  <2>1. Front(s) \in Routes /\ Len(Front(s)) = 2
    <3>1. Len(s) > 1
      BY <1>3
    <3>2. Front(s) \in Routes /\ Len(Front(s)) = Len(s) - 1
      BY <3>1, <1>1, Zenon
    <3> QED BY <3>2, <1>3
  <2>2. Front(s) \in T
    BY <2>1, <1>2
  <2> QED BY <2>2, <1>3
<1>4. ASSUME NEW s \in Routes PROVE s \in T
  <2>1. Len(s) \in 1 .. 3
    BY <1>1
  <2> QED BY <2>1, <1>2, <1>3
<1> QED BY <1>4

(* A pointer is 0 or a block.                                              *)
LEMMA FollowType ==
  ASSUME NEW v \in Volumes, NEW i \in Ino, NEW r \in Routes
  PROVE  Follow(v, i, r) \in 0 .. Blocks
<1>1. v.inodes[i].ptr \in [0 .. Direct + 1 -> 0 .. Blocks]
  BY DEF Volumes, Inode
<1>2. \A b \in 0 .. Blocks, k \in 0 .. PerTable - 1 : Pointer(v, b, k) \in 0 .. Blocks
  <2> SUFFICES ASSUME NEW b \in 0 .. Blocks, NEW k \in 0 .. PerTable - 1
               PROVE  Pointer(v, b, k) \in 0 .. Blocks
    OBVIOUS
  <2>1. b = 0 \/ b \in Block
    BY Geometry
  <2>2. b \in Block => v.tables[b][k] \in 0 .. Blocks
    BY DEF Volumes
  <2> QED BY <2>1, <2>2, Geometry DEF Pointer
<1> DEFINE T == {s \in Routes : Follow(v, i, s) \in 0 .. Blocks}
<1>3. ASSUME NEW s \in Routes, Len(s) = 1 PROVE s \in T
  <2>1. s[1] \in 0 .. Direct + 1 /\ Follow(v, i, s) = v.inodes[i].ptr[s[1]]
    BY <1>3, RouteOne, Zenon
  <2> QED BY <2>1, <1>1
<1>4. ASSUME NEW s \in Routes, Len(s) > 1, Front(s) \in T PROVE s \in T
  <2>1. Last(s) \in 0 .. PerTable - 1 /\ Follow(v, i, s) = Pointer(v, Follow(v, i, Front(s)), Last(s))
    BY <1>4, RouteOn, Zenon
  <2> QED BY <2>1, <1>2, <1>4
<1> HIDE DEF T
<1>5. Routes \subseteq T
  BY <1>3, <1>4, RouteInduction
<1> QED BY <1>5 DEF T

(* Linking free block b at the end of route r of inode i changes what this *)
(* route leads to, and nothing else.                                       *)
Adds(v, w, i, r, b, isTable) ==
  /\ v \in Volumes /\ w \in Volumes /\ Owned(v) /\ i \in Ino /\ v.inodes[i].used /\ r \in Routes
  /\ b \in Block /\ ~v.used[b] /\ Follow(v, i, r) = 0 /\ isTable \in BOOLEAN
  /\ ~isTable => \A s \in Routes : Len(s) > 1 => Front(s) # r
  /\ Len(r) > 1 => Follow(v, i, Front(r)) # 0
  /\ w.used = [v.used EXCEPT ![b] = TRUE]
  /\ \A j \in Ino : w.inodes[j].used = v.inodes[j].used
  /\ \A j \in Ino : j # i => w.inodes[j].ptr = v.inodes[j].ptr
  /\ \A j \in Ino, k \in 0 .. Direct + 1 :
       w.inodes[j].ptr[k] = IF Len(r) = 1 /\ j = i /\ k = r[1] THEN b ELSE v.inodes[j].ptr[k]
  /\ \A c \in Block, k \in 0 .. PerTable - 1 :
       c # b => w.tables[c][k] = IF Len(r) > 1 /\ c = Follow(v, i, Front(r)) /\ k = Last(r)
                                 THEN b ELSE v.tables[c][k]
  /\ isTable => \A k \in 0 .. PerTable - 1 : w.tables[b][k] = 0

(* One pointer set to a free, cleared block leads there, and no other      *)
(* route leads elsewhere than before.                                      *)
LEMMA LinkFollow ==
  ASSUME NEW v, NEW w, NEW i, NEW r, NEW b, NEW isTable, Adds(v, w, i, r, b, isTable)
  PROVE  \A j \in Ino, s \in Routes :
           Follow(w, j, s) = IF j = i /\ s = r THEN b ELSE Follow(v, j, s)
<1> USE DEF Adds
<1> DEFINE P(j, s) == Follow(w, j, s) = IF j = i /\ s = r THEN b ELSE Follow(v, j, s)
<1>1. ASSUME NEW j \in Ino, NEW s \in Routes, Len(s) = 1 PROVE P(j, s)
  <2>1. s[1] \in 0 .. Direct + 1 /\ s = <<s[1]>>
    BY <1>1, RouteParts
  <2>2. Follow(w, j, s) = w.inodes[j].ptr[s[1]] /\ Follow(v, j, s) = v.inodes[j].ptr[s[1]]
    BY <1>1, RouteParts
  <2>3. Len(r) = 1 => r = <<r[1]>>
    BY RouteParts
  <2>4. (s = r) <=> (Len(r) = 1 /\ s[1] = r[1])
    BY <2>1, <2>3, <1>1
  <2> QED BY <2>1, <2>2, <2>4
<1>2. ASSUME NEW j \in Ino, NEW s \in Routes, Len(s) > 1, P(j, Front(s)) PROVE P(j, s)
  <2> DEFINE c == Follow(v, j, Front(s))
             k == Last(s)
  <2>1. Front(s) \in Routes /\ Len(Front(s)) = Len(s) - 1 /\ k \in 0 .. PerTable - 1 /\ Len(s) \in 1 .. 3
    BY <1>2, RouteParts
  <2>2. /\ Follow(w, j, s) = Pointer(w, Follow(w, j, Front(s)), k)
        /\ Follow(v, j, s) = Pointer(v, c, k)
    BY <1>2, RouteParts
  <2>3. b # 0 /\ Front(s) # s
    BY Geometry, <2>1
  <2>4. CASE j = i /\ Front(s) = r
    <3>1. isTable /\ Follow(w, j, Front(s)) = b
      BY <2>4, <1>2
    <3>2. Follow(w, j, s) = 0
      BY <3>1, <2>1, <2>2, <2>3 DEF Pointer
    <3>3. Follow(v, j, s) = 0
      BY <2>2, <2>4 DEF Pointer
    <3> QED BY <3>2, <3>3, <2>3, <2>4
  <2>5. CASE ~ (j = i /\ Front(s) = r)
    <3>1. Follow(w, j, Front(s)) = c
      BY <2>5, <1>2
    <3>2. CASE c = 0
      <4>1. Follow(w, j, s) = 0 /\ Follow(v, j, s) = 0
        BY <3>1, <3>2, <2>2 DEF Pointer
      <4>2. ~ (j = i /\ s = r)
        BY <3>2, <1>2
      <4> QED BY <4>1, <4>2
    <3>3. CASE c # 0
      <4>1. c \in Block /\ c # b
        <5>1. c \in 0 .. Blocks
          BY FollowType, <2>1
        <5>2. v.used[c]
          BY <3>3, <2>1 DEF Owned
        <5> QED BY <3>3, <5>1, <5>2, Geometry
      <4>2. Follow(w, j, s) = w.tables[c][k] /\ Follow(v, j, s) = v.tables[c][k]
        BY <3>1, <3>3, <2>2 DEF Pointer
      <4>3. w.tables[c][k] = IF Len(r) > 1 /\ c = Follow(v, i, Front(r)) /\ k = Last(r)
                             THEN b ELSE v.tables[c][k]
        BY <4>1, <2>1
      <4>4. ASSUME Len(r) > 1, c = Follow(v, i, Front(r)), k = Last(r) PROVE j = i /\ s = r
        <5>1. Front(r) \in Routes /\ Len(Front(r)) = Len(r) - 1 /\ Len(r) \in 1 .. 3
          BY <4>4, RouteParts
        <5>2. j = i /\ Front(s) = Front(r)
          BY <4>4, <5>1, <2>1, <3>3 DEF Owned
        <5>3. Len(s) = Len(r)
          BY <5>1, <5>2, <2>1
        <5>4. ~ (Len(s) = 1)
          BY <5>1, <5>3, <4>4
        <5>5. s = r
          <6>1. Front(s) = Front(r) /\ Last(s) = Last(r)
            BY <5>2, <4>4, <2>1
          <6> QED BY <5>3, <5>4, <6>1, <2>1, RouteOf, ZenonT(60)
        <5> QED BY <5>2, <5>5
      <4>5. (j = i /\ s = r) => (Len(r) > 1 /\ c = Follow(v, i, Front(r)) /\ k = Last(r))
        BY <1>2
      <4> QED BY <4>2, <4>3, <4>4, <4>5
    <3> QED BY <3>2, <3>3
  <2> QED BY <2>4, <2>5
<1> HIDE DEF P
<1>3. ASSUME NEW j \in Ino PROVE \A s \in Routes : P(j, s)
  <2> DEFINE T == {s \in Routes : P(j, s)}
  <2>1. \A s \in Routes : Len(s) = 1 => s \in T
    BY <1>1
  <2>2. \A s \in Routes : Len(s) > 1 /\ Front(s) \in T => s \in T
    BY <1>2
  <2> HIDE DEF T
  <2>3. Routes \subseteq T
    BY <2>1, <2>2, RouteInduction
  <2> QED BY <2>3 DEF T
<1> QED BY <1>3 DEF P

(* ... and no block becomes shared or lost by it.                          *)
LEMMA LinkOwned ==
  ASSUME NEW v, NEW w, NEW i, NEW r, NEW b, NEW isTable, Adds(v, w, i, r, b, isTable)
  PROVE  Owned(w)
<1>a. /\ v \in Volumes /\ w \in Volumes /\ Owned(v) /\ i \in Ino /\ v.inodes[i].used /\ r \in Routes
      /\ b \in Block /\ ~v.used[b] /\ Follow(v, i, r) = 0
      /\ w.used = [v.used EXCEPT ![b] = TRUE]
      /\ \A j \in Ino : w.inodes[j].used = v.inodes[j].used
      /\ \A j \in Ino : j # i => w.inodes[j].ptr = v.inodes[j].ptr
  BY DEF Adds
<1>b. \A j \in Ino, s \in Routes :
        Follow(w, j, s) = IF j = i /\ s = r THEN b ELSE Follow(v, j, s)
  BY LinkFollow
<1> USE <1>a, <1>b
<1>1. \A j \in Ino, s \in Routes : Follow(v, j, s) # b
  BY Geometry DEF Owned
<1>2. ASSUME NEW j \in Ino, NEW k \in Ino, NEW q \in Routes, NEW s \in Routes,
             Follow(w, j, q) # 0, Follow(w, j, q) = Follow(w, k, s)
      PROVE  j = k /\ q = s
  BY <1>1, <1>2 DEF Owned
<1>3. ASSUME NEW j \in Ino, NEW s \in Routes, Follow(w, j, s) # 0 PROVE w.used[Follow(w, j, s)]
  <2>1. \A c \in Block : w.used[c] = (v.used[c] \/ c = b)
    BY DEF Volumes
  <2>2. Follow(w, j, s) \in Block
    BY FollowType, <1>3, Geometry
  <2>3. Follow(w, j, s) = b \/ v.used[Follow(w, j, s)]
    BY <1>3 DEF Owned
  <2> QED BY <2>1, <2>2, <2>3
<1>4. ASSUME NEW c \in Block, w.used[c] PROVE \E j \in Ino, s \in Routes : Follow(w, j, s) = c
  <2>1. c = b \/ v.used[c]
    BY <1>4 DEF Volumes
  <2>2. CASE c = b
    BY <2>2
  <2>3. CASE c # b
    <3>1. PICK j \in Ino, s \in Routes : Follow(v, j, s) = c
      BY <2>1, <2>3 DEF Owned
    <3>2. Follow(w, j, s) = c
      BY <3>1, Geometry
    <3> QED BY <3>2
  <2> QED BY <2>2, <2>3
<1>5. \A j \in Ino : ~w.inodes[j].used => w.inodes[j].ptr = NoPtr
  BY DEF Owned
<1> QED BY <1>2, <1>3, <1>4, <1>5 DEF Owned

(* What an update of one field of a volume, or of an inode, changes.       *)
LEMMA VolumeFields ==
  ASSUME NEW v \in Volumes
  PROVE  /\ v.inodes \in [Ino -> Inode] /\ v.entries \in [Ino -> Seq(Entry)]
         /\ v.tables \in [Block -> [0 .. PerTable - 1 -> 0 .. Blocks]]
         /\ v.used \in [Block -> BOOLEAN] /\ v.cursor \in Block
  BY DEF Volumes

LEMMA SetInodes ==
  ASSUME NEW v \in Volumes, NEW f \in [Ino -> Inode]
  PROVE  LET w == [v EXCEPT !.inodes = f] IN
         /\ w \in Volumes /\ w.inodes = f
         /\ w.entries = v.entries /\ w.tables = v.tables /\ w.used = v.used /\ w.cursor = v.cursor
  BY DEF Volumes

LEMMA SetEntries ==
  ASSUME NEW v \in Volumes, NEW f \in [Ino -> Seq(Entry)]
  PROVE  LET w == [v EXCEPT !.entries = f] IN
         /\ w \in Volumes /\ w.entries = f
         /\ w.inodes = v.inodes /\ w.tables = v.tables /\ w.used = v.used /\ w.cursor = v.cursor
  BY DEF Volumes

LEMMA SetTables ==
  ASSUME NEW v \in Volumes, NEW f \in [Block -> [0 .. PerTable - 1 -> 0 .. Blocks]]
  PROVE  LET w == [v EXCEPT !.tables = f] IN
         /\ w \in Volumes /\ w.tables = f
         /\ w.inodes = v.inodes /\ w.entries = v.entries /\ w.used = v.used /\ w.cursor = v.cursor
  BY DEF Volumes

LEMMA SetUsed ==
  ASSUME NEW v \in Volumes, NEW f \in [Block -> BOOLEAN]
  PROVE  LET w == [v EXCEPT !.used = f] IN
         /\ w \in Volumes /\ w.used = f
         /\ w.inodes = v.inodes /\ w.entries = v.entries /\ w.tables = v.tables /\ w.cursor = v.cursor
  BY DEF Volumes

LEMMA SetCursor ==
  ASSUME NEW v \in Volumes, NEW f \in Block
  PROVE  LET w == [v EXCEPT !.cursor = f] IN
         /\ w \in Volumes /\ w.cursor = f
         /\ w.inodes = v.inodes /\ w.entries = v.entries /\ w.tables = v.tables /\ w.used = v.used
  BY DEF Volumes

LEMMA InodeFields ==
  ASSUME NEW n \in Inode
  PROVE  /\ n.used \in BOOLEAN /\ n.type \in {"free", "file", "dir"} /\ n.parent \in 0 .. Inodes - 1
         /\ n.size \in 0 .. Blocks * PerBlock /\ n.ptr \in [0 .. Direct + 1 -> 0 .. Blocks]
  BY DEF Inode

LEMMA SetInodeUsed ==
  ASSUME NEW n \in Inode, NEW f \in BOOLEAN
  PROVE  LET m == [n EXCEPT !.used = f] IN
         /\ m \in Inode /\ m.used = f
         /\ m.type = n.type /\ m.parent = n.parent /\ m.size = n.size /\ m.ptr = n.ptr
  BY DEF Inode

LEMMA SetInodeType ==
  ASSUME NEW n \in Inode, NEW f \in {"free", "file", "dir"}
  PROVE  LET m == [n EXCEPT !.type = f] IN
         /\ m \in Inode /\ m.type = f
         /\ m.used = n.used /\ m.parent = n.parent /\ m.size = n.size /\ m.ptr = n.ptr
  BY DEF Inode

LEMMA SetInodeParent ==
  ASSUME NEW n \in Inode, NEW f \in 0 .. Inodes - 1
  PROVE  LET m == [n EXCEPT !.parent = f] IN
         /\ m \in Inode /\ m.parent = f
         /\ m.used = n.used /\ m.type = n.type /\ m.size = n.size /\ m.ptr = n.ptr
  BY DEF Inode

LEMMA SetInodeSize ==
  ASSUME NEW n \in Inode, NEW f \in 0 .. Blocks * PerBlock
  PROVE  LET m == [n EXCEPT !.size = f] IN
         /\ m \in Inode /\ m.size = f
         /\ m.used = n.used /\ m.type = n.type /\ m.parent = n.parent /\ m.ptr = n.ptr
  BY DEF Inode

LEMMA SetInodePtr ==
  ASSUME NEW n \in Inode, NEW f \in [0 .. Direct + 1 -> 0 .. Blocks]
  PROVE  LET m == [n EXCEPT !.ptr = f] IN
         /\ m \in Inode /\ m.ptr = f
         /\ m.used = n.used /\ m.type = n.type /\ m.parent = n.parent /\ m.size = n.size
  BY DEF Inode

Results == [ok : BOOLEAN, v : Volumes]

(* Volume w is volume v with blocks added to inode i.                      *)
Grown(v, w, i) ==
  /\ w \in Volumes /\ Owned(w)
  /\ w.entries = v.entries
  /\ \A j \in Ino : j # i => w.inodes[j] = v.inodes[j]
  /\ w.inodes[i].used = v.inodes[i].used /\ w.inodes[i].type = v.inodes[i].type
  /\ w.inodes[i].parent = v.inodes[i].parent /\ w.inodes[i].size = v.inodes[i].size
  /\ \A j \in Ino, s \in Routes : Follow(v, j, s) # 0 => Follow(w, j, s) # 0

LEMMA GrownSelf ==
  ASSUME NEW v \in Volumes, Owned(v), NEW i \in Ino
  PROVE  Grown(v, v, i)
  BY DEF Grown

LEMMA GrownTwice ==
  ASSUME NEW u, NEW v, NEW w, NEW i \in Ino, Grown(u, v, i), Grown(v, w, i)
  PROVE  Grown(u, w, i)
  BY DEF Grown

LEMMA AllocIs ==
  ASSUME NEW v, Alloc(v) # {}
  PROVE  (CHOOSE c \in Alloc(v) : TRUE) \in Block /\ ~v.used[CHOOSE c \in Alloc(v) : TRUE]
  BY DEF Alloc

LEMMA AfterType ==
  ASSUME NEW b \in Block
  PROVE  After(b) \in Block
<1>1. b % Blocks \in 0 .. Blocks - 1
  BY Geometry
<1> QED BY <1>1, Geometry DEF After, Block

LEMMA NoPointers == NoPtr \in [0 .. Direct + 1 -> 0 .. Blocks] /\ NoTable \in [0 .. PerTable - 1 -> 0 .. Blocks]
  BY Geometry DEF NoPtr, NoTable

(* A step of ensure_block links one block, or finds it linked, or runs     *)
(* out; what it adds belongs to inode i.                                   *)
LEMMA Linked ==
  ASSUME NEW v \in Volumes, Owned(v), NEW i \in Ino, v.inodes[i].used, NEW r \in Routes,
         NEW isTable \in BOOLEAN, ~isTable => \A s \in Routes : Len(s) > 1 => Front(s) # r,
         Len(r) > 1 => Follow(v, i, Front(r)) # 0
  PROVE  LET x == Link(v, i, r, isTable) IN
         Grown(v, x.v, i) /\ x \in Results /\ (x.ok => Follow(x.v, i, r) # 0)
<1>1. CASE Follow(v, i, r) # 0
  BY <1>1, GrownSelf DEF Link, Done, Results
<1>2. CASE Follow(v, i, r) = 0 /\ Alloc(v) = {}
  BY <1>2, GrownSelf DEF Link, Failed, Results
<1>3. CASE Follow(v, i, r) = 0 /\ Alloc(v) # {}
  <2> DEFINE b == CHOOSE c \in Alloc(v) : TRUE
             at == Follow(v, i, Front(r))
             u1 == [v EXCEPT !.used = [v.used EXCEPT ![b] = TRUE]]
             u2 == [u1 EXCEPT !.cursor = After(b)]
             t == [v.tables EXCEPT ![b] = IF isTable THEN NoTable ELSE v.tables[b]]
             u == [u2 EXCEPT !.tables = t]
  <2>1. b \in Block /\ ~v.used[b] /\ b # 0 /\ b \in 0 .. Blocks
    BY <1>3, AllocIs, Geometry
  <2>2. /\ v.inodes \in [Ino -> Inode] /\ v.inodes[i] \in Inode
        /\ v.inodes[i].ptr \in [0 .. Direct + 1 -> 0 .. Blocks]
        /\ v.tables \in [Block -> [0 .. PerTable - 1 -> 0 .. Blocks]] /\ v.used \in [Block -> BOOLEAN]
    BY VolumeFields, InodeFields
  <2>3. Link(v, i, r, isTable) =
          Done(IF Len(r) = 1 THEN [u EXCEPT !.inodes = [u.inodes EXCEPT ![i] = [u.inodes[i] EXCEPT
                                     !.ptr = [u.inodes[i].ptr EXCEPT ![r[1]] = b]]]]
               ELSE [u EXCEPT !.tables = [u.tables EXCEPT ![at] = [u.tables[at] EXCEPT ![Last(r)] = b]]])
    <3>1. u2.tables = v.tables
      <4>1. [v.used EXCEPT ![b] = TRUE] \in [Block -> BOOLEAN] /\ After(b) \in Block
        BY <2>1, <2>2, AfterType
      <4>2. u1 \in Volumes /\ u1.tables = v.tables
        BY <4>1, SetUsed
      <4>3. u2.tables = u1.tables
        BY <4>1, <4>2, SetCursor
      <4> QED BY <4>2, <4>3
    <3> QED BY <3>1, <1>3, ZenonT(60) DEF Link
  <2> HIDE DEF b
  <2>4. /\ u \in Volumes /\ u.inodes = v.inodes /\ u.entries = v.entries /\ u.tables = t
        /\ u.used = [v.used EXCEPT ![b] = TRUE] /\ t \in [Block -> [0 .. PerTable - 1 -> 0 .. Blocks]]
    <3>1. [v.used EXCEPT ![b] = TRUE] \in [Block -> BOOLEAN] /\ After(b) \in Block
      BY <2>1, <2>2, AfterType
    <3>2. t \in [Block -> [0 .. PerTable - 1 -> 0 .. Blocks]]
      BY <2>1, <2>2, NoPointers
    <3>3. /\ u1 \in Volumes /\ u1.inodes = v.inodes /\ u1.entries = v.entries
          /\ u1.used = [v.used EXCEPT ![b] = TRUE]
      BY <3>1, SetUsed
    <3>4. /\ u2 \in Volumes /\ u2.inodes = v.inodes /\ u2.entries = v.entries
          /\ u2.used = [v.used EXCEPT ![b] = TRUE]
      BY <3>1, <3>3, SetCursor
    <3>5. /\ u \in Volumes /\ u.inodes = u2.inodes /\ u.entries = u2.entries
          /\ u.used = u2.used /\ u.tables = t
      BY <3>2, <3>4, SetTables
    <3> QED BY <3>2, <3>4, <3>5
  <2> HIDE DEF u
  <2>5. Len(r) \in 1 .. 3
    BY RouteParts
  <2>6. CASE Len(r) = 1
    <3> DEFINE p == [v.inodes[i].ptr EXCEPT ![r[1]] = b]
               m == [v.inodes[i] EXCEPT !.ptr = p]
               f == [v.inodes EXCEPT ![i] = m]
               w == [u EXCEPT !.inodes = f]
    <3>1. r[1] \in 0 .. Direct + 1
      BY <2>6, RouteOne
    <3>2. p \in [0 .. Direct + 1 -> 0 .. Blocks]
      BY <2>1, <2>2, <3>1
    <3>a. \A k \in 0 .. Direct + 1 : p[k] = IF k = r[1] THEN b ELSE v.inodes[i].ptr[k]
      BY <2>2, <3>1
    <3> HIDE DEF p
    <3>3. /\ m \in Inode /\ m.ptr = p /\ m.used = v.inodes[i].used /\ m.type = v.inodes[i].type
          /\ m.parent = v.inodes[i].parent /\ m.size = v.inodes[i].size
      <4> DEFINE n == v.inodes[i]
      <4>1. n \in Inode /\ m = [n EXCEPT !.ptr = p]
        BY <2>2, Zenon
      <4> HIDE DEF n, m
      <4>2. /\ m \in Inode /\ m.ptr = p /\ m.used = n.used /\ m.type = n.type
            /\ m.parent = n.parent /\ m.size = n.size
        BY <4>1, <3>2, SetInodePtr
      <4> QED BY <4>2, Zenon DEF n
    <3> HIDE DEF m
    <3>4. f \in [Ino -> Inode] /\ f[i] = m /\ \A j \in Ino : j # i => f[j] = v.inodes[j]
      BY <2>2, <3>3
    <3> HIDE DEF f
    <3>5. /\ w \in Volumes /\ w.inodes = f /\ w.entries = u.entries /\ w.tables = u.tables /\ w.used = u.used
      BY <2>4, <3>4, SetInodes
    <3>6. Link(v, i, r, isTable) = Done(w)
      <4>1. w = [u EXCEPT !.inodes = [u.inodes EXCEPT ![i] = [u.inodes[i] EXCEPT
                                     !.ptr = [u.inodes[i].ptr EXCEPT ![r[1]] = b]]]]
        BY <2>4 DEF f, m, p
      <4> QED BY <4>1, <2>3, <2>6
    <3> HIDE DEF w
    <3>7. Adds(v, w, i, r, b, isTable)
      <4>1. w.used = [v.used EXCEPT ![b] = TRUE]
        BY <2>4, <3>5
      <4>2. \A j \in Ino : w.inodes[j].used = v.inodes[j].used
        BY <3>3, <3>4, <3>5
      <4>3. \A j \in Ino : j # i => w.inodes[j].ptr = v.inodes[j].ptr
        BY <3>4, <3>5
      <4>4. \A j \in Ino, k \in 0 .. Direct + 1 :
              w.inodes[j].ptr[k] = IF Len(r) = 1 /\ j = i /\ k = r[1] THEN b ELSE v.inodes[j].ptr[k]
        <5> SUFFICES ASSUME NEW j \in Ino, NEW k \in 0 .. Direct + 1
                     PROVE  f[j].ptr[k] = IF j = i /\ k = r[1] THEN b ELSE v.inodes[j].ptr[k]
          BY <2>6, <3>5
        <5>1. CASE j = i
          BY <5>1, <3>a, <3>3, <3>4
        <5>2. CASE j # i
          BY <5>2, <3>4
        <5> QED BY <5>1, <5>2
      <4>5. \A c \in Block, k \in 0 .. PerTable - 1 :
              c # b => w.tables[c][k] = IF Len(r) > 1 /\ c = Follow(v, i, Front(r)) /\ k = Last(r)
                                        THEN b ELSE v.tables[c][k]
        BY <2>2, <2>4, <2>6, <3>5
      <4>6. isTable => \A k \in 0 .. PerTable - 1 : w.tables[b][k] = 0
        BY <2>1, <2>2, <2>4, <3>5 DEF NoTable
      <4> QED BY <4>1, <4>2, <4>3, <4>4, <4>5, <4>6, <1>3, <2>1, <2>6, <3>5 DEF Adds
    <3>8. \A j \in Ino, s \in Routes : Follow(w, j, s) = IF j = i /\ s = r THEN b ELSE Follow(v, j, s)
      BY <3>7, LinkFollow
    <3>9. Grown(v, w, i)
      <4>1. Owned(w)
        BY <3>7, LinkOwned
      <4>2. w.entries = v.entries /\ \A j \in Ino : j # i => w.inodes[j] = v.inodes[j]
        BY <2>4, <3>4, <3>5
      <4>3. /\ w.inodes[i].used = v.inodes[i].used /\ w.inodes[i].type = v.inodes[i].type
            /\ w.inodes[i].parent = v.inodes[i].parent /\ w.inodes[i].size = v.inodes[i].size
        BY <3>3, <3>4, <3>5
      <4>4. \A j \in Ino, s \in Routes : Follow(v, j, s) # 0 => Follow(w, j, s) # 0
        BY <2>1, <3>8
      <4> QED BY <4>1, <4>2, <4>3, <4>4, <3>5 DEF Grown
    <3> QED BY <2>1, <3>5, <3>6, <3>8, <3>9 DEF Done, Results
  <2>7. CASE Len(r) > 1
    <3>0. ~ (Len(r) = 1)
      <4>1. \A n \in 1 .. 3 : n > 1 => ~ (n = 1)
        OBVIOUS
      <4> QED BY <4>1, <2>5, <2>7, Zenon
    <3>1. Last(r) \in 0 .. PerTable - 1 /\ Front(r) \in Routes
      BY <2>7, RouteOn
    <3>2. at \in Block /\ at # b
      <4>1. at # 0 /\ at \in 0 .. Blocks /\ v.used[at]
        BY <2>7, <3>1, FollowType DEF Owned
      <4> QED BY <4>1, <2>1, Geometry
    <3> HIDE DEF at
    <3> DEFINE g == [t EXCEPT ![at] = [t[at] EXCEPT ![Last(r)] = b]]
               w == [u EXCEPT !.tables = g]
    <3>3. /\ g \in [Block -> [0 .. PerTable - 1 -> 0 .. Blocks]] /\ g[b] = t[b]
          /\ \A c \in Block, k \in 0 .. PerTable - 1 :
               g[c][k] = IF c = at /\ k = Last(r) THEN b ELSE t[c][k]
      <4> HIDE DEF t
      <4> QED BY <2>1, <2>4, <3>1, <3>2
    <3>4. Link(v, i, r, isTable) = Done(w)
      <4>1. u.tables = t
        BY <2>4, Zenon
      <4> HIDE DEF t
      <4> QED BY <3>0, <4>1, <2>3, Zenon DEF at
    <3> HIDE DEF g
    <3>5. /\ w \in Volumes /\ w.tables = g /\ w.entries = u.entries /\ w.inodes = u.inodes /\ w.used = u.used
      BY <2>4, <3>3, SetTables
    <3> HIDE DEF w
    <3>6. Adds(v, w, i, r, b, isTable)
      <4>1. \A j \in Ino, k \in 0 .. Direct + 1 :
              w.inodes[j].ptr[k] = IF Len(r) = 1 /\ j = i /\ k = r[1] THEN b ELSE v.inodes[j].ptr[k]
        <5>1. w.inodes = v.inodes
          BY <2>4, <3>5, Zenon
        <5> QED BY <5>1, <3>0
      <4>2. \A c \in Block, k \in 0 .. PerTable - 1 :
              c # b => w.tables[c][k] = IF Len(r) > 1 /\ c = Follow(v, i, Front(r)) /\ k = Last(r)
                                        THEN b ELSE v.tables[c][k]
        <5> SUFFICES ASSUME NEW c \in Block, NEW k \in 0 .. PerTable - 1, c # b
                     PROVE  g[c][k] = IF c = at /\ k = Last(r) THEN b ELSE v.tables[c][k]
          BY <2>7, <3>5 DEF at
        <5>1. t[c] = v.tables[c]
          BY <2>2
        <5> QED BY <5>1, <3>3
      <4>3. isTable => \A k \in 0 .. PerTable - 1 : w.tables[b][k] = 0
        <5>1. isTable => t[b] = NoTable
          BY <2>1, <2>2
        <5> HIDE DEF t
        <5>2. isTable => w.tables[b] = NoTable
          BY <5>1, <3>3, <3>5
        <5> QED BY <5>2 DEF NoTable
      <4> QED BY <4>1, <4>2, <4>3, <1>3, <2>1, <2>4, <3>5 DEF Adds
    <3>7. \A j \in Ino, s \in Routes : Follow(w, j, s) = IF j = i /\ s = r THEN b ELSE Follow(v, j, s)
      BY <3>6, LinkFollow
    <3>8. Grown(v, w, i)
      <4>1. Owned(w)
        BY <3>6, LinkOwned
      <4> QED BY <4>1, <2>1, <2>4, <3>5, <3>7 DEF Grown
    <3> QED BY <2>1, <3>4, <3>5, <3>7, <3>8 DEF Done, Results
  <2>8. Len(r) = 1 \/ Len(r) > 1
    BY <2>5
  <2> QED BY <2>6, <2>7, <2>8, Zenon
<1>4. Follow(v, i, r) = 0 \/ Follow(v, i, r) # 0
  OBVIOUS
<1> QED BY <1>1, <1>2, <1>3, <1>4, Zenon

(* The route to a block of a file, and the shorter ones on the way to it.  *)
LEMMA DivBound ==
  ASSUME NEW m \in Nat, m > 0, NEW n \in Nat, n < m * m
  PROVE  n \div m \in 0 .. m - 1 /\ n % m \in 0 .. m - 1
<1>1. n \div m \in Int /\ n % m \in 0 .. m - 1 /\ n = m * (n \div m) + (n % m)
  BY ModDef
<1>2. ASSUME n \div m >= m PROVE FALSE
  <2>1. m * (n \div m) >= m * m
    BY <1>1, <1>2
  <2> QED BY <1>1, <2>1
<1>3. ASSUME n \div m <= -1 PROVE FALSE
  <2>1. m * (n \div m) <= m * (-1)
    BY <1>1, <1>3
  <2> QED BY <1>1, <2>1
<1> QED BY <1>1, <1>2, <1>3

(* The three forms of a route.                                             *)
LEMMA RouteIs ==
  ASSUME NEW l \in 0 .. Blocks - 1
  PROVE  \/ l \in 0 .. Direct - 1 /\ Route(l) = <<l>>
         \/ \E k \in 0 .. PerTable - 1 : Route(l) = <<Direct, k>>
         \/ \E j, k \in 0 .. PerTable - 1 : Route(l) = <<Direct + 1, j, k>>
<1>1. CASE l < Direct
  BY <1>1, Geometry DEF Route
<1>2. CASE ~ (l < Direct) /\ l < Direct + PerTable
  BY <1>2, Geometry DEF Route
<1>3. CASE ~ (l < Direct) /\ ~ (l < Direct + PerTable)
  <2> DEFINE n == l - Direct - PerTable
  <2>1. n \in Nat /\ n < PerTable * PerTable
    BY <1>3, Geometry
  <2>2. n \div PerTable \in 0 .. PerTable - 1 /\ n % PerTable \in 0 .. PerTable - 1
    BY <2>1, DivBound, Geometry
  <2>3. Route(l) = <<Direct + 1, n \div PerTable, n % PerTable>>
    BY <1>3, Geometry DEF Route
  <2> QED BY <2>2, <2>3
<1> QED BY <1>1, <1>2, <1>3

(* Nothing is beyond the route to a block.                                 *)
LEMMA RouteEnds ==
  ASSUME NEW l \in 0 .. Blocks - 1, NEW s \in Routes, Len(s) > 1
  PROVE  Front(s) # Route(l)
<1>1. \/ \E h \in {Direct, Direct + 1} : Front(s) = <<h>>
      \/ \E j \in 0 .. PerTable - 1 : Front(s) = <<Direct + 1, j>>
  <2>1. ~ \E k \in 0 .. Direct + 1 : s = <<k>>
    <3>1. ASSUME NEW k, s = <<k>> PROVE Len(s) = 1
      BY <3>1
    <3>2. ~ (1 > 1)
      OBVIOUS
    <3> QED BY <3>1, <3>2, Zenon
  <2>2. ASSUME NEW h \in {Direct, Direct + 1}, NEW k \in 0 .. PerTable - 1, s = <<h, k>>
        PROVE  Front(s) = <<h>>
    BY <2>2, Fronts
  <2>3. ASSUME NEW j \in 0 .. PerTable - 1, NEW k \in 0 .. PerTable - 1, s = <<Direct + 1, j, k>>
        PROVE  Front(s) = <<Direct + 1, j>>
    BY <2>3, Fronts
  <2> QED BY <2>1, <2>2, <2>3, RoutesAre
<1>2. ASSUME NEW h \in {Direct, Direct + 1} PROVE <<h>> # Route(l)
  <2>1. /\ \A k \in 0 .. PerTable - 1 : <<h>> # <<Direct, k>>
        /\ \A j, k \in 0 .. PerTable - 1 : <<h>> # <<Direct + 1, j, k>>
    OBVIOUS
  <2>2. l \in 0 .. Direct - 1 => <<h>> # <<l>>
    <3>1. l \in 0 .. Direct - 1 => h # l
      BY Geometry
    <3>2. <<h>>[1] = h /\ <<l>>[1] = l
      OBVIOUS
    <3> QED BY <3>1, <3>2
  <2> QED BY <2>1, <2>2, RouteIs
<1>3. ASSUME NEW j \in 0 .. PerTable - 1 PROVE <<Direct + 1, j>> # Route(l)
  <2>1. /\ \A k \in 0 .. PerTable - 1 : <<Direct + 1, j>> # <<Direct, k>>
        /\ \A i, k \in 0 .. PerTable - 1 : <<Direct + 1, j>> # <<Direct + 1, i, k>>
        /\ <<Direct + 1, j>> # <<l>>
    BY Geometry
  <2> QED BY <2>1, RouteIs
<1> QED BY <1>1, <1>2, <1>3

(* The first n steps of a route.                                           *)
Upto(r, n) == SubSeq(r, 1, n)

LEMMA ShortUpto ==
  /\ \A h : Upto(<<h>>, 1) = <<h>>
  /\ \A h, k : Upto(<<h, k>>, 1) = <<h>> /\ Upto(<<h, k>>, 2) = <<h, k>>
  /\ \A h, j, k : /\ Upto(<<h, j, k>>, 1) = <<h>> /\ Upto(<<h, j, k>>, 2) = <<h, j>>
                  /\ Upto(<<h, j, k>>, 3) = <<h, j, k>>
<1>1. \A r, n : Upto(r, n) = SubSeq(r, 1, n)
  BY Zenon DEF Upto
<1>2. ASSUME NEW h PROVE Upto(<<h>>, 1) = <<h>>
  <2>1. SubSeq(<<h>>, 1, 1) = <<h>>
    BY ShortSubSeq, Zenon
  <2> QED BY <1>1, <2>1, Zenon
<1>3. ASSUME NEW h, NEW k PROVE Upto(<<h, k>>, 1) = <<h>> /\ Upto(<<h, k>>, 2) = <<h, k>>
  <2>1. SubSeq(<<h, k>>, 1, 1) = <<h>> /\ SubSeq(<<h, k>>, 1, 2) = <<h, k>>
    BY ShortSubSeq, Zenon
  <2> QED BY <1>1, <2>1, Zenon
<1>4. ASSUME NEW h, NEW j, NEW k
      PROVE  /\ Upto(<<h, j, k>>, 1) = <<h>> /\ Upto(<<h, j, k>>, 2) = <<h, j>>
             /\ Upto(<<h, j, k>>, 3) = <<h, j, k>>
  <2>1. SubSeq(<<h, j, k>>, 1, 1) = <<h>>
    BY ShortSubSeq, Zenon
  <2>2. SubSeq(<<h, j, k>>, 1, 2) = <<h, j>>
    BY ShortSubSeq, Zenon
  <2>3. SubSeq(<<h, j, k>>, 1, 3) = <<h, j, k>>
    BY ShortSubSeq, ZenonT(60)
  <2> QED BY <1>1, <2>1, <2>2, <2>3, Zenon
<1> QED BY <1>2, <1>3, <1>4, Zenon

LEMMA ShortLens ==
  /\ \A h : Len(<<h>>) = 1
  /\ \A h, k : Len(<<h, k>>) = 2
  /\ \A h, j, k : Len(<<h, j, k>>) = 3
  OBVIOUS

(* The prefixes of a route are routes; each is the front of the next.      *)
LEMMA RoutePrefix ==
  ASSUME NEW l \in 0 .. Blocks - 1
  PROVE  /\ Route(l) \in Routes /\ Len(Route(l)) \in 1 .. 3
         /\ \A n \in 1 .. 3 : n <= Len(Route(l)) =>
              /\ Upto(Route(l), n) \in Routes
              /\ Len(Upto(Route(l), n)) = n
              /\ n > 1 => Front(Upto(Route(l), n)) = Upto(Route(l), n - 1)
              /\ n = Len(Route(l)) => Upto(Route(l), n) = Route(l)
<1> DEFINE Good(r, n) == /\ Upto(r, n) \in Routes
                         /\ Len(Upto(r, n)) = n
                         /\ n > 1 => Front(Upto(r, n)) = Upto(r, n - 1)
                         /\ n = Len(r) => Upto(r, n) = r
           All(r) == r \in Routes /\ Len(r) \in 1 .. 3 /\ \A n \in 1 .. 3 : n <= Len(r) => Good(r, n)
<1>1. ASSUME NEW k \in 0 .. Direct + 1 PROVE All(<<k>>)
  <2>1. Upto(<<k>>, 1) = <<k>> /\ Len(<<k>>) = 1
    BY ShortUpto, ShortLens, Zenon
  <2>2. <<k>> \in Routes
    BY DEF Routes
  <2>3. Good(<<k>>, 1)
    <3>1. ~ (1 > 1)
      OBVIOUS
    <3> QED BY <3>1, <2>1, <2>2, Zenon
  <2>4. \A n \in 1 .. 3 : n <= 1 => n = 1
    OBVIOUS
  <2> HIDE DEF Good
  <2> QED BY <2>1, <2>2, <2>3, <2>4
<1>2. ASSUME NEW h \in {Direct, Direct + 1}, NEW k \in 0 .. PerTable - 1 PROVE All(<<h, k>>)
  <2>1. /\ Upto(<<h, k>>, 1) = <<h>> /\ Upto(<<h, k>>, 2) = <<h, k>>
        /\ Len(<<h>>) = 1 /\ Len(<<h, k>>) = 2
    BY ShortUpto, ShortLens, Zenon
  <2>2. <<h>> \in Routes /\ <<h, k>> \in Routes
    BY Geometry DEF Routes
  <2>3. Front(<<h, k>>) = <<h>> /\ 2 - 1 = 1
    BY Fronts
  <2>4. Good(<<h, k>>, 1) /\ Good(<<h, k>>, 2)
    <3>1. ~ (1 > 1) /\ 1 # 2
      OBVIOUS
    <3>2. Good(<<h, k>>, 1)
      BY <3>1, <2>1, <2>2, Zenon
    <3>3. Good(<<h, k>>, 2)
      BY <2>1, <2>2, <2>3, Zenon
    <3> QED BY <3>2, <3>3, Zenon
  <2>5. \A n \in 1 .. 3 : n <= 2 => n = 1 \/ n = 2
    OBVIOUS
  <2> HIDE DEF Good
  <2> QED BY <2>1, <2>2, <2>4, <2>5
<1>3. ASSUME NEW j \in 0 .. PerTable - 1, NEW k \in 0 .. PerTable - 1 PROVE All(<<Direct + 1, j, k>>)
  <2> DEFINE h == Direct + 1
  <2>1. /\ Upto(<<h, j, k>>, 1) = <<h>> /\ Upto(<<h, j, k>>, 2) = <<h, j>>
        /\ Upto(<<h, j, k>>, 3) = <<h, j, k>>
        /\ Len(<<h>>) = 1 /\ Len(<<h, j>>) = 2 /\ Len(<<h, j, k>>) = 3
    BY ShortUpto, ShortLens, ZenonT(60)
  <2>2. <<h>> \in Routes /\ <<h, j>> \in Routes /\ <<h, j, k>> \in Routes
    BY Geometry DEF Routes
  <2>3. Front(<<h, j>>) = <<h>> /\ Front(<<h, j, k>>) = <<h, j>> /\ 2 - 1 = 1 /\ 3 - 1 = 2
    BY Fronts
  <2> HIDE DEF h
  <2>4. Good(<<h, j, k>>, 1) /\ Good(<<h, j, k>>, 2) /\ Good(<<h, j, k>>, 3)
    <3>1. ~ (1 > 1) /\ 1 # 3 /\ 2 # 3
      OBVIOUS
    <3>2. Good(<<h, j, k>>, 1)
      BY <3>1, <2>1, <2>2, Zenon
    <3>3. Good(<<h, j, k>>, 2)
      BY <3>1, <2>1, <2>2, <2>3, Zenon
    <3>4. Good(<<h, j, k>>, 3)
      BY <2>1, <2>2, <2>3, Zenon
    <3> QED BY <3>2, <3>3, <3>4, Zenon
  <2>5. \A n \in 1 .. 3 : n = 1 \/ n = 2 \/ n = 3
    OBVIOUS
  <2>6. All(<<h, j, k>>)
    <3> HIDE DEF Good
    <3> QED BY <2>1, <2>2, <2>4, <2>5
  <2> QED BY <2>6 DEF h
<1> HIDE DEF Good, All
<1>4. All(Route(l))
  <2>1. \A k \in 0 .. Direct - 1 : All(<<k>>)
    <3>1. \A k \in 0 .. Direct - 1 : k \in 0 .. Direct + 1
      BY Geometry
    <3> QED BY <3>1, <1>1, Zenon
  <2> QED BY <2>1, <1>2, <1>3, RouteIs, Zenon
<1> QED BY <1>4 DEF All, Good

(* One block of the way is linked, and the ones before it are.             *)
LEMMA Extended ==
  ASSUME NEW v \in Volumes, NEW i \in Ino, v.inodes[i].used, NEW l \in 0 .. Blocks - 1,
         NEW n \in 1 .. 3, NEW x \in Results, Grown(v, x.v, i),
         x.ok /\ n > 1 /\ n <= Len(Route(l)) => Follow(x.v, i, Upto(Route(l), n - 1)) # 0
  PROVE  LET y == Extend(x, i, Route(l), n) IN
         /\ y \in Results /\ Grown(v, y.v, i)
         /\ y.ok /\ n <= Len(Route(l)) => Follow(y.v, i, Upto(Route(l), n)) # 0
         /\ n > Len(Route(l)) => y = x
<1> DEFINE r == Route(l)
           q == Upto(r, n)
<1>1. Len(r) \in 1 .. 3
  BY RoutePrefix
<1>2. CASE ~ (x.ok /\ n <= Len(r))
  BY <1>1, <1>2 DEF Extend
<1>3. CASE x.ok /\ n <= Len(r)
  <2>1. /\ q \in Routes /\ Len(q) = n
        /\ n > 1 => Front(q) = Upto(r, n - 1)
        /\ n = Len(r) => q = r
    BY <1>3, RoutePrefix
  <2>2. Extend(x, i, r, n) = Link(x.v, i, q, n < Len(r))
    BY <1>3 DEF Extend, Upto
  <2>3. x.v \in Volumes /\ Owned(x.v) /\ x.v.inodes[i].used
    BY DEF Grown
  <2>4. ~ (n < Len(r)) => \A s \in Routes : Len(s) > 1 => Front(s) # q
    <3>1. ~ (n < Len(r)) => n = Len(r)
      BY <1>1, <1>3
    <3> QED BY <3>1, <2>1, RouteEnds
  <2>5. Len(q) > 1 => Follow(x.v, i, Front(q)) # 0
    BY <1>3, <2>1
  <2>6. (n < Len(r)) \in BOOLEAN
    OBVIOUS
  <2> HIDE DEF q
  <2> DEFINE y == Link(x.v, i, q, n < Len(r))
  <2>7. Grown(x.v, y.v, i) /\ y \in Results /\ (y.ok => Follow(y.v, i, q) # 0)
    BY <2>1, <2>3, <2>4, <2>5, <2>6, Linked
  <2> HIDE DEF y
  <2>8. Grown(v, y.v, i)
    BY <2>7, GrownTwice
  <2>9. ~ (n > Len(r))
    BY <1>1, <1>3
  <2> QED BY <2>2, <2>7, <2>8, <2>9 DEF y, q
<1> QED BY <1>2, <1>3

(* ensure_block only adds blocks to inode i; when it succeeds the block    *)
(* asked for is there.                                                     *)
LEMMA Ensured ==
  ASSUME NEW v \in Volumes, Owned(v), NEW i \in Ino, v.inodes[i].used, NEW l \in Nat
  PROVE  LET y == EnsureBlock(v, i, l) IN
         y \in Results /\ Grown(v, y.v, i) /\ (y.ok => l < Blocks /\ Follow(y.v, i, Route(l)) # 0)
<1>1. CASE ~ (l < Blocks)
  BY <1>1, GrownSelf DEF EnsureBlock, Failed, Results
<1>2. CASE l < Blocks
  <2> DEFINE r == Route(l)
             x == Done(v)
             x1 == Extend(x, i, r, 1)
             x2 == Extend(x1, i, r, 2)
             x3 == Extend(x2, i, r, 3)
  <2>1. l \in 0 .. Blocks - 1
    BY <1>2, Geometry
  <2>2. x \in Results /\ Grown(v, x.v, i)
    BY GrownSelf DEF Done, Results
  <2>3. EnsureBlock(v, i, l) = x3
    BY <1>2, Zenon DEF EnsureBlock
  <2> HIDE DEF x
  <2>4. 1 \in 1 .. 3 /\ 2 \in 1 .. 3 /\ 3 \in 1 .. 3 /\ 2 - 1 = 1 /\ 3 - 1 = 2 /\ ~ (1 > 1)
    OBVIOUS
  <2>5. /\ x1 \in Results /\ Grown(v, x1.v, i)
        /\ x1.ok /\ 1 <= Len(r) => Follow(x1.v, i, Upto(r, 1)) # 0
        /\ 1 > Len(r) => x1 = x
    BY <2>1, <2>2, <2>4, Extended
  <2> HIDE DEF x1
  <2>6. Len(r) \in 1 .. 3
    BY <2>1, RoutePrefix
  <2>7. /\ x2 \in Results /\ Grown(v, x2.v, i)
        /\ x2.ok /\ 2 <= Len(r) => Follow(x2.v, i, Upto(r, 2)) # 0
        /\ 2 > Len(r) => x2 = x1
    <3>1. x1.ok /\ 2 > 1 /\ 2 <= Len(r) => Follow(x1.v, i, Upto(r, 2 - 1)) # 0
      BY <2>4, <2>5, <2>6
    <3> QED BY <3>1, <2>1, <2>4, <2>5, Extended
  <2> HIDE DEF x2
  <2>8. /\ x3 \in Results /\ Grown(v, x3.v, i)
        /\ x3.ok /\ 3 <= Len(r) => Follow(x3.v, i, Upto(r, 3)) # 0
        /\ 3 > Len(r) => x3 = x2
    <3>1. x2.ok /\ 3 > 1 /\ 3 <= Len(r) => Follow(x2.v, i, Upto(r, 3 - 1)) # 0
      BY <2>4, <2>6, <2>7
    <3> QED BY <3>1, <2>1, <2>4, <2>7, Extended
  <2> HIDE DEF x3
  <2>9. x3.ok => Follow(x3.v, i, r) # 0
    <3>1. Len(r) = 1 \/ Len(r) = 2 \/ Len(r) = 3
      BY <2>6
    <3>2. ASSUME NEW n \in 1 .. 3, n = Len(r) PROVE Upto(r, n) = r
      <4>1. n <= Len(r)
        BY <3>2
      <4> QED BY <4>1, <3>2, <2>1, RoutePrefix
    <3> HIDE DEF r
    <3>3. CASE Len(r) = 1
      <4>1. Upto(r, 1) = r /\ x3 = x1
        BY <3>2, <3>3, <2>4, <2>7, <2>8
      <4> QED BY <4>1, <3>3, <2>5
    <3>4. CASE Len(r) = 2
      <4>1. Upto(r, 2) = r /\ x3 = x2
        BY <3>2, <3>4, <2>4, <2>8
      <4> QED BY <4>1, <3>4, <2>7
    <3>5. CASE Len(r) = 3
      <4>1. Upto(r, 3) = r
        BY <3>2, <3>5, <2>4
      <4> QED BY <4>1, <3>5, <2>8
    <3> QED BY <3>1, <3>3, <3>4, <3>5
  <2> QED BY <1>2, <2>3, <2>8, <2>9
<1> QED BY <1>1, <1>2

(* minifs_write only adds blocks to inode i, however many it asks for and  *)
(* wherever it runs out.                                                   *)
LEMMA EnsuredAll ==
  ASSUME NEW v \in Volumes, Owned(v), NEW i \in Ino, v.inodes[i].used,
         NEW first \in Nat, NEW count \in Nat
  PROVE  LET y == EnsureBlocks(v, i, first, count) IN y \in Results /\ Grown(v, y.v, i)
<1> DEFINE T == {x \in Results : Grown(v, x.v, i)}
           Is(f) == f = [n \in Nat |-> IF n = 0 THEN Done(v)
                                       ELSE LET x == f[n - 1] IN
                                            IF x.ok THEN EnsureBlock(x.v, i, first + n - 1) ELSE x]
           done == CHOOSE f : Is(f)
           step == [z \in T \X Nat |-> IF z[1].ok THEN EnsureBlock(z[1].v, i, first + z[2]) ELSE z[1]]
<1>1. EnsureBlocks(v, i, first, count) = done[count]
  BY DEF EnsureBlocks
<1>2. Done(v) \in T
  BY GrownSelf DEF Done, Results
<1>3. ASSUME NEW x \in T, NEW l \in Nat PROVE EnsureBlock(x.v, i, l) \in T
  <2>1. x.v \in Volumes /\ Owned(x.v) /\ x.v.inodes[i].used
    BY DEF Grown
  <2> DEFINE y == EnsureBlock(x.v, i, l)
  <2>2. y \in Results /\ Grown(x.v, y.v, i)
    BY <2>1, Ensured
  <2> HIDE DEF y
  <2>3. Grown(v, y.v, i)
    BY <2>2, GrownTwice
  <2> QED BY <2>2, <2>3 DEF y
<1> HIDE DEF T
<1>4. step \in [T \X Nat -> T]
  <2> SUFFICES ASSUME NEW z \in T \X Nat
               PROVE  (IF z[1].ok THEN EnsureBlock(z[1].v, i, first + z[2]) ELSE z[1]) \in T
    OBVIOUS
  <2>1. z[1] \in T /\ first + z[2] \in Nat
    OBVIOUS
  <2> QED BY <2>1, <1>3
<1>5. \E f : Is(f)
  <2>1. PICK f \in [Nat -> T] : f[0] = Done(v) /\ \A n \in Nat : f[n + 1] = step[<<f[n], n>>]
    <3> HIDE DEF step
    <3>1. Exists(T, Done(v), step)
      BY <1>2, <1>4, Recursion
    <3> QED BY <3>1 DEF Exists
  <2>2. ASSUME NEW n \in Nat, n # 0
        PROVE  f[n] = IF f[n - 1].ok THEN EnsureBlock(f[n - 1].v, i, first + n - 1) ELSE f[n - 1]
    <3>1. n - 1 \in Nat /\ (n - 1) + 1 = n /\ first + (n - 1) = first + n - 1
      BY <2>2
    <3>2. f[n] = step[<<f[n - 1], n - 1>>]
      BY <3>1, <2>1
    <3>3. f[n - 1] \in T /\ <<f[n - 1], n - 1>> \in T \X Nat
      BY <3>1
    <3> QED BY <3>1, <3>2, <3>3
  <2>3. Is(f)
    BY <2>1, <2>2
  <2> QED BY <2>3
<1>6. Is(done)
  <2> HIDE DEF Is
  <2> QED BY <1>5
<1> HIDE DEF done
<1>7. Nat \subseteq {n \in Nat : done[n] \in T}
  <2> DEFINE U == {n \in Nat : done[n] \in T}
  <2>1. 0 \in U
    BY <1>2, <1>6
  <2>2. ASSUME NEW n \in Nat, n \in U PROVE n + 1 \in U
    <3>1. n + 1 \in Nat /\ n + 1 # 0 /\ (n + 1) - 1 = n /\ first + (n + 1) - 1 = first + n /\ first + n \in Nat
      OBVIOUS
    <3>2. done[n + 1] = IF done[n].ok THEN EnsureBlock(done[n].v, i, first + n) ELSE done[n]
      BY <1>6, <3>1
    <3> QED BY <3>1, <3>2, <2>2, <1>3
  <2> HIDE DEF U
  <2>3. Nat \subseteq U
    BY <2>1, <2>2, Induct
  <2> QED BY <2>3 DEF U
<1>8. done[count] \in T
  BY <1>7
<1> QED BY <1>1, <1>8 DEF T

(* Other changes of inodes do not disturb the blocks.                      *)
LEMMA SamePointers ==
  ASSUME NEW v \in Volumes, NEW w \in Volumes, Owned(v), w.tables = v.tables, w.used = v.used,
         \A j \in Ino : w.inodes[j].ptr = v.inodes[j].ptr,
         \A j \in Ino : ~w.inodes[j].used => w.inodes[j].ptr = NoPtr
  PROVE  Owned(w) /\ \A j \in Ino, s \in Routes : Follow(w, j, s) = Follow(v, j, s)
<1>1. ASSUME NEW j \in Ino, NEW s \in Routes PROVE Follow(w, j, s) = Follow(v, j, s)
  BY DEF Follow, Pointer
<1> QED BY <1>1 DEF Owned

(* An inode without pointers refers to nothing.                            *)
LEMMA NoRoute ==
  ASSUME NEW v \in Volumes, NEW i \in Ino, v.inodes[i].ptr = NoPtr, NEW r \in Routes
  PROVE  Follow(v, i, r) = 0
<1> DEFINE T == {s \in Routes : Follow(v, i, s) = 0}
<1>1. ASSUME NEW s \in Routes, Len(s) = 1 PROVE s \in T
  <2>1. s[1] \in 0 .. Direct + 1 /\ Follow(v, i, s) = v.inodes[i].ptr[s[1]]
    BY <1>1, RouteOne
  <2> QED BY <2>1 DEF NoPtr
<1>2. ASSUME NEW s \in Routes, Len(s) > 1, Front(s) \in T PROVE s \in T
  <2>1. Follow(v, i, s) = Pointer(v, Follow(v, i, Front(s)), Last(s))
    BY <1>2, RouteOn
  <2> QED BY <2>1, <1>2 DEF Pointer
<1> HIDE DEF T
<1>3. Routes \subseteq T
  BY <1>1, <1>2, RouteInduction
<1> QED BY <1>3 DEF T

(* free_inode_blocks frees what the inode refers to, and nothing else.     *)
LEMMA Freed ==
  ASSUME NEW v \in Volumes, Owned(v), NEW i \in Ino
  PROVE  LET w == FreeBlocks(v, i) IN
         /\ w \in Volumes /\ Owned(w) /\ w.entries = v.entries
         /\ \A j \in Ino : j # i => w.inodes[j] = v.inodes[j]
         /\ w.inodes[i].used = v.inodes[i].used /\ w.inodes[i].type = v.inodes[i].type
         /\ w.inodes[i].parent = v.inodes[i].parent /\ w.inodes[i].size = 0 /\ w.inodes[i].ptr = NoPtr
         /\ \A j \in Ino, s \in Routes : j # i => Follow(w, j, s) = Follow(v, j, s)
<1> DEFINE n == v.inodes[i]
           n1 == [n EXCEPT !.ptr = NoPtr]
           m == [n1 EXCEPT !.size = 0]
           used == [b \in Block |-> v.used[b] /\ b \notin BlocksOf(v, i)]
           f1 == [v.inodes EXCEPT ![i] = n1]
           f == [v.inodes EXCEPT ![i] = m]
           u1 == [v EXCEPT !.used = used]
           u2 == [u1 EXCEPT !.inodes = f1]
           u3 == [u2 EXCEPT !.inodes = [u2.inodes EXCEPT ![i] = [u2.inodes[i] EXCEPT !.size = 0]]]
           w == [u3 EXCEPT !.cursor = 1]
<1>1. /\ v.inodes \in [Ino -> Inode] /\ n \in Inode /\ v.used \in [Block -> BOOLEAN]
  BY VolumeFields
<1>2. /\ n1 \in Inode /\ n1.ptr = NoPtr /\ n1.used = n.used /\ n1.type = n.type
      /\ n1.parent = n.parent /\ n1.size = n.size
  BY <1>1, NoPointers, SetInodePtr
<1>3. /\ m \in Inode /\ m.ptr = NoPtr /\ m.used = n.used /\ m.type = n.type
      /\ m.parent = n.parent /\ m.size = 0
  <2> HIDE DEF n1
  <2>1. 0 \in 0 .. Blocks * PerBlock
    BY Geometry
  <2> QED BY <2>1, <1>2, SetInodeSize
<1>4. used \in [Block -> BOOLEAN] /\ \A b \in Block : used[b] = (v.used[b] /\ b \notin BlocksOf(v, i))
  BY <1>1
<1>5. /\ f1 \in [Ino -> Inode] /\ f \in [Ino -> Inode] /\ f[i] = m /\ f1[i] = n1
      /\ \A j \in Ino : j # i => f[j] = v.inodes[j]
      /\ [f1 EXCEPT ![i] = m] = f
  <2> HIDE DEF n1, m
  <2> QED BY <1>1, <1>2, <1>3
<1> HIDE DEF f1, f, used
<1>6. u1 \in Volumes /\ u1.inodes = v.inodes /\ u1.entries = v.entries /\ u1.tables = v.tables /\ u1.used = used
  BY <1>4, SetUsed
<1> HIDE DEF u1
<1>7. u2 \in Volumes /\ u2.inodes = f1 /\ u2.entries = v.entries /\ u2.tables = v.tables /\ u2.used = used
  BY <1>5, <1>6, SetInodes
<1> HIDE DEF u2
<1>8. u3 = [u2 EXCEPT !.inodes = f]
  <2>1. [u2.inodes EXCEPT ![i] = [u2.inodes[i] EXCEPT !.size = 0]] = f
    <3>1. u2.inodes[i] = n1
      BY <1>5, <1>7
    <3> HIDE DEF n1
    <3> QED BY <3>1, <1>5, <1>7
  <2> QED BY <2>1
<1> HIDE DEF u3
<1>9. u3 \in Volumes /\ u3.inodes = f /\ u3.entries = v.entries /\ u3.tables = v.tables /\ u3.used = used
  BY <1>5, <1>7, <1>8, SetInodes
<1>10. w \in Volumes /\ w.inodes = f /\ w.entries = v.entries /\ w.tables = v.tables /\ w.used = used
  <2>1. 1 \in Block
    BY Geometry DEF Block
  <2> QED BY <2>1, <1>9, SetCursor
<1>11. FreeBlocks(v, i) = w
  <2>1. u2 = [u1 EXCEPT !.inodes = [u1.inodes EXCEPT ![i] = [u1.inodes[i] EXCEPT !.ptr = NoPtr]]]
    BY <1>6 DEF u2, f1
  <2> QED BY <2>1, Zenon DEF FreeBlocks, u3, u1, used
<1> HIDE DEF w
<1>12. /\ \A j \in Ino : j # i => w.inodes[j] = v.inodes[j]
       /\ w.inodes[i].used = n.used /\ w.inodes[i].type = n.type
       /\ w.inodes[i].parent = n.parent /\ w.inodes[i].size = 0 /\ w.inodes[i].ptr = NoPtr
  BY <1>3, <1>5, <1>10
<1>13. \A j \in Ino, s \in Routes : j # i => Follow(w, j, s) = Follow(v, j, s)
  BY <1>10, <1>12, ZenonT(60) DEF Follow, Pointer
<1>14. \A s \in Routes : Follow(w, i, s) = 0
  BY <1>10, <1>12, NoRoute
<1>15. Owned(w)
  <2>1. \A j, k \in Ino, r, s \in Routes :
          Follow(w, j, r) # 0 /\ Follow(w, j, r) = Follow(w, k, s) => j = k /\ r = s
    BY <1>13, <1>14 DEF Owned
  <2>2. ASSUME NEW j \in Ino, NEW r \in Routes, Follow(w, j, r) # 0 PROVE w.used[Follow(w, j, r)]
    <3>1. j # i /\ Follow(w, j, r) = Follow(v, j, r)
      BY <2>2, <1>13, <1>14
    <3>2. v.used[Follow(v, j, r)] /\ Follow(v, j, r) \notin BlocksOf(v, i)
      BY <2>2, <3>1 DEF Owned, BlocksOf
    <3>3. Follow(v, j, r) \in Block
      BY <2>2, <3>1, FollowType, Geometry
    <3> QED BY <3>1, <3>2, <3>3, <1>4, <1>10
  <2>3. ASSUME NEW b \in Block, w.used[b] PROVE \E j \in Ino, r \in Routes : Follow(w, j, r) = b
    <3>1. v.used[b] /\ b \notin BlocksOf(v, i)
      BY <2>3, <1>4, <1>10
    <3>2. PICK j \in Ino, r \in Routes : Follow(v, j, r) = b
      BY <3>1 DEF Owned
    <3>3. j # i
      BY <3>1, <3>2, Geometry DEF BlocksOf
    <3> QED BY <3>2, <3>3, <1>13
  <2>4. \A j \in Ino : ~w.inodes[j].used => w.inodes[j].ptr = NoPtr
    BY <1>12 DEF Owned
  <2> QED BY <2>1, <2>2, <2>3, <2>4 DEF Owned
<1> QED BY <1>10, <1>11, <1>12, <1>13, <1>15

-----------------------------------------------------------------------------
(***************************************************************************)
(* Directories.                                                            *)
(***************************************************************************)
Dir(v, d) == v.inodes[d].used /\ v.inodes[d].type = "dir"

(* Place k of directory d is linked to an inode.                           *)
At(v, d, k) == d \in Ino /\ k \in 1 .. Len(v.entries[d]) /\ v.entries[d][k].ino # 0

(* Only directories have entries; these fill the directory's size, and     *)
(* each has its block.                                                     *)
Sized(v) ==
  /\ \A d \in Ino : ~Dir(v, d) => v.entries[d] = <<>>
  /\ \A d \in Ino : Dir(v, d) => v.inodes[d].size = Len(v.entries[d])
  /\ \A d \in Ino, k \in Nat :
       k \in 1 .. Len(v.entries[d]) => Follow(v, d, Route((k - 1) \div PerBlock)) # 0
  /\ \A i \in Ino : ~v.inodes[i].used => v.inodes[i].size = 0

(* An entry describes its inode, which is not the root and has no other.   *)
Described(v) ==
  /\ \A d, k : At(v, d, k) => LET e == v.entries[d][k] IN
       /\ e.ino \in Ino \ {Root} /\ v.inodes[e.ino].used
       /\ e.type = v.inodes[e.ino].type /\ v.inodes[e.ino].parent = d
  /\ \A d, k, l : At(v, d, k) /\ At(v, d, l) /\ v.entries[d][k].name = v.entries[d][l].name => k = l
  /\ \A d, e, k, l : At(v, d, k) /\ At(v, e, l) /\ v.entries[d][k].ino = v.entries[e][l].ino
                     => d = e /\ k = l
  /\ \A i \in Ino \ {Root} : v.inodes[i].used => \E d, k : At(v, d, k) /\ v.entries[d][k].ino = i
  /\ Dir(v, Root) /\ v.inodes[Root].parent = Root

Good(v) == v \in Volumes /\ Owned(v) /\ Sized(v) /\ Described(v)

(* The fields of an entry.                                                 *)
LEMMA EntryFields ==
  ASSUME NEW v \in Volumes, NEW d \in Ino
  PROVE  /\ v.entries[d] \in Seq(Entry) /\ Len(v.entries[d]) \in Nat
         /\ \A k \in 1 .. Len(v.entries[d]) :
              /\ v.entries[d][k] \in Entry /\ v.entries[d][k].name \in Name
              /\ v.entries[d][k].ino \in 0 .. Inodes - 1
              /\ v.entries[d][k].type \in {"free", "file", "dir"}
         /\ DOMAIN v.entries[d] = 1 .. Len(v.entries[d])
<1>1. v.entries[d] \in Seq(Entry)
  BY VolumeFields
<1>2. \A k \in 1 .. Len(v.entries[d]) : v.entries[d][k] \in Entry
  BY <1>1
<1>3. \A e \in Entry : e.name \in Name /\ e.ino \in 0 .. Inodes - 1 /\ e.type \in {"free", "file", "dir"}
  BY DEF Entry
<1> QED BY <1>1, <1>2, <1>3

(* dir_find finds the entry of that name, if there is one.                 *)
LEMMA Found ==
  ASSUME NEW v \in Volumes, NEW d \in Ino, NEW n
  PROVE  /\ DirFind(v, d, n) \in 0 .. Inodes - 1
         /\ DirFind(v, d, n) # 0 =>
              LET k == Min(Places(v, d, n)) IN
              At(v, d, k) /\ v.entries[d][k].ino = DirFind(v, d, n) /\ v.entries[d][k].name = n
         /\ DirFind(v, d, n) = 0 => \A k : At(v, d, k) => v.entries[d][k].name # n
<1>1. Places(v, d, n) = {k \in 1 .. Len(v.entries[d]) : v.entries[d][k].ino # 0 /\ v.entries[d][k].name = n}
  BY EntryFields DEF Places
<1>2. CASE Places(v, d, n) = {}
  <2>1. DirFind(v, d, n) = 0
    BY <1>2 DEF DirFind
  <2>2. \A k : At(v, d, k) => v.entries[d][k].name # n
    BY <1>1, <1>2 DEF At
  <2> QED BY <2>1, <2>2, Geometry
<1>3. CASE Places(v, d, n) # {}
  <2> DEFINE k == Min(Places(v, d, n))
  <2>1. Places(v, d, n) \in SUBSET Nat
    BY <1>1
  <2>2. k \in Places(v, d, n)
    BY <1>3, <2>1, MinIs
  <2>3. DirFind(v, d, n) = v.entries[d][k].ino
    BY <1>3 DEF DirFind
  <2> HIDE DEF k
  <2>4. k \in 1 .. Len(v.entries[d]) /\ v.entries[d][k].ino # 0 /\ v.entries[d][k].name = n
    BY <1>1, <2>2
  <2>5. v.entries[d][k].ino \in 0 .. Inodes - 1
    BY <2>4, EntryFields
  <2> QED BY <2>3, <2>4, <2>5 DEF At, k
<1> QED BY <1>2, <1>3

(* The way along a path goes from inode to inode by their entries.         *)
LEMMA WalkIs ==
  ASSUME NEW v \in Volumes, NEW p
  PROVE  LET at == Walk(v, p) IN
         /\ at[0] = Root
         /\ \A n \in Nat : at[n] \in 0 .. Inodes - 1
         /\ \A n \in Nat : at[n + 1] = IF at[n] # 0 /\ IsDir(v, at[n])
                                       THEN DirFind(v, at[n], p[n + 1]) ELSE 0
<1> DEFINE T == 0 .. Inodes - 1
           Is(f) == f = [n \in Nat |-> IF n = 0 THEN Root
                                       ELSE LET i == f[n - 1] IN
                                            IF i # 0 /\ IsDir(v, i) THEN DirFind(v, i, p[n]) ELSE 0]
           at == CHOOSE f : Is(f)
           step == [z \in T \X Nat |-> IF z[1] # 0 /\ IsDir(v, z[1])
                                       THEN DirFind(v, z[1], p[z[2] + 1]) ELSE 0]
<1>1. Walk(v, p) = at
  BY DEF Walk
<1>2. Root \in T /\ 0 \in T /\ \A i \in T : i # 0 => i \in Ino
  BY Geometry DEF Ino, Root
<1>3. ASSUME NEW i \in T, NEW n PROVE (IF i # 0 /\ IsDir(v, i) THEN DirFind(v, i, n) ELSE 0) \in T
  BY <1>2, Found
<1> HIDE DEF T
<1>4. step \in [T \X Nat -> T]
  <2> SUFFICES ASSUME NEW z \in T \X Nat
               PROVE  (IF z[1] # 0 /\ IsDir(v, z[1]) THEN DirFind(v, z[1], p[z[2] + 1]) ELSE 0) \in T
    OBVIOUS
  <2>1. z[1] \in T
    OBVIOUS
  <2> QED BY <2>1, <1>3
<1>5. \E f : Is(f)
  <2>1. PICK f \in [Nat -> T] : f[0] = Root /\ \A n \in Nat : f[n + 1] = step[<<f[n], n>>]
    <3> HIDE DEF step
    <3>1. Exists(T, Root, step)
      BY <1>2, <1>4, Recursion
    <3> QED BY <3>1 DEF Exists
  <2>2. ASSUME NEW n \in Nat, n # 0
        PROVE  f[n] = IF f[n - 1] # 0 /\ IsDir(v, f[n - 1]) THEN DirFind(v, f[n - 1], p[n]) ELSE 0
    <3>1. n - 1 \in Nat /\ (n - 1) + 1 = n
      BY <2>2
    <3>2. f[n] = step[<<f[n - 1], n - 1>>]
      BY <3>1, <2>1
    <3>3. f[n - 1] \in T /\ <<f[n - 1], n - 1>> \in T \X Nat
      BY <3>1
    <3> QED BY <3>1, <3>2, <3>3
  <2>3. Is(f)
    BY <2>1, <2>2
  <2> QED BY <2>3
<1>6. Is(at)
  <2> HIDE DEF Is
  <2> QED BY <1>5
<1> HIDE DEF at
<1>7. at[0] = Root
  BY <1>6
<1>8. ASSUME NEW n \in Nat
      PROVE  at[n + 1] = IF at[n] # 0 /\ IsDir(v, at[n]) THEN DirFind(v, at[n], p[n + 1]) ELSE 0
  <2>1. n + 1 \in Nat /\ n + 1 # 0 /\ (n + 1) - 1 = n
    OBVIOUS
  <2> QED BY <2>1, <1>6
<1>9. Nat \subseteq {n \in Nat : at[n] \in T}
  <2> DEFINE U == {n \in Nat : at[n] \in T}
  <2>1. 0 \in U
    BY <1>2, <1>7
  <2>2. ASSUME NEW n \in Nat, n \in U PROVE n + 1 \in U
    BY <2>2, <1>8, <1>3
  <2> HIDE DEF U
  <2>3. Nat \subseteq U
    BY <2>1, <2>2, Induct
  <2> QED BY <2>3 DEF U
<1> QED BY <1>1, <1>7, <1>8, <1>9 DEF T

(* Each step along a path follows an entry, and never back to the root.    *)
LEMMA WalkStep ==
  ASSUME NEW v, Good(v), NEW p, NEW n \in Nat, Walk(v, p)[n + 1] # 0
  PROVE  LET d == Walk(v, p)[n] IN
         /\ d \in Ino /\ Dir(v, d) /\ Walk(v, p)[n + 1] \in Ino \ {Root}
         /\ \E k : At(v, d, k) /\ v.entries[d][k].ino = Walk(v, p)[n + 1] /\ v.entries[d][k].name = p[n + 1]
<1> DEFINE d == Walk(v, p)[n]
<1>1. v \in Volumes /\ Described(v)
  BY DEF Good
<1>2. d \in 0 .. Inodes - 1 /\ d # 0 /\ IsDir(v, d) /\ Walk(v, p)[n + 1] = DirFind(v, d, p[n + 1])
  BY <1>1, WalkIs
<1> HIDE DEF d
<1>3. d \in Ino
  BY <1>2, Geometry DEF Ino
<1>4. PICK k : At(v, d, k) /\ v.entries[d][k].ino = DirFind(v, d, p[n + 1]) /\ v.entries[d][k].name = p[n + 1]
  BY <1>1, <1>2, <1>3, Found
<1>5. DirFind(v, d, p[n + 1]) \in Ino \ {Root}
  BY <1>1, <1>4 DEF Described
<1> QED BY <1>2, <1>3, <1>4, <1>5 DEF d, Dir, IsDir

(* A path only leads through inodes in use.                                *)
LEMMA WalkUsed ==
  ASSUME NEW v, Good(v), NEW p, NEW n \in Nat, Walk(v, p)[n] # 0
  PROVE  Walk(v, p)[n] \in Ino /\ v.inodes[Walk(v, p)[n]].used
<1>1. v \in Volumes /\ Described(v)
  BY DEF Good
<1>2. CASE n = 0
  BY <1>1, <1>2, WalkIs, Geometry DEF Described, Dir
<1>3. CASE n # 0
  <2>1. n - 1 \in Nat /\ (n - 1) + 1 = n
    BY <1>3
  <2>2. Walk(v, p)[n] \in Ino /\ \E d, k : At(v, d, k) /\ v.entries[d][k].ino = Walk(v, p)[n]
    BY <2>1, WalkStep
  <2> QED BY <2>2, <1>1 DEF Described
<1> QED BY <1>2, <1>3
(* An inode has no two entries.                                            *)
LEMMA OneLink ==
  ASSUME NEW v, Described(v), NEW d, NEW k, NEW e, NEW l, At(v, d, k), At(v, e, l),
         v.entries[d][k].ino = v.entries[e][l].ino
  PROVE  d = e /\ k = l
  BY DEF Described

(* Only one path leads to an inode.                                        *)
LEMMA OnePath ==
  ASSUME NEW v, Good(v), NEW p, NEW q, NEW a \in Nat, NEW b \in Nat,
         Walk(v, p)[a] # 0, Walk(v, p)[a] = Walk(v, q)[b]
  PROVE  a = b /\ \A m \in 1 .. a : p[m] = q[m]
<1> DEFINE Same(n, l) == Walk(v, p)[n] # 0 /\ Walk(v, p)[n] = Walk(v, q)[l]
                         => n = l /\ \A m \in 1 .. n : p[m] = q[m]
           U == {n \in Nat : \A l \in Nat : Same(n, l)}
<1>0. v \in Volumes /\ Described(v)
  BY DEF Good
<1>1. 0 \in U
  <2>1. Walk(v, p)[0] = Root
    BY <1>0, WalkIs
  <2> SUFFICES ASSUME NEW l \in Nat, Walk(v, q)[l] = Root, l # 0 PROVE FALSE
    BY <2>1
  <2>2. l - 1 \in Nat /\ (l - 1) + 1 = l /\ Root # 0
    BY DEF Root
  <2>3. Walk(v, q)[(l - 1) + 1] = Root /\ Walk(v, q)[(l - 1) + 1] # 0
    BY <2>2
  <2>4. Walk(v, q)[(l - 1) + 1] \in Ino \ {Root}
    BY <2>2, <2>3, WalkStep
  <2> QED BY <2>3, <2>4
<1>2. ASSUME NEW n \in Nat, n \in U PROVE n + 1 \in U
  <2> SUFFICES ASSUME NEW l \in Nat, Walk(v, p)[n + 1] # 0, Walk(v, p)[n + 1] = Walk(v, q)[l]
               PROVE  n + 1 = l /\ \A m \in 1 .. n + 1 : p[m] = q[m]
    OBVIOUS
  <2> DEFINE d == Walk(v, p)[n]
  <2>1. PICK k : /\ At(v, d, k) /\ v.entries[d][k].ino = Walk(v, p)[n + 1]
                 /\ v.entries[d][k].name = p[n + 1]
    BY WalkStep
  <2>2. d \in Ino /\ Walk(v, p)[n + 1] # Root
    BY WalkStep
  <2>3. l # 0
    BY <1>0, <2>2, WalkIs
  <2>4. l - 1 \in Nat /\ (l - 1) + 1 = l
    BY <2>3
  <2> DEFINE e == Walk(v, q)[l - 1]
  <2>5. PICK j : At(v, e, j) /\ v.entries[e][j].ino = Walk(v, q)[l] /\ v.entries[e][j].name = q[l]
    <3>1. Walk(v, q)[(l - 1) + 1] # 0
      BY <2>4
    <3> QED BY <2>4, <3>1, WalkStep
  <2>6. d = e /\ k = j
    <3> HIDE DEF d, e
    <3>1. v.entries[d][k].ino = v.entries[e][j].ino
      BY <2>1, <2>5
    <3>2. Described(v)
      BY <1>0
    <3> QED BY <2>1, <2>5, <3>1, <3>2, OneLink
  <2>7. n = l - 1 /\ \A m \in 1 .. n : p[m] = q[m]
    <3>1. d # 0
      BY <2>2, Geometry
    <3> QED BY <1>2, <2>4, <2>6, <3>1
  <2>8. p[n + 1] = q[n + 1]
    <3>1. p[n + 1] = q[l]
      <4> HIDE DEF d, e
      <4> QED BY <2>1, <2>5, <2>6
    <3> QED BY <3>1, <2>4, <2>7
  <2> QED BY <2>4, <2>7, <2>8
<1> HIDE DEF U
<1>3. Nat \subseteq U
  BY <1>1, <1>2, Induct
<1> QED BY <1>3 DEF U

LEMMA PathParts ==
  ASSUME NEW p \in Path
  PROVE  p \in Seq(Name) /\ Len(p) \in Nat \ {0} /\ Len(p) - 1 \in Nat /\ Last(p) = p[Len(p)] /\ Last(p) \in Name
<1>1. p \in Seq(Name) /\ p # <<>>
  BY PathAssumption
<1>2. Len(p) \in Nat /\ Len(p) # 0
  BY <1>1, EmptySeq
<1> QED BY <1>1, <1>2 DEF Last

(* What resolve_parent finds is a directory in use.                        *)
LEMMA Parent ==
  ASSUME NEW v, Good(v), NEW p \in Path, ResolveParent(v, p) # 0
  PROVE  LET d == ResolveParent(v, p) IN
         /\ d \in Ino /\ Dir(v, d) /\ d = Walk(v, p)[Len(p) - 1]
         /\ DirFind(v, d, Last(p)) # 0 => DirFind(v, d, Last(p)) = Walk(v, p)[Len(p)]
<1> DEFINE d == Walk(v, p)[Len(p) - 1]
<1>1. ResolveParent(v, p) = d /\ d # 0 /\ v.inodes[d].type = "dir"
  BY DEF ResolveParent
<1>2. Len(p) - 1 \in Nat /\ (Len(p) - 1) + 1 = Len(p) /\ Last(p) = p[Len(p)]
  BY PathParts
<1>3. d \in Ino /\ v.inodes[d].used
  BY <1>1, <1>2, WalkUsed
<1>4. v \in Volumes
  BY DEF Good
<1>5. Walk(v, p)[Len(p)] = DirFind(v, d, p[Len(p)])
  <2>1. Walk(v, p)[(Len(p) - 1) + 1] = DirFind(v, d, p[(Len(p) - 1) + 1])
    BY <1>1, <1>2, <1>3, <1>4, WalkIs DEF IsDir
  <2> QED BY <2>1, <1>2
<1> QED BY <1>1, <1>2, <1>3, <1>5 DEF Dir

(* A path that does not begin with p does not lead through what p names.   *)
LEMMA Avoids ==
  ASSUME NEW v, Good(v), NEW p \in Path, NEW q \in Path, p # q, ~IsStrictPrefix(p, q),
         ResolveParent(v, p) # 0, DirFind(v, ResolveParent(v, p), Last(p)) # 0,
         NEW m \in 0 .. Len(q) - 1
  PROVE  Walk(v, q)[m] # DirFind(v, ResolveParent(v, p), Last(p))
<1> DEFINE i == DirFind(v, ResolveParent(v, p), Last(p))
<1> SUFFICES ASSUME Walk(v, q)[m] = i PROVE FALSE
  OBVIOUS
<1>1. i = Walk(v, p)[Len(p)]
  BY Parent
<1>2. /\ p \in Seq(Name) /\ q \in Seq(Name) /\ Len(p) \in Nat \ {0} /\ Len(q) \in Nat \ {0}
  BY PathParts
<1>3. Len(p) = m /\ \A k \in 1 .. Len(p) : p[k] = q[k]
  BY <1>1, <1>2, OnePath
<1>4. Len(p) < Len(q) /\ Len(p) <= Len(p)
  BY <1>2, <1>3
<1>5. IsPrefix(p, q)
  <2>1. /\ SubSeq(p, 1, Len(p)) \in Seq(Name) /\ SubSeq(q, 1, Len(p)) \in Seq(Name)
        /\ Len(SubSeq(p, 1, Len(p))) = Len(p) /\ Len(SubSeq(q, 1, Len(p))) = Len(p)
        /\ \A k \in 1 .. Len(p) : /\ SubSeq(p, 1, Len(p))[k] = p[1 + k - 1]
                                  /\ SubSeq(q, 1, Len(p))[k] = q[1 + k - 1]
    <3>1. \A k \in 1 .. Len(p) : p[k] \in Name /\ q[k] \in Name
      BY <1>2, <1>4
    <3> QED BY <1>2, <3>1, SubSeqProperties
  <2>2. SubSeq(p, 1, Len(p)) = SubSeq(q, 1, Len(p))
    <3>1. \A k \in 1 .. Len(p) : SubSeq(p, 1, Len(p))[k] = SubSeq(q, 1, Len(p))[k]
      BY <2>1, <1>2, <1>3
    <3> QED BY <2>1, <3>1, SeqEqual
  <2> QED BY <2>2, <1>4 DEF IsPrefix
<1> QED BY <1>5 DEF IsStrictPrefix

LEMMA DivLess ==
  ASSUME NEW m \in Nat, m > 0, NEW n \in Nat, NEW b \in Nat, n \div m < b
  PROVE  n < b * m
<1>1. n \div m \in Int /\ n % m \in 0 .. m - 1 /\ n = m * (n \div m) + (n % m)
  BY ModDef
<1>2. n \div m <= b - 1
  BY <1>1
<1>3. m * (n \div m) <= m * (b - 1)
  BY <1>1, <1>2
<1>4. m * (b - 1) = b * m - m /\ b * m \in Int
  OBVIOUS
<1> QED BY <1>1, <1>3, <1>4

LEMMA DivNat ==
  ASSUME NEW m \in Nat, m > 0, NEW n \in Nat
  PROVE  n \div m \in Nat
<1>1. n \div m \in Int /\ n % m \in 0 .. m - 1 /\ n = m * (n \div m) + (n % m)
  BY ModDef
<1>2. ASSUME n \div m <= -1 PROVE FALSE
  <2>1. m * (n \div m) <= m * (-1)
    BY <1>1, <1>2
  <2> QED BY <1>1, <2>1
<1> QED BY <1>1, <1>2

LEMMA DivUnder ==
  ASSUME NEW m \in Nat, m > 0, NEW n \in Nat, NEW b \in Nat, n < b * m
  PROVE  n \div m < b
<1>1. n \div m \in Int /\ n % m \in 0 .. m - 1 /\ n = m * (n \div m) + (n % m)
  BY ModDef
<1>2. ASSUME n \div m >= b PROVE FALSE
  <2>1. m * (n \div m) >= m * b
    BY <1>1, <1>2
  <2> QED BY <1>1, <2>1
<1> QED BY <1>1, <1>2

(* Volume w is v with entry e at a place of directory d that was empty, or *)
(* behind the last one.                                                    *)
Enters(v, w, d, place, e) ==
  /\ w \in Volumes /\ Owned(w)
  /\ place \in 1 .. Len(v.entries[d]) + 1
  /\ place \in 1 .. Len(v.entries[d]) => v.entries[d][place].ino = 0
  /\ Len(w.entries[d]) = IF place \in 1 .. Len(v.entries[d]) THEN Len(v.entries[d]) ELSE place
  /\ w.entries[d][place] = e
  /\ \A k \in 1 .. Len(v.entries[d]) : k # place => w.entries[d][k] = v.entries[d][k]
  /\ \A j \in Ino : j # d => w.entries[j] = v.entries[j] /\ w.inodes[j] = v.inodes[j]
  /\ w.inodes[d].used = v.inodes[d].used /\ w.inodes[d].type = v.inodes[d].type
  /\ w.inodes[d].parent = v.inodes[d].parent /\ w.inodes[d].size = Len(w.entries[d])
  /\ \A j \in Ino, s \in Routes : Follow(v, j, s) # 0 => Follow(w, j, s) # 0
  /\ Follow(w, d, Route((place - 1) \div PerBlock)) # 0

(* dir_add changes one empty place of the directory, or one behind the     *)
(* last, or only adds blocks.                                              *)
LEMMA Entered ==
  ASSUME NEW v \in Volumes, Owned(v), NEW d \in Ino, v.inodes[d].used,
         v.inodes[d].size = Len(v.entries[d]),
         NEW n \in Name, NEW i \in 0 .. Inodes - 1, NEW type \in {"free", "file", "dir"},
         DirFind(v, d, n) = 0
  PROVE  LET x == DirAdd(v, d, n, i, type)
             e == [name |-> n, ino |-> i, type |-> type]
         IN /\ x.ok \in BOOLEAN
            /\ ~x.ok => Grown(v, x.v, d)
            /\ x.ok => \E place : Enters(v, x.v, d, place, e)
<1> DEFINE x == DirAdd(v, d, n, i, type)
           e == [name |-> n, ino |-> i, type |-> type]
           len == Len(v.entries[d])
           place == Min(EmptyPlaces(v, d) \cup {len + 1})
           l == (place - 1) \div PerBlock
           y == EnsureBlock(v, d, l)
           u == y.v
           new == [k \in 1 .. Max({Len(u.entries[d]), place}) |-> IF k = place THEN e ELSE u.entries[d][k]]
           u1 == [u EXCEPT !.entries = [u.entries EXCEPT ![d] = new]]
           w == [u1 EXCEPT !.inodes = [u1.inodes EXCEPT ![d] = [u1.inodes[d] EXCEPT
                                         !.size = Max({u1.inodes[d].size, place})]]]
<1>1. x = IF ~y.ok THEN Failed(u) ELSE Done(w)
  <2> DEFINE z == [u EXCEPT !.entries[d] = [k \in 1 .. Max({Len(@), place}) |-> IF k = place THEN e ELSE @[k]],
                           !.inodes[d].size = Max({@, place})]
  <2>1. x = IF DirFind(v, d, n) # 0 \/ ~y.ok THEN Failed(IF DirFind(v, d, n) # 0 THEN v ELSE u) ELSE Done(z)
    BY Zenon DEF DirAdd
  <2> HIDE DEF y, u, place, e
  <2>2. z = w
    BY Zenon
  <2> HIDE DEF x, w, z
  <2> QED BY <2>1, <2>2
<1>2. len \in Nat /\ DOMAIN v.entries[d] = 1 .. len
  BY EntryFields
<1>3. /\ place \in 1 .. len + 1
      /\ place \in 1 .. len => v.entries[d][place].ino = 0
  <2> DEFINE T == EmptyPlaces(v, d) \cup {len + 1}
  <2>1. EmptyPlaces(v, d) = {k \in 1 .. len : v.entries[d][k].ino = 0}
    BY <1>2 DEF EmptyPlaces
  <2>2. T \in SUBSET Nat /\ T # {}
    BY <1>2, <2>1
  <2>3. place \in T
    <3>1. place = Min(T)
      OBVIOUS
    <3> HIDE DEF T, place
    <3> QED BY <3>1, <2>2, MinIs
  <2> HIDE DEF place
  <2> QED BY <1>2, <2>1, <2>3
<1> HIDE DEF place
<1>4. l \in Nat
  BY <1>2, <1>3, DivNat, Geometry
<1>5. y \in Results /\ Grown(v, u, d) /\ (y.ok => l < Blocks /\ Follow(u, d, Route(l)) # 0)
  <2> HIDE DEF l
  <2> QED BY <1>4, Ensured
<1> HIDE DEF y
<1>6. CASE ~y.ok
  BY <1>1, <1>5, <1>6 DEF Failed, Results
<1>7. CASE y.ok
  <2> DEFINE m == IF place \in 1 .. len THEN len ELSE place
  <2>1. /\ u \in Volumes /\ Owned(u) /\ u.entries = v.entries
        /\ \A j \in Ino : j # d => u.inodes[j] = v.inodes[j]
        /\ u.inodes[d].used = v.inodes[d].used /\ u.inodes[d].type = v.inodes[d].type
        /\ u.inodes[d].parent = v.inodes[d].parent /\ u.inodes[d].size = len
        /\ \A j \in Ino, s \in Routes : Follow(v, j, s) # 0 => Follow(u, j, s) # 0
    BY <1>5 DEF Grown
  <2> HIDE DEF u, l
  <2>2. place \in Nat /\ m \in Nat /\ Max({len, place}) = m
    BY <1>2, <1>3, MaxOfTwo
  <2>3. m <= Blocks * PerBlock
    <3>1. place - 1 \in Nat /\ PerBlock \in Nat /\ PerBlock > 0 /\ Blocks \in Nat /\ Blocks * PerBlock \in Nat
      BY <1>2, <1>3, Geometry
    <3>2. (place - 1) \div PerBlock < Blocks
      BY <1>5, <1>7 DEF l
    <3>3. place - 1 < Blocks * PerBlock
      BY <3>1, <3>2, DivLess
    <3>4. len \in 0 .. Blocks * PerBlock
      <4>1. v.inodes[d] \in Inode
        BY VolumeFields
      <4> QED BY <4>1, InodeFields
    <3> QED BY <1>2, <1>3, <2>2, <3>1, <3>3, <3>4
  <2>4. /\ Max({Len(u.entries[d]), place}) = m /\ Max({u.inodes[d].size, place}) = m
    BY <2>1, <2>2
  <2> DEFINE f == [k \in 1 .. m |-> IF k = place THEN e ELSE v.entries[d][k]]
  <2>5. new = f
    BY <2>1, <2>4
  <2>6. f \in Seq(Entry) /\ Len(f) = m /\ f[place] = e
        /\ \A k \in 1 .. len : k # place => f[k] = v.entries[d][k]
    <3>1. e \in Entry
      BY DEF Entry
    <3> HIDE DEF e
    <3>2. ASSUME NEW k \in 1 .. m PROVE (IF k = place THEN e ELSE v.entries[d][k]) \in Entry
      <4>1. k # place => k \in 1 .. len
        BY <1>2, <1>3
      <4>2. k \in 1 .. len => v.entries[d][k] \in Entry
        BY EntryFields
      <4> QED BY <3>1, <4>1, <4>2
    <3>3. f \in [1 .. m -> Entry]
      BY <3>2
    <3>4. f \in Seq(Entry) /\ Len(f) = m
      BY <2>2, <3>3
    <3>5. place \in 1 .. m /\ \A k \in 1 .. len : k \in 1 .. m
      BY <1>2, <1>3
    <3> QED BY <3>4, <3>5
  <2> HIDE DEF f, new
  <2> DEFINE es == [v.entries EXCEPT ![d] = f]
             nd == [u.inodes[d] EXCEPT !.size = m]
             ns == [u.inodes EXCEPT ![d] = nd]
  <2>7. es \in [Ino -> Seq(Entry)] /\ es[d] = f /\ \A j \in Ino : j # d => es[j] = v.entries[j]
    BY <2>6, VolumeFields
  <2>8. /\ nd \in Inode /\ nd.size = m /\ nd.used = u.inodes[d].used /\ nd.type = u.inodes[d].type
        /\ nd.parent = u.inodes[d].parent /\ nd.ptr = u.inodes[d].ptr
    <3>1. m \in 0 .. Blocks * PerBlock /\ u.inodes[d] \in Inode
      BY <2>1, <2>2, <2>3, VolumeFields, Geometry
    <3> HIDE DEF m
    <3> QED BY <3>1, SetInodeSize
  <2>9. ns \in [Ino -> Inode] /\ ns[d] = nd /\ \A j \in Ino : j # d => ns[j] = u.inodes[j]
    <3> HIDE DEF nd
    <3> QED BY <2>1, <2>8, VolumeFields
  <2>10. u1 = [u EXCEPT !.entries = es]
    BY <2>1, <2>5
  <2>11. /\ u1 \in Volumes /\ u1.entries = es /\ u1.inodes = u.inodes /\ u1.tables = u.tables /\ u1.used = u.used
    <3> HIDE DEF es, u1
    <3> QED BY <2>1, <2>7, <2>10, SetEntries
  <2> HIDE DEF u1
  <2>12. w = [u1 EXCEPT !.inodes = ns]
    BY <2>4, <2>11
  <2>13. /\ w \in Volumes /\ w.inodes = ns /\ w.entries = es /\ w.tables = u.tables /\ w.used = u.used
    <3> HIDE DEF ns, es, w
    <3> QED BY <2>9, <2>11, <2>12, SetInodes
  <2> HIDE DEF w, ns, es, nd
  <2>14. Owned(w) /\ \A j \in Ino, s \in Routes : Follow(w, j, s) = Follow(u, j, s)
    <3>1. \A j \in Ino : w.inodes[j].ptr = u.inodes[j].ptr /\ w.inodes[j].used = u.inodes[j].used
      BY <2>8, <2>9, <2>13
    <3>2. \A j \in Ino : ~w.inodes[j].used => w.inodes[j].ptr = NoPtr
      BY <2>1, <3>1 DEF Owned
    <3> QED BY <2>1, <2>13, <3>1, <3>2, SamePointers
  <2>15. Enters(v, w, d, place, e)
    <3>1. \A j \in Ino : j # d => w.entries[j] = v.entries[j] /\ w.inodes[j] = v.inodes[j]
      BY <2>1, <2>7, <2>9, <2>13
    <3>2. /\ w.inodes[d].used = v.inodes[d].used /\ w.inodes[d].type = v.inodes[d].type
          /\ w.inodes[d].parent = v.inodes[d].parent /\ w.inodes[d].size = Len(w.entries[d])
      BY <2>1, <2>6, <2>7, <2>8, <2>9, <2>13
    <3>3. /\ \A j \in Ino, s \in Routes : Follow(v, j, s) # 0 => Follow(w, j, s) # 0
      BY <2>1, <2>14
    <3>4. Follow(w, d, Route((place - 1) \div PerBlock)) # 0
      <4>1. l \in 0 .. Blocks - 1
        BY <1>4, <1>5, <1>7, Geometry
      <4>2. Route(l) \in Routes
        BY <4>1, RoutePrefix
      <4> QED BY <1>5, <1>7, <2>14, <4>2 DEF l, u
    <3>5. /\ Len(w.entries[d]) = m /\ w.entries[d][place] = e
          /\ \A k \in 1 .. len : k # place => w.entries[d][k] = v.entries[d][k]
      BY <2>6, <2>7, <2>13
    <3> HIDE DEF e
    <3> QED BY <1>3, <2>13, <2>14, <3>1, <3>2, <3>3, <3>4, <3>5 DEF Enters
  <2>16. x = Done(w)
    BY <1>1, <1>7
  <2> HIDE DEF x, e, w
  <2>17. x.ok = TRUE /\ x.v = w
    BY <2>16 DEF Done
  <2> QED BY <2>15, <2>17 DEF x, e
<1>8. y.ok \in BOOLEAN
  BY <1>5 DEF Results
<1> QED BY <1>6, <1>7, <1>8

-----------------------------------------------------------------------------
(***************************************************************************)
(* What the operations do to a good volume.                                *)
(***************************************************************************)
(* An entry is of a directory, and its block has a route.                  *)
LEMMA EntryPlace ==
  ASSUME NEW v \in Volumes, Sized(v), NEW d \in Ino, NEW k \in 1 .. Len(v.entries[d])
  PROVE  /\ Dir(v, d) /\ k \in 1 .. Blocks * PerBlock
         /\ (k - 1) \div PerBlock \in 0 .. Blocks - 1 /\ Route((k - 1) \div PerBlock) \in Routes
<1>1. Dir(v, d)
  <2>1. Len(v.entries[d]) \in Nat /\ v.entries[d] # <<>>
    <3>1. Len(v.entries[d]) \in Nat
      BY EntryFields
    <3>2. v.entries[d] = <<>> => Len(v.entries[d]) = 0
      OBVIOUS
    <3> QED BY <3>1, <3>2
  <2> QED BY <2>1 DEF Sized
<1>2. Len(v.entries[d]) <= Blocks * PerBlock /\ Len(v.entries[d]) \in Nat /\ Blocks * PerBlock \in Nat
  <2>1. v.inodes[d] \in Inode
    BY VolumeFields
  <2>2. v.inodes[d].size \in 0 .. Blocks * PerBlock
    BY <2>1, InodeFields
  <2> QED BY <1>1, <2>2, EntryFields, Geometry DEF Sized
<1>3. k - 1 \in Nat /\ k - 1 < Blocks * PerBlock
  BY <1>2
<1>4. (k - 1) \div PerBlock < Blocks
  BY <1>3, DivUnder, Geometry
<1>5. (k - 1) \div PerBlock \in 0 .. Blocks - 1
  BY <1>3, <1>4, DivNat, Geometry
<1> QED BY <1>1, <1>2, <1>5, RoutePrefix

(* Volume w has the names of v; files may have gained or lost blocks.      *)
Kept(v, w) ==
  /\ w \in Volumes /\ Owned(w) /\ w.entries = v.entries
  /\ \A j \in Ino : /\ w.inodes[j].used = v.inodes[j].used
                    /\ v.inodes[j].used => /\ w.inodes[j].type = v.inodes[j].type
                                           /\ w.inodes[j].parent = v.inodes[j].parent
                    /\ Dir(v, j) => w.inodes[j].size = v.inodes[j].size
                    /\ ~v.inodes[j].used => w.inodes[j].size = 0
  /\ \A j \in Ino, s \in Routes : Dir(v, j) /\ Follow(v, j, s) # 0 => Follow(w, j, s) # 0

(* A step that keeps the names keeps a volume good.                        *)
LEMMA KeptGood ==
  ASSUME NEW v, Good(v), NEW w, Kept(v, w)
  PROVE  Good(w)
<1>1. v \in Volumes /\ Sized(v) /\ Described(v) /\ w \in Volumes /\ Owned(w) /\ w.entries = v.entries
  BY DEF Good, Kept
<1>2. \A d \in Ino : w.inodes[d].used \in BOOLEAN /\ v.inodes[d].used \in BOOLEAN
  BY <1>1, VolumeFields, InodeFields
<1>3. \A d \in Ino : Dir(w, d) <=> Dir(v, d)
  BY <1>2 DEF Dir, Kept
<1>4. Sized(w)
  <2>1. ASSUME NEW d \in Ino, NEW k \in Nat, k \in 1 .. Len(w.entries[d])
        PROVE  Follow(w, d, Route((k - 1) \div PerBlock)) # 0
    <3> DEFINE r == Route((k - 1) \div PerBlock)
    <3>1. Dir(v, d) /\ r \in Routes
      BY <1>1, <2>1, EntryPlace
    <3>2. Follow(v, d, r) # 0
      BY <1>1, <2>1 DEF Sized
    <3> QED BY <3>1, <3>2 DEF Kept
  <2>2. \A d \in Ino : Dir(w, d) => w.inodes[d].size = Len(w.entries[d])
    BY <1>1, <1>3 DEF Sized, Kept
  <2> QED BY <1>1, <1>3, <2>1, <2>2 DEF Sized, Kept
<1>5. Described(w)
  <2>1. \A d, k : At(w, d, k) <=> At(v, d, k)
    BY <1>1 DEF At
  <2>2. Dir(w, Root) /\ w.inodes[Root].parent = Root
    BY <1>1, <1>3, Geometry DEF Described, Dir, Kept
  <2>3. ASSUME NEW d, NEW k, At(w, d, k)
        PROVE  LET e == w.entries[d][k] IN
               /\ e.ino \in Ino \ {Root} /\ w.inodes[e.ino].used
               /\ e.type = w.inodes[e.ino].type /\ w.inodes[e.ino].parent = d
    <3> DEFINE j == v.entries[d][k].ino
    <3>1. /\ j \in Ino \ {Root} /\ v.inodes[j].used
          /\ v.entries[d][k].type = v.inodes[j].type /\ v.inodes[j].parent = d
      BY <1>1, <2>1, <2>3, Zenon DEF Described
    <3>2. w.entries[d][k].ino = j /\ w.entries[d][k].type = v.entries[d][k].type
      BY <1>1
    <3> HIDE DEF j
    <3>3. w.inodes[j].used = v.inodes[j].used /\ w.inodes[j].type = v.inodes[j].type
          /\ w.inodes[j].parent = v.inodes[j].parent
      BY <3>1 DEF Kept
    <3> QED BY <3>1, <3>2, <3>3
  <2>4. \A i \in Ino \ {Root} : w.inodes[i].used => \E d, k : At(w, d, k) /\ w.entries[d][k].ino = i
    BY <1>1, <2>1 DEF Described, Kept
  <2>5. \A d, k, l : At(w, d, k) /\ At(w, d, l) /\ w.entries[d][k].name = w.entries[d][l].name => k = l
    BY <1>1, <2>1 DEF Described
  <2>6. \A d, e, k, l : At(w, d, k) /\ At(w, e, l) /\ w.entries[d][k].ino = w.entries[e][l].ino
                        => d = e /\ k = l
    <3> SUFFICES ASSUME NEW d, NEW e, NEW k, NEW l, At(w, d, k), At(w, e, l),
                        w.entries[d][k].ino = w.entries[e][l].ino
                 PROVE  d = e /\ k = l
      OBVIOUS
    <3>1. At(v, d, k) /\ At(v, e, l) /\ v.entries[d][k].ino = v.entries[e][l].ino
      BY <1>1, <2>1
    <3> QED BY <1>1, <3>1, OneLink
  <2> QED BY <2>2, <2>3, <2>4, <2>5, <2>6 DEF Described
<1> QED BY <1>1, <1>4, <1>5 DEF Good

(* Only the links to inode i differ between v and w.                       *)
Others(v, w, i) ==
  /\ \A d, k : At(v, d, k) /\ v.entries[d][k].ino # i => At(w, d, k) /\ w.entries[d][k] = v.entries[d][k]
  /\ \A d, k : At(w, d, k) /\ w.entries[d][k].ino # i => At(v, d, k) /\ w.entries[d][k] = v.entries[d][k]
  /\ \A j \in Ino : j # i => /\ w.inodes[j].used = v.inodes[j].used
                             /\ w.inodes[j].type = v.inodes[j].type
                             /\ w.inodes[j].parent = v.inodes[j].parent
                             /\ w.inodes[j].type # "dir" => w.inodes[j].size = v.inodes[j].size

(* The one link that a used inode i has in w.                              *)
LinkedOnce(w, i, d, k) ==
  /\ At(w, d, k) /\ w.entries[d][k].ino = i
  /\ \A e, l : At(w, e, l) /\ w.entries[e][l].ino = i => e = d /\ l = k
  /\ w.inodes[i].used /\ w.inodes[i].parent = d /\ w.entries[d][k].type = w.inodes[i].type
  /\ \A l : At(w, d, l) /\ w.entries[d][l].ino # i => w.entries[d][l].name # w.entries[d][k].name

(* Inode i is not used in w.                                               *)
Unlinked(w, i) == ~w.inodes[i].used /\ \A e, l : At(w, e, l) => w.entries[e][l].ino # i

(* Linking or unlinking one inode keeps the directories describing the     *)
(* inodes.                                                                 *)
LEMMA OthersDescribed ==
  ASSUME NEW v, Good(v), NEW w \in Volumes, NEW i \in Ino \ {Root}, Others(v, w, i),
         Unlinked(w, i) \/ \E d, k : LinkedOnce(w, i, d, k)
  PROVE  Described(w)
<1>1. Described(v)
  BY DEF Good
<1>2. Dir(w, Root) /\ w.inodes[Root].parent = Root
  BY <1>1, Geometry DEF Others, Described, Dir
<1>3. ASSUME NEW d, NEW k, At(w, d, k)
      PROVE  LET e == w.entries[d][k] IN
             /\ e.ino \in Ino \ {Root} /\ w.inodes[e.ino].used
             /\ e.type = w.inodes[e.ino].type /\ w.inodes[e.ino].parent = d
  <2>1. CASE w.entries[d][k].ino # i
    <3>1. At(v, d, k) /\ w.entries[d][k] = v.entries[d][k]
      BY <1>3, <2>1 DEF Others
    <3> DEFINE j == v.entries[d][k].ino
    <3>2. /\ j \in Ino \ {Root} /\ v.inodes[j].used
          /\ v.entries[d][k].type = v.inodes[j].type /\ v.inodes[j].parent = d
      BY <1>1, <3>1, Zenon DEF Described
    <3>3. w.entries[d][k].ino = j /\ j # i
      BY <2>1, <3>1
    <3> HIDE DEF j
    <3>4. w.inodes[j].used = v.inodes[j].used /\ w.inodes[j].type = v.inodes[j].type
          /\ w.inodes[j].parent = v.inodes[j].parent
      BY <3>2, <3>3 DEF Others
    <3>5. w.entries[d][k].type = v.entries[d][k].type
      BY <3>1
    <3> QED BY <3>2, <3>3, <3>4, <3>5
  <2>2. CASE w.entries[d][k].ino = i
    BY <1>3, <2>2 DEF Unlinked, LinkedOnce
  <2> QED BY <2>1, <2>2
<1>4. ASSUME NEW d, NEW k, NEW l, At(w, d, k), At(w, d, l), w.entries[d][k].name = w.entries[d][l].name
      PROVE  k = l
  <2>1. CASE w.entries[d][k].ino # i /\ w.entries[d][l].ino # i
    BY <1>1, <1>4, <2>1 DEF Others, Described
  <2>2. CASE w.entries[d][k].ino = i \/ w.entries[d][l].ino = i
    BY <1>4, <2>2 DEF Unlinked, LinkedOnce
  <2> QED BY <2>1, <2>2
<1>5. ASSUME NEW d, NEW e, NEW k, NEW l, At(w, d, k), At(w, e, l), w.entries[d][k].ino = w.entries[e][l].ino
      PROVE  d = e /\ k = l
  <2>1. CASE w.entries[d][k].ino # i
    BY <1>1, <1>5, <2>1 DEF Others, Described
  <2>2. CASE w.entries[d][k].ino = i
    <3>1. PICK a, b : LinkedOnce(w, i, a, b)
      BY <1>5, <2>2 DEF Unlinked
    <3>2. \A f, g : At(w, f, g) /\ w.entries[f][g].ino = i => f = a /\ g = b
      BY <3>1 DEF LinkedOnce
    <3>3. At(w, e, l) /\ w.entries[e][l].ino = i
      BY <1>5, <2>2
    <3>4. d = a /\ k = b
      BY <1>5, <2>2, <3>2, Zenon
    <3>5. e = a /\ l = b
      BY <3>3, <3>2, Zenon
    <3> QED BY <3>4, <3>5
  <2> QED BY <2>1, <2>2
<1>6. ASSUME NEW j \in Ino \ {Root}, w.inodes[j].used
      PROVE  \E d, k : At(w, d, k) /\ w.entries[d][k].ino = j
  <2>1. CASE j = i
    BY <1>6, <2>1 DEF Unlinked, LinkedOnce
  <2>2. CASE j # i
    <3>1. v.inodes[j].used
      BY <1>6, <2>2 DEF Others
    <3>2. PICK d, k : At(v, d, k) /\ v.entries[d][k].ino = j
      BY <1>1, <3>1 DEF Described
    <3> QED BY <2>2, <3>2 DEF Others
  <2> QED BY <2>1, <2>2
<1>7. \A d, k : At(w, d, k) => LET e == w.entries[d][k] IN
        /\ e.ino \in Ino \ {Root} /\ w.inodes[e.ino].used
        /\ e.type = w.inodes[e.ino].type /\ w.inodes[e.ino].parent = d
  BY <1>3
<1>8. \A d, k, l : At(w, d, k) /\ At(w, d, l) /\ w.entries[d][k].name = w.entries[d][l].name => k = l
  BY <1>4
<1>9. \A d, e, k, l : At(w, d, k) /\ At(w, e, l) /\ w.entries[d][k].ino = w.entries[e][l].ino
                      => d = e /\ k = l
  BY <1>5
<1>10. \A j \in Ino \ {Root} : w.inodes[j].used => \E d, k : At(w, d, k) /\ w.entries[d][k].ino = j
  BY <1>6
<1> QED BY <1>2, <1>7, <1>8, <1>9, <1>10, ZenonT(40) DEF Described

(* dir_add adds exactly one link.                                          *)
LEMMA EntersAt ==
  ASSUME NEW v \in Volumes, NEW d \in Ino, NEW w, NEW place, NEW e, Enters(v, w, d, place, e), e.ino # 0
  PROVE  /\ At(w, d, place) /\ w.entries[d][place] = e /\ ~At(v, d, place)
         /\ \A a, k : At(v, a, k) => At(w, a, k) /\ w.entries[a][k] = v.entries[a][k]
         /\ \A a, k : At(w, a, k) => (a = d /\ k = place) \/ At(v, a, k)
<1>1. Len(v.entries[d]) \in Nat /\ place \in 1 .. Len(v.entries[d]) + 1
  BY EntryFields DEF Enters
<1>2. /\ Len(w.entries[d]) = IF place \in 1 .. Len(v.entries[d]) THEN Len(v.entries[d]) ELSE place
      /\ w.entries[d][place] = e
      /\ \A k \in 1 .. Len(v.entries[d]) : k # place => w.entries[d][k] = v.entries[d][k]
      /\ place \in 1 .. Len(v.entries[d]) => v.entries[d][place].ino = 0
      /\ \A j \in Ino : j # d => w.entries[j] = v.entries[j]
  BY DEF Enters
<1>3. place \in 1 .. Len(w.entries[d])
  BY <1>1, <1>2
<1>4. \A k \in 1 .. Len(v.entries[d]) : k \in 1 .. Len(w.entries[d])
  BY <1>1, <1>2
<1>5. \A k \in 1 .. Len(w.entries[d]) : k = place \/ k \in 1 .. Len(v.entries[d])
  BY <1>1, <1>2
<1> QED BY <1>2, <1>3, <1>4, <1>5 DEF At

(* dir_add keeps sizes and blocks of directories.                          *)
LEMMA EntersSized ==
  ASSUME NEW v \in Volumes, Sized(v), NEW d \in Ino, Dir(v, d),
         NEW w, NEW place, NEW e, Enters(v, w, d, place, e)
  PROVE  Sized(w)
<1>1. Len(v.entries[d]) \in Nat /\ place \in 1 .. Len(v.entries[d]) + 1
  BY EntryFields DEF Enters
<1>2. \A a \in Ino : a # d => w.entries[a] = v.entries[a] /\ w.inodes[a] = v.inodes[a]
  BY DEF Enters
<1>3. Dir(w, d) /\ w.inodes[d].size = Len(w.entries[d]) /\ w.inodes[d].used
  BY DEF Enters, Dir
<1>4. ASSUME NEW a \in Ino, NEW k \in Nat, k \in 1 .. Len(w.entries[a])
      PROVE  Follow(w, a, Route((k - 1) \div PerBlock)) # 0
  <2>1. CASE a = d /\ k = place
    BY <2>1 DEF Enters
  <2>2. CASE ~ (a = d /\ k = place)
    <3>1. k \in 1 .. Len(v.entries[a])
      <4>1. Len(w.entries[d]) = IF place \in 1 .. Len(v.entries[d]) THEN Len(v.entries[d]) ELSE place
        BY DEF Enters
      <4> QED BY <1>1, <1>2, <1>4, <2>2, <4>1
    <3> DEFINE r == Route((k - 1) \div PerBlock)
    <3>2. Follow(v, a, r) # 0 /\ r \in Routes
      BY <3>1, EntryPlace DEF Sized
    <3> HIDE DEF r
    <3>3. Follow(w, a, r) # 0
      BY <3>2 DEF Enters
    <3> QED BY <3>3 DEF r
  <2> QED BY <2>1, <2>2
<1>5. \A a \in Ino : ~Dir(w, a) => w.entries[a] = <<>>
  BY <1>2, <1>3 DEF Sized, Dir
<1>6. \A a \in Ino : Dir(w, a) => w.inodes[a].size = Len(w.entries[a])
  BY <1>2, <1>3 DEF Sized, Dir
<1>7. \A a \in Ino : ~w.inodes[a].used => w.inodes[a].size = 0
  BY <1>2, <1>3 DEF Sized
<1> QED BY <1>4, <1>5, <1>6, <1>7 DEF Sized

LEMMA SetEntryIno ==
  ASSUME NEW e \in Entry
  PROVE  [e EXCEPT !.ino = 0] \in Entry /\ [e EXCEPT !.ino = 0].ino = 0
<1>1. 0 \in 0 .. Inodes - 1
  BY Geometry
<1> QED BY <1>1 DEF Entry

(* Volume w is v without the link at place k of directory d.               *)
Removes(v, w, d, k) ==
  /\ w \in Volumes /\ Owned(w) /\ Sized(w) /\ w.inodes = v.inodes
  /\ \A a, l : At(w, a, l) <=> At(v, a, l) /\ ~ (a = d /\ l = k)
  /\ \A a, l : At(w, a, l) => w.entries[a][l] = v.entries[a][l]

(* dir_remove takes away exactly one link.                                 *)
LEMMA Removed ==
  ASSUME NEW v \in Volumes, Owned(v), Sized(v), NEW d, NEW n, NEW k,
         At(v, d, k), Min(Places(v, d, n)) = k
  PROVE  Removes(v, DirRemove(v, d, n), d, k)
<1> DEFINE f == [v.entries[d] EXCEPT ![k] = [v.entries[d][k] EXCEPT !.ino = 0]]
           es == [v.entries EXCEPT ![d] = f]
           w == [v EXCEPT !.entries = es]
<1>0. d \in Ino /\ k \in 1 .. Len(v.entries[d])
  BY DEF At
<1>1. DirRemove(v, d, n) = w
  BY DEF DirRemove
<1>2. /\ f \in Seq(Entry) /\ Len(f) = Len(v.entries[d]) /\ f[k].ino = 0
      /\ \A l \in 1 .. Len(v.entries[d]) : l # k => f[l] = v.entries[d][l]
  <2> DEFINE s == v.entries[d]
             e == [s[k] EXCEPT !.ino = 0]
  <2>1. s \in Seq(Entry) /\ k \in 1 .. Len(s) /\ s[k] \in Entry
    BY <1>0, EntryFields
  <2>2. e \in Entry /\ e.ino = 0
    BY <2>1, SetEntryIno
  <2>3. f = [s EXCEPT ![k] = e]
    OBVIOUS
  <2> HIDE DEF s, e, f
  <2>4. f \in Seq(Entry) /\ Len(f) = Len(s) /\ f[k] = e /\ \A l \in 1 .. Len(s) : l # k => f[l] = s[l]
    BY <2>1, <2>2, <2>3
  <2> QED BY <2>2, <2>4 DEF s
<1> HIDE DEF f
<1>3. es \in [Ino -> Seq(Entry)] /\ es[d] = f /\ \A a \in Ino : a # d => es[a] = v.entries[a]
  BY <1>0, <1>2, VolumeFields
<1> HIDE DEF es
<1>4. /\ w \in Volumes /\ w.entries = es /\ w.inodes = v.inodes /\ w.tables = v.tables /\ w.used = v.used
  BY <1>3, SetEntries
<1> HIDE DEF w
<1>5. Owned(w) /\ \A a \in Ino, s \in Routes : Follow(w, a, s) = Follow(v, a, s)
  BY <1>4, SamePointers DEF Owned
<1>6. \A a \in Ino : Len(w.entries[a]) = Len(v.entries[a]) /\ Len(v.entries[a]) \in Nat
  BY <1>2, <1>3, <1>4, EntryFields
<1>7. Sized(w)
  <2>1. ASSUME NEW a \in Ino, NEW l \in Nat, l \in 1 .. Len(w.entries[a])
        PROVE  Follow(w, a, Route((l - 1) \div PerBlock)) # 0
    <3>1. l \in 1 .. Len(v.entries[a])
      BY <2>1, <1>6
    <3> DEFINE r == Route((l - 1) \div PerBlock)
    <3>2. r \in Routes /\ Follow(v, a, r) # 0
      BY <3>1, EntryPlace DEF Sized
    <3> QED BY <3>2, <1>5
  <2>2. Dir(v, d)
    BY <1>0, EntryPlace
  <2>3. \A a \in Ino : Dir(w, a) <=> Dir(v, a)
    BY <1>4 DEF Dir
  <2>4. \A a \in Ino : ~Dir(w, a) => w.entries[a] = <<>>
    BY <2>2, <2>3, <1>3, <1>4 DEF Sized
  <2>5. \A a \in Ino : Dir(w, a) => w.inodes[a].size = Len(w.entries[a])
    BY <2>3, <1>4, <1>6 DEF Sized
  <2> QED BY <2>1, <2>4, <2>5, <1>4 DEF Sized
<1>8. \A a, l : At(w, a, l) <=> At(v, a, l) /\ ~ (a = d /\ l = k)
  BY <1>0, <1>2, <1>3, <1>4 DEF At
<1>9. \A a, l : At(w, a, l) => w.entries[a][l] = v.entries[a][l]
  BY <1>0, <1>2, <1>3, <1>4, <1>8 DEF At
<1> QED BY <1>1, <1>4, <1>5, <1>7, <1>8, <1>9 DEF Removes

Fresh(type, d) == [FreeInode EXCEPT !.used = TRUE, !.type = type, !.parent = d]

LEMMA FreshInode ==
  ASSUME NEW type \in {"free", "file", "dir"}, NEW d \in Ino
  PROVE  LET m == Fresh(type, d) IN
         /\ m \in Inode /\ m.used /\ m.type = type /\ m.parent = d /\ m.size = 0 /\ m.ptr = NoPtr
         /\ FreeInode \in Inode /\ ~FreeInode.used /\ FreeInode.size = 0 /\ FreeInode.ptr = NoPtr
         /\ FreeInode.type = "free"
<1>1. d \in 0 .. Inodes - 1 /\ 0 \in 0 .. Inodes - 1 /\ 0 \in 0 .. Blocks * PerBlock
  <2>1. Blocks * PerBlock \in Nat
    BY Geometry
  <2> QED BY <2>1, Geometry DEF Ino
<1>2. NoPtr \in [0 .. Direct + 1 -> 0 .. Blocks]
  BY NoPointers
<1> QED BY <1>1, <1>2 DEF Fresh, FreeInode, Inode

(* Inode i of v is replaced.                                               *)
LEMMA SetInode ==
  ASSUME NEW v \in Volumes, NEW i \in Ino, NEW m \in Inode
  PROVE  LET w == [v EXCEPT !.inodes[i] = m] IN
         /\ w \in Volumes /\ w.inodes[i] = m
         /\ \A j \in Ino : j # i => w.inodes[j] = v.inodes[j]
         /\ w.entries = v.entries /\ w.tables = v.tables /\ w.used = v.used
<1> DEFINE f == [v.inodes EXCEPT ![i] = m]
           w == [v EXCEPT !.inodes = f]
<1>1. f \in [Ino -> Inode] /\ f[i] = m /\ \A j \in Ino : j # i => f[j] = v.inodes[j]
  BY VolumeFields
<1>2. [v EXCEPT !.inodes[i] = m] = w
  OBVIOUS
<1> HIDE DEF f
<1>3. w \in Volumes /\ w.inodes = f /\ w.entries = v.entries /\ w.tables = v.tables /\ w.used = v.used
  BY <1>1, SetInodes
<1> HIDE DEF w
<1> QED BY <1>1, <1>2, <1>3

LEMMA FindSame ==
  ASSUME NEW v, NEW w, w.entries = v.entries
  PROVE  \A d, n : DirFind(w, d, n) = DirFind(v, d, n)
  BY DEF DirFind, Places

(* What minifs_create and minifs_mkdir do.                                 *)
Makes(v, w, d, n, i, type) ==
  /\ Good(w) /\ Others(v, w, i)
  /\ \E k : LinkedOnce(w, i, d, k) /\ w.entries[d][k].name = n
  /\ w.inodes[i].type = type /\ w.inodes[i].size = 0

FileSize(v, j) == IF v.inodes[j].type = "file" THEN v.inodes[j].size ELSE 0

(* The size of at most one file differs between v and w.                   *)
Sizes(v, w) ==
  \E i \in Ino : /\ \A j \in Ino : j # i => FileSize(w, j) = FileSize(v, j)
                 /\ FileSize(w, i) = FileSize(v, i) \/ (v.inodes[i].used /\ v.inodes[i].type = "file")

(* minifs_create and minifs_mkdir add one inode with one link, or give the *)
(* inode back.                                                             *)
LEMMA Made ==
  ASSUME NEW v, Good(v), NEW d \in Ino, Dir(v, d), NEW n \in Name, DirFind(v, d, n) = 0,
         NEW i \in Ino \ {Root}, ~v.inodes[i].used, NEW type \in {"file", "dir"}
  PROVE  LET u == [v EXCEPT !.inodes[i] = [FreeInode EXCEPT !.used = TRUE, !.type = type, !.parent = d]]
             x == DirAdd(u, d, n, i, type)
         IN /\ x.ok \in BOOLEAN
            /\ ~x.ok => LET w == [x.v EXCEPT !.inodes[i].used = FALSE] IN Kept(v, w) /\ Sizes(v, w)
            /\ x.ok => Makes(v, x.v, d, n, i, type)
<1> DEFINE m == [FreeInode EXCEPT !.used = TRUE, !.type = type, !.parent = d]
           u == [v EXCEPT !.inodes[i] = m]
           x == DirAdd(u, d, n, i, type)
           e == [name |-> n, ino |-> i, type |-> type]
<1>1. v \in Volumes /\ Owned(v) /\ Sized(v) /\ Described(v)
  BY DEF Good
<1>2. /\ m \in Inode /\ m.used /\ m.type = type /\ m.parent = d /\ m.size = 0 /\ m.ptr = NoPtr
  <2>1. type \in {"free", "file", "dir"}
    OBVIOUS
  <2>2. m = Fresh(type, d)
    BY DEF Fresh
  <2> HIDE DEF m
  <2> QED BY <2>1, <2>2, FreshInode
<1> HIDE DEF m
<1>3. /\ u \in Volumes /\ u.inodes[i] = m /\ \A j \in Ino : j # i => u.inodes[j] = v.inodes[j]
      /\ u.entries = v.entries /\ u.tables = v.tables /\ u.used = v.used
  BY <1>1, <1>2, SetInode
<1> HIDE DEF u
<1>4. i # d /\ i \in 0 .. Inodes - 1 /\ v.inodes[i].size = 0
  BY <1>1, Geometry DEF Dir, Ino, Sized
<1>5. Owned(u) /\ \A j \in Ino, s \in Routes : Follow(u, j, s) = Follow(v, j, s)
  <2>1. \A j \in Ino : u.inodes[j].ptr = v.inodes[j].ptr
    BY <1>1, <1>2, <1>3 DEF Owned
  <2>2. \A j \in Ino : ~u.inodes[j].used => u.inodes[j].ptr = NoPtr
    BY <1>1, <1>2, <1>3 DEF Owned
  <2> QED BY <2>1, <2>2, <1>1, <1>3, SamePointers
<1>6. u.inodes[d].used /\ u.inodes[d].size = Len(u.entries[d]) /\ Dir(u, d)
  BY <1>1, <1>3, <1>4 DEF Dir, Sized
<1>7. DirFind(u, d, n) = 0
  BY <1>3, FindSame
<1>8. /\ x.ok \in BOOLEAN /\ (~x.ok => Grown(u, x.v, d))
      /\ x.ok => \E place : Enters(u, x.v, d, place, e)
  <2> HIDE DEF x, e
  <2> QED BY <1>3, <1>4, <1>5, <1>6, <1>7, Entered DEF x, e
<1>9. e.name = n /\ e.ino = i /\ e.type = type /\ i # 0
  BY <1>4, Geometry
<1> HIDE DEF x, e
<1>10. ASSUME ~x.ok PROVE LET w == [x.v EXCEPT !.inodes[i].used = FALSE] IN Kept(v, w) /\ Sizes(v, w)
  <2> DEFINE g == [x.v.inodes[i] EXCEPT !.used = FALSE]
             w == [x.v EXCEPT !.inodes[i] = g]
  <2>1. /\ x.v \in Volumes /\ Owned(x.v) /\ x.v.entries = u.entries
        /\ \A j \in Ino : j # d => x.v.inodes[j] = u.inodes[j]
        /\ x.v.inodes[d].used = u.inodes[d].used /\ x.v.inodes[d].type = u.inodes[d].type
        /\ x.v.inodes[d].parent = u.inodes[d].parent /\ x.v.inodes[d].size = u.inodes[d].size
        /\ \A j \in Ino, s \in Routes : Follow(u, j, s) # 0 => Follow(x.v, j, s) # 0
    BY <1>8, <1>10 DEF Grown
  <2>2. x.v.inodes[i] = m
    BY <2>1, <1>3, <1>4
  <2>3. g \in Inode /\ g.used = FALSE /\ g.size = 0 /\ g.ptr = NoPtr
    BY <2>2, <1>2, SetInodeUsed
  <2>4. [x.v EXCEPT !.inodes[i].used = FALSE] = w
    OBVIOUS
  <2> HIDE DEF g
  <2>5. /\ w \in Volumes /\ w.inodes[i] = g /\ \A j \in Ino : j # i => w.inodes[j] = x.v.inodes[j]
        /\ w.entries = x.v.entries /\ w.tables = x.v.tables /\ w.used = x.v.used
    BY <2>1, <2>3, SetInode
  <2> HIDE DEF w
  <2>6. Owned(w) /\ \A j \in Ino, s \in Routes : Follow(w, j, s) = Follow(x.v, j, s)
    <3>1. \A j \in Ino : w.inodes[j].ptr = x.v.inodes[j].ptr
      BY <2>2, <2>3, <2>5, <1>2
    <3>2. \A j \in Ino : ~w.inodes[j].used => w.inodes[j].ptr = NoPtr
      BY <2>1, <2>3, <2>5 DEF Owned
    <3> QED BY <3>1, <3>2, <2>1, <2>5, SamePointers
  <2>7. ASSUME NEW j \in Ino
        PROVE  /\ w.inodes[j].used = v.inodes[j].used
               /\ v.inodes[j].used => /\ w.inodes[j].type = v.inodes[j].type
                                      /\ w.inodes[j].parent = v.inodes[j].parent
               /\ Dir(v, j) => w.inodes[j].size = v.inodes[j].size
               /\ ~v.inodes[j].used => w.inodes[j].size = 0
    <3>1. CASE j = i
      <4>1. v.inodes[i].used = FALSE
        <5>1. v.inodes[i].used \in BOOLEAN
          BY <1>1, VolumeFields, InodeFields
        <5> QED BY <5>1
      <4> QED BY <3>1, <4>1, <2>3, <2>5 DEF Dir
    <3>2. CASE j # i
      <4>a. w.inodes[j] = x.v.inodes[j] /\ u.inodes[j] = v.inodes[j]
        BY <3>2, <1>3, <2>5, Zenon
      <4>b. /\ x.v.inodes[j].used = u.inodes[j].used /\ x.v.inodes[j].type = u.inodes[j].type
            /\ x.v.inodes[j].parent = u.inodes[j].parent /\ x.v.inodes[j].size = u.inodes[j].size
        <5>1. CASE j = d
          BY <5>1, <2>1, Zenon
        <5>2. CASE j # d
          BY <5>2, <2>1, Zenon
        <5> QED BY <5>1, <5>2
      <4>1. /\ w.inodes[j].used = v.inodes[j].used /\ w.inodes[j].type = v.inodes[j].type
            /\ w.inodes[j].parent = v.inodes[j].parent /\ w.inodes[j].size = v.inodes[j].size
        BY <4>a, <4>b, Zenon
      <4>2. ~v.inodes[j].used => v.inodes[j].size = 0
        BY <1>1 DEF Sized
      <4> QED BY <4>1, <4>2
    <3> QED BY <3>1, <3>2
  <2>8. \A j \in Ino, s \in Routes : Follow(v, j, s) # 0 => Follow(w, j, s) # 0
    BY <1>5, <2>1, <2>6
  <2>9. Kept(v, w)
    BY <1>3, <2>1, <2>5, <2>6, <2>7, <2>8 DEF Kept
  <2>10. Sizes(v, w)
    <3>1. FileSize(w, i) = FileSize(v, i)
      BY <2>3, <2>5, <1>4 DEF FileSize
    <3>2. \A j \in Ino : j # i => FileSize(w, j) = FileSize(v, j)
      BY <1>3, <2>1, <2>5, SMTT(40) DEF FileSize
    <3> QED BY <3>1, <3>2 DEF Sizes
  <2> QED BY <2>4, <2>9, <2>10
<1>11. ASSUME x.ok PROVE Makes(v, x.v, d, n, i, type)
  <2>1. PICK k : Enters(u, x.v, d, k, e)
    BY <1>8, <1>11
  <2> DEFINE w == x.v
  <2>2. /\ At(w, d, k) /\ w.entries[d][k] = e /\ ~At(u, d, k)
        /\ \A a, l : At(u, a, l) => At(w, a, l) /\ w.entries[a][l] = u.entries[a][l]
        /\ \A a, l : At(w, a, l) => (a = d /\ l = k) \/ At(u, a, l)
    BY <2>1, <1>3, <1>9, EntersAt
  <2>3. \A a, l : At(u, a, l) <=> At(v, a, l)
    BY <1>3 DEF At
  <2>4. \A a, l : At(v, a, l) => v.entries[a][l].ino # i
    BY <1>1 DEF Described
  <2>5. Sized(u)
    <3>1. ASSUME NEW a \in Ino, NEW l \in Nat, l \in 1 .. Len(u.entries[a])
          PROVE  Follow(u, a, Route((l - 1) \div PerBlock)) # 0
      <4>1. l \in 1 .. Len(v.entries[a])
        BY <3>1, <1>3
      <4> DEFINE r == Route((l - 1) \div PerBlock)
      <4>2. r \in Routes /\ Follow(v, a, r) # 0
        BY <4>1, <1>1, EntryPlace DEF Sized
      <4> QED BY <4>2, <1>5
    <3>2. v.entries[i] = <<>> /\ Len(v.entries[i]) = 0
      <4>1. v.entries[i] = <<>>
        BY <1>1 DEF Sized, Dir
      <4> QED BY <4>1
    <3>3. \A a \in Ino : ~Dir(u, a) => u.entries[a] = <<>>
      BY <3>2, <1>1, <1>3 DEF Sized, Dir
    <3>4. \A a \in Ino : Dir(u, a) => u.inodes[a].size = Len(u.entries[a])
      BY <3>2, <1>1, <1>2, <1>3 DEF Sized, Dir
    <3>5. \A a \in Ino : ~u.inodes[a].used => u.inodes[a].size = 0
      BY <1>1, <1>2, <1>3 DEF Sized
    <3> QED BY <3>1, <3>3, <3>4, <3>5 DEF Sized
  <2>6. Sized(w)
    BY <2>1, <2>5, <1>3, <1>6, EntersSized
  <2>7. /\ w \in Volumes /\ Owned(w)
        /\ \A j \in Ino : j # d => w.inodes[j] = u.inodes[j]
        /\ w.inodes[d].used = u.inodes[d].used /\ w.inodes[d].type = u.inodes[d].type
        /\ w.inodes[d].parent = u.inodes[d].parent
    BY <2>1 DEF Enters
  <2>8. Others(v, w, i)
    <3>1. \A a, l : At(v, a, l) /\ v.entries[a][l].ino # i => At(w, a, l) /\ w.entries[a][l] = v.entries[a][l]
      BY <2>2, <2>3, <1>3
    <3>2. \A a, l : At(w, a, l) /\ w.entries[a][l].ino # i => At(v, a, l) /\ w.entries[a][l] = v.entries[a][l]
      BY <2>2, <2>3, <1>3, <1>9
    <3>3. \A j \in Ino : j # i => /\ w.inodes[j].used = v.inodes[j].used
                                  /\ w.inodes[j].type = v.inodes[j].type
                                  /\ w.inodes[j].parent = v.inodes[j].parent
                                  /\ w.inodes[j].type # "dir" => w.inodes[j].size = v.inodes[j].size
      BY <1>3, <1>4, <2>7 DEF Dir
    <3> HIDE DEF w
    <3> QED BY <3>1, <3>2, <3>3 DEF Others
  <2>9. w.inodes[i] = m
    BY <1>3, <1>4, <2>7
  <2>10. LinkedOnce(w, i, d, k)
    <3>1. \A a, l : At(w, a, l) /\ w.entries[a][l].ino = i => a = d /\ l = k
      BY <2>2, <2>3, <2>4, <1>3
    <3>2. ASSUME NEW l, At(w, d, l), w.entries[d][l].ino # i
          PROVE  w.entries[d][l].name # w.entries[d][k].name
      <4>1. At(v, d, l) /\ w.entries[d][l] = v.entries[d][l]
        BY <3>2, <2>8 DEF Others
      <4>2. \A a : At(v, d, a) => v.entries[d][a].name # n
        BY <1>1, Found
      <4> QED BY <4>1, <4>2, <2>2, <1>9
    <3> QED BY <3>1, <3>2, <2>2, <2>9, <1>2, <1>9 DEF LinkedOnce
  <2> HIDE DEF w
  <2>11. Good(w)
    <3>1. Described(w)
      BY <2>7, <2>8, <2>10, OthersDescribed
    <3> QED BY <3>1, <2>6, <2>7 DEF Good
  <2>12. Makes(v, w, d, n, i, type)
    BY <2>2, <2>8, <2>9, <2>10, <2>11, <1>2, <1>9 DEF Makes
  <2> QED BY <2>12 DEF w
<1> QED BY <1>8, <1>10, <1>11 DEF x, u, m

(* What minifs_unlink and minifs_rmdir do.                                 *)
Erases(v, w, i) == Good(w) /\ Others(v, w, i) /\ Unlinked(w, i) /\ w.inodes[i].type = "free"

Emptied(v, d, n, i) ==
  LET f == FreeBlocks(DirRemove(v, d, n), i) IN [f EXCEPT !.inodes[i] = FreeInode, !.entries[i] = <<>>]

LEMMA FoundOne ==
  ASSUME NEW v \in Volumes, NEW d \in Ino, NEW n, NEW i \in Ino, DirFind(v, d, n) = i
  PROVE  \E k : At(v, d, k) /\ v.entries[d][k].ino = i
  BY Found, Geometry

(* minifs_unlink and minifs_rmdir take away one inode, its link and its    *)
(* blocks.                                                                 *)
LEMMA Erased ==
  ASSUME NEW v, Good(v), NEW d \in Ino, NEW n, NEW i \in Ino \ {Root}, DirFind(v, d, n) = i,
         i # d, \A l : ~At(v, i, l)
  PROVE  Erases(v, Emptied(v, d, n, i), i)
<1> DEFINE u == DirRemove(v, d, n)
           f == FreeBlocks(u, i)
           g == [f EXCEPT !.inodes[i] = FreeInode]
           es == [g.entries EXCEPT ![i] = <<>>]
           w == [g EXCEPT !.entries = es]
           k == Min(Places(v, d, n))
<1>1. v \in Volumes /\ Owned(v) /\ Sized(v) /\ Described(v)
  BY DEF Good
<1>2. At(v, d, k) /\ v.entries[d][k].ino = i
  BY <1>1, Found, Geometry
<1>3. Removes(v, u, d, k)
  BY <1>1, <1>2, Removed
<1> HIDE DEF k, u
<1>4. /\ f \in Volumes /\ Owned(f) /\ f.entries = u.entries
      /\ \A j \in Ino : j # i => f.inodes[j] = u.inodes[j]
      /\ f.inodes[i].ptr = NoPtr
      /\ \A j \in Ino, s \in Routes : j # i => Follow(f, j, s) = Follow(u, j, s)
  BY <1>3, Freed DEF Removes
<1> HIDE DEF f
<1>5. FreeInode \in Inode /\ ~FreeInode.used /\ FreeInode.size = 0 /\ FreeInode.ptr = NoPtr
      /\ FreeInode.type = "free"
  <2>1. Root \in Ino /\ "free" \in {"free", "file", "dir"}
    BY Geometry
  <2> QED BY <2>1, FreshInode
<1>6. /\ g \in Volumes /\ g.inodes[i] = FreeInode /\ \A j \in Ino : j # i => g.inodes[j] = f.inodes[j]
      /\ g.entries = f.entries /\ g.tables = f.tables /\ g.used = f.used
  <2> HIDE DEF g
  <2>1. g = [f EXCEPT !.inodes[i] = FreeInode]
    BY DEF g
  <2> QED BY <2>1, <1>4, <1>5, SetInode
<1>7. Emptied(v, d, n, i) = w
  BY DEF Emptied, f, u
<1> HIDE DEF g
<1>8. Owned(g) /\ \A j \in Ino, s \in Routes : Follow(g, j, s) = Follow(f, j, s)
  <2>1. \A j \in Ino : g.inodes[j].ptr = f.inodes[j].ptr
    BY <1>4, <1>5, <1>6
  <2>2. \A j \in Ino : ~g.inodes[j].used => g.inodes[j].ptr = NoPtr
    BY <1>4, <1>5, <1>6 DEF Owned
  <2> QED BY <2>1, <2>2, <1>4, <1>6, SamePointers
<1>9. es \in [Ino -> Seq(Entry)] /\ es[i] = <<>> /\ \A j \in Ino : j # i => es[j] = u.entries[j]
  <2>1. <<>> \in Seq(Entry)
    OBVIOUS
  <2>2. g.entries \in [Ino -> Seq(Entry)]
    BY <1>6, VolumeFields
  <2> QED BY <2>1, <2>2, <1>4, <1>6
<1> HIDE DEF es
<1>10. /\ w \in Volumes /\ w.entries = es /\ w.inodes = g.inodes /\ w.tables = g.tables /\ w.used = g.used
  BY <1>6, <1>9, SetEntries
<1> HIDE DEF w
<1>11. Owned(w) /\ \A j \in Ino, s \in Routes : Follow(w, j, s) = Follow(g, j, s)
  BY <1>6, <1>8, <1>10, SamePointers DEF Owned
<1>12. \A j \in Ino : j # i => w.inodes[j] = v.inodes[j] /\ w.entries[j] = u.entries[j]
  BY <1>3, <1>4, <1>6, <1>9, <1>10 DEF Removes
<1>13. w.inodes[i] = FreeInode /\ w.entries[i] = <<>> /\ Len(w.entries[i]) = 0
  BY <1>6, <1>9, <1>10
<1>14. Sized(w)
  <2>1. ASSUME NEW a \in Ino, NEW l \in Nat, l \in 1 .. Len(w.entries[a])
        PROVE  Follow(w, a, Route((l - 1) \div PerBlock)) # 0
    <3>1. a # i /\ l \in 1 .. Len(u.entries[a])
      BY <2>1, <1>12, <1>13
    <3> DEFINE r == Route((l - 1) \div PerBlock)
    <3>2. r \in Routes /\ Follow(u, a, r) # 0
      BY <3>1, <1>3, EntryPlace DEF Sized, Removes
    <3> QED BY <3>1, <3>2, <1>4, <1>8, <1>11
  <2>2. \A a \in Ino : ~Dir(w, a) => w.entries[a] = <<>>
    BY <1>3, <1>12, <1>13 DEF Sized, Dir, Removes
  <2>3. \A a \in Ino : Dir(w, a) => w.inodes[a].size = Len(w.entries[a])
    BY <1>3, <1>5, <1>12, <1>13 DEF Sized, Dir, Removes
  <2>4. \A a \in Ino : ~w.inodes[a].used => w.inodes[a].size = 0
    BY <1>1, <1>5, <1>12, <1>13 DEF Sized
  <2> QED BY <2>1, <2>2, <2>3, <2>4 DEF Sized
<1>15. \A a, l : At(w, a, l) => At(u, a, l) /\ w.entries[a][l] = u.entries[a][l] /\ a # i
  BY <1>12, <1>13 DEF At
<1>16. \A a, l : At(u, a, l) /\ a # i => At(w, a, l) /\ w.entries[a][l] = u.entries[a][l]
  BY <1>12 DEF At
<1>17. \A a, l : At(v, a, l) /\ ~ (a = d /\ l = k) => At(w, a, l) /\ w.entries[a][l] = v.entries[a][l]
  BY <1>3, <1>16 DEF Removes
<1>18. \A a, l : At(w, a, l) => At(v, a, l) /\ ~ (a = d /\ l = k) /\ w.entries[a][l] = v.entries[a][l]
  BY <1>3, <1>15 DEF Removes
<1>19. Others(v, w, i)
  <2>1. \A a, l : At(v, a, l) /\ v.entries[a][l].ino # i => At(w, a, l) /\ w.entries[a][l] = v.entries[a][l]
    BY <1>2, <1>17
  <2> QED BY <2>1, <1>12, <1>18 DEF Others
<1>20. Unlinked(w, i)
  <2>1. \A a, l : At(v, a, l) /\ v.entries[a][l].ino = i => a = d /\ l = k
    BY <1>1, <1>2 DEF Described
  <2>2. ASSUME NEW a, NEW l, At(w, a, l), w.entries[a][l].ino = i PROVE FALSE
    BY <2>1, <2>2, <1>18
  <2> QED BY <2>2, <1>5, <1>13 DEF Unlinked
<1>21. Described(w)
  BY <1>10, <1>19, <1>20, OthersDescribed
<1>22. Erases(v, w, i)
  BY <1>5, <1>10, <1>11, <1>13, <1>14, <1>19, <1>20, <1>21 DEF Erases, Good
<1> QED BY <1>7, <1>22

(* Adding blocks keeps the names.                                          *)
LEMMA GrownKept ==
  ASSUME NEW v, Good(v), NEW i \in Ino, NEW w, Grown(v, w, i)
  PROVE  Kept(v, w)
<1>1. \A j \in Ino : /\ w.inodes[j].used = v.inodes[j].used /\ w.inodes[j].type = v.inodes[j].type
                     /\ w.inodes[j].parent = v.inodes[j].parent /\ w.inodes[j].size = v.inodes[j].size
  BY DEF Grown
<1>2. \A j \in Ino : ~v.inodes[j].used => v.inodes[j].size = 0
  BY DEF Good, Sized
<1> QED BY <1>1, <1>2 DEF Grown, Kept

(* What minifs_rename does.                                                *)
Moves(v, w, i, e, m) ==
  /\ Good(w) /\ Others(v, w, i)
  /\ \E k : LinkedOnce(w, i, e, k) /\ w.entries[e][k].name = m
  /\ w.inodes[i].type = v.inodes[i].type
  /\ w.inodes[i].type # "dir" => w.inodes[i].size = v.inodes[i].size

(* minifs_rename replaces the one link of an inode, or only adds blocks.   *)
LEMMA Moved ==
  ASSUME NEW v, Good(v), NEW d \in Ino, NEW e \in Ino, Dir(v, e), NEW n, NEW m \in Name,
         NEW i \in Ino \ {Root}, DirFind(v, d, n) = i, DirFind(v, e, m) = 0
  PROVE  LET x == DirAdd(v, e, m, i, v.inodes[i].type)
             w == [DirRemove(x.v, d, n) EXCEPT !.inodes[i].parent = e]
         IN /\ x.ok \in BOOLEAN
            /\ ~x.ok => Grown(v, x.v, e)
            /\ x.ok => Moves(v, w, i, e, m)
<1> DEFINE type == v.inodes[i].type
           x == DirAdd(v, e, m, i, type)
           u == x.v
           y == DirRemove(u, d, n)
           o == [y.inodes[i] EXCEPT !.parent = e]
           w == [y EXCEPT !.inodes[i] = o]
           k == Min(Places(v, d, n))
           new == [name |-> m, ino |-> i, type |-> type]
<1>1. v \in Volumes /\ Owned(v) /\ Sized(v) /\ Described(v)
  BY DEF Good
<1>2. At(v, d, k) /\ v.entries[d][k].ino = i /\ v.entries[d][k].name = n
  BY <1>1, Found, Geometry
<1> HIDE DEF k
<1>3. v.inodes[i].used /\ type \in {"free", "file", "dir"} /\ i \in 0 .. Inodes - 1 /\ i # 0
  <2>1. v.inodes[i] \in Inode
    BY <1>1, VolumeFields
  <2>2. type \in {"free", "file", "dir"}
    BY <2>1, InodeFields
  <2>3. v.inodes[i].used
    BY <1>1, <1>2 DEF Described
  <2> QED BY <2>2, <2>3, Geometry DEF Ino
<1>4. v.inodes[e].used /\ v.inodes[e].size = Len(v.entries[e])
  BY <1>1 DEF Sized, Dir
<1>5. /\ x.ok \in BOOLEAN /\ (~x.ok => Grown(v, x.v, e))
      /\ x.ok => \E place : Enters(v, x.v, e, place, new)
  <2> HIDE DEF type, x, new
  <2> QED BY <1>1, <1>3, <1>4, Entered DEF x, new
<1>7. new.name = m /\ new.ino = i /\ new.type = type
  OBVIOUS
<1>8. w = [y EXCEPT !.inodes[i].parent = e]
  OBVIOUS
<1> HIDE DEF x, new
<1>9. ASSUME x.ok PROVE Moves(v, w, i, e, m)
  <2>1. PICK place : Enters(v, u, e, place, new)
    BY <1>5, <1>9
  <2>2. /\ At(u, e, place) /\ u.entries[e][place] = new /\ ~At(v, e, place)
        /\ \A a, l : At(v, a, l) => At(u, a, l) /\ u.entries[a][l] = v.entries[a][l]
        /\ \A a, l : At(u, a, l) => (a = e /\ l = place) \/ At(v, a, l)
    BY <2>1, <1>1, <1>3, <1>7, EntersAt
  <2>3. Sized(u)
    BY <2>1, <1>1, EntersSized
  <2>4. /\ u \in Volumes /\ Owned(u)
        /\ \A j \in Ino : j # e => u.inodes[j] = v.inodes[j]
        /\ u.inodes[e].used = v.inodes[e].used /\ u.inodes[e].type = v.inodes[e].type
        /\ u.inodes[e].parent = v.inodes[e].parent
    BY <2>1 DEF Enters
  <2> HIDE DEF u
  <2>5. At(u, d, k) /\ ~ (d = e /\ k = place)
    BY <1>2, <2>2
  <2>6. \A l : At(u, d, l) /\ u.entries[d][l].name = n => l = k
    <3>1. \A l : At(v, d, l) /\ v.entries[d][l].name = n => l = k
      BY <1>1, <1>2 DEF Described
    <3>2. ~ (d = e /\ m = n)
      BY <1>3
    <3> QED BY <3>1, <3>2, <2>2, <1>7
  <2>7. Min(Places(u, d, n)) = k
    <3>1. Places(u, d, n) = {l \in 1 .. Len(u.entries[d]) : u.entries[d][l].ino # 0 /\ u.entries[d][l].name = n}
      BY <2>4, EntryFields DEF Places
    <3>2. k \in 1 .. Len(u.entries[d]) /\ u.entries[d][k].ino # 0 /\ u.entries[d][k].name = n
      BY <2>2, <2>5, <1>2 DEF At
    <3>3. \A l \in 1 .. Len(u.entries[d]) : u.entries[d][l].ino # 0 /\ u.entries[d][l].name = n => l = k
      BY <2>6 DEF At
    <3>4. Places(u, d, n) \in SUBSET Nat /\ Places(u, d, n) # {}
      BY <3>1, <3>2
    <3>5. Min(Places(u, d, n)) \in Places(u, d, n)
      BY <3>4, MinIs
    <3> QED BY <3>1, <3>3, <3>5
  <2>8. Removes(u, y, d, k)
    BY <2>3, <2>4, <2>5, <2>7, Removed
  <2> HIDE DEF y
  <2>9. y \in Volumes /\ Owned(y) /\ Sized(y) /\ y.inodes = u.inodes /\ y.inodes[i] \in Inode
    BY <2>8, VolumeFields DEF Removes
  <2>10. /\ o \in Inode /\ o.parent = e /\ o.used = u.inodes[i].used /\ o.type = u.inodes[i].type
         /\ o.size = u.inodes[i].size /\ o.ptr = u.inodes[i].ptr
    <3>1. e \in 0 .. Inodes - 1
      BY Geometry DEF Ino
    <3> QED BY <3>1, <2>9, SetInodeParent
  <2> HIDE DEF o
  <2>11. /\ w \in Volumes /\ w.inodes[i] = o /\ \A j \in Ino : j # i => w.inodes[j] = u.inodes[j]
         /\ w.entries = y.entries /\ w.tables = y.tables /\ w.used = y.used
    BY <2>9, <2>10, SetInode
  <2> HIDE DEF w
  <2>12. Owned(w) /\ \A j \in Ino, s \in Routes : Follow(w, j, s) = Follow(y, j, s)
    <3>1. \A j \in Ino : w.inodes[j].ptr = y.inodes[j].ptr /\ w.inodes[j].used = y.inodes[j].used
      BY <2>9, <2>10, <2>11
    <3>2. \A j \in Ino : ~w.inodes[j].used => w.inodes[j].ptr = NoPtr
      BY <3>1, <2>9 DEF Owned
    <3> QED BY <3>1, <3>2, <2>9, <2>11, SamePointers
  <2>13. \A j \in Ino : /\ w.inodes[j].used = y.inodes[j].used /\ w.inodes[j].type = y.inodes[j].type
                        /\ w.inodes[j].size = y.inodes[j].size
    BY <2>9, <2>10, <2>11
  <2>14. Sized(w)
    <3>1. ASSUME NEW a \in Ino, NEW l \in Nat, l \in 1 .. Len(w.entries[a])
          PROVE  Follow(w, a, Route((l - 1) \div PerBlock)) # 0
      <4>1. l \in 1 .. Len(y.entries[a])
        BY <3>1, <2>11
      <4> DEFINE r == Route((l - 1) \div PerBlock)
      <4>2. r \in Routes /\ Follow(y, a, r) # 0
        BY <4>1, <2>9, EntryPlace DEF Sized
      <4> QED BY <4>2, <2>12
    <3> QED BY <3>1, <2>9, <2>11, <2>13 DEF Sized, Dir
  <2>15. \A a, l : At(w, a, l) <=> At(u, a, l) /\ ~ (a = d /\ l = k)
    BY <2>8, <2>11 DEF Removes, At
  <2>16. \A a, l : At(w, a, l) => w.entries[a][l] = u.entries[a][l]
    <3>1. \A a, l : At(w, a, l) => At(y, a, l)
      BY <2>11 DEF At
    <3> QED BY <3>1, <2>8, <2>11 DEF Removes
  <2>17. \A a, l : At(v, a, l) /\ v.entries[a][l].ino = i => a = d /\ l = k
    BY <1>1, <1>2 DEF Described
  <2>18. Others(v, w, i)
    <3>1. \A a, l : At(v, a, l) /\ v.entries[a][l].ino # i => At(w, a, l) /\ w.entries[a][l] = v.entries[a][l]
      BY <1>2, <2>2, <2>15, <2>16
    <3>2. \A a, l : At(w, a, l) /\ w.entries[a][l].ino # i => At(v, a, l) /\ w.entries[a][l] = v.entries[a][l]
      BY <1>7, <2>2, <2>15, <2>16
    <3>3. \A j \in Ino : j # i => /\ w.inodes[j].used = v.inodes[j].used
                                  /\ w.inodes[j].type = v.inodes[j].type
                                  /\ w.inodes[j].parent = v.inodes[j].parent
                                  /\ w.inodes[j].type # "dir" => w.inodes[j].size = v.inodes[j].size
      BY <2>4, <2>11 DEF Dir
    <3> QED BY <3>1, <3>2, <3>3 DEF Others
  <2>19. LinkedOnce(w, i, e, place) /\ w.entries[e][place].name = m
    <3>1. At(w, e, place) /\ w.entries[e][place] = new
      BY <2>2, <2>5, <2>15, <2>16
    <3>2. \A a, l : At(w, a, l) /\ w.entries[a][l].ino = i => a = e /\ l = place
      BY <2>2, <2>15, <2>16, <2>17
    <3>3. w.inodes[i].used /\ w.inodes[i].parent = e /\ w.inodes[i].type = type
      BY <1>3, <2>4, <2>10, <2>11
    <3>4. ASSUME NEW l, At(w, e, l), w.entries[e][l].ino # i
          PROVE  w.entries[e][l].name # m
      <4>1. At(v, e, l) /\ w.entries[e][l] = v.entries[e][l]
        BY <3>4, <2>18 DEF Others
      <4>2. \A a : At(v, e, a) => v.entries[e][a].name # m
        BY <1>1, Found
      <4> QED BY <4>1, <4>2
    <3> QED BY <3>1, <3>2, <3>3, <3>4, <1>7 DEF LinkedOnce
  <2>20. Described(w)
    BY <2>11, <2>18, <2>19, OthersDescribed
  <2>21. w.inodes[i].type = v.inodes[i].type /\ (w.inodes[i].type # "dir" => w.inodes[i].size = v.inodes[i].size)
    BY <2>4, <2>10, <2>11 DEF Dir
  <2> QED BY <2>11, <2>12, <2>14, <2>18, <2>19, <2>20, <2>21 DEF Good, Moves
<1> QED BY <1>5, <1>8, <1>9 DEF x

LEMMA GrownSizes ==
  ASSUME NEW v, NEW i \in Ino, NEW w, Grown(v, w, i)
  PROVE  Sizes(v, w)
<1>1. \A j \in Ino : w.inodes[j].type = v.inodes[j].type /\ w.inodes[j].size = v.inodes[j].size
  BY DEF Grown
<1>2. \A j \in Ino : FileSize(w, j) = FileSize(v, j)
  BY <1>1 DEF FileSize
<1> QED BY <1>2 DEF Sizes

(* minifs_truncate keeps the names, and changes the size of one file.      *)
LEMMA Truncated ==
  ASSUME NEW v, Good(v), NEW i \in Ino, v.inodes[i].used, v.inodes[i].type = "file"
  PROVE  Kept(v, FreeBlocks(v, i)) /\ Sizes(v, FreeBlocks(v, i))
<1> DEFINE w == FreeBlocks(v, i)
<1>1. v \in Volumes /\ Owned(v) /\ Sized(v)
  BY DEF Good
<1>2. /\ w \in Volumes /\ Owned(w) /\ w.entries = v.entries
      /\ \A j \in Ino : j # i => w.inodes[j] = v.inodes[j]
      /\ w.inodes[i].used = v.inodes[i].used /\ w.inodes[i].type = v.inodes[i].type
      /\ w.inodes[i].parent = v.inodes[i].parent
      /\ \A j \in Ino, s \in Routes : j # i => Follow(w, j, s) = Follow(v, j, s)
  BY <1>1, Freed
<1> HIDE DEF w
<1>3. ~Dir(v, i)
  BY DEF Dir
<1>4. Kept(v, w)
  BY <1>1, <1>2, <1>3 DEF Kept, Sized
<1>5. Sizes(v, w)
  BY <1>2 DEF Sizes, FileSize
<1> QED BY <1>4, <1>5 DEF w

(* minifs_write keeps the names, and changes the size of one file at most. *)
LEMMA Written ==
  ASSUME NEW v, Good(v), NEW i \in Ino, v.inodes[i].used, v.inodes[i].type = "file",
         NEW first \in Nat, NEW count \in Nat, NEW end \in 0 .. Blocks * PerBlock
  PROVE  LET y == EnsureBlocks(v, i, first, count)
             w == IF y.ok THEN [y.v EXCEPT !.inodes[i].size = Max({@, end})] ELSE y.v
         IN Kept(v, w) /\ Sizes(v, w)
<1> DEFINE y == EnsureBlocks(v, i, first, count)
           u == y.v
           size == Max({u.inodes[i].size, end})
           n == [u.inodes[i] EXCEPT !.size = size]
           w == [u EXCEPT !.inodes[i] = n]
<1>1. v \in Volumes /\ Owned(v) /\ Sized(v)
  BY DEF Good
<1>2. y \in Results /\ Grown(v, u, i)
  BY <1>1, EnsuredAll
<1>3. [u EXCEPT !.inodes[i].size = Max({@, end})] = w
  <2> HIDE DEF u
  <2> QED OBVIOUS
<1> HIDE DEF u
<1>4. Kept(v, u) /\ Sizes(v, u)
  BY <1>2, GrownKept, GrownSizes
<1>5. Kept(v, w) /\ Sizes(v, w)
  <2>1. /\ u \in Volumes /\ Owned(u) /\ u.entries = v.entries
        /\ \A j \in Ino : j # i => u.inodes[j] = v.inodes[j]
        /\ u.inodes[i].used = v.inodes[i].used /\ u.inodes[i].type = v.inodes[i].type
        /\ u.inodes[i].parent = v.inodes[i].parent
        /\ \A j \in Ino, s \in Routes : Follow(v, j, s) # 0 => Follow(u, j, s) # 0
    BY <1>2 DEF Grown
  <2>2. u.inodes[i] \in Inode /\ u.inodes[i].size \in 0 .. Blocks * PerBlock /\ Blocks * PerBlock \in Nat
    <3>1. u.inodes[i] \in Inode
      BY <2>1, VolumeFields
    <3> QED BY <3>1, InodeFields, Geometry
  <2>3. size \in 0 .. Blocks * PerBlock
    BY <2>2, MaxOfTwo
  <2> HIDE DEF size
  <2>4. /\ n \in Inode /\ n.used = u.inodes[i].used /\ n.type = u.inodes[i].type
        /\ n.parent = u.inodes[i].parent /\ n.ptr = u.inodes[i].ptr
    BY <2>2, <2>3, SetInodeSize
  <2> HIDE DEF n
  <2>5. /\ w \in Volumes /\ w.inodes[i] = n /\ \A j \in Ino : j # i => w.inodes[j] = u.inodes[j]
        /\ w.entries = u.entries /\ w.tables = u.tables /\ w.used = u.used
    BY <2>1, <2>4, SetInode
  <2> HIDE DEF w
  <2>6. Owned(w) /\ \A j \in Ino, s \in Routes : Follow(w, j, s) = Follow(u, j, s)
    <3>1. \A j \in Ino : w.inodes[j].ptr = u.inodes[j].ptr /\ w.inodes[j].used = u.inodes[j].used
      BY <2>4, <2>5
    <3>2. \A j \in Ino : ~w.inodes[j].used => w.inodes[j].ptr = NoPtr
      BY <2>1, <3>1 DEF Owned
    <3> QED BY <3>1, <3>2, <2>1, <2>5, SamePointers
  <2>7. ~Dir(v, i)
    BY DEF Dir
  <2>8. Kept(v, w)
    <3>1. ASSUME NEW j \in Ino
          PROVE  /\ w.inodes[j].used = v.inodes[j].used /\ w.inodes[j].type = v.inodes[j].type
                 /\ w.inodes[j].parent = v.inodes[j].parent
                 /\ Dir(v, j) \/ ~v.inodes[j].used => w.inodes[j].size = v.inodes[j].size
      <4>1. CASE j = i
        BY <4>1, <2>1, <2>4, <2>5, <2>7
      <4>2. CASE j # i
        BY <4>2, <2>1, <2>5
      <4> QED BY <4>1, <4>2
    <3>2. \A j \in Ino : ~v.inodes[j].used => v.inodes[j].size = 0
      BY <1>1 DEF Sized
    <3>3. \A j \in Ino, s \in Routes : Follow(v, j, s) # 0 => Follow(w, j, s) # 0
      BY <2>1, <2>6
    <3> QED BY <2>1, <2>5, <2>6, <3>1, <3>2, <3>3 DEF Kept
  <2>9. Sizes(v, w)
    BY <2>1, <2>5 DEF Sizes, FileSize
  <2> QED BY <2>8, <2>9
<1> QED BY <1>3, <1>4, <1>5 DEF u

LEMMA DivMono ==
  ASSUME NEW m \in Nat, m > 0, NEW a \in Nat, NEW b \in Nat, a <= b
  PROVE  a \div m <= b \div m
<1>1. a \div m \in Int /\ a % m \in 0 .. m - 1 /\ a = m * (a \div m) + (a % m)
  BY ModDef
<1>2. b \div m \in Int /\ b % m \in 0 .. m - 1 /\ b = m * (b \div m) + (b % m)
  BY ModDef
<1>3. ASSUME a \div m >= (b \div m) + 1 PROVE FALSE
  <2>1. m * (a \div m) >= m * ((b \div m) + 1)
    BY <1>1, <1>2, <1>3
  <2>2. m * ((b \div m) + 1) = m * (b \div m) + m
    BY <1>2
  <2> QED BY <1>1, <1>2, <2>1, <2>2
<1> QED BY <1>1, <1>2, <1>3

(* A write asks for a block at least, and ends within the volume.          *)
LEMMA WriteRange ==
  ASSUME NEW pos \in Positions, NEW count \in Counts
  PROVE  LET end == Min({pos + count, Blocks * PerBlock})
             first == pos \div PerBlock
             last == (end - 1) \div PerBlock
         IN first \in Nat /\ last - first + 1 \in Nat /\ end \in 0 .. Blocks * PerBlock
<1>1. /\ pos \in Nat /\ pos <= Blocks * PerBlock - 1 /\ count \in Nat /\ count > 0
      /\ Blocks * PerBlock \in Nat
  BY WriteAssumption, Geometry
<1> DEFINE size == Blocks * PerBlock
           end == Min({pos + count, size})
<1> HIDE DEF size
<1>2. end \in Nat /\ end <= size /\ pos <= end - 1
  BY <1>1, MinOfTwo DEF size
<1> HIDE DEF end
<1>3. end - 1 \in Nat
  BY <1>1, <1>2
<1>4. pos \div PerBlock \in Nat /\ (end - 1) \div PerBlock \in Nat
  BY <1>1, <1>3, DivNat, Geometry
<1>5. pos \div PerBlock <= (end - 1) \div PerBlock
  BY <1>1, <1>2, <1>3, DivMono, Geometry
<1> QED BY <1>1, <1>2, <1>4, <1>5 DEF end, size

-----------------------------------------------------------------------------
(***************************************************************************)
(* The steps.                                                              *)
(***************************************************************************)
(* Directory e is not i, nor below it.                                     *)
Apart(v, i, e) ==
  \E S \in SUBSET Ino :
    i \in S /\ e \notin S /\ \A d, k : At(v, d, k) /\ d \in S => v.entries[d][k].ino \in S

KeepStep(v, w) == Kept(v, w) /\ Sizes(v, w)
MakeStep(v, w) ==
  \E d \in Ino, n \in Name, i \in Ino \ {Root}, type \in {"file", "dir"} :
    Dir(v, d) /\ DirFind(v, d, n) = 0 /\ ~v.inodes[i].used /\ Makes(v, w, d, n, i, type)
EraseStep(v, w) ==
  \E i \in Ino \ {Root} : v.inodes[i].used /\ (\A l : ~At(v, i, l)) /\ Erases(v, w, i)
MoveStep(v, w) ==
  \E i \in Ino \ {Root}, e \in Ino, m \in Name :
    /\ v.inodes[i].used /\ Dir(v, e) /\ DirFind(v, e, m) = 0
    /\ IntoItself \/ Apart(v, i, e)
    /\ Moves(v, w, i, e, m)
Step(v, w) == KeepStep(v, w) \/ MakeStep(v, w) \/ EraseStep(v, w) \/ MoveStep(v, w)

LEMMA VolumeIs ==
  ASSUME NEW w \in Volumes, Becomes(w)
  PROVE  Volume' = w
  BY DEF Volume, Becomes, Volumes

(* Unless q begins with p, the directory of q is not below what p names:   *)
(* no inode on the way to q is.                                            *)
LEMMA ParentApart ==
  ASSUME NEW v, Good(v), NEW p \in Path, NEW q \in Path, p # q, ~IsStrictPrefix(p, q),
         ResolveParent(v, p) # 0, ResolveParent(v, q) # 0,
         NEW i \in Ino, i = DirFind(v, ResolveParent(v, p), Last(p))
  PROVE  Apart(v, i, ResolveParent(v, q))
<1> DEFINE e == ResolveParent(v, q)
           C == {Walk(v, q)[m] : m \in 0 .. Len(q) - 1}
           S == Ino \ C
<1>1. v \in Volumes /\ Described(v)
  BY DEF Good
<1>2. Len(q) - 1 \in Nat /\ e = Walk(v, q)[Len(q) - 1] /\ e \in Ino
  BY PathParts, Parent
<1>3. i \notin C
  <2>1. i # 0
    BY Geometry
  <2>2. \A m \in 0 .. Len(q) - 1 : Walk(v, q)[m] # i
    BY <2>1, Avoids
  <2> QED BY <2>2
<1>4. e \in C
  BY <1>2
<1>5. ASSUME NEW d, NEW k, At(v, d, k), v.entries[d][k].ino \in C
      PROVE  d \in C
  <2>1. PICK m \in 0 .. Len(q) - 1 : v.entries[d][k].ino = Walk(v, q)[m]
    BY <1>5
  <2>2. v.entries[d][k].ino \in Ino \ {Root} /\ Walk(v, q)[m] # 0
    <3>1. v.entries[d][k].ino \in Ino \ {Root}
      BY <1>1, <1>5 DEF Described
    <3>2. ~ (0 \in Ino)
      BY DEF Ino
    <3> QED BY <2>1, <3>1, <3>2
  <2>3. m # 0
    <3>1. Walk(v, q)[0] = Root
      BY <1>1, WalkIs
    <3> QED BY <2>1, <2>2, <3>1
  <2>4. m - 1 \in Nat /\ (m - 1) + 1 = m /\ m - 1 \in 0 .. Len(q) - 1
    BY <2>1, <2>3, <1>2
  <2>5. PICK l : LET a == Walk(v, q)[m - 1] IN At(v, a, l) /\ v.entries[a][l].ino = Walk(v, q)[m]
    <3>1. ASSUME NEW j \in Nat, j + 1 = m
          PROVE  \E l : At(v, Walk(v, q)[j], l) /\ v.entries[Walk(v, q)[j]][l].ino = Walk(v, q)[j + 1]
      <4>1. Walk(v, q)[j + 1] # 0
        BY <2>2, <3>1
      <4> QED BY <4>1, WalkStep, SMTT(40)
    <3> DEFINE j == m - 1
    <3>2. j \in Nat /\ j + 1 = m
      BY <2>4
    <3> HIDE DEF j
    <3>3. \E l : At(v, Walk(v, q)[j], l) /\ v.entries[Walk(v, q)[j]][l].ino = Walk(v, q)[j + 1]
      BY <3>1, <3>2
    <3> QED BY <3>2, <3>3 DEF j
  <2> DEFINE a == Walk(v, q)[m - 1]
  <2>6. a \in C
    BY <2>4
  <2>7. At(v, a, l) /\ v.entries[a][l].ino = v.entries[d][k].ino
    BY <2>1, <2>5
  <2> HIDE DEF a, C
  <2>8. d = a
    BY <1>1, <1>5, <2>7 DEF Described
  <2> QED BY <2>6, <2>8
<1> HIDE DEF C, e
<1>6. \A d, k : At(v, d, k) /\ d \in S => v.entries[d][k].ino \in S
  <2>1. \A d, k : At(v, d, k) => v.entries[d][k].ino \in Ino
    BY <1>1 DEF Described
  <2> QED BY <2>1, <1>5
<1> QED BY <1>3, <1>4, <1>6 DEF Apart, e

LEMMA MakeIsStep ==
  ASSUME Good(Volume), NEW p \in Path, NEW type \in {"file", "dir"}, Make(p, type)
  PROVE  Step(Volume, Volume')
<1> DEFINE v == Volume
           d == ResolveParent(v, p)
           n == Last(p)
<1>1. d # 0 /\ DirFind(v, d, n) = 0
  BY DEF Make
<1>2. d \in Ino /\ Dir(v, d) /\ n \in Name
  BY <1>1, Parent, PathParts
<1>3. PICK i \in Ino \ {Root} :
        /\ ~inodes[i].used
        /\ LET u == [v EXCEPT !.inodes[i] = [FreeInode EXCEPT !.used = TRUE, !.type = type, !.parent = d]]
               x == DirAdd(u, d, n, i, type)
           IN Becomes(IF x.ok THEN x.v ELSE [x.v EXCEPT !.inodes[i].used = FALSE])
  BY DEF Make
<1> DEFINE u == [v EXCEPT !.inodes[i] = [FreeInode EXCEPT !.used = TRUE, !.type = type, !.parent = d]]
           x == DirAdd(u, d, n, i, type)
           w == [x.v EXCEPT !.inodes[i].used = FALSE]
<1>4. ~v.inodes[i].used
  BY <1>3 DEF Volume
<1> HIDE DEF v, d, n
<1>5. /\ x.ok \in BOOLEAN
      /\ ~x.ok => Kept(v, w) /\ Sizes(v, w)
      /\ x.ok => Makes(v, x.v, d, n, i, type)
  BY <1>1, <1>2, <1>4, Made DEF v
<1>6. Becomes(IF x.ok THEN x.v ELSE w)
  BY <1>3, Zenon
<1>7. v \in Volumes
  BY DEF Good, v
<1>8. CASE x.ok
  <2> HIDE DEF x
  <2>1. x.v \in Volumes
    BY <1>5, <1>8 DEF Makes, Good
  <2>2. v' = x.v
    BY <1>6, <1>8, <2>1, VolumeIs DEF v
  <2> QED BY <1>1, <1>2, <1>4, <1>5, <1>8, <2>2 DEF MakeStep, Step, v
<1>9. CASE ~x.ok
  <2> HIDE DEF x, w
  <2>2. w \in Volumes
    BY <1>5, <1>9 DEF Kept
  <2>3. v' = w
    BY <1>6, <1>9, <2>2, VolumeIs DEF v
  <2> QED BY <1>5, <1>9, <2>3 DEF KeepStep, Step, v
<1> QED BY <1>8, <1>9

LEMMA VolumeHas ==
  /\ Volume.inodes = inodes /\ Volume.entries = entries /\ Volume.tables = tables
  /\ Volume.used = block_used /\ Volume.cursor = alloc_cursor
  BY DEF Volume

LEMMA EraseIsStep ==
  ASSUME Good(Volume), NEW d \in Ino, NEW n, NEW i \in Ino \ {Root}, DirFind(Volume, d, n) = i,
         i # d, \A l : ~At(Volume, i, l), Erase(i, d, n)
  PROVE  Step(Volume, Volume')
<1> DEFINE v == Volume
           w == Emptied(v, d, n, i)
<1>1. Becomes(w)
  BY Zenon DEF Erase, Emptied
<1>2. v.inodes[i].used
  <2>1. v \in Volumes /\ Described(v)
    BY DEF Good
  <2>2. \E k : At(v, d, k) /\ v.entries[d][k].ino = i
    BY <2>1, FoundOne
  <2> QED BY <2>1, <2>2 DEF Described
<1>3. Erases(v, w, i)
  BY Erased
<1> HIDE DEF v
<1> HIDE DEF w
<1>4. w \in Volumes
  BY <1>3 DEF Erases, Good
<1>5. v' = w
  BY <1>1, <1>4, VolumeIs DEF v
<1> QED BY <1>2, <1>3, <1>5 DEF EraseStep, Step, v

LEMMA UnlinkIsStep ==
  ASSUME Good(Volume), NEW p \in Path, Unlink(p)
  PROVE  Step(Volume, Volume')
<1> DEFINE d == ResolveParent(Volume, p)
           i == DirFind(Volume, d, Last(p))
<1>1. d # 0 /\ i > Root /\ inodes[i].type = "file" /\ Erase(i, d, Last(p))
  BY DEF Unlink
<1>2. d \in Ino /\ Dir(Volume, d)
  BY <1>1, Parent
<1>3. Volume \in Volumes /\ Sized(Volume)
  BY DEF Good
<1>4. i \in Ino \ {Root}
  <2>1. i \in 0 .. Inodes - 1
    BY <1>2, <1>3, Found
  <2> QED BY <2>1, <1>1, Geometry DEF Ino, Root
<1> HIDE DEF d, i
<1>5. i # d /\ ~Dir(Volume, i)
  BY <1>1, <1>2, VolumeHas DEF Dir
<1>6. \A l : ~At(Volume, i, l)
  BY <1>3, <1>4, <1>5, EntryPlace DEF At
<1> QED BY <1>1, <1>2, <1>4, <1>5, <1>6, EraseIsStep DEF i

LEMMA RmdirIsStep ==
  ASSUME Good(Volume), NEW p \in Path, Rmdir(p)
  PROVE  Step(Volume, Volume')
<1> DEFINE d == ResolveParent(Volume, p)
           i == DirFind(Volume, d, Last(p))
<1>1. d # 0 /\ i > Root /\ DirIsEmpty(Volume, i) /\ Erase(i, d, Last(p))
  BY DEF Rmdir
<1>2. d \in Ino /\ Dir(Volume, d)
  BY <1>1, Parent
<1>3. Volume \in Volumes
  BY DEF Good
<1>4. i \in Ino \ {Root}
  <2>1. i \in 0 .. Inodes - 1
    BY <1>2, <1>3, Found
  <2> QED BY <2>1, <1>1, Geometry DEF Ino, Root
<1>5. \A l : ~At(Volume, i, l)
  BY <1>1, <1>3, <1>4, EntryFields DEF At, DirIsEmpty
<1>6. \E l : At(Volume, d, l)
  <2>1. i \in Ino
    BY <1>4
  <2> QED BY <2>1, <1>2, <1>3, FoundOne
<1> HIDE DEF d, i
<1>7. i # d
  BY <1>5, <1>6
<1> QED BY <1>1, <1>2, <1>4, <1>5, <1>7, EraseIsStep DEF i

LEMMA RenameIsStep ==
  ASSUME Good(Volume), NEW p \in Path, NEW q \in Path, Rename(p, q)
  PROVE  Step(Volume, Volume')
<1> DEFINE v == Volume
           d == ResolveParent(v, p)
           e == ResolveParent(v, q)
           n == Last(p)
           m == Last(q)
           i == DirFind(v, d, n)
           x == DirAdd(v, e, m, i, v.inodes[i].type)
           w == [DirRemove(x.v, d, n) EXCEPT !.inodes[i].parent = e]
<1>1. /\ p # q /\ (IntoItself \/ ~IsStrictPrefix(p, q))
      /\ d # 0 /\ e # 0 /\ i > Root /\ DirFind(v, e, m) = 0
  BY DEF Rename
<1>2. Becomes(IF x.ok THEN w ELSE x.v)
  <2>1. v.inodes[i].type = inodes[i].type
    BY VolumeHas
  <2> QED BY <2>1, Zenon DEF Rename
<1>3. d \in Ino /\ e \in Ino /\ Dir(v, e) /\ m \in Name
  BY <1>1, Parent, PathParts
<1>4. v \in Volumes /\ Described(v)
  BY DEF Good
<1>5. i \in Ino \ {Root}
  <2>1. i \in 0 .. Inodes - 1
    BY <1>3, <1>4, Found
  <2> QED BY <2>1, <1>1, Geometry DEF Ino, Root
<1>6. v.inodes[i].used
  <2>1. \E k : At(v, d, k) /\ v.entries[d][k].ino = i
    <3>1. i \in Ino
      BY <1>5
    <3> QED BY <3>1, <1>3, <1>4, FoundOne
  <2> QED BY <1>4, <2>1 DEF Described
<1>7. IntoItself \/ Apart(v, i, e)
  BY <1>1, <1>5, ParentApart
<1> HIDE DEF v, d, e, n, m
<1>8. /\ x.ok \in BOOLEAN
      /\ ~x.ok => Grown(v, x.v, e)
      /\ x.ok => Moves(v, w, i, e, m)
  BY <1>1, <1>3, <1>5, Moved DEF v
<1> HIDE DEF x, w, i
<1>9. CASE x.ok
  <2>1. w \in Volumes
    BY <1>8, <1>9 DEF Moves, Good
  <2>2. v' = w
    BY <1>2, <1>9, <2>1, VolumeIs DEF v
  <2> QED BY <1>1, <1>3, <1>5, <1>6, <1>7, <1>8, <1>9, <2>2 DEF MoveStep, Step, v
<1>10. CASE ~x.ok
  <2>1. x.v \in Volumes
    BY <1>8, <1>10 DEF Grown
  <2>2. v' = x.v
    BY <1>2, <1>10, <2>1, VolumeIs DEF v
  <2>3. Kept(v, x.v) /\ Sizes(v, x.v)
    BY <1>3, <1>8, <1>10, GrownKept, GrownSizes DEF v
  <2> QED BY <2>2, <2>3 DEF KeepStep, Step, v
<1> QED BY <1>9, <1>10

LEMMA TruncateIsStep ==
  ASSUME Good(Volume), NEW p \in Path, Truncate(p)
  PROVE  Step(Volume, Volume')
<1> DEFINE i == Resolve(Volume, p)
           w == FreeBlocks(Volume, i)
<1>1. i > Root /\ Volume.inodes[i].type = "file" /\ Becomes(w)
  BY VolumeHas DEF Truncate
<1>2. i \in Ino /\ Volume.inodes[i].used
  <2>1. Len(p) \in Nat /\ i = Walk(Volume, p)[Len(p)]
    BY PathParts DEF Resolve
  <2>2. i # 0
    BY <1>1 DEF Root
  <2> QED BY <2>1, <2>2, WalkUsed
<1>3. Kept(Volume, w) /\ Sizes(Volume, w)
  BY <1>1, <1>2, Truncated
<1> HIDE DEF w
<1>4. Volume' = w
  BY <1>1, <1>3, VolumeIs DEF Kept
<1> QED BY <1>3, <1>4 DEF KeepStep, Step

LEMMA WriteIsStep ==
  ASSUME Good(Volume), NEW i \in Ino, NEW pos \in Positions, NEW count \in Counts, Write(i, pos, count)
  PROVE  Step(Volume, Volume')
<1> DEFINE end == Min({pos + count, Blocks * PerBlock})
           first == pos \div PerBlock
           last == (end - 1) \div PerBlock
           num == last - first + 1
           y == EnsureBlocks(Volume, i, first, num)
           w == IF y.ok THEN [y.v EXCEPT !.inodes[i].size = Max({@, end})] ELSE y.v
<1>1. Volume.inodes[i].used /\ Volume.inodes[i].type = "file"
  BY VolumeHas DEF Write
<1>2. Becomes(w)
  BY Zenon DEF Write
<1>3. first \in Nat /\ num \in Nat /\ end \in 0 .. Blocks * PerBlock
  BY WriteRange
<1> HIDE DEF end, first, num
<1>4. Kept(Volume, w) /\ Sizes(Volume, w)
  BY <1>1, <1>3, Written
<1> HIDE DEF w
<1>5. Volume' = w
  BY <1>2, <1>4, VolumeIs DEF Kept
<1> QED BY <1>4, <1>5 DEF KeepStep, Step

LEMMA MountIsStep ==
  ASSUME Good(Volume), Mount
  PROVE  Step(Volume, Volume')
<1> DEFINE w == [Volume EXCEPT !.cursor = alloc_cursor']
           free == {b \in Block : ~block_used[b]}
<1>0. Volume \in Volumes /\ Owned(Volume) /\ Sized(Volume)
  BY DEF Good
<1>1. alloc_cursor' \in Block
  <2>1. alloc_cursor' = IF free = {} THEN 1 ELSE Min(free)
    BY DEF Mount
  <2>2. 1 \in Block /\ free \in SUBSET Block /\ Block \subseteq Nat
    BY Geometry DEF Block
  <2> HIDE DEF free
  <2>3. free # {} => Min(free) \in free
    BY <2>2, MinIs
  <2> QED BY <2>1, <2>2, <2>3
<1>2. /\ w \in Volumes /\ w.inodes = Volume.inodes /\ w.entries = Volume.entries
      /\ w.tables = Volume.tables /\ w.used = Volume.used
  BY <1>0, <1>1, SetCursor
<1>3. Volume' = w
  BY DEF Volume, Mount
<1> HIDE DEF w
<1>4. Owned(w) /\ \A j \in Ino, s \in Routes : Follow(w, j, s) = Follow(Volume, j, s)
  BY <1>0, <1>2, SamePointers DEF Owned
<1>5. Kept(Volume, w)
  BY <1>0, <1>2, <1>4 DEF Kept, Sized
<1>6. Sizes(Volume, w)
  BY <1>2, Geometry DEF Sizes, FileSize
<1> QED BY <1>3, <1>5, <1>6 DEF KeepStep, Step

(* Every step of the program is one of the four.                           *)
LEMMA NextIsStep ==
  ASSUME Good(Volume), Next
  PROVE  Step(Volume, Volume')
<1>1. CASE \E p \in Path : \E type \in {"file", "dir"} : Make(p, type)
  BY <1>1, MakeIsStep
<1>2. CASE \E p \in Path : Unlink(p)
  BY <1>2, UnlinkIsStep
<1>3. CASE \E p \in Path : Rmdir(p)
  BY <1>3, RmdirIsStep
<1>4. CASE \E p \in Path : Truncate(p)
  BY <1>4, TruncateIsStep
<1>5. CASE \E p \in Path : \E q \in Path : Rename(p, q)
  BY <1>5, RenameIsStep
<1>6. CASE \E i \in Ino, pos \in Positions, n \in Counts : Write(i, pos, n)
  BY <1>6, WriteIsStep
<1>7. CASE Mount
  BY <1>7, MountIsStep
<1> QED BY <1>1, <1>2, <1>3, <1>4, <1>5, <1>6, <1>7, Zenon DEF Next

(* The four kinds of steps keep a volume good.                             *)
LEMMA StepGood ==
  ASSUME NEW v, Good(v), NEW w, Step(v, w)
  PROVE  Good(w)
<1>1. CASE KeepStep(v, w)
  BY <1>1, KeptGood DEF KeepStep
<1> QED BY <1>1 DEF Step, MakeStep, EraseStep, MoveStep, Makes, Erases, Moves

(* A formatted volume is good.                                             *)
LEMMA InitGood ==
  ASSUME Init
  PROVE  Good(Volume)
<1> DEFINE v == Volume
           m == Fresh("dir", Root)
<1>1. /\ m \in Inode /\ m.used /\ m.type = "dir" /\ m.parent = Root /\ m.size = 0 /\ m.ptr = NoPtr
      /\ FreeInode \in Inode /\ ~FreeInode.used /\ FreeInode.size = 0 /\ FreeInode.ptr = NoPtr
      /\ FreeInode.type = "free"
  <2>1. Root \in Ino /\ "dir" \in {"free", "file", "dir"}
    BY Geometry
  <2> HIDE DEF m
  <2> QED BY <2>1, FreshInode DEF m
<1>2. v.inodes = [i \in Ino |-> IF i = Root THEN m ELSE FreeInode]
  <2>1. m = [FreeInode EXCEPT !.used = TRUE, !.type = "dir", !.parent = Root]
    BY DEF Fresh
  <2> HIDE DEF m
  <2> QED BY <2>1, VolumeHas, Zenon DEF Init
<1> HIDE DEF m
<1>3. v.inodes \in [Ino -> Inode] /\ v.inodes[Root] = m /\ \A j \in Ino : j # Root => v.inodes[j] = FreeInode
  BY <1>1, <1>2, Geometry
<1>4. \A j \in Ino : v.entries[j] = <<>> /\ Len(v.entries[j]) = 0
  BY VolumeHas DEF Init
<1>5. v.tables = [b \in Block |-> NoTable] /\ v.used = [b \in Block |-> FALSE]
  BY VolumeHas DEF Init
<1>6. v \in Volumes
  <2>1. v.entries \in [Ino -> Seq(Entry)] /\ v.cursor \in Block
    BY VolumeHas, Geometry DEF Init, Block
  <2>2. NoTable \in [0 .. PerTable - 1 -> 0 .. Blocks]
    BY NoPointers
  <2>3. inodes \in [Ino -> Inode] /\ entries \in [Ino -> Seq(Entry)] /\ alloc_cursor \in Block
        /\ tables \in [Block -> [0 .. PerTable - 1 -> 0 .. Blocks]] /\ block_used \in [Block -> BOOLEAN]
    BY <1>3, <1>5, <2>1, <2>2, VolumeHas
  <2> QED BY <2>3 DEF Volumes, Volume
<1>7. \A j \in Ino : v.inodes[j].ptr = NoPtr
  BY <1>1, <1>3
<1> HIDE DEF v
<1>8. \A j \in Ino, r \in Routes : Follow(v, j, r) = 0
  BY <1>6, <1>7, NoRoute
<1>9. Owned(v)
  BY <1>5, <1>7, <1>8 DEF Owned
<1>10. \A a, k : ~At(v, a, k)
  BY <1>4 DEF At
<1>11. Dir(v, Root) /\ v.inodes[Root].parent = Root /\ \A j \in Ino : j # Root => ~v.inodes[j].used
  BY <1>1, <1>3 DEF Dir
<1>12. Sized(v)
  <2>1. \A j \in Ino : v.inodes[j].size = 0
    BY <1>1, <1>3
  <2> QED BY <2>1, <1>4 DEF Sized
<1>13. Described(v)
  BY <1>10, <1>11 DEF Described
<1> QED BY <1>6, <1>9, <1>12, <1>13 DEF Good, v

-----------------------------------------------------------------------------
(***************************************************************************)
(* Nothing is cut off from the root.                                       *)
(***************************************************************************)
Closed(v, S) == \A d, k : At(v, d, k) /\ d \in S => v.entries[d][k].ino \in S
Reach(v) ==
  \A S \in SUBSET Ino : Root \in S /\ Closed(v, S) => \A j \in Ino : v.inodes[j].used => j \in S

(* A step that keeps the names cuts nothing off.                           *)
LEMMA KeepReach ==
  ASSUME NEW v, Reach(v), NEW w, KeepStep(v, w)
  PROVE  Reach(w)
<1>1. w.entries = v.entries /\ \A j \in Ino : w.inodes[j].used = v.inodes[j].used
  BY DEF KeepStep, Kept
<1>2. \A S : Closed(w, S) => Closed(v, S)
  BY <1>1 DEF Closed, At
<1> QED BY <1>1, <1>2 DEF Reach

(* A new inode is reached through its directory.                           *)
LEMMA MakeReach ==
  ASSUME NEW v, Good(v), Reach(v), NEW w, MakeStep(v, w)
  PROVE  Reach(w)
<1>1. PICK d \in Ino, n \in Name, i \in Ino \ {Root}, type \in {"file", "dir"} :
        Dir(v, d) /\ ~v.inodes[i].used /\ Makes(v, w, d, n, i, type)
  BY DEF MakeStep
<1>2. Others(v, w, i) /\ \E k : LinkedOnce(w, i, d, k)
  BY <1>1 DEF Makes
<1>3. \A a, l : At(v, a, l) => v.entries[a][l].ino # i
  BY <1>1 DEF Good, Described
<1> SUFFICES ASSUME NEW S \in SUBSET Ino, Root \in S, Closed(w, S), NEW j \in Ino, w.inodes[j].used
             PROVE  j \in S
  BY DEF Reach
<1>4. Closed(v, S)
  BY <1>2, <1>3 DEF Closed, Others
<1>5. d \in S
  BY <1>1, <1>4 DEF Reach, Dir
<1>6. i \in S
  BY <1>2, <1>5 DEF Closed, LinkedOnce
<1>7. j # i => j \in S
  BY <1>2, <1>4 DEF Others, Reach
<1> QED BY <1>6, <1>7

(* An inode without entries leads nowhere.                                 *)
LEMMA EraseReach ==
  ASSUME NEW v, Good(v), Reach(v), NEW w, EraseStep(v, w)
  PROVE  Reach(w)
<1>1. PICK i \in Ino \ {Root} : (\A l : ~At(v, i, l)) /\ Others(v, w, i) /\ Unlinked(w, i)
  BY DEF EraseStep, Erases
<1> SUFFICES ASSUME NEW S \in SUBSET Ino, Root \in S, Closed(w, S), NEW j \in Ino, w.inodes[j].used
             PROVE  j \in S
  BY DEF Reach
<1>2. Closed(v, S \cup {i})
  BY <1>1 DEF Closed, Others
<1>3. j # i
  BY <1>1 DEF Unlinked
<1>4. v.inodes[j].used
  BY <1>1, <1>3 DEF Others
<1>5. j \in S \cup {i}
  BY <1>2, <1>4 DEF Reach
<1> QED BY <1>3, <1>5

(* The new directory is reached without passing through what moves.        *)
LEMMA MoveReach ==
  ASSUME NEW v, Good(v), Reach(v), NEW w, MoveStep(v, w), ~IntoItself
  PROVE  Reach(w)
<1>1. PICK i \in Ino \ {Root}, e \in Ino, m \in Name :
        Dir(v, e) /\ Apart(v, i, e) /\ v.inodes[i].used /\ Moves(v, w, i, e, m)
  BY DEF MoveStep
<1>2. Others(v, w, i) /\ \E k : LinkedOnce(w, i, e, k)
  BY <1>1 DEF Moves
<1>3. PICK B \in SUBSET Ino : i \in B /\ e \notin B /\ \A d, k : At(v, d, k) /\ d \in B => v.entries[d][k].ino \in B
  BY <1>1 DEF Apart
<1> SUFFICES ASSUME NEW S \in SUBSET Ino, Root \in S, Closed(w, S), NEW j \in Ino, w.inodes[j].used
             PROVE  j \in S
  BY DEF Reach
<1>4. Closed(v, S \cup B)
  BY <1>2, <1>3 DEF Closed, Others
<1>5. e \in S \cup B
  BY <1>1, <1>4 DEF Reach, Dir
<1>6. i \in S
  BY <1>2, <1>3, <1>5 DEF Closed, LinkedOnce
<1>7. Closed(v, S)
  BY <1>2, <1>6 DEF Closed, Others
<1>8. j # i => j \in S
  BY <1>2, <1>7 DEF Others, Reach
<1> QED BY <1>6, <1>8

LEMMA InitReach ==
  ASSUME Init
  PROVE  Reach(Volume)
  BY DEF Init, Reach, Volume, FreeInode

-----------------------------------------------------------------------------
(***************************************************************************)
(* The invariants.                                                         *)
(***************************************************************************)
IInv == Good(Volume)
RInv == Good(Volume) /\ (IntoItself \/ Reach(Volume))

LEMMA Stutter ==
  ASSUME UNCHANGED vars
  PROVE  Volume' = Volume
  BY DEF vars, Volume

(* The invariant is inductive.                                             *)
LEMMA NextIInv ==
  ASSUME IInv, [Next]_vars
  PROVE  IInv'
<1>1. CASE Next
  <2>1. Step(Volume, Volume')
    BY <1>1, NextIsStep DEF IInv
  <2>2. Good(Volume')
    BY <2>1, StepGood DEF IInv
  <2> QED BY <2>2 DEF IInv
<1>2. CASE UNCHANGED vars
  <2>1. Volume' = Volume
    BY <1>2, Stutter
  <2>2. Good(Volume')
    BY <2>1 DEF IInv
  <2> QED BY <2>2 DEF IInv
<1> QED BY <1>1, <1>2

(* ... and so it is together with reachability.                            *)
LEMMA NextRInv ==
  ASSUME RInv, [Next]_vars
  PROVE  RInv'
<1>1. CASE Next
  <2>1. Step(Volume, Volume')
    BY <1>1, NextIsStep DEF RInv
  <2>2. Good(Volume')
    BY <2>1, StepGood DEF RInv
  <2>3. IntoItself \/ Reach(Volume')
    BY <2>1, KeepReach, MakeReach, EraseReach, MoveReach DEF RInv, Step
  <2> QED BY <2>2, <2>3 DEF RInv
<1>2. CASE UNCHANGED vars
  <2>1. Volume' = Volume
    BY <1>2, Stutter
  <2>2. Good(Volume') /\ (IntoItself \/ Reach(Volume'))
    BY <2>1 DEF RInv
  <2> QED BY <2>2 DEF RInv
<1> QED BY <1>1, <1>2

(* The invariant implies BlocksExact.                                      *)
LEMMA IsBlocksExact ==
  ASSUME IInv
  PROVE  BlocksExact
<1>1. Volume \in Volumes /\ Owned(Volume) /\ Described(Volume)
  BY DEF IInv, Good
<1>2. TypeOK
  <2>1. /\ inodes \in [Ino -> Inode] /\ tables \in [Block -> [0 .. PerTable - 1 -> 0 .. Blocks]]
        /\ block_used \in [Block -> BOOLEAN] /\ alloc_cursor \in Block
    BY <1>1, VolumeFields, VolumeHas
  <2>2. inodes[Root].used /\ inodes[Root].type = "dir" /\ inodes[Root].parent = Root
    BY <1>1, VolumeHas DEF Described, Dir
  <2> QED BY <2>1, <2>2 DEF TypeOK, Inode
<1>3. ASSUME NEW b \in Block
      PROVE  Cardinality(References(b)) = IF block_used[b] THEN 1 ELSE 0
  <2>0. b # 0
    BY Geometry
  <2>1. CASE block_used[b]
    <3>1. PICK i \in Ino, r \in Routes : Follow(Volume, i, r) = b
      BY <1>1, <2>1, VolumeHas DEF Owned
    <3>2. \A j \in Ino, s \in Routes : Follow(Volume, j, s) = b => j = i /\ s = r
      BY <1>1, <2>0, <3>1 DEF Owned
    <3>3. References(b) = {<<i, r>>}
      <4>1. ASSUME NEW x \in Ino \X Routes, Follow(Volume, x[1], x[2]) = b PROVE x = <<i, r>>
        <5>1. x[1] \in Ino /\ x[2] \in Routes /\ x = <<x[1], x[2]>>
          OBVIOUS
        <5> QED BY <3>2, <4>1, <5>1
      <4>2. <<i, r>> \in References(b)
        BY <3>1 DEF References
      <4> QED BY <4>1, <4>2 DEF References
    <3> QED BY <2>1, <3>3, FS_Singleton
  <2>2. CASE ~block_used[b]
    <3>1. References(b) = {}
      <4>1. ASSUME NEW x \in Ino \X Routes, Follow(Volume, x[1], x[2]) = b PROVE FALSE
        <5>1. x[1] \in Ino /\ x[2] \in Routes
          OBVIOUS
        <5> QED BY <1>1, <2>0, <2>2, <4>1, <5>1, VolumeHas DEF Owned
      <4> QED BY <4>1 DEF References
    <3> QED BY <2>2, <3>1, FS_EmptySet
  <2> QED BY <2>1, <2>2
<1> QED BY <1>2, <1>3 DEF BlocksExact

(* The links are the places linked to an inode.                            *)
LEMMA LinksAre ==
  ASSUME IInv
  PROVE  /\ \A d, k : At(Volume, d, k) => <<d, k>> \in Links
         /\ \A x \in Links : At(Volume, x[1], x[2]) /\ x = <<x[1], x[2]>> /\ Dir(Volume, x[1])
<1>1. Volume \in Volumes /\ Sized(Volume)
  BY DEF IInv, Good
<1>2. ASSUME NEW d, NEW k, At(Volume, d, k) PROVE <<d, k>> \in Links
  <2>1. d \in Ino /\ k \in 1 .. Len(entries[d]) /\ entries[d][k].ino # 0
    BY <1>2, VolumeHas DEF At
  <2>2. Dir(Volume, d) /\ k \in 1 .. Blocks * PerBlock
    BY <1>1, <2>1, VolumeHas, EntryPlace
  <2>3. d \in Used /\ k <= Len(entries[d])
    BY <2>1, <2>2, VolumeHas DEF Used, Dir
  <2> QED BY <2>1, <2>2, <2>3 DEF Links
<1>3. ASSUME NEW x \in Links
      PROVE  At(Volume, x[1], x[2]) /\ x = <<x[1], x[2]>> /\ Dir(Volume, x[1])
  <2>1. /\ x[1] \in Ino /\ x[2] \in 1 .. Blocks * PerBlock /\ x = <<x[1], x[2]>>
        /\ x[2] <= Len(entries[x[1]]) /\ entries[x[1]][x[2]].ino # 0
    BY DEF Links, Used
  <2>2. Len(entries[x[1]]) \in Nat
    BY <1>1, <2>1, EntryFields, VolumeHas
  <2>3. x[2] \in 1 .. Len(entries[x[1]])
    BY <2>1, <2>2
  <2>4. At(Volume, x[1], x[2])
    BY <2>1, <2>3, VolumeHas DEF At
  <2>5. Dir(Volume, x[1])
    BY <1>1, <2>1, <2>3, EntryPlace, VolumeHas
  <2> QED BY <2>1, <2>4, <2>5
<1> QED BY <1>2, <1>3

(* The invariant implies EntriesExact.                                     *)
LEMMA IsEntriesExact ==
  ASSUME IInv
  PROVE  EntriesExact
<1>1. Volume \in Volumes /\ Sized(Volume) /\ Described(Volume)
  BY DEF IInv, Good
<1>2. ASSUME NEW x \in Links, NEW y \in Links, x[1] = y[1],
             entries[x[1]][x[2]].name = entries[y[1]][y[2]].name
      PROVE  x = y
  <2>1. /\ At(Volume, x[1], x[2]) /\ x = <<x[1], x[2]>>
        /\ At(Volume, y[1], y[2]) /\ y = <<y[1], y[2]>>
    BY LinksAre
  <2>2. x[2] = y[2]
    <3>1. \A d, k, l : At(Volume, d, k) /\ At(Volume, d, l) /\ entries[d][k].name = entries[d][l].name => k = l
      BY <1>1, VolumeHas DEF Described
    <3> QED BY <1>2, <2>1, <3>1
  <2> QED BY <1>2, <2>1, <2>2
<1>3. ASSUME NEW x \in Links
      PROVE  LET e == entries[x[1]][x[2]] IN
             /\ inodes[x[1]].type = "dir"
             /\ e.ino \in Used /\ e.type = inodes[e.ino].type /\ inodes[e.ino].parent = x[1]
  <2>1. At(Volume, x[1], x[2]) /\ Dir(Volume, x[1])
    BY LinksAre
  <2> QED BY <1>1, <2>1, VolumeHas DEF Described, Dir, Used
<1>4. ASSUME NEW i \in Used \ {Root}
      PROVE  Cardinality({x \in Links : entries[x[1]][x[2]].ino = i}) = 1
  <2> DEFINE T == {x \in Links : entries[x[1]][x[2]].ino = i}
  <2>1. PICK d, k : At(Volume, d, k) /\ entries[d][k].ino = i
    BY <1>1, VolumeHas DEF Described, Used
  <2>2. <<d, k>> \in T
    BY <2>1, LinksAre
  <2>3. ASSUME NEW x \in T PROVE x = <<d, k>>
    <3>1. At(Volume, x[1], x[2]) /\ x = <<x[1], x[2]>> /\ entries[x[1]][x[2]].ino = i
      BY LinksAre
    <3>2. \A a, b, l, m : At(Volume, a, l) /\ At(Volume, b, m) /\ entries[a][l].ino = entries[b][m].ino
                          => a = b /\ l = m
      BY <1>1, VolumeHas DEF Described
    <3>3. x[1] = d /\ x[2] = k
      BY <2>1, <3>1, <3>2
    <3> QED BY <3>1, <3>3
  <2> HIDE DEF T
  <2>4. T = {<<d, k>>}
    BY <2>2, <2>3
  <2>5. Cardinality(T) = 1
    BY <2>4, FS_Singleton
  <2> QED BY <2>5 DEF T
<1>5. ASSUME NEW d \in Used, inodes[d].type = "dir"
      PROVE  /\ inodes[d].size = Len(entries[d])
             /\ \A k \in DOMAIN entries[d] : Follow(Volume, d, Route((k - 1) \div PerBlock)) # 0
  <2>1. d \in Ino /\ Dir(Volume, d)
    BY <1>5, VolumeHas DEF Dir, Used
  <2>2. DOMAIN entries[d] = 1 .. Len(entries[d])
    BY <1>1, <2>1, EntryFields, VolumeHas
  <2> QED BY <1>1, <2>1, <2>2, VolumeHas DEF Sized
<1> QED BY <1>2, <1>3, <1>4, <1>5 DEF EntriesExact

(* Reach is Reachable, over sets of inodes instead of sets of used ones.   *)
LEMMA IsReachable ==
  ASSUME RInv, ~IntoItself
  PROVE  Reachable
<1>1. Reach(Volume) /\ IInv
  BY DEF RInv, IInv
<1> SUFFICES ASSUME NEW S \in SUBSET Used,
                    Root \in S, \A x \in Links : x[1] \in S => entries[x[1]][x[2]].ino \in S
             PROVE  S = Used
  BY DEF Reachable
<1>2. Closed(Volume, S)
  <2> SUFFICES ASSUME NEW d, NEW k, At(Volume, d, k), d \in S PROVE Volume.entries[d][k].ino \in S
    BY DEF Closed
  <2>1. <<d, k>> \in Links
    BY <1>1, LinksAre
  <2>2. entries[d][k].ino \in S
    BY <2>1
  <2> QED BY <2>2, VolumeHas
<1>3. \A j \in Ino : inodes[j].used => j \in S
  BY <1>1, <1>2, VolumeHas DEF Reach, Used
<1> QED BY <1>3 DEF Used

(* In every state the volume is good: every block in use is referred to    *)
(* from one place, only directories have entries, which fill their size,   *)
(* and every entry describes its inode.                                    *)
THEOREM Inductive == Spec => []IInv
<1>1. Init => IInv
  BY InitGood DEF IInv
<1>2. IInv /\ [Next]_vars => IInv'
  BY NextIInv
<1> QED BY <1>1, <1>2, PTL DEF Spec

(* "Duplicate, out-of-range, leaked, or unmarked data blocks"              *)
(* (docs/minifs.md) never exist: block_used marks exactly the blocks that  *)
(* an inode or a table refers to, each from one place, through partial     *)
(* failures of ensure_block and free_inode_blocks included.                *)
THEOREM BlocksAreExact == Spec => []BlocksExact
<1>1. IInv => BlocksExact
  BY IsBlocksExact
<1> QED BY <1>1, Inductive, PTL

(* Names, types and parent links agree with the inodes in every state, and *)
(* each inode but the root has one entry, whichever of create, mkdir,      *)
(* unlink, rmdir and rename run, and wherever they run out of blocks.      *)
THEOREM EntriesAreExact == Spec => []EntriesExact
<1>1. IInv => EntriesExact
  BY IsEntriesExact
<1> QED BY <1>1, Inductive, PTL

(* Every used inode stays reachable from the root, as long as no directory *)
(* is renamed to a path below itself, which minifs_rename does not         *)
(* prevent.                                                                *)
THEOREM AllReachable ==
  ASSUME ~IntoItself
  PROVE  Spec => []Reachable
<1>1. Init => RInv
  BY InitGood, InitReach DEF RInv
<1>2. RInv /\ [Next]_vars => RInv'
  BY NextRInv
<1>3. RInv => Reachable
  BY IsReachable
<1> QED BY <1>1, <1>2, <1>3, PTL DEF Spec

-----------------------------------------------------------------------------
(***************************************************************************)
(* The tree of names.                                                      *)
(***************************************************************************)
KindOf(v) == [i \in Ino |-> IF v.inodes[i].used THEN v.inodes[i].type ELSE "free"]
NameAt(v, d, k) == [dir |-> d, name |-> v.entries[d][k].name, node |-> v.entries[d][k].ino]
NamesOf(v) == {NameAt(v, x[1], x[2]) : x \in {y \in Ino \X (1 .. Blocks * PerBlock) : At(v, y[1], y[2])}}
SizeOf(v) == [i \in Ino |-> FileSize(v, i)]

(* The names are the links.                                                *)
LEMMA NamesAre ==
  ASSUME NEW v, Good(v)
  PROVE  /\ \A d, k : At(v, d, k) => NameAt(v, d, k) \in NamesOf(v)
         /\ \A f \in NamesOf(v) : \E d, k : At(v, d, k) /\ f = NameAt(v, d, k)
<1>1. ASSUME NEW d, NEW k, At(v, d, k) PROVE <<d, k>> \in Ino \X (1 .. Blocks * PerBlock)
  BY <1>1, EntryPlace DEF At, Good
<1>2. ASSUME NEW d, NEW k, At(v, d, k) PROVE NameAt(v, d, k) \in NamesOf(v)
  <2> DEFINE x == <<d, k>>
  <2>1. x \in {y \in Ino \X (1 .. Blocks * PerBlock) : At(v, y[1], y[2])}
    BY <1>1, <1>2
  <2>2. NameAt(v, d, k) = NameAt(v, x[1], x[2])
    OBVIOUS
  <2> HIDE DEF x
  <2> QED BY <2>1, <2>2 DEF NamesOf
<1> QED BY <1>2 DEF NamesOf

LEMMA NameParts ==
  ASSUME NEW v, NEW d, NEW k
  PROVE  /\ NameAt(v, d, k).dir = d /\ NameAt(v, d, k).name = v.entries[d][k].name
         /\ NameAt(v, d, k).node = v.entries[d][k].ino
  BY DEF NameAt

(* The one name of a used inode.                                           *)
LEMMA NameOf ==
  ASSUME NEW v, Good(v), NEW i \in Ino \ {Root}, v.inodes[i].used
  PROVE  \E e \in NamesOf(v) : e.node = i /\ \A f \in NamesOf(v) : f.node = i => f = e
<1>1. Described(v)
  BY DEF Good
<1>2. PICK d, k : At(v, d, k) /\ v.entries[d][k].ino = i
  BY <1>1 DEF Described
<1>3. ASSUME NEW f \in NamesOf(v), f.node = i PROVE f = NameAt(v, d, k)
  <2>1. PICK a, l : At(v, a, l) /\ f = NameAt(v, a, l)
    BY NamesAre
  <2>2. v.entries[a][l].ino = i
    BY <1>3, <2>1, NameParts
  <2>3. a = d /\ l = k
    BY <1>1, <1>2, <2>1, <2>2 DEF Described
  <2> QED BY <2>1, <2>3
<1>4. NameAt(v, d, k) \in NamesOf(v) /\ NameAt(v, d, k).node = i
  BY <1>2, NamesAre, NameParts
<1> QED BY <1>3, <1>4

(* Links to other inodes keep their names.                                 *)
LEMMA OtherNames ==
  ASSUME NEW v, Good(v), NEW w, Good(w), NEW i, Others(v, w, i), NEW f, f.node # i
  PROVE  f \in NamesOf(v) <=> f \in NamesOf(w)
<1>1. ASSUME f \in NamesOf(v) PROVE f \in NamesOf(w)
  <2>1. PICK d, k : At(v, d, k) /\ f = NameAt(v, d, k)
    BY <1>1, NamesAre
  <2>2. At(w, d, k) /\ w.entries[d][k] = v.entries[d][k]
    BY <2>1, NameParts DEF Others
  <2>3. f = NameAt(w, d, k)
    BY <2>1, <2>2 DEF NameAt
  <2> QED BY <2>2, <2>3, NamesAre
<1>2. ASSUME f \in NamesOf(w) PROVE f \in NamesOf(v)
  <2>1. PICK d, k : At(w, d, k) /\ f = NameAt(w, d, k)
    BY <1>2, NamesAre
  <2>2. At(v, d, k) /\ w.entries[d][k] = v.entries[d][k]
    BY <2>1, NameParts DEF Others
  <2>3. f = NameAt(v, d, k)
    BY <2>1, <2>2 DEF NameAt
  <2> QED BY <2>2, <2>3, NamesAre
<1> QED BY <1>1, <1>2

(* A name that dir_find does not find is not in use.                       *)
LEMMA NotNamed ==
  ASSUME NEW v, Good(v), NEW d \in Ino, NEW n, DirFind(v, d, n) = 0
  PROVE  ~ \E f \in NamesOf(v) : f.dir = d /\ f.name = n
<1>1. \A k : At(v, d, k) => v.entries[d][k].name # n
  BY Found DEF Good
<1> SUFFICES ASSUME NEW f \in NamesOf(v), f.dir = d, f.name = n PROVE FALSE
  OBVIOUS
<1>2. PICK a, k : At(v, a, k) /\ f = NameAt(v, a, k)
  BY NamesAre
<1> QED BY <1>1, <1>2, NameParts

(* The one name of an inode that has one link.                             *)
LEMMA NameOfLink ==
  ASSUME NEW w, Good(w), NEW i, NEW d, NEW k, LinkedOnce(w, i, d, k), NEW f, f.node = i
  PROVE  f \in NamesOf(w) <=> f = [dir |-> d, name |-> w.entries[d][k].name, node |-> i]
<1>1. NameAt(w, d, k) = [dir |-> d, name |-> w.entries[d][k].name, node |-> i]
  BY DEF NameAt, LinkedOnce
<1>2. NameAt(w, d, k) \in NamesOf(w)
  BY NamesAre DEF LinkedOnce
<1>3. ASSUME f \in NamesOf(w) PROVE f = NameAt(w, d, k)
  <2>1. PICK a, l : At(w, a, l) /\ f = NameAt(w, a, l)
    BY <1>3, NamesAre
  <2>2. a = d /\ l = k
    BY <2>1, NameParts DEF LinkedOnce
  <2> QED BY <2>1, <2>2
<1> QED BY <1>1, <1>2, <1>3

(* The refinement mapping, of the volume.                                  *)
LEMMA TreeIs ==
  IInv => TreeKind = KindOf(Volume) /\ TreeNames = NamesOf(Volume) /\ TreeSize = SizeOf(Volume)
<1> SUFFICES ASSUME IInv
             PROVE  TreeKind = KindOf(Volume) /\ TreeNames = NamesOf(Volume) /\ TreeSize = SizeOf(Volume)
  OBVIOUS
<1>1. TreeKind = KindOf(Volume)
  BY VolumeHas DEF TreeKind, KindOf
<1>2. TreeSize = SizeOf(Volume)
  BY VolumeHas DEF TreeSize, SizeOf, FileSize
<1>3. TreeNames = NamesOf(Volume)
  <2>1. \A d, k : NameAt(Volume, d, k) = [dir |-> d, name |-> entries[d][k].name, node |-> entries[d][k].ino]
    BY VolumeHas DEF NameAt
  <2>2. TreeNames = {NameAt(Volume, x[1], x[2]) : x \in Links}
    BY <2>1 DEF TreeNames
  <2>3. ASSUME NEW f \in TreeNames PROVE f \in NamesOf(Volume)
    <3>1. PICK x \in Links : f = NameAt(Volume, x[1], x[2])
      BY <2>2
    <3>2. At(Volume, x[1], x[2])
      BY LinksAre
    <3> QED BY <3>1, <3>2, NamesAre DEF IInv
  <2>4. ASSUME NEW f \in NamesOf(Volume) PROVE f \in TreeNames
    <3>1. PICK d, k : At(Volume, d, k) /\ f = NameAt(Volume, d, k)
      BY NamesAre DEF IInv
    <3> DEFINE x == <<d, k>>
    <3>2. x \in Links /\ f = NameAt(Volume, x[1], x[2])
      BY <3>1, LinksAre
    <3> HIDE DEF x
    <3> QED BY <2>2, <3>2
  <2> QED BY <2>3, <2>4
<1> QED BY <1>1, <1>2, <1>3

(* The steps of FileTree, between what two volumes stand for.              *)
TreeSame(v, w) == KindOf(w) = KindOf(v) /\ NamesOf(w) = NamesOf(v) /\ SizeOf(w) = SizeOf(v)
TreeMakes(v, w, d, n, i, k) ==
  /\ KindOf(v)[d] = "dir" /\ ~ \E f \in NamesOf(v) : f.dir = d /\ f.name = n
  /\ KindOf(v)[i] = "free"
  /\ KindOf(w) = [KindOf(v) EXCEPT ![i] = k]
  /\ NamesOf(w) = NamesOf(v) \cup {[dir |-> d, name |-> n, node |-> i]}
  /\ SizeOf(w) = SizeOf(v)
TreeMake(v, w) ==
  \E d \in Ino, n \in Name, i \in Ino, k \in {"file", "dir"} : TreeMakes(v, w, d, n, i, k)
TreeErase(v, w) ==
  \E e \in NamesOf(v) :
    /\ \A f \in NamesOf(v) : f.dir # e.node
    /\ KindOf(w) = [KindOf(v) EXCEPT ![e.node] = "free"]
    /\ NamesOf(w) = NamesOf(v) \ {e}
    /\ SizeOf(w) = [SizeOf(v) EXCEPT ![e.node] = 0]
TreeMove(v, w) ==
  \E d \in Ino, n \in Name, e \in NamesOf(v) :
    /\ KindOf(v)[d] = "dir" /\ ~ \E f \in NamesOf(v) : f.dir = d /\ f.name = n
    /\ ~ \A S \in SUBSET Ino :
           e.node \in S /\ (\A f \in NamesOf(v) : f.dir \in S => f.node \in S) => d \in S
    /\ NamesOf(w) = (NamesOf(v) \ {e}) \cup {[dir |-> d, name |-> n, node |-> e.node]}
    /\ KindOf(w) = KindOf(v) /\ SizeOf(w) = SizeOf(v)
TreeResize(v, w) ==
  \E i \in Ino :
    /\ KindOf(v)[i] = "file"
    /\ SizeOf(w) \in [Ino -> Nat] /\ \A j \in Ino \ {i} : SizeOf(w)[j] = SizeOf(v)[j]
    /\ KindOf(w) = KindOf(v) /\ NamesOf(w) = NamesOf(v)
TreeStep(v, w) ==
  TreeSame(v, w) \/ TreeMake(v, w) \/ TreeErase(v, w) \/ TreeMove(v, w) \/ TreeResize(v, w)

LEMMA KindIs ==
  ASSUME NEW v
  PROVE  \A i \in Ino : /\ KindOf(v)[i] = IF v.inodes[i].used THEN v.inodes[i].type ELSE "free"
                        /\ SizeOf(v)[i] = FileSize(v, i)
  BY DEF KindOf, SizeOf

LEMMA SameMaps ==
  ASSUME NEW v, NEW w
  PROVE  /\ (\A i \in Ino : KindOf(w)[i] = KindOf(v)[i]) => KindOf(w) = KindOf(v)
         /\ (\A i \in Ino : SizeOf(w)[i] = SizeOf(v)[i]) => SizeOf(w) = SizeOf(v)
  BY DEF KindOf, SizeOf

(* A step that keeps the names is one of Resize, or none.                  *)
LEMMA KeepTree ==
  ASSUME NEW v, Good(v), NEW w, KeepStep(v, w)
  PROVE  TreeStep(v, w)
<1>1. /\ w \in Volumes /\ w.entries = v.entries
      /\ \A j \in Ino : /\ w.inodes[j].used = v.inodes[j].used
                        /\ v.inodes[j].used => w.inodes[j].type = v.inodes[j].type
  BY DEF KeepStep, Kept
<1>2. KindOf(w) = KindOf(v)
  BY <1>1, KindIs, SameMaps
<1>3. NamesOf(w) = NamesOf(v)
  BY <1>1 DEF NamesOf, NameAt, At
<1>4. PICK i \in Ino : /\ \A j \in Ino : j # i => FileSize(w, j) = FileSize(v, j)
                       /\ FileSize(w, i) = FileSize(v, i) \/ (v.inodes[i].used /\ v.inodes[i].type = "file")
  BY DEF KeepStep, Sizes
<1>5. CASE FileSize(w, i) = FileSize(v, i)
  <2>1. SizeOf(w) = SizeOf(v)
    BY <1>4, <1>5, KindIs, SameMaps
  <2> QED BY <1>2, <1>3, <2>1 DEF TreeSame, TreeStep
<1>6. CASE v.inodes[i].used /\ v.inodes[i].type = "file"
  <2>1. KindOf(v)[i] = "file"
    BY <1>6, KindIs
  <2>2. \A j \in Ino : FileSize(w, j) \in Nat
    <3> SUFFICES ASSUME NEW j \in Ino PROVE FileSize(w, j) \in Nat
      OBVIOUS
    <3>1. w.inodes[j] \in Inode
      BY <1>1, VolumeFields
    <3>2. w.inodes[j].size \in Nat
      BY <3>1, InodeFields
    <3> QED BY <3>2 DEF FileSize
  <2>3. SizeOf(w) \in [Ino -> Nat]
    BY <2>2 DEF SizeOf
  <2>4. \A j \in Ino \ {i} : SizeOf(w)[j] = SizeOf(v)[j]
    BY <1>4, KindIs
  <2> QED BY <1>2, <1>3, <2>1, <2>3, <2>4 DEF TreeResize, TreeStep
<1> QED BY <1>4, <1>5, <1>6

LEMMA OthersKind ==
  ASSUME NEW v, NEW w, NEW i, Others(v, w, i), NEW j \in Ino, j # i
  PROVE  KindOf(w)[j] = KindOf(v)[j] /\ SizeOf(w)[j] = SizeOf(v)[j]
<1>1. /\ w.inodes[j].used = v.inodes[j].used /\ w.inodes[j].type = v.inodes[j].type
      /\ w.inodes[j].type # "dir" => w.inodes[j].size = v.inodes[j].size
  BY DEF Others
<1>2. FileSize(w, j) = FileSize(v, j)
  BY <1>1 DEF FileSize
<1> QED BY <1>1, <1>2, KindIs

(* Creating is Make.                                                       *)
LEMMA MakeTree ==
  ASSUME NEW v, Good(v), NEW w, MakeStep(v, w)
  PROVE  TreeStep(v, w)
<1>1. PICK d \in Ino, n \in Name, i \in Ino \ {Root}, type \in {"file", "dir"} :
        Dir(v, d) /\ DirFind(v, d, n) = 0 /\ ~v.inodes[i].used /\ Makes(v, w, d, n, i, type)
  BY DEF MakeStep
<1>2. PICK k : LinkedOnce(w, i, d, k) /\ w.entries[d][k].name = n
  BY <1>1 DEF Makes
<1>3. Good(w) /\ Others(v, w, i) /\ w.inodes[i].used /\ w.inodes[i].type = type /\ w.inodes[i].size = 0
  BY <1>1, <1>2 DEF Makes, LinkedOnce
<1>4. KindOf(v)[d] = "dir" /\ KindOf(v)[i] = "free" /\ KindOf(w)[i] = type
  BY <1>1, <1>3, KindIs DEF Dir
<1>5. ~ \E f \in NamesOf(v) : f.dir = d /\ f.name = n
  BY <1>1, NotNamed
<1>6. KindOf(w) = [KindOf(v) EXCEPT ![i] = type]
  <2>1. \A j \in Ino : j # i => KindOf(w)[j] = KindOf(v)[j]
    BY <1>3, OthersKind
  <2> QED BY <2>1, <1>4 DEF KindOf
<1>7. SizeOf(w) = SizeOf(v)
  <2>1. v.inodes[i].size = 0
    BY <1>1 DEF Good, Sized
  <2>2. FileSize(w, i) = FileSize(v, i)
    BY <2>1, <1>3 DEF FileSize
  <2> QED BY <2>2, <1>3, OthersKind, KindIs, SameMaps
<1> DEFINE new == [dir |-> d, name |-> n, node |-> i]
<1>8. NamesOf(w) = NamesOf(v) \cup {new}
  <2>1. \A f : f.node # i => (f \in NamesOf(v) <=> f \in NamesOf(w))
    BY <1>3, OtherNames
  <2>2. \A f : f.node = i => (f \in NamesOf(w) <=> f = new)
    BY <1>2, <1>3, NameOfLink
  <2>3. ASSUME NEW f \in NamesOf(v) PROVE f.node # i
    <3>1. PICK a, l : At(v, a, l) /\ f = NameAt(v, a, l)
      BY NamesAre
    <3>2. v.entries[a][l].ino # i
      BY <1>1, <3>1 DEF Good, Described
    <3> QED BY <3>1, <3>2, NameParts
  <2>4. new.node = i
    OBVIOUS
  <2> HIDE DEF new
  <2> QED BY <2>1, <2>2, <2>3, <2>4
<1>9. TreeMakes(v, w, d, n, i, type)
  BY <1>4, <1>5, <1>6, <1>7, <1>8 DEF TreeMakes
<1>10. TreeMake(v, w)
  BY <1>9 DEF TreeMake
<1> QED BY <1>10 DEF TreeStep

(* Erasing is Erase.                                                       *)
LEMMA EraseTree ==
  ASSUME NEW v, Good(v), NEW w, EraseStep(v, w)
  PROVE  TreeStep(v, w)
<1>1. PICK i \in Ino \ {Root} : /\ v.inodes[i].used /\ (\A l : ~At(v, i, l))
                                /\ Good(w) /\ Others(v, w, i) /\ Unlinked(w, i) /\ w.inodes[i].type = "free"
  BY DEF EraseStep, Erases
<1>2. PICK e \in NamesOf(v) : e.node = i /\ \A f \in NamesOf(v) : f.node = i => f = e
  BY <1>1, NameOf
<1>3. ASSUME NEW f \in NamesOf(v) PROVE f.dir # i
  <2>1. PICK a, l : At(v, a, l) /\ f = NameAt(v, a, l)
    BY NamesAre
  <2> QED BY <1>1, <2>1, NameParts
<1>4. KindOf(w)[i] = "free" /\ SizeOf(w)[i] = 0
  BY <1>1, KindIs DEF Unlinked, FileSize
<1>5. KindOf(w) = [KindOf(v) EXCEPT ![i] = "free"]
  <2>1. \A j \in Ino : j # i => KindOf(w)[j] = KindOf(v)[j]
    BY <1>1, OthersKind
  <2> QED BY <2>1, <1>4 DEF KindOf
<1>6. SizeOf(w) = [SizeOf(v) EXCEPT ![i] = 0]
  <2>1. \A j \in Ino : j # i => SizeOf(w)[j] = SizeOf(v)[j]
    BY <1>1, OthersKind
  <2> QED BY <2>1, <1>4 DEF SizeOf
<1>7. NamesOf(w) = NamesOf(v) \ {e}
  <2>1. \A f : f.node # i => (f \in NamesOf(v) <=> f \in NamesOf(w))
    BY <1>1, OtherNames
  <2>2. ASSUME NEW f \in NamesOf(w) PROVE f.node # i
    <3>1. PICK a, l : At(w, a, l) /\ f = NameAt(w, a, l)
      BY <1>1, NamesAre
    <3> QED BY <1>1, <3>1, NameParts DEF Unlinked
  <2> QED BY <1>2, <2>1, <2>2
<1> QED BY <1>2, <1>3, <1>5, <1>6, <1>7 DEF TreeErase, TreeStep

(* Renaming is Move.                                                       *)
LEMMA MoveTree ==
  ASSUME NEW v, Good(v), NEW w, MoveStep(v, w), ~IntoItself
  PROVE  TreeStep(v, w)
<1>1. PICK i \in Ino \ {Root}, d \in Ino, n \in Name :
        /\ v.inodes[i].used /\ Dir(v, d) /\ DirFind(v, d, n) = 0
        /\ Apart(v, i, d) /\ Moves(v, w, i, d, n)
  BY DEF MoveStep
<1>2. PICK k : LinkedOnce(w, i, d, k) /\ w.entries[d][k].name = n
  BY <1>1 DEF Moves
<1>3. /\ Good(w) /\ Others(v, w, i) /\ w.inodes[i].used /\ w.inodes[i].type = v.inodes[i].type
      /\ w.inodes[i].type # "dir" => w.inodes[i].size = v.inodes[i].size
  BY <1>1, <1>2 DEF Moves, LinkedOnce
<1>4. PICK e \in NamesOf(v) : e.node = i /\ \A f \in NamesOf(v) : f.node = i => f = e
  BY <1>1, NameOf
<1>5. KindOf(v)[d] = "dir"
  BY <1>1, KindIs DEF Dir
<1>6. ~ \E f \in NamesOf(v) : f.dir = d /\ f.name = n
  BY <1>1, NotNamed
<1>7. \E S \in SUBSET Ino : i \in S /\ (\A f \in NamesOf(v) : f.dir \in S => f.node \in S) /\ d \notin S
  <2>1. PICK S \in SUBSET Ino :
          i \in S /\ d \notin S /\ \A a, l : At(v, a, l) /\ a \in S => v.entries[a][l].ino \in S
    BY <1>1 DEF Apart
  <2>2. ASSUME NEW f \in NamesOf(v), f.dir \in S PROVE f.node \in S
    <3>1. PICK a, l : At(v, a, l) /\ f = NameAt(v, a, l)
      BY NamesAre
    <3> QED BY <2>1, <2>2, <3>1, NameParts
  <2> QED BY <2>1, <2>2
<1>8. KindOf(w) = KindOf(v)
  <2>1. KindOf(w)[i] = KindOf(v)[i]
    BY <1>1, <1>3, KindIs
  <2> QED BY <2>1, <1>3, OthersKind, SameMaps
<1>9. SizeOf(w) = SizeOf(v)
  <2>1. FileSize(w, i) = FileSize(v, i)
    BY <1>3 DEF FileSize
  <2> QED BY <2>1, <1>3, OthersKind, KindIs, SameMaps
<1> DEFINE new == [dir |-> d, name |-> n, node |-> i]
<1>10. NamesOf(w) = (NamesOf(v) \ {e}) \cup {new}
  <2>1. \A f : f.node # i => (f \in NamesOf(v) <=> f \in NamesOf(w))
    BY <1>3, OtherNames
  <2>2. \A f : f.node = i => (f \in NamesOf(w) <=> f = new)
    BY <1>2, <1>3, NameOfLink
  <2>3. new.node = i
    OBVIOUS
  <2> HIDE DEF new
  <2> QED BY <2>1, <2>2, <2>3, <1>4
<1> QED BY <1>4, <1>5, <1>6, <1>7, <1>8, <1>9, <1>10 DEF TreeMove, TreeStep

LEMMA StepTree ==
  ASSUME NEW v, Good(v), NEW w, Step(v, w), ~IntoItself
  PROVE  TreeStep(v, w)
  BY KeepTree, MakeTree, EraseTree, MoveTree DEF Step

(* A formatted volume is the empty tree.                                   *)
LEMMA InitTree ==
  ASSUME Init
  PROVE  Abstract!Init
<1>1. inodes = [i \in Ino |-> IF i = Root THEN Fresh("dir", Root) ELSE FreeInode]
  BY Zenon DEF Init, Fresh
<1>2. /\ Fresh("dir", Root).used /\ Fresh("dir", Root).type = "dir" /\ Fresh("dir", Root).size = 0
      /\ ~FreeInode.used /\ FreeInode.type = "free" /\ FreeInode.size = 0
  BY FreshInode, Geometry
<1>3. TreeKind = [i \in Ino |-> IF i = Root THEN "dir" ELSE "free"]
  BY <1>1, <1>2 DEF TreeKind
<1>4. TreeSize = [i \in Ino |-> 0]
  BY <1>1, <1>2 DEF TreeSize
<1>5. Links = {}
  <2>1. \A d \in Ino : entries[d] = <<>> /\ Len(entries[d]) = 0
    BY DEF Init
  <2> SUFFICES ASSUME NEW x \in Links PROVE FALSE
    OBVIOUS
  <2>2. x[1] \in Ino /\ x[2] \in Nat /\ x[2] > 0 /\ x[2] <= Len(entries[x[1]])
    <3>1. x[1] \in Ino /\ x[2] \in 1 .. Blocks * PerBlock /\ x[2] <= Len(entries[x[1]])
      BY DEF Links, Used
    <3> QED BY <3>1, Geometry
  <2> QED BY <2>1, <2>2
<1>6. TreeNames = {}
  BY <1>5 DEF TreeNames
<1> QED BY <1>3, <1>4, <1>6 DEF Abstract!Init

(* A step of the program is a step of the tree, or none.                   *)
LEMMA NextTree ==
  ASSUME IInv, IInv', [Next]_vars, ~IntoItself
  PROVE  [Abstract!Next]_Abstract!vars
<1> DEFINE v == Volume
           w == Volume'
<1>1. TreeKind = KindOf(v) /\ TreeNames = NamesOf(v) /\ TreeSize = SizeOf(v)
  BY TreeIs
<1>2. TreeKind' = KindOf(w) /\ TreeNames' = NamesOf(w) /\ TreeSize' = SizeOf(w)
  <2>1. (TreeKind = KindOf(Volume) /\ TreeNames = NamesOf(Volume) /\ TreeSize = SizeOf(Volume))'
    BY TreeIs, PTL
  <2> QED BY <2>1
<1>3. CASE UNCHANGED vars
  <2>1. w = v
    BY <1>3, Stutter
  <2> QED BY <1>1, <1>2, <2>1 DEF Abstract!vars
<1>4. CASE Next
  <2>1. TreeStep(v, w)
    BY <1>4, NextIsStep, StepTree DEF IInv
  <2> HIDE DEF v, w
  <2>2. CASE TreeSame(v, w)
    BY <1>1, <1>2, <2>2 DEF TreeSame, Abstract!vars
  <2>3. CASE TreeMake(v, w)
    <3>1. PICK d \in Ino, n \in Name, i \in Ino, k \in {"file", "dir"} : TreeMakes(v, w, d, n, i, k)
      BY <2>3 DEF TreeMake
    <3>2. Abstract!Make(d, n, i, k)
      BY <1>1, <1>2, <3>1 DEF TreeMakes, Abstract!Make, Abstract!Named
    <3> QED BY <3>2 DEF Abstract!Next
  <2>4. CASE TreeErase(v, w)
    BY <1>1, <1>2, <2>4 DEF TreeErase, Abstract!Next, Abstract!Erase
  <2>5. CASE TreeMove(v, w)
    BY <1>1, <1>2, <2>5 DEF TreeMove, Abstract!Next, Abstract!Move, Abstract!Named, Abstract!Below
  <2>6. CASE TreeResize(v, w)
    BY <1>1, <1>2, <2>6 DEF TreeResize, Abstract!Next, Abstract!Resize
  <2> QED BY <2>1, <2>2, <2>3, <2>4, <2>5, <2>6 DEF TreeStep
<1> QED BY <1>3, <1>4

(* Under the same condition inodes, entries and blocks implement the tree  *)
(* of names: each call is one step of FileTree, or none.                   *)
THEOREM ImplementsTree ==
  ASSUME ~IntoItself
  PROVE  Spec => ImplementsFileTree
<1>1. Init => Abstract!Init
  BY InitTree
<1>2. IInv /\ IInv' /\ [Next]_vars => [Abstract!Next]_Abstract!vars
  BY NextTree
<1> QED BY <1>1, <1>2, Inductive, PTL DEF Spec, ImplementsFileTree, Abstract!Spec
=============================================================================
