--------------------------- MODULE QueriesProofs ---------------------------
(***************************************************************************)
(* Proofs about Queries, for a folder with any number of entries.          *)
(*                                                                         *)
(* Total and Exits follow the recursive calls of get_file_count().  The    *)
(* library's induction theorems cannot be used on them, so the induction   *)
(* is a least counterexample: a set of numbers that is not empty has a     *)
(* least member (Least).  What the calls return is first said without      *)
(* recursion, of the entries the walk reaches (Seen): SizeEquation and     *)
(* FailsEquation show that what is said obeys the equations of the         *)
(* recursion, TotalOfTree and ExitOfTree that nothing else does.           *)
(***************************************************************************)
EXTENDS Queries, FiniteSetTheorems, WellFoundedInduction, TLAPS

(* A set of numbers that is not empty has a least member.                   *)
LEMMA Least ==
  ASSUME NEW T \in SUBSET Nat, T # {}
  PROVE  \E m \in T : \A n \in T : m <= n
<1>1. PICK m \in T : \A n \in T : ~ (<<n, m>> \in OpToRel(<, Nat))
  BY NatLessThanWellFounded, WFMin
<1>2. \A n \in T : ~ (n < m)
  BY <1>1 DEF OpToRel
<1> QED BY <1>2

(* The sum in get_file_count(), of what the calls for S return.             *)
Sum(h, S) == MapThenSumSet(LAMBDA s : h[s], S)

(* A function that adds one member at a time is the sum, whatever the order *)
(* of the members: the loop over readdir() may be read as one sum.          *)
LEMMA SumOver ==
  ASSUME NEW S, IsFiniteSet(S), NEW h, NEW g,
         g[{}] = 0,
         \A T \in SUBSET S : \A x \in T : g[T] = h[x] + g[T \ {x}]
  PROVE  Sum(h, S) = g[S]
<1> DEFINE Body(i, s) == IF s = {} THEN 0 ELSE h[CHOOSE x \in s : TRUE] + i[s \ {CHOOSE x \in s : TRUE}]
           iter == CHOOSE i : i = [s \in SUBSET S |-> Body(i, s)]
<1>1. Sum(h, S) = iter[S]
  BY DEF Sum, MapThenSumSet, MapThenFoldSet
<1>2. iter = [s \in SUBSET S |-> Body(iter, s)]
  <2> DEFINE w == [s \in SUBSET S |-> g[s]]
  <2>1. ASSUME NEW s \in SUBSET S PROVE w[s] = Body(w, s)
    <3>1. CASE s = {}
      BY <3>1
    <3>2. CASE s # {}
      <4>1. PICK x : x = CHOOSE y \in s : TRUE
        OBVIOUS
      <4>2. x \in s
        BY <3>2, <4>1
      <4>3. g[s] = h[x] + g[s \ {x}] /\ s \ {x} \in SUBSET S
        BY <4>2
      <4> QED BY <3>2, <4>1, <4>3
    <3> QED BY <3>1, <3>2
  <2>2. w = [s \in SUBSET S |-> Body(w, s)]
    BY <2>1
  <2> HIDE DEF Body, w
  <2> QED BY <2>2
<1> HIDE DEF iter
<1>3. \A s \in SUBSET S : iter[s] = g[s]
  <2> SUFFICES ASSUME NEW s0 \in SUBSET S, iter[s0] # g[s0] PROVE FALSE
    OBVIOUS
  <2> DEFINE Bad == {s \in SUBSET S : iter[s] # g[s]}
             Sizes == {Cardinality(s) : s \in Bad}
  <2>1. \A s \in SUBSET S : IsFiniteSet(s) /\ Cardinality(s) \in Nat
    BY FS_Subset, FS_CardinalityType
  <2>2. Sizes \in SUBSET Nat /\ Sizes # {}
    BY <2>1
  <2>3. PICK n \in Sizes : \A m \in Sizes : n <= m
    BY <2>2, Least
  <2>4. PICK s \in Bad : Cardinality(s) = n
    OBVIOUS
  <2>5. s # {}
    BY <1>2, <2>4
  <2>6. PICK x : x = CHOOSE y \in s : TRUE
    OBVIOUS
  <2>7. x \in s
    BY <2>5, <2>6
  <2>8. s \ {x} \in SUBSET S /\ Cardinality(s \ {x}) < Cardinality(s)
    BY <2>1, <2>7, FS_RemoveElement
  <2>9. s \ {x} \notin Bad
    BY <2>1, <2>3, <2>4, <2>8
  <2>10. iter[s] = h[x] + iter[s \ {x}]
    BY <1>2, <2>5, <2>6
  <2> QED BY <2>4, <2>7, <2>8, <2>9, <2>10
<1> QED BY <1>1, <1>3

-----------------------------------------------------------------------------
(* What never changes about a folder: its entries form a tree, and only a   *)
(* folder can fail to open.                                                 *)
Tree ==
  /\ kind \in [Node -> Kinds] /\ parent \in [Node -> Node] /\ opens \in [Node -> BOOLEAN]
  /\ kind[0] = "dir" /\ \A n \in Node : kind[n] # "dir" => opens[n]
  /\ \A n \in Node \ {0} : parent[n] < n /\ kind[parent[n]] = "dir"

(* Seen(d): the entries get_file_count() comes by when called for d, the    *)
(* least set with d that holds what is in its opened folders.               *)
Children(d) == {n \in Node \ {0} : parent[n] = d}

Closed(S, d) == d \in S /\ \A n \in Node \ {0} : parent[n] \in S /\ opens[parent[n]] => n \in S

Seen(d) == {n \in Node : \A S \in SUBSET Node : Closed(S, d) => n \in S}

(* Seen(d) is closed: what is in an opened folder of it is in it.           *)
LEMMA SeenClosed ==
  ASSUME NEW d \in Node
  PROVE  Seen(d) \in SUBSET Node /\ Closed(Seen(d), d)
BY DEF Seen, Closed

(* It is the least such set.                                                *)
LEMMA SeenLeast ==
  ASSUME NEW d \in Node, NEW S \in SUBSET Node, Closed(S, d)
  PROVE  Seen(d) \subseteq S
BY DEF Seen

(* Every entry of it but d itself is there because of its parent.           *)
LEMMA SeenUp ==
  ASSUME Tree, NEW d \in Node, NEW n \in Seen(d), n # d
  PROVE  n # 0 /\ parent[n] \in Seen(d) /\ opens[parent[n]]
<1> SUFFICES ASSUME ~ (n # 0 /\ parent[n] \in Seen(d) /\ opens[parent[n]])
             PROVE  FALSE
  OBVIOUS
<1>1. Closed(Seen(d) \ {n}, d)
  BY SeenClosed DEF Closed
<1>2. Seen(d) \subseteq Seen(d) \ {n}
  BY <1>1, SeenClosed, SeenLeast
<1> QED BY <1>2

(* It holds nothing numbered before d.                                      *)
LEMMA SeenAbove ==
  ASSUME Tree, NEW d \in Node, NEW n \in Seen(d)
  PROVE  d <= n
<1> DEFINE S == {m \in Node : d <= m}
<1>1. Closed(S, d)
  BY QueriesAssumption DEF Closed, Tree, Node
<1> QED BY <1>1, SeenLeast

(* A folder that cannot be opened, or is empty, shows itself only.          *)
LEMMA SeenShut ==
  ASSUME Tree, NEW d \in Node, ~opens[d] \/ Children(d) = {}
  PROVE  Seen(d) = {d}
<1>1. Closed({d}, d)
  BY DEF Closed, Children
<1> QED BY <1>1, SeenLeast, SeenClosed DEF Closed

(* What is seen from an entry of an opened folder is seen from the folder.  *)
LEMMA SeenInside ==
  ASSUME Tree, NEW d \in Node, opens[d], NEW c \in Children(d)
  PROVE  Seen(c) \subseteq Seen(d)
<1>1. c \in Node /\ Closed(Seen(d), c)
  BY SeenClosed DEF Closed, Children
<1> QED BY <1>1, SeenClosed, SeenLeast

(* What is seen from an opened folder is seen from one of its entries.      *)
LEMMA SeenSplit ==
  ASSUME Tree, NEW d \in Node, opens[d], NEW n \in Seen(d), n # d
  PROVE  \E c \in Children(d) : n \in Seen(c)
<1> DEFINE S == {d} \union {m \in Node : \E c \in Children(d) : m \in Seen(c)}
<1>1. ASSUME NEW m \in Node \ {0}, parent[m] \in S, opens[parent[m]]
      PROVE  m \in S
  <2>1. CASE parent[m] = d
    BY <2>1, SeenClosed DEF Closed, Children
  <2>2. CASE parent[m] # d
    <3>1. PICK c \in Children(d) : parent[m] \in Seen(c)
      BY <1>1, <2>2
    <3> QED BY <1>1, <3>1, SeenClosed DEF Closed, Children
  <2> QED BY <2>1, <2>2
<1>2. Closed(S, d)
  BY <1>1 DEF Closed
<1> QED BY <1>2, SeenLeast

(* No entry is seen from two entries of the same folder: nothing is counted *)
(* twice.                                                                   *)
LEMMA SiblingsApart ==
  ASSUME Tree, NEW d \in Node, NEW a \in Children(d), NEW b \in Children(d), a # b
  PROVE  Seen(a) \intersect Seen(b) = {}
<1> DEFINE Both == Seen(a) \intersect Seen(b)
<1> SUFFICES ASSUME Both # {} PROVE FALSE
  OBVIOUS
<1>1. a \in Node /\ b \in Node /\ a # 0 /\ b # 0 /\ parent[a] = d /\ parent[b] = d
  BY DEF Children
<1>2. Both \in SUBSET Nat
  BY <1>1, SeenClosed, QueriesAssumption DEF Node
<1>3. PICK n \in Both : \A m \in Both : n <= m
  BY <1>2, Least
<1>4. n # a
  <2> SUFFICES ASSUME n = a PROVE FALSE
    OBVIOUS
  <2>1. parent[a] \in Seen(b)
    BY <1>1, SeenUp
  <2>2. b <= parent[a]
    BY <1>1, <2>1, SeenAbove
  <2>3. parent[b] < b
    BY <1>1 DEF Tree
  <2> QED BY <1>1, <2>2, <2>3, QueriesAssumption DEF Node
<1>5. n # b
  <2> SUFFICES ASSUME n = b PROVE FALSE
    OBVIOUS
  <2>1. parent[b] \in Seen(a)
    BY <1>1, SeenUp
  <2>2. a <= parent[b]
    BY <1>1, <2>1, SeenAbove
  <2>3. parent[a] < a
    BY <1>1 DEF Tree
  <2> QED BY <1>1, <2>2, <2>3, QueriesAssumption DEF Node
<1>6. parent[n] \in Both /\ n # 0
  BY <1>1, <1>4, <1>5, SeenUp
<1>7. parent[n] < n
  BY <1>1, <1>6, SeenClosed DEF Tree
<1> QED BY <1>2, <1>3, <1>6, <1>7

(* With every folder open, the whole tree is seen.                          *)
LEMMA EverythingSeen ==
  ASSUME Tree, \A n \in Node : opens[n]
  PROVE  Seen(0) = Node
<1> DEFINE Missed == Node \ Seen(0)
<1>0. 0 \in Node /\ Missed \in SUBSET Nat
  BY QueriesAssumption DEF Node
<1> SUFFICES ASSUME Missed # {} PROVE FALSE
  BY <1>0, SeenClosed
<1>1. PICK n \in Missed : \A m \in Missed : n <= m
  BY <1>0, Least
<1>2. n # 0
  BY <1>0, SeenClosed DEF Closed
<1>3. parent[n] \in Seen(0)
  BY <1>0, <1>1, <1>2, QueriesAssumption DEF Tree, Node
<1> QED BY <1>0, <1>2, <1>3, SeenClosed DEF Closed, Tree

(* Size(d): the regular files that are seen, and 65535 for each folder that *)
(* cannot be opened.                                                        *)
Files(d) == {n \in Seen(d) \ {d} : kind[n] = "reg"}
Shut(d)  == {n \in Seen(d) : ~opens[n]}
Size(d)  == Cardinality(Files(d)) + Unopened * Cardinality(Shut(d))

(* Sets of entries are finite.                                              *)
LEMMA NodesFinite ==
  ASSUME NEW S \in SUBSET Node
  PROVE  IsFiniteSet(S) /\ Cardinality(S) \in Nat
<1>1. IsFiniteSet(Node)
  BY FS_Interval, QueriesAssumption DEF Node
<1> QED BY <1>1, FS_Subset, FS_CardinalityType

(* The sizes of two sets that do not meet add up.                           *)
LEMMA DisjointSizes ==
  ASSUME NEW A \in SUBSET Node, NEW B \in SUBSET Node, A \intersect B = {}
  PROVE  Cardinality(A \union B) = Cardinality(A) + Cardinality(B)
<1>1. Cardinality(A \intersect B) = 0
  BY FS_EmptySet
<1>2. IsFiniteSet(A) /\ IsFiniteSet(B) /\ Cardinality(A) \in Nat /\ Cardinality(B) \in Nat
  BY NodesFinite
<1>3. Cardinality(A \union B) = Cardinality(A) + Cardinality(B) - Cardinality(A \intersect B)
  BY <1>2, FS_Union
<1> QED BY <1>1, <1>2, <1>3

(* Size(d) is a number, of entries.                                         *)
LEMMA SizeType ==
  ASSUME NEW d \in Node
  PROVE  Size(d) \in Nat /\ Files(d) \in SUBSET Node /\ Shut(d) \in SUBSET Node
<1>1. Files(d) \in SUBSET Node /\ Shut(d) \in SUBSET Node
  BY SeenClosed DEF Files, Shut
<1>2. Cardinality(Files(d)) \in Nat /\ Cardinality(Shut(d)) \in Nat
  BY <1>1, NodesFinite
<1> QED BY <1>1, <1>2 DEF Size, Unopened

FilesOf(T) == UNION {Files(s) : s \in T}
ShutOf(T)  == UNION {Shut(s) : s \in T}

(* The sizes of subfolders add up to the size of what they hold together.   *)
LEMMA SumOfSizes ==
  ASSUME Tree, NEW d \in Node, NEW h, \A s \in Subfolders(d) : h[s] = Size(s)
  PROVE  Sum(h, Subfolders(d))
           = Cardinality(FilesOf(Subfolders(d))) + Unopened * Cardinality(ShutOf(Subfolders(d)))
<1> DEFINE S == Subfolders(d)
           g == [T \in SUBSET S |-> Cardinality(FilesOf(T)) + Unopened * Cardinality(ShutOf(T))]
<1>1. S \subseteq Children(d) /\ S \in SUBSET Node
  BY DEF Subfolders, In, Children
<1>2. IsFiniteSet(S)
  BY <1>1, NodesFinite
<1>3. g[{}] = 0
  <2>1. FilesOf({}) = {} /\ ShutOf({}) = {} /\ Cardinality({}) = 0
    BY FS_EmptySet DEF FilesOf, ShutOf
  <2> QED BY <2>1 DEF Unopened
<1>4. ASSUME NEW T \in SUBSET S, NEW x \in T
      PROVE  g[T] = h[x] + g[T \ {x}]
  <2> DEFINE U == T \ {x}
  <2>1. FilesOf(T) = Files(x) \union FilesOf(U) /\ ShutOf(T) = Shut(x) \union ShutOf(U)
    BY DEF FilesOf, ShutOf
  <2>2. \A y \in U : Seen(x) \intersect Seen(y) = {}
    BY <1>1, SiblingsApart
  <2>3. /\ Files(x) \intersect FilesOf(U) = {}
        /\ Shut(x) \intersect ShutOf(U) = {}
    BY <2>2 DEF Files, Shut, FilesOf, ShutOf
  <2>4. /\ x \in Node
        /\ FilesOf(U) \in SUBSET Node /\ Files(x) \in SUBSET Node
        /\ ShutOf(U) \in SUBSET Node /\ Shut(x) \in SUBSET Node
    BY <1>1, SizeType DEF FilesOf, ShutOf
  <2>5. /\ Cardinality(FilesOf(T)) = Cardinality(Files(x)) + Cardinality(FilesOf(U))
        /\ Cardinality(ShutOf(T)) = Cardinality(Shut(x)) + Cardinality(ShutOf(U))
    BY <2>1, <2>3, <2>4, DisjointSizes
  <2>6. /\ Cardinality(FilesOf(U)) \in Nat /\ Cardinality(Files(x)) \in Nat
        /\ Cardinality(ShutOf(U)) \in Nat /\ Cardinality(Shut(x)) \in Nat
    BY <2>4, NodesFinite
  <2>7. h[x] = Size(x)
    OBVIOUS
  <2>8. /\ g[T] = Cardinality(FilesOf(T)) + Unopened * Cardinality(ShutOf(T))
        /\ g[U] = Cardinality(FilesOf(U)) + Unopened * Cardinality(ShutOf(U))
    OBVIOUS
  <2> HIDE DEF g, U
  <2>9. g[T] = h[x] + g[U]
    BY <2>5, <2>6, <2>7, <2>8 DEF Size, Unopened
  <2> QED BY <2>9 DEF U
<1>5. S \in SUBSET S
  OBVIOUS
<1> HIDE DEF S
<1>6. Sum(h, S) = g[S]
  <2> HIDE DEF g
  <2> QED BY <1>2, <1>3, <1>4, SumOver
<1> QED BY <1>5, <1>6 DEF S

(* Size obeys the equation of the recursion: a folder's files and the sizes *)
(* of its subfolders, or 65535.                                             *)
LEMMA SizeEquation ==
  ASSUME Tree, NEW d \in Node, NEW h, \A s \in Subfolders(d) : h[s] = Size(s)
  PROVE  Size(d) = IF opens[d] THEN Cardinality(In(d, "reg")) + Sum(h, Subfolders(d))
                               ELSE Unopened
<1>1. CASE ~opens[d]
  <2>1. Files(d) = {} /\ Shut(d) = {d}
    BY <1>1, SeenShut DEF Files, Shut
  <2>2. Cardinality(Files(d)) = 0 /\ Cardinality(Shut(d)) = 1
    BY <2>1, FS_EmptySet, FS_Singleton
  <2> QED BY <1>1, <2>2 DEF Size, Unopened
<1>2. CASE opens[d]
  <2> DEFINE S == Subfolders(d)
  <2>1. S \subseteq Children(d) /\ S \in SUBSET Node /\ In(d, "reg") \in SUBSET Node
    BY DEF Subfolders, In, Children
  <2>2. \A c \in Children(d) : c \in Node /\ parent[c] = d /\ d < c
    BY DEF Children, Tree
  <2>3. \A c \in Children(d) \ S : Seen(c) = {c} /\ opens[c]
    <3>1. ASSUME NEW c \in Children(d) \ S PROVE kind[c] # "dir" /\ Children(c) = {}
      BY <2>2 DEF Subfolders, In, Children, Tree
    <3> QED BY <2>2, <3>1, SeenShut DEF Tree
  <2>4. In(d, "reg") \intersect FilesOf(S) = {}
    <3>1. ASSUME NEW n \in In(d, "reg"), NEW s \in S, n \in Seen(s) PROVE FALSE
      <4>1. n \in Children(d) /\ n # s
        BY <2>1 DEF In, Children, Subfolders
      <4>2. n \in Seen(n)
        BY <2>2, <4>1, SeenClosed DEF Closed
      <4> QED BY <2>1, <4>1, <4>2, <3>1, SiblingsApart
    <3> QED BY <3>1 DEF FilesOf, Files
  <2>5. Files(d) = In(d, "reg") \union FilesOf(S)
    <3>1. ASSUME NEW n \in Files(d) PROVE n \in In(d, "reg") \union FilesOf(S)
      <4>1. PICK c \in Children(d) : n \in Seen(c)
        BY <1>2, SeenSplit DEF Files
      <4>2. CASE n = c
        BY <4>2, <2>2, <4>1 DEF Files, In, Children
      <4>3. CASE n # c
        BY <4>1, <4>3, <2>3 DEF Files, FilesOf
      <4> QED BY <4>2, <4>3
    <3>2. ASSUME NEW n \in In(d, "reg") PROVE n \in Files(d)
      <4>1. n \in Children(d) /\ n \in Seen(n)
        BY SeenClosed DEF In, Children, Closed
      <4> QED BY <1>2, <2>2, <4>1, SeenInside, QueriesAssumption DEF Files, In, Node
    <3>3. ASSUME NEW s \in S, NEW n \in Files(s) PROVE n \in Files(d)
      <4>1. s \in Children(d) /\ n \in Seen(s) /\ n \in Seen(d)
        BY <1>2, <2>1, SeenInside DEF Files
      <4>2. s <= n /\ n \in Node
        BY <2>2, <4>1, SeenAbove, SeenClosed
      <4> QED BY <2>2, <4>1, <4>2, QueriesAssumption DEF Files, Node
    <3> QED BY <3>1, <3>2, <3>3 DEF FilesOf
  <2>6. Shut(d) = ShutOf(S)
    <3>1. ASSUME NEW n \in Shut(d) PROVE n \in ShutOf(S)
      <4>1. PICK c \in Children(d) : n \in Seen(c)
        BY <1>2, SeenSplit DEF Shut
      <4> QED BY <4>1, <2>3 DEF Shut, ShutOf
    <3>2. ASSUME NEW s \in S, NEW n \in Shut(s) PROVE n \in Shut(d)
      BY <1>2, <2>1, SeenInside DEF Shut
    <3> QED BY <3>1, <3>2 DEF ShutOf
  <2>7. FilesOf(S) \in SUBSET Node /\ ShutOf(S) \in SUBSET Node
    BY <2>1, SizeType DEF FilesOf, ShutOf
  <2>8. Cardinality(Files(d)) = Cardinality(In(d, "reg")) + Cardinality(FilesOf(S))
    BY <2>1, <2>4, <2>5, <2>7, DisjointSizes
  <2>9. Sum(h, S) = Cardinality(FilesOf(S)) + Unopened * Cardinality(ShutOf(S))
    BY SumOfSizes
  <2>10. /\ Cardinality(In(d, "reg")) \in Nat /\ Cardinality(FilesOf(S)) \in Nat
         /\ Cardinality(ShutOf(S)) \in Nat
    BY <2>1, <2>7, NodesFinite
  <2> QED BY <1>2, <2>6, <2>8, <2>9, <2>10 DEF Size, Unopened
<1> QED BY <1>1, <1>2 DEF Tree

(* get_file_count() returns, for every tree, the number of regular files it *)
(* reaches and 65535 more for each folder it cannot open.                   *)
THEOREM TotalOfTree ==
  ASSUME Tree, NEW r \in Node
  PROVE  Total(r) = Size(r)
<1> DEFINE Body(h, d) == IF opens[d] THEN Cardinality(In(d, "reg")) + Sum(h, Subfolders(d)) ELSE Unopened
           total == CHOOSE h : h = [d \in Node |-> Body(h, d)]
<1>1. Total(r) = total[r]
  BY DEF Total, Sum
<1>2. total = [d \in Node |-> Body(total, d)]
  <2> DEFINE w == [d \in Node |-> Size(d)]
  <2>1. ASSUME NEW d \in Node PROVE w[d] = Body(w, d)
    <3>1. \A s \in Subfolders(d) : w[s] = Size(s)
      BY DEF Subfolders, In
    <3> HIDE DEF w
    <3>2. Size(d) = Body(w, d)
      BY <3>1, SizeEquation
    <3> QED BY <3>2 DEF w
  <2>2. w = [d \in Node |-> Body(w, d)]
    BY <2>1
  <2> HIDE DEF w, Body
  <2> QED BY <2>2
<1> HIDE DEF total
<1>3. \A d \in Node : total[d] = Size(d)
  <2> DEFINE Bad == {d \in Node : total[d] # Size(d)}
             Heights == {Entries - d : d \in Bad}
  <2> SUFFICES ASSUME Bad # {} PROVE FALSE
    OBVIOUS
  <2>1. Heights \in SUBSET Nat /\ Heights # {}
    BY QueriesAssumption DEF Node
  <2>2. PICK n \in Heights : \A m \in Heights : n <= m
    BY <2>1, Least
  <2>3. PICK d \in Bad : n = Entries - d
    OBVIOUS
  <2>4. ASSUME NEW s \in Subfolders(d) PROVE total[s] = Size(s)
    <3>1. s \in Node /\ d \in Node /\ d < s
      BY DEF Subfolders, In, Tree
    <3>2. Entries - s < n
      BY <2>3, <3>1, QueriesAssumption DEF Node
    <3>3. s \in Bad => Entries - s \in Heights /\ n \in Nat /\ Entries - s \in Nat
      BY <2>1
    <3>4. s \notin Bad
      BY <2>2, <3>2, <3>3
    <3> QED BY <3>1, <3>4
  <2>5. Size(d) = Body(total, d)
    BY <2>4, SizeEquation
  <2> QED BY <1>2, <2>5
<1> QED BY <1>1, <1>3

(* A folder is reached whose last subfolder cannot be opened.               *)
Fails(d) == \E n \in Seen(d) : opens[n] /\ LastFails(n)

(* Fails obeys the equation of the recursion.                               *)
LEMMA FailsEquation ==
  ASSUME Tree, NEW d \in Node
  PROVE  Fails(d) <=> opens[d] /\ (LastFails(d) \/ \E s \in Subfolders(d) : Fails(s))
<1>1. d \in Seen(d)
  BY SeenClosed DEF Closed
<1>2. CASE ~opens[d]
  BY <1>2, SeenShut DEF Fails
<1>3. CASE opens[d]
  <2>1. Subfolders(d) \subseteq Children(d)
    BY DEF Subfolders, In, Children
  <2>2. ASSUME NEW n \in Seen(d), n # d, LastFails(n), opens[n]
        PROVE  \E s \in Subfolders(d) : Fails(s)
    <3>1. PICK c \in Children(d) : n \in Seen(c)
      BY <1>3, <2>2, SeenSplit
    <3>2. c \in Node /\ c # 0 /\ parent[c] = d
      BY DEF Children
    <3>3. kind[c] = "dir"
      <4> SUFFICES ASSUME kind[c] # "dir" PROVE FALSE
        OBVIOUS
      <4>1. Children(c) = {} /\ Subfolders(c) = {}
        BY DEF Children, Subfolders, In, Tree
      <4>2. n = c
        BY <3>1, <3>2, <4>1, SeenShut
      <4> QED BY <2>2, <4>1, <4>2 DEF LastFails
    <3> QED BY <2>2, <3>1, <3>2, <3>3 DEF Subfolders, In, Fails
  <2>3. ASSUME NEW s \in Subfolders(d), Fails(s) PROVE Fails(d)
    BY <1>3, <2>1, <2>3, SeenInside DEF Fails
  <2>4. ASSUME Fails(d) PROVE LastFails(d) \/ \E s \in Subfolders(d) : Fails(s)
    BY <2>2, <2>4 DEF Fails
  <2> QED BY <1>1, <1>3, <2>3, <2>4 DEF Fails
<1> QED BY <1>2, <1>3

(* get_file_count() ends the process exactly when it reaches an opened      *)
(* folder whose last subfolder cannot be opened: errno, tested at the end of*)
(* that folder, is then what opendir() left.                                *)
THEOREM ExitOfTree ==
  ASSUME Tree, NEW r \in Node
  PROVE  Exits(r) <=> Fails(r)
<1> DEFINE Body(h, d) == opens[d] /\ (LastFails(d) \/ \E s \in Subfolders(d) : h[s])
           exits == CHOOSE h : h = [d \in Node |-> Body(h, d)]
<1>1. Exits(r) = exits[r]
  BY DEF Exits
<1>2. exits = [d \in Node |-> Body(exits, d)]
  <2> DEFINE w == [d \in Node |-> Fails(d)]
  <2>1. ASSUME NEW d \in Node PROVE w[d] = Body(w, d)
    <3>1. \A s \in Subfolders(d) : w[s] = Fails(s)
      BY DEF Subfolders, In
    <3>2. w[d] = Fails(d)
      OBVIOUS
    <3> HIDE DEF w
    <3>3. Fails(d) <=> Body(w, d)
      BY <3>1, FailsEquation
    <3> HIDE DEF Body
    <3> QED BY <3>2, <3>3 DEF Fails, Body
  <2>2. w = [d \in Node |-> Body(w, d)]
    BY <2>1
  <2> HIDE DEF w, Body
  <2> QED BY <2>2
<1> HIDE DEF exits
<1>3. \A d \in Node : exits[d] <=> Fails(d)
  <2> DEFINE Bad == {d \in Node : ~(exits[d] <=> Fails(d))}
             Heights == {Entries - d : d \in Bad}
  <2> SUFFICES ASSUME Bad # {} PROVE FALSE
    OBVIOUS
  <2>1. Heights \in SUBSET Nat /\ Heights # {}
    BY QueriesAssumption DEF Node
  <2>2. PICK n \in Heights : \A m \in Heights : n <= m
    BY <2>1, Least
  <2>3. PICK d \in Bad : n = Entries - d
    OBVIOUS
  <2>4. ASSUME NEW s \in Subfolders(d) PROVE exits[s] <=> Fails(s)
    <3>1. s \in Node /\ d \in Node /\ d < s
      BY DEF Subfolders, In, Tree
    <3>2. Entries - s < n
      BY <2>3, <3>1, QueriesAssumption DEF Node
    <3>3. s \in Bad => Entries - s \in Heights /\ n \in Nat /\ Entries - s \in Nat
      BY <2>1
    <3>4. s \notin Bad
      BY <2>2, <3>2, <3>3
    <3> QED BY <3>1, <3>4
  <2>5. Fails(d) <=> Body(exits, d)
    BY <2>4, FailsEquation
  <2>6. exits[d] <=> Body(exits, d)
    BY <1>2
  <2> QED BY <2>5, <2>6
<1> QED BY <1>1, <1>3

-----------------------------------------------------------------------------
(* Init has the types, and a tree.                                          *)
LEMMA TypeInit == Init => TypeOK /\ Tree
<1> SUFFICES ASSUME Init PROVE TypeOK /\ Tree
  OBVIOUS
<1>1. Tree
  BY DEF Init, Tree
<1> QED BY <1>1 DEF Init, TypeOK, Tree, Links

(* Every step keeps the types and the tree.                                 *)
LEMMA TypeStep ==
  ASSUME TypeOK, Tree, [Next]_vars
  PROVE  TypeOK' /\ Tree'
<1>1. CASE UNCHANGED vars
  BY <1>1 DEF vars, folder, reply, TypeOK, Tree
<1>2. ASSUME NEW c \in {"health", "version"}, AskLinks(c) PROVE TypeOK' /\ Tree'
  BY <1>2 DEF AskLinks, folder, reply, TypeOK, Tree, Up
<1>3. CASE CheckEth0 \/ CheckEth1
  BY <1>3 DEF CheckEth0, CheckEth1, folder, reply, TypeOK, Tree
<1>4. CASE AnswerHealth \/ AnswerVersion
  BY <1>4 DEF AnswerHealth, AnswerVersion, NetStatue, IicStatus, folder, reply, TypeOK, Tree
<1>5. CASE CountFiles
  <2>1. 0 \in Node
    BY QueriesAssumption DEF Node
  <2>2. Total(0) \in Nat
    BY <2>1, TotalOfTree, SizeType
  <2>3. Sent(Total(0)) \in Nat /\ Sent(Total(0)) < 65536
    <3>1. \A n \in Nat : n % 65536 \in Nat /\ n % 65536 < 65536
      OBVIOUS
    <3> HIDE DEF Total
    <3> QED BY <2>2, <3>1 DEF Sent
  <2>4. /\ pc' \in {"exited", "read"} /\ cmd' = "files"
        /\ count' = count \/ count' = Sent(Total(0))
        /\ link' = link /\ kind' = kind /\ parent' = parent /\ opens' = opens
        /\ bx' = bx /\ t' = t /\ lan' = lan /\ iic' = iic
        /\ everUp' = everUp /\ alwaysUp' = alwaysUp
    BY <1>5 DEF CountFiles, folder
  <2>5. Tree'
    BY <2>4 DEF Tree
  <2>6. count' \in Nat /\ count' < 65536
    BY <2>3, <2>4 DEF TypeOK
  <2> QED BY <2>4, <2>5, <2>6 DEF TypeOK
<1>6. ASSUME NEW l \in Links, NEW s \in {"up", "down", "absent"}, LinkChanges(l, s)
      PROVE  TypeOK' /\ Tree'
  <2>1. /\ pc' = pc /\ cmd' = cmd /\ bx' = bx /\ t' = t
        /\ kind' = kind /\ parent' = parent /\ opens' = opens
        /\ lan' = lan /\ iic' = iic /\ count' = count
        /\ link' = [link EXCEPT ![l] = s]
        /\ everUp' = IF s = "up" THEN everUp \union {l} ELSE everUp
        /\ alwaysUp' = IF s = "up" THEN alwaysUp ELSE alwaysUp \ {l}
    BY <1>6 DEF LinkChanges, folder, reply
  <2>2. Tree'
    BY <2>1 DEF Tree
  <2>3. link' \in [Links -> {"up", "down", "absent"}]
    BY <2>1 DEF TypeOK
  <2>4. everUp' \subseteq Links /\ alwaysUp' \subseteq Links
    <3>1. CASE s = "up"
      BY <2>1, <3>1 DEF TypeOK
    <3>2. CASE s # "up"
      BY <2>1, <3>2 DEF TypeOK
    <3> QED BY <3>1, <3>2
  <2> QED BY <2>1, <2>2, <2>3, <2>4 DEF TypeOK
<1> QED BY <1>1, <1>2, <1>3, <1>4, <1>5, <1>6 DEF Next

(* The folder remains a tree, and every variable has its type.              *)
LEMMA TypeHolds == Spec => [](TypeOK /\ Tree)
<1>1. TypeOK /\ Tree /\ [Next]_vars => (TypeOK /\ Tree)'
  BY TypeStep
<1> QED BY <1>1, TypeInit, PTL DEF Spec

(* Every variable keeps its type; a count fits the two bytes it is sent in, *)
(* whatever get_file_count() returns.                                       *)
THEOREM TypeCorrect == Spec => []TypeOK
BY TypeHolds, PTL

(* While a command looks at the links: the links up now were up at some     *)
(* moment, those up at every moment are up now, and what was found of a link*)
(* says of the same command that it was up at some, or down at some moment. *)
LinkInv ==
  /\ pc \in {"eth0", "eth1", "answer"} => Up \subseteq everUp /\ alwaysUp \subseteq Up
  /\ pc \in {"eth1", "answer"} =>
       (bx = 1 => "eth0" \in everUp) /\ (bx = 0 => "eth0" \notin alwaysUp)
  /\ pc = "answer" =>
       (t = 1 => "eth1" \in everUp) /\ (t = 0 => "eth1" \notin alwaysUp)

(* Every step of connect_check(), and every change of a link, keeps it.     *)
LEMMA LinkStep ==
  ASSUME TypeOK, LinkInv, LinksHonest, [Next]_vars
  PROVE  LinkInv' /\ LinksHonest'
<1>1. CASE UNCHANGED vars
  BY <1>1 DEF vars, reply, LinkInv, LinksHonest, Up
<1>2. ASSUME NEW c \in {"health", "version"}, AskLinks(c) PROVE LinkInv' /\ LinksHonest'
  BY <1>2 DEF AskLinks, LinkInv, LinksHonest, Up
<1>3. CASE CheckEth0
  BY <1>3 DEF CheckEth0, LinkInv, LinksHonest, Up, Links
<1>4. CASE CheckEth1
  BY <1>4 DEF CheckEth1, LinkInv, LinksHonest, Up, Links
<1>5. CASE AnswerHealth \/ AnswerVersion
  <2>1. pc = "answer" /\ pc' = "read" /\ lan' = NetStatue /\ UNCHANGED <<everUp, alwaysUp>>
    BY <1>5 DEF AnswerHealth, AnswerVersion
  <2>2. LinkInv'
    BY <2>1 DEF LinkInv
  <2>3. /\ bx = 1 => "eth0" \in everUp
        /\ bx = 0 => "eth0" \notin alwaysUp
        /\ t = 1 => "eth1" \in everUp
        /\ t = 0 => "eth1" \notin alwaysUp
    BY <2>1 DEF LinkInv
  <2>4. bx \in {0, 1} /\ t \in {0, 1} /\ everUp \subseteq Links
    BY DEF TypeOK
  <2>5. "eth0" \in everUp /\ "eth1" \in everUp => everUp = Links
    BY <2>4 DEF Links
  <2>6. alwaysUp = Links => "eth0" \in alwaysUp /\ "eth1" \in alwaysUp
    BY DEF Links
  <2>7. /\ NetStatue = 15 <=> bx = 1 /\ t = 1
        /\ NetStatue = 1 <=> bx = 0 /\ t = 1
        /\ NetStatue = 0 <=> t = 0
    BY <2>4 DEF NetStatue
  <2> QED BY <2>1, <2>2, <2>3, <2>4, <2>5, <2>6, <2>7 DEF LinksHonest
<1>6. CASE CountFiles
  BY <1>6 DEF CountFiles, LinkInv, LinksHonest
<1>7. ASSUME NEW l \in Links, NEW s \in {"up", "down", "absent"}, LinkChanges(l, s)
      PROVE  LinkInv' /\ LinksHonest'
  <2>1. /\ pc' = pc /\ bx' = bx /\ t' = t /\ lan' = lan
        /\ link' = [link EXCEPT ![l] = s]
        /\ everUp' = IF s = "up" THEN everUp \union {l} ELSE everUp
        /\ alwaysUp' = IF s = "up" THEN alwaysUp ELSE alwaysUp \ {l}
    BY <1>7 DEF LinkChanges, reply
  <2>2. /\ \A k \in everUp : k \in everUp' /\ k \in Links
        /\ \A k \in everUp' : k \in Links
        /\ \A k \in alwaysUp' : k \in alwaysUp
        /\ \A k \in alwaysUp : k \in Links
    <3>1. CASE s = "up"
      BY <2>1, <3>1 DEF TypeOK
    <3>2. CASE s # "up"
      BY <2>1, <3>2 DEF TypeOK
    <3> QED BY <3>1, <3>2
  <2>3. \A k \in Links : k \in Up' <=> IF k = l THEN s = "up" ELSE k \in Up
    <3>1. \A k \in Links : link'[k] = IF k = l THEN s ELSE link[k]
      <4>1. DOMAIN link = Links
        BY DEF TypeOK
      <4> QED BY <2>1, <4>1
    <3>2. Up' = {k \in Links : link'[k] = "up"}
      BY DEF Up
    <3> QED BY <3>1, <3>2 DEF Up
  <2>4. LinksHonest'
    <3>1. everUp = Links => everUp' = Links
      BY <2>2
    <3>2. alwaysUp' = Links => alwaysUp = Links
      BY <2>2
    <3> QED BY <2>1, <2>2, <3>1, <3>2 DEF LinksHonest
  <2>5. ASSUME pc \in {"eth0", "eth1", "answer"}
        PROVE  Up' \subseteq everUp' /\ alwaysUp' \subseteq Up'
    <3>1. Up \subseteq everUp /\ alwaysUp \subseteq Up
      BY <2>5 DEF LinkInv
    <3>2. Up' \subseteq Links
      BY DEF Up
    <3>3. ASSUME NEW k \in Links, k \in Up' PROVE k \in everUp'
      BY <2>1, <2>3, <3>1, <3>3
    <3>4. ASSUME NEW k \in Links, k \in alwaysUp' PROVE k \in Up'
      BY <2>1, <2>3, <3>1, <3>4
    <3> QED BY <2>2, <3>2, <3>3, <3>4
  <2> QED BY <2>1, <2>2, <2>4, <2>5 DEF LinkInv
<1> QED BY <1>1, <1>2, <1>3, <1>4, <1>5, <1>6, <1>7 DEF Next

(* connect_check() looks at eth0 and eth1 one after the other while they    *)
(* change: the reply still claims no link that was down throughout the      *)
(* command and leaves out none that was up throughout.                      *)
THEOREM RepliesHonest == Spec => []LinksHonest
<1>1. Init => LinkInv /\ LinksHonest
  BY DEF Init, LinkInv, LinksHonest, Links
<1>2. TypeOK /\ LinkInv /\ LinksHonest /\ [Next]_vars => (LinkInv /\ LinksHonest)'
  BY LinkStep
<1> QED BY <1>1, <1>2, TypeCorrect, PTL DEF Spec

(* With every folder open no call exits, and the total is the number of     *)
(* regular files.                                                           *)
LEMMA ReadableCount ==
  ASSUME Tree, \A n \in Node : opens[n]
  PROVE  ~Exits(0) /\ Total(0) = Cardinality({n \in Node : kind[n] = "reg"})
<1>1. 0 \in Node /\ Seen(0) = Node
  BY EverythingSeen, QueriesAssumption DEF Node
<1>2. ~Exits(0)
  <2>1. ASSUME NEW d \in Node PROVE ~LastFails(d)
    <3> SUFFICES ASSUME Subfolders(d) # {} PROVE opens[Max(Subfolders(d))]
      BY DEF LastFails
    <3>1. \E m \in Subfolders(d) : \A n \in Subfolders(d) : m >= n
      <4> DEFINE Heights == {Entries - n : n \in Subfolders(d)}
      <4>1. Heights \in SUBSET Nat /\ Heights # {}
        BY QueriesAssumption DEF Node, Subfolders, In
      <4>2. PICK h \in Heights : \A m \in Heights : h <= m
        BY <4>1, Least
      <4>3. PICK m \in Subfolders(d) : h = Entries - m
        OBVIOUS
      <4>4. ASSUME NEW n \in Subfolders(d) PROVE m >= n
        <5>1. Entries - n \in Heights
          OBVIOUS
        <5>2. Entries - m <= Entries - n /\ m \in Int /\ n \in Int
          BY <4>2, <4>3, <5>1 DEF Node, Subfolders, In
        <5> QED BY <5>2, QueriesAssumption
      <4> QED BY <4>4
    <3>2. Max(Subfolders(d)) \in Subfolders(d)
      BY <3>1 DEF Max
    <3> QED BY <3>2 DEF Subfolders, In
  <2> QED BY <1>1, <2>1, ExitOfTree DEF Fails
<1>3. Shut(0) = {} /\ Files(0) = {n \in Node : kind[n] = "reg"}
  BY <1>1 DEF Shut, Files, Tree
<1>4. Cardinality(Shut(0)) = 0
  BY <1>3, FS_EmptySet
<1>5. Cardinality(Files(0)) \in Nat
  BY <1>1, SizeType, NodesFinite
<1>6. Size(0) = Cardinality(Files(0))
  BY <1>4, <1>5 DEF Size, Unopened
<1> QED BY <1>1, <1>2, <1>3, <1>6, TotalOfTree

(* 0x10 is answered with the number of regular files when every folder can  *)
(* be opened, for every folder the reply's two bytes can count.             *)
THEOREM ReadableFilesCounted ==
  ASSUME Entries < 65536 PROVE Spec => []FilesCounted
<1>1. Init => FilesCounted
  BY DEF Init, FilesCounted
<1>2. TypeOK /\ Tree /\ FilesCounted /\ [Next]_vars => FilesCounted'
  <2> SUFFICES ASSUME TypeOK, Tree, FilesCounted, [Next]_vars PROVE FilesCounted'
    OBVIOUS
  <2>1. CASE CountFiles
    <3> SUFFICES ASSUME \A n \in Node : opens[n]
                 PROVE  /\ pc' # "exited"
                        /\ count' = Cardinality({n \in Node : kind[n] = "reg"})
      BY <2>1 DEF CountFiles, FilesCounted, folder
    <3> DEFINE regs == {n \in Node : kind[n] = "reg"}
    <3>1. ~Exits(0) /\ Total(0) = Cardinality(regs)
      BY ReadableCount
    <3>2. Cardinality(regs) \in 0 .. Entries
      <4>1. IsFiniteSet(1 .. Entries) /\ Cardinality(1 .. Entries) = Entries
        BY FS_Interval, QueriesAssumption
      <4>2. regs \in SUBSET (1 .. Entries) /\ regs \in SUBSET Node
        BY QueriesAssumption DEF Node, Tree
      <4> QED BY <4>1, <4>2, FS_Subset, NodesFinite, QueriesAssumption
    <3>3. Sent(Cardinality(regs)) = Cardinality(regs)
      BY <3>2, QueriesAssumption DEF Sent
    <3> QED BY <2>1, <3>1, <3>3 DEF CountFiles
  <2>2. CASE UNCHANGED vars
    BY <2>2 DEF vars, folder, reply, FilesCounted
  <2>3. ASSUME NEW c \in {"health", "version"}, AskLinks(c) PROVE FilesCounted'
    BY <2>3 DEF AskLinks, FilesCounted
  <2>4. CASE CheckEth0 \/ CheckEth1
    BY <2>4 DEF CheckEth0, CheckEth1, folder, reply, FilesCounted
  <2>5. CASE AnswerHealth \/ AnswerVersion
    BY <2>5 DEF AnswerHealth, AnswerVersion, folder, FilesCounted
  <2>6. ASSUME NEW l \in Links, NEW s \in {"up", "down", "absent"}, LinkChanges(l, s)
        PROVE  FilesCounted'
    BY <2>6 DEF LinkChanges, folder, reply, FilesCounted
  <2> QED BY <2>1, <2>2, <2>3, <2>4, <2>5, <2>6 DEF Next
<1> QED BY <1>1, <1>2, TypeHolds, PTL DEF Spec

(* 0x10 either ended the process or was answered, by what the walk reached: *)
(* the last two bytes of the size.                                          *)
AnswerFits ==
  cmd = "files" => IF Fails(0) THEN pc = "exited"
                               ELSE pc = "read" /\ count = Size(0) % 65536

(* For every folder, with any number of entries and any folder unreadable:  *)
(* 0x10 ends the process when a last subfolder cannot be opened, and        *)
(* otherwise answers with the files reached and 65535 for every folder that *)
(* cannot be opened, in two bytes.                                          *)
THEOREM CountsAndExits == Spec => []AnswerFits
<1>1. Init => AnswerFits
  BY DEF Init, AnswerFits
<1>2. TypeOK /\ Tree /\ AnswerFits /\ [Next]_vars => AnswerFits'
  <2> SUFFICES ASSUME TypeOK, Tree, AnswerFits, [Next]_vars PROVE AnswerFits'
    OBVIOUS
  <2>1. UNCHANGED folder
    BY DEF Next, vars, AskLinks, CheckEth0, CheckEth1, AnswerHealth, AnswerVersion,
           CountFiles, LinkChanges
  <2>2. Fails(0)' = Fails(0) /\ Size(0)' = Size(0)
    BY <2>1 DEF folder, Fails, Size, Files, Shut, Seen, Closed, LastFails, Subfolders, In
  <2>3. CASE CountFiles
    <3>1. 0 \in Node
      BY QueriesAssumption DEF Node
    <3>2. (Exits(0) <=> Fails(0)) /\ Total(0) = Size(0)
      BY <3>1, ExitOfTree, TotalOfTree
    <3>3. /\ Fails(0) => pc' = "exited"
          /\ ~Fails(0) => pc' = "read" /\ count' = Size(0) % 65536
      <4> HIDE DEF Size, Fails, Exits, Total
      <4> QED BY <2>3, <3>2 DEF CountFiles, Sent
    <3> QED BY <2>2, <3>3 DEF AnswerFits
  <2>4. CASE UNCHANGED vars
    BY <2>2, <2>4 DEF vars, reply, AnswerFits
  <2>5. ASSUME NEW c \in {"health", "version"}, AskLinks(c) PROVE AnswerFits'
    BY <2>5 DEF AskLinks, AnswerFits
  <2>6. CASE CheckEth0 \/ CheckEth1
    BY <2>2, <2>6 DEF CheckEth0, CheckEth1, AnswerFits
  <2>7. CASE AnswerHealth \/ AnswerVersion
    BY <2>2, <2>7 DEF AnswerHealth, AnswerVersion, AnswerFits
  <2>8. ASSUME NEW l \in Links, NEW s \in {"up", "down", "absent"}, LinkChanges(l, s)
        PROVE  AnswerFits'
    BY <2>2, <2>8 DEF LinkChanges, reply, AnswerFits
  <2> QED BY <2>3, <2>4, <2>5, <2>6, <2>7, <2>8 DEF Next
<1> QED BY <1>1, <1>2, TypeHolds, PTL DEF Spec
=============================================================================
