---------------------------- MODULE FsList_proofs ----------------------------
(***************************************************************************)
(* FsList for every file system: the listing is complete, the walk visits  *)
(* each entry once and leaves none out, and freeing uses nothing freed.    *)
(*                                                                         *)
(* The invariant speaks of the way S from the root to the current entry,   *)
(* and of the order in which entries were made: an entry is put in front   *)
(* of its directory's, so a list goes from the newest to the oldest, and   *)
(* of a directory on the way everything newer than the way's is done.      *)
(***************************************************************************)
EXTENDS FsList, TLAPS, FunctionTheorems, FiniteSetTheorems

Kids(d) == {k \in DOMAIN ent : fs.parent[k] = d}

\* The way from the root to c: a node on it that is above another one is at or
\* above the parent of that one.
IsPath(S, c) ==
  /\ S \subseteq Nodes /\ Root \in S /\ c \in S
  /\ \A d \in S \ {Root} : fs.parent[d] \in S
  /\ \A d \in S : d <= c
  /\ \A d, e \in S : d < e => d <= fs.parent[e]

Visited == {visited[i] : i \in DOMAIN visited}

Entry == [child : Nat, next : Nat, nChild : Nat]

ListPhases == {"init", "list", "listed", "failed"}
WalkPhases == {"visit", "callback", "climb"}
FreePhases == {"free", "freeup"}

Types ==
  /\ TreeOK(fs)
  /\ phase \in ListPhases \cup WalkPhases \cup FreePhases \cup {"fini", "done"}
  /\ DOMAIN ent \subseteq Nodes
  /\ ent \in [DOMAIN ent -> Entry]
  /\ phase = "init" => DOMAIN ent = {}
  /\ phase \notin {"init", "failed"} => Root \in DOMAIN ent
  /\ curr \in {NULL} \cup DOMAIN ent
  /\ phase \in {"visit", "callback", "free"} => curr # NULL

\* What is listed can be reached; what is in a listed directory is listed unless
\* the directory is still open.
ListInv ==
  /\ \A n \in DOMAIN ent : Reached[n]
  /\ \A n \in DOMAIN ent \ {Root} : fs.parent[n] \in DOMAIN ent
  /\ phase = "list" =>
       /\ IsPath(open, curr) /\ open \subseteq DOMAIN ent
       /\ \A d \in open : fs.kind[d] = "dir"
       /\ Cardinality(open) = DepthOf[curr] + 1
  /\ phase \notin {"list", "failed"} => open = {}
  /\ phase \notin {"init", "failed"} =>
       \A n \in Nodes \ {Root} :
         fs.parent[n] \in DOMAIN ent /\ fs.kind[fs.parent[n]] = "dir" =>
           n \in DOMAIN ent \/ fs.parent[n] \in open
  /\ phase = "failed" => fs.kind[Root] # "dir" \/ \E n \in Nodes : fs.kind[n] = "gone" /\ Reached[n]

CountInv == \A d \in DOMAIN ent : ent[d].nChild = Cardinality(Kids(d) \ freed)

VisitedInv ==
  /\ visited \in Seq(Nat)
  /\ Visited \subseteq DOMAIN ent \ {Root}
  /\ phase \in ListPhases => visited = <<>>
  /\ phase \notin FreePhases \cup {"done"} => freed = {}
  /\ freed \subseteq DOMAIN ent
  /\ phase = "climb" /\ curr = NULL => DOMAIN ent \ {Root} \subseteq Visited
  /\ phase = "done" \/ (phase = "freeup" /\ curr = NULL) => DOMAIN ent \subseteq freed
  /\ VisitedOnce

\* The entries were made in the order of their rank; lists go from high to low.
Chain(rank, bound) ==
  /\ \A e \in DOMAIN ent : rank[e] < bound
  /\ \A e, d \in DOMAIN ent : rank[e] = rank[d] => e = d
  /\ \A d \in DOMAIN ent : \A k \in Kids(d) :
       ent[d].child \in Kids(d) /\ rank[k] <= rank[ent[d].child]
  /\ \A d \in DOMAIN ent : ent[d].child = NULL \/ ent[d].child \in Kids(d)
  /\ \A e \in DOMAIN ent :
       ent[e].next = NULL => \A k \in Kids(fs.parent[e]) : rank[e] <= rank[k]
  /\ \A e \in DOMAIN ent :
       ent[e].next # NULL =>
         /\ e # Root
         /\ ent[e].next \in Kids(fs.parent[e]) /\ rank[ent[e].next] < rank[e]
         /\ \A k \in Kids(fs.parent[e]) : rank[e] <= rank[k] \/ rank[k] <= rank[ent[e].next]

\* The walk is at c, where the phase says, and has visited V: beside the way what
\* is newer was visited, with all below it.
Walking(rank, S, c, V, where) ==
  /\ IsPath(S, c) /\ S \subseteq DOMAIN ent
  /\ where = "visit" => c # Root
  /\ \A a \in S \ {Root} : \A k \in Kids(fs.parent[a]) :
       k \in V <=> rank[a] < rank[k] \/ (k = a /\ ~ (a = c /\ where = "visit"))
  /\ \A v \in V \ S : Kids(v) \subseteq V
  /\ \A v \in V : fs.parent[v] \in V \cup {Root}
  /\ \A k \in Kids(c) : k \in V <=> where = "climb"

\* The second walk has freed X, in the same order, but an entry when it is left.
Freeing(rank, S, c, X, where) ==
  /\ IsPath(S, c) /\ S \subseteq DOMAIN ent
  /\ Root \notin X
  /\ \A a \in S \ {Root} : \A k \in Kids(fs.parent[a]) : k \in X <=> rank[a] < rank[k]
  /\ \A v \in X : fs.parent[v] \in X \cup S
  /\ \A k \in Kids(c) : k \in X <=> where = "freeup"

WholeFreed == \A v \in freed : Kids(v) \subseteq freed

Ranked(rank, bound) ==
  /\ Chain(rank, bound)
  /\ phase \in WalkPhases /\ curr # NULL => \E S \in SUBSET Nodes : Walking(rank, S, curr, Visited, phase)
  /\ phase \in FreePhases /\ curr # NULL => \E S \in SUBSET Nodes : Freeing(rank, S, curr, freed, phase)

IInv ==
  /\ Types /\ ListInv /\ CountInv /\ VisitedInv /\ WholeFreed
  /\ \E rank \in [DOMAIN ent -> Nat] : \E bound \in Nat : Ranked(rank, bound)

----------------------------------------------------------------------------
(* Trees.                                                                   *)

LEMMA LeastElement ==
  ASSUME NEW T \in SUBSET Nat, NEW x \in T
  PROVE  \E m \in T : \A y \in T : m <= y
<1>1. IsWellFoundedOn(OpToRel(<, Nat), Nat)
      BY NatLessThanWellFounded
<1>2. \E m \in T : \A y \in T : ~ (<<y, m>> \in OpToRel(<, Nat))
      BY <1>1, WFMin, Zenon
<1>3. PICK m \in T : \A y \in T : ~ (<<y, m>> \in OpToRel(<, Nat))
      BY <1>2
<1>4. \A y \in T : ~ (y < m)
      BY <1>3 DEF OpToRel
<1> QED
    BY <1>4

LEMMA TreeFacts ==
  ASSUME TreeOK(fs)
  PROVE  /\ Len(fs.parent) \in Nat /\ Nodes = 1 .. Len(fs.parent) /\ Root \in Nodes
         /\ fs.parent[Root] = 0
         /\ \A n \in Nodes : n \in Nat /\ fs.parent[n] \in Nat /\ fs.kind[n] \in Kinds /\ fs.parent[n] < n
         /\ \A n \in Nodes \ {Root} : fs.parent[n] \in Nodes
BY DEF TreeOK, Nodes, Root, NULL

LEMMA NodesFinite ==
  ASSUME TreeOK(fs)
  PROVE  IsFiniteSet(Nodes)
BY TreeFacts, FS_Interval

\* What holds of the root, and of what is in a directory it holds of, holds of all.
LEMMA DownTheTree ==
  ASSUME TreeOK(fs), NEW T, Root \in T,
         \A n \in Nodes \ {Root} : fs.parent[n] \in T => n \in T
  PROVE  Nodes \subseteq T
<1> SUFFICES ASSUME NEW x \in Nodes \ T PROVE FALSE
    OBVIOUS
<1>1. Nodes \ T \in SUBSET Nat
      BY TreeFacts
<1>2. PICK m \in Nodes \ T : \A y \in Nodes \ T : m <= y
      BY <1>1, LeastElement
<1>3. m # Root /\ fs.parent[m] \in Nodes /\ fs.parent[m] < m /\ m \in Nat /\ fs.parent[m] \in Nat
      BY <1>2, TreeFacts
<1> QED
    BY <1>2, <1>3

\* A function that is defined by recursion towards the root.
DownFunction(V, base, g) ==
  \E f \in [Nodes -> V] : f = [n \in Nodes |-> IF n = Root THEN base ELSE g[<<f[fs.parent[n]], n>>]]

LEMMA TreeFunction ==
  ASSUME TreeOK(fs), NEW V, NEW base \in V, NEW g \in [V \X Nodes -> V]
  PROVE  DownFunction(V, base, g)
<1> DEFINE Upto(k, f) ==
      f \in [1 .. k -> V] /\ \A n \in 1 .. k : f[n] = IF n = Root THEN base ELSE g[<<f[fs.parent[n]], n>>]
           Bad == {k \in 0 .. Len(fs.parent) : ~ \E f : Upto(k, f)}
<1> HIDE DEF Upto
<1>1. Len(fs.parent) \in Nat /\ Nodes = 1 .. Len(fs.parent)
      BY TreeFacts
<1>2. Bad = {}
  <2> SUFFICES ASSUME NEW x \in Bad PROVE FALSE
      OBVIOUS
  <2>1. Bad \in SUBSET Nat
        BY <1>1
  <2>2. PICK k \in Bad : \A y \in Bad : k <= y
        BY <2>1, LeastElement
  <2>3. k \in 0 .. Len(fs.parent) /\ ~ \E f : Upto(k, f)
        BY <2>2
  <2>4. k # 0
    <3>1. Upto(0, [n \in 1 .. 0 |-> base])
          BY DEF Upto
    <3> QED
        BY <2>3, <3>1
  <2>5. k - 1 \in 0 .. Len(fs.parent) /\ k - 1 \notin Bad /\ k \in Nodes
        BY <1>1, <2>2, <2>3, <2>4
  <2>6. PICK f : Upto(k - 1, f)
        BY <2>5
  <2> DEFINE last == IF k = Root THEN base ELSE g[<<f[fs.parent[k]], k>>]
             h == [n \in 1 .. k |-> IF n = k THEN last ELSE f[n]]
  <2>7. k # Root => fs.parent[k] \in 1 .. k - 1
        BY <1>1, <2>5, TreeFacts
  <2>8. last \in V
        BY <2>5, <2>6, <2>7 DEF Upto
  <2>9. h \in [1 .. k -> V]
        BY <2>3, <2>6, <2>8 DEF Upto
  <2>10. ASSUME NEW n \in 1 .. k
         PROVE  h[n] = IF n = Root THEN base ELSE g[<<h[fs.parent[n]], n>>]
    <3>1. n \in Nodes /\ (n # Root => fs.parent[n] \in 1 .. k - 1)
      <4>1. n \in Nodes
            BY <1>1, <2>3
      <4>2. n # Root => fs.parent[n] \in Nodes /\ fs.parent[n] < n /\ fs.parent[n] \in Nat
            BY <4>1, TreeFacts
      <4> QED
          BY <1>1, <2>3, <4>1, <4>2
    <3>2. n # Root => h[fs.parent[n]] = f[fs.parent[n]]
          BY <2>3, <3>1
    <3>3. CASE n = k
          BY <3>1, <3>2, <3>3
    <3>4. CASE n # k
      <4>1. n \in 1 .. k - 1 /\ h[n] = f[n]
            BY <2>3, <3>4
      <4>2. f[n] = IF n = Root THEN base ELSE g[<<f[fs.parent[n]], n>>]
            BY <2>6, <4>1 DEF Upto
      <4> QED
          BY <3>2, <4>1, <4>2
    <3> QED
        BY <3>3, <3>4
  <2>11. Upto(k, h)
         BY <2>9, <2>10 DEF Upto
  <2> QED
      BY <2>3, <2>11
<1>3. PICK f : Upto(Len(fs.parent), f)
      BY <1>1, <1>2
<1>4. f \in [Nodes -> V]
      BY <1>1, <1>3 DEF Upto
<1>5. f = [n \in Nodes |-> IF n = Root THEN base ELSE g[<<f[fs.parent[n]], n>>]]
      BY <1>1, <1>3, <1>4 DEF Upto
<1> QED
    BY <1>4, <1>5 DEF DownFunction

LEMMA DepthFacts ==
  ASSUME TreeOK(fs)
  PROVE  /\ DepthOf \in [Nodes -> Nat]
         /\ DepthOf[Root] = 0
         /\ \A n \in Nodes \ {Root} : DepthOf[n] = DepthOf[fs.parent[n]] + 1
<1> DEFINE g == [p \in Nat \X Nodes |-> p[1] + 1]
           Def(f) == f = [n \in Nodes |-> IF n = Root THEN 0 ELSE f[fs.parent[n]] + 1]
<1>1. 0 \in Nat /\ g \in [Nat \X Nodes -> Nat]
      OBVIOUS
<1> HIDE DEF g
<1>2. PICK f \in [Nodes -> Nat] : f = [n \in Nodes |-> IF n = Root THEN 0 ELSE g[<<f[fs.parent[n]], n>>]]
  <2>1. DownFunction(Nat, 0, g)
        BY <1>1, TreeFunction, Zenon
  <2> QED
      BY <2>1, Zenon DEF DownFunction
<1>3. \A n \in Nodes \ {Root} : fs.parent[n] \in Nodes
      BY TreeFacts
<1>4. \A n \in Nodes : f[n] = IF n = Root THEN 0 ELSE f[fs.parent[n]] + 1
      BY <1>2, <1>3 DEF g
<1>5. Def(f)
      BY <1>2, <1>4
<1>6. DepthOf = CHOOSE h : Def(h)
      BY DEF DepthOf
<1>7. Def(DepthOf)
      BY <1>5, <1>6, Zenon
<1>8. \A n \in Nodes : DepthOf[n] = IF n = Root THEN 0 ELSE DepthOf[fs.parent[n]] + 1
      BY <1>7
<1>9. DepthOf[Root] = 0 /\ \A n \in Nodes \ {Root} : DepthOf[n] = DepthOf[fs.parent[n]] + 1
      BY <1>8, TreeFacts
<1> DEFINE T == {n \in Nodes : DepthOf[n] \in Nat}
<1>10. Nodes \subseteq T
  <2>1. Root \in T /\ \A n \in Nodes \ {Root} : fs.parent[n] \in T => n \in T
        BY <1>9, TreeFacts
  <2> QED
      BY <2>1, DownTheTree
<1> QED
    BY <1>7, <1>9, <1>10

LEMMA ReachedFacts ==
  ASSUME TreeOK(fs)
  PROVE  /\ Reached[Root]
         /\ \A n \in Nodes \ {Root} : Reached[n] <=> Reached[fs.parent[n]] /\ fs.kind[fs.parent[n]] = "dir"
<1> DEFINE g == [p \in BOOLEAN \X Nodes |-> p[1] /\ fs.kind[fs.parent[p[2]]] = "dir"]
           Def(f) == f = [n \in Nodes |-> IF n = Root THEN TRUE ELSE f[fs.parent[n]] /\ fs.kind[fs.parent[n]] = "dir"]
<1>1. TRUE \in BOOLEAN /\ g \in [BOOLEAN \X Nodes -> BOOLEAN]
      OBVIOUS
<1> HIDE DEF g
<1>2. PICK f \in [Nodes -> BOOLEAN] : f = [n \in Nodes |-> IF n = Root THEN TRUE ELSE g[<<f[fs.parent[n]], n>>]]
  <2>1. DownFunction(BOOLEAN, TRUE, g)
        BY <1>1, TreeFunction, Zenon
  <2> QED
      BY <2>1, Zenon DEF DownFunction
<1>3. \A n \in Nodes \ {Root} : fs.parent[n] \in Nodes
      BY TreeFacts
<1>4. \A n \in Nodes : f[n] = IF n = Root THEN TRUE ELSE f[fs.parent[n]] /\ fs.kind[fs.parent[n]] = "dir"
      BY <1>2, <1>3 DEF g
<1>5. Def(f)
      BY <1>2, <1>4
<1>6. Reached = CHOOSE h : Def(h)
      BY DEF Reached
<1>7. Def(Reached)
      BY <1>5, <1>6, Zenon
<1>8. \A n \in Nodes : Reached[n] = IF n = Root THEN TRUE ELSE Reached[fs.parent[n]] /\ fs.kind[fs.parent[n]] = "dir"
      BY <1>7
<1> QED
    BY <1>8, TreeFacts

TreeDepth(t) == CHOOSE f : f = [n \in DOMAIN t.parent |-> IF n = Root THEN 0 ELSE f[t.parent[n]] + 1]
TreeReach(t) ==
  CHOOSE f : f = [n \in DOMAIN t.parent |-> IF n = Root THEN TRUE ELSE f[t.parent[n]] /\ t.kind[t.parent[n]] = "dir"]

LEMMA TreeStays ==
  ASSUME fs' = fs
  PROVE  Nodes' = Nodes /\ DepthOf' = DepthOf /\ Reached' = Reached
<1>1. DepthOf = TreeDepth(fs) /\ Reached = TreeReach(fs)
      BY DEF DepthOf, Reached, TreeDepth, TreeReach, Nodes
<1>2. DepthOf' = TreeDepth(fs') /\ Reached' = TreeReach(fs')
      BY DEF DepthOf, Reached, TreeDepth, TreeReach, Nodes
<1>3. Nodes' = Nodes
      BY DEF Nodes
<1>4. TreeDepth(fs') = TreeDepth(fs) /\ TreeReach(fs') = TreeReach(fs)
      OBVIOUS
<1> QED
    BY <1>1, <1>2, <1>3, <1>4

LEMMA PathStays ==
  ASSUME fs' = fs
  PROVE  \A S, c : IsPath(S, c)' <=> IsPath(S, c)
BY TreeStays DEF IsPath

LEMMA PathRoot ==
  ASSUME TreeOK(fs)
  PROVE  IsPath({Root}, Root)
BY TreeFacts DEF IsPath

LEMMA PathToRoot ==
  ASSUME TreeOK(fs), NEW S, IsPath(S, Root)
  PROVE  \A d \in S : d = Root
BY TreeFacts DEF IsPath, Root

LEMMA PathUp ==
  ASSUME TreeOK(fs), NEW S, NEW c, IsPath(S, c), c # Root
  PROVE  c \in Nodes /\ fs.parent[c] \in Nodes /\ IsPath(S \ {c}, fs.parent[c])
<1>1. \A n \in Nodes : n \in Nat /\ fs.parent[n] \in Nat /\ fs.parent[n] < n
      BY TreeFacts
<1>2. S \subseteq Nodes /\ c \in Nodes /\ fs.parent[c] \in S /\ fs.parent[c] < c
      BY <1>1 DEF IsPath
<1>3. \A d \in S \ {c, Root} : fs.parent[d] \in S \ {c}
      BY <1>1, <1>2 DEF IsPath
<1>4. \A d \in S \ {c} : d < c /\ d <= fs.parent[c]
      BY <1>1, <1>2 DEF IsPath
<1> QED
    BY <1>1, <1>2, <1>3, <1>4 DEF IsPath

LEMMA PathDown ==
  ASSUME TreeOK(fs), NEW S, NEW n \in Nodes, n # Root, IsPath(S, fs.parent[n])
  PROVE  IsPath(S \cup {n}, n) /\ n \notin S
<1>1. \A m \in Nodes : m \in Nat /\ fs.parent[m] \in Nat /\ fs.parent[m] < m
      BY TreeFacts
<1>2. S \subseteq Nodes /\ \A d \in S : d <= fs.parent[n] /\ d < n
      BY <1>1 DEF IsPath
<1> QED
    BY <1>1, <1>2 DEF IsPath

LEMMA PathAcross ==
  ASSUME TreeOK(fs), NEW S, NEW c, IsPath(S, c), c # Root,
         NEW n \in Nodes, n # Root, fs.parent[n] = fs.parent[c]
  PROVE  IsPath((S \ {c}) \cup {n}, n) /\ n \notin S \ {c}
<1>1. IsPath(S \ {c}, fs.parent[n])
      BY PathUp
<1> QED
    BY <1>1, PathDown

\* There is one way down.
LEMMA PathChild ==
  ASSUME TreeOK(fs), NEW S, NEW c, IsPath(S, c),
         NEW a \in S \ {Root}, NEW b \in S \ {Root}, fs.parent[a] = fs.parent[b]
  PROVE  a = b
<1>1. \A m \in Nodes : m \in Nat /\ fs.parent[m] \in Nat /\ fs.parent[m] < m
      BY TreeFacts
<1>2. a \in Nodes /\ b \in Nodes
      BY DEF IsPath
<1>3. ~ (a < b) /\ ~ (b < a)
      BY <1>1, <1>2 DEF IsPath
<1> QED
    BY <1>1, <1>2, <1>3

----------------------------------------------------------------------------
(* The listing.                                                             *)

LEMMA InitInv ==
  ASSUME Init, TreeOK(fs)
  PROVE  IInv
<1> USE DEF Init
<1>1. DOMAIN ent = {} /\ Visited = {}
      BY DEF Visited
<1>2. Types
      BY <1>1 DEF Types, ListPhases, Entry, NULL
<1>3. ListInv
      BY <1>1, ReachedFacts, TreeFacts DEF ListInv
<1>4. CountInv /\ WholeFreed
      BY <1>1 DEF CountInv, WholeFreed
<1>5. VisitedInv
  <2>1. visited \in Seq(Nat) /\ Len(visited) = 0 /\ DOMAIN visited = {}
        OBVIOUS
  <2> QED
      BY <1>1, <2>1 DEF VisitedInv, VisitedOnce, ListPhases
<1>6. Ranked([e \in DOMAIN ent |-> 0], 0)
      BY <1>1 DEF Ranked, Chain, WalkPhases, FreePhases
<1>7. [e \in DOMAIN ent |-> 0] \in [DOMAIN ent -> Nat] /\ 0 \in Nat
      OBVIOUS
<1> QED
    BY <1>2, <1>3, <1>4, <1>5, <1>6, <1>7 DEF IInv

LEMMA InitStep ==
  ASSUME IInv, fs_list_init
  PROVE  IInv'
<1> USE DEF fs_list_init, lists
<1>1. TreeOK(fs) /\ DOMAIN ent = {} /\ fs' = fs /\ Nodes' = Nodes /\ Reached' = Reached /\ DepthOf' = DepthOf
      BY TreeStays DEF IInv, Types
<1>2. visited = <<>> /\ freed = {} /\ visited' = <<>> /\ freed' = {} /\ open = {} /\ curr = NULL
      BY <1>1 DEF IInv, VisitedInv, ListInv, ListPhases, WalkPhases, FreePhases, Types, NULL
<1>3. CASE fs.kind[Root] # "dir"
  <2>1. phase' = "failed" /\ ent' = ent /\ curr' = curr /\ open' = open
        BY <1>3
  <2>2. DOMAIN ent' = {} /\ Visited' = {}
        BY <1>1, <1>2, <2>1 DEF Visited
  <2>3. Types'
        BY <1>1, <1>2, <2>1, <2>2 DEF IInv, Types, ListPhases, TreeOK
  <2>4. ListInv'
        BY <1>1, <1>3, <2>1, <2>2 DEF ListInv
  <2>5. CountInv' /\ WholeFreed'
        BY <1>2, <2>2 DEF CountInv, WholeFreed
  <2>6. VisitedInv'
    <3>1. DOMAIN visited' = {} /\ visited' \in Seq(Nat)
          BY <1>2
    <3> QED
        BY <1>2, <2>1, <2>2, <3>1 DEF VisitedInv, VisitedOnce, ListPhases
  <2>7. Ranked([e \in DOMAIN ent |-> 0], 0)'
        BY <2>1, <2>2 DEF Ranked, Chain, WalkPhases, FreePhases
  <2>8. [e \in DOMAIN ent' |-> 0] \in [DOMAIN ent' -> Nat] /\ 0 \in Nat
        OBVIOUS
  <2> QED
      BY <2>3, <2>4, <2>5, <2>6, <2>7, <2>8 DEF IInv
<1>4. CASE fs.kind[Root] = "dir"
  <2>1. phase' = "list" /\ curr' = Root /\ open' = {Root} /\ ent' = <<NewEntry(NULL)>>
        BY <1>4
  <2>2. DOMAIN ent' = {Root} /\ ent'[Root] = NewEntry(NULL)
        BY <2>1 DEF Root
  <2>3. Kids(Root)' = {} /\ Visited' = {} /\ fs.parent[Root] = NULL /\ Root \in Nodes /\ Root # NULL
    <3>1. fs.parent[Root] = NULL /\ Root \in Nodes /\ Root # NULL
          BY <1>1, TreeFacts DEF NULL, Root
    <3>2. Kids(Root)' = {}
          BY <1>1, <2>2, <3>1 DEF Kids
    <3>3. Visited' = {}
          BY <1>2 DEF Visited
    <3> QED
        BY <3>1, <3>2, <3>3
  <2>4. Types'
        BY <1>1, <2>1, <2>2, <2>3 DEF IInv, Types, ListPhases, TreeOK, Entry, NewEntry, NULL
  <2>5. ListInv'
    <3>1. IsPath(open, curr)'
          BY <1>1, <2>1, PathRoot, PathStays
    <3>2. Cardinality(open') = DepthOf[curr'] + 1
      <4>1. Cardinality({Root}) = 1
          BY FS_Singleton
    <4>2. DepthOf[Root] = 0
          BY <1>1, DepthFacts
    <4> QED
        BY <1>1, <2>1, <4>1, <4>2
    <3> QED
        BY <1>1, <1>4, <2>1, <2>2, <3>1, <3>2, ReachedFacts DEF ListInv
  <2>6. CountInv'
    <3>1. Kids(Root)' \ freed' = {}
          BY <2>3
    <3>2. Cardinality(Kids(Root)' \ freed') = 0
          BY <3>1, FS_EmptySet
    <3> QED
        BY <2>2, <3>2 DEF CountInv, NewEntry
  <2>7. WholeFreed'
        BY <1>2 DEF WholeFreed
  <2>8. VisitedInv'
    <3>1. DOMAIN visited' = {} /\ visited' \in Seq(Nat)
          BY <1>2
    <3> QED
        BY <1>2, <2>1, <2>3, <3>1 DEF VisitedInv, VisitedOnce, ListPhases
  <2>9. Chain([e \in DOMAIN ent |-> 0], 1)'
    <3>1. \A d : \A k \in Kids(d)' : k = Root
          BY <2>2 DEF Kids
    <3>2. \A e \in DOMAIN ent' : ent'[e].next = NULL /\ ent'[e].child = NULL
          BY <2>2 DEF NewEntry
    <3>3. \A e \in DOMAIN ent' : [d \in DOMAIN ent' |-> 0][e] = 0
          OBVIOUS
    <3>4. \A d \in DOMAIN ent' : Kids(d)' = {}
          BY <2>2, <2>3
    <3> QED
        BY <2>2, <3>1, <3>2, <3>3, <3>4 DEF Chain
  <2>10. Ranked([e \in DOMAIN ent |-> 0], 1)'
        BY <2>1, <2>9 DEF Ranked, WalkPhases, FreePhases
  <2>11. [e \in DOMAIN ent' |-> 0] \in [DOMAIN ent' -> Nat] /\ 1 \in Nat
        OBVIOUS
  <2> QED
      BY <2>4, <2>5, <2>6, <2>7, <2>8, <2>10, <2>11 DEF IInv
<1> QED
    BY <1>3, <1>4

LEMMA KidsFinite ==
  ASSUME TreeOK(fs), DOMAIN ent \subseteq Nodes
  PROVE  \A d : IsFiniteSet(Kids(d))
<1> SUFFICES ASSUME NEW d PROVE IsFiniteSet(Kids(d))
    OBVIOUS
<1>1. Kids(d) \in SUBSET Nodes
      BY DEF Kids
<1> QED
    BY <1>1, NodesFinite, FS_Subset

\* The entry made last has the greatest rank.
LEMMA ReadEntryChain ==
  ASSUME TreeOK(fs), DOMAIN ent \subseteq Nodes, ent \in [DOMAIN ent -> Entry],
         \A m \in DOMAIN ent \ {Root} : fs.parent[m] \in DOMAIN ent,
         NEW rank \in [DOMAIN ent -> Nat], NEW bound \in Nat, Chain(rank, bound),
         NEW n \in Nodes \ DOMAIN ent, n # Root, NEW d \in DOMAIN ent, fs.parent[n] = d,
         fs' = fs, ent' = WithEntry(n, d)
  PROVE  /\ \E r \in [DOMAIN ent' -> Nat] : \E b \in Nat : Chain(r, b)'
         /\ ent' \in [DOMAIN ent' -> Entry] /\ DOMAIN ent' = DOMAIN ent \cup {n}
         /\ \A e \in DOMAIN ent : ent'[e].nChild = IF e = d THEN ent[e].nChild + 1 ELSE ent[e].nChild
         /\ ent'[n].nChild = 0
         /\ \A e : Kids(e)' = IF e = d THEN Kids(e) \cup {n} ELSE Kids(e)
         /\ \A k : k \notin Kids(n) /\ n \notin Kids(k)
<1>1. n \in Nat /\ n # 0 /\ d # n /\ d \in Nat /\ d # 0 /\ fs.parent[Root] = 0 /\ NULL = 0 /\ NULL \notin DOMAIN ent
      BY TreeFacts DEF NULL
<1>2. /\ DOMAIN ent' = DOMAIN ent \cup {n}
      /\ ent'[n] = [child |-> NULL, next |-> ent[d].child, nChild |-> 0]
      /\ ent'[d] = [ent[d] EXCEPT !.child = n, !.nChild = @ + 1]
      /\ \A e \in DOMAIN ent \ {d} : ent'[e] = ent[e]
      BY <1>1 DEF WithEntry, NewEntry
<1>3. /\ ent'[d].child = n /\ ent'[d].next = ent[d].next /\ ent'[d].nChild = ent[d].nChild + 1
      /\ ent[d].child \in Nat /\ ent[d].next \in Nat /\ ent[d].nChild \in Nat /\ ent'[d] \in Entry
  <2>1. ent[d] \in Entry
        OBVIOUS
  <2>2. /\ ent[d].child \in Nat /\ ent[d].next \in Nat /\ ent[d].nChild \in Nat
        /\ ent[d] = [child |-> ent[d].child, next |-> ent[d].next, nChild |-> ent[d].nChild]
        BY <2>1 DEF Entry
  <2>3. ent'[d] = [child |-> n, next |-> ent[d].next, nChild |-> ent[d].nChild + 1]
        BY <1>2, <2>2
  <2> QED
      BY <1>1, <2>2, <2>3 DEF Entry
<1>4. ent' \in [DOMAIN ent' -> Entry]
  <2>1. ent'[n] \in Entry
        BY <1>1, <1>2, <1>3 DEF Entry
  <2>2. ent' = [e \in DOMAIN ent' |-> ent'[e]]
        BY <1>2 DEF WithEntry
  <2>3. \A e \in DOMAIN ent' : ent'[e] \in Entry
        BY <1>2, <1>3, <2>1
  <2> QED
      BY <2>2, <2>3
<1>5. \A e, k : k \in Kids(e)' <=> k \in Kids(e) \/ (k = n /\ e = d)
      BY <1>2 DEF Kids
<1>6. \A k : k \notin Kids(n) /\ n \notin Kids(k)
      BY <1>1 DEF Kids
<1>7. \A e : Kids(e)' = IF e = d THEN Kids(e) \cup {n} ELSE Kids(e)
      BY <1>5
<1>13. PICK r : r = [e \in DOMAIN ent \cup {n} |-> IF e = n THEN bound ELSE rank[e]]
       OBVIOUS
<1>8. r \in [DOMAIN ent' -> Nat] /\ bound + 1 \in Nat
      BY <1>2, <1>13
<1>9. r[n] = bound /\ \A e \in DOMAIN ent : r[e] = rank[e] /\ rank[e] \in Nat /\ rank[e] < bound
      BY <1>13 DEF Chain
<1>10. \A e : \A k \in Kids(e) : k \in DOMAIN ent
       BY DEF Kids
<1>11. NULL \notin Kids(d)
       BY <1>1, <1>10
<1>12. Chain(r, bound + 1)'
  <2>1. \A e \in DOMAIN ent' : r[e] < bound + 1
        BY <1>2, <1>9
  <2>2. \A e, k \in DOMAIN ent' : r[e] = r[k] => e = k
        BY <1>2, <1>9 DEF Chain
  <2>3. \A e \in DOMAIN ent' : \A k \in Kids(e)' : ent'[e].child \in Kids(e)' /\ r[k] <= r[ent'[e].child]
    <3> SUFFICES ASSUME NEW e \in DOMAIN ent', NEW k \in Kids(e)'
                 PROVE  ent'[e].child \in Kids(e)' /\ r[k] <= r[ent'[e].child]
        OBVIOUS
    <3>1. CASE e = d
          BY <1>3, <1>5, <1>9, <1>10, <3>1
    <3>2. CASE e # d
      <4>1. k \in Kids(e) /\ e # n /\ e \in DOMAIN ent
            BY <1>2, <1>5, <1>6, <3>2
      <4>2. ent[e].child \in Kids(e) /\ rank[k] <= rank[ent[e].child] /\ ent'[e] = ent[e]
            BY <1>2, <3>2, <4>1 DEF Chain
      <4> QED
          BY <1>5, <1>9, <1>10, <4>1, <4>2
    <3> QED
        BY <3>1, <3>2
  <2>4. \A e \in DOMAIN ent' : ent'[e].child = NULL \/ ent'[e].child \in Kids(e)'
    <3> SUFFICES ASSUME NEW e \in DOMAIN ent' PROVE ent'[e].child = NULL \/ ent'[e].child \in Kids(e)'
        OBVIOUS
    <3>1. CASE e = d
          BY <1>3, <1>5, <3>1
    <3>2. CASE e = n
          BY <1>2, <3>2
    <3>3. CASE e # d /\ e # n
      <4>1. e \in DOMAIN ent /\ ent'[e] = ent[e]
            BY <1>2, <3>3
      <4> QED
          BY <1>5, <4>1 DEF Chain
    <3> QED
        BY <3>1, <3>2, <3>3
  <2>5. ASSUME NEW e \in DOMAIN ent', ent'[e].next = NULL, NEW k \in Kids(fs.parent[e])'
        PROVE  r[e] <= r[k]
    <3>1. CASE e = n
      <4>1. ent[d].child = NULL
            BY <1>2, <2>5, <3>1
      <4>2. k \notin Kids(d)
            BY <1>11, <4>1 DEF Chain
      <4>3. k = n
            BY <1>5, <2>5, <3>1, <4>2
      <4> QED
          BY <1>9, <3>1, <4>3
    <3>2. CASE e # n
      <4>1. e \in DOMAIN ent /\ ent[e].next = NULL
            BY <1>2, <1>3, <2>5, <3>2
      <4>2. CASE k \in Kids(fs.parent[e])
        <5>1. rank[e] <= rank[k]
              BY <4>1, <4>2 DEF Chain
        <5> QED
            BY <1>9, <1>10, <4>1, <4>2, <5>1
      <4>3. CASE k = n
            BY <1>9, <4>1, <4>3
      <4> QED
          BY <1>5, <2>5, <4>2, <4>3
    <3> QED
        BY <3>1, <3>2
  <2>6. ASSUME NEW e \in DOMAIN ent', ent'[e].next # NULL
        PROVE  /\ e # Root
               /\ ent'[e].next \in Kids(fs.parent[e])' /\ r[ent'[e].next] < r[e]
               /\ \A k \in Kids(fs.parent[e])' : r[e] <= r[k] \/ r[k] <= r[ent'[e].next]
    <3>1. CASE e = n
      <4>1. ent'[e].next = ent[d].child /\ ent[d].child # NULL
            BY <1>2, <2>6, <3>1
      <4>2. ent[d].child \in Kids(d) /\ \A k \in Kids(d) : rank[k] <= rank[ent[d].child]
            BY <4>1 DEF Chain
      <4> QED
          BY <1>5, <1>9, <1>10, <3>1, <4>1, <4>2
    <3>2. CASE e # n
      <4>1. e \in DOMAIN ent /\ ent'[e].next = ent[e].next /\ ent[e].next # NULL
            BY <1>2, <1>3, <2>6, <3>2
      <4> DEFINE x == ent[e].next
      <4>2. /\ e # Root /\ x \in Kids(fs.parent[e]) /\ rank[x] < rank[e]
            /\ \A k \in Kids(fs.parent[e]) : rank[e] <= rank[k] \/ rank[k] <= rank[x]
            BY <4>1 DEF Chain
      <4>3. r[x] = rank[x] /\ r[e] = rank[e] /\ rank[e] < bound /\ rank[e] \in Nat /\ bound \in Nat
            BY <1>9, <1>10, <4>1, <4>2
      <4>4. \A k \in Kids(fs.parent[e])' : r[e] <= r[k] \/ r[k] <= r[x]
        <5> SUFFICES ASSUME NEW k \in Kids(fs.parent[e])' PROVE r[e] <= r[k] \/ r[k] <= r[x]
            OBVIOUS
        <5>1. CASE k \in Kids(fs.parent[e])
              BY <1>9, <1>10, <4>2, <4>3, <5>1
        <5>2. CASE k = n
              BY <1>9, <4>3, <5>2
        <5> QED
            BY <1>5, <5>1, <5>2
      <4> QED
          BY <1>5, <4>1, <4>2, <4>3, <4>4
    <3> QED
        BY <3>1, <3>2
  <2> QED
      BY <2>1, <2>2, <2>3, <2>4, <2>5, <2>6 DEF Chain
<1>14. \A e \in DOMAIN ent : ent'[e].nChild = IF e = d THEN ent[e].nChild + 1 ELSE ent[e].nChild
       BY <1>2, <1>3
<1>15. ent'[n].nChild = 0
       BY <1>2
<1>16. \E q \in [DOMAIN ent' -> Nat] : \E b \in Nat : Chain(q, b)'
       BY <1>8, <1>12
<1> QED
    BY <1>2, <1>4, <1>6, <1>7, <1>14, <1>15, <1>16

LEMMA ReadEntryStep ==
  ASSUME IInv, ReadEntry
  PROVE  IInv'
<1> USE DEF lists
<1>1. /\ TreeOK(fs) /\ TreeOK(fs') /\ fs' = fs /\ Nodes' = Nodes /\ Reached' = Reached /\ DepthOf' = DepthOf
      /\ phase = "list" /\ visited' = visited /\ freed' = freed
      /\ DOMAIN ent \subseteq Nodes /\ ent \in [DOMAIN ent -> Entry] /\ curr \in {NULL} \cup DOMAIN ent
      /\ Root \in DOMAIN ent
  <2>1. fs' = fs
        BY DEF ReadEntry
  <2> QED
      BY <2>1, TreeStays DEF ReadEntry, IInv, Types
<1>2. /\ visited = <<>> /\ freed = {} /\ Visited = {}
      BY <1>1 DEF IInv, VisitedInv, ListPhases, FreePhases, Visited
<1>3. /\ \A m \in DOMAIN ent : Reached[m]
      /\ \A m \in DOMAIN ent \ {Root} : fs.parent[m] \in DOMAIN ent
      /\ IsPath(open, curr) /\ open \subseteq DOMAIN ent /\ curr \in open
      /\ \A d \in open : fs.kind[d] = "dir"
      /\ Cardinality(open) = DepthOf[curr] + 1
      /\ \A m \in Nodes \ {Root} :
           fs.parent[m] \in DOMAIN ent /\ fs.kind[fs.parent[m]] = "dir" =>
             m \in DOMAIN ent \/ fs.parent[m] \in open
      BY <1>1 DEF IInv, ListInv, IsPath
<1>4. PICK n \in Unlisted(curr) :
        /\ ent' = WithEntry(n, curr)
        /\ phase' = IF fs.kind[n] = "gone" THEN "failed" ELSE "list"
        /\ IF fs.kind[n] = "dir"
           THEN open' = open \cup {n} /\ curr' = n
           ELSE UNCHANGED <<open, curr>>
      BY DEF ReadEntry
<1>5. /\ n \in Nodes \ DOMAIN ent /\ n # Root /\ fs.parent[n] = curr /\ curr \in DOMAIN ent /\ curr # NULL /\ n # NULL
      /\ phase' \in {"list", "failed"} /\ n \notin open
      BY <1>1, <1>3, <1>4, TreeFacts DEF Unlisted, Nodes, NULL, Root
<1>6. PICK rank \in [DOMAIN ent -> Nat] : \E bound \in Nat : Ranked(rank, bound)
      BY DEF IInv
<1>7. PICK bound \in Nat : Ranked(rank, bound)
      BY <1>6
<1>8. Chain(rank, bound)
      BY <1>7 DEF Ranked
<1>16. PICK d \in DOMAIN ent : d = curr
       BY <1>5
<1>9. /\ \E r \in [DOMAIN ent' -> Nat] : \E b \in Nat : Chain(r, b)'
      /\ ent' \in [DOMAIN ent' -> Entry] /\ DOMAIN ent' = DOMAIN ent \cup {n}
      /\ \A e \in DOMAIN ent : ent'[e].nChild = IF e = d THEN ent[e].nChild + 1 ELSE ent[e].nChild
      /\ ent'[n].nChild = 0
      /\ \A e : Kids(e)' = IF e = d THEN Kids(e) \cup {n} ELSE Kids(e)
      /\ \A k : k \notin Kids(n) /\ n \notin Kids(k)
  <2>1. ent' = WithEntry(n, d) /\ fs.parent[n] = d /\ n \in Nodes \ DOMAIN ent /\ n # Root /\ d \in DOMAIN ent
        BY <1>4, <1>5, <1>16
  <2>2. /\ TreeOK(fs) /\ DOMAIN ent \subseteq Nodes /\ ent \in [DOMAIN ent -> Entry] /\ fs' = fs
        /\ \A m \in DOMAIN ent \ {Root} : fs.parent[m] \in DOMAIN ent
        BY <1>1, <1>3
  <2> QED
      BY <1>6, <1>7, <1>8, <2>1, <2>2, ReadEntryChain, Zenon
<1>10. Types'
  <2>1. curr' \in {NULL} \cup DOMAIN ent'
        BY <1>1, <1>4, <1>9
  <2> QED
      BY <1>1, <1>5, <1>9, <2>1 DEF Types, ListPhases
<1>11. ListInv'
  <2>1. Reached[n]
        BY <1>1, <1>3, <1>5, ReachedFacts
  <2>2. \A m \in DOMAIN ent' : Reached'[m]
        BY <1>1, <1>3, <1>9, <2>1
  <2>3. \A m \in DOMAIN ent' \ {Root} : fs'.parent[m] \in DOMAIN ent'
        BY <1>1, <1>3, <1>5, <1>9
  <2>4. IsPath(open', curr') /\ open' \subseteq DOMAIN ent'
    <3>1. CASE fs.kind[n] = "dir"
          BY <1>1, <1>3, <1>4, <1>5, <1>9, <3>1, PathDown
    <3>2. CASE fs.kind[n] # "dir"
          BY <1>3, <1>4, <1>9, <3>2
    <3> QED
        BY <3>1, <3>2
  <2>5. IsPath(open, curr)'
        BY <1>1, <2>4, PathStays
  <2>6. \A o \in open' : fs'.kind[o] = "dir"
        BY <1>1, <1>3, <1>4
  <2>7. Cardinality(open') = DepthOf[curr'] + 1
    <3>1. CASE fs.kind[n] = "dir"
      <4>1. IsFiniteSet(open)
            BY <1>1, <1>3, NodesFinite, FS_Subset
      <4>2. Cardinality(open \cup {n}) = Cardinality(open) + 1
            BY <1>5, <4>1, FS_AddElement
      <4>3. DepthOf[n] = DepthOf[curr] + 1
            BY <1>1, <1>5, DepthFacts
      <4> QED
          BY <1>3, <1>4, <3>1, <4>2, <4>3
    <3>2. CASE fs.kind[n] # "dir"
          BY <1>3, <1>4, <3>2
    <3> QED
        BY <3>1, <3>2
  <2>8. phase' = "list" =>
          \A m \in Nodes \ {Root} :
            fs.parent[m] \in DOMAIN ent' /\ fs.kind[fs.parent[m]] = "dir" =>
              m \in DOMAIN ent' \/ fs.parent[m] \in open'
    <3> SUFFICES ASSUME NEW m \in Nodes \ {Root}, fs.parent[m] \in DOMAIN ent', fs.kind[fs.parent[m]] = "dir",
                        m \notin DOMAIN ent'
                 PROVE  fs.parent[m] \in open'
        OBVIOUS
    <3>1. CASE fs.parent[m] = n
          BY <1>4, <3>1
    <3>2. CASE fs.parent[m] # n
          BY <1>3, <1>4, <1>9, <3>2
    <3> QED
        BY <3>1, <3>2
  <2>9. phase' = "failed" => fs.kind[n] = "gone" /\ n \in Nodes
        BY <1>4, <1>5
  <2> QED
      BY <1>1, <1>5, <2>1, <2>2, <2>3, <2>4, <2>5, <2>6, <2>7, <2>8, <2>9 DEF ListInv
<1>12. CountInv'
  <2>1. \A o : IsFiniteSet(Kids(o))
        BY <1>1, KidsFinite
  <2>2. \A e \in DOMAIN ent : ent[e].nChild = Cardinality(Kids(e) \ {})
        BY <1>2 DEF IInv, CountInv
  <2>3. \A e \in DOMAIN ent' : ent'[e].nChild = Cardinality(Kids(e)')
    <3> SUFFICES ASSUME NEW e \in DOMAIN ent' PROVE ent'[e].nChild = Cardinality(Kids(e)')
        OBVIOUS
    <3>1. CASE e = n
      <4>1. Kids(e)' = {}
            BY <1>5, <1>9, <3>1
      <4> QED
          BY <1>9, <3>1, <4>1, FS_EmptySet
    <3>2. CASE e = d
      <4>1. Cardinality(Kids(e) \cup {n}) = Cardinality(Kids(e)) + 1
            BY <1>9, <2>1, FS_AddElement
      <4>2. Kids(e)' = Kids(e) \cup {n}
            BY <1>9, <3>2
      <4>3. ent[e].nChild = Cardinality(Kids(e))
            BY <1>5, <2>2, <3>2
      <4> QED
          BY <1>5, <1>9, <3>2, <4>1, <4>2, <4>3
    <3>3. CASE e # n /\ e # d
      <4>1. Kids(e)' = Kids(e) /\ e \in DOMAIN ent /\ ent'[e].nChild = ent[e].nChild
            BY <1>9, <3>3
      <4> QED
          BY <2>2, <4>1
    <3> QED
        BY <3>1, <3>2, <3>3
  <2> QED
      BY <1>1, <1>2, <2>3 DEF CountInv
<1>13. VisitedInv'
  <2>1. Visited' = {}
        BY <1>1, <1>2 DEF Visited
  <2>2. visited' = <<>> /\ visited' \in Seq(Nat) /\ freed' = {} /\ VisitedOnce'
        BY <1>1, <1>2 DEF VisitedOnce
  <2> QED
      BY <1>5, <2>1, <2>2 DEF VisitedInv, ListPhases, FreePhases
<1>14. WholeFreed'
       BY <1>1, <1>2 DEF WholeFreed
<1>15. \E r \in [DOMAIN ent' -> Nat] : \E b \in Nat : Ranked(r, b)'
       BY <1>5, <1>9 DEF Ranked, WalkPhases, FreePhases
<1> QED
    BY <1>10, <1>11, <1>12, <1>13, <1>14, <1>15 DEF IInv

LEMMA SameEntries ==
  ASSUME fs' = fs, ent' = ent
  PROVE  /\ \A e : Kids(e)' = Kids(e)
         /\ \A r, b : Chain(r, b)' <=> Chain(r, b)
<1>1. \A e : Kids(e)' = Kids(e)
      BY DEF Kids
<1>2. \A r, b : Chain(r, b)' <=> Chain(r, b)
      BY <1>1 DEF Chain
<1> QED
    BY <1>1, <1>2

LEMMA NoMoreEntriesStep ==
  ASSUME IInv, NoMoreEntries
  PROVE  IInv'
<1> USE DEF lists
<1>1. /\ TreeOK(fs) /\ TreeOK(fs') /\ fs' = fs /\ Nodes' = Nodes /\ Reached' = Reached /\ DepthOf' = DepthOf
      /\ phase = "list" /\ visited' = visited /\ freed' = freed /\ ent' = ent
      /\ Unlisted(curr) = {} /\ open' = open \ {curr} /\ curr' = fs.parent[curr]
      /\ phase' = IF curr' = NULL THEN "listed" ELSE "list"
      /\ DOMAIN ent \subseteq Nodes /\ ent \in [DOMAIN ent -> Entry]
      /\ Root \in DOMAIN ent
  <2>1. fs' = fs
        BY DEF NoMoreEntries
  <2> QED
      BY <2>1, TreeStays DEF NoMoreEntries, IInv, Types
<1>2. visited = <<>> /\ freed = {} /\ Visited = {}
      BY <1>1 DEF IInv, VisitedInv, ListPhases, FreePhases, Visited
<1>3. /\ \A m \in DOMAIN ent : Reached[m]
      /\ \A m \in DOMAIN ent \ {Root} : fs.parent[m] \in DOMAIN ent
      /\ IsPath(open, curr) /\ open \subseteq DOMAIN ent /\ curr \in open
      /\ \A d \in open : fs.kind[d] = "dir"
      /\ Cardinality(open) = DepthOf[curr] + 1
      /\ \A m \in Nodes \ {Root} :
           fs.parent[m] \in DOMAIN ent /\ fs.kind[fs.parent[m]] = "dir" =>
             m \in DOMAIN ent \/ fs.parent[m] \in open
      BY <1>1 DEF IInv, ListInv, IsPath
<1>4. fs.parent[Root] = NULL /\ \A m \in DOMAIN ent : m # NULL
      BY <1>1, TreeFacts DEF NULL
<1>5. curr \in DOMAIN ent /\ (curr = Root <=> curr' = NULL) /\ curr' \in {NULL} \cup DOMAIN ent
      BY <1>1, <1>3, <1>4
<1>6. phase' \in {"list", "listed"} /\ (phase' = "listed" <=> curr = Root)
      BY <1>1, <1>5
<1>7. Types'
      BY <1>1, <1>5, <1>6 DEF Types, ListPhases
<1>8. ListInv'
  <2>1. curr # Root => IsPath(open', curr')
        BY <1>1, <1>3, PathUp
  <2>2. curr = Root => open' = {}
        BY <1>1, <1>3, PathToRoot
  <2>3. IsPath(open, curr)' <=> IsPath(open', curr')
        BY <1>1, PathStays
  <2>4. curr # Root => Cardinality(open') = DepthOf[curr'] + 1
    <3>1. IsFiniteSet(open)
          BY <1>1, <1>3, NodesFinite, FS_Subset
    <3>2. Cardinality(open \ {curr}) = Cardinality(open) - 1
          BY <1>3, <3>1, FS_RemoveElement
    <3>3. curr # Root => DepthOf[curr] = DepthOf[fs.parent[curr]] + 1 /\ DepthOf[fs.parent[curr]] \in Nat
          BY <1>1, <1>5, DepthFacts, TreeFacts
    <3> QED
        BY <1>1, <1>3, <3>2, <3>3
  <2>5. \A m \in Nodes \ {Root} :
          fs.parent[m] \in DOMAIN ent /\ fs.kind[fs.parent[m]] = "dir" =>
            m \in DOMAIN ent \/ fs.parent[m] \in open'
    <3> SUFFICES ASSUME NEW m \in Nodes \ {Root}, fs.parent[m] \in DOMAIN ent, fs.kind[fs.parent[m]] = "dir",
                        m \notin DOMAIN ent
                 PROVE  fs.parent[m] \in open'
        OBVIOUS
    <3>1. fs.parent[m] # curr
          BY <1>1 DEF Unlisted, Nodes
    <3> QED
        BY <1>1, <1>3, <3>1
  <2>6. \A d \in open' : d \in open
        BY <1>1
  <2> QED
      BY <1>1, <1>3, <1>6, <2>1, <2>2, <2>3, <2>4, <2>5, <2>6 DEF ListInv
<1>9. CountInv' /\ WholeFreed'
      BY <1>1, SameEntries DEF IInv, CountInv, WholeFreed
<1>10. VisitedInv'
  <2>1. Visited' = {}
        BY <1>1, <1>2 DEF Visited
  <2>2. visited' = <<>> /\ visited' \in Seq(Nat) /\ freed' = {} /\ VisitedOnce'
        BY <1>1, <1>2 DEF VisitedOnce
  <2> QED
      BY <1>6, <2>1, <2>2 DEF VisitedInv, ListPhases, FreePhases
<1>11. \E r \in [DOMAIN ent' -> Nat] : \E b \in Nat : Ranked(r, b)'
  <2>1. PICK r \in [DOMAIN ent -> Nat] : \E b \in Nat : Ranked(r, b)
        BY DEF IInv
  <2>2. PICK b \in Nat : Ranked(r, b)
        BY <2>1
  <2>3. Chain(r, b)'
        BY <1>1, <2>2, SameEntries DEF Ranked
  <2> QED
      BY <1>1, <1>6, <2>1, <2>2, <2>3 DEF Ranked, WalkPhases, FreePhases
<1> QED
    BY <1>7, <1>8, <1>9, <1>10, <1>11 DEF IInv

----------------------------------------------------------------------------
(* The walk, from one entry to the next.                                    *)

LEMMA WalkStarts ==
  ASSUME TreeOK(fs), DOMAIN ent \subseteq Nodes, Root \in DOMAIN ent,
         NEW rank \in [DOMAIN ent -> Nat], NEW bound, Chain(rank, bound),
         NEW c, c = ent[Root].child, c # NULL
  PROVE  c \in DOMAIN ent /\ Walking(rank, {Root} \cup {c}, c, {}, "visit")
<1>1. c \in Kids(Root) /\ \A k \in Kids(Root) : rank[k] <= rank[c]
      BY DEF Chain
<1>2. c \in DOMAIN ent /\ fs.parent[c] = Root /\ \A k \in Kids(Root) : rank[k] \in Nat /\ rank[c] \in Nat
      BY <1>1 DEF Kids
<1>3. c # Root
      BY <1>2, TreeFacts DEF Root
<1>4. IsPath({Root} \cup {c}, c)
      BY <1>2, <1>3, PathRoot, PathDown
<1> QED
    BY <1>1, <1>2, <1>3, <1>4 DEF Walking

LEMMA WalkVisits ==
  ASSUME TreeOK(fs), DOMAIN ent \subseteq Nodes, NEW rank \in [DOMAIN ent -> Nat],
         NEW S, NEW c, NEW V, Walking(rank, S, c, V, "visit")
  PROVE  /\ c \in DOMAIN ent /\ c \notin V /\ fs.parent[c] \in V \cup {Root}
         /\ Walking(rank, S, c, V \cup {c}, "callback")
<1>1. /\ IsPath(S, c) /\ S \subseteq DOMAIN ent /\ c \in S /\ fs.parent[c] \in S /\ c # Root
      /\ \A d \in S \ {Root} : fs.parent[d] \in S
      BY DEF Walking, IsPath
<1>2. \A a \in S \ {Root} : a \in Kids(fs.parent[a]) /\ fs.parent[a] # a /\ rank[a] \in Nat
      BY <1>1, TreeFacts DEF Kids
<1>3. \A a \in S \ {Root} : a # c => fs.parent[a] # fs.parent[c]
      BY <1>1, PathChild
<1>4. c \notin V
      BY <1>1, <1>2 DEF Walking
<1>5. fs.parent[c] \in V \cup {Root}
  <2>1. SUFFICES ASSUME fs.parent[c] # Root PROVE fs.parent[c] \in V
        OBVIOUS
  <2>2. fs.parent[c] \in S \ {Root} /\ fs.parent[c] # c
        BY <1>1, <1>2, <2>1
  <2> QED
      BY <1>2, <2>2 DEF Walking
<1>6. \A a \in S \ {Root} : \A k \in Kids(fs.parent[a]) : k \in V \cup {c} <=> rank[a] < rank[k] \/ k = a
  <2> SUFFICES ASSUME NEW a \in S \ {Root}, NEW k \in Kids(fs.parent[a])
               PROVE  k \in V \cup {c} <=> rank[a] < rank[k] \/ k = a
      OBVIOUS
  <2>1. CASE a = c
        BY <2>1 DEF Walking
  <2>2. CASE a # c
    <3>1. k # c
          BY <1>3, <2>2 DEF Kids
    <3> QED
        BY <2>2, <3>1 DEF Walking
  <2> QED
      BY <2>1, <2>2
<1>7. \A k \in Kids(c) : k \notin V \cup {c}
  <2>1. c \notin Kids(c)
        BY <1>1, <1>2 DEF Kids
  <2> QED
      BY <2>1 DEF Walking
<1> QED
    BY <1>1, <1>4, <1>5, <1>6, <1>7 DEF Walking

LEMMA WalkDown ==
  ASSUME TreeOK(fs), DOMAIN ent \subseteq Nodes, NEW rank \in [DOMAIN ent -> Nat], NEW bound, Chain(rank, bound),
         NEW S, NEW c, NEW V, Walking(rank, S, c, V, "callback"),
         NEW n, n = ent[c].child, n # NULL
  PROVE  n \in DOMAIN ent /\ n # Root /\ Walking(rank, S \cup {n}, n, V, "visit")
<1>1. c \in DOMAIN ent /\ IsPath(S, c) /\ S \subseteq DOMAIN ent
      BY DEF Walking, IsPath
<1>2. n \in Kids(c) /\ \A k \in Kids(c) : rank[k] <= rank[n]
      BY <1>1 DEF Chain
<1>3. n \in DOMAIN ent /\ fs.parent[n] = c /\ \A k \in Kids(c) : rank[k] \in Nat /\ rank[n] \in Nat
      BY <1>2 DEF Kids
<1>4. n # Root
      BY <1>1, <1>3, TreeFacts
<1>5. IsPath(S \cup {n}, n) /\ n \notin S
      BY <1>1, <1>3, <1>4, PathDown
<1>6. \A k \in Kids(c) : k \notin V
      BY DEF Walking
<1>7. n \notin V
      BY <1>2, <1>6
<1>8. \A a \in (S \cup {n}) \ {Root} : \A k \in Kids(fs.parent[a]) :
        k \in V <=> rank[a] < rank[k] \/ (k = a /\ ~ (a = n))
  <2> SUFFICES ASSUME NEW a \in (S \cup {n}) \ {Root}, NEW k \in Kids(fs.parent[a])
               PROVE  k \in V <=> rank[a] < rank[k] \/ (k = a /\ ~ (a = n))
      OBVIOUS
  <2>1. CASE a = n
        BY <1>2, <1>3, <1>6, <2>1
  <2>2. CASE a # n
        BY <2>2 DEF Walking
  <2> QED
      BY <2>1, <2>2
<1>9. \A k \in Kids(n) : k \notin V
  <2> SUFFICES ASSUME NEW k \in Kids(n), k \in V PROVE FALSE
      OBVIOUS
  <2>1. fs.parent[k] \in V \cup {Root} /\ fs.parent[k] = n
        BY DEF Walking, Kids
  <2> QED
      BY <1>4, <1>7, <2>1
<1> QED
    BY <1>1, <1>3, <1>4, <1>5, <1>7, <1>8, <1>9 DEF Walking

LEMMA WalkLeaf ==
  ASSUME NEW rank, NEW S, NEW c, NEW V, Walking(rank, S, c, V, "callback"), \A k : k \notin Kids(c)
  PROVE  Walking(rank, S, c, V, "climb")
BY DEF Walking

LEMMA WalkAcross ==
  ASSUME TreeOK(fs), DOMAIN ent \subseteq Nodes, NEW rank \in [DOMAIN ent -> Nat], NEW bound, Chain(rank, bound),
         NEW S, NEW c, NEW V, Walking(rank, S, c, V, "climb"),
         NEW n, n = ent[c].next, n # NULL
  PROVE  n \in DOMAIN ent /\ n # Root /\ Walking(rank, (S \ {c}) \cup {n}, n, V, "visit")
<1>1. c \in DOMAIN ent /\ IsPath(S, c) /\ S \subseteq DOMAIN ent /\ c \in S
      BY DEF Walking, IsPath
<1>2. /\ c # Root /\ n \in Kids(fs.parent[c]) /\ rank[n] < rank[c]
      /\ \A k \in Kids(fs.parent[c]) : rank[c] <= rank[k] \/ rank[k] <= rank[n]
      BY <1>1 DEF Chain
<1>3. /\ n \in DOMAIN ent /\ fs.parent[n] = fs.parent[c] /\ rank[c] \in Nat /\ rank[n] \in Nat /\ n # c
      /\ \A k \in Kids(fs.parent[c]) : rank[k] \in Nat /\ k \in DOMAIN ent
  <2>1. n \in DOMAIN ent /\ fs.parent[n] = fs.parent[c] /\ \A k \in Kids(fs.parent[c]) : k \in DOMAIN ent
        BY <1>2 DEF Kids
  <2>2. \A k \in DOMAIN ent : rank[k] \in Nat
        OBVIOUS
  <2>3. rank[c] \in Nat /\ rank[n] \in Nat
        BY <1>1, <2>1, <2>2
  <2>4. n # c
        BY <1>2, <2>3
  <2> QED
      BY <1>1, <2>1, <2>2, <2>3, <2>4
<1>4. n # Root
      BY <1>1, <1>2, <1>3, PathUp, TreeFacts DEF Root
<1>5. IsPath((S \ {c}) \cup {n}, n) /\ n \notin S \ {c}
      BY <1>1, <1>2, <1>3, <1>4, PathAcross
<1>6. \A k \in Kids(fs.parent[c]) : k \in V <=> rank[c] < rank[k] \/ k = c
      BY <1>1, <1>2 DEF Walking
<1>7. n \notin V
      BY <1>2, <1>3, <1>6
<1>8. \A a \in ((S \ {c}) \cup {n}) \ {Root} : \A k \in Kids(fs.parent[a]) :
        k \in V <=> rank[a] < rank[k] \/ (k = a /\ ~ (a = n))
  <2> SUFFICES ASSUME NEW a \in ((S \ {c}) \cup {n}) \ {Root}, NEW k \in Kids(fs.parent[a])
               PROVE  k \in V <=> rank[a] < rank[k] \/ (k = a /\ ~ (a = n))
      OBVIOUS
  <2>1. CASE a = n
    <3>1. rank[c] = rank[k] => c = k
          BY <1>1, <1>3, <2>1 DEF Chain
    <3> QED
        BY <1>2, <1>3, <1>6, <2>1, <3>1
  <2>2. CASE a # n
        BY <2>2 DEF Walking
  <2> QED
      BY <2>1, <2>2
<1>9. \A k \in Kids(n) : k \notin V
  <2> SUFFICES ASSUME NEW k \in Kids(n), k \in V PROVE FALSE
      OBVIOUS
  <2>1. fs.parent[k] \in V \cup {Root} /\ fs.parent[k] = n
        BY DEF Walking, Kids
  <2> QED
      BY <1>4, <1>7, <2>1
<1>10. \A v \in V \ ((S \ {c}) \cup {n}) : Kids(v) \subseteq V
  <2>1. Kids(c) \subseteq V
        BY DEF Walking
  <2> QED
      BY <2>1 DEF Walking
<1> QED
    BY <1>1, <1>3, <1>4, <1>5, <1>8, <1>9, <1>10 DEF Walking

LEMMA WalkUp ==
  ASSUME TreeOK(fs), DOMAIN ent \subseteq Nodes, NEW rank \in [DOMAIN ent -> Nat], NEW bound, Chain(rank, bound),
         NEW S, NEW c, NEW V, Walking(rank, S, c, V, "climb"), ent[c].next = NULL, c # Root
  PROVE  fs.parent[c] \in DOMAIN ent /\ Walking(rank, S \ {c}, fs.parent[c], V, "climb")
<1>1. c \in DOMAIN ent /\ IsPath(S, c) /\ S \subseteq DOMAIN ent /\ c \in S /\ fs.parent[c] \in S
      BY DEF Walking, IsPath
<1>2. \A k \in Kids(fs.parent[c]) : rank[c] <= rank[k] /\ rank[k] \in Nat /\ k \in DOMAIN ent /\ rank[c] \in Nat
      BY <1>1 DEF Chain, Kids
<1>3. IsPath(S \ {c}, fs.parent[c])
      BY <1>1, PathUp
<1>4. \A k \in Kids(fs.parent[c]) : k \in V
  <2> SUFFICES ASSUME NEW k \in Kids(fs.parent[c]) PROVE k \in V
      OBVIOUS
  <2>1. rank[c] = rank[k] => c = k
        BY <1>1, <1>2 DEF Chain
  <2> QED
      BY <1>1, <1>2, <2>1 DEF Walking
<1>5. \A v \in V \ (S \ {c}) : Kids(v) \subseteq V
  <2>1. Kids(c) \subseteq V
        BY DEF Walking
  <2> QED
      BY <2>1 DEF Walking
<1>6. \A a \in (S \ {c}) \ {Root} : \A k \in Kids(fs.parent[a]) : k \in V <=> rank[a] < rank[k] \/ k = a
      BY DEF Walking
<1> QED
    BY <1>1, <1>3, <1>4, <1>5, <1>6 DEF Walking

LEMMA WalkEnds ==
  ASSUME TreeOK(fs), DOMAIN ent \subseteq Nodes, \A m \in DOMAIN ent \ {Root} : fs.parent[m] \in DOMAIN ent,
         NEW rank, NEW S, NEW V, Walking(rank, S, Root, V, "climb")
  PROVE  DOMAIN ent \ {Root} \subseteq V
<1>1. \A v \in V \cup {Root} : Kids(v) \subseteq V
  <2>1. Kids(Root) \subseteq V
        BY DEF Walking
  <2>2. \A d \in S : d = Root
        BY PathToRoot DEF Walking
  <2> QED
      BY <2>1, <2>2 DEF Walking
<1> DEFINE T == {n \in Nodes : n \in DOMAIN ent => n \in V \cup {Root}}
<1>2. Root \in T
      BY TreeFacts
<1>3. ASSUME NEW n \in Nodes \ {Root}, fs.parent[n] \in T
      PROVE  n \in T
  <2>1. SUFFICES ASSUME n \in DOMAIN ent PROVE n \in V
        OBVIOUS
  <2>2. fs.parent[n] \in V \cup {Root} /\ n \in Kids(fs.parent[n])
        BY <1>3, <2>1 DEF Kids
  <2> QED
      BY <1>1, <2>2
<1> HIDE DEF T
<1>4. Nodes \subseteq T
      BY <1>2, <1>3, DownTheTree
<1> QED
    BY <1>4 DEF T

----------------------------------------------------------------------------
(* The second walk, from one entry to the next.                             *)

LEMMA FreeStarts ==
  ASSUME TreeOK(fs), DOMAIN ent \subseteq Nodes, Root \in DOMAIN ent, NEW rank
  PROVE  Freeing(rank, {Root}, Root, {}, "free")
<1>1. IsPath({Root}, Root)
      BY PathRoot
<1> QED
    BY <1>1 DEF Freeing

LEMMA NotFreed ==
  ASSUME TreeOK(fs), DOMAIN ent \subseteq Nodes, NEW rank \in [DOMAIN ent -> Nat],
         NEW S, NEW c, NEW X, NEW where, Freeing(rank, S, c, X, where)
  PROVE  c \in DOMAIN ent /\ \A a \in S : a \notin X
<1>1. c \in DOMAIN ent /\ S \subseteq DOMAIN ent /\ \A a \in S \ {Root} : a \in Kids(fs.parent[a]) /\ rank[a] \in Nat
      BY DEF Freeing, IsPath, Kids
<1>2. \A a \in S \ {Root} : ~ (rank[a] < rank[a])
      BY <1>1
<1> QED
    BY <1>1, <1>2 DEF Freeing

LEMMA FreeDown ==
  ASSUME TreeOK(fs), DOMAIN ent \subseteq Nodes, NEW rank \in [DOMAIN ent -> Nat], NEW bound, Chain(rank, bound),
         NEW S, NEW c, NEW X, Freeing(rank, S, c, X, "free"),
         NEW n, n = ent[c].child, n # NULL
  PROVE  n \in DOMAIN ent /\ Freeing(rank, S \cup {n}, n, X, "free")
<1>1. c \in DOMAIN ent /\ IsPath(S, c) /\ S \subseteq DOMAIN ent
      BY DEF Freeing, IsPath
<1>2. n \in Kids(c) /\ \A k \in Kids(c) : rank[k] <= rank[n]
      BY <1>1 DEF Chain
<1>3. n \in DOMAIN ent /\ fs.parent[n] = c /\ \A k \in Kids(c) : rank[k] \in Nat /\ rank[n] \in Nat
      BY <1>2 DEF Kids
<1>4. n # Root
      BY <1>1, <1>3, TreeFacts
<1>5. IsPath(S \cup {n}, n) /\ n \notin S
      BY <1>1, <1>3, <1>4, PathDown
<1>6. \A k \in Kids(c) : k \notin X
      BY DEF Freeing
<1>7. \A a \in (S \cup {n}) \ {Root} : \A k \in Kids(fs.parent[a]) : k \in X <=> rank[a] < rank[k]
  <2> SUFFICES ASSUME NEW a \in (S \cup {n}) \ {Root}, NEW k \in Kids(fs.parent[a])
               PROVE  k \in X <=> rank[a] < rank[k]
      OBVIOUS
  <2>1. CASE a = n
        BY <1>2, <1>3, <1>6, <2>1
  <2>2. CASE a # n
        BY <2>2 DEF Freeing
  <2> QED
      BY <2>1, <2>2
<1>8. \A k \in Kids(n) : k \notin X
  <2> SUFFICES ASSUME NEW k \in Kids(n), k \in X PROVE FALSE
      OBVIOUS
  <2>1. fs.parent[k] \in X \cup S /\ fs.parent[k] = n
        BY DEF Freeing, Kids
  <2> QED
      BY <1>2, <1>5, <1>6, <2>1
<1> QED
    BY <1>1, <1>3, <1>5, <1>7, <1>8 DEF Freeing

LEMMA FreeLeaf ==
  ASSUME NEW rank, NEW S, NEW c, NEW X, Freeing(rank, S, c, X, "free"), \A k \in Kids(c) : k \in X
  PROVE  Freeing(rank, S, c, X, "freeup")
BY DEF Freeing

LEMMA FreeAcross ==
  ASSUME TreeOK(fs), DOMAIN ent \subseteq Nodes, NEW rank \in [DOMAIN ent -> Nat], NEW bound, Chain(rank, bound),
         NEW S, NEW c, NEW X, Freeing(rank, S, c, X, "freeup"),
         NEW n, n = ent[c].next, n # NULL
  PROVE  n \in DOMAIN ent /\ Freeing(rank, (S \ {c}) \cup {n}, n, X \cup {c}, "free")
<1>1. c \in DOMAIN ent /\ IsPath(S, c) /\ S \subseteq DOMAIN ent /\ c \in S
      BY DEF Freeing, IsPath
<1>2. /\ c # Root /\ n \in Kids(fs.parent[c]) /\ rank[n] < rank[c]
      /\ \A k \in Kids(fs.parent[c]) : rank[c] <= rank[k] \/ rank[k] <= rank[n]
      BY <1>1 DEF Chain
<1>3. /\ n \in DOMAIN ent /\ fs.parent[n] = fs.parent[c] /\ rank[c] \in Nat /\ rank[n] \in Nat /\ n # c
      /\ \A k \in Kids(fs.parent[c]) : rank[k] \in Nat /\ k \in DOMAIN ent
  <2>1. n \in DOMAIN ent /\ fs.parent[n] = fs.parent[c] /\ \A k \in Kids(fs.parent[c]) : k \in DOMAIN ent
        BY <1>2 DEF Kids
  <2>2. \A k \in DOMAIN ent : rank[k] \in Nat
        OBVIOUS
  <2>3. rank[c] \in Nat /\ rank[n] \in Nat
        BY <1>1, <2>1, <2>2
  <2>4. n # c
        BY <1>2, <2>3
  <2> QED
      BY <1>1, <2>1, <2>2, <2>3, <2>4
<1>4. n # Root
      BY <1>1, <1>2, <1>3, PathUp, TreeFacts DEF Root
<1>5. IsPath((S \ {c}) \cup {n}, n) /\ n \notin S \ {c}
      BY <1>1, <1>2, <1>3, <1>4, PathAcross
<1>6. fs.parent[c] \in S \ {c} /\ IsPath(S \ {c}, fs.parent[c])
      BY <1>1, <1>2, PathUp DEF IsPath
<1>7. \A k \in Kids(fs.parent[c]) : k \in X <=> rank[c] < rank[k]
      BY <1>1, <1>2 DEF Freeing
<1>8. n \notin X
      BY <1>2, <1>3, <1>7
<1>9. \A a \in ((S \ {c}) \cup {n}) \ {Root} : \A k \in Kids(fs.parent[a]) :
        k \in X \cup {c} <=> rank[a] < rank[k]
  <2> SUFFICES ASSUME NEW a \in ((S \ {c}) \cup {n}) \ {Root}, NEW k \in Kids(fs.parent[a])
               PROVE  k \in X \cup {c} <=> rank[a] < rank[k]
      OBVIOUS
  <2>1. CASE a = n
    <3>1. rank[c] = rank[k] => c = k
          BY <1>1, <1>3, <2>1 DEF Chain
    <3> QED
        BY <1>2, <1>3, <1>7, <2>1, <3>1
  <2>2. CASE a # n
    <3>1. a \in S \ {Root} /\ c \in S \ {Root} /\ a # c
          BY <1>1, <1>2, <2>2
    <3>2. fs.parent[a] # fs.parent[c]
          BY <1>1, <3>1, PathChild
    <3>3. k # c
          BY <3>2 DEF Kids
    <3> QED
        BY <3>1, <3>3 DEF Freeing
  <2> QED
      BY <2>1, <2>2
<1>10. \A k \in Kids(n) : k \notin X \cup {c}
  <2> SUFFICES ASSUME NEW k \in Kids(n), k \in X \cup {c} PROVE FALSE
      OBVIOUS
  <2>1. fs.parent[k] \in X \cup S /\ fs.parent[k] = n
        BY <1>6 DEF Freeing, Kids
  <2>2. n \in S
        BY <1>8, <2>1
  <2> QED
      BY <1>3, <1>5, <2>2
<1>11. \A v \in X \cup {c} : fs.parent[v] \in (X \cup {c}) \cup ((S \ {c}) \cup {n})
       BY <1>6 DEF Freeing
<1> QED
    BY <1>1, <1>2, <1>3, <1>5, <1>9, <1>10, <1>11 DEF Freeing

LEMMA FreeUpwards ==
  ASSUME TreeOK(fs), DOMAIN ent \subseteq Nodes, NEW rank \in [DOMAIN ent -> Nat], NEW bound, Chain(rank, bound),
         NEW S, NEW c, NEW X, Freeing(rank, S, c, X, "freeup"), ent[c].next = NULL, c # Root
  PROVE  fs.parent[c] \in DOMAIN ent /\ Freeing(rank, S \ {c}, fs.parent[c], X \cup {c}, "freeup")
<1>1. c \in DOMAIN ent /\ IsPath(S, c) /\ S \subseteq DOMAIN ent /\ c \in S /\ fs.parent[c] \in S
      BY DEF Freeing, IsPath
<1>2. \A k \in Kids(fs.parent[c]) : rank[c] <= rank[k] /\ rank[k] \in Nat /\ k \in DOMAIN ent /\ rank[c] \in Nat
      BY <1>1 DEF Chain, Kids
<1>3. IsPath(S \ {c}, fs.parent[c]) /\ fs.parent[c] \in S \ {c}
      BY <1>1, PathUp DEF IsPath
<1>4. \A k \in Kids(fs.parent[c]) : k \in X \cup {c}
  <2> SUFFICES ASSUME NEW k \in Kids(fs.parent[c]) PROVE k \in X \cup {c}
      OBVIOUS
  <2>1. rank[c] = rank[k] => c = k
        BY <1>1, <1>2 DEF Chain
  <2> QED
      BY <1>1, <1>2, <2>1 DEF Freeing
<1>5. \A a \in (S \ {c}) \ {Root} : \A k \in Kids(fs.parent[a]) : k \in X \cup {c} <=> rank[a] < rank[k]
  <2> SUFFICES ASSUME NEW a \in (S \ {c}) \ {Root}, NEW k \in Kids(fs.parent[a])
               PROVE  k \in X \cup {c} <=> rank[a] < rank[k]
      OBVIOUS
  <2>1. fs.parent[a] # fs.parent[c]
        BY <1>1, PathChild
  <2>2. k # c
        BY <2>1 DEF Kids
  <2> QED
      BY <2>2 DEF Freeing
<1>6. \A v \in X \cup {c} : fs.parent[v] \in (X \cup {c}) \cup (S \ {c})
      BY <1>3 DEF Freeing
<1> QED
    BY <1>1, <1>3, <1>4, <1>5, <1>6 DEF Freeing

LEMMA FreeEnds ==
  ASSUME TreeOK(fs), DOMAIN ent \subseteq Nodes, \A m \in DOMAIN ent \ {Root} : fs.parent[m] \in DOMAIN ent,
         NEW X, Root \in X, \A v \in X : Kids(v) \subseteq X
  PROVE  DOMAIN ent \subseteq X
<1> DEFINE T == {n \in Nodes : n \in DOMAIN ent => n \in X}
<1>1. Root \in T
      BY TreeFacts
<1>2. ASSUME NEW n \in Nodes \ {Root}, fs.parent[n] \in T
      PROVE  n \in T
  <2>1. SUFFICES ASSUME n \in DOMAIN ent PROVE n \in X
        OBVIOUS
  <2>2. fs.parent[n] \in X /\ n \in Kids(fs.parent[n])
        BY <1>2, <2>1 DEF Kids
  <2> QED
      BY <2>2
<1> HIDE DEF T
<1>3. Nodes \subseteq T
      BY <1>1, <1>2, DownTheTree
<1> QED
    BY <1>3 DEF T

----------------------------------------------------------------------------
(* What the steps of the two walks leave alone.                             *)

Walks == WalkPhases \cup FreePhases \cup {"listed", "fini", "done"}

LEMMA ShapeStays ==
  ASSUME fs' = fs, DOMAIN ent' = DOMAIN ent,
         \A e \in DOMAIN ent : ent'[e].child = ent[e].child /\ ent'[e].next = ent[e].next
  PROVE  /\ \A e : Kids(e)' = Kids(e)
         /\ \A r, b : Chain(r, b)' <=> Chain(r, b)
         /\ \A r, S, c, V, w : Walking(r, S, c, V, w)' <=> Walking(r, S, c, V, w)
         /\ \A r, S, c, V, w : Freeing(r, S, c, V, w)' <=> Freeing(r, S, c, V, w)
<1>1. \A e : Kids(e)' = Kids(e)
      BY DEF Kids
<1>2. \A S, c : IsPath(S, c)' <=> IsPath(S, c)
      BY PathStays
<1>3. ASSUME NEW r, NEW b PROVE Chain(r, b)' <=> Chain(r, b)
  <2>1. \A d : \A k \in Kids(d) : k \in DOMAIN ent
        BY DEF Kids
  <2> QED
      BY <1>1, <2>1 DEF Chain
<1>4. ASSUME NEW r, NEW S, NEW c, NEW V, NEW w
      PROVE  Walking(r, S, c, V, w)' <=> Walking(r, S, c, V, w)
      BY <1>1, <1>2 DEF Walking
<1>5. ASSUME NEW r, NEW S, NEW c, NEW V, NEW w
      PROVE  Freeing(r, S, c, V, w)' <=> Freeing(r, S, c, V, w)
      BY <1>1, <1>2 DEF Freeing
<1> QED
    BY <1>1, <1>3, <1>4, <1>5

LEMMA RankedNext ==
  ASSUME fs' = fs, DOMAIN ent' = DOMAIN ent,
         \A e \in DOMAIN ent : ent'[e].child = ent[e].child /\ ent'[e].next = ent[e].next,
         NEW rank \in [DOMAIN ent -> Nat], NEW bound \in Nat, Chain(rank, bound),
         phase' \in WalkPhases /\ curr' # NULL => \E S : Walking(rank, S, curr', Visited', phase'),
         phase' \in FreePhases /\ curr' # NULL => \E S : Freeing(rank, S, curr', freed', phase')
  PROVE  \E r \in [DOMAIN ent' -> Nat] : \E b \in Nat : Ranked(r, b)'
<1>1. Nodes' = Nodes
      BY TreeStays
<1>2. Chain(rank, bound)'
      BY ShapeStays
<1>3. \A S, c, V, w : Walking(rank, S, c, V, w) => S \in SUBSET Nodes /\ Walking(rank, S, c, V, w)'
  <2>1. \A S, c, V, w : Walking(rank, S, c, V, w) => Walking(rank, S, c, V, w)'
        BY ShapeStays
  <2>2. \A S, c, V, w : Walking(rank, S, c, V, w) => S \in SUBSET Nodes
        BY DEF Walking, IsPath
  <2> QED
      BY <2>1, <2>2
<1>4. \A S, c, V, w : Freeing(rank, S, c, V, w) => S \in SUBSET Nodes /\ Freeing(rank, S, c, V, w)'
  <2>1. \A S, c, V, w : Freeing(rank, S, c, V, w) => Freeing(rank, S, c, V, w)'
        BY ShapeStays
  <2>2. \A S, c, V, w : Freeing(rank, S, c, V, w) => S \in SUBSET Nodes
        BY DEF Freeing, IsPath
  <2> QED
      BY <2>1, <2>2
<1>5. phase' \in WalkPhases /\ curr' # NULL => \E S \in SUBSET Nodes' : Walking(rank, S, curr, Visited, phase)'
      BY <1>1, <1>3
<1>6. phase' \in FreePhases /\ curr' # NULL => \E S \in SUBSET Nodes' : Freeing(rank, S, curr, freed, phase)'
      BY <1>1, <1>4
<1>7. Ranked(rank, bound)'
      BY <1>2, <1>5, <1>6 DEF Ranked, WalkPhases, FreePhases
<1> QED
    BY <1>7

LEMMA ListInvStays ==
  ASSUME IInv, fs' = fs, DOMAIN ent' = DOMAIN ent, open' = open, phase \in Walks, phase' \in Walks
  PROVE  ListInv'
<1>1. Nodes' = Nodes /\ Reached' = Reached
      BY TreeStays
<1> QED
    BY <1>1 DEF IInv, ListInv, Walks, WalkPhases, FreePhases

LEMMA WalkFrame ==
  ASSUME IInv, fs' = fs, ent' = ent, open' = open, freed' = freed, phase \in Walks, phase' \in Walks,
         curr' \in {NULL} \cup DOMAIN ent, phase' \in {"visit", "callback", "free"} => curr' # NULL
  PROVE  Types' /\ ListInv' /\ CountInv' /\ WholeFreed'
<1>1. ListInv'
      BY ListInvStays
<1>2. CountInv' /\ WholeFreed'
      BY SameEntries DEF IInv, CountInv, WholeFreed
<1>3. Types'
  <2>1. Nodes' = Nodes
        BY TreeStays
  <2>2. TreeOK(fs')
        BY DEF IInv, Types
  <2> QED
      BY <2>1, <2>2 DEF IInv, Types, Walks, ListPhases, WalkPhases, FreePhases
<1> QED
    BY <1>1, <1>2, <1>3

LEMMA VisitedStays ==
  ASSUME fs' = fs, visited' = visited
  PROVE  Visited' = Visited /\ (VisitedOnce' <=> VisitedOnce)
BY DEF Visited, VisitedOnce

LEMMA VisitedGrows ==
  ASSUME fs' = fs, visited \in Seq(Nat), VisitedOnce, NEW c \in Nat, visited' = Append(visited, c),
         c \notin Visited, fs.parent[c] \in Visited \cup {Root}
  PROVE  visited' \in Seq(Nat) /\ Visited' = Visited \cup {c} /\ VisitedOnce'
<1> DEFINE n == Len(visited)
<1>1. /\ n \in Nat /\ DOMAIN visited = 1 .. n /\ DOMAIN visited' = 1 .. n + 1
      /\ \A i \in 1 .. n : visited'[i] = visited[i] /\ visited[i] \in Visited
      /\ visited'[n + 1] = c /\ visited' \in Seq(Nat)
      BY DEF Visited
<1> HIDE DEF n
<1>2. \A i \in 1 .. n + 1 : i \in 1 .. n \/ i = n + 1
      BY <1>1
<1>3. Visited' = Visited \cup {c}
  <2>1. Visited' = {visited'[i] : i \in 1 .. n + 1} /\ Visited = {visited[i] : i \in 1 .. n}
        BY <1>1 DEF Visited
  <2>2. \A i \in 1 .. n : i \in 1 .. n + 1
        BY <1>1
  <2>3. n + 1 \in 1 .. n + 1
        BY <1>1
  <2>4. \A x \in Visited : x \in Visited'
        BY <1>1, <2>1, <2>2
  <2>5. c \in Visited'
        BY <1>1, <2>1, <2>3
  <2>6. \A x \in Visited' : x \in Visited \cup {c}
        BY <1>1, <1>2, <2>1
  <2> QED
      BY <2>4, <2>5, <2>6
<1>4. \A i, j \in 1 .. n + 1 : visited'[i] = visited'[j] => i = j
  <2> SUFFICES ASSUME NEW i \in 1 .. n + 1, NEW j \in 1 .. n + 1, visited'[i] = visited'[j] PROVE i = j
      OBVIOUS
  <2>1. CASE i \in 1 .. n /\ j \in 1 .. n
    <3>1. visited[i] = visited[j]
          BY <1>1, <2>1
    <3> QED
        BY <1>1, <2>1, <3>1 DEF VisitedOnce
  <2>2. CASE i = n + 1 /\ j \in 1 .. n
        BY <1>1, <2>2
  <2>3. CASE i \in 1 .. n /\ j = n + 1
        BY <1>1, <2>3
  <2> QED
      BY <1>2, <2>1, <2>2, <2>3
<1>5. ASSUME NEW i \in 1 .. n + 1, fs.parent[visited'[i]] # Root
      PROVE  \E j \in 1 .. i - 1 : visited'[j] = fs.parent[visited'[i]]
  <2>1. CASE i \in 1 .. n
    <3>1. PICK j \in 1 .. i - 1 : visited[j] = fs.parent[visited[i]]
          BY <1>1, <1>5, <2>1 DEF VisitedOnce
    <3>2. j \in 1 .. n
          BY <1>1, <2>1, <3>1
    <3> QED
        BY <1>1, <2>1, <3>1, <3>2
  <2>2. CASE i = n + 1
    <3>1. PICK j \in 1 .. n : visited[j] = fs.parent[c]
          BY <1>1, <1>5, <2>2 DEF Visited
    <3> QED
        BY <1>1, <2>2, <3>1
  <2> QED
      BY <1>2, <2>1, <2>2
<1> QED
    BY <1>1, <1>3, <1>4, <1>5 DEF VisitedOnce

----------------------------------------------------------------------------
(* The steps of the walk.                                                   *)

LEMMA Facts ==
  ASSUME IInv
  PROVE  /\ TreeOK(fs) /\ DOMAIN ent \subseteq Nodes /\ ent \in [DOMAIN ent -> Entry] /\ curr \in {NULL} \cup DOMAIN ent
         /\ phase \in Walks => Root \in DOMAIN ent /\ \A m \in DOMAIN ent \ {Root} : fs.parent[m] \in DOMAIN ent
         /\ NULL \notin DOMAIN ent /\ NULL # Root /\ \A c \in DOMAIN ent : c \in Nat
         /\ visited \in Seq(Nat) /\ Visited \subseteq DOMAIN ent \ {Root} /\ VisitedOnce /\ freed \subseteq DOMAIN ent
         /\ phase \notin FreePhases \cup {"done"} => freed = {}
<1>1. TreeOK(fs) /\ DOMAIN ent \subseteq Nodes /\ ent \in [DOMAIN ent -> Entry] /\ curr \in {NULL} \cup DOMAIN ent
      BY DEF IInv, Types
<1>2. phase \in Walks => Root \in DOMAIN ent /\ \A m \in DOMAIN ent \ {Root} : fs.parent[m] \in DOMAIN ent
      BY DEF IInv, Types, ListInv, Walks, WalkPhases, FreePhases
<1>3. NULL \notin DOMAIN ent /\ NULL # Root /\ \A c \in DOMAIN ent : c \in Nat
      BY <1>1, TreeFacts DEF NULL, Root
<1> QED
    BY <1>1, <1>2, <1>3 DEF IInv, VisitedInv

LEMMA Order ==
  ASSUME IInv
  PROVE  \E rank \in [DOMAIN ent -> Nat] : \E bound \in Nat :
           /\ Chain(rank, bound)
           /\ phase \in WalkPhases /\ curr # NULL => \E S : Walking(rank, S, curr, Visited, phase)
           /\ phase \in FreePhases /\ curr # NULL => \E S : Freeing(rank, S, curr, freed, phase)
BY DEF IInv, Ranked

LEMMA ExecuteStep ==
  ASSUME IInv, fs_list_execute
  PROVE  IInv'
<1> DEFINE c == ent[Root].child
<1>1. /\ phase = "listed" /\ phase' = (IF c = NULL THEN "fini" ELSE "visit") /\ curr' = c
      /\ fs' = fs /\ ent' = ent /\ open' = open /\ visited' = visited /\ freed' = freed
      BY DEF fs_list_execute, lists
<1>2. phase \in Walks /\ phase' \in Walks
      BY <1>1 DEF Walks, WalkPhases
<1>3. visited = <<>> /\ Visited = {}
      BY <1>1 DEF IInv, VisitedInv, ListPhases, Visited
<1>4. PICK rank \in [DOMAIN ent -> Nat] : \E bound \in Nat : Chain(rank, bound)
      BY Order
<1>5. PICK bound \in Nat : Chain(rank, bound)
      BY <1>4
<1>6. c # NULL => c \in DOMAIN ent /\ Walking(rank, {Root} \cup {c}, c, {}, "visit")
      BY <1>2, <1>5, Facts, WalkStarts
<1>7. Visited' = {} /\ VisitedOnce'
      BY <1>1, <1>3, Facts, VisitedStays
<1>8. Types' /\ ListInv' /\ CountInv' /\ WholeFreed'
  <2>1. curr' \in {NULL} \cup DOMAIN ent /\ (phase' \in {"visit", "callback", "free"} => curr' # NULL)
        BY <1>1, <1>6
  <2> QED
      BY <1>1, <1>2, <2>1, WalkFrame
<1>9. VisitedInv'
      BY <1>1, <1>3, <1>7, Facts DEF VisitedInv, ListPhases, FreePhases, IInv
<1>10. \E r \in [DOMAIN ent' -> Nat] : \E b \in Nat : Ranked(r, b)'
  <2>1. phase' \in WalkPhases /\ curr' # NULL => \E S : Walking(rank, S, curr', Visited', phase')
        BY <1>1, <1>6, <1>7 DEF WalkPhases
  <2>2. phase' \notin FreePhases
        BY <1>1 DEF FreePhases
  <2>3. DOMAIN ent' = DOMAIN ent /\ \A e \in DOMAIN ent : ent'[e].child = ent[e].child /\ ent'[e].next = ent[e].next
        BY <1>1
  <2> QED
      BY <1>1, <1>5, <2>1, <2>2, <2>3, RankedNext
<1> QED
    BY <1>8, <1>9, <1>10 DEF IInv

LEMMA VisitStep ==
  ASSUME IInv, Visit
  PROVE  IInv'
<1>1. /\ phase = "visit" /\ phase' = "callback" /\ curr' = curr /\ visited' = Append(visited, curr)
      /\ fs' = fs /\ ent' = ent /\ open' = open /\ freed' = freed
      BY DEF Visit
<1>2. phase \in Walks /\ phase' \in Walks /\ phase \in WalkPhases /\ curr # NULL
      BY <1>1 DEF Walks, WalkPhases, IInv, Types
<1>3. PICK rank \in [DOMAIN ent -> Nat] : \E bound \in Nat :
        /\ Chain(rank, bound)
        /\ phase \in WalkPhases /\ curr # NULL => \E S : Walking(rank, S, curr, Visited, phase)
      BY Order
<1>4. PICK bound \in Nat :
        /\ Chain(rank, bound)
        /\ phase \in WalkPhases /\ curr # NULL => \E S : Walking(rank, S, curr, Visited, phase)
      BY <1>3
<1>5. PICK S : Walking(rank, S, curr, Visited, "visit")
      BY <1>1, <1>2, <1>4
<1>6. PICK c \in DOMAIN ent : c = curr
      BY <1>2, Facts
<1>7. /\ c \notin Visited /\ fs.parent[c] \in Visited \cup {Root} /\ c # Root
      /\ Walking(rank, S, c, Visited \cup {c}, "callback")
  <2>1. Walking(rank, S, c, Visited, "visit")
        BY <1>5, <1>6
  <2>2. c # Root
        BY <2>1 DEF Walking
  <2> QED
      BY <2>1, <2>2, Facts, WalkVisits
<1>8. visited' \in Seq(Nat) /\ Visited' = Visited \cup {c} /\ VisitedOnce'
  <2>1. visited' = Append(visited, c) /\ c \in Nat
        BY <1>1, <1>6, Facts
  <2> QED
      BY <1>1, <1>7, <2>1, Facts, VisitedGrows
<1>9. Types' /\ ListInv' /\ CountInv' /\ WholeFreed'
      BY <1>1, <1>2, Facts, WalkFrame
<1>10. VisitedInv'
  <2>1. Visited' \subseteq DOMAIN ent' \ {Root} /\ freed' \subseteq DOMAIN ent' /\ freed' = {}
        BY <1>1, <1>6, <1>7, <1>8, Facts DEF FreePhases
  <2> QED
      BY <1>1, <1>8, <2>1 DEF VisitedInv, ListPhases, FreePhases
<1>11. \E r \in [DOMAIN ent' -> Nat] : \E b \in Nat : Ranked(r, b)'
  <2>1. \E T : Walking(rank, T, curr', Visited', phase')
        BY <1>1, <1>6, <1>7, <1>8
  <2>2. phase' \notin FreePhases
        BY <1>1 DEF FreePhases
  <2>3. DOMAIN ent' = DOMAIN ent /\ \A e \in DOMAIN ent : ent'[e].child = ent[e].child /\ ent'[e].next = ent[e].next
        BY <1>1
  <2> QED
      BY <1>1, <1>4, <2>1, <2>2, <2>3, RankedNext
<1> QED
    BY <1>8, <1>9, <1>10, <1>11 DEF IInv

LEMMA WalkOverStep ==
  ASSUME IInv, phase \in WalkPhases, phase' = "fini", curr' = curr, visited' = visited,
         fs' = fs, ent' = ent, open' = open, freed' = freed
  PROVE  IInv'
<1>1. phase \notin FreePhases /\ phase # "done"
      BY DEF WalkPhases, FreePhases
<1>2. phase \in Walks /\ phase' \in Walks
      BY DEF Walks, WalkPhases
<1>3. Types' /\ ListInv' /\ CountInv' /\ WholeFreed'
      BY <1>2, Facts, WalkFrame
<1>4. VisitedInv'
      BY <1>1, Facts, VisitedStays DEF VisitedInv, ListPhases, FreePhases
<1>5. \E r \in [DOMAIN ent' -> Nat] : \E b \in Nat : Ranked(r, b)'
  <2>1. PICK rank \in [DOMAIN ent -> Nat] : \E bound \in Nat : Chain(rank, bound)
        BY Order
  <2>2. PICK bound \in Nat : Chain(rank, bound)
        BY <2>1
  <2>3. DOMAIN ent' = DOMAIN ent /\ \A e \in DOMAIN ent : ent'[e].child = ent[e].child /\ ent'[e].next = ent[e].next
        BY <1>1
  <2>4. phase' \notin WalkPhases /\ phase' \notin FreePhases
        BY <1>1 DEF WalkPhases, FreePhases
  <2> QED
      BY <1>1, <2>2, <2>3, <2>4, RankedNext
<1> QED
    BY <1>3, <1>4, <1>5 DEF IInv

\* Steps that move from one entry to another and call no callback.
LEMMA MoveStep ==
  ASSUME IInv, fs' = fs, ent' = ent, open' = open, freed' = freed, visited' = visited,
         phase \in WalkPhases, phase' \in WalkPhases,
         curr' \in {NULL} \cup DOMAIN ent, phase' = "visit" => curr' # NULL, phase' # "callback",
         NEW rank \in [DOMAIN ent -> Nat], NEW bound \in Nat, Chain(rank, bound),
         curr' # NULL => \E S : Walking(rank, S, curr', Visited, phase'),
         phase' = "climb" /\ curr' = NULL => DOMAIN ent \ {Root} \subseteq Visited
  PROVE  IInv'
<1>1. phase \in Walks /\ phase' \in Walks /\ phase' \notin FreePhases /\ phase \notin FreePhases
      BY DEF Walks, WalkPhases, FreePhases
<1>2. Visited' = Visited /\ VisitedOnce'
      BY Facts, VisitedStays
<1>3. Types' /\ ListInv' /\ CountInv' /\ WholeFreed'
  <2>1. phase' # "free"
        BY DEF WalkPhases
  <2> QED
      BY <1>1, <2>1, Facts, WalkFrame
<1>4. VisitedInv'
  <2>1. freed = {}
        BY <1>1, Facts DEF WalkPhases
  <2> QED
      BY <1>1, <1>2, <2>1, Facts DEF VisitedInv, ListPhases, FreePhases, WalkPhases
<1>5. \E r \in [DOMAIN ent' -> Nat] : \E b \in Nat : Ranked(r, b)'
  <2>1. curr' # NULL => \E S : Walking(rank, S, curr', Visited', phase')
        BY <1>2
  <2> QED
      BY <1>1, <2>1, RankedNext
<1> QED
    BY <1>3, <1>4, <1>5 DEF IInv

\* A directory has entries exactly if it counts some.
LEMMA NoKids ==
  ASSUME IInv, NEW c \in DOMAIN ent
  PROVE  /\ ent[c].nChild = 0 => \A k \in Kids(c) : k \in freed
         /\ ent[c].nChild # 0 => \E k \in Kids(c) : k \notin freed
<1>1. IsFiniteSet(Kids(c))
      BY Facts, KidsFinite
<1>2. IsFiniteSet(Kids(c) \ freed) /\ ent[c].nChild = Cardinality(Kids(c) \ freed)
      BY <1>1, FS_Difference DEF IInv, CountInv
<1>3. ent[c].nChild = 0 <=> Kids(c) \ freed = {}
      BY <1>2, FS_EmptySet
<1> QED
    BY <1>3

LEMMA CallbackSucceedsStep ==
  ASSUME IInv, CallbackSucceeds
  PROVE  IInv'
<1>1. /\ phase = "callback" /\ visited' = visited
      /\ fs' = fs /\ ent' = ent /\ open' = open /\ freed' = freed
      /\ IF ent[curr].nChild # 0 THEN phase' = "visit" /\ curr' = ent[curr].child
         ELSE IF ent[curr].next # NULL THEN phase' = "visit" /\ curr' = ent[curr].next
         ELSE phase' = "climb" /\ curr' = curr
      BY DEF CallbackSucceeds, lists
<1>2. phase \in Walks /\ phase \in WalkPhases /\ phase' \in WalkPhases /\ phase' # "callback" /\ curr # NULL
  <2>1. phase \in Walks /\ phase \in WalkPhases /\ curr # NULL
        BY <1>1 DEF Walks, WalkPhases, IInv, Types
  <2>2. phase' \in {"visit", "climb"}
        BY <1>1
  <2> QED
      BY <2>1, <2>2 DEF WalkPhases
<1>3. PICK rank \in [DOMAIN ent -> Nat] : \E bound \in Nat :
        /\ Chain(rank, bound)
        /\ phase \in WalkPhases /\ curr # NULL => \E S : Walking(rank, S, curr, Visited, phase)
      BY Order
<1>4. PICK bound \in Nat :
        /\ Chain(rank, bound)
        /\ phase \in WalkPhases /\ curr # NULL => \E S : Walking(rank, S, curr, Visited, phase)
      BY <1>3
<1>5. PICK c \in DOMAIN ent : c = curr
      BY <1>2, Facts
<1>6. PICK S : Walking(rank, S, c, Visited, "callback")
      BY <1>1, <1>2, <1>4, <1>5
<1>7. freed = {}
      BY <1>1, Facts DEF FreePhases
<1>8. CASE ent[c].nChild # 0
  <2>1. ent[c].child # NULL
    <3>1. \E k : k \in Kids(c)
          BY <1>8, NoKids
    <3>2. ent[c].child \in Kids(c)
          BY <1>4, <3>1 DEF Chain
    <3> QED
        BY <3>2, Facts DEF Kids
  <2>2. phase' = "visit" /\ curr' = ent[c].child
        BY <1>1, <1>5, <1>8
  <2>3. curr' \in DOMAIN ent /\ Walking(rank, S \cup {curr'}, curr', Visited, phase')
        BY <1>4, <1>6, <2>1, <2>2, Facts, WalkDown
  <2>4. curr' # NULL /\ curr' \in {NULL} \cup DOMAIN ent
        BY <2>3, Facts
  <2> QED
      BY <1>1, <1>2, <1>4, <2>2, <2>3, <2>4, MoveStep
<1>9. CASE ent[c].nChild = 0
  <2>1. \A k : k \notin Kids(c)
        BY <1>7, <1>9, NoKids
  <2>2. Walking(rank, S, c, Visited, "climb")
        BY <1>6, <2>1, WalkLeaf
  <2>3. CASE ent[c].next # NULL
    <3>1. phase' = "visit" /\ curr' = ent[c].next
          BY <1>1, <1>5, <1>9, <2>3
    <3>2. curr' \in DOMAIN ent /\ Walking(rank, (S \ {c}) \cup {curr'}, curr', Visited, phase')
          BY <1>4, <2>2, <2>3, <3>1, Facts, WalkAcross
    <3>3. curr' # NULL /\ curr' \in {NULL} \cup DOMAIN ent
          BY <3>2, Facts
    <3> QED
        BY <1>1, <1>2, <1>4, <3>1, <3>2, <3>3, MoveStep
  <2>4. CASE ent[c].next = NULL
    <3>1. phase' = "climb" /\ curr' = c
          BY <1>1, <1>5, <1>9, <2>4
    <3>2. Walking(rank, S, curr', Visited, phase')
          BY <2>2, <3>1
    <3>3. curr' # NULL /\ curr' \in {NULL} \cup DOMAIN ent
          BY <1>5, <3>1, Facts
    <3> QED
        BY <1>1, <1>2, <1>4, <3>1, <3>2, <3>3, MoveStep
  <2> QED
      BY <2>3, <2>4
<1> QED
    BY <1>8, <1>9

LEMMA ClimbStep ==
  ASSUME IInv, Climb
  PROVE  IInv'
<1>1. /\ phase = "climb" /\ visited' = visited
      /\ fs' = fs /\ ent' = ent /\ open' = open /\ freed' = freed
      /\ IF curr = NULL THEN phase' = "fini" /\ curr' = curr
         ELSE IF ent[curr].next = NULL THEN curr' = fs.parent[curr] /\ phase' = phase
         ELSE curr' = ent[curr].next /\ phase' = "visit"
      BY DEF Climb, lists
<1>2. phase \in Walks /\ phase \in WalkPhases
      BY <1>1 DEF Walks, WalkPhases
<1>3. CASE curr = NULL
      BY <1>1, <1>2, <1>3, WalkOverStep
<1>4. CASE curr # NULL
  <2>1. phase' \in WalkPhases /\ phase' # "callback"
        BY <1>1, <1>4 DEF WalkPhases
  <2>2. PICK rank \in [DOMAIN ent -> Nat] : \E bound \in Nat :
          /\ Chain(rank, bound)
          /\ phase \in WalkPhases /\ curr # NULL => \E S : Walking(rank, S, curr, Visited, phase)
        BY Order
  <2>3. PICK bound \in Nat :
          /\ Chain(rank, bound)
          /\ phase \in WalkPhases /\ curr # NULL => \E S : Walking(rank, S, curr, Visited, phase)
        BY <2>2
  <2>4. PICK c \in DOMAIN ent : c = curr
        BY <1>4, Facts
  <2>5. PICK S : Walking(rank, S, c, Visited, "climb")
        BY <1>1, <1>2, <1>4, <2>3, <2>4
  <2>6. CASE ent[c].next # NULL
    <3>1. phase' = "visit" /\ curr' = ent[c].next
          BY <1>1, <1>4, <2>4, <2>6
    <3>2. curr' \in DOMAIN ent /\ Walking(rank, (S \ {c}) \cup {curr'}, curr', Visited, phase')
          BY <2>3, <2>5, <2>6, <3>1, Facts, WalkAcross
    <3>3. curr' # NULL /\ curr' \in {NULL} \cup DOMAIN ent
          BY <3>2, Facts
    <3> QED
        BY <1>1, <1>2, <2>1, <2>3, <3>1, <3>2, <3>3, MoveStep
  <2>7. CASE ent[c].next = NULL /\ c # Root
    <3>1. phase' = "climb" /\ curr' = fs.parent[c]
          BY <1>1, <1>4, <2>4, <2>7
    <3>2. curr' \in DOMAIN ent /\ Walking(rank, S \ {c}, curr', Visited, phase')
          BY <2>3, <2>5, <2>7, <3>1, Facts, WalkUp
    <3>3. curr' # NULL /\ curr' \in {NULL} \cup DOMAIN ent
          BY <3>2, Facts
    <3> QED
        BY <1>1, <1>2, <2>1, <2>3, <3>1, <3>2, <3>3, MoveStep
  <2>8. CASE ent[c].next = NULL /\ c = Root
    <3>1. phase' = "climb" /\ curr' = NULL
          BY <1>1, <1>4, <2>4, <2>8, Facts, TreeFacts DEF NULL
    <3>2. DOMAIN ent \ {Root} \subseteq Visited
          BY <1>2, <2>5, <2>8, Facts, WalkEnds
    <3> QED
        BY <1>1, <1>2, <2>1, <2>3, <3>1, <3>2, MoveStep
  <2> QED
      BY <2>6, <2>7, <2>8
<1> QED
    BY <1>3, <1>4

----------------------------------------------------------------------------
(* The steps of the second walk.                                            *)

LEMMA MoveFreeStep ==
  ASSUME IInv, fs' = fs, ent' = ent, open' = open, freed' = freed, visited' = visited,
         phase \in FreePhases \cup {"fini"}, phase' \in FreePhases, curr' \in DOMAIN ent,
         NEW rank \in [DOMAIN ent -> Nat], NEW bound \in Nat, Chain(rank, bound),
         \E S : Freeing(rank, S, curr', freed, phase')
  PROVE  IInv'
<1>1. phase \in Walks /\ phase' \in Walks /\ phase' \notin WalkPhases /\ curr' # NULL
      BY Facts DEF Walks, WalkPhases, FreePhases
<1>2. Types' /\ ListInv' /\ CountInv' /\ WholeFreed'
      BY <1>1, Facts, WalkFrame
<1>3. VisitedInv'
      BY <1>1, Facts, VisitedStays DEF VisitedInv, ListPhases, FreePhases
<1>4. \E r \in [DOMAIN ent' -> Nat] : \E b \in Nat : Ranked(r, b)'
      BY <1>1, RankedNext
<1> QED
    BY <1>2, <1>3, <1>4 DEF IInv

LEMMA FiniStep ==
  ASSUME IInv, fs_list_fini
  PROVE  IInv'
<1>1. /\ phase = "fini" /\ phase' = "free" /\ curr' = Root
      /\ fs' = fs /\ ent' = ent /\ open' = open /\ visited' = visited /\ freed' = freed
      BY DEF fs_list_fini, lists
<1>2. phase \in Walks /\ phase' \in FreePhases /\ freed = {} /\ Root \in DOMAIN ent
      BY <1>1, Facts DEF Walks, FreePhases
<1>3. PICK rank \in [DOMAIN ent -> Nat] : \E bound \in Nat : Chain(rank, bound)
      BY Order
<1>4. PICK bound \in Nat : Chain(rank, bound)
      BY <1>3
<1>5. \E S : Freeing(rank, S, curr', freed, phase')
      BY <1>1, <1>2, Facts, FreeStarts
<1> QED
    BY <1>1, <1>2, <1>4, <1>5, MoveFreeStep

\* The current entry while it is freed or passed.
LEMMA AtEntry ==
  ASSUME IInv, phase \in FreePhases, curr # NULL
  PROVE  \E rank \in [DOMAIN ent -> Nat], bound \in Nat, S \in SUBSET Nodes, c \in DOMAIN ent :
           c = curr /\ Chain(rank, bound) /\ Freeing(rank, S, c, freed, phase)
<1>1. PICK rank \in [DOMAIN ent -> Nat] : \E bound \in Nat :
        /\ Chain(rank, bound)
        /\ phase \in FreePhases /\ curr # NULL => \E S : Freeing(rank, S, curr, freed, phase)
      BY Order
<1>2. PICK bound \in Nat :
        /\ Chain(rank, bound)
        /\ phase \in FreePhases /\ curr # NULL => \E S : Freeing(rank, S, curr, freed, phase)
      BY <1>1
<1>3. PICK S : Freeing(rank, S, curr, freed, phase)
      BY <1>2
<1>4. PICK c \in DOMAIN ent : c = curr
      BY Facts
<1>5. Freeing(rank, S, c, freed, phase) /\ S \in SUBSET Nodes
      BY <1>3, <1>4 DEF Freeing, IsPath
<1> QED
    BY <1>2, <1>4, <1>5

LEMMA DescendStep ==
  ASSUME IInv, Descend
  PROVE  IInv'
<1>1. /\ phase = "free" /\ phase' = "free" /\ curr # NULL /\ ent[curr].nChild # 0 /\ curr' = ent[curr].child
      /\ fs' = fs /\ ent' = ent /\ open' = open /\ visited' = visited /\ freed' = freed
      BY DEF Descend, lists
<1>2. phase \in FreePhases /\ phase' \in FreePhases
      BY <1>1 DEF FreePhases
<1>3. PICK rank \in [DOMAIN ent -> Nat], bound \in Nat, S \in SUBSET Nodes, c \in DOMAIN ent :
        c = curr /\ Chain(rank, bound) /\ Freeing(rank, S, c, freed, phase)
      BY <1>1, <1>2, AtEntry
<1>4. ent[c].child # NULL
  <2>1. \E k : k \in Kids(c)
        BY <1>1, <1>3, NoKids
  <2>2. ent[c].child \in Kids(c)
        BY <1>3, <2>1 DEF Chain
  <2> QED
      BY <2>2, Facts DEF Kids
<1>5. curr' \in DOMAIN ent /\ Freeing(rank, S \cup {curr'}, curr', freed, phase')
      BY <1>1, <1>3, <1>4, Facts, FreeDown
<1> QED
    BY <1>1, <1>2, <1>3, <1>5, MoveFreeStep

LEMMA LastOfDirectoryStep ==
  ASSUME IInv, LastOfDirectory
  PROVE  IInv'
<1>1. /\ phase = "free" /\ phase' = "freeup" /\ curr # NULL /\ ent[curr].nChild = 0 /\ curr' = curr
      /\ fs' = fs /\ ent' = ent /\ open' = open /\ visited' = visited /\ freed' = freed
      BY DEF LastOfDirectory, lists
<1>2. phase \in FreePhases /\ phase' \in FreePhases
      BY <1>1 DEF FreePhases
<1>3. PICK rank \in [DOMAIN ent -> Nat], bound \in Nat, S \in SUBSET Nodes, c \in DOMAIN ent :
        c = curr /\ Chain(rank, bound) /\ Freeing(rank, S, c, freed, phase)
      BY <1>1, <1>2, AtEntry
<1>4. \A k \in Kids(c) : k \in freed
      BY <1>1, <1>3, NoKids
<1>5. Freeing(rank, S, curr', freed, phase') /\ curr' \in DOMAIN ent
      BY <1>1, <1>3, <1>4, FreeLeaf
<1> QED
    BY <1>1, <1>2, <1>3, <1>5, MoveFreeStep

\* An entry whose children are freed is freed.
LEMMA FreeStep ==
  ASSUME IInv, phase \in FreePhases, phase' \in FreePhases, NEW c \in DOMAIN ent, Free(c),
         NEW rank \in [DOMAIN ent -> Nat], NEW bound \in Nat, NEW S,
         Chain(rank, bound), Freeing(rank, S, c, freed, "freeup"),
         curr' \in {NULL} \cup DOMAIN ent, phase' = "free" => curr' # NULL,
         curr' # NULL => \E T : Freeing(rank, T, curr', freed \cup {c}, phase'),
         curr' = NULL => c = Root
  PROVE  IInv'
<1> DEFINE p == fs.parent[c]
<1>1. /\ fs' = fs /\ open' = open /\ visited' = visited /\ freed' = freed \cup {c}
      /\ ent' = IF p = NULL THEN ent ELSE [ent EXCEPT ![p].nChild = @ - 1]
      BY DEF Free
<1>2. phase \in Walks /\ phase' \in Walks /\ phase' \notin WalkPhases /\ phase' \in FreePhases
      BY DEF Walks, WalkPhases, FreePhases
<1>3. c \notin freed /\ c \in S /\ \A k \in Kids(c) : k \in freed
  <2>1. c \in S
        BY DEF Freeing, IsPath
  <2>2. c \notin freed
        BY <2>1, Facts, NotFreed
  <2> QED
      BY <2>1, <2>2 DEF Freeing
<1>4. p # NULL => p \in DOMAIN ent /\ c \in Kids(p)
  <2>1. p # NULL => c # Root
        BY Facts, TreeFacts DEF NULL
  <2> QED
      BY <1>2, <2>1, Facts DEF Kids
<1>5. /\ DOMAIN ent' = DOMAIN ent
      /\ \A e \in DOMAIN ent : e # p => ent'[e] = ent[e]
      /\ p # NULL => ent'[p] = [ent[p] EXCEPT !.nChild = @ - 1]
      BY <1>1, <1>4, Facts
<1>6. \A e \in DOMAIN ent : ent[e] \in Entry
      BY Facts
<1>7. p # NULL => /\ ent'[p].child = ent[p].child /\ ent'[p].next = ent[p].next
                  /\ ent'[p].nChild = ent[p].nChild - 1
  <2>1. p # NULL => ent[p] \in Entry
        BY <1>4, <1>6
  <2> QED
      BY <1>5, <2>1 DEF Entry
<1>8. \A e \in DOMAIN ent : ent'[e].child = ent[e].child /\ ent'[e].next = ent[e].next
      BY <1>4, <1>5, <1>7, Facts
<1>9. \A d : Kids(d)' = Kids(d)
      BY <1>1, <1>5, <1>8, ShapeStays
<1>10. \A d \in DOMAIN ent : ent'[d].nChild = Cardinality(Kids(d) \ freed')
  <2> SUFFICES ASSUME NEW d \in DOMAIN ent PROVE ent'[d].nChild = Cardinality(Kids(d) \ freed')
      OBVIOUS
  <2>1. ent[d].nChild = Cardinality(Kids(d) \ freed)
        BY DEF IInv, CountInv
  <2>2. CASE d = p
    <3>1. IsFiniteSet(Kids(d) \ freed)
          BY Facts, KidsFinite, FS_Difference
    <3>2. c \in Kids(d) \ freed /\ p # NULL
          BY <1>3, <1>4, <2>2, Facts
    <3>3. Cardinality((Kids(d) \ freed) \ {c}) = Cardinality(Kids(d) \ freed) - 1
          BY <3>1, <3>2, FS_RemoveElement
    <3>4. (Kids(d) \ freed) \ {c} = Kids(d) \ freed'
          BY <1>1
    <3> QED
        BY <1>7, <2>1, <2>2, <3>2, <3>3, <3>4
  <2>3. CASE d # p
    <3>1. Kids(d) \ freed' = Kids(d) \ freed
          BY <1>1, <2>3 DEF Kids
    <3> QED
        BY <1>5, <2>1, <2>3, <3>1
  <2> QED
      BY <2>2, <2>3
<1>11. CountInv'
       BY <1>5, <1>9, <1>10 DEF CountInv
<1>12. WholeFreed'
       BY <1>1, <1>3, <1>9 DEF IInv, WholeFreed
<1>13. ListInv'
       BY <1>1, <1>2, <1>5, ListInvStays
<1>14. Types'
  <2>1. p # NULL => ent'[p] \in Entry
    <3>1. p # NULL => ent[p].nChild = Cardinality(Kids(p) \ freed) /\ ent[p] \in Entry
          BY <1>4, <1>6 DEF IInv, CountInv
    <3>2. p # NULL => ent[p].nChild # 0
      <4>1. SUFFICES ASSUME p # NULL, ent[p].nChild = 0 PROVE FALSE
            OBVIOUS
      <4>2. c \in freed
            BY <1>4, <4>1, NoKids
      <4> QED
          BY <1>3, <4>2
    <3> QED
        BY <1>5, <3>1, <3>2 DEF Entry
  <2>2. ent' \in [DOMAIN ent' -> Entry]
    <3>1. \A e \in DOMAIN ent : ent'[e] \in Entry
          BY <1>4, <1>5, <1>6, <2>1, Facts
    <3>2. ent' = [e \in DOMAIN ent |-> ent'[e]]
          BY <1>1, <1>5, Facts
    <3> QED
        BY <1>5, <3>1, <3>2
  <2>3. Nodes' = Nodes
        BY <1>1, TreeStays
  <2>4. TreeOK(fs') /\ Root \in DOMAIN ent
        BY <1>1, <1>2, Facts
  <2> QED
      BY <1>5, <2>2, <2>3, <2>4, Facts DEF Types, FreePhases
<1>15. VisitedInv'
  <2>1. Visited' = Visited /\ VisitedOnce'
        BY <1>1, Facts, VisitedStays
  <2>2. curr' = NULL => DOMAIN ent \subseteq freed'
    <3>1. SUFFICES ASSUME curr' = NULL PROVE DOMAIN ent \subseteq freed'
          OBVIOUS
    <3>2. Root \in freed' /\ \A v \in freed' : Kids(v) \subseteq freed'
          BY <1>1, <1>3, <3>1 DEF IInv, WholeFreed
    <3> QED
        BY <1>2, <3>2, Facts, FreeEnds
  <2> QED
      BY <1>1, <1>5, <2>1, <2>2, Facts DEF VisitedInv, ListPhases, FreePhases
<1>16. \E r \in [DOMAIN ent' -> Nat] : \E b \in Nat : Ranked(r, b)'
  <2>1. curr' # NULL => \E T : Freeing(rank, T, curr', freed', phase')
        BY <1>1
  <2> QED
      BY <1>1, <1>2, <1>5, <1>8, <2>1, RankedNext
<1> QED
    BY <1>11, <1>12, <1>13, <1>14, <1>15, <1>16 DEF IInv

LEMMA FreeAndNextStep ==
  ASSUME IInv, FreeAndNext
  PROVE  IInv'
<1>1. /\ phase = "free" /\ phase' = "free" /\ curr # NULL /\ ent[curr].nChild = 0 /\ ent[curr].next # NULL
      /\ curr' = ent[curr].next /\ Free(curr)
      BY DEF FreeAndNext
<1>2. phase \in FreePhases /\ phase' \in FreePhases
      BY <1>1 DEF FreePhases
<1>3. PICK rank \in [DOMAIN ent -> Nat], bound \in Nat, S \in SUBSET Nodes, c \in DOMAIN ent :
        c = curr /\ Chain(rank, bound) /\ Freeing(rank, S, c, freed, phase)
      BY <1>1, <1>2, AtEntry
<1>4. Freeing(rank, S, c, freed, "freeup")
  <2>1. \A k \in Kids(c) : k \in freed
        BY <1>1, <1>3, NoKids
  <2> QED
      BY <1>1, <1>3, <2>1, FreeLeaf
<1>5. PICK n : n = ent[c].next
      OBVIOUS
<1>6. n # NULL /\ curr' = n
      BY <1>1, <1>3, <1>5
<1>7. n \in DOMAIN ent /\ Freeing(rank, (S \ {c}) \cup {n}, n, freed \cup {c}, "free")
      BY <1>3, <1>4, <1>5, <1>6, Facts, FreeAcross
<1>8. curr' # NULL /\ \E T : Freeing(rank, T, curr', freed \cup {c}, phase')
      BY <1>1, <1>6, <1>7
<1>9. Free(c)
      BY <1>1, <1>3
<1> QED
    BY <1>2, <1>3, <1>4, <1>6, <1>7, <1>8, <1>9, FreeStep

LEMMA FreeUpStep ==
  ASSUME IInv, FreeUp
  PROVE  IInv'
<1>1. phase = "freeup" /\ phase \in FreePhases
      BY DEF FreeUp, FreePhases
<1>2. CASE curr = NULL
  <2>1. /\ phase' = "done" /\ curr' = curr
        /\ fs' = fs /\ ent' = ent /\ open' = open /\ visited' = visited /\ freed' = freed
        BY <1>2 DEF FreeUp, lists
  <2>2. phase \in Walks /\ phase' \in Walks /\ phase' \notin WalkPhases \cup FreePhases
        BY <1>1, <2>1 DEF Walks, WalkPhases, FreePhases
  <2>3. Types' /\ ListInv' /\ CountInv' /\ WholeFreed'
        BY <2>1, <2>2, Facts, WalkFrame
  <2>4. VisitedInv'
    <3>1. DOMAIN ent \subseteq freed
          BY <1>1, <1>2 DEF IInv, VisitedInv
    <3> QED
        BY <2>1, <3>1, Facts, VisitedStays DEF VisitedInv, ListPhases
  <2>5. PICK rank \in [DOMAIN ent -> Nat] : \E bound \in Nat : Chain(rank, bound)
        BY Order
  <2>6. PICK bound \in Nat : Chain(rank, bound)
        BY <2>5
  <2>7. \E r \in [DOMAIN ent' -> Nat] : \E b \in Nat : Ranked(r, b)'
        BY <2>1, <2>2, <2>6, RankedNext
  <2> QED
      BY <2>3, <2>4, <2>7 DEF IInv
<1>3. CASE curr # NULL
  <2>1. PICK rank \in [DOMAIN ent -> Nat], bound \in Nat, S \in SUBSET Nodes, c \in DOMAIN ent :
          c = curr /\ Chain(rank, bound) /\ Freeing(rank, S, c, freed, phase)
        BY <1>1, <1>3, AtEntry
  <2>2. /\ Free(c)
        /\ IF ent[c].next = NULL THEN curr' = fs.parent[c] /\ phase' = phase
                                 ELSE curr' = ent[c].next /\ phase' = "free"
        BY <1>3, <2>1 DEF FreeUp
  <2>3. phase' \in FreePhases /\ Freeing(rank, S, c, freed, "freeup")
        BY <1>1, <2>1, <2>2 DEF FreePhases
  <2>4. CASE ent[c].next # NULL
    <3>1. PICK n : n = ent[c].next
          OBVIOUS
    <3>2. n \in DOMAIN ent /\ Freeing(rank, (S \ {c}) \cup {n}, n, freed \cup {c}, "free")
          BY <2>1, <2>3, <2>4, <3>1, Facts, FreeAcross
    <3>3. curr' = n /\ phase' = "free" /\ n # NULL
          BY <2>2, <2>4, <3>1
    <3>4. \E T : Freeing(rank, T, curr', freed \cup {c}, phase')
          BY <3>2, <3>3
    <3> QED
        BY <1>1, <2>1, <2>2, <2>3, <3>2, <3>3, <3>4, FreeStep
  <2>5. CASE ent[c].next = NULL /\ c # Root
    <3>1. fs.parent[c] \in DOMAIN ent /\ Freeing(rank, S \ {c}, fs.parent[c], freed \cup {c}, "freeup")
          BY <2>1, <2>3, <2>5, Facts, FreeUpwards
    <3>2. curr' = fs.parent[c] /\ phase' = "freeup"
          BY <1>1, <2>2, <2>5
    <3>3. curr' \in DOMAIN ent /\ curr' # NULL /\ \E T : Freeing(rank, T, curr', freed \cup {c}, phase')
          BY <3>1, <3>2, Facts
    <3> QED
        BY <1>1, <2>1, <2>2, <2>3, <3>3, FreeStep
  <2>6. CASE ent[c].next = NULL /\ c = Root
    <3>1. curr' = NULL /\ phase' = "freeup"
          BY <1>1, <2>2, <2>6, Facts, TreeFacts DEF TreeOK
    <3> QED
        BY <1>1, <2>1, <2>2, <2>3, <2>6, <3>1, FreeStep
  <2> QED
      BY <2>4, <2>5, <2>6
<1> QED
    BY <1>2, <1>3

LEMMA CallbackFailsStep ==
  ASSUME IInv, CallbackFails
  PROVE  IInv'
<1>1. /\ phase \in WalkPhases /\ phase' = "fini" /\ curr' = curr
      /\ fs' = fs /\ ent' = ent /\ open' = open /\ visited' = visited /\ freed' = freed
      BY DEF CallbackFails, lists, WalkPhases
<1> QED
    BY <1>1, WalkOverStep

----------------------------------------------------------------------------
(* The invariant, and what it says.                                         *)

LEMMA NextStep ==
  ASSUME IInv, Next
  PROVE  IInv'
<1> QED
    BY InitStep, ReadEntryStep, NoMoreEntriesStep, ExecuteStep, VisitStep, CallbackFailsStep, CallbackSucceedsStep,
       ClimbStep, FiniStep, DescendStep, FreeAndNextStep, LastOfDirectoryStep, FreeUpStep DEF Next

LEMMA StutterStep ==
  ASSUME IInv, UNCHANGED vars
  PROVE  IInv'
<1>1. /\ fs' = fs /\ phase' = phase /\ ent' = ent /\ curr' = curr /\ open' = open
      /\ visited' = visited /\ freed' = freed
      BY DEF vars
<1>2. Nodes' = Nodes
      BY <1>1, TreeStays
<1>3. Types'
      BY <1>1, <1>2 DEF IInv, Types
<1>4. /\ \A e : Kids(e)' = Kids(e)
      /\ \A r, b : Chain(r, b)' <=> Chain(r, b)
      /\ \A r, S, c, V, w : Walking(r, S, c, V, w)' <=> Walking(r, S, c, V, w)
      /\ \A r, S, c, V, w : Freeing(r, S, c, V, w)' <=> Freeing(r, S, c, V, w)
      BY <1>1, ShapeStays
<1>5. CountInv' /\ WholeFreed'
      BY <1>1, <1>4 DEF IInv, CountInv, WholeFreed
<1>6. Visited' = Visited /\ (VisitedOnce' <=> VisitedOnce)
      BY <1>1, VisitedStays
<1>7. VisitedInv'
      BY <1>1, <1>6 DEF IInv, VisitedInv
<1>8. Reached' = Reached /\ DepthOf' = DepthOf /\ \A S, c : IsPath(S, c)' <=> IsPath(S, c)
      BY <1>1, TreeStays, PathStays
<1>9. ListInv'
  <2>1. IsPath(open, curr)' <=> IsPath(open, curr)
        BY <1>1 DEF IsPath, Nodes
  <2> QED
      BY <1>1, <1>2, <1>8, <2>1 DEF IInv, ListInv
<1>10. PICK rank \in [DOMAIN ent -> Nat] : \E bound \in Nat : Ranked(rank, bound)
       BY DEF IInv
<1>11. PICK bound \in Nat : Ranked(rank, bound)
       BY <1>10
<1>12. Ranked(rank, bound)'
  <2>1. \A S : Walking(rank, S, curr, Visited, phase)' <=> Walking(rank, S, curr, Visited, phase)
        BY <1>1, <1>4, <1>6
  <2>2. \A S : Freeing(rank, S, curr, freed, phase)' <=> Freeing(rank, S, curr, freed, phase)
        BY <1>1, <1>4
  <2> QED
      BY <1>1, <1>2, <1>4, <1>11, <2>1, <2>2 DEF Ranked, WalkPhases, FreePhases
<1>13. rank \in [DOMAIN ent' -> Nat]
       BY <1>1
<1> QED
    BY <1>3, <1>5, <1>7, <1>9, <1>12, <1>13 DEF IInv

\* What the properties of FsList say follows from the invariant.
LEMMA TypesHold ==
  ASSUME IInv
  PROVE  TypeOK
<1>1. ASSUME NEW e \in DOMAIN ent
      PROVE  /\ ent[e].child \in {NULL} \cup DOMAIN ent /\ ent[e].next \in {NULL} \cup DOMAIN ent
             /\ ent[e].nChild \in 0 .. Cardinality(DOMAIN ent)
  <2>1. PICK rank \in [DOMAIN ent -> Nat] : \E bound \in Nat : Chain(rank, bound)
        BY Order
  <2>2. ent[e].child \in {NULL} \cup DOMAIN ent /\ ent[e].next \in {NULL} \cup DOMAIN ent
        BY <2>1 DEF Chain, Kids
  <2>3. IsFiniteSet(DOMAIN ent)
        BY Facts, NodesFinite, FS_Subset
  <2>4. Kids(e) \ freed \subseteq DOMAIN ent
        BY DEF Kids
  <2>5. /\ IsFiniteSet(Kids(e) \ freed) /\ Cardinality(Kids(e) \ freed) <= Cardinality(DOMAIN ent)
        /\ Cardinality(Kids(e) \ freed) \in Nat /\ Cardinality(DOMAIN ent) \in Nat
        BY <2>3, <2>4, FS_Subset, FS_CardinalityType
  <2>6. ent[e].nChild = Cardinality(Kids(e) \ freed)
        BY DEF IInv, CountInv
  <2> QED
      BY <2>2, <2>5, <2>6
<1>2. DOMAIN ent \subseteq DOMAIN fs.parent /\ curr \in {NULL} \cup DOMAIN ent /\ freed \subseteq DOMAIN ent
      BY Facts DEF Nodes
<1>3. phase \in {"init", "list", "listed", "visit", "climb", "callback", "fini", "free", "freeup", "done", "failed"}
      BY DEF IInv, Types, ListPhases, WalkPhases, FreePhases
<1> QED
    BY <1>1, <1>2, <1>3 DEF TypeOK

\* A node is listed when it can be reached, once nothing is open any more.
LEMMA AllListed ==
  ASSUME IInv, phase \in Walks \cup {"listed"}
  PROVE  DOMAIN ent = {n \in Nodes : Reached[n]}
<1>1. open = {} /\ Root \in DOMAIN ent /\ phase \notin {"init", "failed", "list"}
      BY DEF IInv, Types, ListInv, Walks, WalkPhases, FreePhases
<1>2. \A n \in DOMAIN ent : n \in Nodes /\ Reached[n]
      BY Facts DEF IInv, ListInv
<1>3. \A n \in Nodes \ {Root} :
        fs.parent[n] \in DOMAIN ent /\ fs.kind[fs.parent[n]] = "dir" => n \in DOMAIN ent
      BY <1>1 DEF IInv, ListInv
<1>4. \A n \in Nodes \ {Root} : Reached[n] => Reached[fs.parent[n]] /\ fs.kind[fs.parent[n]] = "dir"
      BY Facts, ReachedFacts
<1>5. \A n \in Nodes : Reached[n] => n \in DOMAIN ent
  <2> DEFINE T == {n \in Nodes : Reached[n] => n \in DOMAIN ent}
  <2>1. Root \in T
        BY <1>1, Facts
  <2>2. \A n \in Nodes \ {Root} : fs.parent[n] \in T => n \in T
        BY <1>3, <1>4
  <2>3. Nodes \subseteq T
    <3> HIDE DEF T
    <3> QED
        BY <2>1, <2>2, Facts, DownTheTree
  <2> QED
      BY <2>3
<1> QED
    BY <1>2, <1>5

LEMMA PropertiesHold ==
  ASSUME IInv
  PROVE  Listed /\ OpenOnTheWay /\ VisitedOnce /\ AllVisited /\ ChildrenFreedFirst /\ AllFreed
<1>1. Listed
  <2>1. SUFFICES ASSUME phase \in {"listed", "visit", "callback", "climb", "fini"}
        PROVE  /\ DOMAIN ent = {n \in Nodes : Reached[n]}
               /\ \A d \in DOMAIN ent : ent[d].nChild = Cardinality({e \in DOMAIN ent : fs.parent[e] = d})
        BY DEF Listed
  <2>2. phase \in Walks \cup {"listed"} /\ freed = {}
        BY <2>1, Facts DEF Walks, WalkPhases, FreePhases
  <2>3. \A d \in DOMAIN ent : ent[d].nChild = Cardinality(Kids(d) \ freed) /\ Kids(d) \ freed = Kids(d)
        BY <2>2 DEF IInv, CountInv
  <2> QED
      BY <2>2, <2>3, AllListed DEF Kids
<1>2. OpenOnTheWay
      BY DEF IInv, ListInv, IsPath, OpenOnTheWay
<1>3. AllVisited
      BY DEF IInv, VisitedInv, AllVisited, Visited
<1>4. ChildrenFreedFirst
  <2>1. \A e \in freed : \A c \in DOMAIN ent : fs.parent[c] = e => c \in freed
        BY DEF IInv, WholeFreed, Kids
  <2>2. phase \in {"free", "freeup"} /\ curr # NULL => curr \notin freed
    <3>1. SUFFICES ASSUME phase \in FreePhases, curr # NULL PROVE curr \notin freed
          BY DEF FreePhases
    <3>2. PICK rank \in [DOMAIN ent -> Nat], bound \in Nat, S \in SUBSET Nodes, c \in DOMAIN ent :
            c = curr /\ Chain(rank, bound) /\ Freeing(rank, S, c, freed, phase)
          BY <3>1, AtEntry
    <3>3. c \in S
          BY <3>2 DEF Freeing, IsPath
    <3> QED
        BY <3>2, <3>3, Facts, NotFreed
  <2> QED
      BY <2>1, <2>2 DEF ChildrenFreedFirst
<1>5. AllFreed
      BY DEF IInv, VisitedInv, AllFreed
<1> QED
    BY <1>1, <1>2, <1>3, <1>4, <1>5, Facts
============================================================================
