------------------------- MODULE StubArchives_proofs -------------------------
(***************************************************************************)
(* StubArchives for every database: main() of vita-libs-gen-2 implements   *)
(* LibsGen2, lists and walks the directory completely, reads every file    *)
(* that can be reached, frees the list once, and builds what it has read,  *)
(* which of a file in error is only what precedes the error and of files   *)
(* without errors every entry, in the archive its file asks for.           *)
(***************************************************************************)
EXTENDS StubArchives, ProofLemmas, FunctionTheorems, FiniteSetTheorems

P == INSTANCE FsList_proofs

----------------------------------------------------------------------------
(* The list changes by the steps of FsList, or not at all.                  *)

LEMMA SameList ==
  /\ F!Next <=> P!Next
  /\ F!vars = P!vars
  /\ F!Init <=> P!Init
  /\ \A t : F!TreeOK(t) <=> P!TreeOK(t)
<1>1. \A t : F!TreeOK(t) <=> P!TreeOK(t)
      BY DEF F!TreeOK, P!TreeOK, F!Root, P!Root, F!NULL, P!NULL, F!Kinds, P!Kinds
<1>2. /\ F!fs_list_init <=> P!fs_list_init
      /\ F!ReadEntry <=> P!ReadEntry
      /\ F!NoMoreEntries <=> P!NoMoreEntries
      BY DEF F!fs_list_init, P!fs_list_init, F!NewEntry, P!NewEntry, F!lists, P!lists, F!Root, P!Root, F!NULL,
             P!NULL, F!ReadEntry, P!ReadEntry, F!Unlisted, P!Unlisted, F!WithEntry, P!WithEntry,
             F!NoMoreEntries, P!NoMoreEntries
<1>3. /\ F!fs_list_execute <=> P!fs_list_execute
      /\ F!Visit <=> P!Visit
      /\ F!CallbackFails <=> P!CallbackFails
      /\ F!CallbackSucceeds <=> P!CallbackSucceeds
      /\ F!Climb <=> P!Climb
      BY DEF F!fs_list_execute, P!fs_list_execute, F!lists, P!lists, F!Root, P!Root, F!NULL, P!NULL, F!Visit,
             P!Visit, F!CallbackFails, P!CallbackFails, F!CallbackSucceeds, P!CallbackSucceeds,
             F!Climb, P!Climb
<1>4. /\ F!fs_list_fini <=> P!fs_list_fini
      /\ F!Descend <=> P!Descend
      /\ F!FreeAndNext <=> P!FreeAndNext
      /\ F!LastOfDirectory <=> P!LastOfDirectory
      /\ F!FreeUp <=> P!FreeUp
      BY DEF F!fs_list_fini, P!fs_list_fini, F!lists, P!lists, F!Root, P!Root, F!Descend, P!Descend, F!NULL,
             P!NULL, F!FreeAndNext, P!FreeAndNext, F!Free, P!Free, F!LastOfDirectory,
             P!LastOfDirectory, F!FreeUp, P!FreeUp
<1>5. F!Next <=> P!Next
      BY <1>2, <1>3, <1>4, Zenon DEF F!Next, P!Next
<1> QED
    BY <1>1, <1>5 DEF F!vars, P!vars, F!Init, P!Init, F!NULL, P!NULL

LEMMA SameSize == \A S : F!Cardinality(S) = P!Cardinality(S)
BY DEF F!Cardinality, P!Cardinality

LEMMA ListSteps ==
  ASSUME MainNext
  PROVE  P!Next \/ UNCHANGED list
<1>1. List \/ CallsBack \/ Returns \/ ReturnsError \/ FreeList => F!Next
      BY DEF List, CallsBack, Returns, ReturnsError, FreeList, F!Next
<1>2. ReadOneFile \/ StatFails \/ Reads \/ ListFreed \/ OneFile \/ (Terminated /\ UNCHANGED list) => UNCHANGED list
      BY DEF ReadOneFile, OneFile, StatFails, Reads, ListFreed
<1> QED
    BY <1>1, <1>2, SameList DEF MainNext

LEMMA ListInit ==
  ASSUME MainInit
  PROVE  P!IInv /\ \E c \in Cases : input = c.input /\ fs = c.tree /\ CaseOK(c)
<1>1. PICK c \in Cases : input = c.input /\ Init /\ fs = c.tree /\ F!Init
      BY DEF MainInit
<1>2. CaseOK(c)
      BY CasesAssumption
<1>3. P!Init /\ P!TreeOK(fs)
      BY <1>1, <1>2, SameList DEF CaseOK
<1>4. P!IInv
      BY <1>3, P!InitInv
<1> QED
    BY <1>1, <1>2, <1>4

LEMMA ListStep ==
  ASSUME P!IInv, [MainNext]_<<vars, list>>
  PROVE  P!IInv'
<1>1. P!Next \/ UNCHANGED list
      BY ListSteps
<1>2. UNCHANGED list => UNCHANGED P!vars
      BY DEF list, P!vars
<1> QED
    BY <1>1, <1>2, P!NextStep, P!StutterStep

LEMMA ListProperties ==
  ASSUME P!IInv
  PROVE  ListWalked /\ FreedOnce
<1>1. P!Listed /\ P!OpenOnTheWay /\ P!VisitedOnce /\ P!AllVisited /\ P!ChildrenFreedFirst /\ P!AllFreed
      BY P!PropertiesHold
<1>2. F!Reached = P!Reached /\ F!DepthOf = P!DepthOf /\ F!Nodes = P!Nodes
      BY DEF F!Reached, P!Reached, F!DepthOf, P!DepthOf, F!Nodes, P!Nodes, F!Root, P!Root
<1>3. F!Listed
      BY <1>1, <1>2, SameSize DEF F!Listed, P!Listed
<1>4. F!OpenOnTheWay
      BY <1>1, <1>2, SameSize DEF F!OpenOnTheWay, P!OpenOnTheWay, F!Root, P!Root
<1>5. F!VisitedOnce /\ F!AllVisited
      BY <1>1 DEF F!VisitedOnce, P!VisitedOnce, F!AllVisited, P!AllVisited, F!Root, P!Root, F!NULL, P!NULL
<1>6. FreedOnce
      BY <1>1 DEF F!ChildrenFreedFirst, P!ChildrenFreedFirst, F!AllFreed, P!AllFreed, F!NULL, P!NULL, FreedOnce
<1> QED
    BY <1>3, <1>5, <1>6, <1>4 DEF ListWalked

\* fs_list, as main() drives it, lists all there is, closes what it opens and
\* calls the callback once for each entry, whatever the directory.
THEOREM ListWalkedAlways == MainSpec => []ListWalked
<1>1. MainInit => P!IInv
      BY ListInit
<1>2. P!IInv /\ [MainNext]_<<vars, list>> => P!IInv'
      BY ListStep
<1>3. P!IInv => ListWalked
      BY ListProperties
<1> QED
    BY <1>1, <1>2, <1>3, PTL DEF MainSpec

\* fs_list_fini() frees every entry once and uses none it has freed.
THEOREM FreedOnceAlways == MainSpec => []FreedOnce
<1>1. MainInit => P!IInv
      BY ListInit
<1>2. P!IInv /\ [MainNext]_<<vars, list>> => P!IInv'
      BY ListStep
<1>3. P!IInv => FreedOnce
      BY ListProperties
<1> QED
    BY <1>1, <1>2, <1>3, PTL DEF MainSpec

----------------------------------------------------------------------------
(* The files of a tree are numbered one after the other.                    *)

LEMMA FileNumbers ==
  ASSUME NEW t, P!TreeOK(t)
  PROVE  /\ Cardinality(Files(t)) \in Nat
         /\ \A n \in Files(t) : FileOfNode(t, n) \in 1 .. Cardinality(Files(t))
         /\ \A m, n \in Files(t) : FileOfNode(t, m) = FileOfNode(t, n) => m = n
         /\ {FileOfNode(t, n) : n \in Files(t)} = 1 .. Cardinality(Files(t))
<1> DEFINE N == Cardinality(Files(t))
           UpTo(n) == {m \in Files(t) : m <= n}
<1>1. Files(t) \in SUBSET Nat /\ IsFiniteSet(Files(t))
  <2>1. /\ DOMAIN t.kind = 1 .. Len(t.parent) /\ Len(t.parent) \in Nat
        BY DEF P!TreeOK
  <2>2. Files(t) \in SUBSET (1 .. Len(t.parent))
        BY <2>1 DEF Files
  <2>3. IsFiniteSet(1 .. Len(t.parent))
        BY <2>1, FS_Interval
  <2> QED
      BY <2>1, <2>2, <2>3, FS_Subset
<1>2. N \in Nat
      BY <1>1, FS_CardinalityType
<1>3. ASSUME NEW n \in Files(t)
      PROVE  IsFiniteSet(UpTo(n)) /\ Cardinality(UpTo(n)) \in 1 .. N
  <2>1. UpTo(n) \in SUBSET Files(t) /\ n \in UpTo(n)
        BY <1>1
  <2>2. IsFiniteSet(UpTo(n)) /\ Cardinality(UpTo(n)) <= N
        BY <1>1, <2>1, FS_Subset
  <2>3. Cardinality(UpTo(n)) \in Nat /\ Cardinality(UpTo(n)) # 0
    <3> HIDE DEF UpTo
    <3> QED
        BY <2>1, <2>2, FS_CardinalityType, FS_EmptySet
  <2> QED
      BY <1>2, <2>2, <2>3
<1>4. ASSUME NEW m \in Files(t), NEW n \in Files(t), m < n
      PROVE  Cardinality(UpTo(m)) # Cardinality(UpTo(n))
  <2>1. UpTo(m) \in SUBSET UpTo(n) /\ n \in UpTo(n) /\ n \notin UpTo(m)
        BY <1>1, <1>4
  <2>2. IsFiniteSet(UpTo(n))
        BY <1>3
  <2> HIDE DEF UpTo
  <2> QED
      BY <2>1, <2>2, FS_Subset
<1>5. \A n \in Files(t) : FileOfNode(t, n) = Cardinality(UpTo(n))
      BY DEF FileOfNode
<1>6. \A n \in Files(t) : FileOfNode(t, n) \in 1 .. N
      BY <1>3, <1>5
<1>7. \A m, n \in Files(t) : FileOfNode(t, m) = FileOfNode(t, n) => m = n
  <2> SUFFICES ASSUME NEW m \in Files(t), NEW n \in Files(t), m # n PROVE FileOfNode(t, m) # FileOfNode(t, n)
      OBVIOUS
  <2>1. m < n \/ n < m
        BY <1>1
  <2> QED
      BY <1>4, <1>5, <2>1
<1>8. {FileOfNode(t, n) : n \in Files(t)} = 1 .. N
  <2> DEFINE f == [n \in Files(t) |-> FileOfNode(t, n)]
  <2>1. f \in Injection(Files(t), 1 .. N)
        BY <1>6, <1>7 DEF Injection, IsInjective
  <2>2. IsFiniteSet(1 .. N) /\ Cardinality(1 .. N) = N
        BY <1>2, FS_Interval
  <2>3. f \in Surjection(Files(t), 1 .. N)
    <3> HIDE DEF f
    <3> QED
        BY <2>1, <2>2, FS_Injection
  <2>4. \A k \in 1 .. N : \E n \in Files(t) : f[n] = k
        BY <2>3 DEF Surjection
  <2> QED
      BY <1>6, <2>4
<1> QED
    BY <1>2, <1>6, <1>7, <1>8

----------------------------------------------------------------------------
(* What was read: the files of the entries visited.                         *)

AfterWalk == {"fini", "free", "freeup", "done"}
Seen == {FileOfNode(fs, n) : n \in Files(fs) \cap P!Visited}

SizeInv == DOMAIN input.files = 1 .. Cardinality(Files(fs)) /\ file \in {0} \cup DOMAIN input.files

FileInv ==
  ~ IsDirectory =>
    /\ phase = "init"
    /\ fs.kind[P!Root] = "file" =>
         todo = IF file = 0 THEN DOMAIN input.files ELSE DOMAIN input.files \ {FileOfNode(fs, P!Root)}
    /\ fs.kind[P!Root] = "file" /\ file = 0 => pc = "read"

DirectoryInv ==
  IsDirectory =>
    /\ todo = DOMAIN input.files \ Seen
    /\ pc # "read" => phase \in AfterWalk \cup {"failed"}
    /\ phase \in AfterWalk /\ All("error") = {} => DOMAIN ent \ {P!Root} \subseteq P!Visited

ReadInv == P!IInv /\ SizeInv /\ FileInv /\ DirectoryInv

\* The steps of LibsGen2, as far as the files to read are concerned.
LEMMA ReadingSteps ==
  /\ ReadKey => /\ input' = input /\ todo' = todo /\ file' = file /\ pc' = pc /\ file # 0
  /\ BadKey => input' = input /\ todo' = todo /\ file' = file /\ pc' # "read"
  /\ ReadingEnds \/ NoDatabase => input' = input /\ todo' = todo /\ file' = file
  /\ Generate => input' = input /\ todo' = todo /\ file' = file /\ pc # "read" /\ pc' # "read"
  /\ UNCHANGED vars => input' = input /\ todo' = todo /\ file' = file /\ pc' = pc
<1>1. ReadKey => /\ input' = input /\ todo' = todo /\ file' = file /\ pc' = pc /\ file # 0
      BY DEF ReadKey, database_firmware, module_name, library_name, library_stubname, library_version, library_nid,
             library_privilege, entry_function, entry_variable, NewEntry, Set, At, Continue
<1>2. BadKey => input' = input /\ todo' = todo /\ file' = file /\ pc' # "read"
      BY DEF BadKey
<1>3. ReadingEnds \/ NoDatabase => input' = input /\ todo' = todo /\ file' = file
      BY DEF ReadingEnds, NoDatabase
<1>4. Generate => input' = input /\ todo' = todo /\ file' = file /\ pc # "read" /\ pc' # "read"
      BY DEF Generate, library_callback, AllGrouped, MakeStub, Exit
<1>5. UNCHANGED vars => input' = input /\ todo' = todo /\ file' = file /\ pc' = pc
      BY DEF vars
<1> QED
    BY <1>1, <1>2, <1>3, <1>4, <1>5

\* An error is in one of the files.
LEMMA ErrorRead ==
  ASSUME BadKey, SizeInv
  PROVE  All("error") # {}
<1>1. file \in DOMAIN input.files /\ rest \in DOMAIN input.files[file] /\ input.files[file][rest].key = "error"
      BY DEF BadKey, At, Key, SizeInv
<1>2. PICK e : e = <<file, rest>>
      OBVIOUS
<1>3. e \in {file} \X DOMAIN input.files[file] /\ KeyOf(e).key = "error"
      BY <1>1, <1>2 DEF KeyOf, FileOf
<1>4. e \in UNION {{f} \X DOMAIN input.files[f] : f \in DOMAIN input.files}
      BY <1>1, <1>3
<1> QED
    BY <1>3, <1>4 DEF All

LEMMA ErrorsStay ==
  ASSUME input' = input
  PROVE  (All("error") = {})' <=> (All("error") = {})
BY DEF All, KeyOf, FileOf

\* The list's step at a callback.
LEMMA VisitedNext ==
  ASSUME P!IInv, F!Visit
  PROVE  /\ curr \in DOMAIN ent /\ curr \notin P!Visited /\ fs' = fs /\ P!Visited' = P!Visited \cup {curr}
         /\ phase' = "callback" /\ curr \in DOMAIN fs.kind
<1>1. phase = "visit" /\ phase' = "callback" /\ visited' = Append(visited, curr) /\ fs' = fs
      BY DEF F!Visit
<1>2. /\ P!TreeOK(fs) /\ DOMAIN ent \subseteq P!Nodes /\ curr \in {P!NULL} \cup DOMAIN ent
      /\ visited \in Seq(Nat) /\ P!VisitedOnce /\ \A c \in DOMAIN ent : c \in Nat
      BY P!Facts
<1>3. curr # P!NULL
      BY <1>1 DEF P!IInv, P!Types
<1>4. PICK rank \in [DOMAIN ent -> Nat] : \E bound \in Nat :
        /\ P!Chain(rank, bound)
        /\ phase \in P!WalkPhases /\ curr # P!NULL => \E S : P!Walking(rank, S, curr, P!Visited, phase)
      BY P!Order
<1>5. PICK S : P!Walking(rank, S, curr, P!Visited, phase)
      BY <1>1, <1>3, <1>4 DEF P!WalkPhases
<1>6. PICK c \in DOMAIN ent : c = curr
      BY <1>2, <1>3
<1>7. PICK V : V = P!Visited
      OBVIOUS
<1>8. c \notin V /\ fs.parent[c] \in V \cup {P!Root}
      BY <1>1, <1>2, <1>5, <1>6, <1>7, P!WalkVisits
<1>9. P!Visited' = P!Visited \cup {c}
      BY <1>1, <1>2, <1>6, <1>7, <1>8, P!VisitedGrows
<1>10. c \in DOMAIN fs.kind
       BY <1>2 DEF P!TreeOK, P!Nodes
<1> QED
    BY <1>1, <1>6, <1>7, <1>8, <1>9, <1>10

\* A file that is called back with is one that was not read.
LEMMA Unread ==
  ASSUME ReadInv, F!Visit, fs.kind[curr] = "file", IsDirectory
  PROVE  /\ FileOfNode(fs, curr) \in todo
         /\ Seen' = Seen \cup {FileOfNode(fs, curr)}
<1>1. /\ curr \notin P!Visited /\ fs' = fs /\ P!Visited' = P!Visited \cup {curr} /\ curr \in Files(fs)
      BY VisitedNext DEF ReadInv, Files
<1>2. P!TreeOK(fs)
      BY P!Facts DEF ReadInv
<1>3. FileOfNode(fs, curr) \in DOMAIN input.files
      BY <1>1, <1>2, FileNumbers DEF ReadInv, SizeInv
<1>4. FileOfNode(fs, curr) \notin Seen
      BY <1>1, <1>2, FileNumbers DEF Seen
<1>5. todo = DOMAIN input.files \ Seen
      BY DEF ReadInv, DirectoryInv
<1>6. Seen' = Seen \cup {FileOfNode(fs, curr)}
  <2>1. PICK c : c = curr
        OBVIOUS
  <2>2. PICK t : t = fs
        OBVIOUS
  <2>3. Seen' = {FileOfNode(t, n) : n \in Files(t) \cap (P!Visited \cup {c})}
        BY <1>1, <2>1, <2>2 DEF Seen
  <2>4. Seen = {FileOfNode(t, n) : n \in Files(t) \cap P!Visited}
        BY <2>2 DEF Seen
  <2> QED
      BY <1>1, <2>1, <2>2, <2>3, <2>4
<1> QED
    BY <1>3, <1>4, <1>5, <1>6

\* What the walks do with the conditions of the invariant.
LEMMA ListActions ==
  ASSUME P!IInv
  PROVE  /\ List => /\ fs' = fs /\ visited' = visited /\ UNCHANGED vars /\ IsDirectory /\ phase \notin AfterWalk \cup {"failed"}
                    /\ phase' \in AfterWalk => DOMAIN ent' \ {P!Root} \subseteq P!Visited
         /\ FreeList => /\ fs' = fs /\ visited' = visited /\ UNCHANGED vars /\ DOMAIN ent' = DOMAIN ent
                        /\ phase \in AfterWalk /\ phase' \in AfterWalk
         /\ Returns => fs' = fs /\ visited' = visited /\ UNCHANGED vars /\ phase = "callback" /\ phase' \in {"visit", "climb"}
         /\ ReturnsError => fs' = fs /\ visited' = visited /\ BadKey /\ phase = "callback" /\ phase' = "fini"
<1>1. ASSUME F!fs_list_init \/ F!ReadEntry \/ F!NoMoreEntries
      PROVE  fs' = fs /\ visited' = visited /\ phase \in {"init", "list"} /\ phase' \notin AfterWalk
      BY <1>1 DEF F!fs_list_init, F!ReadEntry, F!NoMoreEntries, F!lists, AfterWalk
<1>2. ASSUME F!fs_list_execute
      PROVE  /\ fs' = fs /\ visited' = visited /\ phase = "listed"
             /\ phase' \in AfterWalk => DOMAIN ent' \ {P!Root} \subseteq P!Visited
  <2>1. /\ fs' = fs /\ visited' = visited /\ phase = "listed" /\ ent' = ent
        /\ phase' = IF ent[P!Root].child = P!NULL THEN "fini" ELSE "visit"
        BY <1>2 DEF F!fs_list_execute, F!lists, F!Root, P!Root, F!NULL, P!NULL
  <2>2. SUFFICES ASSUME ent[P!Root].child = P!NULL PROVE DOMAIN ent \subseteq {P!Root}
        BY <2>1 DEF AfterWalk
  <2>3. P!Root \in DOMAIN ent /\ \A m \in DOMAIN ent \ {P!Root} : fs.parent[m] \in DOMAIN ent
        BY <2>1 DEF P!IInv, P!Types, P!ListInv
  <2>4. P!TreeOK(fs) /\ DOMAIN ent \subseteq P!Nodes /\ P!NULL \notin DOMAIN ent
        BY P!Facts
  <2>5. PICK rank \in [DOMAIN ent -> Nat] : \E bound \in Nat : P!Chain(rank, bound)
        BY P!Order
  <2>6. P!Kids(P!Root) \subseteq {}
        BY <2>2, <2>3, <2>4, <2>5 DEF P!Chain, P!Kids
  <2> QED
      BY <2>3, <2>4, <2>6, P!FreeEnds
<1>3. ASSUME F!Climb
      PROVE  /\ fs' = fs /\ visited' = visited /\ phase = "climb"
             /\ phase' \in AfterWalk => DOMAIN ent' \ {P!Root} \subseteq P!Visited
  <2>1. /\ fs' = fs /\ visited' = visited /\ phase = "climb" /\ ent' = ent
        /\ phase' \in AfterWalk => curr = P!NULL
        BY <1>3 DEF F!Climb, F!lists, F!NULL, P!NULL, AfterWalk
  <2>2. curr = P!NULL => DOMAIN ent \ {P!Root} \subseteq P!Visited
        BY <2>1 DEF P!IInv, P!VisitedInv
  <2> QED
      BY <2>1, <2>2
<1>4. List => /\ fs' = fs /\ visited' = visited /\ UNCHANGED vars /\ IsDirectory /\ phase \notin AfterWalk \cup {"failed"}
              /\ phase' \in AfterWalk => DOMAIN ent' \ {P!Root} \subseteq P!Visited
      BY <1>1, <1>2, <1>3 DEF List, AfterWalk
<1>5. FreeList => fs' = fs /\ visited' = visited /\ UNCHANGED vars /\ phase \in AfterWalk /\ phase' \in AfterWalk
      BY DEF FreeList, F!fs_list_fini, F!Descend, F!FreeAndNext, F!LastOfDirectory, F!FreeUp, F!Free, F!lists, AfterWalk
<1>6. ASSUME FreeList PROVE DOMAIN ent' = DOMAIN ent
  <2>1. ASSUME NEW e, F!Free(e) PROVE DOMAIN ent' = DOMAIN ent
        BY <2>1 DEF F!Free
  <2>2. UNCHANGED ent => DOMAIN ent' = DOMAIN ent
        OBVIOUS
  <2>3. F!Free(curr) \/ UNCHANGED ent
        BY <1>6 DEF FreeList, F!fs_list_fini, F!Descend, F!FreeAndNext, F!LastOfDirectory, F!FreeUp, F!lists
  <2> QED
      BY <2>1, <2>2, <2>3
<1>7. Returns => fs' = fs /\ visited' = visited /\ UNCHANGED vars /\ phase = "callback" /\ phase' \in {"visit", "climb"}
      BY DEF Returns, F!CallbackSucceeds, F!lists
<1>8. ReturnsError => fs' = fs /\ visited' = visited /\ BadKey /\ phase = "callback" /\ phase' = "fini"
      BY DEF ReturnsError, F!CallbackFails, F!lists
<1> QED
    BY <1>4, <1>5, <1>6, <1>7, <1>8

LEMMA ReadInvInit ==
  ASSUME MainInit
  PROVE  ReadInv
<1>1. PICK c \in Cases : input = c.input /\ Init /\ fs = c.tree /\ F!Init
      BY DEF MainInit
<1>2. CaseOK(c) /\ P!IInv
      BY CasesAssumption, ListInit
<1>3. DOMAIN input.files = 1 .. Cardinality(Files(fs))
      BY <1>1, <1>2 DEF CaseOK, InputOK
<1>4. pc = "read" /\ file = 0 /\ todo = DOMAIN input.files /\ phase = "init" /\ visited = <<>>
      BY <1>1 DEF Init, F!Init
<1>5. Seen = {}
  <2>1. DOMAIN visited = {}
        BY <1>4
  <2> QED
      BY <2>1 DEF Seen, P!Visited
<1> QED
    BY <1>2, <1>3, <1>4, <1>5 DEF ReadInv, SizeInv, FileInv, DirectoryInv, AfterWalk

LEMMA ReadInvStep ==
  ASSUME ReadInv, [MainNext]_<<vars, list>>
  PROVE  ReadInv'
<1>1. P!IInv'
      BY ListStep DEF ReadInv
<1>2. /\ UNCHANGED list => fs' = fs /\ visited' = visited /\ phase' = phase /\ ent' = ent
      /\ fs' = fs /\ visited' = visited => P!Visited' = P!Visited
      BY P!VisitedStays DEF list
<1>3. fs' = fs /\ visited' = visited => Seen' = Seen
      BY <1>2 DEF Seen
<1>4. fs' = fs => (IsDirectory' <=> IsDirectory)
      BY DEF IsDirectory, F!Root
<1>5. P!Root \in DOMAIN fs.kind /\ fs.kind[P!Root] \in {"dir", "locked", "file", "gone"} /\ P!TreeOK(fs)
  <2>1. P!TreeOK(fs)
        BY P!Facts DEF ReadInv
  <2> QED
      BY <2>1, P!TreeFacts DEF P!TreeOK, P!Kinds, P!Nodes
\* Where the list and what was read stay.
<1>6. ASSUME fs' = fs, input' = input, todo' = todo, file' = file, UNCHANGED list, pc' = pc
      PROVE  ReadInv'
      BY <1>1, <1>2, <1>3, <1>4, <1>6, ErrorsStay DEF ReadInv, SizeInv, FileInv, DirectoryInv
<1>7. CASE ReadOneFile
  <2>1. fs.kind[P!Root] = "file" /\ UNCHANGED list /\ ~ IsDirectory
        BY <1>7 DEF ReadOneFile, OneFile, IsDirectory, F!Root, P!Root
  <2>2. CASE file = 0 /\ Open(FileOfNode(fs, F!Root))
    <3>1. /\ todo' = todo \ {FileOfNode(fs, P!Root)} /\ file' = FileOfNode(fs, P!Root) /\ input' = input /\ pc' = pc
          BY <2>2 DEF Open, F!Root, P!Root
    <3>2. FileOfNode(fs, P!Root) \in DOMAIN input.files /\ file' # 0
      <4>1. P!Root \in Files(fs)
            BY <1>5, <2>1 DEF Files
      <4>2. FileOfNode(fs, P!Root) \in 1 .. Cardinality(Files(fs))
            BY <1>5, <4>1, FileNumbers
      <4> QED
          BY <3>1, <4>2 DEF ReadInv, SizeInv
    <3>3. todo' = DOMAIN input.files \ {FileOfNode(fs, P!Root)}
          BY <2>1, <2>2, <3>1 DEF ReadInv, FileInv
    <3> QED
        BY <1>1, <1>2, <1>4, <2>1, <3>1, <3>2, <3>3 DEF ReadInv, SizeInv, FileInv, DirectoryInv
  <2>3. CASE ReadKey
        BY <1>2, <1>6, <2>1, <2>3, ReadingSteps
  <2>4. CASE BadKey \/ (file # 0 /\ ReadingEnds)
    <3>1. input' = input /\ todo' = todo /\ file' = file /\ file # 0
          BY <2>4, ReadingSteps DEF BadKey, At
    <3> QED
        BY <1>1, <1>2, <1>4, <2>1, <3>1 DEF ReadInv, SizeInv, FileInv, DirectoryInv
  <2> QED
      BY <1>7, <2>2, <2>3, <2>4 DEF ReadOneFile
<1>8. CASE StatFails
  <2>1. fs.kind[P!Root] = "gone" /\ UNCHANGED list /\ ~ IsDirectory /\ NoDatabase
        BY <1>8 DEF StatFails, IsDirectory, F!Root, P!Root
  <2>2. input' = input /\ todo' = todo /\ file' = file
        BY <2>1, ReadingSteps
  <2> QED
      BY <1>1, <1>2, <1>4, <2>1, <2>2 DEF ReadInv, SizeInv, FileInv, DirectoryInv
<1>9. CASE List
  <2>1. /\ fs' = fs /\ visited' = visited /\ UNCHANGED vars /\ IsDirectory /\ phase \notin AfterWalk \cup {"failed"}
        /\ phase' \in AfterWalk => DOMAIN ent' \ {P!Root} \subseteq P!Visited
        BY <1>9, ListActions DEF ReadInv
  <2>2. input' = input /\ todo' = todo /\ file' = file /\ pc' = pc /\ pc = "read"
        BY <2>1, ReadingSteps DEF ReadInv, DirectoryInv
  <2> QED
      BY <1>1, <1>2, <1>3, <1>4, <2>1, <2>2 DEF ReadInv, SizeInv, FileInv, DirectoryInv
<1>10. CASE CallsBack
  <2>1. F!Visit /\ phase = "visit" /\ phase' = "callback" /\ ent' = ent /\ IsDirectory
    <3>1. F!Visit
          BY <1>10 DEF CallsBack
    <3>2. phase = "visit" /\ phase' = "callback" /\ ent' = ent
          BY <3>1 DEF F!Visit
    <3> QED
        BY <3>1, <3>2 DEF ReadInv, FileInv
  <2>2. /\ curr \notin P!Visited /\ fs' = fs /\ P!Visited' = P!Visited \cup {curr}
        BY <2>1, VisitedNext DEF ReadInv
  <2>3. pc = "read"
        BY <2>1 DEF ReadInv, DirectoryInv, AfterWalk
  <2>4. CASE fs.kind[curr] = "file"
    <3>1. /\ input' = input /\ pc' = pc /\ todo' = todo \ {FileOfNode(fs, curr)} /\ file' = FileOfNode(fs, curr)
          BY <1>10, <2>4 DEF CallsBack, Open
    <3>2. FileOfNode(fs, curr) \in todo /\ Seen' = Seen \cup {FileOfNode(fs, curr)}
          BY <2>1, <2>4, Unread
    <3>3. file' \in DOMAIN input'.files /\ todo' = DOMAIN input'.files \ Seen'
          BY <2>1, <3>1, <3>2 DEF ReadInv, DirectoryInv
    <3>4. SizeInv'
          BY <2>2, <3>1, <3>3 DEF ReadInv, SizeInv
    <3>5. DirectoryInv'
          BY <2>1, <2>3, <3>1, <3>3 DEF DirectoryInv, AfterWalk
    <3> QED
        BY <1>1, <1>4, <2>1, <2>2, <3>4, <3>5 DEF ReadInv, FileInv
  <2>5. CASE fs.kind[curr] # "file"
    <3>1. input' = input /\ todo' = todo /\ file' = file /\ pc' = pc
          BY <1>10, <2>5, ReadingSteps DEF CallsBack
    <3>2. Seen' = Seen
      <4>1. Files(fs) \cap P!Visited' = Files(fs) \cap P!Visited
            BY <2>2, <2>5 DEF Files
      <4> QED
          BY <2>2, <4>1 DEF Seen
    <3> QED
        BY <1>1, <1>4, <2>1, <2>2, <2>3, <3>1, <3>2 DEF ReadInv, SizeInv, FileInv, DirectoryInv, AfterWalk
  <2> QED
      BY <2>4, <2>5
<1>11. CASE Reads
       BY <1>2, <1>6, <1>11, ReadingSteps DEF Reads
<1>12. CASE Returns
  <2>1. fs' = fs /\ visited' = visited /\ UNCHANGED vars /\ phase = "callback" /\ phase' \in {"visit", "climb"}
        BY <1>12, ListActions DEF ReadInv
  <2>2. input' = input /\ todo' = todo /\ file' = file /\ pc' = pc
        BY <2>1, ReadingSteps
  <2>3. IsDirectory /\ pc = "read"
        BY <2>1 DEF ReadInv, FileInv, DirectoryInv, AfterWalk
  <2> QED
      BY <1>1, <1>2, <1>3, <1>4, <2>1, <2>2, <2>3 DEF ReadInv, SizeInv, FileInv, DirectoryInv, AfterWalk
<1>13. CASE ReturnsError
  <2>1. fs' = fs /\ visited' = visited /\ BadKey /\ phase = "callback" /\ phase' = "fini"
        BY <1>13, ListActions DEF ReadInv
  <2>2. input' = input /\ todo' = todo /\ file' = file
        BY <2>1, ReadingSteps
  <2>3. IsDirectory /\ All("error") # {}
        BY <2>1, ErrorRead DEF ReadInv, FileInv
  <2>4. (All("error") = {})' <=> (All("error") = {})
        BY <2>2, ErrorsStay
  <2> QED
      BY <1>1, <1>2, <1>3, <1>4, <2>1, <2>2, <2>3, <2>4 DEF ReadInv, SizeInv, FileInv, DirectoryInv, AfterWalk
<1>14. CASE FreeList
  <2>1. /\ fs' = fs /\ visited' = visited /\ UNCHANGED vars /\ DOMAIN ent' = DOMAIN ent
        /\ phase \in AfterWalk /\ phase' \in AfterWalk
        BY <1>14, ListActions DEF ReadInv
  <2>2. input' = input /\ todo' = todo /\ file' = file /\ pc' = pc
        BY <2>1, ReadingSteps
  <2>3. IsDirectory
        BY <2>1 DEF ReadInv, FileInv, AfterWalk
  <2>4. (All("error") = {})' <=> (All("error") = {})
        BY <2>2, ErrorsStay
  <2> QED
      BY <1>1, <1>2, <1>3, <1>4, <2>1, <2>2, <2>3, <2>4 DEF ReadInv, SizeInv, FileInv, DirectoryInv
<1>15. CASE ListFreed /\ (ReadingEnds \/ Generate)
  <2>1. phase \in {"done", "failed"} /\ UNCHANGED list
        BY <1>15 DEF ListFreed
  <2>2. input' = input /\ todo' = todo /\ file' = file
        BY <1>15, ReadingSteps
  <2>3. IsDirectory
        BY <2>1 DEF ReadInv, FileInv
  <2>4. (All("error") = {})' <=> (All("error") = {})
        BY <2>2, ErrorsStay
  <2> QED
      BY <1>1, <1>2, <1>3, <1>4, <2>1, <2>2, <2>3, <2>4 DEF ReadInv, SizeInv, FileInv, DirectoryInv, AfterWalk
<1>16. CASE OneFile /\ Generate
  <2>1. fs.kind[P!Root] = "file" /\ UNCHANGED list /\ ~ IsDirectory
        BY <1>16 DEF OneFile, IsDirectory, F!Root, P!Root
  <2>2. input' = input /\ todo' = todo /\ file' = file /\ pc # "read"
        BY <1>16, ReadingSteps
  <2> QED
      BY <1>1, <1>2, <1>4, <2>1, <2>2 DEF ReadInv, SizeInv, FileInv, DirectoryInv
<1>17. CASE (Terminated /\ UNCHANGED list) \/ UNCHANGED <<vars, list>>
  <2>1. UNCHANGED vars /\ UNCHANGED list
        BY <1>17 DEF Terminated
  <2> QED
      BY <1>2, <1>6, <2>1, ReadingSteps
<1> QED
    BY <1>7, <1>8, <1>9, <1>10, <1>11, <1>12, <1>13, <1>14, <1>15, <1>16, <1>17 DEF MainNext

----------------------------------------------------------------------------
(* main() implements LibsGen2.                                              *)

LEMMA Implements ==
  ASSUME ReadInv, [MainNext]_<<vars, list>>
  PROVE  [Next]_vars
<1>1. CASE ReadOneFile
  <2>1. CASE file = 0 /\ Open(FileOfNode(fs, F!Root))
    <3>1. fs.kind[P!Root] = "file" /\ ~ IsDirectory /\ P!TreeOK(fs) /\ P!Root \in Files(fs)
      <4>1. fs.kind[P!Root] = "file" /\ ~ IsDirectory /\ P!TreeOK(fs)
            BY <1>1, P!Facts DEF ReadOneFile, OneFile, IsDirectory, F!Root, P!Root, ReadInv
      <4>2. P!Root \in DOMAIN fs.kind
            BY <4>1, P!TreeFacts DEF P!TreeOK, P!Nodes
      <4> QED
          BY <4>1, <4>2 DEF Files
    <3>2. FileOfNode(fs, P!Root) \in todo
      <4>1. FileOfNode(fs, P!Root) \in 1 .. Cardinality(Files(fs))
            BY <3>1, FileNumbers
      <4> QED
          BY <2>1, <3>1, <4>1 DEF ReadInv, SizeInv, FileInv
    <3>3. OpenFile
          BY <2>1, <3>2 DEF OpenFile, F!Root, P!Root
    <3> QED
        BY <3>3 DEF Next
  <2>2. CASE ReadKey \/ BadKey \/ ReadingEnds
        BY <2>2 DEF Next
  <2> QED
      BY <1>1, <2>1, <2>2 DEF ReadOneFile
<1>2. CASE CallsBack
  <2>1. CASE fs.kind[curr] = "file"
    <3>1. F!Visit /\ IsDirectory /\ Open(FileOfNode(fs, curr))
          BY <1>2, <2>1 DEF CallsBack, F!Visit, ReadInv, FileInv
    <3>2. FileOfNode(fs, curr) \in todo
          BY <2>1, <3>1, Unread
    <3>3. OpenFile
          BY <3>1, <3>2 DEF OpenFile
    <3> QED
        BY <3>3 DEF Next
  <2>2. CASE fs.kind[curr] # "file"
        BY <1>2, <2>2 DEF CallsBack
  <2> QED
      BY <2>1, <2>2
<1>3. CASE StatFails \/ Reads \/ ReturnsError \/ (ListFreed /\ (ReadingEnds \/ Generate)) \/ (OneFile /\ Generate)
      BY <1>3 DEF StatFails, Reads, ReturnsError, Next
<1>4. CASE List \/ Returns \/ FreeList \/ (Terminated /\ UNCHANGED list) \/ UNCHANGED <<vars, list>>
      BY <1>4 DEF List, Returns, FreeList, Terminated
<1> QED
    BY <1>1, <1>2, <1>3, <1>4 DEF MainNext

\* main() is an implementation of LibsGen2: it opens each file of the database at
\* most once, reads it to its end or to its first error, and generates after that;
\* whichever order fs_list gives.
THEOREM ImplementsReading == MainSpec => ImplementsLibsGen2
<1>1. MainInit => ReadInv /\ Init
      BY ReadInvInit DEF MainInit
<1>2. ReadInv /\ [MainNext]_<<vars, list>> => ReadInv'
      BY ReadInvStep
<1>3. ReadInv /\ [MainNext]_<<vars, list>> => [Next]_vars
      BY Implements
<1> QED
    BY <1>1, <1>2, <1>3, PTL DEF MainSpec, ImplementsLibsGen2, Spec

----------------------------------------------------------------------------
(* Every file that can be reached is read.                                  *)

LEMMA OnlyTheRoot ==
  ASSUME P!TreeOK(fs), fs.kind[P!Root] = "file"
  PROVE  P!Nodes = {P!Root}
<1>1. P!Root \in P!Nodes /\ P!Root = 1 /\ \A n \in P!Nodes : n \in Nat /\ n >= 1
      BY P!TreeFacts DEF P!Root
<1>2. \A n \in P!Nodes \ {P!Root} : fs.parent[n] \in P!Nodes /\ fs.parent[n] < n /\ fs.kind[fs.parent[n]] # "file"
      BY P!TreeFacts DEF P!TreeOK, P!Nodes, P!Root
<1>3. P!Nodes \subseteq {P!Root}
  <2>1. Len(fs.parent) \in Nat /\ P!Nodes = 1 .. Len(fs.parent)
        BY P!TreeFacts
  <2>2. 2 \notin P!Nodes
    <3> SUFFICES ASSUME 2 \in P!Nodes PROVE FALSE
        OBVIOUS
    <3>1. fs.parent[2] \in P!Nodes /\ fs.parent[2] < 2 /\ fs.kind[fs.parent[2]] # "file"
          BY <1>1, <1>2
    <3>2. PICK p \in P!Nodes : p = fs.parent[2]
          BY <3>1
    <3>3. p \in Nat /\ p >= 1 /\ p < 2 /\ P!Root = 1
          BY <1>1, <3>1, <3>2
    <3>4. fs.parent[2] = P!Root
          BY <3>2, <3>3
    <3> QED
        BY <1>1, <3>1, <3>4
  <2> QED
      BY <1>1, <2>1, <2>2
<1> QED
    BY <1>1, <1>3

LEMMA AllRead ==
  ASSUME ReadInv, pc = "success", ~ Unreadable
  PROVE  todo = {FileOfNode(fs, n) : n \in {m \in Files(fs) : ~ F!Reached[m]}}
<1>1. P!TreeOK(fs) /\ F!Reached = P!Reached /\ DOMAIN fs.kind = P!Nodes
  <2>1. P!TreeOK(fs)
        BY P!Facts DEF ReadInv
  <2> QED
      BY <2>1 DEF F!Reached, P!Reached, F!Nodes, P!Nodes, F!Root, P!Root, P!TreeOK
<1>2. /\ All("error") = {} /\ \A n \in P!Nodes : fs.kind[n] = "gone" => ~ P!Reached[n]
      BY <1>1 DEF Unreadable
<1>3. /\ P!Reached[P!Root] /\ P!Root \in P!Nodes
      /\ \A n \in P!Nodes \ {P!Root} :
           P!Reached[n] <=> P!Reached[fs.parent[n]] /\ fs.kind[fs.parent[n]] = "dir"
      BY <1>1, P!ReachedFacts, P!TreeFacts
<1>4. DOMAIN input.files = {FileOfNode(fs, n) : n \in Files(fs)}
      BY <1>1, FileNumbers DEF ReadInv, SizeInv
<1>5. \A m, n \in Files(fs) : FileOfNode(fs, m) = FileOfNode(fs, n) => m = n
      BY <1>1, FileNumbers
<1>6. Files(fs) \subseteq P!Nodes /\ \A n \in P!Nodes : n \in Files(fs) <=> fs.kind[n] = "file"
      BY <1>1 DEF Files
<1>7. CASE fs.kind[P!Root] = "file"
  <2>1. Files(fs) = {P!Root}
        BY <1>1, <1>3, <1>6, <1>7, OnlyTheRoot
  <2>2. todo = DOMAIN input.files \ {FileOfNode(fs, P!Root)}
        BY <1>7 DEF ReadInv, FileInv, IsDirectory, F!Root, P!Root
  <2> QED
      BY <1>1, <1>3, <1>4, <2>1, <2>2
<1>8. CASE IsDirectory
  <2>1. todo = DOMAIN input.files \ Seen /\ phase \in AfterWalk \cup {"failed"} /\ P!Root \notin Files(fs)
        BY <1>6, <1>8 DEF ReadInv, DirectoryInv, IsDirectory, F!Root, P!Root, Files
  <2>2. SUFFICES \A n \in Files(fs) : n \in P!Visited <=> P!Reached[n]
        BY <1>1, <1>4, <1>5, <2>1 DEF Seen
  <2>3. CASE phase \in AfterWalk
    <3>1. DOMAIN ent \ {P!Root} \subseteq P!Visited /\ P!Visited \subseteq DOMAIN ent \ {P!Root}
          BY <1>2, <1>8, <2>3, P!Facts DEF ReadInv, DirectoryInv
    <3>2. DOMAIN ent = {n \in P!Nodes : P!Reached[n]}
      <4>1. phase \in P!Walks \cup {"listed"}
            BY <2>3 DEF AfterWalk, P!Walks, P!FreePhases
      <4> QED
          BY <4>1, P!AllListed DEF ReadInv
    <3> QED
        BY <1>6, <2>1, <3>1, <3>2
  <2>4. CASE phase = "failed"
    <3>1. fs.kind[P!Root] # "dir"
      <4>1. fs.kind[P!Root] # "dir" \/ \E n \in P!Nodes : fs.kind[n] = "gone" /\ P!Reached[n]
            BY <2>4 DEF ReadInv, P!IInv, P!ListInv
      <4> QED
          BY <1>2, <4>1
    <3>2. P!Visited = {}
      <4>1. visited = <<>>
            BY <2>4 DEF ReadInv, P!IInv, P!VisitedInv, P!ListPhases
      <4>2. DOMAIN visited = {}
            BY <4>1
      <4> QED
          BY <4>2 DEF P!Visited
    <3>3. \A n \in P!Nodes \ {P!Root} : ~ P!Reached[n]
      <4> DEFINE T == {P!Root} \cup {n \in P!Nodes : ~ P!Reached[n]}
      <4>1. P!Root \in T /\ \A n \in P!Nodes \ {P!Root} : fs.parent[n] \in T => n \in T
            BY <1>3, <3>1
      <4>2. P!Nodes \subseteq T
        <5> HIDE DEF T
        <5> QED
            BY <1>1, <4>1, P!DownTheTree
      <4> QED
          BY <4>2
    <3> QED
        BY <1>6, <2>1, <3>2, <3>3
  <2> QED
      BY <2>1, <2>3, <2>4
<1>9. CASE fs.kind[P!Root] = "gone"
      BY <1>2, <1>3, <1>9
<1> QED
  <2>1. fs.kind[P!Root] \in {"dir", "locked", "file", "gone"}
        BY <1>1, <1>3 DEF P!TreeOK, P!Kinds
  <2> QED
      BY <1>7, <1>8, <1>9, <2>1 DEF IsDirectory, F!Root, P!Root

\* Unless a file is in error or an entry cannot be looked at, main() has read every
\* file that can be reached when it is done.
THEOREM EveryFileReadAlways == MainSpec => []EveryFileRead
<1>1. MainInit => ReadInv
      BY ReadInvInit
<1>2. ReadInv /\ [MainNext]_<<vars, list>> => ReadInv'
      BY ReadInvStep
<1>3. ReadInv => EveryFileRead
      BY AllRead DEF EveryFileRead
<1> QED
    BY <1>1, <1>2, <1>3, PTL DEF MainSpec

----------------------------------------------------------------------------
(* What vita-libs-gen-2 reads.                                              *)

\* Looking for an element, or appending it.
LEMMA WithFacts ==
  ASSUME NEW S, NEW s \in Seq(S), NEW x \in S, IsInjective(s)
  PROVE  /\ With(s, x) \in Seq(S) /\ IsInjective(With(s, x))
         /\ Index(s, x) \in DOMAIN With(s, x) /\ With(s, x)[Index(s, x)] = x
         /\ DOMAIN s \subseteq DOMAIN With(s, x) /\ \A i \in DOMAIN s : With(s, x)[i] = s[i]
<1>0. Len(s) \in Nat /\ DOMAIN s = 1 .. Len(s)
      OBVIOUS
<1>1. CASE \E i \in DOMAIN s : s[i] = x
  <2>1. With(s, x) = s
        BY <1>1 DEF With
  <2>2. Index(s, x) \in DOMAIN s /\ s[Index(s, x)] = x
        BY <1>1 DEF Index
  <2> QED
      BY <2>1, <2>2
<1>2. CASE ~ \E i \in DOMAIN s : s[i] = x
  <2> DEFINE t == Append(s, x)
  <2>1. With(s, x) = t /\ Index(s, x) = Len(s) + 1
        BY <1>2 DEF With, Index
  <2>2. /\ t \in Seq(S) /\ DOMAIN t = 1 .. Len(s) + 1 /\ t[Len(s) + 1] = x
        /\ \A i \in DOMAIN s : t[i] = s[i]
        OBVIOUS
  <2> HIDE DEF t
  <2>3. IsInjective(t)
    <3> SUFFICES ASSUME NEW i \in DOMAIN t, NEW j \in DOMAIN t, t[i] = t[j] PROVE i = j
        BY DEF IsInjective
    <3>1. \A k \in DOMAIN t : k \in DOMAIN s \/ k = Len(s) + 1
          BY <1>0, <2>2
    <3> QED
        BY <1>2, <2>2, <3>1 DEF IsInjective
  <2> QED
      BY <1>0, <2>1, <2>2, <2>3
<1> QED
    BY <1>1, <1>2

\* The keys of the file so far.
Behind(key) == \E j \in 1 .. rest - 1 : input.files[file][j].key = key

\* The numbers are in their lists, a key finds what it is about, and no error is
\* behind; while files are read nothing is written.
GenInv ==
  /\ InputOK(input) /\ TypeOK
  /\ rest \in Nat /\ (file # 0 \/ pc = "make" => rest >= 1)
  /\ pc = "read" /\ file # 0 =>
       /\ rest <= Len(input.files[file]) + 1
       /\ Behind("module") => cur.module # 0
       /\ Behind("library") => cur.library # 0
       /\ ~ Behind("error")
  /\ pc = "read" => stubs = <<>> /\ asm = <<>> /\ objs = <<>>
  /\ cur = [fw |-> cur.fw, module |-> cur.module, library |-> cur.library]

LEMMA InputFacts ==
  ASSUME InputOK(input), NEW f \in DOMAIN input.files
  PROVE  /\ DOMAIN input.files = 1 .. Len(input.files) /\ f \in Nat /\ f # 0
         /\ Len(input.files[f]) \in Nat /\ DOMAIN input.files[f] = 1 .. Len(input.files[f])
         /\ \A k \in DOMAIN input.files[f] : /\ input.files[f][k].name \in Seq(Nat) /\ input.files[f][k].value \in Nat
                                             /\ k \in Nat /\ k >= 1
<1>1. input.files \in Seq(Seq(Keys))
      BY DEF InputOK
<1>2. DOMAIN input.files = 1 .. Len(input.files) /\ Len(input.files) \in Nat /\ input.files[f] \in Seq(Keys)
      BY <1>1
<1>3. Len(input.files[f]) \in Nat /\ DOMAIN input.files[f] = 1 .. Len(input.files[f])
      BY <1>2
<1>4. \A k \in DOMAIN input.files[f] : input.files[f][k] \in Keys
      BY <1>2, <1>3
<1> QED
    BY <1>2, <1>3, <1>4 DEF Keys

\* The key that is read.
LEMMA KeyFacts ==
  ASSUME GenInv, NEW key, At(key)
  PROVE  /\ file \in DOMAIN input.files /\ file \in Nat /\ rest \in Nat /\ rest >= 1
         /\ rest <= Len(input.files[file]) /\ Len(input.files[file]) \in Nat
         /\ Key.name \in Seq(Nat) /\ Key.value \in Nat
         /\ key = "library" => cur.module \in DOMAIN modules
         /\ key \in LibraryKeys => cur.library \in DOMAIN libs
         /\ key = "kernel" => Key.value \in {NONE, USER, KERNEL}
<1>1. file \in DOMAIN input.files /\ pc = "read" /\ file # 0 /\ rest \in DOMAIN input.files[file] /\ Key.key = key
      BY DEF GenInv, TypeOK, At
<1>2. /\ file \in Nat /\ rest \in Nat /\ rest >= 1 /\ rest <= Len(input.files[file])
      /\ Len(input.files[file]) \in Nat /\ Key.name \in Seq(Nat) /\ Key.value \in Nat
      BY <1>1, InputFacts DEF GenInv, Key
<1>3. /\ key = "library" => Behind("module")
      /\ key \in LibraryKeys => Behind("library")
      /\ key = "kernel" => Key.value \in {USER, KERNEL}
  <2>1. /\ key = "library" => \E j \in 1 .. rest - 1 : input.files[file][j].key = "module"
        /\ key \in LibraryKeys => \E j \in 1 .. rest - 1 : input.files[file][j].key = "library"
        /\ key = "kernel" => Key.value \in {USER, KERNEL}
    <3>1. Key.key = input.files[file][rest].key /\ Key.value = input.files[file][rest].value
          BY DEF Key
    <3> QED
        BY <1>1, <3>1 DEF GenInv, InputOK
  <2> QED
      BY <2>1 DEF Behind
<1>4. key = "library" => cur.module \in DOMAIN modules
      BY <1>1, <1>3 DEF GenInv, TypeOK
<1>5. key \in LibraryKeys => cur.library \in DOMAIN libs
      BY <1>1, <1>3 DEF GenInv, TypeOK
<1> QED
    BY <1>1, <1>2, <1>3, <1>4, <1>5

LEMMA GenInit ==
  ASSUME Init
  PROVE  InputOK(input) => GenInv
<1> SUFFICES ASSUME InputOK(input) PROVE GenInv
    OBVIOUS
<1>1. TypeOK
  <2>1. /\ pc = "read" /\ todo = DOMAIN input.files /\ file = 0 /\ fws = <<>> /\ modules = <<>> /\ libs = <<>>
        /\ cur = [fw |-> 0, module |-> 0, library |-> 0] /\ stubs = <<>>
        BY DEF Init
  <2>2. /\ fws \in Seq(Nat) /\ DOMAIN fws = {} /\ modules \in Seq([fw : DOMAIN fws, name : Seq(Nat)])
        /\ DOMAIN modules = {} /\ libs \in Seq(LibraryType)
        BY <2>1
  <2>3. stubs \in Seq([firmware : Nat, name : Seq(Nat), libs : Seq(DOMAIN libs)])
        BY <2>1
  <2>4. IsInjective(fws) /\ IsInjective(modules)
        BY <2>2 DEF IsInjective
  <2>5. cur.fw \in {0} /\ cur.module \in {0} /\ cur.library \in {0} 
        BY <2>1
  <2> QED
      BY <2>1, <2>2, <2>3, <2>4, <2>5 DEF TypeOK
<1> QED
    BY <1>1 DEF GenInv, Init

\* Reading on in the file.
LEMMA ReadsOn ==
  ASSUME GenInv, cur' = [fw |-> cur'.fw, module |-> cur'.module, library |-> cur'.library], NEW key, At(key), Continue, key # "error", TypeOK',
         cur'.module # 0 \/ (cur'.module = cur.module /\ key # "module"),
         cur'.library # 0 \/ (cur'.library = cur.library /\ key # "library")
  PROVE  GenInv'
<1>1. /\ rest \in Nat /\ rest >= 1 /\ rest <= Len(input.files[file]) /\ Len(input.files[file]) \in Nat
      BY KeyFacts
<1>2. /\ rest' = rest + 1 /\ input' = input /\ pc' = pc /\ file' = file /\ stubs' = stubs /\ asm' = asm /\ objs' = objs
      /\ pc = "read" /\ file # 0 /\ input.files[file][rest].key = key
      BY DEF Continue, output, At, Key
<1>3. ASSUME NEW k PROVE Behind(k)' => Behind(k) \/ k = key
  <2>1. \A j \in 1 .. rest' - 1 : j \in 1 .. rest - 1 \/ j = rest
        BY <1>1, <1>2
  <2> QED
      BY <1>2, <2>1 DEF Behind
<1>4. rest' \in Nat /\ rest' >= 1 /\ rest' <= Len(input.files[file]) + 1
      BY <1>1, <1>2
<1> QED
    BY <1>2, <1>3, <1>4 DEF GenInv

\* The types when only these change.
LEMMA ReadTypes ==
  ASSUME GenInv, NEW key, At(key), Continue,
         fws' \in Seq(Nat) /\ IsInjective(fws'), DOMAIN fws \subseteq DOMAIN fws',
         modules' \in Seq([fw : DOMAIN fws', name : Seq(Nat)]) /\ IsInjective(modules'),
         libs' \in Seq(LibraryType)',
         cur'.fw \in {0} \cup DOMAIN fws', cur'.module \in {0} \cup DOMAIN modules', cur'.library \in {0} \cup DOMAIN libs'
  PROVE  TypeOK'
<1>1. /\ input' = input /\ pc' = pc /\ file' = file /\ stubs' = <<>> /\ todo' = todo
      BY DEF Continue, output, At, GenInv
<1>2. stubs' \in Seq([firmware : Nat, name : Seq(Nat), libs : Seq(DOMAIN libs')])
      BY <1>1
<1> QED
    BY <1>1, <1>2 DEF TypeOK, GenInv

\* A list of modules or libraries is one over longer lists too.
LEMMA ModulesGrow ==
  ASSUME TypeOK, DOMAIN fws \subseteq DOMAIN fws'
  PROVE  modules \in Seq([fw : DOMAIN fws', name : Seq(Nat)])
<1>1. [fw : DOMAIN fws, name : Seq(Nat)] \subseteq [fw : DOMAIN fws', name : Seq(Nat)]
      OBVIOUS
<1>2. modules \in Seq([fw : DOMAIN fws, name : Seq(Nat)])
      BY DEF TypeOK
<1> QED
    BY <1>1, <1>2, SeqMonotonic

LEMMA LibrariesGrow ==
  ASSUME TypeOK, DOMAIN modules \subseteq DOMAIN modules'
  PROVE  libs \in Seq(LibraryType)'
<1>1. LibraryType \subseteq LibraryType'
      BY DEF LibraryType
<1>2. libs \in Seq(LibraryType)
      BY DEF TypeOK
<1> QED
    BY <1>1, <1>2, SeqMonotonic

LEMMA FirmwareStep ==
  ASSUME GenInv, database_firmware
  PROVE  GenInv'
<1>1. /\ At("firmware") /\ Continue /\ modules' = modules /\ libs' = libs
      /\ \/ fws' = fws /\ cur' = cur
         \/ fws' = With(fws, Key.value) /\ cur' = [cur EXCEPT !.fw = Index(fws, Key.value)]
      BY DEF database_firmware
<1>2. fws \in Seq(Nat) /\ IsInjective(fws) /\ Key.value \in Nat
      BY <1>1, KeyFacts DEF GenInv, TypeOK
<1>3. /\ fws' \in Seq(Nat) /\ IsInjective(fws') /\ DOMAIN fws \subseteq DOMAIN fws'
      /\ cur'.fw \in {0} \cup DOMAIN fws' /\ cur'.module = cur.module /\ cur'.library = cur.library
  <2>1. CASE fws' = fws /\ cur' = cur
        BY <1>2, <2>1 DEF GenInv, TypeOK
  <2>2. CASE fws' = With(fws, Key.value) /\ cur' = [cur EXCEPT !.fw = Index(fws, Key.value)]
    <3>1. /\ With(fws, Key.value) \in Seq(Nat) /\ IsInjective(With(fws, Key.value))
          /\ Index(fws, Key.value) \in DOMAIN With(fws, Key.value) /\ DOMAIN fws \subseteq DOMAIN With(fws, Key.value)
          BY <1>2, WithFacts
    <3> QED
        BY <2>2, <3>1
  <2> QED
      BY <1>1, <2>1, <2>2
<1>4. TypeOK'
  <2>1. modules' \in Seq([fw : DOMAIN fws', name : Seq(Nat)]) /\ IsInjective(modules')
        BY <1>1, <1>3, ModulesGrow DEF GenInv, TypeOK
  <2>2. libs' \in Seq(LibraryType)'
        BY <1>1, LibrariesGrow DEF GenInv
  <2>3. cur'.module \in {0} \cup DOMAIN modules' /\ cur'.library \in {0} \cup DOMAIN libs'
        BY <1>1, <1>3 DEF GenInv, TypeOK
  <2> QED
      BY <1>1, <1>3, <2>1, <2>2, <2>3, ReadTypes
<1>5. cur' = [fw |-> cur'.fw, module |-> cur'.module, library |-> cur'.library]
      BY <1>1 DEF GenInv
<1> QED
    BY <1>1, <1>3, <1>4, <1>5, ReadsOn

LEMMA ModuleStep ==
  ASSUME GenInv, module_name
  PROVE  GenInv'
<1> DEFINE fw == IF cur.fw = 0 THEN Index(fws, 0) ELSE cur.fw
           m == [fw |-> fw, name |-> Key.name]
<1>1. /\ At("module") /\ Continue /\ libs' = libs
      /\ fws' = IF cur.fw = 0 THEN With(fws, 0) ELSE fws
      /\ modules' = With(modules, m) /\ cur' = [cur EXCEPT !.fw = fw, !.module = Index(modules, m)]
      BY DEF module_name
<1>2. fws \in Seq(Nat) /\ IsInjective(fws) /\ 0 \in Nat /\ Key.name \in Seq(Nat)
      BY <1>1, KeyFacts DEF GenInv, TypeOK
<1>3. fws' \in Seq(Nat) /\ IsInjective(fws') /\ DOMAIN fws \subseteq DOMAIN fws' /\ fw \in DOMAIN fws'
  <2>1. CASE cur.fw = 0
        BY <1>1, <1>2, <2>1, WithFacts
  <2>2. CASE cur.fw # 0
        BY <1>1, <1>2, <2>2 DEF GenInv, TypeOK
  <2> QED
      BY <2>1, <2>2
<1>4. modules \in Seq([fw : DOMAIN fws', name : Seq(Nat)]) /\ IsInjective(modules)
      BY <1>3, ModulesGrow DEF GenInv, TypeOK
<1> HIDE DEF fw
<1>5. m \in [fw : DOMAIN fws', name : Seq(Nat)]
      BY <1>2, <1>3
<1> HIDE DEF m
<1>6. /\ modules' \in Seq([fw : DOMAIN fws', name : Seq(Nat)]) /\ IsInjective(modules')
      /\ Index(modules, m) \in DOMAIN modules' /\ DOMAIN modules \subseteq DOMAIN modules'
  <2>1. PICK S : S = [fw : DOMAIN fws', name : Seq(Nat)]
        OBVIOUS
  <2>2. PICK x : x = m
        OBVIOUS
  <2>3. modules \in Seq(S) /\ x \in S /\ IsInjective(modules)
        BY <1>4, <1>5, <2>1, <2>2
  <2>4. /\ With(modules, x) \in Seq(S) /\ IsInjective(With(modules, x))
        /\ Index(modules, x) \in DOMAIN With(modules, x) /\ DOMAIN modules \subseteq DOMAIN With(modules, x)
        BY <2>3, WithFacts
  <2> QED
      BY <1>1, <2>1, <2>2, <2>4
<1>7. 0 \notin DOMAIN modules'
      BY <1>6
<1>8. /\ cur'.fw \in DOMAIN fws' /\ cur'.module \in DOMAIN modules' /\ cur'.library = cur.library
      /\ cur' = [fw |-> cur'.fw, module |-> cur'.module, library |-> cur'.library]
  <2>1. cur = [fw |-> cur.fw, module |-> cur.module, library |-> cur.library]
        BY DEF GenInv
  <2> QED
      BY <1>1, <1>3, <1>6, <2>1
<1>9. TypeOK'
  <2>1. libs' \in Seq(LibraryType)'
        BY <1>1, <1>6, LibrariesGrow DEF GenInv
  <2>2. cur'.library \in {0} \cup DOMAIN libs'
        BY <1>1, <1>8 DEF GenInv, TypeOK
  <2> QED
      BY <1>1, <1>3, <1>6, <1>8, <2>1, <2>2, ReadTypes
<1> QED
    BY <1>1, <1>7, <1>8, <1>9, ReadsOn

LEMMA LibraryStep ==
  ASSUME GenInv, library_name
  PROVE  GenInv'
<1> DEFINE l == [module |-> cur.module, name |-> Key.name, stubname |-> NoName, privilege |-> NONE,
                 version |-> 0, nid |-> 0, function |-> <<>>, variable |-> <<>>]
<1>1. /\ At("library") /\ Continue /\ fws' = fws /\ modules' = modules
      /\ libs' = Append(libs, l) /\ cur' = [cur EXCEPT !.library = Len(libs) + 1]
      BY DEF library_name
<1>2. l \in LibraryType
      BY <1>1, KeyFacts DEF LibraryType, NoName, NONE
<1> HIDE DEF l
<1>3. libs \in Seq(LibraryType) /\ LibraryType' = LibraryType /\ Len(libs) \in Nat
      BY <1>1 DEF GenInv, TypeOK, LibraryType
<1>4. libs' \in Seq(LibraryType) /\ Len(libs) + 1 \in DOMAIN libs' /\ Len(libs) + 1 # 0
      BY <1>1, <1>2, <1>3
<1>5. cur = [fw |-> cur.fw, module |-> cur.module, library |-> cur.library]
      BY DEF GenInv
<1>6. /\ cur'.fw = cur.fw /\ cur'.module = cur.module /\ cur'.library = Len(libs) + 1
      /\ cur' = [fw |-> cur'.fw, module |-> cur'.module, library |-> cur'.library]
      BY <1>1, <1>5
<1>7. TypeOK'
      BY <1>1, <1>3, <1>4, <1>6, ReadTypes DEF GenInv, TypeOK
<1> QED
    BY <1>1, <1>4, <1>6, <1>7, ReadsOn

LEMMA SetTypes ==
  ASSUME GenInv, NEW key \in LibraryKeys, At(key), NEW field, NEW x, Set(field, x),
         [libs[cur.library] EXCEPT ![field] = x] \in LibraryType
  PROVE  GenInv'
<1>1. /\ Continue /\ fws' = fws /\ modules' = modules /\ cur' = cur
      /\ libs' = [libs EXCEPT ![cur.library] = [libs[cur.library] EXCEPT ![field] = x]]
      BY DEF Set
<1>2. libs \in Seq(LibraryType) /\ LibraryType' = LibraryType /\ cur.library \in DOMAIN libs
      BY <1>1, KeyFacts DEF GenInv, TypeOK, LibraryType
<1>3. libs' \in Seq(LibraryType) /\ DOMAIN libs' = DOMAIN libs
      BY <1>1, <1>2
<1>4. key \notin {"module", "library", "error"}
      BY DEF LibraryKeys, EntryTypes
<1>5. TypeOK'
      BY <1>1, <1>2, <1>3, ReadTypes DEF GenInv, TypeOK
<1>6. cur' = [fw |-> cur'.fw, module |-> cur'.module, library |-> cur'.library]
      BY <1>1 DEF GenInv
<1> QED
    BY <1>1, <1>4, <1>5, <1>6, ReadsOn

LEMMA AttributeStep ==
  ASSUME GenInv, library_stubname \/ library_version \/ library_nid \/ library_privilege \/ entry_function \/ entry_variable
  PROVE  GenInv'
<1>1. ASSUME NEW key \in LibraryKeys, At(key)
      PROVE  LET l == libs[cur.library]
             IN /\ l = [module |-> l.module, name |-> l.name, stubname |-> l.stubname, privilege |-> l.privilege,
                        version |-> l.version, nid |-> l.nid, function |-> l.function, variable |-> l.variable]
                /\ l.module \in DOMAIN modules /\ l.name \in Seq(Nat) /\ l.stubname \in Seq(Nat)
                /\ l.privilege \in {NONE, USER, KERNEL} /\ l.version \in Nat /\ l.nid \in Nat
                /\ l.function \in Seq(EntryType) /\ l.variable \in Seq(EntryType)
  <2>1. libs[cur.library] \in LibraryType
    <3>1. libs \in Seq(LibraryType) /\ cur.library \in DOMAIN libs
          BY <1>1, KeyFacts DEF GenInv, TypeOK
    <3> QED
        BY <3>1
  <2> QED
      BY <2>1 DEF LibraryType
<1>2. ASSUME library_stubname PROVE GenInv'
  <2>1. At("stubname") /\ Set("stubname", Key.name) /\ "stubname" \in LibraryKeys
        BY <1>2 DEF library_stubname, LibraryKeys
  <2>2. Key.name \in Seq(Nat)
        BY <2>1, KeyFacts
  <2>3. [libs[cur.library] EXCEPT !["stubname"] = Key.name] \in LibraryType
        BY <1>1, <2>1, <2>2 DEF LibraryType
  <2> QED
      BY <2>1, <2>3, SetTypes
<1>3. ASSUME library_version PROVE GenInv'
  <2>1. At("version") /\ Set("version", Key.value) /\ "version" \in LibraryKeys
        BY <1>3 DEF library_version, LibraryKeys
  <2>2. Key.value \in Nat
        BY <2>1, KeyFacts
  <2>3. [libs[cur.library] EXCEPT !["version"] = Key.value] \in LibraryType
        BY <1>1, <2>1, <2>2 DEF LibraryType
  <2> QED
      BY <2>1, <2>3, SetTypes
<1>4. ASSUME library_nid PROVE GenInv'
  <2>1. At("nid") /\ Set("nid", Key.value) /\ "nid" \in LibraryKeys
        BY <1>4 DEF library_nid, LibraryKeys
  <2>2. Key.value \in Nat
        BY <2>1, KeyFacts
  <2>3. [libs[cur.library] EXCEPT !["nid"] = Key.value] \in LibraryType
        BY <1>1, <2>1, <2>2 DEF LibraryType
  <2> QED
      BY <2>1, <2>3, SetTypes
<1>5. ASSUME library_privilege PROVE GenInv'
  <2>1. At("kernel") /\ Set("privilege", Key.value) /\ "kernel" \in LibraryKeys
        BY <1>5 DEF library_privilege, LibraryKeys
  <2>2. Key.value \in {NONE, USER, KERNEL}
        BY <2>1, KeyFacts
  <2>3. [libs[cur.library] EXCEPT !["privilege"] = Key.value] \in LibraryType
        BY <1>1, <2>1, <2>2 DEF LibraryType
  <2> QED
      BY <2>1, <2>3, SetTypes
<1>6. ASSUME NEW type \in EntryTypes, At(type)
      PROVE  /\ [name |-> Key.name, nid |-> <<file, rest>>] \in EntryType
             /\ Append(libs[cur.library][type], [name |-> Key.name, nid |-> <<file, rest>>]) \in Seq(EntryType)
  <2>1. Key.name \in Seq(Nat) /\ file \in Nat /\ rest \in Nat
        BY <1>6, KeyFacts
  <2>2. PICK e : e = [name |-> Key.name, nid |-> <<file, rest>>]
        OBVIOUS
  <2>3. e \in EntryType
        BY <2>1, <2>2 DEF EntryType
  <2>4. libs[cur.library][type] \in Seq(EntryType)
    <3>1. type \in LibraryKeys
          BY DEF LibraryKeys
    <3> QED
        BY <1>1, <1>6, <3>1 DEF EntryTypes
  <2> QED
      BY <2>2, <2>3, <2>4
<1>7. ASSUME entry_function PROVE GenInv'
  <2>1. /\ At("function") /\ "function" \in LibraryKeys /\ "function" \in EntryTypes
        /\ Set("function", Append(libs[cur.library]["function"], [name |-> Key.name, nid |-> <<file, rest>>]))
        BY <1>7 DEF entry_function, NewEntry, LibraryKeys, EntryTypes
  <2>2. PICK x : x = Append(libs[cur.library]["function"], [name |-> Key.name, nid |-> <<file, rest>>])
        OBVIOUS
  <2>3. x \in Seq(EntryType)
        BY <1>6, <2>1, <2>2
  <2>4. [libs[cur.library] EXCEPT !["function"] = x] \in LibraryType
        BY <1>1, <2>1, <2>3 DEF LibraryType
  <2>5. Set("function", x)
        BY <2>1, <2>2
  <2> QED
      BY <2>1, <2>4, <2>5, SetTypes
<1>8. ASSUME entry_variable PROVE GenInv'
  <2>1. /\ At("variable") /\ "variable" \in LibraryKeys /\ "variable" \in EntryTypes
        /\ Set("variable", Append(libs[cur.library]["variable"], [name |-> Key.name, nid |-> <<file, rest>>]))
        BY <1>8 DEF entry_variable, NewEntry, LibraryKeys, EntryTypes
  <2>2. PICK x : x = Append(libs[cur.library]["variable"], [name |-> Key.name, nid |-> <<file, rest>>])
        OBVIOUS
  <2>3. x \in Seq(EntryType)
        BY <1>6, <2>1, <2>2
  <2>4. [libs[cur.library] EXCEPT !["variable"] = x] \in LibraryType
        BY <1>1, <2>1, <2>3 DEF LibraryType
  <2>5. Set("variable", x)
        BY <2>1, <2>2
  <2> QED
      BY <2>1, <2>4, <2>5, SetTypes
<1> QED
    BY <1>2, <1>3, <1>4, <1>5, <1>7, <1>8

LEMMA OpenStep ==
  ASSUME GenInv, OpenFile
  PROVE  GenInv'
<1>1. PICK f \in todo : Open(f)
      BY DEF OpenFile
<1>2. /\ pc = "read" /\ pc' = "read" /\ todo' = todo \ {f} /\ file' = f /\ rest' = 1 /\ input' = input /\ fws' = fws
      /\ modules' = modules /\ libs' = libs /\ cur' = cur /\ stubs' = stubs /\ asm' = asm /\ objs' = objs
      BY <1>1 DEF Open, output
<1>3. f \in DOMAIN input.files /\ Len(input.files[f]) \in Nat
      BY InputFacts DEF GenInv, TypeOK
<1>4. LibraryType' = LibraryType
      BY <1>2 DEF LibraryType
<1>5. TypeOK'
      BY <1>2, <1>3, <1>4 DEF GenInv, TypeOK
<1>6. ~ \E j \in 1 .. rest' - 1 : TRUE
      BY <1>2
<1> QED
    BY <1>2, <1>3, <1>5, <1>6 DEF GenInv, Behind

LEMMA EndStep ==
  ASSUME GenInv, BadKey \/ ReadingEnds \/ NoDatabase
  PROVE  GenInv'
<1>1. /\ pc' \in {"group", "failure"} /\ input' = input /\ todo' = todo /\ file' = file /\ rest' = rest /\ fws' = fws
      /\ modules' = modules /\ libs' = libs /\ cur' = cur /\ stubs' = stubs /\ asm' = asm /\ objs' = objs
      BY DEF BadKey, ReadingEnds, NoDatabase, output
<1>2. LibraryType' = LibraryType
      BY <1>1 DEF LibraryType
<1>3. TypeOK'
      BY <1>1, <1>2 DEF GenInv, TypeOK
<1> QED
    BY <1>1, <1>3 DEF GenInv

----------------------------------------------------------------------------
(* The library that comes next.                                             *)

ModuleIndex(i) == libs[i].module
FirmwareIndex(i) == modules[libs[i].module].fw

LEMMA LibraryFacts ==
  ASSUME TypeOK, NEW i \in DOMAIN libs
  PROVE  /\ i \in Nat /\ libs[i] \in LibraryType /\ libs[i].module \in DOMAIN modules /\ libs[i].module \in Nat
         /\ FirmwareIndex(i) \in DOMAIN fws /\ FirmwareIndex(i) \in Nat
         /\ FirmwareOf(libs[i]) \in Nat /\ modules[libs[i].module].name \in Seq(Nat)
<1>1. i \in Nat /\ libs[i] \in LibraryType
  <2>1. libs \in Seq(LibraryType)
        BY DEF TypeOK
  <2> QED
      BY <2>1
<1>2. libs[i].module \in DOMAIN modules
      BY <1>1 DEF LibraryType
<1>3. modules[libs[i].module] \in [fw : DOMAIN fws, name : Seq(Nat)] /\ libs[i].module \in Nat
  <2>1. modules \in Seq([fw : DOMAIN fws, name : Seq(Nat)])
        BY DEF TypeOK
  <2>2. modules[libs[i].module] \in [fw : DOMAIN fws, name : Seq(Nat)]
        BY <1>2, <2>1, ElementIn
  <2>3. libs[i].module \in Nat
        BY <1>2, <2>1
  <2> QED
      BY <2>2, <2>3
<1>4. modules[libs[i].module].fw \in DOMAIN fws /\ modules[libs[i].module].name \in Seq(Nat)
      BY <1>3
<1>5. fws \in Seq(Nat)
      BY DEF TypeOK
<1>6. modules[libs[i].module].fw \in Nat /\ fws[modules[libs[i].module].fw] \in Nat
      BY <1>4, <1>5
<1> QED
    BY <1>1, <1>2, <1>3, <1>4, <1>6 DEF FirmwareIndex, FirmwareOf

\* There is one while some library is in no stub.
LEMMA NextFacts ==
  ASSUME TypeOK, Grouped # DOMAIN libs
  PROVE  /\ Grouped \subseteq DOMAIN libs
         /\ NextLibrary \in DOMAIN libs \ Grouped
<1>1. Grouped \subseteq DOMAIN libs
  <2> SUFFICES ASSUME NEW k \in Grouped PROVE k \in DOMAIN libs
      OBVIOUS
  <2>1. PICK s \in DOMAIN stubs : \E i \in DOMAIN stubs[s].libs : k = stubs[s].libs[i]
        BY DEF Grouped
  <2>2. PICK i \in DOMAIN stubs[s].libs : k = stubs[s].libs[i]
        BY <2>1
  <2>3. stubs[s] \in [firmware : Nat, name : Seq(Nat), libs : Seq(DOMAIN libs)]
    <3>1. stubs \in Seq([firmware : Nat, name : Seq(Nat), libs : Seq(DOMAIN libs)])
          BY DEF TypeOK
    <3> QED
        BY <3>1, ElementIn
  <2>4. stubs[s].libs \in Seq(DOMAIN libs)
        BY <2>3
  <2> QED
      BY <2>2, <2>4
<1> DEFINE U == DOMAIN libs \ Grouped
           A == {FirmwareIndex(i) : i \in U}
<1>2. U # {} /\ \A i \in U : i \in DOMAIN libs
      BY <1>1
<1>3. A \in SUBSET Nat /\ A # {}
      BY <1>2, LibraryFacts
<1>4. PICK a \in A : \A b \in A : a <= b
      BY <1>3, LeastNatural
<1> DEFINE B == {ModuleIndex(i) : i \in {j \in U : FirmwareIndex(j) = a}}
<1>5. B \in SUBSET Nat /\ B # {}
      BY <1>2, <1>4, LibraryFacts DEF ModuleIndex
<1>6. PICK m \in B : \A b \in B : m <= b
      BY <1>5, LeastNatural
<1> DEFINE C == {i \in U : FirmwareIndex(i) = a /\ ModuleIndex(i) = m}
<1>7. C \in SUBSET Nat /\ C # {}
      BY <1>2, <1>6, LibraryFacts
<1>8. PICK i \in C : \A b \in C : i <= b
      BY <1>7, LeastNatural
<1>9. ASSUME NEW j \in U, j # i PROVE Before(i, j)
  <2>1. FirmwareIndex(i) <= FirmwareIndex(j)
        BY <1>4, <1>8
  <2>2. FirmwareIndex(i) \in Nat /\ FirmwareIndex(j) \in Nat /\ ModuleIndex(i) \in Nat /\ ModuleIndex(j) \in Nat
        /\ i \in Nat /\ j \in Nat
        BY <1>2, <1>8, LibraryFacts DEF ModuleIndex
  <2>3. CASE FirmwareIndex(i) # FirmwareIndex(j)
    <3>1. FirmwareIndex(i) < FirmwareIndex(j)
          BY <2>1, <2>2, <2>3
    <3> QED
        BY <3>1 DEF Before, FirmwareIndex
  <2>4. CASE FirmwareIndex(i) = FirmwareIndex(j)
    <3>1. FirmwareIndex(j) = a
          BY <1>8, <2>4
    <3>2. ModuleIndex(j) \in B
          BY <3>1
    <3>3. ModuleIndex(i) <= ModuleIndex(j)
          BY <1>6, <1>8, <3>2
    <3>4. CASE ModuleIndex(i) # ModuleIndex(j)
      <4>1. ModuleIndex(i) < ModuleIndex(j)
            BY <2>2, <3>3, <3>4
      <4> QED
          BY <2>4, <4>1 DEF Before, FirmwareIndex, ModuleIndex
    <3>5. CASE ModuleIndex(i) = ModuleIndex(j)
      <4>1. j \in C
            BY <1>8, <3>1, <3>5
      <4>2. i < j
            BY <1>8, <1>9, <2>2, <4>1
      <4> QED
          BY <3>5, <4>2 DEF Before, ModuleIndex
    <3> QED
        BY <3>4, <3>5
  <2> QED
      BY <2>3, <2>4
<1>10. \E k \in DOMAIN libs \ Grouped : \A j \in DOMAIN libs \ (Grouped \cup {k}) : Before(k, j)
  <2>1. i \in U /\ \A j \in U : j # i => Before(i, j)
        BY <1>8, <1>9
  <2> QED
      BY <2>1
<1> QED
    BY <1>1, <1>10 DEF NextLibrary

\* The name of an archive.
LEMMA SuffixType ==
  ASSUME NEW fw \in Nat
  PROVE  Suffix(fw) \in Seq(Nat)
<1>1. fw \div 4096 \in Nat /\ fw \div 65536 \in Nat /\ 16777216 + fw \div 4096 \in Nat
      BY SMT
<1>2. \A n \in Nat : <<n>> \in Seq(Nat)
      OBVIOUS
<1>3. <<>> \in Seq(Nat)
      OBVIOUS
<1> QED
    BY <1>1, <1>2, <1>3 DEF Suffix, Hex, ZeroHex

LEMMA NameType ==
  ASSUME TypeOK, NEW i \in DOMAIN libs
  PROVE  BaseName(libs[i]) \in Seq(Nat) /\ BaseName(libs[i]) \o Suffix(FirmwareOf(libs[i])) \in Seq(Nat)
<1>1. libs[i] \in LibraryType /\ FirmwareOf(libs[i]) \in Nat /\ modules[libs[i].module].name \in Seq(Nat)
      BY LibraryFacts
<1>2. libs[i].name \in Seq(Nat) /\ libs[i].stubname \in Seq(Nat)
      BY <1>1 DEF LibraryType
<1>3. BaseName(libs[i]) \in Seq(Nat)
      BY <1>1, <1>2 DEF BaseName
<1>4. Suffix(FirmwareOf(libs[i])) \in Seq(Nat)
      BY <1>1, SuffixType
<1> QED
    BY <1>3, <1>4, ConcatProperties

\* Into a new stub, or at the end of one that has the firmware and the name.
LEMMA GroupFacts ==
  ASSUME GenInv, library_callback
  PROVE  LET i == NextLibrary
             fw == FirmwareOf(libs[i])
             name == BaseName(libs[i]) \o Suffix(fw)
         IN /\ pc = "group" /\ i \in DOMAIN libs \ Grouped
            /\ fw \in Nat /\ name \in Seq(Nat)
            /\ \/ /\ \A s \in DOMAIN stubs : ~ SameStub(stubs[s], fw, name)
                  /\ stubs' = Append(stubs, [firmware |-> fw, name |-> name, libs |-> <<i>>])
               \/ \E s \in DOMAIN stubs :
                    /\ SameStub(stubs[s], fw, name)
                    /\ stubs' = [stubs EXCEPT ![s] = [firmware |-> fw, name |-> name, libs |-> Append(stubs[s].libs, i)]]
<1> DEFINE i == NextLibrary
           fw == FirmwareOf(libs[i])
           name == BaseName(libs[i]) \o Suffix(fw)
           found == {s \in DOMAIN stubs : SameStub(stubs[s], fw, name)}
<1>1. /\ pc = "group" /\ Grouped # DOMAIN libs
      /\ stubs' = IF found = {} THEN Append(stubs, [firmware |-> fw, name |-> name, libs |-> <<i>>])
                  ELSE [stubs EXCEPT ![CHOOSE s \in found : TRUE].libs = Append(@, i)]
      BY DEF library_callback
<1>2. i \in DOMAIN libs \ Grouped
      BY <1>1, NextFacts DEF GenInv
<1>3. fw \in Nat /\ name \in Seq(Nat)
      BY <1>2, LibraryFacts, NameType DEF GenInv
<1> HIDE DEF i, fw, name
<1>4. CASE found = {}
      BY <1>1, <1>2, <1>3, <1>4 DEF i, fw, name
<1>5. CASE found # {}
  <2>1. PICK s : s = CHOOSE t \in found : TRUE
        OBVIOUS
  <2>2. s \in DOMAIN stubs /\ SameStub(stubs[s], fw, name)
        BY <1>5, <2>1
  <2>3. stubs[s] \in [firmware : Nat, name : Seq(Nat), libs : Seq(DOMAIN libs)]
    <3>1. stubs \in Seq([firmware : Nat, name : Seq(Nat), libs : Seq(DOMAIN libs)])
          BY DEF GenInv, TypeOK
    <3> QED
        BY <2>2, <3>1, ElementIn
  <2>4. stubs[s] = [firmware |-> fw, name |-> name, libs |-> stubs[s].libs]
        BY <2>2, <2>3 DEF SameStub
  <2>5. stubs' = [stubs EXCEPT ![s] = [stubs[s] EXCEPT !.libs = Append(stubs[s].libs, i)]]
        BY <1>1, <1>5, <2>1
  <2>6. [stubs[s] EXCEPT !.libs = Append(stubs[s].libs, i)] = [firmware |-> fw, name |-> name, libs |-> Append(stubs[s].libs, i)]
    <3>1. PICK o, old, longer : o = stubs[s] /\ old = stubs[s].libs /\ longer = Append(stubs[s].libs, i)
          OBVIOUS
    <3>2. PICK f, n : f = fw /\ n = name
          OBVIOUS
    <3>3. o = [firmware |-> f, name |-> n, libs |-> old]
          BY <2>4, <3>1, <3>2
    <3>4. [o EXCEPT !.libs = longer] = [firmware |-> f, name |-> n, libs |-> longer]
          BY <3>3
    <3> QED
        BY <3>1, <3>2, <3>4
  <2> QED
      BY <1>1, <1>2, <1>3, <2>2, <2>5, <2>6 DEF i, fw, name
<1> QED
    BY <1>4, <1>5

LEMMA GroupStep ==
  ASSUME GenInv, library_callback
  PROVE  GenInv'
<1>1. /\ pc' = pc /\ input' = input /\ todo' = todo /\ file' = file /\ rest' = rest /\ fws' = fws
      /\ modules' = modules /\ libs' = libs /\ cur' = cur /\ asm' = asm /\ objs' = objs
      BY DEF library_callback
<1>2. PICK i \in DOMAIN libs, fw \in Nat, name \in Seq(Nat) :
        /\ pc = "group"
        /\ \/ stubs' = Append(stubs, [firmware |-> fw, name |-> name, libs |-> <<i>>])
           \/ \E s \in DOMAIN stubs :
                stubs' = [stubs EXCEPT ![s] = [firmware |-> fw, name |-> name, libs |-> Append(stubs[s].libs, i)]]
      BY GroupFacts
<1> DEFINE S == [firmware : Nat, name : Seq(Nat), libs : Seq(DOMAIN libs)]
<1>3. stubs \in Seq(S)
      BY DEF GenInv, TypeOK
<1>4. stubs' \in Seq(S)
  <2>1. CASE stubs' = Append(stubs, [firmware |-> fw, name |-> name, libs |-> <<i>>])
    <3>1. [firmware |-> fw, name |-> name, libs |-> <<i>>] \in S
          OBVIOUS
    <3> HIDE DEF S
    <3> QED
        BY <1>3, <2>1, <3>1
  <2>2. ASSUME NEW s \in DOMAIN stubs,
               stubs' = [stubs EXCEPT ![s] = [firmware |-> fw, name |-> name, libs |-> Append(stubs[s].libs, i)]]
        PROVE  stubs' \in Seq(S)
    <3>1. stubs[s] \in S
      <4> HIDE DEF S
      <4> QED
          BY <1>3
    <3>2. stubs[s].libs \in Seq(DOMAIN libs)
          BY <3>1
    <3>3. Append(stubs[s].libs, i) \in Seq(DOMAIN libs)
          BY <3>2
    <3>4. [firmware |-> fw, name |-> name, libs |-> Append(stubs[s].libs, i)] \in S
          BY <3>3
    <3> HIDE DEF S
    <3> QED
        BY <1>3, <2>2, <3>4
  <2> QED
      BY <1>2, <2>1, <2>2
<1>5. LibraryType' = LibraryType
      BY <1>1 DEF LibraryType
<1>6. TypeOK'
      BY <1>1, <1>4, <1>5 DEF GenInv, TypeOK
<1> QED
    BY <1>1, <1>2, <1>6 DEF GenInv

LEMMA MakeSteps ==
  ASSUME GenInv, AllGrouped \/ MakeStub \/ Exit
  PROVE  GenInv'
<1>1. /\ pc \in {"group", "make"} /\ pc' \in {"make", "success"} /\ input' = input /\ todo' = todo /\ file' = file
      /\ fws' = fws /\ modules' = modules /\ libs' = libs /\ cur' = cur /\ stubs' = stubs
      /\ rest' = 1 \/ (pc = "make" /\ (rest' = rest + 1 \/ rest' = rest))
      BY DEF AllGrouped, MakeStub, Exit, output
<1>2. LibraryType' = LibraryType
      BY <1>1 DEF LibraryType
<1>3. TypeOK'
      BY <1>1, <1>2 DEF GenInv, TypeOK
<1>4. rest' \in Nat /\ rest' >= 1
      BY <1>1 DEF GenInv
<1> QED
    BY <1>1, <1>3, <1>4 DEF GenInv

LEMMA GenStay ==
  ASSUME GenInv, UNCHANGED vars
  PROVE  GenInv'
<1>1. /\ input' = input /\ pc' = pc /\ todo' = todo /\ file' = file /\ rest' = rest /\ fws' = fws /\ modules' = modules
      /\ libs' = libs /\ cur' = cur /\ stubs' = stubs /\ asm' = asm /\ objs' = objs
      BY DEF vars
<1>2. LibraryType' = LibraryType
      BY <1>1 DEF LibraryType
<1>3. TypeOK'
      BY <1>1, <1>2 DEF GenInv, TypeOK
<1> QED
    BY <1>1, <1>3 DEF GenInv, Behind

LEMMA GenStep ==
  ASSUME GenInv, [Next]_vars
  PROVE  GenInv'
<1>1. ReadKey => GenInv'
      BY FirmwareStep, ModuleStep, LibraryStep, AttributeStep DEF ReadKey
<1>2. Generate => GenInv'
      BY GroupStep, MakeSteps DEF Generate
<1>3. Terminated => GenInv'
      BY GenStay DEF Terminated
<1> QED
    BY <1>1, <1>2, <1>3, OpenStep, EndStep, GenStay DEF Next

----------------------------------------------------------------------------
(* Of a file in error only what precedes the error.                         *)

\* The keys that the entries were read from.
NidsOf(l) == UNION {{l[type][n].nid : n \in DOMAIN l[type]} : type \in EntryTypes}
Nids == UNION {NidsOf(libs[i]) : i \in DOMAIN libs}

ErrorInv ==
  /\ file # 0 => file \notin todo
  /\ \A f \in DOMAIN input.files \ todo : f # file =>
       \A k \in DOMAIN input.files[f] : input.files[f][k].key # "error"
  /\ \A e \in Nids : e[1] \in DOMAIN input.files \ todo /\ \A k \in 1 .. e[2] : input.files[e[1]][k].key # "error"

LEMMA NidFacts ==
  ASSUME NEW i \in DOMAIN libs, NEW type \in EntryTypes, NEW n \in DOMAIN libs[i][type]
  PROVE  libs[i][type][n].nid \in Nids
<1>1. libs[i][type][n].nid \in NidsOf(libs[i])
      BY DEF NidsOf
<1> QED
    BY <1>1 DEF Nids, NidsOf

\* What reading a key does to the libraries: nothing, a library without entries, or
\* a change of the current one; which adds an entry or none.
Changed(l) ==
  \/ \A type \in EntryTypes : l[type] = libs[cur.library][type]
  \/ \E type \in EntryTypes :
       /\ At(type)
       /\ l[type] = Append(libs[cur.library][type], [name |-> Key.name, nid |-> <<file, rest>>])
       /\ \A other \in EntryTypes \ {type} : l[other] = libs[cur.library][other]

LEMMA LibraryChange ==
  ASSUME GenInv, ReadKey
  PROVE  /\ Continue
         /\ \/ libs' = libs
            \/ \E l : /\ libs' = Append(libs, l) /\ \A type \in EntryTypes : l[type] = <<>>
            \/ \E l : /\ libs' = [libs EXCEPT ![cur.library] = l] /\ Changed(l) /\ cur.library \in DOMAIN libs
<1>1. CASE database_firmware \/ module_name
      BY <1>1 DEF database_firmware, module_name
<1>2. CASE library_name
  <2>1. PICK l : l = [module |-> cur.module, name |-> Key.name, stubname |-> NoName, privilege |-> NONE,
                      version |-> 0, nid |-> 0, function |-> <<>>, variable |-> <<>>]
        OBVIOUS
  <2>2. libs' = Append(libs, l) /\ Continue
        BY <1>2, <2>1 DEF library_name
  <2>3. \A type \in EntryTypes : l[type] = <<>>
        BY <2>1 DEF EntryTypes
  <2> QED
      BY <2>2, <2>3
<1>3. ASSUME NEW key \in LibraryKeys, At(key)
      PROVE  /\ cur.library \in DOMAIN libs
             /\ libs[cur.library] =
                  [module |-> libs[cur.library].module, name |-> libs[cur.library].name,
                   stubname |-> libs[cur.library].stubname, privilege |-> libs[cur.library].privilege,
                   version |-> libs[cur.library].version, nid |-> libs[cur.library].nid,
                   function |-> libs[cur.library].function, variable |-> libs[cur.library].variable]
  <2>1. cur.library \in DOMAIN libs
        BY <1>3, KeyFacts
  <2>2. libs[cur.library] \in LibraryType
        BY <2>1, LibraryFacts DEF GenInv
  <2> QED
      BY <2>1, <2>2 DEF LibraryType
<1>4. ASSUME NEW key \in LibraryKeys, At(key), NEW field \in {"stubname", "version", "nid", "privilege"}, NEW x, Set(field, x)
      PROVE  Continue /\ \E l : /\ libs' = [libs EXCEPT ![cur.library] = l] /\ Changed(l) /\ cur.library \in DOMAIN libs
  <2>1. PICK l : l = [libs[cur.library] EXCEPT ![field] = x]
        OBVIOUS
  <2>2. libs' = [libs EXCEPT ![cur.library] = l] /\ Continue
        BY <1>4, <2>1 DEF Set
  <2>3. \A type \in EntryTypes : l[type] = libs[cur.library][type]
        BY <1>3, <1>4, <2>1 DEF EntryTypes
  <2> QED
      BY <1>3, <1>4, <2>2, <2>3 DEF Changed
<1>5. CASE library_stubname \/ library_version \/ library_nid \/ library_privilege
      BY <1>4, <1>5 DEF library_stubname, library_version, library_nid, library_privilege, LibraryKeys
<1>6. ASSUME NEW type \in EntryTypes, NewEntry(type)
      PROVE  Continue /\ \E l : /\ libs' = [libs EXCEPT ![cur.library] = l] /\ Changed(l) /\ cur.library \in DOMAIN libs
  <2>1. PICK x : x = Append(libs[cur.library][type], [name |-> Key.name, nid |-> <<file, rest>>])
        OBVIOUS
  <2>2. PICK l : l = [libs[cur.library] EXCEPT ![type] = x]
        OBVIOUS
  <2>3. libs' = [libs EXCEPT ![cur.library] = l] /\ Continue /\ At(type) /\ type \in LibraryKeys
        BY <1>6, <2>1, <2>2 DEF NewEntry, Set, LibraryKeys
  <2>4. l[type] = x /\ \A other \in EntryTypes \ {type} : l[other] = libs[cur.library][other]
        BY <1>3, <2>2, <2>3 DEF EntryTypes
  <2>5. l[type] = Append(libs[cur.library][type], [name |-> Key.name, nid |-> <<file, rest>>])
        BY <2>1, <2>4
  <2>6. Changed(l)
        BY <2>3, <2>4, <2>5, Zenon DEF Changed
  <2> QED
      BY <1>3, <2>3, <2>6
<1>7. CASE entry_function \/ entry_variable
      BY <1>6, <1>7 DEF entry_function, entry_variable, EntryTypes
<1> QED
    BY <1>1, <1>2, <1>5, <1>7 DEF ReadKey

\* Every list of a library is one.
LEMMA EntryLists ==
  ASSUME GenInv, NEW i \in DOMAIN libs, NEW type \in EntryTypes
  PROVE  libs[i][type] \in Seq(EntryType)
<1>1. libs[i] \in LibraryType
      BY LibraryFacts DEF GenInv
<1> QED
    BY <1>1 DEF LibraryType, EntryTypes

\* A key read adds at most itself.
LEMMA NidsGrow ==
  ASSUME GenInv, ReadKey, NEW e \in Nids'
  PROVE  e \in Nids \/ (e = <<file, rest>> /\ \E type \in EntryTypes : At(type))
<1>1. PICK i \in DOMAIN libs', type \in EntryTypes : \E n \in DOMAIN libs'[i][type] : e = libs'[i][type][n].nid
      BY DEF Nids, NidsOf
<1>2. PICK n \in DOMAIN libs'[i][type] : e = libs'[i][type][n].nid
      BY <1>1
<1>3. libs \in Seq(LibraryType) /\ Len(libs) \in Nat
      BY DEF GenInv, TypeOK
<1>4. ASSUME i \in DOMAIN libs, libs'[i][type] = libs[i][type]
      PROVE  e \in Nids
      BY <1>2, <1>4, NidFacts
<1>5. CASE libs' = libs
      BY <1>1, <1>4, <1>5
<1>6. ASSUME NEW l, libs' = Append(libs, l), \A t \in EntryTypes : l[t] = <<>>
      PROVE  e \in Nids
  <2>1. DOMAIN libs' = 1 .. Len(libs) + 1 /\ libs'[Len(libs) + 1] = l /\ \A k \in DOMAIN libs : libs'[k] = libs[k]
    <3>1. libs \in Seq(LibraryType \cup {l})
          BY <1>3, SeqMonotonic
    <3> QED
        BY <1>6, <3>1
  <2>2. i \in DOMAIN libs \/ i = Len(libs) + 1
        BY <1>1, <1>3, <2>1
  <2>3. libs'[i][type] # <<>>
        BY <1>2
  <2>4. i # Len(libs) + 1
        BY <1>6, <2>1, <2>3
  <2>5. i \in DOMAIN libs /\ libs'[i] = libs[i]
        BY <2>1, <2>2, <2>4
  <2>6. i \in DOMAIN libs /\ libs'[i][type] = libs[i][type]
        BY <2>5, Zenon
  <2> QED
      BY <1>4, <2>6
<1>7. ASSUME NEW l, libs' = [libs EXCEPT ![cur.library] = l], Changed(l), cur.library \in DOMAIN libs
      PROVE  e \in Nids \/ (e = <<file, rest>> /\ \E t \in EntryTypes : At(t))
  <2>1. i \in DOMAIN libs /\ libs'[i] = IF i = cur.library THEN l ELSE libs[i]
        BY <1>1, <1>7
  <2>2. CASE i # cur.library \/ l[type] = libs[cur.library][type]
        BY <1>4, <2>1, <2>2
  <2>3. CASE i = cur.library /\ l[type] # libs[cur.library][type]
    <3>1. PICK s : s = libs[i][type]
          OBVIOUS
    <3>2. s \in Seq(EntryType) /\ Len(s) \in Nat
          BY <2>1, <3>1, EntryLists
    <3>3. PICK x : x = [name |-> Key.name, nid |-> <<file, rest>>]
          OBVIOUS
    <3>4. l[type] = Append(s, x) /\ At(type)
          BY <1>7, <2>3, <3>1, <3>3 DEF Changed
    <3>5. s \in Seq(EntryType \cup {x})
          BY <3>2, SeqMonotonic
    <3>6. DOMAIN l[type] = 1 .. Len(s) + 1 /\ l[type][Len(s) + 1] = x /\ \A k \in DOMAIN s : l[type][k] = s[k]
          BY <3>4, <3>5
    <3>7. libs'[i][type] = l[type]
          BY <2>1, <2>3
    <3>8. CASE n \in DOMAIN s
      <4>1. e = libs[i][type][n].nid
            BY <1>2, <3>1, <3>6, <3>7, <3>8
      <4> QED
          BY <2>1, <3>1, <3>8, <4>1, NidFacts
    <3>9. CASE n = Len(s) + 1
      <4>1. e = x.nid
            BY <1>2, <3>6, <3>7, <3>9
      <4> QED
          BY <3>3, <3>4, <4>1
    <3>10. n \in DOMAIN s \/ n = Len(s) + 1
          BY <1>2, <3>2, <3>6, <3>7
    <3> QED
        BY <3>8, <3>9, <3>10
  <2> QED
      BY <2>2, <2>3
<1> QED
    BY <1>5, <1>6, <1>7, LibraryChange

LEMMA ErrorInit ==
  ASSUME Init
  PROVE  ErrorInv
<1>1. file = 0 /\ todo = DOMAIN input.files /\ libs = <<>> /\ DOMAIN libs = {}
      BY DEF Init
<1>2. Nids = {}
      BY <1>1 DEF Nids, NidsOf
<1> QED
    BY <1>1, <1>2 DEF ErrorInv

LEMMA ErrorStep ==
  ASSUME GenInv, ErrorInv, [Next]_vars
  PROVE  ErrorInv'
<1>1. CASE ReadKey
  <2>1. input' = input /\ todo' = todo /\ file' = file
        BY <1>1, LibraryChange DEF Continue
  <2>2. ASSUME NEW type \in EntryTypes, At(type)
        PROVE  /\ file \in DOMAIN input.files \ todo
               /\ \A k \in 1 .. rest : input.files[file][k].key # "error"
    <3>1. file \in DOMAIN input.files /\ file # 0 /\ rest \in Nat /\ rest >= 1 /\ pc = "read" /\ Key.key # "error"
          BY <2>2, KeyFacts DEF At, EntryTypes
    <3>2. \A k \in 1 .. rest : k \in 1 .. rest - 1 \/ k = rest
          BY <3>1
    <3>3. \A k \in 1 .. rest - 1 : input.files[file][k].key # "error"
          BY <3>1 DEF GenInv, Behind
    <3> QED
        BY <3>1, <3>2, <3>3 DEF ErrorInv, Key
  <2>3. ASSUME NEW e \in Nids'
        PROVE  e[1] \in DOMAIN input.files \ todo /\ \A k \in 1 .. e[2] : input.files[e[1]][k].key # "error"
    <3>1. CASE e \in Nids
          BY <3>1 DEF ErrorInv
    <3>2. CASE e = <<file, rest>> /\ \E type \in EntryTypes : At(type)
      <4>1. e[1] = file /\ e[2] = rest
            BY <3>2
      <4> QED
          BY <2>2, <3>2, <4>1
    <3> QED
        BY <1>1, <3>1, <3>2, NidsGrow
  <2> QED
      BY <2>1, <2>3 DEF ErrorInv
<1>2. CASE OpenFile
  <2>1. PICK f \in todo : Open(f)
        BY <1>2 DEF OpenFile
  <2>2. input' = input /\ todo' = todo \ {f} /\ file' = f /\ libs' = libs /\ FileDone /\ pc = "read"
        BY <2>1 DEF Open
  <2>3. Nids' = Nids
        BY <2>2 DEF Nids, NidsOf
  <2>4. f \in DOMAIN input.files /\ f # 0
        BY InputFacts DEF GenInv, TypeOK
  <2>5. ASSUME file # 0, NEW k \in DOMAIN input.files[file]
        PROVE  input.files[file][k].key # "error"
    <3>1. file \in DOMAIN input.files
          BY <2>5 DEF GenInv, TypeOK
    <3>2. k \in Nat /\ k >= 1 /\ k <= Len(input.files[file]) /\ Len(input.files[file]) \in Nat
          BY <3>1, InputFacts DEF GenInv
    <3>3. rest > Len(input.files[file]) /\ rest \in Nat
          BY <2>2, <2>5 DEF FileDone, GenInv
    <3>4. k \in 1 .. rest - 1
          BY <3>2, <3>3
    <3> QED
        BY <2>2, <2>5, <3>4 DEF GenInv, Behind
  <2>6. \A g \in DOMAIN input.files \ todo' : g # f =>
           \A k \in DOMAIN input.files[g] : input.files[g][k].key # "error"
        BY <2>2, <2>5, InputFacts DEF ErrorInv, GenInv
  <2> QED
      BY <2>2, <2>3, <2>4, <2>6 DEF ErrorInv
<1>3. CASE BadKey \/ ReadingEnds \/ NoDatabase \/ Generate \/ Terminated \/ UNCHANGED vars
  <2>1. input' = input /\ todo' = todo /\ file' = file /\ libs' = libs
        BY <1>3 DEF BadKey, ReadingEnds, NoDatabase, Generate, library_callback, AllGrouped, MakeStub, Exit, Terminated, vars
  <2>2. Nids' = Nids
        BY <2>1 DEF Nids, NidsOf
  <2> QED
      BY <2>1, <2>2 DEF ErrorInv
<1> QED
    BY <1>1, <1>2, <1>3 DEF Next

LEMMA ErrorHolds ==
  ASSUME GenInv, ErrorInv
  PROVE  NothingAfterError
<1> SUFFICES ASSUME NEW i \in DOMAIN libs, NEW type \in EntryTypes, NEW n \in DOMAIN libs[i][type],
                    NEW e, e = libs[i][type][n].nid
             PROVE  /\ \A k \in 1 .. e[2] : FileOf(e)[k].key # "error"
                    /\ e[1] \notin todo /\ (e[1] # file => \A d \in All("error") : d[1] # e[1])
    BY DEF NothingAfterError
<1>1. e \in Nids
      BY NidFacts
<1>2. e[1] \in DOMAIN input.files \ todo /\ \A k \in 1 .. e[2] : input.files[e[1]][k].key # "error"
      BY <1>1 DEF ErrorInv
<1>3. ASSUME e[1] # file, NEW d \in All("error"), d[1] = e[1] PROVE FALSE
  <2>1. PICK f \in DOMAIN input.files : d \in {f} \X DOMAIN input.files[f]
        BY DEF All
  <2>2. d[1] = f /\ d[2] \in DOMAIN input.files[f] /\ input.files[f][d[2]].key = "error"
        BY <2>1 DEF All, KeyOf, FileOf
  <2> QED
      BY <1>2, <1>3, <2>2 DEF ErrorInv
<1> QED
    BY <1>2, <1>3 DEF FileOf

----------------------------------------------------------------------------
(* What was read is built.                                                  *)

\* The files of a library l are those of its entries.
FilesAre(files, stub, l) ==
  /\ IsList(files)
  /\ \A type \in EntryTypes : \A n \in DOMAIN l[type] : \E k \in DOMAIN files :
       files[k] = <<FileName(stub, l, l[type][n]), Asm(l, type, l[type][n])>>
  /\ \A k \in DOMAIN files : \E type \in EntryTypes : \E n \in DOMAIN l[type] :
       files[k] = <<FileName(stub, l, l[type][n]), Asm(l, type, l[type][n])>>

\* The assembly files of a library.
LEMMA FilesOfFacts ==
  ASSUME GenInv, NEW stub, NEW i \in DOMAIN libs
  PROVE  FilesAre(FilesOf(stub, libs[i]), stub, libs[i])
<1> DEFINE Pair(type, n) == <<FileName(stub, libs[i], libs[i][type][n]), Asm(libs[i], type, libs[i][type][n])>>
           of(type) == [n \in DOMAIN libs[i][type] |-> Pair(type, n)]
<1> HIDE DEF Pair
<1>1. FilesOf(stub, libs[i]) = of("function") \o of("variable")
      BY DEF FilesOf, Pair
<1>2. ASSUME NEW type \in EntryTypes
      PROVE  IsList(of(type)) /\ DOMAIN of(type) = DOMAIN libs[i][type] /\ \A n \in DOMAIN libs[i][type] : of(type)[n] = Pair(type, n)
  <2>1. IsList(libs[i][type])
        BY EntryLists DEF IsList
  <2>2. PICK t : t = of(type)
        OBVIOUS
  <2>3. t = [n \in DOMAIN libs[i][type] |-> t[n]]
        BY <2>2
  <2>4. IsList(t)
        BY <2>1, <2>3, MapList
  <2> QED
      BY <2>2, <2>4
<1> HIDE DEF of
<1>3. PICK f : f = of("function") /\ IsList(f) /\ DOMAIN f = DOMAIN libs[i]["function"]
               /\ \A n \in DOMAIN libs[i]["function"] : f[n] = Pair("function", n)
      BY <1>2 DEF EntryTypes
<1>4. PICK v : v = of("variable") /\ IsList(v) /\ DOMAIN v = DOMAIN libs[i]["variable"]
               /\ \A n \in DOMAIN libs[i]["variable"] : v[n] = Pair("variable", n)
      BY <1>2 DEF EntryTypes
<1>5. PICK all : all = f \o v /\ all = FilesOf(stub, libs[i])
      BY <1>1, <1>3, <1>4
<1>6. /\ IsList(all) /\ Len(all) = Len(f) + Len(v)
      /\ \A k \in 1 .. Len(f) + Len(v) : all[k] = IF k <= Len(f) THEN f[k] ELSE v[k - Len(f)]
      BY <1>3, <1>4, <1>5, ListConcat
<1>7. /\ DOMAIN all = 1 .. Len(f) + Len(v) /\ DOMAIN f = 1 .. Len(f) /\ DOMAIN v = 1 .. Len(v) /\ Len(f) \in Nat /\ Len(v) \in Nat
      BY <1>3, <1>4, <1>6, ListFacts
<1>8. ASSUME NEW type \in EntryTypes, NEW n \in DOMAIN libs[i][type]
      PROVE  \E k \in DOMAIN all : all[k] = Pair(type, n)
  <2>1. CASE type = "function"
    <3>0. n \in DOMAIN f /\ f[n] = Pair(type, n)
          BY <1>3, <1>8, <2>1
    <3>1. n \in 1 .. Len(f) + Len(v) /\ n <= Len(f) /\ f[n] = Pair(type, n)
          BY <1>7, <3>0
    <3> QED
        BY <1>6, <1>7, <3>1
  <2>2. CASE type = "variable"
    <3>1. n \in 1 .. Len(v) /\ v[n] = Pair(type, n)
          BY <1>4, <1>7, <1>8, <2>2
    <3>2. Len(f) + n \in 1 .. Len(f) + Len(v) /\ ~ (Len(f) + n <= Len(f)) /\ (Len(f) + n) - Len(f) = n
          BY <1>7, <3>1
    <3> QED
        BY <1>6, <1>7, <3>1, <3>2
  <2> QED
      BY <2>1, <2>2 DEF EntryTypes
<1>9. ASSUME NEW k \in DOMAIN all
      PROVE  \E type \in EntryTypes : \E n \in DOMAIN libs[i][type] : all[k] = Pair(type, n)
  <2>1. CASE k <= Len(f)
    <3>1. k \in DOMAIN f /\ all[k] = f[k]
          BY <1>6, <1>7, <2>1
    <3>2. k \in DOMAIN libs[i]["function"] /\ all[k] = Pair("function", k) /\ "function" \in EntryTypes
          BY <1>3, <3>1 DEF EntryTypes
    <3> QED
        BY <3>2
  <2>2. CASE ~ (k <= Len(f))
    <3>1. k - Len(f) \in DOMAIN v /\ all[k] = v[k - Len(f)]
          BY <1>6, <1>7, <2>2
    <3>2. k - Len(f) \in DOMAIN libs[i]["variable"] /\ all[k] = Pair("variable", k - Len(f)) /\ "variable" \in EntryTypes
          BY <1>4, <3>1 DEF EntryTypes
    <3> QED
        BY <3>2
  <2> QED
      BY <2>1, <2>2
<1> QED
    BY <1>5, <1>6, <1>8, <1>9 DEF Pair, FilesAre

\* The stubs are made of libraries.
LEMMA StubFacts ==
  ASSUME GenInv, NEW s \in DOMAIN stubs
  PROVE  /\ s \in Nat /\ s >= 1 /\ s <= Len(stubs) /\ Len(stubs) \in Nat /\ DOMAIN stubs = 1 .. Len(stubs)
         /\ stubs[s].libs \in Seq(DOMAIN libs) /\ \A i \in DOMAIN stubs[s].libs : stubs[s].libs[i] \in DOMAIN libs
<1> DEFINE S == [firmware : Nat, name : Seq(Nat), libs : Seq(DOMAIN libs)]
<1>1. stubs \in Seq(S)
      BY DEF GenInv, TypeOK
<1>2. stubs[s] \in S
      BY <1>1, ElementIn
<1>3. stubs[s].libs \in Seq(DOMAIN libs)
      BY <1>2
<1> HIDE DEF S
<1>4. s \in Nat /\ s >= 1 /\ s <= Len(stubs) /\ Len(stubs) \in Nat /\ DOMAIN stubs = 1 .. Len(stubs)
      BY <1>1
<1> QED
    BY <1>3, <1>4

\* Those of a stub: of each of its libraries, and no others.
LEMMA StubFilesFacts ==
  ASSUME GenInv, NEW s \in DOMAIN stubs
  PROVE  /\ IsList(StubFiles(stubs[s]))
         /\ \A i \in DOMAIN stubs[s].libs : \A k \in DOMAIN FilesOf(stubs[s], libs[stubs[s].libs[i]]) :
              \E m \in DOMAIN StubFiles(stubs[s]) :
                StubFiles(stubs[s])[m] = FilesOf(stubs[s], libs[stubs[s].libs[i]])[k]
         /\ \A m \in DOMAIN StubFiles(stubs[s]) :
              \E i \in DOMAIN stubs[s].libs : \E k \in DOMAIN FilesOf(stubs[s], libs[stubs[s].libs[i]]) :
                StubFiles(stubs[s])[m] = FilesOf(stubs[s], libs[stubs[s].libs[i]])[k]
<1>1. PICK t : t = [i \in DOMAIN stubs[s].libs |-> FilesOf(stubs[s], libs[stubs[s].libs[i]])]
      OBVIOUS
<1>2. DOMAIN t = DOMAIN stubs[s].libs /\ t = [i \in DOMAIN stubs[s].libs |-> t[i]]
      /\ \A i \in DOMAIN stubs[s].libs : t[i] = FilesOf(stubs[s], libs[stubs[s].libs[i]])
      BY <1>1
<1>3. IsList(t)
  <2>1. IsList(stubs[s].libs)
        BY StubFacts DEF IsList
  <2> QED
      BY <1>2, <2>1, MapList
<1>4. ASSUME NEW i \in DOMAIN t PROVE IsList(t[i])
  <2>1. stubs[s].libs[i] \in DOMAIN libs
        BY <1>2, StubFacts
  <2>2. IsList(FilesOf(stubs[s], libs[stubs[s].libs[i]]))
        BY <2>1, FilesOfFacts DEF FilesAre
  <2> QED
      BY <1>2, <2>2
<1>5. StubFiles(stubs[s]) = FlattenSeq(t)
      BY <1>1 DEF StubFiles
<1>6. IsList(FlattenSeq(t))
      BY <1>3, <1>4, FlattenList
<1>7. \A m \in DOMAIN FlattenSeq(t) : \E i \in DOMAIN t : \E k \in DOMAIN t[i] : FlattenSeq(t)[m] = t[i][k]
      BY <1>3, <1>4, FlattenElements
<1>8. \A i \in DOMAIN t : \A k \in DOMAIN t[i] : \E m \in DOMAIN FlattenSeq(t) : FlattenSeq(t)[m] = t[i][k]
      BY <1>3, <1>4, FlattenHas
<1>9. PICK all : all = FlattenSeq(t)
      OBVIOUS
<1>10. ASSUME NEW i \in DOMAIN stubs[s].libs, NEW k \in DOMAIN FilesOf(stubs[s], libs[stubs[s].libs[i]])
       PROVE  \E m \in DOMAIN all : all[m] = FilesOf(stubs[s], libs[stubs[s].libs[i]])[k]
  <2>1. i \in DOMAIN t /\ k \in DOMAIN t[i] /\ t[i] = FilesOf(stubs[s], libs[stubs[s].libs[i]])
        BY <1>2, <1>10
  <2> QED
      BY <1>8, <1>9, <2>1
<1>11. ASSUME NEW m \in DOMAIN all
       PROVE  \E i \in DOMAIN stubs[s].libs : \E k \in DOMAIN FilesOf(stubs[s], libs[stubs[s].libs[i]]) :
                all[m] = FilesOf(stubs[s], libs[stubs[s].libs[i]])[k]
  <2>1. PICK i \in DOMAIN t : \E k \in DOMAIN t[i] : all[m] = t[i][k]
        BY <1>7, <1>9
  <2>2. i \in DOMAIN stubs[s].libs /\ t[i] = FilesOf(stubs[s], libs[stubs[s].libs[i]])
        BY <1>2, <2>1
  <2> QED
      BY <2>1, <2>2
<1> QED
    BY <1>5, <1>6, <1>9, <1>10, <1>11

\* What a list of pairs overrides, and with what.
Firsts(s) == {s[i][1] : i \in DOMAIN s}
Overridden(g, f, s) ==
  /\ DOMAIN g = DOMAIN f \cup Firsts(s)
  /\ \A n \in DOMAIN f : (\A i \in DOMAIN s : s[i][1] # n) => g[n] = f[n]
  /\ \A n \in Firsts(s) : \E i \in DOMAIN s : s[i][1] = n /\ g[n] = s[i][2]
SetAt(g, f, n, x) == DOMAIN g = DOMAIN f \cup {n} /\ g[n] = x /\ \A k \in DOMAIN f \ {n} : g[k] = f[k]

LEMMA OverrideFacts ==
  ASSUME NEW f, NEW s, IsList(s), NEW g, g = Override(f, s)
  PROVE  Overridden(g, f, s)
<1> DEFINE at(n) == {i \in DOMAIN s : s[i][1] = n}
           last(n) == CHOOSE i \in at(n) : \A j \in at(n) : j <= i
           Names == Firsts(s)
<1>1. g = [n \in DOMAIN f \cup Names |-> IF at(n) = {} THEN f[n] ELSE s[last(n)][2]]
      BY DEF Override, Firsts
<1>2. ASSUME NEW n \in Names PROVE last(n) \in at(n)
  <2>1. at(n) # {}
        BY DEF Firsts
  <2>2. Len(s) \in Nat /\ DOMAIN s = 1 .. Len(s)
        BY ListFacts
  <2>3. at(n) \in SUBSET (0 .. Len(s))
        BY <2>2
  <2> HIDE DEF at
  <2>4. \E i \in at(n) : \A j \in at(n) : j <= i
        BY <2>1, <2>2, <2>3, GreatestNatural
  <2> QED
      BY <2>4
<1>3. \A n \in Names : at(n) # {} /\ last(n) \in DOMAIN s /\ s[last(n)][1] = n
      BY <1>2
<1>4. \A n : (\A i \in DOMAIN s : s[i][1] # n) => at(n) = {}
      OBVIOUS
<1> HIDE DEF at, last
<1>5. \A n \in Names : g[n] = s[last(n)][2]
      BY <1>1, <1>3
<1>6. \A n \in DOMAIN f : (\A i \in DOMAIN s : s[i][1] # n) => g[n] = f[n]
      BY <1>1, <1>4
<1>7. DOMAIN g = DOMAIN f \cup Names
      BY <1>1
<1> HIDE DEF Names
<1> QED
    BY <1>3, <1>5, <1>6, <1>7 DEF Names, Overridden

LEMMA OverrideOne ==
  ASSUME NEW f, NEW n, NEW x, NEW g, g = Override(f, <<<<n, x>>>>)
  PROVE  SetAt(g, f, n, x)
<1>1. PICK p : p = <<n, x>>
      OBVIOUS
<1>2. PICK s : s = <<p>>
      OBVIOUS
<1>3. IsList(s) /\ Len(s) = 1 /\ s[1] = p
      BY <1>2, OneList
<1>4. DOMAIN s = {1}
      BY <1>3, ListFacts
<1>5. s[1][1] = n /\ s[1][2] = x /\ g = Override(f, s)
      BY <1>1, <1>2, <1>3
<1>6. Firsts(s) = {n}
      BY <1>4, <1>5 DEF Firsts
<1>7. /\ DOMAIN g = DOMAIN f \cup Firsts(s)
      /\ \A k \in DOMAIN f : (\A i \in DOMAIN s : s[i][1] # k) => g[k] = f[k]
      /\ \A k \in Firsts(s) : \E i \in DOMAIN s : s[i][1] = k /\ g[k] = s[i][2]
  <2>1. Overridden(g, f, s)
        BY <1>3, <1>5, OverrideFacts
  <2> QED
      BY <2>1 DEF Overridden
<1> HIDE DEF Firsts
<1>8. g[n] = x /\ \A k \in DOMAIN f \ {n} : g[k] = f[k]
      BY <1>4, <1>5, <1>6, <1>7
<1> QED
    BY <1>6, <1>7, <1>8 DEF SetAt

FileNames(s) == Firsts(StubFiles(stubs[s]))

\* The archive of a stub has what the last stub of its name has; its assembly files
\* are there, and what is in one is what some entry asks for.
MadeInv ==
  /\ pc = "success" => rest > Len(stubs)
  /\ pc \in {"make", "success"} =>
       /\ \A s \in DOMAIN stubs : s < rest =>
            /\ FileNames(s) \subseteq DOMAIN asm
            /\ \/ pc = "success" /\ Emptied(stubs[s].name)
               \/ /\ stubs[s].name \in DOMAIN objs
                  /\ \E t \in DOMAIN stubs : stubs[t].name = stubs[s].name /\ objs[stubs[s].name] = FileNames(t)
       /\ \A n \in DOMAIN asm : \E s \in DOMAIN stubs : \E m \in DOMAIN StubFiles(stubs[s]) :
            StubFiles(stubs[s])[m][1] = n /\ StubFiles(stubs[s])[m][2] = asm[n]
  /\ pc = "group" => asm = <<>>

LEMMA MadeInit == Init => MadeInv
BY DEF Init, MadeInv

LEMMA MadeStep ==
  ASSUME GenInv, MadeInv, [Next]_vars
  PROVE  MadeInv'
<1>1. CASE OpenFile \/ ReadKey \/ BadKey \/ ReadingEnds \/ NoDatabase
  <2>1. pc = "read" /\ (pc' = "read" \/ pc' = "group" \/ pc' = "failure") /\ asm' = asm
    <3>1. ReadKey => pc = "read" /\ pc' = pc /\ asm' = asm
          BY DEF ReadKey, database_firmware, module_name, library_name, library_stubname, library_version, library_nid,
                 library_privilege, entry_function, entry_variable, NewEntry, Set, At, Continue, output
    <3> QED
        BY <1>1, <3>1 DEF OpenFile, Open, BadKey, At, ReadingEnds, NoDatabase, output
  <2> QED
      BY <2>1 DEF MadeInv, GenInv
<1>2. CASE library_callback
  <2>1. pc = "group" /\ pc' = pc /\ asm' = asm
        BY <1>2 DEF library_callback
  <2> QED
      BY <2>1 DEF MadeInv
<1>3. CASE AllGrouped
  <2>1. pc = "group" /\ pc' = "make" /\ rest' = 1 /\ asm' = <<>> /\ stubs' = stubs
        BY <1>3 DEF AllGrouped, output, MadeInv
  <2>2. DOMAIN asm' = {} /\ \A s \in DOMAIN stubs' : ~ (s < rest')
        BY <2>1, StubFacts
  <2> QED
      BY <2>1, <2>2 DEF MadeInv
<1>4. CASE MakeStub
  <2>1. /\ pc = "make" /\ pc' = "make" /\ rest \in DOMAIN stubs /\ rest' = rest + 1 /\ stubs' = stubs /\ libs' = libs
        /\ asm' = Override(asm, StubFiles(stubs[rest]))
        /\ objs' = Override(objs, <<<<stubs[rest].name, FileNames(rest)>>>>)
        BY <1>4 DEF MakeStub, FileNames, Firsts
  <2>2. \A s : StubFiles(stubs[s])' = StubFiles(stubs[s])
    <3>1. stubs' = stubs /\ libs' = libs
          BY <2>1
    <3> QED
        BY <3>1 DEF StubFiles, FilesOf, FileName, Asm
  <2>3. \A s : FileNames(s)' = FileNames(s)
        BY <2>1, <2>2 DEF FileNames, Firsts
  <2>4. /\ IsList(StubFiles(stubs[rest])) /\ rest \in Nat
        BY <2>1, StubFilesFacts, StubFacts
  <2>5. /\ DOMAIN asm' = DOMAIN asm \cup FileNames(rest)
        /\ \A n \in DOMAIN asm \ FileNames(rest) : asm'[n] = asm[n]
        /\ \A n \in FileNames(rest) : \E m \in DOMAIN StubFiles(stubs[rest]) :
             StubFiles(stubs[rest])[m][1] = n /\ asm'[n] = StubFiles(stubs[rest])[m][2]
    <3>1. PICK p : p = StubFiles(stubs[rest])
          OBVIOUS
    <3>2. IsList(p) /\ asm' = Override(asm, p) /\ FileNames(rest) = Firsts(p)
          BY <2>1, <2>4, <3>1 DEF FileNames, Firsts
    <3>3. /\ DOMAIN asm' = DOMAIN asm \cup FileNames(rest)
          /\ \A n \in DOMAIN asm : (\A i \in DOMAIN p : p[i][1] # n) => asm'[n] = asm[n]
          /\ \A n \in FileNames(rest) : \E m \in DOMAIN p : p[m][1] = n /\ asm'[n] = p[m][2]
      <4>1. PICK a, b : a = asm /\ b = asm'
            OBVIOUS
      <4>2. b = Override(a, p)
            BY <3>2, <4>1
      <4>3. /\ DOMAIN b = DOMAIN a \cup Firsts(p)
            /\ \A k \in DOMAIN a : (\A i \in DOMAIN p : p[i][1] # k) => b[k] = a[k]
            /\ \A k \in Firsts(p) : \E i \in DOMAIN p : p[i][1] = k /\ b[k] = p[i][2]
        <5>1. Overridden(b, a, p)
              BY <3>2, <4>2, OverrideFacts
        <5> QED
            BY <5>1 DEF Overridden
      <4> QED
          BY <3>2, <4>1, <4>3
    <3>4. \A n \in DOMAIN asm \ FileNames(rest) : asm'[n] = asm[n]
          BY <3>2, <3>3 DEF Firsts
    <3> QED
        BY <3>1, <3>3, <3>4
  <2>6. /\ DOMAIN objs' = DOMAIN objs \cup {stubs[rest].name} /\ objs'[stubs[rest].name] = FileNames(rest)
        /\ \A k \in DOMAIN objs \ {stubs[rest].name} : objs'[k] = objs[k]
    <3>1. PICK o, q, n, e : o = objs /\ q = objs' /\ n = stubs[rest].name /\ e = FileNames(rest)
          OBVIOUS
    <3>2. q = Override(o, <<<<n, e>>>>)
          BY <2>1, <3>1
    <3>3. DOMAIN q = DOMAIN o \cup {n} /\ q[n] = e /\ \A k \in DOMAIN o \ {n} : q[k] = o[k]
      <4>1. SetAt(q, o, n, e)
            BY <3>2, OverrideOne
      <4> QED
          BY <4>1 DEF SetAt
    <3> QED
        BY <3>1, <3>3
  <2>7. ASSUME NEW s \in DOMAIN stubs, s < rest'
        PROVE  /\ FileNames(s) \subseteq DOMAIN asm'
               /\ stubs[s].name \in DOMAIN objs'
               /\ \E t \in DOMAIN stubs : stubs[t].name = stubs[s].name /\ objs'[stubs[s].name] = FileNames(t)
    <3>1. s = rest \/ s < rest
          BY <2>1, <2>4, <2>7, StubFacts
    <3>2. CASE s = rest
          BY <2>1, <2>5, <2>6, <3>2
    <3>3. CASE s < rest
      <4>1. /\ FileNames(s) \subseteq DOMAIN asm /\ stubs[s].name \in DOMAIN objs
            /\ \E t \in DOMAIN stubs : stubs[t].name = stubs[s].name /\ objs[stubs[s].name] = FileNames(t)
            BY <2>1, <3>3 DEF MadeInv
      <4>2. CASE stubs[s].name = stubs[rest].name
            BY <2>1, <2>5, <2>6, <4>1, <4>2
      <4>3. CASE stubs[s].name # stubs[rest].name
        <5>1. objs'[stubs[s].name] = objs[stubs[s].name]
              BY <2>6, <4>1, <4>3
        <5> QED
            BY <2>5, <2>6, <4>1, <5>1
      <4> QED
          BY <4>2, <4>3
    <3> QED
        BY <3>1, <3>2, <3>3
  <2>8. ASSUME NEW n \in DOMAIN asm'
        PROVE  \E s \in DOMAIN stubs : \E m \in DOMAIN StubFiles(stubs[s]) :
                 StubFiles(stubs[s])[m][1] = n /\ StubFiles(stubs[s])[m][2] = asm'[n]
    <3>1. CASE n \in FileNames(rest)
          BY <2>1, <2>5, <3>1
    <3>2. CASE n \notin FileNames(rest)
      <4>1. n \in DOMAIN asm /\ asm'[n] = asm[n]
            BY <2>5, <2>8, <3>2
      <4> QED
          BY <2>1, <4>1 DEF MadeInv
    <3> QED
        BY <3>1, <3>2
  <2> QED
      BY <2>1, <2>2, <2>3, <2>7, <2>8 DEF MadeInv
<1>5. CASE Exit
  <2>1. /\ pc = "make" /\ pc' = "success" /\ rest > Len(stubs) /\ rest' = rest /\ stubs' = stubs /\ libs' = libs /\ asm' = asm
        /\ input' = input
        /\ objs' = IF input.cmake THEN objs ELSE Override(objs, <<<<<<SceKernel>>, {}>>>>)
        BY <1>5 DEF Exit
  <2>2. \A s : StubFiles(stubs[s])' = StubFiles(stubs[s])
    <3>1. stubs' = stubs /\ libs' = libs
          BY <2>1
    <3> QED
        BY <3>1 DEF StubFiles, FilesOf, FileName, Asm
  <2>3. \A s : FileNames(s)' = FileNames(s)
        BY <2>1, <2>2 DEF FileNames, Firsts
  <2>4. \A a : Emptied(a)' <=> Emptied(a)
        BY <2>1 DEF Emptied
  <2>5. ASSUME NEW s \in DOMAIN stubs, s < rest, ~ Emptied(stubs[s].name)
        PROVE  /\ stubs[s].name \in DOMAIN objs'
               /\ \E t \in DOMAIN stubs : stubs[t].name = stubs[s].name /\ objs'[stubs[s].name] = FileNames(t)
    <3>1. /\ stubs[s].name \in DOMAIN objs
          /\ \E t \in DOMAIN stubs : stubs[t].name = stubs[s].name /\ objs[stubs[s].name] = FileNames(t)
          BY <2>1, <2>5 DEF MadeInv
    <3>2. stubs[s].name \in DOMAIN objs' /\ objs'[stubs[s].name] = objs[stubs[s].name]
      <4>1. CASE input.cmake
            BY <2>1, <3>1, <4>1
      <4>2. CASE ~ input.cmake
        <5>1. stubs[s].name # <<SceKernel>>
              BY <2>5, <4>2 DEF Emptied
        <5>2. PICK k : k = <<SceKernel>>
              OBVIOUS
        <5>3. PICK e, o, q : e = {} /\ o = objs /\ q = objs' /\ q = Override(o, <<<<k, e>>>>)
              BY <2>1, <4>2, <5>2
        <5>4. DOMAIN q = DOMAIN o \cup {k} /\ \A a \in DOMAIN o \ {k} : q[a] = o[a]
          <6>1. SetAt(q, o, k, e)
                BY <5>3, OverrideOne
          <6> QED
              BY <6>1 DEF SetAt
        <5>5. DOMAIN objs' = DOMAIN objs \cup {k} /\ \A a \in DOMAIN objs \ {k} : objs'[a] = objs[a]
              BY <5>3, <5>4
        <5> QED
            BY <3>1, <5>1, <5>2, <5>5
      <4> QED
          BY <4>1, <4>2
    <3> QED
        BY <3>1, <3>2
  <2>6. \A s \in DOMAIN stubs : s < rest => FileNames(s) \subseteq DOMAIN asm
        BY <2>1 DEF MadeInv
  <2>7. \A n \in DOMAIN asm : \E s \in DOMAIN stubs : \E m \in DOMAIN StubFiles(stubs[s]) :
            StubFiles(stubs[s])[m][1] = n /\ StubFiles(stubs[s])[m][2] = asm[n]
        BY <2>1 DEF MadeInv
  <2>8. pc' = "success" /\ rest' > Len(stubs') /\ stubs' = stubs /\ rest' = rest /\ asm' = asm
        BY <2>1
  <2>9. \A s \in DOMAIN stubs : s < rest =>
            /\ FileNames(s) \subseteq DOMAIN asm
            /\ \/ Emptied(stubs[s].name)
               \/ /\ stubs[s].name \in DOMAIN objs'
                  /\ \E t \in DOMAIN stubs : stubs[t].name = stubs[s].name /\ objs'[stubs[s].name] = FileNames(t)
        BY <2>5, <2>6
  <2> QED
      BY <2>2, <2>3, <2>4, <2>7, <2>8, <2>9 DEF MadeInv
<1>6. CASE Terminated \/ UNCHANGED vars
  <2>1. pc' = pc /\ rest' = rest /\ stubs' = stubs /\ libs' = libs /\ asm' = asm /\ objs' = objs /\ input' = input
        BY <1>6 DEF Terminated, vars
  <2>2. \A s : StubFiles(stubs[s])' = StubFiles(stubs[s])
    <3>1. stubs' = stubs /\ libs' = libs
          BY <2>1
    <3> QED
        BY <3>1 DEF StubFiles, FilesOf, FileName, Asm
  <2>3. \A s : FileNames(s)' = FileNames(s)
        BY <2>1, <2>2 DEF FileNames, Firsts
  <2>4. \A a : Emptied(a)' <=> Emptied(a)
        BY <2>1 DEF Emptied
  <2> QED
      BY <2>1, <2>2, <2>3, <2>4 DEF MadeInv
<1> QED
    BY <1>1, <1>2, <1>3, <1>4, <1>5, <1>6 DEF Next, Generate

LEMMA MadeHolds ==
  ASSUME GenInv, MadeInv
  PROVE  ReadIsBuilt
<1> SUFFICES ASSUME pc = "success", NEW s \in DOMAIN stubs, NEW i \in DOMAIN stubs[s].libs,
                    \A t \in DOMAIN stubs : t # s => stubs[t].name # stubs[s].name, ~ Emptied(stubs[s].name),
                    NEW type \in EntryTypes, NEW n \in DOMAIN libs[stubs[s].libs[i]][type]
             PROVE  FileName(stubs[s], libs[stubs[s].libs[i]], libs[stubs[s].libs[i]][type][n]) \in
                      objs[stubs[s].name] \cap DOMAIN asm
    BY DEF ReadIsBuilt
<1>1. PICK k : k = stubs[s].libs[i] /\ k \in DOMAIN libs
      BY StubFacts
<1>2. PICK name : name = FileName(stubs[s], libs[k], libs[k][type][n])
      OBVIOUS
<1>3. PICK j \in DOMAIN FilesOf(stubs[s], libs[k]) : FilesOf(stubs[s], libs[k])[j] = <<name, Asm(libs[k], type, libs[k][type][n])>>
  <2>1. n \in DOMAIN libs[k][type]
        BY <1>1
  <2>2. PICK stub, l, files : stub = stubs[s] /\ l = libs[k] /\ files = FilesOf(stub, l)
        OBVIOUS
  <2>3. FilesAre(files, stub, l)
        BY <1>1, <2>2, FilesOfFacts
  <2>4. \E j \in DOMAIN files : files[j] = <<FileName(stub, l, l[type][n]), Asm(l, type, l[type][n])>>
        BY <2>1, <2>2, <2>3 DEF FilesAre
  <2>5. FileName(stub, l, l[type][n]) = name
        BY <1>2, <2>2
  <2> QED
      BY <2>2, <2>4, <2>5
<1>4. FilesOf(stubs[s], libs[k])[j][1] = name
      BY <1>3
<1>5. \E m \in DOMAIN StubFiles(stubs[s]) : StubFiles(stubs[s])[m] = FilesOf(stubs[s], libs[k])[j]
      BY <1>1, <1>3, StubFilesFacts
<1>6. name \in FileNames(s)
      BY <1>4, <1>5 DEF FileNames, Firsts
<1>7. s < rest
  <2>1. rest > Len(stubs) /\ rest \in Nat
        BY DEF MadeInv, GenInv
  <2> QED
      BY <2>1, StubFacts
<1>8. FileNames(s) \subseteq DOMAIN asm /\ objs[stubs[s].name] = FileNames(s)
      BY <1>7 DEF MadeInv
<1> QED
    BY <1>1, <1>2, <1>6, <1>8

----------------------------------------------------------------------------
(* The database and what is built from it, from the first step to the last. *)

BuildInv == ReadInv /\ GenInv /\ ErrorInv /\ MadeInv

LEMMA BuildInit ==
  ASSUME MainInit
  PROVE  BuildInv
<1>1. Init /\ InputOK(input)
      BY CasesAssumption DEF MainInit, CaseOK
<1> QED
    BY <1>1, ReadInvInit, GenInit, ErrorInit, MadeInit DEF BuildInv

LEMMA BuildStep ==
  ASSUME BuildInv, [MainNext]_<<vars, list>>
  PROVE  BuildInv'
<1>1. [Next]_vars
      BY Implements DEF BuildInv
<1>2. ReadInv'
      BY ReadInvStep DEF BuildInv
<1>3. GenInv' /\ ErrorInv' /\ MadeInv'
      BY <1>1, GenStep, ErrorStep, MadeStep DEF BuildInv
<1> QED
    BY <1>2, <1>3 DEF BuildInv

LEMMA BuildHolds ==
  ASSUME BuildInv
  PROVE  TypesOK /\ BuiltUpToError
<1>1. P!TypeOK
      BY P!TypesHold DEF BuildInv, ReadInv
<1>2. F!TypeOK
      BY <1>1, SameSize DEF F!TypeOK, P!TypeOK, F!NULL, P!NULL
<1>3. TypeOK
      BY DEF BuildInv, GenInv
<1>4. ReadIsBuilt /\ NothingAfterError
      BY MadeHolds, ErrorHolds DEF BuildInv
<1> QED
    BY <1>2, <1>3, <1>4 DEF TypesOK, BuiltUpToError

\* Every variable of main() has its type, those of the list as well: the numbers that
\* stand for pointers are in their lists, and no list has an element twice.
THEOREM TypesOKAlways == MainSpec => []TypesOK
<1>1. MainInit => BuildInv
      BY BuildInit
<1>2. BuildInv /\ [MainNext]_<<vars, list>> => BuildInv'
      BY BuildStep
<1>3. BuildInv => TypesOK
      BY BuildHolds
<1> QED
    BY <1>1, <1>2, <1>3, PTL DEF MainSpec

\* Whatever stopped the reading, what was read is built, and of a file in error only
\* what precedes the error was read.
THEOREM BuiltUpToErrorAlways == MainSpec => []BuiltUpToError
<1>1. MainInit => BuildInv
      BY BuildInit
<1>2. BuildInv /\ [MainNext]_<<vars, list>> => BuildInv'
      BY BuildStep
<1>3. BuildInv => BuiltUpToError
      BY BuildHolds
<1> QED
    BY <1>1, <1>2, <1>3, PTL DEF MainSpec

----------------------------------------------------------------------------
(* The libraries are those of the files.                                    *)

\* How far each file has been read.
Limits == [f \in DOMAIN input.files |->
             IF f \in todo THEN 0 ELSE IF f = file /\ pc = "read" THEN rest - 1 ELSE Len(input.files[f])]

\* What has been read of the library at the key l.
UpTo(l, lim) == {k \in KeysOf(l) : k <= lim[l[1]]}

\* The last value of a key among those of the set S.
ValueIs(l, S, key, field, default, v) ==
  \/ v = default /\ \A k \in S : FileOf(l)[k].key # key
  \/ \E k \in S : /\ FileOf(l)[k].key = key /\ v = FileOf(l)[k][field]
                  /\ \A j \in S : FileOf(l)[j].key = key => j <= k

EntryAt(l, k) == [name |-> FileOf(l)[k].name, nid |-> <<l[1], k>>]
EntriesAre(x, l, S, type) ==
  /\ \A n \in DOMAIN x : \E k \in S : FileOf(l)[k].key = type /\ x[n] = EntryAt(l, k)
  /\ \A k \in S : FileOf(l)[k].key = type => \E n \in DOMAIN x : x[n] = EntryAt(l, k)

\* m is the module of the last module key before the k-th key of the file f.
ModuleIs(m, f, k, ms, ws) ==
  /\ m \in DOMAIN ms /\ ms[m].fw \in DOMAIN ws /\ ws[ms[m].fw] = input.files[f][1].value
  /\ \E j \in 1 .. k - 1 : /\ input.files[f][j].key = "module" /\ ms[m].name = input.files[f][j].name
                           /\ \A i \in j + 1 .. k - 1 : input.files[f][i].key # "module"

LibraryIs(x, l, S, ms, ws) ==
  /\ x.name = KeyOf(l).name /\ ModuleIs(x.module, l[1], l[2], ms, ws)
  /\ ValueIs(l, S, "stubname", "name", NoName, x.stubname)
  /\ ValueIs(l, S, "kernel", "value", NONE, x.privilege)
  /\ ValueIs(l, S, "version", "value", 0, x.version)
  /\ ValueIs(l, S, "nid", "value", 0, x.nid)
  /\ \A type \in EntryTypes : EntriesAre(x[type], l, S, type)

\* Each library stands for the key it was read at, and each key that has been read
\* has its library.
Numbered(from, ls, ms, ws, lim) ==
  /\ DOMAIN from = DOMAIN ls
  /\ \A i \in DOMAIN ls : from[i] \in All("library") /\ from[i][2] <= lim[from[i][1]]
  /\ \A l \in All("library") : l[2] <= lim[l[1]] => \E i \in DOMAIN ls : from[i] = l
  /\ \A i, j \in DOMAIN ls : from[i] = from[j] => i = j
  /\ \A i \in DOMAIN ls : LibraryIs(ls[i], from[i], UpTo(from[i], lim), ms, ws)

\* c is the library of the last library key before the r-th key of the file f.
Current(from, c, f, r) ==
  (\E j \in 1 .. r - 1 : input.files[f][j].key = "library") =>
    /\ c \in DOMAIN from
    /\ \E j \in 1 .. r - 1 : /\ input.files[f][j].key = "library" /\ from[c] = <<f, j>>
                             /\ \A m \in j + 1 .. r - 1 : input.files[f][m].key # "library"

CurInv ==
  pc = "read" /\ file # 0 =>
    /\ rest > 1 => cur.fw \in DOMAIN fws /\ fws[cur.fw] = input.files[file][1].value
    /\ Behind("module") => ModuleIs(cur.module, file, rest, modules, fws)

\* The lists are bound to names, so that what is said of them is said of values.
NumInv ==
  WellFormed =>
    /\ CurInv
    /\ \E from, ls, ms, ws, lim :
         /\ ls = libs /\ ms = modules /\ ws = fws /\ lim = Limits
         /\ Numbered(from, ls, ms, ws, lim)
         /\ pc = "read" /\ file # 0 => Current(from, cur.library, file, rest)

\* A key, by its place.
LEMMA AllFacts ==
  ASSUME InputOK(input), NEW key, NEW l \in All(key)
  PROVE  /\ l = <<l[1], l[2]>> /\ l[1] \in DOMAIN input.files /\ l[2] \in DOMAIN input.files[l[1]]
         /\ l[1] \in Nat /\ l[1] # 0 /\ l[2] \in Nat /\ l[2] >= 1 /\ l[2] <= Len(input.files[l[1]])
         /\ input.files[l[1]][l[2]].key = key /\ FileOf(l) = input.files[l[1]]
<1>1. PICK f \in DOMAIN input.files : l \in {f} \X DOMAIN input.files[f]
      BY DEF All
<1>2. l = <<l[1], l[2]>> /\ l[1] = f /\ l[2] \in DOMAIN input.files[f]
      BY <1>1
<1>3. KeyOf(l).key = key
      BY DEF All
<1> QED
    BY <1>2, <1>3, InputFacts DEF KeyOf, FileOf

LEMMA InAll ==
  ASSUME NEW f \in DOMAIN input.files, NEW k \in DOMAIN input.files[f], NEW key, input.files[f][k].key = key
  PROVE  <<f, k>> \in All(key)
<1>1. PICK l : l = <<f, k>>
      OBVIOUS
<1>2. l \in {f} \X DOMAIN input.files[f] /\ KeyOf(l).key = key
      BY <1>1 DEF KeyOf, FileOf
<1>3. l \in All(key)
      BY <1>2 DEF All
<1> QED
    BY <1>1, <1>3

\* A file begins with its firmware, and nothing else in it is one.
LEMMA WellFormedFacts ==
  ASSUME GenInv, WellFormed, NEW f \in DOMAIN input.files
  PROVE  /\ 1 \in DOMAIN input.files[f] /\ input.files[f][1].key = "firmware"
         /\ \A k \in DOMAIN input.files[f] :
              /\ input.files[f][k].key # "error"
              /\ input.files[f][k].key = "firmware" => k = 1 /\ input.files[f][k].value # BAD
<1>1. InputOK(input)
      BY DEF GenInv
<1>2. 1 \in DOMAIN input.files[f] /\ input.files[f][1].key = "firmware"
  <2>1. input.files[f] # <<>> /\ input.files[f][1].key = "firmware" /\ input.files[f] \in Seq(Keys)
        BY <1>1 DEF WellFormed, InputOK
  <2> QED
      BY <2>1
<1>3. ASSUME NEW k \in DOMAIN input.files[f] PROVE input.files[f][k].key # "error"
      BY <1>3, InAll DEF WellFormed
<1>4. ASSUME NEW k \in DOMAIN input.files[f], input.files[f][k].key = "firmware"
      PROVE  k = 1 /\ input.files[f][k].value # BAD
  <2>1. PICK l : l = <<f, k>>
        OBVIOUS
  <2>2. l \in All("firmware") /\ l[1] = f /\ l[2] = k
        BY <1>4, <2>1, InAll
  <2>3. l[2] = 1 /\ KeyOf(l).value # BAD
        BY <2>2 DEF WellFormed
  <2> QED
      BY <2>2, <2>3 DEF KeyOf, FileOf
<1> QED
    BY <1>2, <1>3, <1>4

\* The keys of a library follow it, with none between that is not of it.
LEMMA KeysOfFacts ==
  ASSUME InputOK(input), NEW l \in All("library")
  PROVE  /\ KeysOf(l) \subseteq DOMAIN input.files[l[1]] /\ KeysOf(l) \subseteq Nat
         /\ \A k \in KeysOf(l) : /\ k > l[2] /\ k <= Len(input.files[l[1]])
                                 /\ \A j \in l[2] + 1 .. k : input.files[l[1]][j].key \in LibraryKeys
         /\ \A k \in DOMAIN input.files[l[1]] :
              k > l[2] /\ (\A j \in l[2] + 1 .. k : input.files[l[1]][j].key \in LibraryKeys) => k \in KeysOf(l)
<1>1. /\ FileOf(l) = input.files[l[1]] /\ l[1] \in DOMAIN input.files
      BY AllFacts
<1>2. \A k \in DOMAIN input.files[l[1]] : k \in Nat /\ k <= Len(input.files[l[1]])
      BY <1>1, InputFacts
<1> QED
    BY <1>1, <1>2 DEF KeysOf

----------------------------------------------------------------------------
(* A key further.                                                           *)

\* The next key, and how far each file has been read with it.
LEMMA UpToSteps ==
  ASSUME GenInv, NEW key, At(key), NEW l \in All("library"),
         NEW lim, lim \in [DOMAIN input.files -> Nat], lim[file] = rest - 1, NEW next, next = [lim EXCEPT ![file] = rest]
  PROVE  /\ l[1] # file \/ rest \notin KeysOf(l) => UpTo(l, next) = UpTo(l, lim)
         /\ l[1] = file /\ rest \in KeysOf(l) =>
              UpTo(l, next) = UpTo(l, lim) \cup {rest} /\ \A k \in UpTo(l, lim) : k \in Nat /\ k < rest
<1>1. file \in DOMAIN input.files /\ rest \in Nat /\ l[1] \in DOMAIN input.files /\ KeysOf(l) \subseteq Nat
      BY KeyFacts, AllFacts, KeysOfFacts DEF GenInv
<1>2. next[file] = rest /\ \A f \in DOMAIN input.files : f # file => next[f] = lim[f]
      BY <1>1
<1>3. \A k \in Nat : k <= rest <=> k <= rest - 1 \/ k = rest
      BY <1>1
<1>4. CASE l[1] # file
      BY <1>1, <1>2, <1>4 DEF UpTo
<1>5. CASE l[1] = file
  <2>1. UpTo(l, next) = {k \in KeysOf(l) : k <= rest} /\ UpTo(l, lim) = {k \in KeysOf(l) : k <= rest - 1}
        BY <1>2, <1>5 DEF UpTo
  <2>2. rest \in KeysOf(l) => {k \in KeysOf(l) : k <= rest} = {k \in KeysOf(l) : k <= rest - 1} \cup {rest}
        BY <1>1, <1>3
  <2>3. rest \notin KeysOf(l) => {k \in KeysOf(l) : k <= rest} = {k \in KeysOf(l) : k <= rest - 1}
        BY <1>1, <1>3
  <2>4. \A k \in UpTo(l, lim) : k \in Nat /\ k < rest
        BY <1>1, <2>1
  <2> QED
      BY <1>5, <2>1, <2>2, <2>3, <2>4
<1> QED
    BY <1>4, <1>5

\* A key that is not of a library is of none.
LEMMA OtherKey ==
  ASSUME GenInv, NEW key, At(key), key \notin LibraryKeys, NEW l \in All("library")
  PROVE  l[1] # file \/ rest \notin KeysOf(l)
<1> SUFFICES ASSUME l[1] = file, rest \in KeysOf(l) PROVE FALSE
    OBVIOUS
<1>1. rest > l[2] /\ rest \in Nat /\ l[2] \in Nat /\ \A j \in l[2] + 1 .. rest : input.files[l[1]][j].key \in LibraryKeys
      BY AllFacts, KeysOfFacts, KeyFacts DEF GenInv
<1>2. input.files[file][rest].key = key
      BY DEF At, Key
<1>3. rest \in l[2] + 1 .. rest
      BY <1>1
<1> QED
    BY <1>1, <1>2, <1>3

LEMMA UpToStays ==
  ASSUME GenInv, NEW key, At(key), key \notin LibraryKeys, NEW l \in All("library"),
         NEW lim, lim \in [DOMAIN input.files -> Nat], lim[file] = rest - 1, NEW next, next = [lim EXCEPT ![file] = rest]
  PROVE  UpTo(l, next) = UpTo(l, lim)
<1>1. l[1] # file \/ rest \notin KeysOf(l)
      BY OtherKey
<1> QED
    BY <1>1, UpToSteps

\* A key of a library is of the current one only.
LEMMA LibraryKey ==
  ASSUME GenInv, WellFormed, NEW key \in LibraryKeys, At(key), NEW from, Current(from, cur.library, file, rest)
  PROVE  /\ cur.library \in DOMAIN from /\ from[cur.library] \in All("library")
         /\ from[cur.library][1] = file /\ rest \in KeysOf(from[cur.library])
         /\ \A l \in All("library") : l[1] = file /\ rest \in KeysOf(l) => l = from[cur.library]
<1>1. /\ file \in DOMAIN input.files /\ file \in Nat /\ rest \in Nat /\ rest >= 1 /\ rest \in DOMAIN input.files[file]
      /\ input.files[file][rest].key = key /\ InputOK(input)
      /\ Len(input.files[file]) \in Nat /\ DOMAIN input.files[file] = 1 .. Len(input.files[file])
      BY KeyFacts, InputFacts DEF At, Key, GenInv
<1>2. PICK j \in 1 .. rest - 1 :
        /\ input.files[file][j].key = "library"
        /\ \A m \in j + 1 .. rest - 1 : input.files[file][m].key \in LibraryKeys \cup {"error"}
      BY <1>1 DEF InputOK
<1>3. \A m \in j + 1 .. rest - 1 : input.files[file][m].key \in LibraryKeys
  <2>1. \A m \in j + 1 .. rest - 1 : m \in DOMAIN input.files[file]
        BY <1>1
  <2> QED
      BY <1>1, <1>2, <2>1, WellFormedFacts
<1>4. PICK i \in 1 .. rest - 1 :
        /\ input.files[file][i].key = "library" /\ from[cur.library] = <<file, i>>
        /\ \A m \in i + 1 .. rest - 1 : input.files[file][m].key # "library"
      BY <1>2 DEF Current
<1>5. "library" \notin LibraryKeys
      BY DEF LibraryKeys, EntryTypes
<1>6. ASSUME NEW k \in 1 .. rest - 1, input.files[file][k].key = "library",
             \A m \in k + 1 .. rest - 1 : input.files[file][m].key # "library"
      PROVE  k = j
  <2>1. ~ (j < k)
    <3>1. j < k => k \in j + 1 .. rest - 1
          BY <1>1
    <3> QED
        BY <1>3, <1>5, <1>6, <3>1
  <2>2. ~ (k < j)
    <3>1. k < j => j \in k + 1 .. rest - 1
          BY <1>1
    <3> QED
        BY <1>2, <1>6, <3>1
  <2> QED
      BY <1>1, <2>1, <2>2
<1>7. i = j
      BY <1>4, <1>6
<1>8. cur.library \in DOMAIN from
      BY <1>2 DEF Current
<1>9. PICK c : c = from[cur.library]
      OBVIOUS
<1>10. c = <<file, j>> /\ c[1] = file /\ c[2] = j
       BY <1>4, <1>7, <1>9
<1>11. c \in All("library")
  <2>1. j \in DOMAIN input.files[file]
        BY <1>1
  <2> QED
      BY <1>1, <1>2, <1>10, <2>1, InAll
<1>12. rest \in KeysOf(c)
  <2>1. \A m \in j + 1 .. rest : m \in j + 1 .. rest - 1 \/ m = rest
        BY <1>1
  <2>2. \A m \in j + 1 .. rest : input.files[file][m].key \in LibraryKeys
        BY <1>1, <1>3, <2>1
  <2>3. rest > j
        BY <1>1
  <2> QED
      BY <1>1, <1>10, <1>11, <2>2, <2>3, KeysOfFacts
<1>13. ASSUME NEW l \in All("library"), l[1] = file, rest \in KeysOf(l) PROVE l = c
  <2>1. /\ l = <<l[1], l[2]>> /\ l[2] \in Nat /\ l[2] >= 1 /\ input.files[file][l[2]].key = "library"
        BY <1>1, <1>13, AllFacts
  <2>2. rest > l[2] /\ \A m \in l[2] + 1 .. rest : input.files[file][m].key \in LibraryKeys
        BY <1>1, <1>13, KeysOfFacts
  <2>3. l[2] \in 1 .. rest - 1 /\ \A m \in l[2] + 1 .. rest - 1 : m \in l[2] + 1 .. rest
        BY <1>1, <2>1, <2>2
  <2>4. \A m \in l[2] + 1 .. rest - 1 : input.files[file][m].key # "library"
        BY <1>5, <2>2, <2>3
  <2>5. l[2] = j
        BY <1>6, <2>1, <2>3, <2>4
  <2> QED
      BY <1>10, <1>13, <2>1, <2>5
<1> QED
    BY <1>8, <1>9, <1>10, <1>11, <1>12, <1>13

\* The next key among those of a library.
LEMMA ValueUp ==
  ASSUME NEW l, NEW S, NEW r \in Nat, \A k \in S : k \in Nat /\ k < r,
         NEW key, NEW field, NEW default, NEW v, ValueIs(l, S, key, field, default, v)
  PROVE  /\ FileOf(l)[r].key # key => ValueIs(l, S \cup {r}, key, field, default, v)
         /\ FileOf(l)[r].key = key => ValueIs(l, S \cup {r}, key, field, default, FileOf(l)[r][field])
<1>1. PICK T : T = S \cup {r}
      OBVIOUS
<1>2. ASSUME FileOf(l)[r].key # key PROVE ValueIs(l, T, key, field, default, v)
  <2>1. CASE v = default /\ \A k \in S : FileOf(l)[k].key # key
        BY <1>1, <1>2, <2>1 DEF ValueIs
  <2>2. CASE \E k \in S : /\ FileOf(l)[k].key = key /\ v = FileOf(l)[k][field]
                          /\ \A j \in S : FileOf(l)[j].key = key => j <= k
    <3>1. PICK k \in T : /\ FileOf(l)[k].key = key /\ v = FileOf(l)[k][field]
                         /\ \A j \in S : FileOf(l)[j].key = key => j <= k
          BY <1>1, <2>2
    <3>2. \A j \in T : FileOf(l)[j].key = key => j <= k
          BY <1>1, <1>2, <3>1
    <3> QED
        BY <3>1, <3>2 DEF ValueIs
  <2> QED
      BY <2>1, <2>2 DEF ValueIs
<1>3. ASSUME FileOf(l)[r].key = key PROVE ValueIs(l, T, key, field, default, FileOf(l)[r][field])
  <2>1. r \in T /\ \A j \in T : j <= r
        BY <1>1
  <2> QED
      BY <1>3, <2>1 DEF ValueIs
<1> QED
    BY <1>1, <1>2, <1>3

\* The next key is no entry of the type.
LEMMA EntriesUp ==
  ASSUME NEW l, NEW S, NEW r, NEW type, NEW x, EntriesAre(x, l, S, type), FileOf(l)[r].key # type
  PROVE  EntriesAre(x, l, S \cup {r}, type)
BY DEF EntriesAre

\* It is one.
LEMMA EntryUp ==
  ASSUME NEW l, NEW S, NEW r, NEW type, NEW x, IsList(x), EntriesAre(x, l, S, type), FileOf(l)[r].key = type,
         NEW y, y = Append(x, EntryAt(l, r))
  PROVE  EntriesAre(y, l, S \cup {r}, type)
<1>1. PICK e : e = EntryAt(l, r)
      OBVIOUS
<1>2. /\ Len(x) \in Nat /\ DOMAIN x = 1 .. Len(x) /\ DOMAIN y = 1 .. Len(x) + 1
      /\ y[Len(x) + 1] = e /\ \A n \in DOMAIN x : y[n] = x[n]
  <2>1. y = Append(x, e)
        BY <1>1
  <2>2. Len(x) \in Nat /\ DOMAIN x = 1 .. Len(x)
        BY ListFacts
  <2>3. IsList(y) /\ Len(y) = Len(x) + 1 /\ \A n \in 1 .. Len(x) + 1 : y[n] = IF n = Len(x) + 1 THEN e ELSE x[n]
        BY <2>1, ListAppend
  <2>4. DOMAIN y = 1 .. Len(x) + 1
        BY <2>3, ListFacts
  <2>5. \A n \in 1 .. Len(x) : n \in 1 .. Len(x) + 1 /\ n # Len(x) + 1
        BY <2>2
  <2> QED
      BY <2>2, <2>3, <2>4, <2>5
<1>3. PICK T : T = S \cup {r}
      OBVIOUS
<1>4. ASSUME NEW n \in DOMAIN y PROVE \E k \in T : FileOf(l)[k].key = type /\ y[n] = EntryAt(l, k)
  <2>1. n \in DOMAIN x \/ n = Len(x) + 1
        BY <1>2
  <2> QED
      BY <1>1, <1>2, <1>3, <2>1 DEF EntriesAre
<1>5. ASSUME NEW k \in T, FileOf(l)[k].key = type PROVE \E n \in DOMAIN y : y[n] = EntryAt(l, k)
  <2>1. CASE k = r
    <3>1. Len(x) + 1 \in DOMAIN y
          BY <1>2
    <3> QED
        BY <1>1, <1>2, <2>1, <3>1
  <2>2. CASE k \in S
    <3>1. PICK n \in DOMAIN x : x[n] = EntryAt(l, k)
          BY <1>5, <2>2 DEF EntriesAre
    <3>2. n \in DOMAIN y /\ y[n] = x[n]
          BY <1>2
    <3> QED
        BY <3>1, <3>2
  <2> QED
      BY <1>3, <2>1, <2>2
<1> QED
    BY <1>3, <1>4, <1>5 DEF EntriesAre

\* The lists of modules and firmwares grow.
Longer(s, t) == DOMAIN s \subseteq DOMAIN t /\ \A i \in DOMAIN s : t[i] = s[i]

\* Longer lists have the same modules at the same numbers.
LEMMA ModuleStays ==
  ASSUME NEW m, NEW f, NEW k, NEW ms, NEW ws, ModuleIs(m, f, k, ms, ws), NEW ns, NEW xs, Longer(ms, ns), Longer(ws, xs)
  PROVE  ModuleIs(m, f, k, ns, xs)
BY DEF ModuleIs, Longer

\* They have the same libraries.
LEMMA LibraryStays ==
  ASSUME NEW x, NEW l, NEW S, NEW ms, NEW ws, LibraryIs(x, l, S, ms, ws), NEW ns, NEW xs, Longer(ms, ns), Longer(ws, xs)
  PROVE  LibraryIs(x, l, S, ns, xs)
<1>1. ModuleIs(x.module, l[1], l[2], ns, xs)
      BY ModuleStays DEF LibraryIs
<1> QED
    BY <1>1 DEF LibraryIs

\* A key of no library, and not that of one.
LEMMA NumberedOther ==
  ASSUME GenInv, NEW key, At(key), key \notin LibraryKeys, key # "library",
         NEW lim, lim \in [DOMAIN input.files -> Nat], lim[file] = rest - 1, NEW next, next = [lim EXCEPT ![file] = rest],
         NEW from, NEW ls, NEW ms, NEW ws, Numbered(from, ls, ms, ws, lim), NEW ns, NEW xs, Longer(ms, ns), Longer(ws, xs)
  PROVE  Numbered(from, ls, ns, xs, next)
<1>1. /\ file \in DOMAIN input.files /\ rest \in Nat /\ input.files[file][rest].key = key
      BY KeyFacts DEF At, Key
<1>2. next[file] = rest /\ \A f \in DOMAIN input.files : f # file => next[f] = lim[f]
      BY <1>1
<1>3. ASSUME NEW l \in All("library") PROVE l[2] <= lim[l[1]] <=> l[2] <= next[l[1]]
  <2>1. l[1] \in DOMAIN input.files /\ l[2] \in Nat /\ input.files[l[1]][l[2]].key = "library"
        BY AllFacts DEF GenInv
  <2>2. l[1] = file => l[2] # rest
        BY <1>1, <2>1
  <2>3. l[2] # rest => (l[2] <= rest <=> l[2] <= rest - 1)
        BY <1>1, <2>1
  <2> QED
      BY <1>2, <2>1, <2>2, <2>3
<1>4. ASSUME NEW l \in All("library") PROVE UpTo(l, next) = UpTo(l, lim)
      BY UpToStays
<1>5. ASSUME NEW i \in DOMAIN ls PROVE LibraryIs(ls[i], from[i], UpTo(from[i], next), ns, xs)
  <2>1. from[i] \in All("library") /\ LibraryIs(ls[i], from[i], UpTo(from[i], lim), ms, ws)
        BY DEF Numbered
  <2>2. UpTo(from[i], next) = UpTo(from[i], lim)
        BY <1>4, <2>1
  <2> QED
      BY <2>1, <2>2, LibraryStays
<1>6. \A i \in DOMAIN ls : from[i] \in All("library") /\ from[i][2] <= next[from[i][1]]
      BY <1>3 DEF Numbered
<1>7. \A l \in All("library") : l[2] <= next[l[1]] => \E i \in DOMAIN ls : from[i] = l
      BY <1>3 DEF Numbered
<1> QED
    BY <1>5, <1>6, <1>7 DEF Numbered

\* new has x besides the elements of ls.
Added(ls, new, n, x) ==
  DOMAIN new = DOMAIN ls \cup {n} /\ n \notin DOMAIN ls /\ new[n] = x /\ \A i \in DOMAIN ls : new[i] = ls[i]

\* A library appended.
LEMMA AppendAdds ==
  ASSUME NEW ls, IsList(ls), NEW x, NEW new, new = Append(ls, x), NEW n, n = Len(ls) + 1
  PROVE  Added(ls, new, n, x)
<1>1. IsList(new) /\ Len(new) = Len(ls) + 1 /\ \A i \in 1 .. Len(ls) + 1 : new[i] = IF i = Len(ls) + 1 THEN x ELSE ls[i]
      BY ListAppend
<1>2. DOMAIN new = 1 .. Len(ls) + 1 /\ DOMAIN ls = 1 .. Len(ls) /\ Len(ls) \in Nat
      BY <1>1, ListFacts
<1>3. \A i \in 1 .. Len(ls) : i \in 1 .. Len(ls) + 1 /\ i # Len(ls) + 1
      BY <1>2
<1>4. n \in 1 .. Len(ls) + 1 /\ n \notin DOMAIN ls
      BY <1>2
<1>5. DOMAIN new = DOMAIN ls \cup {n}
      BY <1>2
<1> QED
    BY <1>1, <1>2, <1>3, <1>4, <1>5 DEF Added

\* The library n is that of the key k.
NumberedWith(n, k, ls, ms, ws, lim) == \E g : Numbered(g, ls, ms, ws, lim) /\ n \in DOMAIN g /\ g[n] = k

\* A library.
LEMMA NumberedNew ==
  ASSUME GenInv, At("library"),
         NEW lim, lim \in [DOMAIN input.files -> Nat], lim[file] = rest - 1, NEW next, next = [lim EXCEPT ![file] = rest],
         NEW from, NEW ls, NEW ms, NEW ws, Numbered(from, ls, ms, ws, lim),
         NEW k \in All("library"), k[1] = file, k[2] = rest, NEW x, LibraryIs(x, k, {}, ms, ws),
         NEW new, NEW n, Added(ls, new, n, x)
  PROVE  NumberedWith(n, k, new, ms, ws, next)
<1>1. /\ file \in DOMAIN input.files /\ rest \in Nat /\ rest \in DOMAIN input.files[file]
      /\ input.files[file][rest].key = "library"
      BY KeyFacts DEF At, Key
<1>2. next[file] = rest /\ \A f \in DOMAIN input.files : f # file => next[f] = lim[f]
      BY <1>1
<1>3. /\ DOMAIN new = DOMAIN ls \cup {n} /\ n \notin DOMAIN ls /\ new[n] = x /\ \A i \in DOMAIN ls : new[i] = ls[i]
      BY DEF Added
<1>4. k = <<file, rest>>
      BY AllFacts DEF GenInv
<1>5. k[1] = file /\ k[2] = rest /\ k \in All("library")
      OBVIOUS
<1>6. PICK g : g = [i \in DOMAIN new |-> IF i = n THEN k ELSE from[i]]
      OBVIOUS
<1>7. DOMAIN g = DOMAIN new /\ g[n] = k /\ \A i \in DOMAIN ls : g[i] = from[i] /\ i # n
      BY <1>3, <1>6
<1>8. /\ DOMAIN from = DOMAIN ls
      /\ \A i \in DOMAIN ls : from[i] \in All("library") /\ from[i][2] <= lim[from[i][1]]
      /\ \A l \in All("library") : l[2] <= lim[l[1]] => \E i \in DOMAIN ls : from[i] = l
      /\ \A i, j \in DOMAIN ls : from[i] = from[j] => i = j
      /\ \A i \in DOMAIN ls : LibraryIs(ls[i], from[i], UpTo(from[i], lim), ms, ws)
      BY DEF Numbered
<1>9. ASSUME NEW l \in All("library") PROVE l[2] <= next[l[1]] <=> l[2] <= lim[l[1]] \/ l = k
  <2>1. l = <<l[1], l[2]>> /\ l[1] \in DOMAIN input.files /\ l[2] \in Nat
        BY AllFacts DEF GenInv
  <2>2. l = k <=> l[1] = file /\ l[2] = rest
        BY <1>4, <1>5, <2>1
  <2>3. l[2] <= rest <=> l[2] <= rest - 1 \/ l[2] = rest
        BY <1>1, <2>1
  <2> QED
      BY <1>2, <2>1, <2>2, <2>3
<1>10. \A i \in DOMAIN ls : from[i] # k
       BY <1>1, <1>5, <1>8
<1>11. \A i \in DOMAIN new : g[i] \in All("library") /\ g[i][2] <= next[g[i][1]]
       BY <1>3, <1>5, <1>7, <1>8, <1>9
<1>12. \A l \in All("library") : l[2] <= next[l[1]] => \E i \in DOMAIN new : g[i] = l
       BY <1>3, <1>7, <1>8, <1>9
<1>13. \A i, j \in DOMAIN new : g[i] = g[j] => i = j
       BY <1>3, <1>7, <1>8, <1>10
<1>14. ASSUME NEW i \in DOMAIN new PROVE LibraryIs(new[i], g[i], UpTo(g[i], next), ms, ws)
  <2>0. "library" \notin LibraryKeys
        BY DEF LibraryKeys, EntryTypes
  <2>1. CASE i = n
    <3>1. UpTo(k, next) = {}
      <4>1. \A j \in KeysOf(k) : j \in Nat /\ j > rest
            BY <1>5, KeysOfFacts DEF GenInv
      <4> QED
          BY <1>1, <1>2, <1>5, <4>1 DEF UpTo
    <3> QED
        BY <1>3, <1>7, <2>1, <3>1
  <2>2. CASE i \in DOMAIN ls
    <3>1. PICK l : l = from[i] /\ l \in All("library")
          BY <1>8, <2>2
    <3>2. PICK key : key = "library"
          OBVIOUS
    <3>3. At(key) /\ key \notin LibraryKeys
          BY <2>0, <3>2
    <3>4. UpTo(l, next) = UpTo(l, lim)
          BY <3>1, <3>3, UpToStays
    <3> QED
        BY <1>3, <1>7, <1>8, <2>2, <3>1, <3>4
  <2> QED
      BY <1>3, <2>1, <2>2
<1>15. Numbered(g, new, ms, ws, next)
       BY <1>7, <1>11, <1>12, <1>13, <1>14 DEF Numbered
<1> QED
    BY <1>3, <1>7, <1>15 DEF NumberedWith

\* A key of the current library.
LEMMA NumberedSet ==
  ASSUME GenInv, WellFormed, NEW key \in LibraryKeys, At(key),
         NEW lim, lim \in [DOMAIN input.files -> Nat], lim[file] = rest - 1, NEW next, next = [lim EXCEPT ![file] = rest],
         NEW from, NEW ls, NEW ms, NEW ws, Numbered(from, ls, ms, ws, lim), Current(from, cur.library, file, rest),
         NEW l, l = from[cur.library], NEW T, T = UpTo(l, lim) \cup {rest}, NEW x, LibraryIs(x, l, T, ms, ws),
         NEW new, new = [ls EXCEPT ![cur.library] = x]
  PROVE  Numbered(from, new, ms, ws, next)
<1>1. /\ file \in DOMAIN input.files /\ rest \in Nat /\ input.files[file][rest].key = key
      BY KeyFacts DEF At, Key
<1>2. next[file] = rest /\ \A f \in DOMAIN input.files : f # file => next[f] = lim[f]
      BY <1>1
<1>3. PICK c : c = cur.library
      OBVIOUS
<1>4. /\ DOMAIN from = DOMAIN ls
      /\ \A i \in DOMAIN ls : from[i] \in All("library") /\ from[i][2] <= lim[from[i][1]]
      /\ \A k \in All("library") : k[2] <= lim[k[1]] => \E i \in DOMAIN ls : from[i] = k
      /\ \A i, j \in DOMAIN ls : from[i] = from[j] => i = j
      /\ \A i \in DOMAIN ls : LibraryIs(ls[i], from[i], UpTo(from[i], lim), ms, ws)
      BY DEF Numbered
<1>5. /\ c \in DOMAIN ls /\ from[c] \in All("library") /\ from[c][1] = file /\ rest \in KeysOf(from[c])
      /\ \A k \in All("library") : k[1] = file /\ rest \in KeysOf(k) => k = from[c]
      BY <1>3, <1>4, LibraryKey
<1>6. DOMAIN new = DOMAIN ls /\ new[c] = x /\ \A i \in DOMAIN ls : i # c => new[i] = ls[i]
      BY <1>3, <1>5
<1>7. ASSUME NEW k \in All("library") PROVE k[2] <= lim[k[1]] <=> k[2] <= next[k[1]]
  <2>1. k[1] \in DOMAIN input.files /\ k[2] \in Nat /\ input.files[k[1]][k[2]].key = "library"
        BY AllFacts DEF GenInv
  <2>2. k[1] = file => k[2] # rest
        BY <1>1, <2>1 DEF LibraryKeys, EntryTypes
  <2>3. k[2] # rest => (k[2] <= rest <=> k[2] <= rest - 1)
        BY <1>1, <2>1
  <2> QED
      BY <1>2, <2>1, <2>2, <2>3
<1>8. ASSUME NEW i \in DOMAIN ls PROVE LibraryIs(new[i], from[i], UpTo(from[i], next), ms, ws)
  <2>1. CASE i = c
    <3>1. from[c] = l /\ l \in All("library") /\ l[1] = file /\ rest \in KeysOf(l)
          BY <1>3, <1>5
    <3>2. UpTo(l, next) = T
          BY <3>1, UpToSteps
    <3> QED
        BY <1>6, <2>1, <3>1, <3>2
  <2>2. CASE i # c
    <3>1. from[i] \in All("library") /\ from[i] # from[c]
          BY <1>4, <1>5, <2>2
    <3>2. UpTo(from[i], next) = UpTo(from[i], lim)
          BY <1>5, <3>1, UpToSteps
    <3> QED
        BY <1>4, <1>6, <2>2, <3>2
  <2> QED
      BY <2>1, <2>2
<1>9. \A i \in DOMAIN new : from[i] \in All("library") /\ from[i][2] <= next[from[i][1]]
      BY <1>4, <1>6, <1>7
<1>10. \A k \in All("library") : k[2] <= next[k[1]] => \E i \in DOMAIN new : from[i] = k
       BY <1>4, <1>6, <1>7
<1> QED
    BY <1>4, <1>6, <1>8, <1>9, <1>10 DEF Numbered

\* What is said of the files stays.
LEMMA NumberedSame ==
  ASSUME input' = input, NEW from, NEW ls, NEW ms, NEW ws, NEW lim, Numbered(from, ls, ms, ws, lim)
  PROVE  Numbered(from, ls, ms, ws, lim)'
<1>1. \A l : FileOf(l)' = FileOf(l) /\ KeyOf(l)' = KeyOf(l)
      BY DEF FileOf, KeyOf
<1>2. \A l : KeysOf(l)' = KeysOf(l)
      BY <1>1 DEF KeysOf
<1>3. \A key : All(key)' = All(key)
      BY DEF All, KeyOf, FileOf
<1>4. \A l, S, key, field, default, v : ValueIs(l, S, key, field, default, v) => ValueIs(l, S, key, field, default, v)'
      BY <1>1 DEF ValueIs
<1>5. \A x, l, S, type : EntriesAre(x, l, S, type) => EntriesAre(x, l, S, type)'
      BY <1>1 DEF EntriesAre, EntryAt
<1>6. \A m, f, k : ModuleIs(m, f, k, ms, ws) => ModuleIs(m, f, k, ms, ws)'
      BY DEF ModuleIs
<1>7. \A x, l, S : LibraryIs(x, l, S, ms, ws) => LibraryIs(x, l, S, ms, ws)'
      BY <1>1, <1>4, <1>5, <1>6 DEF LibraryIs
<1>8. \A l : UpTo(l, lim)' = UpTo(l, lim)
      BY <1>2 DEF UpTo
<1> QED
    BY <1>3, <1>7, <1>8 DEF Numbered

\* How far the files are read.
LEMMA LimitsFacts ==
  ASSUME GenInv, ErrorInv
  PROVE  /\ Limits \in [DOMAIN input.files -> Nat]
         /\ pc = "read" /\ file # 0 => file \in DOMAIN input.files /\ Limits[file] = rest - 1
<1>1. ASSUME NEW f \in DOMAIN input.files
      PROVE  (IF f \in todo THEN 0 ELSE IF f = file /\ pc = "read" THEN rest - 1 ELSE Len(input.files[f])) \in Nat
  <2>1. Len(input.files[f]) \in Nat /\ f # 0
        BY InputFacts DEF GenInv
  <2>2. f = file /\ pc = "read" => rest - 1 \in Nat
        BY <2>1 DEF GenInv
  <2> QED
      BY <2>1, <2>2
<1>2. file # 0 => file \in DOMAIN input.files /\ file \notin todo
      BY DEF GenInv, TypeOK, ErrorInv
<1> QED
    BY <1>1, <1>2 DEF Limits

\* By one key.
LEMMA LimitsRead ==
  ASSUME GenInv, ErrorInv, NEW key, At(key), Continue
  PROVE  Limits' = [Limits EXCEPT ![file] = rest]
<1>1. /\ input' = input /\ pc' = pc /\ todo' = todo /\ file' = file /\ rest' = rest + 1 /\ pc = "read"
      /\ file \in DOMAIN input.files /\ file \notin todo /\ rest \in Nat
      BY KeyFacts DEF Continue, At, ErrorInv
<1>2. rest' - 1 = rest
      BY <1>1
<1>3. Limits' = [f \in DOMAIN input.files |->
                   IF f \in todo THEN 0 ELSE IF f = file THEN rest ELSE Len(input.files[f])]
      BY <1>1, <1>2 DEF Limits
<1>4. Limits = [f \in DOMAIN input.files |->
                  IF f \in todo THEN 0 ELSE IF f = file THEN rest - 1 ELSE Len(input.files[f])]
      BY <1>1 DEF Limits
<1> QED
    BY <1>1, <1>3, <1>4

\* A file is read to its end, if it has no error.
LEMMA LimitsStay ==
  ASSUME GenInv, ErrorInv, WellFormed, OpenFile \/ BadKey \/ ReadingEnds \/ NoDatabase \/ Generate \/ Terminated \/ UNCHANGED vars
  PROVE  /\ input' = input /\ libs' = libs /\ modules' = modules /\ fws' = fws /\ Limits' = Limits
         /\ cur' = cur
         /\ pc' = "read" /\ file' # 0 => rest' = 1 \/ UNCHANGED vars
<1>1. CASE OpenFile
  <2>1. PICK f \in todo : Open(f)
        BY <1>1 DEF OpenFile
  <2>2. /\ pc = "read" /\ pc' = "read" /\ FileDone /\ todo' = todo \ {f} /\ file' = f /\ rest' = 1 /\ input' = input
        /\ libs' = libs /\ modules' = modules /\ fws' = fws /\ cur' = cur
        BY <2>1 DEF Open
  <2>3. todo \subseteq DOMAIN input.files /\ (file # 0 => file \notin todo /\ file \in DOMAIN input.files)
        BY DEF GenInv, TypeOK, ErrorInv
  <2>4. file # 0 => rest - 1 = Len(input.files[file])
    <3>1. file # 0 => rest > Len(input.files[file]) /\ rest <= Len(input.files[file]) + 1 /\ rest \in Nat
          BY <2>2 DEF FileDone, GenInv
    <3>2. file # 0 => Len(input.files[file]) \in Nat
          BY <2>3, InputFacts DEF GenInv
    <3> QED
        BY <3>1, <3>2
  <2>5. \A g \in DOMAIN input.files : g # 0
        BY InputFacts DEF GenInv
  <2>6. ASSUME NEW g \in DOMAIN input.files
        PROVE  (IF g \in todo' THEN 0 ELSE IF g = file' /\ pc' = "read" THEN rest' - 1 ELSE Len(input.files[g]))
             = (IF g \in todo THEN 0 ELSE IF g = file /\ pc = "read" THEN rest - 1 ELSE Len(input.files[g]))
    <3>1. CASE g = f
          BY <2>2, <3>1
    <3>2. CASE g # f
          BY <2>2, <2>4, <2>5, <3>2
    <3> QED
        BY <3>1, <3>2
  <2>7. Limits' = Limits
        BY <2>2, <2>6 DEF Limits
  <2> QED
      BY <2>2, <2>7
<1>2. CASE BadKey \/ ReadingEnds \/ NoDatabase
  <2>0. ~ BadKey
    <3>1. BadKey => file \in DOMAIN input.files /\ rest \in DOMAIN input.files[file] /\ input.files[file][rest].key = "error"
          BY KeyFacts DEF BadKey, At, Key
    <3> QED
        BY <3>1, WellFormedFacts
  <2>1. /\ pc = "read" /\ pc' # "read" /\ FileDone /\ todo' = todo /\ file' = file /\ rest' = rest /\ input' = input
        /\ libs' = libs /\ modules' = modules /\ fws' = fws /\ cur' = cur
        BY <1>2, <2>0 DEF ReadingEnds, NoDatabase, FileDone
  <2>4. file # 0 => rest - 1 = Len(input.files[file])
    <3>1. file # 0 => rest > Len(input.files[file]) /\ rest <= Len(input.files[file]) + 1 /\ rest \in Nat
          BY <2>1 DEF FileDone, GenInv
    <3>2. file # 0 => Len(input.files[file]) \in Nat
          BY InputFacts DEF GenInv, TypeOK
    <3> QED
        BY <3>1, <3>2
  <2>5. \A g \in DOMAIN input.files : g # 0
        BY InputFacts DEF GenInv
  <2>6. ASSUME NEW g \in DOMAIN input.files
        PROVE  (IF g \in todo' THEN 0 ELSE IF g = file' /\ pc' = "read" THEN rest' - 1 ELSE Len(input.files[g]))
             = (IF g \in todo THEN 0 ELSE IF g = file /\ pc = "read" THEN rest - 1 ELSE Len(input.files[g]))
        BY <2>1, <2>4, <2>5
  <2>7. Limits' = Limits
        BY <2>1, <2>6 DEF Limits
  <2> QED
      BY <2>1, <2>7
<1>3. CASE Generate
  <2>1. /\ pc # "read" /\ pc' # "read" /\ todo' = todo /\ file' = file /\ input' = input
        /\ libs' = libs /\ modules' = modules /\ fws' = fws /\ cur' = cur
        BY <1>3 DEF Generate, library_callback, AllGrouped, MakeStub, Exit
  <2>2. Limits' = Limits
        BY <2>1 DEF Limits
  <2> QED
      BY <2>1, <2>2
<1>4. CASE Terminated \/ UNCHANGED vars
  <2>1. UNCHANGED vars
        BY <1>4 DEF Terminated
  <2>2. /\ pc' = pc /\ todo' = todo /\ file' = file /\ input' = input /\ rest' = rest
        /\ libs' = libs /\ modules' = modules /\ fws' = fws /\ cur' = cur
        BY <2>1 DEF vars
  <2>3. Limits' = Limits
        BY <2>2 DEF Limits
  <2> QED
      BY <2>1, <2>2, <2>3
<1> QED
    BY <1>1, <1>2, <1>3, <1>4

LEMMA WellFormedSame == ASSUME input' = input PROVE WellFormed' <=> WellFormed
BY DEF WellFormed, All, KeyOf, FileOf

\* Nothing is read.
LEMMA NumInit ==
  ASSUME Init, InputOK(input)
  PROVE  NumInv
<1> SUFFICES ASSUME WellFormed PROVE NumInv
    BY DEF NumInv
<1>1. pc = "read" /\ file = 0 /\ todo = DOMAIN input.files /\ libs = <<>> /\ DOMAIN libs = {}
      BY DEF Init
<1>2. Limits = [f \in DOMAIN input.files |-> 0]
      BY <1>1 DEF Limits
<1>3. PICK from, ls, ms, ws, lim : from = libs /\ ls = libs /\ ms = modules /\ ws = fws /\ lim = Limits
      OBVIOUS
<1>4. \A l \in All("library") : ~ (l[2] <= lim[l[1]])
      BY <1>2, <1>3, AllFacts
<1>5. Numbered(from, ls, ms, ws, lim)
      BY <1>1, <1>3, <1>4 DEF Numbered
<1> QED
    BY <1>1, <1>3, <1>5 DEF NumInv, CurInv

\* Everything but a key.
LEMMA NumStay ==
  ASSUME GenInv, ErrorInv, NumInv, WellFormed,
         OpenFile \/ BadKey \/ ReadingEnds \/ NoDatabase \/ Generate \/ Terminated \/ UNCHANGED vars
  PROVE  NumInv'
<1>1. /\ input' = input /\ libs' = libs /\ modules' = modules /\ fws' = fws /\ Limits' = Limits /\ cur' = cur
      /\ pc' = "read" /\ file' # 0 => rest' = 1 \/ UNCHANGED vars
      BY LimitsStay
<1>2. PICK from, ls, ms, ws, lim :
        /\ ls = libs /\ ms = modules /\ ws = fws /\ lim = Limits
        /\ Numbered(from, ls, ms, ws, lim)
        /\ pc = "read" /\ file # 0 => Current(from, cur.library, file, rest)
      BY DEF NumInv
<1>3. Numbered(from, ls, ms, ws, lim)' /\ ls = libs' /\ ms = modules' /\ ws = fws' /\ lim = Limits'
      BY <1>1, <1>2, NumberedSame
<1>4. CASE pc' = "read" /\ file' # 0 /\ rest' = 1
  <2>1. rest' - 1 = 0 /\ 1 .. 0 = {} /\ ~ (rest' > 1)
        BY <1>4
  <2>2. Current(from, cur.library, file, rest)' /\ CurInv'
        BY <2>1 DEF Current, CurInv, Behind
  <2> QED
      BY <1>3, <2>2 DEF NumInv
<1>5. CASE UNCHANGED vars
  <2>1. pc' = pc /\ file' = file /\ rest' = rest /\ input' = input /\ cur' = cur /\ modules' = modules /\ fws' = fws
        BY <1>5 DEF vars
  <2>2. CurInv'
        BY <2>1 DEF NumInv, CurInv, Behind, ModuleIs
  <2>3. (pc = "read" /\ file # 0 => Current(from, cur.library, file, rest))'
        BY <1>2, <2>1 DEF Current
  <2> QED
      BY <1>3, <2>2, <2>3 DEF NumInv
<1>6. CASE ~ (pc' = "read" /\ file' # 0)
  <2>1. CurInv'
        BY <1>6 DEF CurInv
  <2> QED
      BY <1>3, <1>6, <2>1 DEF NumInv
<1> QED
    BY <1>1, <1>4, <1>5, <1>6

\* A key says something of its library.
LEMMA LibraryUp ==
  ASSUME NEW l, NEW S, NEW r \in Nat, \A k \in S : k \in Nat /\ k < r, NEW o, NEW ms, NEW ws, LibraryIs(o, l, S, ms, ws),
         \A type \in EntryTypes : IsList(o[type]), NEW key, FileOf(l)[r].key = key, NEW x,
         x.name = o.name, x.module = o.module,
         x.stubname = IF key = "stubname" THEN FileOf(l)[r].name ELSE o.stubname,
         x.privilege = IF key = "kernel" THEN FileOf(l)[r].value ELSE o.privilege,
         x.version = IF key = "version" THEN FileOf(l)[r].value ELSE o.version,
         x.nid = IF key = "nid" THEN FileOf(l)[r].value ELSE o.nid,
         \A type \in EntryTypes : x[type] = IF key = type THEN Append(o[type], EntryAt(l, r)) ELSE o[type]
  PROVE  LibraryIs(x, l, S \cup {r}, ms, ws)
<1>1. PICK T : T = S \cup {r}
      OBVIOUS
<1>2. /\ x.name = KeyOf(l).name /\ ModuleIs(x.module, l[1], l[2], ms, ws)
      /\ ValueIs(l, S, "stubname", "name", NoName, o.stubname)
      /\ ValueIs(l, S, "kernel", "value", NONE, o.privilege)
      /\ ValueIs(l, S, "version", "value", 0, o.version)
      /\ ValueIs(l, S, "nid", "value", 0, o.nid)
      /\ \A type \in EntryTypes : EntriesAre(o[type], l, S, type)
      BY DEF LibraryIs
<1>3. ASSUME NEW k, NEW field, NEW default, NEW v, NEW w, ValueIs(l, S, k, field, default, v),
             w = IF key = k THEN FileOf(l)[r][field] ELSE v
      PROVE  ValueIs(l, T, k, field, default, w)
      BY <1>1, <1>3, ValueUp
<1>4. PICK a, b, c, d : a = x.stubname /\ b = x.privilege /\ c = x.version /\ d = x.nid
      OBVIOUS
<1>5. ValueIs(l, T, "stubname", "name", NoName, a)
  <2>1. a = IF key = "stubname" THEN FileOf(l)[r]["name"] ELSE o.stubname
        BY <1>4
  <2> QED
      BY <1>2, <1>3, <2>1
<1>6. ValueIs(l, T, "kernel", "value", NONE, b)
  <2>1. b = IF key = "kernel" THEN FileOf(l)[r]["value"] ELSE o.privilege
        BY <1>4
  <2> QED
      BY <1>2, <1>3, <2>1
<1>7. ValueIs(l, T, "version", "value", 0, c)
  <2>1. c = IF key = "version" THEN FileOf(l)[r]["value"] ELSE o.version
        BY <1>4
  <2> QED
      BY <1>2, <1>3, <2>1
<1>8. ValueIs(l, T, "nid", "value", 0, d)
  <2>1. d = IF key = "nid" THEN FileOf(l)[r]["value"] ELSE o.nid
        BY <1>4
  <2> QED
      BY <1>2, <1>3, <2>1
<1>9. ASSUME NEW type \in EntryTypes PROVE EntriesAre(x[type], l, T, type)
  <2>1. PICK y, z : y = o[type] /\ z = x[type]
        OBVIOUS
  <2>2. IsList(y) /\ EntriesAre(y, l, S, type)
        BY <1>2, <2>1
  <2>3. CASE key = type
    <3>1. z = Append(y, EntryAt(l, r))
          BY <2>1, <2>3
    <3>2. EntriesAre(z, l, S \cup {r}, type)
          BY <2>2, <2>3, <3>1, EntryUp
    <3> QED
        BY <1>1, <2>1, <3>2
  <2>4. CASE key # type
    <3>1. z = y
          BY <2>1, <2>4
    <3>2. EntriesAre(y, l, S \cup {r}, type)
          BY <2>2, <2>4, EntriesUp
    <3> QED
        BY <1>1, <2>1, <3>1, <3>2
  <2> QED
      BY <2>3, <2>4
<1> QED
    BY <1>1, <1>2, <1>4, <1>5, <1>6, <1>7, <1>8, <1>9 DEF LibraryIs

\* Another key behind.
LEMMA CurrentOther ==
  ASSUME NEW from, NEW c, NEW f, NEW r \in Nat, r >= 1, Current(from, c, f, r), input.files[f][r].key # "library"
  PROVE  Current(from, c, f, r + 1)
<1>1. (r + 1) - 1 = r /\ \A j \in 1 .. r : j \in 1 .. r - 1 \/ j = r
      OBVIOUS
<1>2. \A j \in 1 .. r - 1 : j \in 1 .. r
      OBVIOUS
<1>3. SUFFICES ASSUME \E j \in 1 .. r : input.files[f][j].key = "library"
               PROVE  /\ c \in DOMAIN from
                      /\ \E j \in 1 .. r : /\ input.files[f][j].key = "library" /\ from[c] = <<f, j>>
                                           /\ \A m \in j + 1 .. r : input.files[f][m].key # "library"
      BY <1>1 DEF Current
<1>4. \E j \in 1 .. r - 1 : input.files[f][j].key = "library"
      BY <1>1, <1>3
<1>5. PICK j \in 1 .. r - 1 : /\ input.files[f][j].key = "library" /\ from[c] = <<f, j>>
                             /\ \A m \in j + 1 .. r - 1 : input.files[f][m].key # "library"
      BY <1>4 DEF Current
<1>6. \A m \in j + 1 .. r : m \in j + 1 .. r - 1 \/ m = r
      OBVIOUS
<1>7. \A m \in j + 1 .. r : input.files[f][m].key # "library"
      BY <1>5, <1>6
<1> QED
    BY <1>2, <1>4, <1>5, <1>7 DEF Current

\* The same for its module.
LEMMA ModuleOther ==
  ASSUME NEW m, NEW f, NEW k \in Nat, k >= 1, NEW ms, NEW ws, ModuleIs(m, f, k, ms, ws), input.files[f][k].key # "module"
  PROVE  ModuleIs(m, f, k + 1, ms, ws)
<1>1. (k + 1) - 1 = k /\ \A j \in 1 .. k - 1 : j \in 1 .. k
      OBVIOUS
<1>2. PICK j \in 1 .. k - 1 : /\ input.files[f][j].key = "module" /\ ms[m].name = input.files[f][j].name
                             /\ \A i \in j + 1 .. k - 1 : input.files[f][i].key # "module"
      BY DEF ModuleIs
<1>3. \A i \in j + 1 .. k : i \in j + 1 .. k - 1 \/ i = k
      OBVIOUS
<1>4. \A i \in j + 1 .. k : input.files[f][i].key # "module"
      BY <1>2, <1>3
<1>5. \E n \in 1 .. k : /\ input.files[f][n].key = "module" /\ ms[m].name = input.files[f][n].name
                        /\ \A i \in n + 1 .. k : input.files[f][i].key # "module"
      BY <1>1, <1>2, <1>4
<1> QED
    BY <1>1, <1>5 DEF ModuleIs

\* The key that is read, in a database without errors.
LEMMA ReadingFacts ==
  ASSUME GenInv, WellFormed, NEW key, At(key)
  PROVE  /\ file \in DOMAIN input.files /\ file # 0 /\ rest \in Nat /\ rest >= 1 /\ input.files[file][rest] = Key /\ Key.key = key
         /\ key = "firmware" => rest = 1 /\ Key.value # BAD
         /\ key # "firmware" => rest > 1
         /\ key = "library" => Behind("module")
<1>1. /\ file \in DOMAIN input.files /\ file # 0 /\ rest \in Nat /\ rest >= 1 /\ input.files[file][rest] = Key /\ Key.key = key
      /\ rest \in DOMAIN input.files[file]
      BY KeyFacts DEF At, Key
<1>2. /\ key = "firmware" => rest = 1 /\ Key.value # BAD
      /\ key # "firmware" => rest > 1
      BY <1>1, WellFormedFacts
<1>3. key = "library" => \E j \in 1 .. rest - 1 : input.files[file][j].key = "module"
      BY <1>1 DEF GenInv, InputOK
<1> QED
    BY <1>1, <1>2, <1>3 DEF Behind

\* What is left to show of a key that has been read.
LEMMA ReadOn ==
  ASSUME GenInv, ErrorInv, WellFormed, NEW key, At(key), Continue,
         cur'.fw \in DOMAIN fws', fws'[cur'.fw] = input.files[file][1].value,
         key = "module" \/ Behind("module") => ModuleIs(cur.module, file, rest, modules, fws)'
  PROVE  /\ CurInv'
         /\ \A from, ls, ms, ws, lim :
              /\ ls = libs' /\ ms = modules' /\ ws = fws' /\ lim = [Limits EXCEPT ![file] = rest]
              /\ Numbered(from, ls, ms, ws, lim) /\ Current(from, cur'.library, file, rest + 1)
              => NumInv'
<1>1. /\ input' = input /\ pc' = "read" /\ file' = file /\ rest' = rest + 1 /\ rest \in Nat /\ rest >= 1
      /\ input.files[file][rest].key = key
      BY KeyFacts DEF Continue, At, Key
<1>2. Behind("module")' => key = "module" \/ Behind("module")
  <2>1. (rest + 1) - 1 = rest /\ \A j \in 1 .. rest : j \in 1 .. rest - 1 \/ j = rest
        BY <1>1
  <2> QED
      BY <1>1, <2>1 DEF Behind
<1>3. CurInv'
      BY <1>1, <1>2 DEF CurInv
<1>4. ASSUME NEW from, NEW ls, NEW ms, NEW ws, NEW lim,
             ls = libs', ms = modules', ws = fws', lim = [Limits EXCEPT ![file] = rest],
             Numbered(from, ls, ms, ws, lim), Current(from, cur'.library, file, rest + 1)
      PROVE  NumInv'
  <2>1. lim = Limits' /\ Numbered(from, ls, ms, ws, lim)'
        BY <1>1, <1>4, LimitsRead, NumberedSame
  <2>2. Current(from, cur.library, file, rest)'
        BY <1>1, <1>4 DEF Current
  <2> QED
      BY <1>3, <1>4, <2>1, <2>2 DEF NumInv
<1> QED
    BY <1>3, <1>4

\* The list with an element that is looked for, or appended.
LEMMA WithGrows ==
  ASSUME NEW S, NEW s \in Seq(S), NEW x \in S, IsInjective(s), NEW t, t = With(s, x), NEW n, n = Index(s, x)
  PROVE  Longer(s, t) /\ n \in DOMAIN t /\ t[n] = x
<1>1. Len(s) \in Nat /\ DOMAIN s = 1 .. Len(s)
      OBVIOUS
<1>2. CASE \E i \in DOMAIN s : s[i] = x
  <2>1. t = s
        BY <1>2 DEF With
  <2>2. n \in DOMAIN s /\ s[n] = x
        BY <1>2 DEF Index
  <2> QED
      BY <2>1, <2>2 DEF Longer
<1>3. CASE ~ \E i \in DOMAIN s : s[i] = x
  <2>1. t = Append(s, x) /\ n = Len(s) + 1
        BY <1>3 DEF With, Index
  <2>2. DOMAIN t = 1 .. Len(s) + 1 /\ t[Len(s) + 1] = x /\ \A i \in DOMAIN s : t[i] = s[i]
        BY <1>1, <2>1
  <2> QED
      BY <1>1, <2>1, <2>2 DEF Longer
<1> QED
    BY <1>2, <1>3

\* A firmware: the libraries so far keep theirs.
LEMMA NumFirmware ==
  ASSUME GenInv, ErrorInv, NumInv, WellFormed, database_firmware
  PROVE  NumInv'
<1>1. /\ At("firmware") /\ Continue /\ libs' = libs /\ modules' = modules
      BY DEF database_firmware
<1>2. /\ file \in DOMAIN input.files /\ file # 0 /\ rest = 1 /\ rest \in Nat /\ Key.value # BAD /\ Key.value \in Nat
      /\ input.files[file][rest] = Key /\ Key.key = "firmware"
      BY <1>1, ReadingFacts, KeyFacts
<1>3. fws' = With(fws, Key.value) /\ cur' = [cur EXCEPT !.fw = Index(fws, Key.value)]
      BY <1>2 DEF database_firmware
<1>4. cur'.fw = Index(fws, Key.value) /\ cur'.library = cur.library
  <2>1. cur = [fw |-> cur.fw, module |-> cur.module, library |-> cur.library]
        BY DEF GenInv
  <2> QED
      BY <1>3, <2>1
<1>5. /\ cur'.fw \in DOMAIN fws' /\ fws'[cur'.fw] = input.files[file][1].value
      /\ DOMAIN fws \subseteq DOMAIN fws' /\ \A i \in DOMAIN fws : fws'[i] = fws[i]
  <2>1. PICK w, v, n, x : w = fws /\ v = fws' /\ n = cur'.fw /\ x = Key.value
        OBVIOUS
  <2>2. w \in Seq(Nat) /\ IsInjective(w) /\ x \in Nat
        BY <1>2, <2>1 DEF GenInv, TypeOK
  <2>3. v = With(w, x) /\ n = Index(w, x)
        BY <1>3, <1>4, <2>1
  <2>4. Longer(w, v) /\ n \in DOMAIN v /\ v[n] = x
        BY <2>2, <2>3, WithGrows
  <2> QED
      BY <1>2, <2>1, <2>4 DEF Longer
<1>6. ~ Behind("module")
  <2>1. rest - 1 = 0 /\ 1 .. 0 = {}
        BY <1>2
  <2> QED
      BY <2>1 DEF Behind
<1>7. PICK from, ls, ms, ws, lim :
        /\ ls = libs /\ ms = modules /\ ws = fws /\ lim = Limits
        /\ Numbered(from, ls, ms, ws, lim)
        /\ Current(from, cur.library, file, rest)
      BY <1>1, <1>2 DEF NumInv, At
<1>8. PICK ns, xs, next : ns = modules' /\ xs = fws' /\ next = [lim EXCEPT ![file] = rest]
      OBVIOUS
<1>9. Longer(ms, ns) /\ Longer(ws, xs)
      BY <1>1, <1>5, <1>7, <1>8 DEF Longer
<1>10. lim \in [DOMAIN input.files -> Nat] /\ lim[file] = rest - 1
       BY <1>1, <1>2, <1>7, LimitsFacts DEF At
<1>11. "firmware" \notin LibraryKeys
       BY DEF LibraryKeys, EntryTypes
<1>12. Numbered(from, ls, ns, xs, next)
       BY <1>1, <1>7, <1>8, <1>9, <1>10, <1>11, NumberedOther
<1>13. Current(from, cur'.library, file, rest + 1)
  <2>1. Current(from, cur.library, file, rest + 1)
    <3>1. PICK c, f : c = cur.library /\ f = file
          OBVIOUS
    <3> QED
        BY <1>2, <1>7, <3>1, CurrentOther
  <2> QED
      BY <1>4, <2>1
<1> QED
    BY <1>1, <1>5, <1>6, <1>7, <1>8, <1>12, <1>13, ReadOn

\* A module: it is the current one.
LEMMA NumModule ==
  ASSUME GenInv, ErrorInv, NumInv, WellFormed, module_name
  PROVE  NumInv'
<1>1. At("module") /\ Continue /\ libs' = libs
      BY DEF module_name
<1>2. /\ file \in DOMAIN input.files /\ file # 0 /\ rest > 1 /\ rest \in Nat /\ Key.name \in Seq(Nat)
      /\ input.files[file][rest] = Key /\ Key.key = "module"
      BY <1>1, ReadingFacts, KeyFacts
<1>3. cur.fw \in DOMAIN fws /\ fws[cur.fw] = input.files[file][1].value /\ cur.fw # 0
  <2>1. fws \in Seq(Nat)
        BY DEF GenInv, TypeOK
  <2>2. \A i \in DOMAIN fws : i # 0
        BY <2>1
  <2> QED
      BY <1>1, <1>2, <2>2 DEF NumInv, CurInv, At
<1>4. PICK m : m = [fw |-> cur.fw, name |-> Key.name]
      OBVIOUS
<1>5. /\ fws' = fws /\ modules' = With(modules, m)
      /\ cur' = [cur EXCEPT !.fw = cur.fw, !.module = Index(modules, m)]
      BY <1>3, <1>4 DEF module_name
<1>6. cur'.fw = cur.fw /\ cur'.module = Index(modules, m) /\ cur'.library = cur.library
  <2>1. cur = [fw |-> cur.fw, module |-> cur.module, library |-> cur.library]
        BY DEF GenInv
  <2> QED
      BY <1>5, <2>1
<1>7. /\ Index(modules, m) \in DOMAIN modules' /\ modules'[Index(modules, m)] = m
      /\ DOMAIN modules \subseteq DOMAIN modules' /\ \A i \in DOMAIN modules : modules'[i] = modules[i]
  <2>1. m \in [fw : DOMAIN fws, name : Seq(Nat)]
        BY <1>2, <1>3, <1>4
  <2>2. modules \in Seq([fw : DOMAIN fws, name : Seq(Nat)]) /\ IsInjective(modules)
        BY DEF GenInv, TypeOK
  <2>3. PICK w, v, n : w = modules /\ v = modules' /\ n = Index(modules, m)
        OBVIOUS
  <2>4. v = With(w, m) /\ n = Index(w, m) /\ w \in Seq([fw : DOMAIN fws, name : Seq(Nat)]) /\ IsInjective(w)
        BY <1>5, <2>2, <2>3
  <2>5. Longer(w, v) /\ n \in DOMAIN v /\ v[n] = m
    <3>1. PICK T : T = [fw : DOMAIN fws, name : Seq(Nat)]
          OBVIOUS
    <3>2. w \in Seq(T) /\ m \in T
          BY <2>1, <2>4, <3>1
    <3> QED
        BY <2>4, <3>2, WithGrows
  <2> QED
      BY <2>3, <2>5 DEF Longer
<1>8. ModuleIs(cur.module, file, rest, modules, fws)'
  <2>1. /\ input' = input /\ file' = file /\ rest' = rest + 1 /\ rest' - 1 = rest /\ rest + 1 .. rest = {} /\ rest \in 1 .. rest
        BY <1>1, <1>2 DEF Continue
  <2>2. /\ cur'.module \in DOMAIN modules' /\ modules'[cur'.module].fw = cur.fw /\ modules'[cur'.module].name = Key.name
        BY <1>4, <1>6, <1>7
  <2>3. \E j \in 1 .. rest : /\ input.files[file][j].key = "module" /\ modules'[cur'.module].name = input.files[file][j].name
                             /\ \A i \in j + 1 .. rest : input.files[file][i].key # "module"
        BY <1>2, <2>1, <2>2
  <2> QED
      BY <1>3, <1>5, <2>1, <2>2, <2>3 DEF ModuleIs
<1>9. PICK from, ls, ms, ws, lim :
        /\ ls = libs /\ ms = modules /\ ws = fws /\ lim = Limits
        /\ Numbered(from, ls, ms, ws, lim)
        /\ Current(from, cur.library, file, rest)
      BY <1>1, <1>2 DEF NumInv, At
<1>10. PICK ns, next : ns = modules' /\ next = [lim EXCEPT ![file] = rest]
       OBVIOUS
<1>11. Longer(ms, ns) /\ Longer(ws, ws)
       BY <1>7, <1>9, <1>10 DEF Longer
<1>12. lim \in [DOMAIN input.files -> Nat] /\ lim[file] = rest - 1
       BY <1>1, <1>2, <1>9, LimitsFacts DEF At
<1>13. "module" \notin LibraryKeys
       BY DEF LibraryKeys, EntryTypes
<1>14. Numbered(from, ls, ns, ws, next)
       BY <1>1, <1>9, <1>10, <1>11, <1>12, <1>13, NumberedOther
<1>15. Current(from, cur'.library, file, rest + 1)
  <2>1. Current(from, cur.library, file, rest + 1)
    <3>1. PICK c, f : c = cur.library /\ f = file
          OBVIOUS
    <3> QED
        BY <1>2, <1>9, <3>1, CurrentOther
  <2> QED
      BY <1>6, <2>1
<1>16. cur'.fw \in DOMAIN fws' /\ fws'[cur'.fw] = input.files[file][1].value
       BY <1>3, <1>5, <1>6
<1> QED
    BY <1>1, <1>5, <1>8, <1>9, <1>10, <1>14, <1>15, <1>16, ReadOn

\* A library: it stands for its key, with nothing said of it.
LEMMA NumLibrary ==
  ASSUME GenInv, ErrorInv, NumInv, WellFormed, library_name
  PROVE  NumInv'
<1>1. At("library") /\ Continue /\ modules' = modules /\ fws' = fws
      BY DEF library_name
<1>2. /\ file \in DOMAIN input.files /\ file # 0 /\ rest > 1 /\ rest \in Nat /\ Behind("module")
      /\ input.files[file][rest] = Key /\ Key.key = "library" /\ rest \in DOMAIN input.files[file]
      BY <1>1, ReadingFacts DEF At
<1>3. PICK x : x = [module |-> cur.module, name |-> Key.name, stubname |-> NoName, privilege |-> NONE,
                    version |-> 0, nid |-> 0, function |-> <<>>, variable |-> <<>>]
      OBVIOUS
<1>4. libs' = Append(libs, x) /\ cur' = [cur EXCEPT !.library = Len(libs) + 1]
      BY <1>3 DEF library_name
<1>5. cur'.fw = cur.fw /\ cur'.module = cur.module /\ cur'.library = Len(libs) + 1
  <2>1. cur = [fw |-> cur.fw, module |-> cur.module, library |-> cur.library]
        BY DEF GenInv
  <2> QED
      BY <1>4, <2>1
<1>6. /\ cur.fw \in DOMAIN fws /\ fws[cur.fw] = input.files[file][1].value
      /\ ModuleIs(cur.module, file, rest, modules, fws)
      BY <1>1, <1>2 DEF NumInv, CurInv, At
<1>7. PICK from, ls, ms, ws, lim :
        /\ ls = libs /\ ms = modules /\ ws = fws /\ lim = Limits
        /\ Numbered(from, ls, ms, ws, lim)
      BY DEF NumInv
<1>8. PICK k, n : k = <<file, rest>> /\ n = Len(ls) + 1
       OBVIOUS
<1>9. LibraryIs(x, k, {}, ms, ws)
  <2>2. KeyOf(k) = Key /\ k[1] = file /\ k[2] = rest
        BY <1>2, <1>8 DEF KeyOf, FileOf
  <2>3. x.name = Key.name /\ x.module = cur.module /\ x.stubname = NoName /\ x.privilege = NONE /\ x.version = 0 /\ x.nid = 0
        BY <1>3
  <2>4. ASSUME NEW type \in EntryTypes PROVE EntriesAre(x[type], k, {}, type)
    <3>1. PICK y : y = x[type]
          OBVIOUS
    <3>2. DOMAIN y = {}
          BY <1>3, <3>1 DEF EntryTypes
    <3> QED
        BY <3>1, <3>2 DEF EntriesAre
  <2>5. \A key, field, v : ValueIs(k, {}, key, field, v, v)
        BY DEF ValueIs
  <2>6. ModuleIs(x.module, k[1], k[2], ms, ws)
        BY <1>6, <1>7, <2>2, <2>3
  <2> QED
      BY <2>2, <2>3, <2>4, <2>5, <2>6 DEF LibraryIs
<1>10. IsList(ls)
      BY <1>7 DEF GenInv, TypeOK, IsList
<1>11. lim \in [DOMAIN input.files -> Nat] /\ lim[file] = rest - 1
       BY <1>1, <1>2, <1>7, LimitsFacts DEF At
<1>12. PICK new, next : new = Append(ls, x) /\ next = [lim EXCEPT ![file] = rest]
       OBVIOUS
<1>13. k \in All("library") /\ k[1] = file /\ k[2] = rest
       BY <1>2, <1>8, InAll
<1>14. Added(ls, new, n, x)
       BY <1>10, <1>12, <1>8, AppendAdds
<1>15. PICK g : Numbered(g, new, ms, ws, next) /\ n \in DOMAIN g /\ g[n] = k
  <2>1. NumberedWith(n, k, new, ms, ws, next)
        BY <1>1, <1>7, <1>9, <1>11, <1>12, <1>13, <1>14, NumberedNew
  <2> QED
      BY <2>1 DEF NumberedWith
<1>16. Current(g, cur'.library, file, rest + 1)
  <2>1. (rest + 1) - 1 = rest /\ rest \in 1 .. rest /\ rest + 1 .. rest = {}
        BY <1>2
  <2>2. cur'.library \in DOMAIN g /\ g[cur'.library] = <<file, rest>>
        BY <1>5, <1>7, <1>15, <1>8
  <2>3. \E j \in 1 .. rest : /\ input.files[file][j].key = "library" /\ g[cur'.library] = <<file, j>>
                             /\ \A m \in j + 1 .. rest : input.files[file][m].key # "library"
        BY <1>2, <2>1, <2>2
  <2> QED
      BY <2>1, <2>2, <2>3 DEF Current
<1>17. ModuleIs(cur.module, file, rest, modules, fws)'
  <2>1. PICK m, f, r, ns, xs : m = cur.module /\ f = file /\ r = rest /\ ns = modules /\ xs = fws
        OBVIOUS
  <2>2. ModuleIs(m, f, r + 1, ns, xs)
        BY <1>2, <1>6, <2>1, ModuleOther
  <2> QED
      BY <1>1, <1>5, <2>1, <2>2 DEF ModuleIs, Continue
<1>18. cur'.fw \in DOMAIN fws' /\ fws'[cur'.fw] = input.files[file][1].value
       BY <1>1, <1>5, <1>6
<1>19. new = libs' /\ ms = modules' /\ ws = fws' /\ next = [Limits EXCEPT ![file] = rest]
       BY <1>1, <1>4, <1>7, <1>12
<1> QED
    BY <1>1, <1>15, <1>16, <1>17, <1>18, <1>19, ReadOn

\* A library with what a key says of it.
Told(o, x, key) ==
  /\ x.name = o.name /\ x.module = o.module
  /\ x.stubname = IF key = "stubname" THEN Key.name ELSE o.stubname
  /\ x.privilege = IF key = "kernel" THEN Key.value ELSE o.privilege
  /\ x.version = IF key = "version" THEN Key.value ELSE o.version
  /\ x.nid = IF key = "nid" THEN Key.value ELSE o.nid
  /\ \A type \in EntryTypes :
       x[type] = IF key = type THEN Append(o[type], [name |-> Key.name, nid |-> <<file, rest>>]) ELSE o[type]

\* The keys that say something of a library.
LEMMA TellingKeys ==
  ASSUME GenInv, library_stubname \/ library_version \/ library_nid \/ library_privilege \/ entry_function \/ entry_variable
  PROVE  \E key \in LibraryKeys : \E x :
           /\ At(key) /\ Continue /\ fws' = fws /\ modules' = modules /\ cur' = cur
           /\ libs' = [libs EXCEPT ![cur.library] = x] /\ Told(libs[cur.library], x, key)
<1> DEFINE o == libs[cur.library]
<1>1. ASSUME NEW key \in LibraryKeys, At(key)
      PROVE  o = [module |-> o.module, name |-> o.name, stubname |-> o.stubname, privilege |-> o.privilege,
                  version |-> o.version, nid |-> o.nid, function |-> o.function, variable |-> o.variable]
  <2>1. o \in LibraryType
        BY <1>1, KeyFacts, LibraryFacts DEF GenInv
  <2> QED
      BY <2>1 DEF LibraryType
<1>2. ASSUME NEW key \in LibraryKeys, At(key), NEW field, NEW v, Set(field, v)
      PROVE  /\ Continue /\ fws' = fws /\ modules' = modules /\ cur' = cur
             /\ libs' = [libs EXCEPT ![cur.library] = [o EXCEPT ![field] = v]]
      BY <1>2 DEF Set
<1>3. CASE library_stubname
  <2>1. At("stubname") /\ Set("stubname", Key.name) /\ "stubname" \in LibraryKeys
        BY <1>3 DEF library_stubname, LibraryKeys
  <2>2. PICK x : x = [o EXCEPT !["stubname"] = Key.name]
        OBVIOUS
  <2>3. Told(o, x, "stubname")
        BY <1>1, <2>1, <2>2 DEF Told, EntryTypes
  <2> QED
      BY <1>2, <2>1, <2>2, <2>3
<1>4. CASE library_version
  <2>1. At("version") /\ Set("version", Key.value) /\ "version" \in LibraryKeys
        BY <1>4 DEF library_version, LibraryKeys
  <2>2. PICK x : x = [o EXCEPT !["version"] = Key.value]
        OBVIOUS
  <2>3. Told(o, x, "version")
        BY <1>1, <2>1, <2>2 DEF Told, EntryTypes
  <2> QED
      BY <1>2, <2>1, <2>2, <2>3
<1>5. CASE library_nid
  <2>1. At("nid") /\ Set("nid", Key.value) /\ "nid" \in LibraryKeys
        BY <1>5 DEF library_nid, LibraryKeys
  <2>2. PICK x : x = [o EXCEPT !["nid"] = Key.value]
        OBVIOUS
  <2>3. Told(o, x, "nid")
        BY <1>1, <2>1, <2>2 DEF Told, EntryTypes
  <2> QED
      BY <1>2, <2>1, <2>2, <2>3
<1>6. CASE library_privilege
  <2>1. At("kernel") /\ Set("privilege", Key.value) /\ "kernel" \in LibraryKeys
        BY <1>6 DEF library_privilege, LibraryKeys
  <2>2. PICK x : x = [o EXCEPT !["privilege"] = Key.value]
        OBVIOUS
  <2>3. Told(o, x, "kernel")
        BY <1>1, <2>1, <2>2 DEF Told, EntryTypes
  <2> QED
      BY <1>2, <2>1, <2>2, <2>3
<1>7. ASSUME NEW type \in EntryTypes, NewEntry(type)
      PROVE  \E x : /\ At(type) /\ type \in LibraryKeys /\ Continue /\ fws' = fws /\ modules' = modules /\ cur' = cur
                    /\ libs' = [libs EXCEPT ![cur.library] = x] /\ Told(o, x, type)
  <2>1. PICK v : v = Append(o[type], [name |-> Key.name, nid |-> <<file, rest>>])
        OBVIOUS
  <2>2. At(type) /\ Set(type, v) /\ type \in LibraryKeys
        BY <1>7, <2>1 DEF NewEntry, LibraryKeys
  <2>3. PICK x : x = [o EXCEPT ![type] = v]
        OBVIOUS
  <2>4. /\ x[type] = v /\ \A other \in EntryTypes : other # type => x[other] = o[other]
        BY <1>1, <2>2, <2>3 DEF EntryTypes
  <2>5. /\ x.name = o.name /\ x.module = o.module /\ x.stubname = o.stubname /\ x.privilege = o.privilege
        /\ x.version = o.version /\ x.nid = o.nid
        BY <1>1, <2>2, <2>3 DEF EntryTypes
  <2>6. type # "stubname" /\ type # "kernel" /\ type # "version" /\ type # "nid"
        BY DEF EntryTypes
  <2>7. \A other \in EntryTypes :
          x[other] = IF type = other THEN Append(o[other], [name |-> Key.name, nid |-> <<file, rest>>]) ELSE o[other]
        BY <2>1, <2>4
  <2>8. Told(o, x, type)
        BY <2>5, <2>6, <2>7 DEF Told
  <2> QED
      BY <1>2, <2>2, <2>3, <2>8
<1>8. CASE entry_function \/ entry_variable
  <2>1. PICK type \in EntryTypes : NewEntry(type)
        BY <1>8 DEF entry_function, entry_variable, EntryTypes
  <2> QED
      BY <1>7, <2>1
<1> QED
    BY <1>3, <1>4, <1>5, <1>6, <1>8

\* They say it of the library before them in their file.
LEMMA NumTold ==
  ASSUME GenInv, ErrorInv, NumInv, WellFormed,
         library_stubname \/ library_version \/ library_nid \/ library_privilege \/ entry_function \/ entry_variable
  PROVE  NumInv'
<1>1. PICK key, x :
        /\ key \in LibraryKeys
        /\ At(key) /\ Continue /\ fws' = fws /\ modules' = modules /\ cur' = cur
        /\ libs' = [libs EXCEPT ![cur.library] = x] /\ Told(libs[cur.library], x, key)
      BY TellingKeys
<1>2. key \notin {"firmware", "module", "library"}
      BY <1>1 DEF LibraryKeys, EntryTypes
<1>3. /\ file \in DOMAIN input.files /\ file # 0 /\ rest > 1 /\ rest \in Nat
      /\ input.files[file][rest] = Key /\ Key.key = key /\ cur.library \in DOMAIN libs
      BY <1>1, <1>2, ReadingFacts, KeyFacts
<1>4. /\ cur.fw \in DOMAIN fws /\ fws[cur.fw] = input.files[file][1].value
      /\ Behind("module") => ModuleIs(cur.module, file, rest, modules, fws)
      BY <1>1, <1>3 DEF NumInv, CurInv, At
<1>5. PICK from, ls, ms, ws, lim :
        /\ ls = libs /\ ms = modules /\ ws = fws /\ lim = Limits
        /\ Numbered(from, ls, ms, ws, lim)
        /\ Current(from, cur.library, file, rest)
      BY <1>1, <1>3 DEF NumInv, At
<1>6. lim \in [DOMAIN input.files -> Nat] /\ lim[file] = rest - 1
      BY <1>1, <1>3, <1>5, LimitsFacts DEF At
<1>7. PICK new, next : new = [ls EXCEPT ![cur.library] = x] /\ next = [lim EXCEPT ![file] = rest]
      OBVIOUS
<1>8. PICK l, S, T : l = from[cur.library] /\ S = UpTo(l, lim) /\ T = UpTo(l, lim) \cup {rest}
       OBVIOUS
<1>9. LibraryIs(x, l, T, ms, ws)
  <2>0. LibraryIs(ls[cur.library], l, S, ms, ws)
        BY <1>3, <1>5, <1>8 DEF Numbered
  <2>1. l \in All("library") /\ l[1] = file /\ rest \in KeysOf(l)
        BY <1>1, <1>5, <1>8, LibraryKey
  <2>2. \A k \in S : k \in Nat /\ k < rest
        BY <1>1, <1>6, <1>7, <1>8, <2>1, UpToSteps
  <2>3. FileOf(l)[rest] = Key /\ EntryAt(l, rest) = [name |-> Key.name, nid |-> <<file, rest>>]
        BY <1>3, <2>1 DEF FileOf, EntryAt
  <2>4. PICK o, r : o = ls[cur.library] /\ r = rest
        OBVIOUS
  <2>5. \A type \in EntryTypes : IsList(o[type])
        BY <1>3, <1>5, <2>4, EntryLists DEF IsList
  <2>6. Told(o, x, key)
        BY <1>1, <1>5, <2>4
  <2>7. r \in Nat /\ (\A k \in S : k \in Nat /\ k < r) /\ LibraryIs(o, l, S, ms, ws) /\ FileOf(l)[r].key = key
        BY <1>3, <2>0, <2>2, <2>3, <2>4
  <2>8. /\ x.name = o.name /\ x.module = o.module
        /\ x.stubname = IF key = "stubname" THEN FileOf(l)[r].name ELSE o.stubname
        /\ x.privilege = IF key = "kernel" THEN FileOf(l)[r].value ELSE o.privilege
        /\ x.version = IF key = "version" THEN FileOf(l)[r].value ELSE o.version
        /\ x.nid = IF key = "nid" THEN FileOf(l)[r].value ELSE o.nid
        /\ \A type \in EntryTypes : x[type] = IF key = type THEN Append(o[type], EntryAt(l, r)) ELSE o[type]
        BY <2>3, <2>4, <2>6 DEF Told
  <2>9. LibraryIs(x, l, S \cup {r}, ms, ws)
        BY <2>5, <2>7, <2>8, LibraryUp
  <2> QED
      BY <1>8, <2>4, <2>9
<1>10. Numbered(from, new, ms, ws, next)
      BY <1>1, <1>5, <1>6, <1>7, <1>9, <1>8, NumberedSet
<1>11. Current(from, cur'.library, file, rest + 1)
  <2>1. PICK c, f : c = cur.library /\ f = file
        OBVIOUS
  <2>2. Current(from, c, f, rest + 1)
        BY <1>2, <1>3, <1>5, <2>1, CurrentOther
  <2> QED
      BY <1>1, <2>1, <2>2
<1>12. Behind("module") => ModuleIs(cur.module, file, rest, modules, fws)'
  <2>1. PICK m, f, k, ns, xs : m = cur.module /\ f = file /\ k = rest /\ ns = modules /\ xs = fws
        OBVIOUS
  <2>2. Behind("module") => ModuleIs(m, f, k + 1, ns, xs)
        BY <1>2, <1>3, <1>4, <2>1, ModuleOther
  <2> QED
      BY <1>1, <2>1, <2>2 DEF ModuleIs, Continue
<1>13. cur'.fw \in DOMAIN fws' /\ fws'[cur'.fw] = input.files[file][1].value
       BY <1>1, <1>4
<1>14. new = libs' /\ ms = modules' /\ ws = fws' /\ next = [Limits EXCEPT ![file] = rest]
       BY <1>1, <1>5, <1>7
<1> QED
    BY <1>1, <1>2, <1>10, <1>11, <1>12, <1>13, <1>14, ReadOn

\* Every step.
LEMMA NumStep ==
  ASSUME GenInv, ErrorInv, NumInv, [Next]_vars
  PROVE  NumInv'
<1>1. input' = input
      BY DEF Next, vars, OpenFile, Open, ReadKey, database_firmware, module_name, library_name, library_stubname,
             library_version, library_nid, library_privilege, entry_function, entry_variable, NewEntry, Set, Continue,
             BadKey, ReadingEnds, NoDatabase, Generate, library_callback, AllGrouped, MakeStub, Exit, Terminated
<1>2. CASE WellFormed
  <2>1. ReadKey => NumInv'
        BY <1>2, NumFirmware, NumModule, NumLibrary, NumTold DEF ReadKey
  <2>2. OpenFile \/ BadKey \/ ReadingEnds \/ NoDatabase \/ Generate \/ Terminated \/ UNCHANGED vars => NumInv'
        BY <1>2, NumStay
  <2> QED
      BY <2>1, <2>2 DEF Next
<1>3. CASE ~ WellFormed
      BY <1>1, <1>3, WellFormedSame DEF NumInv
<1> QED
    BY <1>2, <1>3

----------------------------------------------------------------------------
(* A stub has the libraries of a firmware that ask for it.                  *)

Asks(k, firmware, name) == FirmwareOf(libs[k]) = firmware /\ BaseName(libs[k]) \o Suffix(firmware) = name

StubInv ==
  /\ \A s \in DOMAIN stubs :
       /\ DOMAIN stubs[s].libs # {}
       /\ \A i \in DOMAIN stubs[s].libs : Asks(stubs[s].libs[i], stubs[s].firmware, stubs[s].name)
  /\ \A s, t \in DOMAIN stubs : stubs[s].firmware = stubs[t].firmware /\ stubs[s].name = stubs[t].name => s = t
  /\ pc \in {"make", "success"} => Grouped = DOMAIN libs

LEMMA StubEmpty ==
  ASSUME stubs = <<>>, pc \notin {"make", "success"}
  PROVE  StubInv
<1>1. DOMAIN stubs = {}
      OBVIOUS
<1> QED
    BY <1>1 DEF StubInv

\* A library is put into a stub.
LEMMA StubGroups ==
  ASSUME GenInv, StubInv, library_callback
  PROVE  StubInv'
<1>1. pc = "group" /\ pc' = pc /\ libs' = libs /\ modules' = modules /\ fws' = fws /\ input' = input
      BY DEF library_callback
<1>2. PICK i, fw, name :
        /\ i \in DOMAIN libs
        /\ fw = FirmwareOf(libs[i]) /\ name = BaseName(libs[i]) \o Suffix(fw)
        /\ \/ /\ \A s \in DOMAIN stubs : ~ SameStub(stubs[s], fw, name)
              /\ stubs' = Append(stubs, [firmware |-> fw, name |-> name, libs |-> <<i>>])
           \/ \E s \in DOMAIN stubs :
                /\ SameStub(stubs[s], fw, name)
                /\ stubs' = [stubs EXCEPT ![s] = [firmware |-> fw, name |-> name, libs |-> Append(stubs[s].libs, i)]]
      BY GroupFacts
<1>3. Asks(i, fw, name)
      BY <1>2 DEF Asks
<1>4. \A k, f, n : Asks(k, f, n)' <=> Asks(k, f, n)
      BY <1>1 DEF Asks, FirmwareOf, BaseName
<1>5. PICK old, new : old = stubs /\ new = stubs'
      OBVIOUS
<1>6. /\ \A s \in DOMAIN old :
           DOMAIN old[s].libs # {} /\ \A j \in DOMAIN old[s].libs : Asks(old[s].libs[j], old[s].firmware, old[s].name)
      /\ \A s, t \in DOMAIN old : old[s].firmware = old[t].firmware /\ old[s].name = old[t].name => s = t
      BY <1>5 DEF StubInv
<1>7. SUFFICES /\ \A s \in DOMAIN new :
                    DOMAIN new[s].libs # {} /\ \A j \in DOMAIN new[s].libs : Asks(new[s].libs[j], new[s].firmware, new[s].name)
               /\ \A s, t \in DOMAIN new : new[s].firmware = new[t].firmware /\ new[s].name = new[t].name => s = t
  <2>1. ASSUME NEW s \in DOMAIN new, DOMAIN new[s].libs # {},
               \A j \in DOMAIN new[s].libs : Asks(new[s].libs[j], new[s].firmware, new[s].name)'
        PROVE  /\ DOMAIN stubs'[s].libs # {}
               /\ \A j \in DOMAIN stubs'[s].libs : (Asks(stubs[s].libs[j], stubs[s].firmware, stubs[s].name))'
        BY <1>5, <2>1 DEF Asks, FirmwareOf, BaseName
  <2> QED
      BY <1>1, <1>4, <1>5, <2>1 DEF StubInv
<1>8. CASE /\ \A s \in DOMAIN stubs : ~ SameStub(stubs[s], fw, name)
           /\ stubs' = Append(stubs, [firmware |-> fw, name |-> name, libs |-> <<i>>])
  <2>1. PICK e, n, one : one = <<i>> /\ e = [firmware |-> fw, name |-> name, libs |-> one] /\ n = Len(old) + 1
        OBVIOUS
  <2>2. new = Append(old, e)
        BY <1>5, <1>8, <2>1
  <2>3. IsList(old)
        BY <1>5 DEF GenInv, TypeOK, IsList
  <2>4. Added(old, new, n, e)
        BY <2>1, <2>2, <2>3, AppendAdds
  <2>5. DOMAIN new = DOMAIN old \cup {n} /\ n \notin DOMAIN old /\ new[n] = e /\ \A s \in DOMAIN old : new[s] = old[s]
        BY <2>4 DEF Added
  <2>6. e.firmware = fw /\ e.name = name /\ e.libs = one /\ one[1] = i /\ DOMAIN one = {1}
        BY <2>1
  <2>7. \A s \in DOMAIN old : ~ (old[s].firmware = fw /\ old[s].name = name)
        BY <1>5, <1>8 DEF SameStub
  <2> QED
      BY <1>3, <1>6, <2>5, <2>6, <2>7
<1>9. CASE \E s \in DOMAIN stubs :
             /\ SameStub(stubs[s], fw, name)
             /\ stubs' = [stubs EXCEPT ![s] = [firmware |-> fw, name |-> name, libs |-> Append(stubs[s].libs, i)]]
  <2>1. PICK s \in DOMAIN stubs :
             /\ SameStub(stubs[s], fw, name)
             /\ stubs' = [stubs EXCEPT ![s] = [firmware |-> fw, name |-> name, libs |-> Append(stubs[s].libs, i)]]
        BY <1>9
  <2>2. PICK l, m, n, e : /\ l = stubs[s].libs /\ m = Append(l, i) /\ n = Len(l) + 1
                          /\ e = [firmware |-> fw, name |-> name, libs |-> m]
        OBVIOUS
  <2>3. IsList(l)
        BY <2>2, StubFacts DEF IsList
  <2>4. Added(l, m, n, i)
        BY <2>2, <2>3, AppendAdds
  <2>5. DOMAIN m = DOMAIN l \cup {n} /\ m[n] = i /\ \A j \in DOMAIN l : m[j] = l[j]
        BY <2>4 DEF Added
  <2>6. /\ DOMAIN new = DOMAIN old /\ s \in DOMAIN old /\ new[s] = e /\ \A t \in DOMAIN old : t # s => new[t] = old[t]
        /\ old[s].libs = l /\ old[s].firmware = fw /\ old[s].name = name
        BY <1>5, <2>1, <2>2 DEF SameStub
  <2>7. e.firmware = fw /\ e.name = name /\ e.libs = m
        BY <2>2
  <2>8. \A j \in DOMAIN m : Asks(m[j], fw, name)
        BY <1>3, <1>6, <2>5, <2>6
  <2> QED
      BY <1>6, <2>5, <2>6, <2>7, <2>8
<1> QED
    BY <1>2, <1>8, <1>9

\* The others leave the stubs and the libraries alone.
LEMMA StubStay ==
  ASSUME StubInv, stubs' = stubs, libs' = libs, modules' = modules, fws' = fws, input' = input,
         pc' \in {"make", "success"} => Grouped = DOMAIN libs
  PROVE  StubInv'
<1>1. \A k, f, n : Asks(k, f, n)' <=> Asks(k, f, n)
      BY DEF Asks, FirmwareOf, BaseName
<1>2. Grouped' = Grouped
      BY DEF Grouped
<1>3. \A s \in DOMAIN stubs : \A i \in DOMAIN stubs[s].libs :
        Asks(stubs[s].libs[i], stubs[s].firmware, stubs[s].name)'
      BY DEF StubInv, Asks, FirmwareOf, BaseName
<1> QED
    BY <1>2, <1>3 DEF StubInv

LEMMA StubStep ==
  ASSUME GenInv, StubInv, [Next]_vars
  PROVE  StubInv'
<1>1. CASE OpenFile \/ ReadKey \/ BadKey \/ ReadingEnds \/ NoDatabase
  <2>1. pc = "read" /\ pc' \in {"read", "group", "failure"} /\ stubs' = stubs
    <3>1. ReadKey => pc = "read" /\ pc' = pc /\ stubs' = stubs
          BY DEF ReadKey, database_firmware, module_name, library_name, library_stubname, library_version, library_nid,
                 library_privilege, entry_function, entry_variable, NewEntry, Set, At, Continue, output
    <3> QED
        BY <1>1, <3>1 DEF OpenFile, Open, BadKey, At, ReadingEnds, NoDatabase, output
  <2>2. stubs' = <<>> /\ pc' \notin {"make", "success"}
        BY <2>1 DEF GenInv
  <2>3. DOMAIN stubs' = {}
        BY <2>2
  <2> QED
      BY <2>2, <2>3 DEF StubInv
<1>2. CASE library_callback
      BY <1>2, StubGroups
<1>3. CASE AllGrouped \/ MakeStub \/ Exit \/ Terminated \/ UNCHANGED vars
  <2>1. /\ stubs' = stubs /\ libs' = libs /\ modules' = modules /\ fws' = fws /\ input' = input
        /\ pc' \in {"make", "success"} => Grouped = DOMAIN libs \/ pc \in {"make", "success"}
        BY <1>3 DEF AllGrouped, MakeStub, Exit, Terminated, vars, output
  <2>2. pc' \in {"make", "success"} => Grouped = DOMAIN libs
        BY <2>1 DEF StubInv
  <2> QED
      BY <2>1, <2>2, StubStay
<1> QED
    BY <1>1, <1>2, <1>3 DEF Next, Generate

----------------------------------------------------------------------------
(* What the files say, and what the lists hold.                             *)

\* The last key before another is the one with none between.
LEMMA LastUnique ==
  ASSUME NEW e, e[2] \in Nat, NEW key, NEW j \in 1 .. e[2] - 1, FileOf(e)[j].key = key,
         \A m \in j + 1 .. e[2] - 1 : FileOf(e)[m].key # key
  PROVE  LastBefore(e, key) = j
<1> DEFINE Is(i) == FileOf(e)[i].key = key /\ \A m \in i + 1 .. e[2] - 1 : FileOf(e)[m].key # key
<1>1. LastBefore(e, key) = CHOOSE i \in 1 .. e[2] - 1 : Is(i)
      BY DEF LastBefore
<1>2. Is(j)
      OBVIOUS
<1>3. ASSUME NEW i \in 1 .. e[2] - 1, Is(i) PROVE i = j
  <2>1. ~ (i < j)
    <3>1. i < j => j \in i + 1 .. e[2] - 1
          OBVIOUS
    <3> QED
        BY <1>3, <3>1
  <2>2. ~ (j < i)
    <3>1. j < i => i \in j + 1 .. e[2] - 1
          OBVIOUS
    <3> QED
        BY <1>3, <3>1
  <2> QED
      BY <1>3, <2>1, <2>2
<1> HIDE DEF Is
<1> QED
    BY <1>1, <1>2, <1>3

\* The library of a key of it.
LEMMA KeyLibrary ==
  ASSUME InputOK(input), NEW l \in All("library"), NEW d, d[1] = l[1], d[2] \in KeysOf(l)
  PROVE  LibraryKeyOf(d) = l
<1>1. /\ l = <<l[1], l[2]>> /\ l[2] \in Nat /\ l[2] >= 1 /\ FileOf(l)[l[2]].key = "library" /\ FileOf(l) = input.files[l[1]]
      BY AllFacts
<1>2. FileOf(d) = input.files[l[1]] /\ d[2] \in Nat /\ d[2] > l[2]
      /\ \A m \in l[2] + 1 .. d[2] : input.files[l[1]][m].key \in LibraryKeys
      BY KeysOfFacts DEF FileOf
<1>3. "library" \notin LibraryKeys
      BY DEF LibraryKeys, EntryTypes
<1>4. l[2] \in 1 .. d[2] - 1 /\ \A m \in l[2] + 1 .. d[2] - 1 : m \in l[2] + 1 .. d[2]
      BY <1>1, <1>2
<1>5. \A m \in l[2] + 1 .. d[2] - 1 : FileOf(d)[m].key # "library"
      BY <1>2, <1>3, <1>4
<1>6. FileOf(d)[l[2]].key = "library"
      BY <1>1, <1>2
<1>7. PICK j : j = l[2]
      OBVIOUS
<1>8. LastBefore(d, "library") = j
      BY <1>2, <1>4, <1>5, <1>6, <1>7, LastUnique
<1> QED
    BY <1>1, <1>7, <1>8 DEF LibraryKeyOf

\* Every entry is of a library.
LEMMA HasLibrary ==
  ASSUME GenInv, WellFormed, NEW e \in Entries
  PROVE  /\ e = <<e[1], e[2]>> /\ KeyOf(e).key \in EntryTypes
         /\ LibraryKeyOf(e) \in All("library") /\ LibraryKeyOf(e)[1] = e[1] /\ e[2] \in KeysOf(LibraryKeyOf(e))
<1>1. InputOK(input)
      BY DEF GenInv
<1>2. PICK key \in EntryTypes : e \in All(key)
      BY DEF Entries, EntryTypes
<1>3. /\ e = <<e[1], e[2]>> /\ e[1] \in DOMAIN input.files /\ e[2] \in DOMAIN input.files[e[1]]
      /\ e[2] \in Nat /\ e[2] >= 1 /\ input.files[e[1]][e[2]].key = key /\ FileOf(e) = input.files[e[1]]
      BY <1>1, <1>2, AllFacts
<1>4. PICK f, k : f = e[1] /\ k = e[2]
      OBVIOUS
<1>5. key \in LibraryKeys
      BY DEF LibraryKeys
<1>6. PICK j \in 1 .. k - 1 :
        /\ input.files[f][j].key = "library"
        /\ \A m \in j + 1 .. k - 1 : input.files[f][m].key \in LibraryKeys \cup {"error"}
      BY <1>1, <1>3, <1>4, <1>5 DEF InputOK
<1>7. /\ k \in Nat /\ f \in DOMAIN input.files /\ k \in DOMAIN input.files[f]
      /\ Len(input.files[f]) \in Nat /\ DOMAIN input.files[f] = 1 .. Len(input.files[f])
      BY <1>1, <1>3, <1>4, InputFacts
<1>8. j \in DOMAIN input.files[f] /\ \A m \in j + 1 .. k - 1 : m \in DOMAIN input.files[f]
      BY <1>7
<1>9. \A m \in j + 1 .. k - 1 : input.files[f][m].key \in LibraryKeys
      BY <1>6, <1>7, <1>8, WellFormedFacts
<1>10. PICK l : l = <<f, j>>
       OBVIOUS
<1>11. l \in All("library") /\ l[1] = f /\ l[2] = j
       BY <1>6, <1>7, <1>8, <1>10, InAll
<1>12. k \in KeysOf(l)
  <2>1. \A m \in j + 1 .. k : m \in j + 1 .. k - 1 \/ m = k
        BY <1>7
  <2>2. \A m \in j + 1 .. k : input.files[f][m].key \in LibraryKeys
        BY <1>3, <1>4, <1>5, <1>9, <2>1
  <2>3. k > j
        BY <1>7
  <2> QED
      BY <1>1, <1>7, <1>11, <2>2, <2>3, KeysOfFacts
<1>13. LibraryKeyOf(e) = l
       BY <1>1, <1>4, <1>11, <1>12, KeyLibrary
<1>14. KeyOf(e).key = key
       BY <1>3 DEF KeyOf
<1> QED
    BY <1>3, <1>4, <1>11, <1>12, <1>13, <1>14

\* The last value of a library.
LEMMA ValueHolds ==
  ASSUME InputOK(input), NEW l \in All("library"), NEW key, NEW field, NEW default, NEW v,
         ValueIs(l, KeysOf(l), key, field, default, v)
  PROVE  v = ValueOf(l, key, field, default)
<1> DEFINE at == {i \in KeysOf(l) : FileOf(l)[i].key = key}
           last == CHOOSE i \in at : \A j \in at : j <= i
<1>1. ValueOf(l, key, field, default) = IF at = {} THEN default ELSE FileOf(l)[last][field]
      BY DEF ValueOf
<1>2. at \subseteq Nat
      BY KeysOfFacts
<1>3. \/ v = default /\ at = {}
      \/ \E k \in at : v = FileOf(l)[k][field] /\ \A j \in at : j <= k
      BY DEF ValueIs
<1> HIDE DEF at
<1>4. ASSUME NEW k \in at, \A j \in at : j <= k PROVE last = k
  <2>1. last \in at /\ \A j \in at : j <= last
        BY <1>4
  <2>2. last <= k /\ k <= last /\ last \in Nat /\ k \in Nat
        BY <1>2, <1>4, <2>1
  <2> HIDE DEF last
  <2> QED
      BY <2>2
<1> HIDE DEF last
<1> QED
    BY <1>1, <1>3, <1>4

\* The i-th library is what the files say of the library at the key l.
Means(i, l) ==
  /\ libs[i].name = KeyOf(l).name
  /\ FirmwareOf(libs[i]) = FileFirmware(l)
  /\ BaseName(libs[i]) \o Suffix(FirmwareOf(libs[i])) = ArchiveOf(l)
  /\ libs[i].privilege = ValueOf(l, "kernel", "value", NONE)
  /\ libs[i].version = ValueOf(l, "version", "value", 0)
  /\ libs[i].nid = ValueOf(l, "nid", "value", 0)
  /\ \A type \in EntryTypes : EntriesAre(libs[i][type], l, KeysOf(l), type)

\* So is a library that is numbered.
LEMMA LibraryMeans ==
  ASSUME GenInv, NEW l \in All("library"), NEW i \in DOMAIN libs, NEW ms, NEW ws, ms = modules, ws = fws,
         LibraryIs(libs[i], l, KeysOf(l), ms, ws)
  PROVE  Means(i, l)
<1>1. InputOK(input)
      BY DEF GenInv
<1>2. PICK x : x = libs[i]
      OBVIOUS
<1>3. /\ x.name = KeyOf(l).name /\ ModuleIs(x.module, l[1], l[2], ms, ws)
      /\ ValueIs(l, KeysOf(l), "stubname", "name", NoName, x.stubname)
      /\ ValueIs(l, KeysOf(l), "kernel", "value", NONE, x.privilege)
      /\ ValueIs(l, KeysOf(l), "version", "value", 0, x.version)
      /\ ValueIs(l, KeysOf(l), "nid", "value", 0, x.nid)
      /\ \A type \in EntryTypes : EntriesAre(x[type], l, KeysOf(l), type)
      BY <1>2 DEF LibraryIs
<1>4. x.stubname = ValueOf(l, "stubname", "name", NoName)
      BY <1>1, <1>3, ValueHolds
<1>5. x.privilege = ValueOf(l, "kernel", "value", NONE)
      BY <1>1, <1>3, ValueHolds
<1>6. x.version = ValueOf(l, "version", "value", 0)
      BY <1>1, <1>3, ValueHolds
<1>7. x.nid = ValueOf(l, "nid", "value", 0)
      BY <1>1, <1>3, ValueHolds
<1>8. l[2] \in Nat /\ FileOf(l) = input.files[l[1]]
      BY <1>1, AllFacts
<1>9. PICK m : m = x.module
      OBVIOUS
<1>10. ws[ms[m].fw] = FileFirmware(l)
       BY <1>3, <1>8, <1>9 DEF ModuleIs, FileFirmware
<1>11. PICK j \in 1 .. l[2] - 1 :
         /\ FileOf(l)[j].key = "module" /\ ms[m].name = FileOf(l)[j].name
         /\ \A k \in j + 1 .. l[2] - 1 : FileOf(l)[k].key # "module"
       BY <1>3, <1>8, <1>9 DEF ModuleIs
<1>12. LastBefore(l, "module") = j
       BY <1>8, <1>11, LastUnique
<1>13. ms[m].name = FileOf(l)[LastBefore(l, "module")].name
       BY <1>11, <1>12
<1>14. FirmwareOf(x) = FileFirmware(l)
       BY <1>9, <1>10 DEF FirmwareOf
<1>15. BaseName(x) \o Suffix(FileFirmware(l)) = ArchiveOf(l)
       BY <1>3, <1>4, <1>5, <1>9, <1>13 DEF BaseName, ArchiveOf
<1> QED
    BY <1>2, <1>3, <1>5, <1>6, <1>7, <1>14, <1>15 DEF Means

\* All files were read: the libraries are those of the files.
LEMMA AllMeant ==
  ASSUME GenInv, NumInv, WellFormed, pc = "success", todo = {}
  PROVE  /\ \A i \in DOMAIN libs : \E l \in All("library") : Means(i, l)
         /\ \A l \in All("library") : \E i \in DOMAIN libs : Means(i, l)
<1>1. InputOK(input)
      BY DEF GenInv
<1>2. PICK from, ls, ms, ws, lim :
        /\ ls = libs /\ ms = modules /\ ws = fws /\ lim = Limits
        /\ Numbered(from, ls, ms, ws, lim)
      BY DEF NumInv
<1>3. \A f \in DOMAIN input.files : lim[f] = Len(input.files[f])
      BY <1>2 DEF Limits
<1>4. ASSUME NEW l \in All("library")
      PROVE  UpTo(l, lim) = KeysOf(l) /\ l[2] <= lim[l[1]]
  <2>1. l[1] \in DOMAIN input.files /\ l[2] <= Len(input.files[l[1]])
        BY <1>1, AllFacts
  <2>2. \A k \in KeysOf(l) : k <= Len(input.files[l[1]])
        BY <1>1, KeysOfFacts
  <2> QED
      BY <1>3, <2>1, <2>2 DEF UpTo
<1>5. ASSUME NEW i \in DOMAIN libs PROVE from[i] \in All("library") /\ Means(i, from[i])
  <2>1. PICK l : l = from[i]
        OBVIOUS
  <2>2. l \in All("library") /\ LibraryIs(ls[i], l, UpTo(l, lim), ms, ws)
        BY <1>2, <1>5, <2>1 DEF Numbered
  <2>3. LibraryIs(libs[i], l, KeysOf(l), ms, ws)
        BY <1>2, <1>4, <2>2
  <2>4. Means(i, l)
        BY <1>2, <1>5, <2>2, <2>3, LibraryMeans
  <2> QED
      BY <2>1, <2>2, <2>4
<1>6. ASSUME NEW l \in All("library") PROVE \E i \in DOMAIN libs : Means(i, l)
  <2>1. PICK i \in DOMAIN libs : from[i] = l
        BY <1>2, <1>4 DEF Numbered
  <2> QED
      BY <1>5, <2>1
<1> QED
    BY <1>5, <1>6

----------------------------------------------------------------------------
(* Every entry is built.                                                    *)

\* The libraries of a stub are those of keys that ask for its archive.
LEMMA StubMeans ==
  ASSUME GenInv, NumInv, StubInv, WellFormed, pc = "success", todo = {}, NEW s \in DOMAIN stubs, NEW p \in DOMAIN stubs[s].libs
  PROVE  \E l \in All("library") :
           /\ Means(stubs[s].libs[p], l) /\ stubs[s].firmware = FileFirmware(l) /\ stubs[s].name = ArchiveOf(l)
<1>1. PICK i : i = stubs[s].libs[p] /\ i \in DOMAIN libs
      BY StubFacts
<1>2. Asks(i, stubs[s].firmware, stubs[s].name)
      BY <1>1 DEF StubInv
<1>3. PICK l \in All("library") : Means(i, l)
      BY <1>1, AllMeant
<1>4. PICK fw, name : fw = stubs[s].firmware /\ name = stubs[s].name
      OBVIOUS
<1>5. FirmwareOf(libs[i]) = fw /\ BaseName(libs[i]) \o Suffix(fw) = name
      BY <1>2, <1>4 DEF Asks
<1>6. FirmwareOf(libs[i]) = FileFirmware(l) /\ BaseName(libs[i]) \o Suffix(FirmwareOf(libs[i])) = ArchiveOf(l)
      BY <1>3 DEF Means
<1>7. fw = FileFirmware(l) /\ name = ArchiveOf(l)
      BY <1>5, <1>6
<1> QED
    BY <1>1, <1>3, <1>4, <1>7

\* What an assembly file holds is an entry of the files that asks for it.
Assembled(n, d) ==
  LET l == LibraryKeyOf(d)
  IN /\ ObjectOf(d) = n
     /\ asm[n] = [type |-> KeyOf(d).key, library |-> KeyOf(l).name, version |-> ValueOf(l, "version", "value", 0),
                  library_nid |-> ValueOf(l, "nid", "value", 0), kernel |-> ValueOf(l, "kernel", "value", NONE) = KERNEL,
                  nid |-> d]

\* Every assembly file has such an entry.
LEMMA AsmMeans ==
  ASSUME GenInv, MadeInv, NumInv, StubInv, WellFormed, pc = "success", todo = {}, NEW n \in DOMAIN asm
  PROVE  \E d \in Entries : Assembled(n, d)
<1>1. PICK s \in DOMAIN stubs : \E m \in DOMAIN StubFiles(stubs[s]) :
        StubFiles(stubs[s])[m][1] = n /\ StubFiles(stubs[s])[m][2] = asm[n]
      BY DEF MadeInv
<1>2. PICK m \in DOMAIN StubFiles(stubs[s]) : StubFiles(stubs[s])[m][1] = n /\ StubFiles(stubs[s])[m][2] = asm[n]
      BY <1>1
<1>3. PICK p \in DOMAIN stubs[s].libs : \E k \in DOMAIN FilesOf(stubs[s], libs[stubs[s].libs[p]]) :
        StubFiles(stubs[s])[m] = FilesOf(stubs[s], libs[stubs[s].libs[p]])[k]
      BY StubFilesFacts
<1>4. PICK i : i = stubs[s].libs[p] /\ i \in DOMAIN libs
      BY StubFacts
<1>5. PICK k \in DOMAIN FilesOf(stubs[s], libs[i]) : StubFiles(stubs[s])[m] = FilesOf(stubs[s], libs[i])[k]
      BY <1>3, <1>4
<1>6. PICK type \in EntryTypes : \E q \in DOMAIN libs[i][type] :
        FilesOf(stubs[s], libs[i])[k] = <<FileName(stubs[s], libs[i], libs[i][type][q]), Asm(libs[i], type, libs[i][type][q])>>
      BY <1>4, FilesOfFacts DEF FilesAre
<1>7. PICK q \in DOMAIN libs[i][type] :
        FilesOf(stubs[s], libs[i])[k] = <<FileName(stubs[s], libs[i], libs[i][type][q]), Asm(libs[i], type, libs[i][type][q])>>
      BY <1>6
<1>8. PICK entry, x, name : entry = libs[i][type][q] /\ x = libs[i] /\ name = stubs[s].name
      OBVIOUS
<1>9. n = name \o x.name \o entry.name /\ asm[n] = Asm(x, type, entry)
  <2>1. PICK pair, a, b : /\ pair = StubFiles(stubs[s])[m] /\ a = FileName(stubs[s], libs[i], libs[i][type][q])
                          /\ b = Asm(libs[i], type, libs[i][type][q])
        OBVIOUS
  <2>2. pair = <<a, b>> /\ pair[1] = n /\ pair[2] = asm[n]
        BY <1>2, <1>5, <1>7, <2>1
  <2>3. a = n /\ b = asm[n]
        BY <2>2
  <2> QED
      BY <1>8, <2>1, <2>3 DEF FileName
<1>10. PICK l \in All("library") : Means(i, l) /\ name = ArchiveOf(l)
       BY <1>4, <1>8, StubMeans
<1>11. InputOK(input)
       BY DEF GenInv
<1>12. PICK j \in KeysOf(l) : FileOf(l)[j].key = type /\ entry = EntryAt(l, j)
  <2>1. EntriesAre(libs[i][type], l, KeysOf(l), type)
        BY <1>10 DEF Means
  <2> QED
      BY <1>7, <1>8, <2>1 DEF EntriesAre
<1>13. PICK d : d = <<l[1], j>>
       OBVIOUS
<1>14. d[1] = l[1] /\ d[2] = j /\ entry.nid = d /\ entry.name = FileOf(l)[j].name /\ FileOf(d) = FileOf(l)
       BY <1>12, <1>13 DEF EntryAt, FileOf
<1>15. LibraryKeyOf(d) = l
       BY <1>11, <1>14, KeyLibrary
<1>16. KeyOf(d).key = type /\ KeyOf(d).name = entry.name
       BY <1>12, <1>14 DEF KeyOf
<1>17. d \in Entries
  <2>1. l[1] \in DOMAIN input.files /\ FileOf(l) = input.files[l[1]]
        BY <1>11, AllFacts
  <2>2. j \in DOMAIN input.files[l[1]]
        BY <1>11, KeysOfFacts
  <2>3. d \in All(type)
        BY <1>12, <1>13, <2>1, <2>2, InAll
  <2> QED
      BY <2>3 DEF Entries, EntryTypes
<1>18. x.name = KeyOf(l).name
       BY <1>8, <1>10 DEF Means
<1>19. ObjectOf(d) = n
       BY <1>9, <1>10, <1>15, <1>16, <1>18 DEF ObjectOf
<1>20. /\ x.version = ValueOf(l, "version", "value", 0) /\ x.nid = ValueOf(l, "nid", "value", 0)
       /\ x.privilege = ValueOf(l, "kernel", "value", NONE)
       BY <1>8, <1>10 DEF Means
<1>21. asm[n] = [type |-> KeyOf(d).key, library |-> KeyOf(l).name, version |-> ValueOf(l, "version", "value", 0),
                 library_nid |-> ValueOf(l, "nid", "value", 0), kernel |-> ValueOf(l, "kernel", "value", NONE) = KERNEL,
                 nid |-> d]
       BY <1>9, <1>14, <1>16, <1>18, <1>20 DEF Asm
<1>22. Assembled(n, d)
       BY <1>15, <1>19, <1>21 DEF Assembled
<1> QED
    BY <1>17, <1>22

\* The archive that an entry asks for, unless names clash.
LEMMA ArchiveMade ==
  ASSUME GenInv, MadeInv, NumInv, StubInv, WellFormed, pc = "success", todo = {}, NEW e \in Entries, ~ Clashes(e),
         NEW l, l = LibraryKeyOf(e)
  PROVE  ArchiveOf(l) \in DOMAIN objs /\ ObjectOf(e) \in objs[ArchiveOf(l)] /\ ObjectOf(e) \in DOMAIN asm
<1>1. InputOK(input)
      BY DEF GenInv
<1>2. e = <<e[1], e[2]>> /\ KeyOf(e).key \in EntryTypes /\ l \in All("library") /\ l[1] = e[1] /\ e[2] \in KeysOf(l)
      BY HasLibrary
<1>3. FileOf(l) = FileOf(e) /\ FileFirmware(l) = FileFirmware(e)
      BY <1>2 DEF FileOf, FileFirmware
<1>4. PICK i \in DOMAIN libs : Means(i, l)
      BY <1>2, AllMeant
<1>5. PICK s, p : s \in DOMAIN stubs /\ p \in DOMAIN stubs[s].libs /\ stubs[s].libs[p] = i
  <2>1. i \in Grouped
        BY <1>4 DEF StubInv
  <2> QED
      BY <2>1 DEF Grouped
<1>6. PICK archive : archive = ArchiveOf(l)
      OBVIOUS
<1>7. stubs[s].name = archive /\ stubs[s].firmware = FileFirmware(l)
  <2>1. Asks(i, stubs[s].firmware, stubs[s].name)
        BY <1>5 DEF StubInv
  <2>2. PICK fw, name : fw = stubs[s].firmware /\ name = stubs[s].name
        OBVIOUS
  <2>3. FirmwareOf(libs[i]) = fw /\ BaseName(libs[i]) \o Suffix(fw) = name
        BY <2>1, <2>2 DEF Asks
  <2>4. FirmwareOf(libs[i]) = FileFirmware(l) /\ BaseName(libs[i]) \o Suffix(FirmwareOf(libs[i])) = ArchiveOf(l)
        BY <1>4 DEF Means
  <2> QED
      BY <1>6, <2>2, <2>3, <2>4
<1>8. ~ Emptied(archive) /\ \A k \in All("library") : ArchiveOf(k) = archive => FileFirmware(k) = FileFirmware(l)
      BY <1>3, <1>6 DEF Clashes
<1>9. ASSUME NEW t \in DOMAIN stubs, t # s PROVE stubs[t].name # stubs[s].name
  <2>1. SUFFICES ASSUME stubs[t].name = stubs[s].name PROVE FALSE
        OBVIOUS
  <2>2. PICK q : q \in DOMAIN stubs[t].libs
        BY DEF StubInv
  <2>3. PICK k \in All("library") : stubs[t].firmware = FileFirmware(k) /\ stubs[t].name = ArchiveOf(k)
        BY <2>2, StubMeans
  <2>4. stubs[t].firmware = stubs[s].firmware
        BY <1>7, <1>8, <2>1, <2>3
  <2> QED
      BY <1>5, <1>9, <2>1, <2>4 DEF StubInv
<1>10. PICK type, q : type \in EntryTypes /\ q \in DOMAIN libs[i][type] /\ libs[i][type][q] = EntryAt(l, e[2])
  <2>1. PICK type \in EntryTypes : KeyOf(e).key = type
        BY <1>2
  <2>2. FileOf(l)[e[2]].key = type
        BY <1>3, <2>1 DEF KeyOf
  <2>3. EntriesAre(libs[i][type], l, KeysOf(l), type)
        BY <1>4 DEF Means
  <2>4. PICK q \in DOMAIN libs[i][type] : libs[i][type][q] = EntryAt(l, e[2])
        BY <1>2, <2>2, <2>3 DEF EntriesAre
  <2> QED
      BY <2>1, <2>4
<1>11. PICK n : n = FileName(stubs[s], libs[stubs[s].libs[p]], libs[stubs[s].libs[p]][type][q])
       OBVIOUS
<1>12. n \in objs[stubs[s].name] \cap DOMAIN asm
  <2>1. ReadIsBuilt
        BY MadeHolds
  <2>2. q \in DOMAIN libs[stubs[s].libs[p]][type]
        BY <1>5, <1>10
  <2>3. ~ Emptied(stubs[s].name)
        BY <1>7, <1>8
  <2> QED
      BY <1>5, <1>9, <1>10, <1>11, <2>1, <2>2, <2>3 DEF ReadIsBuilt
<1>13. n = ObjectOf(e)
  <2>1. PICK entry, x : entry = libs[i][type][q] /\ x = libs[i]
        OBVIOUS
  <2>2. n = archive \o x.name \o entry.name
        BY <1>5, <1>7, <1>11, <2>1 DEF FileName
  <2>3. x.name = KeyOf(l).name
        BY <1>4, <2>1 DEF Means
  <2>4. entry.name = KeyOf(e).name
    <3>1. entry.name = FileOf(l)[e[2]].name
          BY <1>10, <2>1 DEF EntryAt
    <3> QED
        BY <1>3, <3>1 DEF KeyOf
  <2> QED
      BY <1>6, <2>2, <2>3, <2>4 DEF ObjectOf
<1>14. stubs[s].name \in DOMAIN objs
  <2>1. rest > Len(stubs) /\ rest \in Nat
        BY DEF MadeInv, GenInv
  <2>2. s < rest
        BY <1>5, <2>1, StubFacts
  <2> QED
      BY <1>5, <1>7, <1>8, <2>2 DEF MadeInv
<1> QED
    BY <1>6, <1>7, <1>12, <1>13, <1>14

\* It has its object, which no other entry has overwritten.
LEMMA AllBuilt ==
  ASSUME GenInv, MadeInv, NumInv, StubInv
  PROVE  EveryEntryBuilt
<1> SUFFICES ASSUME pc = "success", WellFormed, todo = {}, NEW e \in Entries, ~ Clashes(e)
             PROVE  Built(e)
    BY DEF EveryEntryBuilt
<1>1. PICK l, n : l = LibraryKeyOf(e) /\ n = ObjectOf(e)
      OBVIOUS
<1>2. ArchiveOf(l) \in DOMAIN objs /\ n \in objs[ArchiveOf(l)] /\ n \in DOMAIN asm
      BY <1>1, ArchiveMade
<1>3. PICK d \in Entries : Assembled(n, d)
      BY <1>2, AsmMeans
<1>4. d = e
      BY <1>1, <1>3 DEF Assembled, Clashes
<1>5. asm[n] = [type |-> KeyOf(e).key, library |-> KeyOf(l).name, version |-> ValueOf(l, "version", "value", 0),
                library_nid |-> ValueOf(l, "nid", "value", 0), kernel |-> ValueOf(l, "kernel", "value", NONE) = KERNEL,
                nid |-> e]
      BY <1>1, <1>3, <1>4 DEF Assembled
<1> QED
    BY <1>1, <1>2, <1>5 DEF Built

AllInv == BuildInv /\ NumInv /\ StubInv

\* The files of a database give the same archives in whatever order they are read:
\* once all are read, each entry is in the archive its file asks for, with the version,
\* the NID and the privilege of its library, unless names clash.
THEOREM EveryEntryBuiltAlways == MainSpec => []EveryEntryBuilt
<1>1. ASSUME MainInit PROVE AllInv
  <2>1. BuildInv /\ Init
        BY <1>1, BuildInit DEF MainInit
  <2>2. NumInv
        BY <2>1, NumInit DEF BuildInv, GenInv
  <2>3. StubInv
        BY <2>1, StubEmpty DEF Init
  <2> QED
      BY <2>1, <2>2, <2>3 DEF AllInv
<1>2. ASSUME AllInv, [MainNext]_<<vars, list>> PROVE AllInv'
  <2>1. ReadInv /\ GenInv /\ ErrorInv /\ NumInv /\ StubInv
        BY <1>2 DEF AllInv, BuildInv
  <2>2. [Next]_vars
        BY <1>2, <2>1, Implements
  <2>3. BuildInv'
        BY <1>2, BuildStep DEF AllInv
  <2>4. NumInv'
        BY <2>1, <2>2, NumStep
  <2>5. StubInv'
        BY <2>1, <2>2, StubStep
  <2> QED
      BY <2>3, <2>4, <2>5 DEF AllInv
<1>3. AllInv => EveryEntryBuilt
      BY AllBuilt DEF AllInv, BuildInv
<1> QED
    BY <1>1, <1>2, <1>3, PTL DEF MainSpec

============================================================================
