--------------------------- MODULE NidCheck_proofs ---------------------------
(***************************************************************************)
(* For every set of directories and every order of their files: what       *)
(* vita-nid-check has added to its database so far keeps the rules, and it *)
(* refuses no directory that keeps them.                                   *)
(***************************************************************************)
EXTENDS NidCheck, ProofLemmas

(* The inductive invariant.                                                 *)

\* Nothing is in the database before the bypass list is complete.
BypassFirst == pc = "bypass" => bypass = {} /\ Libraries = {}

\* No name is both a function and a variable of one library.
TypesDisjoint ==
  \A l \in Libraries : \A t, u \in EntryTypes :
    t # u => Names(vec[l][t]) \cap Names(vec[l][u]) = {}

IInv == TypeOK /\ BypassFirst /\ EntriesSorted /\ TypesDisjoint /\ NoDuplicatedName

----------------------------------------------------------------------------
(* Vectors of names.                                                        *)

LEMMA NamesAppend ==
  ASSUME NEW s \in Seq(Nat), NEW x \in Nat
  PROVE  Names(Append(s, x)) = Names(s) \cup {x}
<1>1. /\ Len(Append(s, x)) = Len(s) + 1
      /\ \A i \in 1 .. Len(s) : Append(s, x)[i] = s[i]
      /\ Append(s, x)[Len(s) + 1] = x
      OBVIOUS
<1>2. DOMAIN Append(s, x) = 1 .. Len(s) + 1 /\ DOMAIN s = 1 .. Len(s) /\ Len(s) \in Nat
      OBVIOUS
<1>3. ASSUME NEW y \in Names(Append(s, x)) PROVE y \in Names(s) \cup {x}
      BY <1>1, <1>2 DEF Names
<1>4. ASSUME NEW y \in Names(s) PROVE y \in Names(Append(s, x))
      BY <1>1, <1>2 DEF Names
<1>5. x \in Names(Append(s, x))
  <2>1. Len(s) + 1 \in DOMAIN Append(s, x)
        BY <1>2
  <2> QED
      BY <2>1, <1>1 DEF Names
<1> QED
    BY <1>3, <1>4, <1>5

LEMMA AscendingAppend ==
  ASSUME NEW s \in Seq(Nat), NEW x \in Nat,
         Ascending(s), s # <<>> => s[Len(s)] < x
  PROVE  Ascending(Append(s, x))
<1> DEFINE a == Append(s, x)
<1> SUFFICES ASSUME NEW i \in DOMAIN a, NEW j \in DOMAIN a, i < j
             PROVE  a[i] < a[j]
    BY DEF Ascending
<1>1. /\ DOMAIN a = 1 .. Len(s) + 1 /\ DOMAIN s = 1 .. Len(s) /\ Len(s) \in Nat
      /\ \A n \in 1 .. Len(s) : a[n] = s[n] /\ s[n] \in Nat
      /\ a[Len(s) + 1] = x
      OBVIOUS
<1>2. i \in 1 .. Len(s) /\ s # <<>>
      BY <1>1
<1>3. CASE j \in 1 .. Len(s)
      BY <1>1, <1>2, <1>3 DEF Ascending
<1>4. CASE j = Len(s) + 1
  <2>1. s[i] <= s[Len(s)]
    <3>1. CASE i = Len(s)
          BY <1>1, <1>2, <3>1
    <3>2. CASE i < Len(s)
          BY <1>1, <1>2, <3>2 DEF Ascending
    <3> QED
        BY <1>1, <1>2, <3>1, <3>2
  <2>2. s[i] < x
        BY <2>1, <1>1, <1>2
  <2> QED
      BY <2>2, <1>1, <1>2, <1>4
<1> QED
    BY <1>1, <1>3, <1>4

----------------------------------------------------------------------------
(* What the two actions that extend the database leave behind.              *)

\* A new library has no privilege and no entries, the others are as before.
LEMMA LibraryAdded ==
  ASSUME IInv, library_name
  PROVE  \/ UNCHANGED <<priv, vec>> /\ library' \in {NULL} \cup Libraries
         \/ \E l \in Nat \X Nat :
              /\ l \notin Libraries
              /\ library' = l
              /\ vec' = With(vec, l, [t \in EntryTypes |-> <<>>])
              /\ priv' = With(priv, l, NONE)
<1>1. CASE module = NULL
      BY <1>1 DEF library_name
<1>2. CASE module # NULL
  <2> DEFINE l == <<module[1], Value>>
  <2>1. Value \in Nat
    <3>1. rest \in Seq(FileKeys) /\ rest # <<>>
          BY DEF IInv, TypeOK, library_name, At
    <3>2. Head(rest) \in FileKeys
          BY <3>1
    <3> QED
        BY <3>2 DEF FileKeys, Value
  <2>2. module[1] \in Nat
        BY <1>2 DEF IInv, TypeOK, NULL
  <2>3. l \in Nat \X Nat
        BY <2>1, <2>2
  <2>4. /\ library' = l
        /\ priv' = IF l \in DOMAIN vec THEN priv ELSE With(priv, l, NONE)
        /\ vec' = IF l \in DOMAIN vec THEN vec ELSE With(vec, l, [t \in EntryTypes |-> <<>>])
        BY <1>2 DEF library_name
  <2>5. CASE l \in DOMAIN vec
        BY <2>4, <2>5 DEF Libraries
  <2>6. CASE l \notin DOMAIN vec
        BY <2>3, <2>4, <2>6 DEF Libraries
  <2> QED
      BY <2>5, <2>6
<1> QED
    BY <1>1, <1>2

\* An entry is added to a vector only if it passed the check.
LEMMA EntryAdded ==
  ASSUME IInv, NEW type \in EntryTypes, Entry(type)
  PROVE  \/ UNCHANGED vec
         \/ /\ check_entry(type, Value)
            /\ Value \in Nat /\ library \in Libraries
            /\ Libraries' = Libraries
            /\ vec' \in [Libraries -> [EntryTypes -> Seq(Nat)]]
            /\ \A l \in Libraries : \A t \in EntryTypes :
                 vec'[l][t] = IF l = library /\ t = type THEN Append(vec[l][t], Value)
                              ELSE vec[l][t]
            /\ \A l \in Libraries : \A t \in EntryTypes :
                 Names(vec'[l][t]) = IF l = library /\ t = type THEN Names(vec[l][t]) \cup {Value}
                                     ELSE Names(vec[l][t])
<1> SUFFICES ASSUME ~ UNCHANGED vec
             PROVE  /\ check_entry(type, Value)
                    /\ Value \in Nat /\ library \in Libraries
                    /\ Libraries' = Libraries
                    /\ vec' \in [Libraries -> [EntryTypes -> Seq(Nat)]]
                    /\ \A l \in Libraries : \A t \in EntryTypes :
                         vec'[l][t] = IF l = library /\ t = type THEN Append(vec[l][t], Value)
                                      ELSE vec[l][t]
                    /\ \A l \in Libraries : \A t \in EntryTypes :
                         Names(vec'[l][t]) = IF l = library /\ t = type THEN Names(vec[l][t]) \cup {Value}
                                             ELSE Names(vec[l][t])
    OBVIOUS
<1>1. check_entry(type, Value) /\ vec' = [vec EXCEPT ![library][type] = Append(@, Value)]
      BY DEF Entry
<1>2. Value \in Nat
  <2>1. rest \in Seq(FileKeys) /\ rest # <<>>
        BY DEF IInv, TypeOK, Entry, At
  <2>2. Head(rest) \in FileKeys
        BY <2>1
  <2> QED
      BY <2>2 DEF FileKeys, Value
<1>3. library \in Libraries /\ vec \in [Libraries -> [EntryTypes -> Seq(Nat)]]
      BY DEF IInv, TypeOK, Entry
<1>4. Append(vec[library][type], Value) \in Seq(Nat)
      BY <1>2, <1>3
<1>5. /\ vec' \in [Libraries -> [EntryTypes -> Seq(Nat)]]
      /\ \A l \in Libraries : \A t \in EntryTypes :
           vec'[l][t] = IF l = library /\ t = type THEN Append(vec[l][t], Value)
                        ELSE vec[l][t]
      BY <1>1, <1>3, <1>4
<1>6. Libraries' = Libraries
      BY <1>5 DEF Libraries
<1>7. ASSUME NEW l \in Libraries, NEW t \in EntryTypes
      PROVE  Names(vec'[l][t]) = IF l = library /\ t = type THEN Names(vec[l][t]) \cup {Value}
                                 ELSE Names(vec[l][t])
  <2>1. vec[l][t] \in Seq(Nat)
        BY <1>3
  <2>2. Names(Append(vec[l][t], Value)) = Names(vec[l][t]) \cup {Value}
        BY <1>2, <2>1, NamesAppend
  <2> QED
      BY <1>5, <2>2
<1> QED
    BY <1>1, <1>2, <1>3, <1>5, <1>6, <1>7

----------------------------------------------------------------------------
(* The invariant is inductive.                                              *)

LEMMA InitIInv == Init => IInv
<1> SUFFICES ASSUME Init PROVE IInv
    OBVIOUS
<1>1. Libraries = {} /\ DOMAIN priv = {}
      BY DEF Init, Libraries
<1>2. vec = [l \in {} |-> NULL] /\ priv = [l \in {} |-> NULL]
      BY DEF Init, NULL
<1>3. TypeOK
  <2>1. rest \in Seq(FileKeys) /\ module \in Seq(Nat) /\ Len(module) \in 0 .. 1
        BY DEF Init, NULL
  <2>2. priv \in [Libraries -> Privileges] /\ vec \in [Libraries -> [EntryTypes -> Seq(Nat)]]
        BY <1>1, <1>2
  <2> QED
      BY <2>1, <2>2, <1>1 DEF Init, TypeOK
<1>4. BypassFirst /\ EntriesSorted /\ TypesDisjoint /\ NoDuplicatedName
      BY <1>1 DEF Init, BypassFirst, EntriesSorted, TypesDisjoint, NoDuplicatedName, DuplicatesExcused
<1> QED
    BY <1>3, <1>4 DEF IInv

\* The rules say nothing of the walk.
LEMMA RulesFrame ==
  ASSUME IInv, UNCHANGED <<bypass, priv, vec, late>>
  PROVE  EntriesSorted' /\ TypesDisjoint' /\ NoDuplicatedName'
BY DEF IInv, EntriesSorted, TypesDisjoint, NoDuplicatedName, DuplicatesExcused, Libraries, LibraryName

\* Whatever goes on with the keys of a file leaves keys.
LEMMA ContinueType ==
  ASSUME TypeOK, rest # <<>>, Continue
  PROVE  rest' \in Seq(FileKeys) /\ pc' = pc
<1>1. rest \in Seq(FileKeys)
      BY DEF TypeOK
<1> QED
    BY <1>1 DEF Continue

LEMMA LoadBypassIInv ==
  ASSUME IInv, dir \in Dirs, LoadBypass
  PROVE  IInv'
<1>1. bypass' \subseteq Nat \X Nat
  <2>1. dir.bypass \in Seq((Nat \X Nat) \cup {NULL})
        BY DirsAssumption DEF DirOK
  <2>2. \A i \in DOMAIN dir.bypass : dir.bypass[i] # NULL => dir.bypass[i] \in Nat \X Nat
        BY <2>1
  <2>3. \A i \in DOMAIN dir.bypass : i \in 1 .. i
        BY <2>1
  <2>4. CASE dir.bypass_opens
    <3>1. bypass' = {dir.bypass[i] : i \in {n \in DOMAIN dir.bypass : \A j \in 1 .. n : dir.bypass[j] # NULL}}
          BY <2>4 DEF LoadBypass
    <3> QED
        BY <3>1, <2>2, <2>3
  <2>5. CASE ~ dir.bypass_opens
        BY <2>5 DEF LoadBypass, IInv, TypeOK
  <2> QED
      BY <2>4, <2>5
<1>2. pc = "bypass" /\ pc' \in {"files", "failure"} /\ UNCHANGED <<dir, todo, rest, fw, module, library, priv, vec, late>>
      BY DEF LoadBypass, database
<1>3. Libraries' = Libraries /\ Libraries = {}
      BY <1>2 DEF IInv, BypassFirst, Libraries
<1>4. TypeOK'
      BY <1>1, <1>2, <1>3 DEF IInv, TypeOK
<1>5. BypassFirst' /\ EntriesSorted' /\ TypesDisjoint' /\ NoDuplicatedName'
      BY <1>2, <1>3 DEF BypassFirst, EntriesSorted, TypesDisjoint, NoDuplicatedName, DuplicatesExcused
<1> QED
    BY <1>4, <1>5 DEF IInv

\* The steps that leave the database alone: opening a file, the keys that change
\* only the context, and every end.
LEMMA WalkIInv ==
  ASSUME IInv, dir \in Dirs,
         OpenFile \/ Exit \/ database_firmware \/ module_name \/ library_nid \/ NullLibrary \/ BadKey
  PROVE  IInv'
<1>1. /\ pc = "files" /\ pc' \in {"files", "success", "failure", "crash"}
      /\ UNCHANGED <<dir, bypass, library, priv, vec, late>>
      BY DEF OpenFile, Exit, database_firmware, module_name, library_nid, NullLibrary, BadKey,
             At, Continue, Stop, database
<1>2. rest' \in Seq(FileKeys) /\ todo' \subseteq todo
  <2>1. rest \in Seq(FileKeys) /\ todo \subseteq DOMAIN dir.files
        BY DEF IInv, TypeOK
  <2>2. CASE OpenFile
    <3>1. dir.files \in Seq(Seq(FileKeys))
          BY DirsAssumption DEF DirOK
    <3>2. \A f \in DOMAIN dir.files : dir.files[f] \in Seq(FileKeys)
          BY <3>1
    <3> QED
        BY <2>1, <2>2, <3>2 DEF OpenFile
  <2>3. CASE Exit \/ NullLibrary \/ BadKey
        BY <2>1, <2>3 DEF Exit, NullLibrary, BadKey, Stop
  <2>4. CASE database_firmware \/ module_name \/ library_nid
    <3>1. Continue /\ rest # <<>> /\ UNCHANGED todo
          BY <2>4 DEF database_firmware, module_name, library_nid, At
    <3> QED
        BY <3>1, ContinueType DEF IInv
  <2> QED
      BY <2>2, <2>3, <2>4
<1>3. fw' \in BOOLEAN
      BY DEF IInv, TypeOK, OpenFile, Exit, database_firmware, module_name, library_nid, NullLibrary,
             BadKey, database
<1>4. module' \in Seq(Nat) /\ Len(module') \in 0 .. 1
  <2>1. CASE module_name
    <3>1. rest \in Seq(FileKeys) /\ rest # <<>>
          BY <2>1 DEF IInv, TypeOK, module_name, At
    <3>2. Value \in Nat
          BY <3>1 DEF FileKeys, Value
    <3> QED
        BY <2>1, <3>2 DEF module_name, NULL
  <2>2. CASE OpenFile \/ Exit \/ database_firmware \/ library_nid \/ NullLibrary \/ BadKey
    <3>1. UNCHANGED module
          BY <2>2 DEF OpenFile, Exit, database_firmware, library_nid, NullLibrary, BadKey, database
    <3> QED
        BY <3>1 DEF IInv, TypeOK
  <2> QED
      BY <2>1, <2>2
<1>5. TypeOK'
      BY <1>1, <1>2, <1>3, <1>4 DEF IInv, TypeOK, Libraries
<1>6. BypassFirst'
      BY <1>1 DEF BypassFirst
<1> QED
    BY <1>1, <1>5, <1>6, RulesFrame DEF IInv

LEMMA LibraryNameIInv ==
  ASSUME IInv, library_name
  PROVE  IInv'
<1>1. /\ pc = "files" /\ pc' = "files" /\ rest' \in Seq(FileKeys)
      /\ UNCHANGED <<dir, bypass, todo, fw, module, late>>
      BY ContinueType DEF IInv, library_name, At
<1>2. CASE UNCHANGED <<priv, vec>> /\ library' \in {NULL} \cup Libraries
  <2>1. TypeOK'
        BY <1>1, <1>2 DEF IInv, TypeOK, Libraries
  <2>2. BypassFirst'
        BY <1>1 DEF BypassFirst
  <2> QED
      BY <1>1, <1>2, <2>1, <2>2, RulesFrame DEF IInv
<1>3. ASSUME NEW l \in Nat \X Nat,
             l \notin Libraries,
             library' = l,
             vec' = With(vec, l, [t \in EntryTypes |-> <<>>]),
             priv' = With(priv, l, NONE)
      PROVE  IInv'
  <2>1. Libraries' = Libraries \cup {l}
        BY <1>3 DEF Libraries, With
  <2>2. /\ \A m \in Libraries : vec'[m] = vec[m] /\ priv'[m] = priv[m]
        /\ \A t \in EntryTypes : vec'[l][t] = <<>>
        /\ priv'[l] = NONE
        BY <1>3 DEF IInv, TypeOK, Libraries, With
  <2>3. \A t \in EntryTypes : Names(vec'[l][t]) = {}
        BY <2>2 DEF Names
  <2>4. TypeOK'
    <3>1. priv' \in [Libraries' -> Privileges]
          BY <1>3, <2>1 DEF IInv, TypeOK, With, Privileges, Libraries
    <3>2. [t \in EntryTypes |-> <<>>] \in [EntryTypes -> Seq(Nat)]
          OBVIOUS
    <3>3. vec' \in [Libraries' -> [EntryTypes -> Seq(Nat)]]
          BY <1>3, <2>1, <3>2 DEF IInv, TypeOK, With, Libraries
    <3> QED
        BY <1>1, <1>3, <2>1, <3>1, <3>3 DEF IInv, TypeOK
  <2>5. BypassFirst'
        BY <1>1 DEF BypassFirst
  <2>6. EntriesSorted'
    <3>1. Ascending(<<>>)
          BY DEF Ascending
    <3>2. ASSUME NEW m \in Libraries', NEW t \in EntryTypes PROVE Ascending(vec'[m][t])
          BY <2>1, <2>2, <3>1, <3>2 DEF IInv, EntriesSorted
    <3> QED
        BY <3>2 DEF EntriesSorted, Ascending
  <2>7. TypesDisjoint'
    <3> SUFFICES ASSUME NEW m \in Libraries', NEW t \in EntryTypes, NEW u \in EntryTypes, t # u
                 PROVE  Names(vec'[m][t]) \cap Names(vec'[m][u]) = {}
        BY DEF TypesDisjoint, Names
    <3>1. CASE m \in Libraries
          BY <2>2, <3>1 DEF IInv, TypesDisjoint
    <3>2. CASE m = l
          BY <2>3, <3>2
    <3> QED
        BY <2>1, <3>1, <3>2
  <2>8. NoDuplicatedName'
    <3> SUFFICES ASSUME ~ late,
                        NEW m \in Libraries', NEW n \in Libraries',
                        NEW t \in EntryTypes, NEW u \in EntryTypes,
                        NEW name \in Names(vec'[m][t]) \cap Names(vec'[n][u]),
                        m # n, priv'[m] = priv'[n]
                 PROVE  t = u /\ (<<LibraryName(m), name>> \in bypass \/ <<LibraryName(n), name>> \in bypass)
        BY <1>1 DEF NoDuplicatedName, DuplicatesExcused, Names, LibraryName
    <3>1. m \in Libraries /\ n \in Libraries
          BY <2>1, <2>3
    <3> QED
        BY <2>2, <3>1 DEF IInv, NoDuplicatedName, DuplicatesExcused
  <2> QED
      BY <2>4, <2>5, <2>6, <2>7, <2>8 DEF IInv
<1> QED
    BY <1>2, <1>3, LibraryAdded

LEMMA LibraryPrivilegeIInv ==
  ASSUME IInv, library_privilege
  PROVE  IInv'
<1>1. /\ pc = "files" /\ pc' = "files" /\ rest' \in Seq(FileKeys)
      /\ UNCHANGED <<dir, bypass, todo, fw, module, library, vec>>
      BY ContinueType DEF IInv, library_privilege, At
<1>2. library \in Libraries /\ Libraries' = Libraries
      BY <1>1 DEF IInv, TypeOK, library_privilege, Libraries
<1>3. Value \in Privileges
  <2>1. rest \in Seq(FileKeys) /\ rest # <<>> /\ Head(rest).key = "kernel"
        BY DEF IInv, TypeOK, library_privilege, At
  <2>2. Head(rest) \in FileKeys
        BY <2>1
  <2> QED
      BY <2>1, <2>2 DEF FileKeys, Value, Privileges
<1>4. priv' \in [Libraries -> Privileges] /\ \A l \in Libraries \ {library} : priv'[l] = priv[l]
      BY <1>2, <1>3 DEF IInv, TypeOK, library_privilege
<1>5. priv'[library] = Value
      BY <1>2 DEF IInv, TypeOK, library_privilege
<1>6. late' = (late \/ (HasEntries(library) /\ priv[library] # Value))
      BY DEF library_privilege
<1>7. TypeOK'
  <2>1. late' \in BOOLEAN
        BY <1>6
  <2> QED
      BY <1>1, <1>2, <1>4, <2>1 DEF IInv, TypeOK
<1>8. BypassFirst'
      BY <1>1 DEF BypassFirst
<1>9. EntriesSorted' /\ TypesDisjoint'
      BY <1>1 DEF IInv, EntriesSorted, TypesDisjoint, Libraries
<1>10. NoDuplicatedName'
  <2> SUFFICES ASSUME ~ late',
                      NEW m \in Libraries, NEW n \in Libraries,
                      NEW t \in EntryTypes, NEW u \in EntryTypes,
                      NEW name \in Names(vec[m][t]) \cap Names(vec[n][u]),
                      m # n, priv'[m] = priv'[n]
               PROVE  t = u /\ (<<LibraryName(m), name>> \in bypass \/ <<LibraryName(n), name>> \in bypass)
      BY <1>1, <1>2 DEF NoDuplicatedName, DuplicatesExcused, Names, LibraryName
  <2>1. ~ late
        BY <1>6
  <2>2. vec[m][t] # <<>> /\ vec[n][u] # <<>>
        BY DEF Names
  <2>3. \A l \in {m, n} : priv'[l] = priv[l]
        BY <1>4, <1>5, <1>6, <2>2 DEF HasEntries
  <2> QED
      BY <2>1, <2>3 DEF IInv, NoDuplicatedName, DuplicatesExcused
<1> QED
    BY <1>7, <1>8, <1>9, <1>10 DEF IInv

LEMMA EntryIInv ==
  ASSUME IInv, NEW type \in EntryTypes, Entry(type)
  PROVE  IInv'
<1>1. /\ pc = "files" /\ pc' \in {"files", "failure"} /\ rest' \in Seq(FileKeys)
      /\ UNCHANGED <<dir, bypass, todo, fw, module, library, priv, late>>
  <2>1. rest # <<>> /\ pc = "files" /\ (Continue \/ Stop("failure"))
        BY DEF Entry, At
  <2>2. rest' \in Seq(FileKeys) /\ pc' \in {"files", "failure"}
        BY <2>1, ContinueType DEF IInv, TypeOK, Stop
  <2> QED
      BY <2>1, <2>2 DEF Entry
<1>2. BypassFirst'
      BY <1>1 DEF BypassFirst
<1>3. CASE UNCHANGED vec
  <2>1. TypeOK'
        BY <1>1, <1>3 DEF IInv, TypeOK, Libraries
  <2> QED
      BY <1>1, <1>2, <1>3, <2>1, RulesFrame DEF IInv
<1>4. CASE ~ UNCHANGED vec
  <2>1. /\ check_entry(type, Value)
        /\ Value \in Nat /\ library \in Libraries
        /\ Libraries' = Libraries
        /\ vec' \in [Libraries -> [EntryTypes -> Seq(Nat)]]
        BY <1>4, EntryAdded
  <2>2. \A l \in Libraries : \A t \in EntryTypes :
          vec'[l][t] = IF l = library /\ t = type THEN Append(vec[l][t], Value)
                       ELSE vec[l][t]
        BY <1>4, EntryAdded
  <2>3. \A l \in Libraries : \A t \in EntryTypes :
          Names(vec'[l][t]) = IF l = library /\ t = type THEN Names(vec[l][t]) \cup {Value}
                              ELSE Names(vec[l][t])
        BY <1>4, EntryAdded
  <2>4. TypeOK'
        BY <1>1, <2>1 DEF IInv, TypeOK
  <2>5. EntriesSorted'
    <3> SUFFICES ASSUME NEW l \in Libraries, NEW t \in EntryTypes
                 PROVE  Ascending(vec'[l][t])
        BY <2>1 DEF EntriesSorted, Ascending
    <3>1. Ascending(vec[l][t]) /\ vec[l][t] \in Seq(Nat)
          BY DEF IInv, TypeOK, EntriesSorted
    <3>2. CASE l = library /\ t = type
      <4>1. vec[l][t] # <<>> => vec[l][t][Len(vec[l][t])] < Value
            BY <2>1, <3>2 DEF check_entry, InOrder
      <4>2. Ascending(Append(vec[l][t], Value))
            BY <2>1, <3>1, <4>1, AscendingAppend
      <4> QED
          BY <2>2, <3>2, <4>2
    <3>3. CASE ~ (l = library /\ t = type)
          BY <2>2, <3>1, <3>3
    <3> QED
        BY <3>2, <3>3
  <2>6. TypesDisjoint'
    <3> SUFFICES ASSUME NEW l \in Libraries, NEW t \in EntryTypes, NEW u \in EntryTypes, t # u
                 PROVE  Names(vec'[l][t]) \cap Names(vec'[l][u]) = {}
        BY <2>1 DEF TypesDisjoint, Names
    <3>1. Names(vec[l][t]) \cap Names(vec[l][u]) = {}
          BY DEF IInv, TypesDisjoint
    <3>2. l = library => Value \notin Names(vec[l][t]) /\ Value \notin Names(vec[l][u])
          BY <2>1 DEF check_entry, HasName
    <3> QED
        BY <2>3, <3>1, <3>2
  <2>7. NoDuplicatedName'
    <3> SUFFICES ASSUME ~ late',
                        NEW l \in Libraries', NEW m \in Libraries',
                        NEW t \in EntryTypes, NEW u \in EntryTypes,
                        NEW name \in Names(vec'[l][t]) \cap Names(vec'[m][u]),
                        l # m, priv'[l] = priv'[m]
                 PROVE  t = u /\ (<<LibraryName(l), name>> \in bypass' \/ <<LibraryName(m), name>> \in bypass')
        BY DEF NoDuplicatedName, DuplicatesExcused, Names, LibraryName
    <3> ~ late /\ l \in Libraries /\ m \in Libraries /\ priv[l] = priv[m] /\ bypass' = bypass
        BY <1>1, <2>1
    <3>1. CASE name \in Names(vec[l][t]) \cap Names(vec[m][u])
          BY <3>1 DEF IInv, NoDuplicatedName, DuplicatesExcused
    <3>2. \A n \in Libraries : \A w \in EntryTypes :
            name \in Names(vec'[n][w]) /\ name \notin Names(vec[n][w]) =>
              n = library /\ w = type /\ name = Value
          BY <2>3
    <3>3. \A n \in Libraries : \A w \in EntryTypes :
            Value \in Names(vec[n][w]) /\ priv[n] = priv[library] =>
              w = type /\ <<LibraryName(n), Value>> \in bypass
          BY <2>1 DEF check_entry, Refuses, HasName, Libraries
    <3>4. CASE name \notin Names(vec[l][t])
      <4>1. l = library /\ t = type /\ name = Value /\ name \in Names(vec[m][u])
            BY <3>2, <3>4
      <4> QED
          BY <3>3, <4>1
    <3>5. CASE name \notin Names(vec[m][u])
      <4>1. m = library /\ u = type /\ name = Value /\ name \in Names(vec[l][t])
            BY <3>2, <3>5
      <4> QED
          BY <3>3, <4>1
    <3> QED
        BY <3>1, <3>4, <3>5
  <2> QED
      BY <1>2, <2>4, <2>5, <2>6, <2>7 DEF IInv
<1> QED
    BY <1>3, <1>4

\* The input is one of those considered.
InputKept == dir \in Dirs

LEMMA NextIInv == IInv /\ InputKept /\ [Next]_vars => IInv' /\ InputKept'
<1> SUFFICES ASSUME IInv, dir \in Dirs, [Next]_vars PROVE IInv' /\ dir' \in Dirs
    BY DEF InputKept
<1>1. CASE LoadBypass
      BY <1>1, LoadBypassIInv DEF LoadBypass
<1>2. CASE OpenFile \/ Exit \/ database_firmware \/ module_name \/ library_nid \/ NullLibrary \/ BadKey
      BY <1>2, WalkIInv DEF OpenFile, Exit, database_firmware, module_name, library_nid, NullLibrary, BadKey
<1>3. CASE library_name
      BY <1>3, LibraryNameIInv DEF library_name
<1>4. CASE library_privilege
      BY <1>4, LibraryPrivilegeIInv DEF library_privilege
<1>5. CASE entry_function
      BY <1>5, EntryIInv DEF entry_function, Entry, EntryTypes
<1>6. CASE entry_variable
      BY <1>6, EntryIInv DEF entry_variable, Entry, EntryTypes
<1>7. CASE Terminated \/ UNCHANGED vars
  <2>1. UNCHANGED vars
        BY <1>7 DEF Terminated
  <2>2. TypeOK' /\ BypassFirst'
        BY <2>1 DEF IInv, TypeOK, BypassFirst, Libraries, vars
  <2> QED
      BY <2>1, <2>2, RulesFrame DEF IInv, vars
<1> QED
    BY <1>1, <1>2, <1>3, <1>4, <1>5, <1>6, <1>7 DEF Next

LEMMA Invariance == Spec => []IInv
<1>1. Init => IInv /\ InputKept
      BY InitIInv DEF Init, InputKept
<1> QED
    BY <1>1, NextIInv, PTL DEF Spec

----------------------------------------------------------------------------
(* The theorems.                                                            *)

\* Every variable has its type: no library without a privilege, no entry in a
\* library that db_search_or_new_library() did not make.
THEOREM TypeCorrect == Spec => []TypeOK
<1>1. IInv => TypeOK
      BY DEF IInv
<1> QED
    BY <1>1, Invariance, PTL

\* The test of _check_entry() against the last entry alone keeps every vector in
\* strictly ascending order, through all the files that add to a library.
THEOREM Sorted == Spec => []EntriesSorted
<1>1. IInv => EntriesSorted
      BY DEF IInv
<1> QED
    BY <1>1, Invariance, PTL

\* No library has two entries of one name (check_in_same_library()).
THEOREM UniqueInLibrary == Spec => []LibraryNamesUnique
<1>1. ASSUME IInv PROVE LibraryNamesUnique
  <2> SUFFICES ASSUME NEW l \in Libraries, NEW t \in EntryTypes, NEW u \in EntryTypes,
                      NEW i \in DOMAIN vec[l][t], NEW j \in DOMAIN vec[l][u],
                      vec[l][t][i] = vec[l][u][j]
               PROVE  t = u /\ i = j
      BY DEF LibraryNamesUnique
  <2>1. t = u
        BY <1>1 DEF IInv, TypesDisjoint, Names
  <2>2. /\ i \in Nat /\ j \in Nat /\ vec[l][t][i] \in Nat /\ vec[l][t][j] \in Nat
        /\ i \in DOMAIN vec[l][t] /\ j \in DOMAIN vec[l][t]
        BY <1>1, <2>1 DEF IInv, TypeOK
  <2>3. Ascending(vec[l][t])
        BY <1>1 DEF IInv, EntriesSorted
  <2>4. ~ (i < j) /\ ~ (j < i)
        BY <2>1, <2>2, <2>3 DEF Ascending
  <2> QED
      BY <2>1, <2>2, <2>4
<1> QED
    BY <1>1, Invariance, PTL

\* One comparison of each entry with those before it makes the rule hold of the
\* whole database, for every directory and every order of its files, as long as
\* no library with entries has changed its privilege.
THEOREM NoDuplicates == Spec => []NoDuplicatedName
<1>1. IInv => NoDuplicatedName
      BY DEF IInv
<1> QED
    BY <1>1, Invariance, PTL

----------------------------------------------------------------------------
(* Refusals.  A directory that keeps the rules has been read up to key k of *)
(* file f: the context is that of the key, and every entry of the database  *)
(* is one of a key read before.                                             *)

ModuleAt(f, k, m) ==
  Before(<<f, k + 1>>, "module") # {} => m = <<dir.files[f][LastOf(Before(<<f, k + 1>>, "module"))].value>>
LibraryAt(f, k, l) ==
  (\E j \in Before(<<f, k + 1>>, "library") : \A m \in j + 1 .. k : dir.files[f][m].key # "module") =>
    l = LibraryOf(<<f, k + 1>>)
PrivilegesAt(f, k, p) ==
  \A n \in Before(<<f, k + 1>>, "kernel") :
    LibraryOf(<<f, n>>) \in DOMAIN p /\ p[LibraryOf(<<f, n>>)] \in PrivilegesOf(<<f, n>>)

Reading(f, k) ==
  /\ f \in DOMAIN dir.files \ todo /\ k \in 0 .. Len(dir.files[f])
  /\ rest = SubSeq(dir.files[f], k + 1, Len(dir.files[f]))
  /\ k >= 1 => fw
  /\ ModuleAt(f, k, module) /\ LibraryAt(f, k, library) /\ PrivilegesAt(f, k, priv)

\* d is read, as an entry of l.
ReadAs(d, l, f, k) ==
  /\ d[1] \notin todo /\ (d[1] = f => d[2] <= k)
  /\ LibraryOf(d) = l
  /\ PrivilegeKnown(d) => priv[l] \in PrivilegesOf(d)
FromFiles(f, k) ==
  \A l \in Libraries : \A t \in EntryTypes : \A name \in Names(vec[l][t]) :
    \E d \in Entries : ReadAs(d, l, f, k) /\ TypeOf(d) = t /\ NameOf(d) = name

Position ==
  \/ rest = <<>> /\ Libraries = {}
  \/ \E f \in DOMAIN dir.files : \E k \in 0 .. Len(dir.files[f]) : Reading(f, k) /\ FromFiles(f, k)

ReadInv ==
  /\ pc = "bypass" => rest = <<>>
  /\ CleanDirectory /\ ~ late => pc \notin {"failure", "crash"} /\ (pc = "files" => Position)

----------------------------------------------------------------------------
(* The keys before a key.                                                   *)

LEMMA LastElement ==
  ASSUME NEW b \in Nat, NEW S \in SUBSET (1 .. b), S # {}
  PROVE  LastOf(S) \in S /\ \A j \in S : j <= LastOf(S)
<1> DEFINE T == {b - j : j \in S}
<1>1. T \in SUBSET Nat
      OBVIOUS
<1>2. PICK x : x \in T
      OBVIOUS
<1>3. PICK m \in T : \A y \in T : m <= y
      BY <1>1, <1>2, LeastNatural
<1>4. PICK i \in S : m = b - i
      OBVIOUS
<1>5. ASSUME NEW j \in S PROVE j <= i
  <2>1. b - j \in T
        OBVIOUS
  <2>2. b - i <= b - j
        BY <1>3, <1>4, <2>1
  <2> QED
      BY <2>2
<1>6. \E n \in S : \A j \in S : j <= n
      BY <1>5
<1> QED
    BY <1>6 DEF LastOf

LEMMA LastIs ==
  ASSUME NEW b \in Nat, NEW S \in SUBSET (1 .. b), NEW n \in S, \A j \in S : j <= n
  PROVE  LastOf(S) = n
<1>1. LastOf(S) \in S /\ n <= LastOf(S)
      BY LastElement
<1>2. LastOf(S) <= n /\ LastOf(S) \in 1 .. b /\ n \in 1 .. b
      BY <1>1
<1>3. \A i, j \in Nat : i <= j /\ j <= i => i = j
      OBVIOUS
<1> QED
    BY <1>1, <1>2, <1>3

\* A place where a key is read.
PlaceOK(f, k) ==
  /\ DirOK(dir) /\ f \in DOMAIN dir.files /\ k \in Nat /\ k + 1 \in DOMAIN dir.files[f]

LEMMA Place ==
  ASSUME NEW f, NEW k, PlaceOK(f, k)
  PROVE  /\ dir.files[f] \in Seq(FileKeys) /\ DOMAIN dir.files[f] = 1 .. Len(dir.files[f]) /\ Len(dir.files[f]) \in Nat
         /\ k \in Nat /\ k + 1 \in DOMAIN dir.files[f]
         /\ \A n \in 1 .. k + 1 : n \in DOMAIN dir.files[f] /\ dir.files[f][n] \in FileKeys
<1>1. f \in DOMAIN dir.files /\ dir.files \in Seq(Seq(FileKeys)) /\ k \in Nat /\ k + 1 \in DOMAIN dir.files[f]
      BY DEF PlaceOK, DirOK
<1>2. dir.files[f] \in Seq(FileKeys)
      BY <1>1
<1> QED
    BY <1>1, <1>2

LEMMA BeforeNext ==
  ASSUME NEW f, NEW k, PlaceOK(f, k), NEW key
  PROVE  /\ Before(<<f, k + 1>>, key) \in SUBSET (1 .. k)
         /\ Before(<<f, k + 2>>, key) \in SUBSET (1 .. k + 1)
         /\ dir.files[f][k + 1].key = key => Before(<<f, k + 2>>, key) = Before(<<f, k + 1>>, key) \cup {k + 1}
         /\ dir.files[f][k + 1].key # key => Before(<<f, k + 2>>, key) = Before(<<f, k + 1>>, key)
<1>1. k \in Nat /\ k + 2 - 1 = k + 1 /\ k + 1 - 1 = k
      BY Place
<1>2. Before(<<f, k + 1>>, key) = {i \in 1 .. k : dir.files[f][i].key = key}
      BY <1>1 DEF Before, FileOf
<1>3. Before(<<f, k + 2>>, key) = {i \in 1 .. k + 1 : dir.files[f][i].key = key}
      BY <1>1 DEF Before, FileOf
<1>4. \A i : i \in 1 .. k + 1 <=> i \in 1 .. k \/ i = k + 1
      BY <1>1
<1> QED
    BY <1>1, <1>2, <1>3, <1>4

\* Without a module or a library, the next key has the context of this one.
LEMMA ContextStays ==
  ASSUME NEW f, NEW k, PlaceOK(f, k), NEW m, NEW l
  PROVE  /\ ModuleAt(f, k, m) /\ dir.files[f][k + 1].key # "module" => ModuleAt(f, k + 1, m)
         /\ LibraryAt(f, k, l) /\ dir.files[f][k + 1].key \notin {"module", "library"} => LibraryAt(f, k + 1, l)
<1>1. k \in Nat /\ k + 1 + 1 = k + 2
      BY Place
<1>2. dir.files[f][k + 1].key # "module" => Before(<<f, k + 2>>, "module") = Before(<<f, k + 1>>, "module")
      BY BeforeNext
<1>3. dir.files[f][k + 1].key # "library" => Before(<<f, k + 2>>, "library") = Before(<<f, k + 1>>, "library")
      BY BeforeNext
<1>4. ModuleAt(f, k, m) /\ dir.files[f][k + 1].key # "module" => ModuleAt(f, k + 1, m)
      BY <1>1, <1>2 DEF ModuleAt
<1>5. ASSUME LibraryAt(f, k, l), dir.files[f][k + 1].key \notin {"module", "library"} PROVE LibraryAt(f, k + 1, l)
  <2>1. LibraryOf(<<f, k + 2>>) = LibraryOf(<<f, k + 1>>)
        BY <1>2, <1>3, <1>5 DEF LibraryOf, FileOf
  <2>2. \A j \in Before(<<f, k + 1>>, "library") : j + 1 .. k \subseteq j + 1 .. k + 1
    <3>1. Before(<<f, k + 1>>, "library") \in SUBSET (1 .. k)
          BY BeforeNext
    <3> QED
        BY <1>1, <3>1
  <2> QED
      BY <1>1, <1>3, <1>5, <2>1, <2>2 DEF LibraryAt
<1> QED
    BY <1>4, <1>5

LEMMA AtModule ==
  ASSUME NEW f, NEW k, PlaceOK(f, k), dir.files[f][k + 1].key = "module", NEW l
  PROVE  ModuleAt(f, k + 1, <<dir.files[f][k + 1].value>>) /\ LibraryAt(f, k + 1, l)
<1>1. k \in Nat /\ k + 1 + 1 = k + 2
      BY Place
<1>2. /\ Before(<<f, k + 2>>, "module") \in SUBSET (1 .. k + 1)
      /\ Before(<<f, k + 2>>, "module") = Before(<<f, k + 1>>, "module") \cup {k + 1}
      BY BeforeNext
<1>3. LastOf(Before(<<f, k + 2>>, "module")) = k + 1
  <2>1. k + 1 \in Before(<<f, k + 2>>, "module") /\ \A j \in Before(<<f, k + 2>>, "module") : j <= k + 1
        BY <1>1, <1>2
  <2>2. k + 1 \in Nat
        BY <1>1
  <2> QED
      BY <1>2, <2>1, <2>2, LastIs
<1>4. ASSUME NEW j \in Before(<<f, k + 2>>, "library")
      PROVE  \E m \in j + 1 .. k + 1 : dir.files[f][m].key = "module"
  <2>1. Before(<<f, k + 2>>, "library") = Before(<<f, k + 1>>, "library") /\ Before(<<f, k + 1>>, "library") \in SUBSET (1 .. k)
        BY BeforeNext
  <2>2. k + 1 \in j + 1 .. k + 1
        BY <1>1, <1>4, <2>1
  <2> QED
      BY <2>2
<1> QED
    BY <1>1, <1>3, <1>4 DEF ModuleAt, LibraryAt

LEMMA AtLibrary ==
  ASSUME NEW f, NEW k, PlaceOK(f, k), dir.files[f][k + 1].key = "library", NEW m, ModuleAt(f, k, m)
  PROVE  m # NULL /\ LibraryAt(f, k + 1, <<m[1], dir.files[f][k + 1].value>>)
<1>1. k \in Nat /\ k + 1 + 1 = k + 2 /\ k + 1 \in Nat /\ k + 1 \in DOMAIN dir.files[f]
      BY Place
<1>2. \E j \in 1 .. (k + 1) - 1 : dir.files[f][j].key = "module"
      BY <1>1 DEF PlaceOK, DirOK
<1>3. Before(<<f, k + 1>>, "module") # {}
      BY <1>1, <1>2 DEF Before, FileOf
<1>4. m = <<dir.files[f][LastOf(Before(<<f, k + 1>>, "module"))].value>>
      BY <1>3 DEF ModuleAt
<1>5. Before(<<f, k + 2>>, "module") = Before(<<f, k + 1>>, "module")
      BY BeforeNext
<1>6. LastOf(Before(<<f, k + 2>>, "library")) = k + 1
  <2>1. /\ Before(<<f, k + 2>>, "library") \in SUBSET (1 .. k + 1)
        /\ Before(<<f, k + 2>>, "library") = Before(<<f, k + 1>>, "library") \cup {k + 1}
        BY BeforeNext
  <2>2. k + 1 \in Before(<<f, k + 2>>, "library") /\ \A j \in Before(<<f, k + 2>>, "library") : j <= k + 1
        BY <1>1, <2>1
  <2> QED
      BY <1>1, <2>1, <2>2, LastIs
<1>7. LibraryOf(<<f, k + 2>>) = <<m[1], dir.files[f][k + 1].value>>
      BY <1>4, <1>5, <1>6 DEF LibraryOf, FileOf
<1> QED
    BY <1>1, <1>4, <1>7 DEF LibraryAt, NULL

\* The keys of a library find it.
LEMMA LibraryKnown ==
  ASSUME NEW f, NEW k, PlaceOK(f, k), dir.files[f][k + 1].key \in LibraryKeys, NEW l, LibraryAt(f, k, l)
  PROVE  l = LibraryOf(<<f, k + 1>>) /\ l # NULL
<1>1. k \in Nat /\ (k + 1) - 1 = k /\ k + 1 \in DOMAIN dir.files[f]
      BY Place
<1>2. \E j \in 1 .. (k + 1) - 1 : /\ dir.files[f][j].key = "library"
                                 /\ \A m \in j + 1 .. (k + 1) - 1 : dir.files[f][m].key # "module"
      BY <1>1 DEF PlaceOK, DirOK
<1>3. PICK j \in 1 .. k : dir.files[f][j].key = "library" /\ \A m \in j + 1 .. k : dir.files[f][m].key # "module"
      BY <1>1, <1>2
<1>4. j \in Before(<<f, k + 1>>, "library")
      BY <1>1, <1>3 DEF Before, FileOf
<1>5. l = LibraryOf(<<f, k + 1>>)
      BY <1>3, <1>4 DEF LibraryAt
<1>6. LibraryOf(<<f, k + 1>>) # NULL
      BY DEF LibraryOf, NULL
<1> QED
    BY <1>5, <1>6

\* Without a privilege, those known stay; more libraries do no harm.
LEMMA PrivilegesStay ==
  ASSUME NEW f, NEW k, PlaceOK(f, k), dir.files[f][k + 1].key # "kernel",
         NEW p, PrivilegesAt(f, k, p), NEW q, \A l \in DOMAIN p : l \in DOMAIN q /\ q[l] = p[l]
  PROVE  PrivilegesAt(f, k + 1, q)
<1>1. Before(<<f, k + 2>>, "kernel") = Before(<<f, k + 1>>, "kernel") /\ k + 1 + 1 = k + 2
      BY BeforeNext, Place
<1> QED
    BY <1>1 DEF PrivilegesAt

LEMMA AtPrivilege ==
  ASSUME NEW f, NEW k, PlaceOK(f, k), dir.files[f][k + 1].key = "kernel", NEW p, PrivilegesAt(f, k, p),
         NEW l, l = LibraryOf(<<f, k + 1>>), l \in DOMAIN p, NEW q, q = [p EXCEPT ![l] = dir.files[f][k + 1].value]
  PROVE  PrivilegesAt(f, k + 1, q)
<1>1. /\ Before(<<f, k + 2>>, "kernel") = Before(<<f, k + 1>>, "kernel") \cup {k + 1} /\ k + 1 + 1 = k + 2
      /\ k + 1 \in DOMAIN dir.files[f]
  <2>1. k \in Nat /\ k + 1 \in DOMAIN dir.files[f]
        BY Place
  <2>2. Before(<<f, k + 2>>, "kernel") = Before(<<f, k + 1>>, "kernel") \cup {k + 1}
        BY BeforeNext
  <2> QED
      BY <2>1, <2>2
<1>2. \A n : LibraryOf(<<f, n>>) = l => k + 1 \in PrivilegeKeysOf(<<f, n>>)
      BY <1>1 DEF PrivilegeKeysOf, FileOf
<1>3. \A n : LibraryOf(<<f, n>>) = l => dir.files[f][k + 1].value \in PrivilegesOf(<<f, n>>)
      BY <1>2 DEF PrivilegesOf, FileOf
<1>4. DOMAIN q = DOMAIN p /\ q[l] = dir.files[f][k + 1].value /\ \A m \in DOMAIN p \ {l} : q[m] = p[m]
      OBVIOUS
<1> SUFFICES ASSUME NEW n \in Before(<<f, k + 2>>, "kernel")
             PROVE  LibraryOf(<<f, n>>) \in DOMAIN q /\ q[LibraryOf(<<f, n>>)] \in PrivilegesOf(<<f, n>>)
    BY <1>1 DEF PrivilegesAt
<1>5. CASE LibraryOf(<<f, n>>) = l
      BY <1>3, <1>4, <1>5
<1>6. CASE LibraryOf(<<f, n>>) # l
  <2>1. n \in Before(<<f, k + 1>>, "kernel")
        BY <1>1, <1>6
  <2> QED
      BY <1>4, <1>6, <2>1 DEF PrivilegesAt
<1> QED
    BY <1>5, <1>6

\* A privilege given before a key is that of its library.
LEMMA PrivilegeRead ==
  ASSUME NEW f, NEW k, PlaceOK(f, k), NEW p, PrivilegesAt(f, k, p), PrivilegeKnown(<<f, k + 1>>),
         NEW l, l = LibraryOf(<<f, k + 1>>)
  PROVE  p[l] \in PrivilegesOf(<<f, k + 1>>)
<1>1. PICK n \in PrivilegeKeysOf(<<f, k + 1>>) : n < k + 1
      BY DEF PrivilegeKnown
<1>2. n \in DOMAIN dir.files[f] /\ dir.files[f][n].key = "kernel" /\ LibraryOf(<<f, n>>) = l
      BY DEF PrivilegeKeysOf, FileOf
<1>3. n \in Before(<<f, k + 1>>, "kernel")
  <2>1. n \in 1 .. (k + 1) - 1
        BY <1>1, <1>2, Place
  <2> QED
      BY <1>2, <2>1 DEF Before, FileOf
<1>4. p[l] \in PrivilegesOf(<<f, n>>)
      BY <1>2, <1>3 DEF PrivilegesAt
<1>5. PrivilegesOf(<<f, n>>) = PrivilegesOf(<<f, k + 1>>)
      BY <1>2 DEF PrivilegesOf, PrivilegeKeysOf, FileOf
<1> QED
    BY <1>4, <1>5

----------------------------------------------------------------------------
(* An entry of a directory that keeps the rules is not refused.             *)

LEMMA CheckPasses ==
  ASSUME IInv, CleanDirectory, NEW f, NEW k, PlaceOK(f, k), PrivilegesAt(f, k, priv), FromFiles(f, k),
         NEW type \in EntryTypes, dir.files[f][k + 1].key = type, library = LibraryOf(<<f, k + 1>>), library \in Libraries,
         NEW value, value = dir.files[f][k + 1].value
  PROVE  check_entry(type, value) /\ (type = "function" => value # 0)
<1>1. PICK e : e = <<f, k + 1>>
      OBVIOUS
<1>2. /\ e \in Entries /\ TypeOf(e) = type /\ NameOf(e) = value /\ LibraryOf(e) = library /\ e[1] = f /\ e[2] = k + 1
      /\ k \in Nat /\ value \in Nat
  <2>1. f \in DOMAIN dir.files /\ k + 1 \in DOMAIN dir.files[f] /\ k \in Nat /\ dir.files[f][k + 1] \in FileKeys
    <3>1. k + 1 \in 1 .. k + 1
          BY Place
    <3> QED
        BY <3>1, Place DEF PlaceOK
  <2>2. e \in UNION {{g} \X DOMAIN dir.files[g] : g \in DOMAIN dir.files}
        BY <1>1, <2>1
  <2> QED
      BY <1>1, <2>1, <2>2 DEF Entries, TypeOf, NameOf, FileOf, FileKeys
<1>3. PrivilegeKnown(e) => priv[library] \in PrivilegesOf(e)
      BY <1>1, PrivilegeRead
<1>4. ASSUME NEW l \in Libraries, NEW t \in EntryTypes, NEW name \in Names(vec[l][t])
      PROVE  \E d \in Entries : /\ LibraryOf(d) = l /\ TypeOf(d) = t /\ NameOf(d) = name /\ d # e
                                /\ PrivilegeKnown(d) => priv[l] \in PrivilegesOf(d)
                                /\ d[1] = f => d[2] < k + 1
  <2>1. PICK d \in Entries : ReadAs(d, l, f, k) /\ TypeOf(d) = t /\ NameOf(d) = name
        BY DEF FromFiles
  <2>2. d[1] = f => d[2] < k + 1
    <3>1. d[2] \in DOMAIN dir.files[d[1]]
          BY DEF Entries
    <3>2. d[1] = f => d[2] \in Nat
          BY <3>1, Place
    <3> QED
        BY <1>2, <2>1, <3>2 DEF ReadAs
  <2>3. d # e
        BY <1>2, <2>2
  <2> QED
      BY <2>1, <2>2, <2>3 DEF ReadAs
<1>5. /\ type = "function" => value # 0
      /\ \A d \in Entries : d # e /\ NameOf(d) = value => ConflictFree(d, e)
      /\ \A d \in Entries : d # e /\ LibraryOf(d) = library =>
           d[1] = f /\ (d[2] < k + 1 /\ TypeOf(d) = type => NameOf(d) < value)
      BY <1>2 DEF CleanDirectory
<1>6. InOrder(type, value)
  <2> DEFINE v == vec[library][type]
  <2> SUFFICES ASSUME v # <<>> PROVE v[Len(v)] < value
      BY DEF InOrder
  <2>1. v[Len(v)] \in Names(v)
    <3>1. v \in Seq(Nat)
          BY DEF IInv, TypeOK
    <3>2. Len(v) \in DOMAIN v
          BY <3>1
    <3> QED
        BY <3>2 DEF Names
  <2>2. PICK d \in Entries : /\ LibraryOf(d) = library /\ TypeOf(d) = type /\ NameOf(d) = v[Len(v)] /\ d # e
                             /\ d[1] = f => d[2] < k + 1
        BY <1>4, <2>1, ZenonT(40)
  <2> QED
      BY <1>5, <2>2
<1>7. \A t \in EntryTypes : ~ HasName(library, t, value)
  <2> SUFFICES ASSUME NEW t \in EntryTypes, value \in Names(vec[library][t]) PROVE FALSE
      BY DEF HasName
  <2>1. PICK d \in Entries : LibraryOf(d) = library /\ NameOf(d) = value /\ d # e
        BY <1>4
  <2>2. LibraryOf(d) # LibraryOf(e)
        BY <1>5, <2>1 DEF ConflictFree
  <2> QED
      BY <1>2, <2>1, <2>2
<1>8. \A l \in DOMAIN vec : \A t \in EntryTypes : ~ Refuses(l, t, type, value)
  <2> SUFFICES ASSUME NEW l \in Libraries, NEW t \in EntryTypes, value \in Names(vec[l][t])
               PROVE  priv[l] # priv[library] \/ (t = type /\ <<LibraryName(l), value>> \in bypass)
      BY DEF Refuses, HasName, Libraries
  <2>1. PICK d \in Entries : /\ LibraryOf(d) = l /\ TypeOf(d) = t /\ NameOf(d) = value /\ d # e
                             /\ PrivilegeKnown(d) => priv[l] \in PrivilegesOf(d)
        BY <1>4
  <2>2. ConflictFree(d, e)
        BY <1>5, <2>1
  <2> QED
      BY <1>2, <1>3, <2>1, <2>2 DEF ConflictFree
<1> QED
    BY <1>5, <1>6, <1>7, <1>8 DEF check_entry

----------------------------------------------------------------------------
(* The steps.                                                               *)

LEMMA DirStays ==
  ASSUME dir' = dir
  PROVE  /\ Entries' = Entries
         /\ \A e : /\ LibraryOf(e)' = LibraryOf(e) /\ PrivilegesOf(e)' = PrivilegesOf(e)
                   /\ PrivilegeKnown(e)' = PrivilegeKnown(e) /\ TypeOf(e)' = TypeOf(e) /\ NameOf(e)' = NameOf(e)
         /\ \A f, k, x : /\ ModuleAt(f, k, x)' <=> ModuleAt(f, k, x)
                         /\ LibraryAt(f, k, x)' <=> LibraryAt(f, k, x)
                         /\ PrivilegesAt(f, k, x)' <=> PrivilegesAt(f, k, x)
<1>1. /\ \A e : FileOf(e)' = FileOf(e)
      /\ \A e, key : Before(e, key)' = Before(e, key)
      BY DEF FileOf, Before
<1>2. \A e : LibraryOf(e)' = LibraryOf(e) /\ TypeOf(e)' = TypeOf(e) /\ NameOf(e)' = NameOf(e)
      BY <1>1 DEF LibraryOf, TypeOf, NameOf
<1>3. \A e : PrivilegeKeysOf(e)' = PrivilegeKeysOf(e)
      BY <1>1, <1>2 DEF PrivilegeKeysOf
<1>4. \A e : PrivilegesOf(e)' = PrivilegesOf(e) /\ PrivilegeKnown(e)' = PrivilegeKnown(e)
      BY <1>1, <1>3 DEF PrivilegesOf, PrivilegeKnown
<1>5. Entries' = Entries
      BY <1>2 DEF Entries
<1>6. \A f, k, x : /\ ModuleAt(f, k, x)' <=> ModuleAt(f, k, x)
                   /\ LibraryAt(f, k, x)' <=> LibraryAt(f, k, x)
                   /\ PrivilegesAt(f, k, x)' <=> PrivilegesAt(f, k, x)
      BY <1>1, <1>2, <1>4 DEF ModuleAt, LibraryAt, PrivilegesAt
<1> QED
    BY <1>2, <1>4, <1>5, <1>6

LEMMA CleanStays ==
  ASSUME dir' = dir, bypass' = bypass
  PROVE  CleanDirectory' <=> CleanDirectory
<1>1. \A d, e : ConflictFree(d, e)' <=> ConflictFree(d, e)
      BY DirStays DEF ConflictFree
<1> QED
    BY <1>1, DirStays DEF CleanDirectory

\* The key at hand.
LEMMA NextKey ==
  ASSUME DirOK(dir), CleanDirectory, NEW f, NEW k, Reading(f, k), rest # <<>>
  PROVE  /\ PlaceOK(f, k) /\ Head(rest) = dir.files[f][k + 1] /\ k + 1 \in 0 .. Len(dir.files[f])
         /\ Tail(rest) = SubSeq(dir.files[f], k + 2, Len(dir.files[f])) /\ k + 1 + 1 = k + 2
         /\ Head(rest).key # "error" /\ (Head(rest).key # "firmware" => fw)
<1>1. f \in DOMAIN dir.files /\ k \in 0 .. Len(dir.files[f]) /\ rest = SubSeq(dir.files[f], k + 1, Len(dir.files[f]))
      BY DEF Reading
<1>2. dir.files[f] \in Seq(FileKeys)
      BY <1>1 DEF DirOK
<1>3. k \in Nat /\ k + 1 \in DOMAIN dir.files[f] /\ k + 1 \in 0 .. Len(dir.files[f])
      BY <1>1, <1>2
<1>4. PlaceOK(f, k)
      BY <1>1, <1>3 DEF PlaceOK
<1>5. Head(rest) = dir.files[f][k + 1] /\ Tail(rest) = SubSeq(dir.files[f], k + 2, Len(dir.files[f]))
      BY <1>1, <1>2, <1>3
<1>6. Head(rest).key # "error" /\ dir.files[f][1].key = "firmware"
      BY <1>1, <1>3, <1>5 DEF CleanDirectory
<1>7. Head(rest).key # "firmware" => fw
      BY <1>3, <1>5, <1>6 DEF Reading
<1>8. k + 1 + 1 = k + 2
      BY <1>3
<1> QED
    BY <1>3, <1>4, <1>5, <1>6, <1>7, <1>8

LEMMA FromFilesNext ==
  ASSUME dir' = dir, NEW f, NEW k
  PROVE  FromFiles(f, k)' <=>
           \A l \in Libraries' : \A t \in EntryTypes : \A name \in Names(vec'[l][t]) :
             \E d \in Entries :
               /\ d[1] \notin todo' /\ (d[1] = f => d[2] <= k)
               /\ LibraryOf(d) = l /\ TypeOf(d) = t /\ NameOf(d) = name
               /\ PrivilegeKnown(d) => priv'[l] \in PrivilegesOf(d)
<1>1. \A d, l : ReadAs(d, l, f, k)' <=>
        /\ d[1] \notin todo' /\ (d[1] = f => d[2] <= k)
        /\ LibraryOf(d) = l
        /\ PrivilegeKnown(d) => priv'[l] \in PrivilegesOf(d)
      BY DirStays DEF ReadAs
<1>2. \A d : TypeOf(d)' = TypeOf(d) /\ NameOf(d)' = NameOf(d)
      BY DirStays
<1>3. Entries' = Entries
      BY DirStays
<1>4. FromFiles(f, k)' <=>
        \A l \in Libraries' : \A t \in EntryTypes : \A name \in Names(vec'[l][t]) :
          \E d \in Entries' : ReadAs(d, l, f, k)' /\ TypeOf(d)' = t /\ NameOf(d)' = name
      BY DEF FromFiles, Names
<1> QED
    BY <1>1, <1>2, <1>3, <1>4

\* No entry is added, and a library that has any keeps its privilege.
LEMMA FromFilesStays ==
  ASSUME dir' = dir, todo' = todo, NEW f, NEW k, k \in Nat, DirOK(dir), f \in DOMAIN dir.files, FromFiles(f, k),
         \A l \in Libraries' : \A t \in EntryTypes : \A name \in Names(vec'[l][t]) :
           l \in Libraries /\ name \in Names(vec[l][t]) /\ priv'[l] = priv[l]
  PROVE  FromFiles(f, k + 1)'
<1> SUFFICES ASSUME NEW l \in Libraries', NEW t \in EntryTypes, NEW name \in Names(vec'[l][t])
             PROVE  \E d \in Entries : /\ d[1] \notin todo' /\ (d[1] = f => d[2] <= k + 1)
                                       /\ LibraryOf(d) = l /\ TypeOf(d) = t /\ NameOf(d) = name
                                       /\ PrivilegeKnown(d) => priv'[l] \in PrivilegesOf(d)
    BY FromFilesNext
<1>1. l \in Libraries /\ name \in Names(vec[l][t]) /\ priv'[l] = priv[l]
      OBVIOUS
<1>2. PICK d \in Entries : ReadAs(d, l, f, k) /\ TypeOf(d) = t /\ NameOf(d) = name
      BY <1>1 DEF FromFiles
<1>3. d[1] = f => d[2] \in Nat
  <2>1. d[2] \in DOMAIN dir.files[d[1]]
        BY DEF Entries
  <2>2. dir.files[f] \in Seq(FileKeys)
        BY DEF DirOK
  <2> QED
      BY <2>1, <2>2
<1>4. d[1] = f => d[2] <= k + 1
      BY <1>2, <1>3 DEF ReadAs
<1> QED
    BY <1>1, <1>2, <1>4 DEF ReadAs

\* The walk goes on to the next key.
LEMMA Moves ==
  ASSUME DirOK(dir), CleanDirectory, NEW f, NEW k, Reading(f, k), rest # <<>>,
         dir' = dir, todo' = todo, rest' = Tail(rest), fw' = (fw \/ Head(rest).key = "firmware"),
         ModuleAt(f, k + 1, module'), LibraryAt(f, k + 1, library'), PrivilegesAt(f, k + 1, priv'),
         FromFiles(f, k + 1)'
  PROVE  Position'
<1>1. /\ k + 1 \in 0 .. Len(dir.files[f]) /\ f \in DOMAIN dir.files \ todo /\ fw'
      /\ rest' = SubSeq(dir.files[f], k + 2, Len(dir.files[f])) /\ k + 1 + 1 = k + 2
      BY NextKey DEF Reading
<1>2. Reading(f, k + 1)'
      BY <1>1, DirStays DEF Reading
<1> QED
    BY <1>1, <1>2 DEF Position

LEMMA OpenFilePosition ==
  ASSUME TypeOK, DirOK(dir), Position, OpenFile
  PROVE  Position'
<1>1. PICK f \in todo : todo' = todo \ {f} /\ rest' = dir.files[f]
      BY DEF OpenFile
<1>2. /\ dir' = dir /\ fw' = fw /\ module' = module /\ library' = library /\ priv' = priv /\ vec' = vec
      BY DEF OpenFile, database
<1>3. CASE f \in DOMAIN dir.files
  <2>1. dir.files[f] \in Seq(FileKeys)
        BY <1>3 DEF DirOK
  <2>2. 0 \in 0 .. Len(dir.files[f]) /\ dir.files[f] = SubSeq(dir.files[f], 1, Len(dir.files[f]))
        BY <2>1
  <2>3. \A key : Before(<<f, 1>>, key) = {}
        BY DEF Before
  <2>4. ModuleAt(f, 0, module) /\ LibraryAt(f, 0, library) /\ PrivilegesAt(f, 0, priv)
        BY <2>3 DEF ModuleAt, LibraryAt, PrivilegesAt
  <2>5. Reading(f, 0)'
        BY <1>1, <1>2, <1>3, <2>2, <2>4, DirStays DEF Reading
  <2>6. FromFiles(f, 0)'
    <3>1. CASE Libraries = {}
          BY <1>2, <3>1 DEF FromFiles, Libraries
    <3>2. CASE \E g \in DOMAIN dir.files : \E k \in 0 .. Len(dir.files[g]) : Reading(g, k) /\ FromFiles(g, k)
      <4>1. PICK g \in DOMAIN dir.files : \E k \in 0 .. Len(dir.files[g]) : Reading(g, k) /\ FromFiles(g, k)
            BY <3>2
      <4>2. PICK k \in 0 .. Len(dir.files[g]) : FromFiles(g, k)
            BY <4>1
      <4> SUFFICES ASSUME NEW l \in Libraries', NEW t \in EntryTypes, NEW name \in Names(vec'[l][t])
                   PROVE  \E d \in Entries : /\ d[1] \notin todo' /\ (d[1] = f => d[2] <= 0)
                                             /\ LibraryOf(d) = l /\ TypeOf(d) = t /\ NameOf(d) = name
                                             /\ PrivilegeKnown(d) => priv'[l] \in PrivilegesOf(d)
          BY <1>2, FromFilesNext
      <4>3. l \in Libraries /\ name \in Names(vec[l][t])
            BY <1>2 DEF Libraries
      <4>4. PICK d \in Entries : ReadAs(d, l, g, k) /\ TypeOf(d) = t /\ NameOf(d) = name
            BY <4>2, <4>3 DEF FromFiles
      <4> QED
          BY <1>1, <1>2, <4>4 DEF ReadAs
    <3> QED
        BY <3>1, <3>2 DEF Position
  <2> QED
      BY <1>2, <1>3, <2>2, <2>5, <2>6 DEF Position
<1> QED
    BY <1>1, <1>3 DEF TypeOK

\* Keys that leave the context alone.
LEMMA PlainPosition ==
  ASSUME DirOK(dir), CleanDirectory, NEW f, NEW k, Reading(f, k), rest # <<>>,
         Head(rest).key \notin {"module", "library", "kernel"},
         dir' = dir, todo' = todo, rest' = Tail(rest), fw' = (fw \/ Head(rest).key = "firmware"),
         module' = module, library' = library, priv' = priv, FromFiles(f, k + 1)'
  PROVE  Position'
<1>1. PlaceOK(f, k) /\ Head(rest) = dir.files[f][k + 1]
      BY NextKey
<1>2. ModuleAt(f, k, module) /\ LibraryAt(f, k, library) /\ PrivilegesAt(f, k, priv)
      BY DEF Reading
<1>3. ModuleAt(f, k + 1, module) /\ LibraryAt(f, k + 1, library)
      BY <1>1, <1>2, ContextStays
<1>4. PrivilegesAt(f, k + 1, priv)
      BY <1>1, <1>2, PrivilegesStay
<1> QED
    BY <1>3, <1>4, Moves

LEMMA ContextPosition ==
  ASSUME TypeOK, DirOK(dir), CleanDirectory, NEW f, NEW k, Reading(f, k), FromFiles(f, k),
         database_firmware \/ library_nid
  PROVE  Position'
<1>1. /\ rest # <<>> /\ Head(rest).key \in {"firmware", "nid"}
      /\ dir' = dir /\ todo' = todo /\ rest' = Tail(rest) /\ fw' = (fw \/ Head(rest).key = "firmware")
      /\ module' = module /\ library' = library /\ priv' = priv /\ vec' = vec
      BY DEF TypeOK, database_firmware, library_nid, At, Continue, database
<1>2. k \in Nat /\ f \in DOMAIN dir.files
      BY <1>1, NextKey DEF PlaceOK
<1>3. FromFiles(f, k + 1)'
      BY <1>1, <1>2, FromFilesStays DEF Libraries
<1> QED
    BY <1>1, <1>3, PlainPosition

LEMMA ModulePosition ==
  ASSUME DirOK(dir), CleanDirectory, NEW f, NEW k, Reading(f, k), FromFiles(f, k), module_name
  PROVE  Position'
<1>1. /\ rest # <<>> /\ Head(rest).key = "module"
      /\ dir' = dir /\ todo' = todo /\ rest' = Tail(rest) /\ fw' = fw
      /\ library' = library /\ priv' = priv /\ vec' = vec
      BY DEF module_name, At, Continue
<1>2. PlaceOK(f, k) /\ Head(rest) = dir.files[f][k + 1] /\ fw
      BY <1>1, NextKey
<1>3. module' = <<dir.files[f][k + 1].value>>
      BY <1>2 DEF module_name, Value
<1>4. FromFiles(f, k + 1)'
      BY <1>1, <1>2, FromFilesStays DEF Libraries, PlaceOK
<1>5. ModuleAt(f, k + 1, module') /\ LibraryAt(f, k + 1, library')
      BY <1>1, <1>2, <1>3, AtModule
<1>6. PrivilegesAt(f, k + 1, priv')
      BY <1>1, <1>2, PrivilegesStay DEF Reading
<1> QED
    BY <1>1, <1>2, <1>4, <1>5, <1>6, Moves

LEMMA LibraryPosition ==
  ASSUME IInv, DirOK(dir), CleanDirectory, NEW f, NEW k, Reading(f, k), FromFiles(f, k), library_name
  PROVE  Position'
<1>1. /\ rest # <<>> /\ Head(rest).key = "library"
      /\ dir' = dir /\ todo' = todo /\ rest' = Tail(rest) /\ fw' = fw /\ module' = module
      BY DEF library_name, At, Continue
<1>2. PlaceOK(f, k) /\ Head(rest) = dir.files[f][k + 1] /\ fw
      BY <1>1, NextKey
<1>3. module # NULL /\ LibraryAt(f, k + 1, <<module[1], dir.files[f][k + 1].value>>)
      BY <1>1, <1>2, AtLibrary DEF Reading
<1>4. LibraryAt(f, k + 1, library')
      BY <1>2, <1>3 DEF library_name, Value
<1>5. /\ \A l \in Libraries : l \in Libraries' /\ priv'[l] = priv[l] /\ vec'[l] = vec[l]
      /\ \A l \in Libraries' \ Libraries : \A t \in EntryTypes : vec'[l][t] = <<>>
      /\ DOMAIN priv = Libraries /\ DOMAIN priv' = Libraries'
  <2>1. priv \in [Libraries -> Privileges] /\ DOMAIN priv = Libraries
        BY DEF IInv, TypeOK
  <2>2. CASE UNCHANGED <<priv, vec>>
        BY <2>1, <2>2 DEF Libraries
  <2>3. ASSUME NEW l \in Nat \X Nat, l \notin Libraries,
               vec' = With(vec, l, [t \in EntryTypes |-> <<>>]), priv' = With(priv, l, NONE)
        PROVE  /\ \A m \in Libraries : m \in Libraries' /\ priv'[m] = priv[m] /\ vec'[m] = vec[m]
               /\ \A m \in Libraries' \ Libraries : \A t \in EntryTypes : vec'[m][t] = <<>>
               /\ DOMAIN priv' = Libraries'
        BY <2>1, <2>3 DEF With, Libraries
  <2> QED
      BY <2>1, <2>2, <2>3, LibraryAdded
<1>6. FromFiles(f, k + 1)'
  <2>1. \A l \in Libraries' : \A t \in EntryTypes : \A name \in Names(vec'[l][t]) :
          l \in Libraries /\ name \in Names(vec[l][t]) /\ priv'[l] = priv[l]
        BY <1>5 DEF Names
  <2> QED
      BY <1>1, <1>2, <2>1, FromFilesStays DEF PlaceOK
<1>7. ModuleAt(f, k + 1, module')
      BY <1>1, <1>2, ContextStays DEF Reading
<1>8. PrivilegesAt(f, k + 1, priv')
      BY <1>1, <1>2, <1>5, PrivilegesStay DEF Reading
<1> QED
    BY <1>1, <1>2, <1>4, <1>6, <1>7, <1>8, Moves

LEMMA PrivilegePosition ==
  ASSUME IInv, DirOK(dir), CleanDirectory, NEW f, NEW k, Reading(f, k), FromFiles(f, k),
         library_privilege, ~ late'
  PROVE  Position'
<1>1. /\ rest # <<>> /\ Head(rest).key = "kernel"
      /\ dir' = dir /\ todo' = todo /\ rest' = Tail(rest) /\ fw' = fw
      /\ module' = module /\ library' = library /\ vec' = vec
      /\ priv' = [priv EXCEPT ![library] = Value]
      /\ HasEntries(library) => priv[library] = Value
      BY DEF library_privilege, At, Continue
<1>2. PlaceOK(f, k) /\ Head(rest) = dir.files[f][k + 1] /\ fw
      BY <1>1, NextKey
<1>3. library = LibraryOf(<<f, k + 1>>) /\ library \in DOMAIN priv /\ DOMAIN priv = Libraries
  <2>1. library = LibraryOf(<<f, k + 1>>) /\ library # NULL
        BY <1>1, <1>2, LibraryKnown DEF Reading, LibraryKeys
  <2> QED
      BY <2>1 DEF IInv, TypeOK
<1>4. PrivilegesAt(f, k + 1, priv')
      BY <1>1, <1>2, <1>3, AtPrivilege DEF Reading, Value
<1>5. ModuleAt(f, k + 1, module') /\ LibraryAt(f, k + 1, library')
      BY <1>1, <1>2, ContextStays DEF Reading
<1>6. FromFiles(f, k + 1)'
  <2>1. ASSUME NEW l \in Libraries', NEW t \in EntryTypes, NEW name \in Names(vec'[l][t])
        PROVE  l \in Libraries /\ name \in Names(vec[l][t]) /\ priv'[l] = priv[l]
    <3>1. l \in Libraries /\ name \in Names(vec[l][t]) /\ vec[l][t] # <<>>
          BY <1>1 DEF Libraries, Names
    <3>2. l = library => priv[library] = Value
          BY <1>1, <3>1 DEF HasEntries
    <3> QED
        BY <1>1, <1>3, <3>1, <3>2
  <2> QED
      BY <1>1, <1>2, <2>1, FromFilesStays DEF PlaceOK
<1> QED
    BY <1>1, <1>2, <1>4, <1>5, <1>6, Moves

LEMMA EntryPosition ==
  ASSUME IInv, DirOK(dir), CleanDirectory, NEW f, NEW k, Reading(f, k), FromFiles(f, k),
         NEW type \in EntryTypes, Entry(type)
  PROVE  Position' /\ pc' = "files"
<1>1. /\ rest # <<>> /\ Head(rest).key = type /\ pc = "files"
      /\ dir' = dir /\ todo' = todo /\ fw' = fw
      /\ module' = module /\ library' = library /\ priv' = priv
      BY DEF Entry, At
<1>2. /\ PlaceOK(f, k) /\ Head(rest) = dir.files[f][k + 1] /\ fw /\ k \in Nat /\ f \in DOMAIN dir.files
      /\ k + 1 \in DOMAIN dir.files[f] /\ f \notin todo
  <2>1. type # "firmware"
        BY DEF EntryTypes
  <2>2. PlaceOK(f, k) /\ Head(rest) = dir.files[f][k + 1] /\ fw
        BY <1>1, <2>1, NextKey
  <2> QED
      BY <2>2 DEF PlaceOK, Reading
<1>3. library = LibraryOf(<<f, k + 1>>) /\ library \in Libraries
  <2>1. library = LibraryOf(<<f, k + 1>>) /\ library # NULL
        BY <1>1, <1>2, LibraryKnown DEF Reading, LibraryKeys
  <2> QED
      BY <2>1 DEF IInv, TypeOK
<1>4. check_entry(type, Value) /\ (type = "function" => Value # 0)
      BY <1>1, <1>2, <1>3, CheckPasses DEF Reading, Value
<1>5. /\ vec' = [vec EXCEPT ![library][type] = Append(@, Value)]
      /\ rest' = Tail(rest) /\ pc' = pc
      BY <1>4 DEF Entry, Continue
<1>6. /\ Libraries' = Libraries
      /\ \A l \in Libraries : \A t \in EntryTypes :
           Names(vec'[l][t]) = IF l = library /\ t = type THEN Names(vec[l][t]) \cup {Value} ELSE Names(vec[l][t])
  <2>1. CASE UNCHANGED vec
    <3>1. vec[library][type] \in Seq(Nat)
          BY <1>3 DEF IInv, TypeOK
    <3>2. vec'[library][type] = Append(vec[library][type], Value)
          BY <1>3, <1>5 DEF IInv, TypeOK
    <3> QED
        BY <2>1, <3>1, <3>2
  <2> QED
      BY <2>1, EntryAdded
<1>7. PrivilegeKnown(<<f, k + 1>>) => priv[library] \in PrivilegesOf(<<f, k + 1>>)
      BY <1>2, <1>3, PrivilegeRead DEF Reading
<1>8. FromFiles(f, k + 1)'
  <2> SUFFICES ASSUME NEW l \in Libraries, NEW t \in EntryTypes, NEW name \in Names(vec'[l][t])
               PROVE  \E d \in Entries : /\ d[1] \notin todo' /\ (d[1] = f => d[2] <= k + 1)
                                         /\ LibraryOf(d) = l /\ TypeOf(d) = t /\ NameOf(d) = name
                                         /\ PrivilegeKnown(d) => priv'[l] \in PrivilegesOf(d)
      BY <1>1, <1>6, FromFilesNext
  <2>1. CASE name \in Names(vec[l][t])
    <3>1. PICK d \in Entries : ReadAs(d, l, f, k) /\ TypeOf(d) = t /\ NameOf(d) = name
          BY <2>1 DEF FromFiles
    <3>2. d[1] = f => d[2] \in Nat
      <4>1. d[2] \in DOMAIN dir.files[d[1]]
            BY DEF Entries
      <4> QED
          BY <1>2, <4>1, Place
    <3> QED
        BY <1>1, <1>2, <3>1, <3>2 DEF ReadAs
  <2>2. CASE name \notin Names(vec[l][t])
    <3>1. l = library /\ t = type /\ name = Value
          BY <1>6, <2>2
    <3>2. PICK d : d = <<f, k + 1>>
          OBVIOUS
    <3>3. d \in UNION {{g} \X DOMAIN dir.files[g] : g \in DOMAIN dir.files}
          BY <1>2, <3>2
    <3>4. TypeOf(d) = type /\ NameOf(d) = Value /\ d[1] = f /\ d[2] = k + 1
          BY <1>1, <1>2, <3>2 DEF TypeOf, NameOf, FileOf, Value
    <3>5. d \in Entries
          BY <3>3, <3>4 DEF Entries
    <3> QED
        BY <1>1, <1>2, <1>3, <1>7, <3>1, <3>2, <3>4, <3>5
  <2> QED
      BY <2>1, <2>2
<1>9. Head(rest).key \notin {"module", "library", "kernel", "firmware"}
      BY <1>1 DEF EntryTypes
<1> QED
    BY <1>1, <1>2, <1>5, <1>8, <1>9, PlainPosition

\* The keys of a library have one, and no key is bad.
LEMMA NoFailure ==
  ASSUME DirOK(dir), CleanDirectory, NEW f, NEW k, Reading(f, k)
  PROVE  ~ NullLibrary /\ ~ BadKey
<1>1. CASE NullLibrary
  <2>1. rest # <<>> /\ Head(rest).key \in LibraryKeys /\ library = NULL
        BY <1>1 DEF NullLibrary
  <2>2. PlaceOK(f, k) /\ Head(rest) = dir.files[f][k + 1]
        BY <2>1, NextKey
  <2> QED
      BY <2>1, <2>2, LibraryKnown DEF Reading
<1>2. CASE BadKey
      BY <1>2, NextKey DEF BadKey, At
<1> QED
    BY <1>1, <1>2

LEMMA ReadStep ==
  ASSUME IInv, InputKept, ReadInv, [Next]_vars
  PROVE  ReadInv'
<1>1. dir' = dir /\ DirOK(dir) /\ (pc' = "bypass" => pc = "bypass" /\ rest' = rest) /\ (late => late')
  <2>1. dir' = dir /\ (late => late')
    <3>1. CASE LoadBypass \/ OpenFile \/ Exit \/ NullLibrary \/ BadKey \/ library_nid
          BY <3>1 DEF LoadBypass, OpenFile, Exit, NullLibrary, BadKey, library_nid, database
    <3>2. CASE library_privilege
          BY <3>2 DEF library_privilege
    <3>3. CASE \/ database_firmware \/ module_name \/ library_name
               \/ entry_function \/ entry_variable
          BY <3>3 DEF database_firmware, module_name, library_name, entry_function, entry_variable, Entry
    <3>4. CASE Terminated \/ UNCHANGED vars
          BY <3>4 DEF Terminated, vars
    <3> QED
        BY <3>1, <3>2, <3>3, <3>4 DEF Next
  <2>2. pc' = "bypass" => pc = "bypass" /\ rest' = rest
    <3>1. CASE LoadBypass \/ OpenFile \/ Exit \/ NullLibrary \/ BadKey
          BY <3>1 DEF LoadBypass, OpenFile, Exit, NullLibrary, BadKey, At, Stop
    <3>2. CASE \/ database_firmware \/ module_name \/ library_name \/ library_nid \/ library_privilege
               \/ entry_function \/ entry_variable
          BY <3>2 DEF database_firmware, module_name, library_name, library_nid, library_privilege,
                      entry_function, entry_variable, Entry, At, Continue, Stop
    <3>3. CASE Terminated \/ UNCHANGED vars
          BY <3>3 DEF Terminated, vars
    <3> QED
        BY <3>1, <3>2, <3>3 DEF Next
  <2> QED
      BY <2>1, <2>2, DirsAssumption DEF InputKept
<1> SUFFICES ASSUME CleanDirectory', ~ late'
             PROVE  pc' \notin {"failure", "crash"} /\ (pc' = "files" => Position')
    BY <1>1 DEF ReadInv
<1>2. CASE LoadBypass
  <2>1. dir.bypass_opens
        BY <1>1 DEF CleanDirectory
  <2>2. pc' = "files" /\ rest' = <<>> /\ Libraries' = {}
        BY <1>2, <2>1 DEF LoadBypass, ReadInv, IInv, BypassFirst, Libraries, database
  <2> QED
      BY <2>2 DEF Position
<1>3. CASE ~ LoadBypass
  <2>1. bypass' = bypass
        BY <1>3 DEF Next, OpenFile, Exit, database_firmware, module_name, library_name, library_nid,
               library_privilege, entry_function, entry_variable, Entry, NullLibrary, BadKey, Terminated, vars
  <2>2. CleanDirectory /\ ~ late
        BY <1>1, <2>1, CleanStays
  <2>3. pc \notin {"failure", "crash"} /\ (pc = "files" => Position)
        BY <2>2 DEF ReadInv
  <2>4. CASE OpenFile
        BY <1>1, <2>3, <2>4, OpenFilePosition DEF OpenFile, IInv
  <2>5. CASE Exit
    <3>1. dir.files # <<>>
          BY <2>2 DEF CleanDirectory
    <3> QED
        BY <2>5, <3>1 DEF Exit
  <2>6. CASE Terminated \/ UNCHANGED vars
    <3>1. pc' = pc /\ rest' = rest /\ todo' = todo /\ fw' = fw /\ module' = module /\ library' = library
          /\ priv' = priv /\ vec' = vec
          BY <2>6 DEF Terminated, vars
    <3>2. Position => Position'
      <4>1. Libraries' = Libraries
            BY <3>1 DEF Libraries
      <4>2. \A f, k : Reading(f, k)' <=> Reading(f, k)
            BY <1>1, <3>1, DirStays DEF Reading
      <4>3. ASSUME NEW f, NEW k, FromFiles(f, k) PROVE FromFiles(f, k)'
        <5>1. \A l \in Libraries' : \A t \in EntryTypes : \A name \in Names(vec'[l][t]) :
                l \in Libraries /\ name \in Names(vec[l][t])
              BY <3>1, <4>1
        <5>2. \A l \in Libraries : \A t \in EntryTypes : \A name \in Names(vec[l][t]) :
                \E d \in Entries : ReadAs(d, l, f, k) /\ TypeOf(d) = t /\ NameOf(d) = name
              BY <4>3 DEF FromFiles
        <5>3. \A d, l : ReadAs(d, l, f, k) =>
                /\ d[1] \notin todo' /\ (d[1] = f => d[2] <= k)
                /\ LibraryOf(d) = l
                /\ PrivilegeKnown(d) => priv'[l] \in PrivilegesOf(d)
              BY <3>1 DEF ReadAs
        <5> QED
            BY <1>1, <5>1, <5>2, <5>3, FromFilesNext
      <4> QED
          BY <1>1, <3>1, <4>1, <4>2, <4>3 DEF Position
    <3> QED
        BY <2>3, <3>1, <3>2
  <2>7. ASSUME \/ database_firmware \/ module_name \/ library_name \/ library_nid \/ library_privilege
               \/ entry_function \/ entry_variable \/ NullLibrary \/ BadKey
        PROVE  pc' = "files" /\ Position'
    <3>1. pc = "files" /\ rest # <<>>
          BY <2>7 DEF database_firmware, module_name, library_name, library_nid, library_privilege,
                      entry_function, entry_variable, Entry, NullLibrary, BadKey, At
    <3>2. PICK f \in DOMAIN dir.files : \E k \in 0 .. Len(dir.files[f]) : Reading(f, k) /\ FromFiles(f, k)
          BY <2>3, <3>1 DEF Position
    <3>3. PICK k \in 0 .. Len(dir.files[f]) : Reading(f, k) /\ FromFiles(f, k)
          BY <3>2
    <3>4. CASE database_firmware \/ library_nid
          BY <1>1, <2>2, <3>1, <3>3, <3>4, ContextPosition DEF IInv, database_firmware, library_nid, Continue
    <3>5. CASE module_name
          BY <1>1, <2>2, <3>1, <3>3, <3>5, ModulePosition DEF module_name, Continue
    <3>6. CASE library_name
          BY <1>1, <2>2, <3>1, <3>3, <3>6, LibraryPosition DEF library_name, Continue
    <3>7. CASE library_privilege
          BY <1>1, <2>2, <3>1, <3>3, <3>7, PrivilegePosition DEF library_privilege, Continue
    <3>8. CASE entry_function \/ entry_variable
          BY <1>1, <2>2, <3>3, <3>8, EntryPosition DEF entry_function, entry_variable, EntryTypes
    <3>9. ~ NullLibrary /\ ~ BadKey
          BY <1>1, <2>2, <3>3, NoFailure
    <3> QED
        BY <2>7, <3>4, <3>5, <3>6, <3>7, <3>8, <3>9
  <2> QED
      BY <1>3, <2>4, <2>5, <2>6, <2>7 DEF Next
<1> QED
    BY <1>2, <1>3

\* vita-nid-check refuses no directory that keeps the rules, whatever the order
\* in which it finds the files, unless a privilege came late: each entry, checked
\* against what is in the database when it is read, passes every check.
THEOREM RefusedForCauseAlways == Spec => []RefusedForCause
<1>1. Init => IInv /\ InputKept /\ ReadInv
  <2>1. Init => pc = "bypass" /\ rest = <<>>
        BY DEF Init
  <2> QED
      BY <2>1, InitIInv DEF ReadInv, Init, InputKept
<1>2. IInv /\ InputKept /\ ReadInv /\ [Next]_vars => (IInv /\ InputKept /\ ReadInv)'
      BY NextIInv, ReadStep
<1>3. IInv /\ InputKept /\ ReadInv => RefusedForCause
      BY DEF ReadInv, RefusedForCause
<1> QED
    BY <1>1, <1>2, <1>3, PTL DEF Spec
=============================================================================
