------------------------------ MODULE NidCheck ------------------------------
(***************************************************************************)
(* vita-nid-check: reads every file of a NID database directory and checks *)
(* the entries against those read before, while it adds them to the        *)
(* database (vita-nid-check.c, vita-nid-bypass.c, with the database of     *)
(* vita-nid-db.c and the walk of vita-nid-db-yml.c).                       *)
(*                                                                         *)
(* A file is the sequence of its keys, in the order of the document; the   *)
(* walk calls one callback for each.  Keys that play no part in the check  *)
(* are left out.  Modules, libraries and entries are named by numbers;     *)
(* the order of numbers is that of strcmp(), and 0 is the empty name.      *)
(***************************************************************************)
EXTENDS Naturals, Sequences

CONSTANT Dirs      \* the inputs considered (see DirOK)

VARIABLES dir,     \* the input; never changes
          pc,      \* what main() is doing, or how it ended
          bypass,  \* the bypass list: pairs of a library and an entry
          todo,    \* files of the directory not read yet
          rest,    \* keys left of the file being read
          fw,      \* context->pFirmware is set
          module,  \* context->pModule: <<name>>, or NULL
          library, \* context->pLibrary: <<name of the module, name>>, or NULL
          priv,    \* library -> its privilege
          vec,     \* library -> type -> names of the entries, in order of arrival
          late     \* a library had entries when its privilege changed; not in the code

vars == <<dir, pc, bypass, todo, rest, fw, module, library, priv, vec, late>>

EntryTypes == {"function", "variable"}
NONE == 0
USER == 1
KERNEL == 2

NULL == <<>>
LibraryName(l) == l[2]

----------------------------------------------------------------------------
(* Inputs.  The keys of a library come after its name and a library after   *)
(* the name of its module, with no other module in between, because the     *)
(* mappings are nested; the order of the keys of one mapping is free.       *)

\* "error" stands for whatever makes a handler of the walk return -1: a value
\* of the wrong kind, or a file that is no YAML.
LibraryKeys == {"nid", "kernel"} \cup EntryTypes
Keys == {"firmware", "module", "library", "error"} \cup LibraryKeys
FileKeys == {k \in [key : Keys, value : Nat] : k.key = "kernel" => k.value \in {USER, KERNEL}}

DirOK(d) ==
  /\ d.files \in Seq(Seq(FileKeys))
  /\ \A f \in DOMAIN d.files : \A i \in DOMAIN d.files[f] :
       LET k == d.files[f][i]
       IN /\ k.key = "library" => \E j \in 1 .. i - 1 : d.files[f][j].key = "module"
          /\ k.key \in LibraryKeys =>
               \E j \in 1 .. i - 1 : /\ d.files[f][j].key = "library"
                                    /\ \A m \in j + 1 .. i - 1 : d.files[f][m].key # "module"
  /\ d.bypass \in Seq((Nat \X Nat) \cup {NULL})
  /\ d.bypass_opens \in BOOLEAN

ASSUME DirsAssumption == \A d \in Dirs : DirOK(d)

Init ==
  /\ dir \in Dirs
  /\ pc = "bypass"
  /\ bypass = {}
  /\ todo = DOMAIN dir.files
  /\ rest = <<>>
  /\ fw = FALSE
  /\ module = NULL
  /\ library = NULL
  /\ priv = <<>>
  /\ vec = <<>>
  /\ late = FALSE

database == <<fw, module, library, priv, vec, late>>

----------------------------------------------------------------------------
(* main(): the bypass list, then the files in the order of the directory.   *)

\* An item of the wrong kind ends the reading; load_nid_db_bypass_by_path()
\* reports it and returns 0, with what was read up to there.
LoadBypass ==
  /\ pc = "bypass"
  /\ IF dir.bypass_opens
     THEN /\ pc' = "files"
          /\ bypass' = {dir.bypass[i] : i \in {n \in DOMAIN dir.bypass : \A j \in 1 .. n : dir.bypass[j] # NULL}}
     ELSE pc' = "failure" /\ UNCHANGED bypass
  /\ UNCHANGED <<dir, todo, rest, database>>

\* add_nid_db_by_path(), on whichever file comes next.
OpenFile ==
  /\ pc = "files" /\ rest = <<>>
  /\ \E f \in todo : todo' = todo \ {f} /\ rest' = dir.files[f]
  /\ UNCHANGED <<dir, pc, bypass, database>>

\* fs_list_execute() fails on an empty directory.
Exit ==
  /\ pc = "files" /\ rest = <<>> /\ todo = {}
  /\ pc' = IF dir.files = <<>> THEN "failure" ELSE "success"
  /\ UNCHANGED <<dir, bypass, todo, rest, database>>

----------------------------------------------------------------------------
(* The callbacks.                                                           *)

\* The walk is at a key of this name; it goes on, or stops for good.
At(key) == pc = "files" /\ rest # <<>> /\ Head(rest).key = key
Value == Head(rest).value
Continue == rest' = Tail(rest) /\ UNCHANGED pc
Stop(how) == pc' = how /\ UNCHANGED rest

database_firmware ==
  /\ At("firmware")
  /\ fw' = TRUE
  /\ Continue
  /\ UNCHANGED <<dir, bypass, todo, module, library, priv, vec, late>>

\* db_search_or_new_module(): without a firmware there is no module.
module_name ==
  /\ At("module")
  /\ module' = IF fw THEN <<Value>> ELSE NULL
  /\ Continue
  /\ UNCHANGED <<dir, bypass, todo, fw, library, priv, vec, late>>

\* A function with one more element.
With(f, x, y) == [z \in DOMAIN f \cup {x} |-> IF z = x THEN y ELSE f[z]]

\* Mutant: db_new_library() leaves the privilege unset.
library_name_NoPrivilege ==
  /\ At("library")
  /\ Continue
  /\ IF module = NULL
     THEN library' = NULL /\ UNCHANGED vec
     ELSE LET l == <<module[1], Value>>
          IN /\ library' = l
             /\ vec' = IF l \in DOMAIN vec THEN vec ELSE With(vec, l, [t \in EntryTypes |-> <<>>])
  /\ UNCHANGED <<dir, bypass, todo, fw, module, priv, late>>

\* db_search_or_new_library()
library_name ==
  /\ At("library")
  /\ Continue
  /\ IF module = NULL
     THEN library' = NULL /\ UNCHANGED <<priv, vec>>
     ELSE LET l == <<module[1], Value>>
          IN /\ library' = l
             /\ priv' = IF l \in DOMAIN vec THEN priv ELSE With(priv, l, NONE)
             /\ vec' = IF l \in DOMAIN vec THEN vec ELSE With(vec, l, [t \in EntryTypes |-> <<>>])
  /\ UNCHANGED <<dir, bypass, todo, fw, module, late>>

\* The NID of a library is kept, and read by no check.
library_nid ==
  /\ At("nid") /\ library # NULL
  /\ Continue
  /\ UNCHANGED <<dir, bypass, todo, database>>

HasEntries(l) == \E t \in EntryTypes : vec[l][t] # <<>>

library_privilege ==
  /\ At("kernel") /\ library # NULL
  /\ priv' = [priv EXCEPT ![library] = Value]
  /\ late' = (late \/ (HasEntries(library) /\ priv[library] # Value))
  /\ Continue
  /\ UNCHANGED <<dir, bypass, todo, fw, module, library, vec>>

----------------------------------------------------------------------------
(* Entries.                                                                 *)

Names(s) == {s[i] : i \in DOMAIN s}

\* Mutant: the variables of a library are looked for among its functions.
HasName_WrongVector(l, t, name) == name \in Names(vec[l]["function"])

HasName(l, t, name) == name \in Names(vec[l][t])

\* Mutant: the order of a variable is looked up among the functions.
InOrder_WrongVector(type, name) ==
  LET v == vec[library]["function"]
  IN v # <<>> => v[Len(v)] < name

\* The last entry of the vector comes before the new one.
InOrder(type, name) ==
  LET v == vec[library][type]
  IN v # <<>> => v[Len(v)] < name

\* Mutants: the bypass list excuses an entry of another type as well; the
\* privilege is not looked at.
Refuses_BypassFirst(l, t, type, name) ==
  /\ HasName(l, t, name)
  /\ priv[l] = priv[library]
  /\ <<LibraryName(l), name>> \notin bypass
Refuses_AnyPrivilege(l, t, type, name) ==
  /\ HasName(l, t, name)
  /\ t # type \/ <<LibraryName(l), name>> \notin bypass

\* function_callback() refuses the new entry because of one of this type in l:
\* the bypass list is asked about l, the library that was read first.
Refuses(l, t, type, name) ==
  /\ HasName(l, t, name)
  /\ priv[l] = priv[library]
  /\ t # type \/ <<LibraryName(l), name>> \notin bypass

\* _check_entry()
check_entry(type, name) ==
  /\ InOrder(type, name)
  /\ \A t \in EntryTypes : ~ HasName(library, t, name)
  /\ \A l \in DOMAIN vec : \A t \in EntryTypes : ~ Refuses(l, t, type, name)

\* entry_function() and entry_variable(); only the former minds an empty name.
Entry(type) ==
  /\ At(type) /\ library # NULL
  /\ IF check_entry(type, Value) /\ (type = "function" => Value # 0)
     THEN /\ vec' = [vec EXCEPT ![library][type] = Append(@, Value)]
          /\ Continue
     ELSE UNCHANGED vec /\ Stop("failure")
  /\ UNCHANGED <<dir, bypass, todo, fw, module, library, priv, late>>

entry_function == Entry("function")
entry_variable == Entry("variable")

\* The keys of a library that could not be created go to a null pointer.
NullLibrary ==
  /\ pc = "files" /\ rest # <<>>
  /\ Head(rest).key \in LibraryKeys /\ library = NULL
  /\ Stop("crash")
  /\ UNCHANGED <<dir, bypass, todo, database>>

BadKey ==
  /\ At("error")
  /\ Stop("failure")
  /\ UNCHANGED <<dir, bypass, todo, database>>

Terminated ==
  /\ pc \in {"success", "failure", "crash"}
  /\ UNCHANGED vars

Next ==
  \/ LoadBypass \/ OpenFile \/ Exit
  \/ database_firmware \/ module_name \/ library_name \/ library_nid \/ library_privilege
  \/ entry_function \/ entry_variable \/ NullLibrary \/ BadKey
  \/ Terminated

Spec == Init /\ [][Next]_vars

----------------------------------------------------------------------------
(* Properties.                                                              *)

Libraries == DOMAIN vec
Privileges == {NONE, USER, KERNEL}

\* Every variable has its type.
TypeOK ==
  /\ pc \in {"bypass", "files", "success", "failure", "crash"}
  /\ bypass \subseteq Nat \X Nat
  /\ todo \subseteq DOMAIN dir.files
  /\ rest \in Seq(FileKeys)
  /\ fw \in BOOLEAN
  /\ module \in Seq(Nat) /\ Len(module) \in 0 .. 1
  /\ library \in {NULL} \cup Libraries
  /\ Libraries \subseteq Nat \X Nat
  /\ priv \in [Libraries -> Privileges]
  /\ vec \in [Libraries -> [EntryTypes -> Seq(Nat)]]
  /\ late \in BOOLEAN

Ascending(s) == \A i, j \in DOMAIN s : i < j => s[i] < s[j]

\* "Is entry sorted" (README.md:130): the functions and the variables of each
\* library are in strictly ascending order, through all the files that add to it.
EntriesSorted == \A l \in Libraries : \A t \in EntryTypes : Ascending(vec[l][t])

\* "RULE: Library cannot have same name entry" (vita-nid-check.c:154), neither
\* among its functions nor among its variables nor across both.
LibraryNamesUnique ==
  \A l \in Libraries : \A t, u \in EntryTypes :
    \A i \in DOMAIN vec[l][t], j \in DOMAIN vec[l][u] :
      vec[l][t][i] = vec[l][u][j] => t = u /\ i = j

\* Two libraries of the same privilege have an entry of the same name only if
\* both are of one type and the bypass list excuses one of the two.
DuplicatesExcused ==
  \A l, m \in Libraries : \A t, u \in EntryTypes :
    \A name \in Names(vec[l][t]) \cap Names(vec[m][u]) :
      l # m /\ priv[l] = priv[m] =>
        t = u /\ (<<LibraryName(l), name>> \in bypass \/ <<LibraryName(m), name>> \in bypass)

\* The check of one entry at a time against those before it establishes
\* the rule for the database as a whole, in whatever order the files came;
\* unless a library changed its privilege when it already had entries.
NoDuplicatedName == ~ late => DuplicatesExcused

\* "Is no duplicated name" (README.md:131): the same without the exception.
AcceptedHasNoDuplicates == pc = "success" => DuplicatesExcused

\* "failed bypass loading" (vita-nid-check.c:352): a bypass list that cannot be
\* read to its end makes the tool fail.
BypassErrorReported ==
  (\E i \in DOMAIN dir.bypass : dir.bypass[i] = NULL) => pc # "success"

(* The rules for a directory as a whole, independent of any order of files. *)

FileOf(e) == dir.files[e[1]]
Before(e, key) == {i \in 1 .. e[2] - 1 : FileOf(e)[i].key = key}
LastOf(S) == CHOOSE i \in S : \A j \in S : j <= i
NameOf(e) == FileOf(e)[e[2]].value
TypeOf(e) == FileOf(e)[e[2]].key
LibraryOf(e) == <<FileOf(e)[LastOf(Before(e, "module"))].value, FileOf(e)[LastOf(Before(e, "library"))].value>>
Entries == {e \in UNION {{f} \X DOMAIN dir.files[f] : f \in DOMAIN dir.files} : TypeOf(e) \in EntryTypes}

\* The privileges the file of an entry gives to its library, one before the entry.
PrivilegeKeysOf(e) ==
  {n \in DOMAIN FileOf(e) : FileOf(e)[n].key = "kernel" /\ LibraryOf(<<e[1], n>>) = LibraryOf(e)}
PrivilegesOf(e) == {FileOf(e)[n].value : n \in PrivilegeKeysOf(e)}
PrivilegeKnown(e) == \E n \in PrivilegeKeysOf(e) : n < e[2]

ConflictFree(d, e) ==
  /\ LibraryOf(d) # LibraryOf(e)
  /\ \/ /\ PrivilegesOf(d) \cap PrivilegesOf(e) = {}
        /\ PrivilegeKnown(d) /\ PrivilegeKnown(e)
     \/ /\ TypeOf(d) = TypeOf(e)
        /\ <<LibraryName(LibraryOf(d)), NameOf(d)>> \in bypass
        /\ <<LibraryName(LibraryOf(e)), NameOf(e)>> \in bypass

CleanDirectory ==
  /\ dir.bypass_opens /\ dir.files # <<>>
  /\ \A f \in DOMAIN dir.files :
       /\ dir.files[f] # <<>> /\ dir.files[f][1].key = "firmware"
       /\ \A i \in DOMAIN dir.files[f] : dir.files[f][i].key # "error"
  /\ \A e \in Entries : TypeOf(e) = "function" => NameOf(e) # 0
  /\ \A d, e \in Entries :
       d # e => /\ NameOf(d) = NameOf(e) => ConflictFree(d, e)
                /\ LibraryOf(d) = LibraryOf(e) =>
                     d[1] = e[1] /\ (d[2] < e[2] /\ TypeOf(d) = TypeOf(e) => NameOf(d) < NameOf(e))

\* vita-nid-check refuses no directory that keeps the rules, whatever the order
\* in which it finds the files; unless a privilege came late.
RefusedForCause == pc \in {"failure", "crash"} /\ ~ late => ~ CleanDirectory
=============================================================================
