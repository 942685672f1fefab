---------------------------- MODULE ExportParse ----------------------------
(***************************************************************************)
(* The module configuration (vita-export-parse.c): a YAML document becomes *)
(* a vita_export_t, by one handler for each key in the order of the        *)
(* document; without a configuration a default is generated.               *)
(*                                                                         *)
(* A document is the flat sequence of its keys; "library" opens a library  *)
(* and "end" closes it, and the elements of "functions" and "variables"    *)
(* are keys of their own.  Names are numbers.  A hash is the sequence of   *)
(* what is hashed, so that equal hashes are hashes of equal things.        *)
(***************************************************************************)
EXTENDS Naturals, Sequences

CONSTANTS Configs,           \* the inputs considered (see ConfigOK)
          WORD, SHORT, BYTE  \* 2^32, 2^16 and 2^8

VARIABLES config, \* the input; never changes
          pc,     \* what is being done, or how it ended
          rest,   \* number of the next key
          export, \* the vita_export_t being filled
          lib,    \* the vita_library_export being filled, or NULL
          heap    \* blocks not freed: each is named by the key that allocates it

vars == <<config, pc, rest, export, lib, heap>>

ASSUME WidthAssumption ==
  /\ WORD \in Nat /\ SHORT \in Nat /\ BYTE \in Nat
  /\ 1 < BYTE /\ BYTE < SHORT /\ SHORT < WORD

NULL == <<>>

\* "error" stands for any value of the wrong kind and any unknown key.
EntryPoints == {"start", "bootstart", "stop", "exit"}
Flags == {"process_image", "imagemodule"}
Numbers == {"attributes", "major", "minor", "nid"}
SymbolKeys == {"function", "variable"}
ModuleKeys == EntryPoints \cup Flags \cup Numbers
LibraryKeys == {"syscall", "libnid", "version"} \cup SymbolKeys
Keys == [key : ModuleKeys \cup LibraryKeys \cup {"library", "end", "error"},
         value : Nat,
         nid : {NULL} \cup [1 .. 1 -> Nat]]  \* of a symbol given as "name: nid"

\* The libraries are nested in the document, and hold the keys of libraries.
InLibrary(keys, i) ==
  \E j \in 1 .. i - 1 : /\ keys[j].key = "library"
                        /\ \A k \in j .. i - 1 : keys[k].key # "end"

ConfigOK(c) ==
  /\ c.given \in BOOLEAN      \* there is a configuration file
  /\ c.opens \in BOOLEAN      \* it can be opened
  /\ c.parses \in BOOLEAN     \* it is one YAML document
  /\ c.root \in {"good", "shape", "name"}  \* not a mapping with one entry; its name no scalar or too long
  /\ c.hashes \in BOOLEAN     \* the ELF can be read
  /\ c.keys \in Seq(Keys)
  /\ ~ c.given => c.keys = <<>>
  /\ \A i \in DOMAIN c.keys :
       c.keys[i].key # "error" =>
         (InLibrary(c.keys, i) <=> c.keys[i].key \in LibraryKeys \cup {"end"})
  /\ ~ InLibrary(c.keys, Len(c.keys) + 1)

ASSUME ConfigsAssumption == \A c \in Configs : ConfigOK(c)

\* The hashes: of a name, of a version with it, and of both with a library's.
HashOf(name) == <<1, name>>
HashOfVersion(v, name) == <<2, v, name>>
HashOfSymbol(v, library, name) == <<3, v, library, name>>
Given(n) == <<4, n>>
ElfNid == <<5>>

Init ==
  /\ config \in Configs
  /\ pc = IF config.given THEN "load" ELSE "default"
  /\ rest = 1
  /\ export = NULL
  /\ lib = NULL
  /\ heap = {}

----------------------------------------------------------------------------
(* The beginning: vita_exports_load(), read_module_exports() and the        *)
(* default.                                                                 *)

EmptyExport ==
  [is_default |-> FALSE, attributes |-> 0, major |-> 0, minor |-> 0, nid |-> ElfNid,
   process_image |-> 0, imagemodule |-> 0,
   start |-> NULL, bootstart |-> NULL, stop |-> NULL, exit |-> NULL, libs |-> <<>>]

vita_exports_loads ==
  /\ pc = "load"
  /\ pc' = IF config.opens /\ config.parses /\ config.hashes THEN "root" ELSE "failed"
  /\ UNCHANGED <<config, rest, export, lib, heap>>

\* The structure is the block 0, allocated before the name is looked at.
read_module_exports ==
  /\ pc = "root"
  /\ heap' = IF config.root = "shape" THEN {} ELSE {0}
  /\ IF config.root = "good"
     THEN pc' = "keys" /\ export' = EmptyExport
     ELSE pc' = "failed" /\ UNCHANGED export
  /\ UNCHANGED <<config, rest, lib>>

vita_export_generate_default ==
  /\ pc = "default"
  /\ IF config.hashes
     THEN /\ pc' = "loaded"
          /\ export' = [EmptyExport EXCEPT !.is_default = TRUE, !.major = 1, !.minor = 1, !.process_image = 1]
          /\ heap' = {0}
     ELSE pc' = "failed" /\ UNCHANGED <<export, heap>>
  /\ UNCHANGED <<config, rest, lib>>

----------------------------------------------------------------------------
(* The keys.                                                                *)

Key == config.keys[rest]
At(names) == pc = "keys" /\ rest \in DOMAIN config.keys /\ Key.key \in names
Continue == rest' = rest + 1 /\ UNCHANGED pc
Fail == pc' = "failed" /\ UNCHANGED rest

\* strtoul() returns 64 bits; they are assigned to 32.
process_32bit_integer(n) == n % WORD

\* Mutants: a number of 16 bits is not limited; its limit is one less.
Limit_None(key) == IF key \in {"major", "minor"} THEN BYTE ELSE WORD
Limit_OffByOne(key) == CASE key = "attributes" -> SHORT - 1 [] key \in {"major", "minor"} -> BYTE [] OTHER -> WORD

\* What a number has to be below.
Limit(key) == CASE key = "attributes" -> SHORT [] key \in {"major", "minor"} -> BYTE [] OTHER -> WORD

\* attributes, version and nid in process_module_info(), process_module_version()
process_number ==
  /\ At(Numbers)
  /\ LET n == process_32bit_integer(Key.value)
     IN IF n < Limit(Key.key)
        THEN /\ export' = [export EXCEPT ![Key.key] = IF Key.key = "nid" THEN Given(n) ELSE n]
             /\ Continue
        ELSE Fail /\ UNCHANGED export
  /\ UNCHANGED <<config, lib, heap>>

\* process_image and imagemodule: "true" or "false"
process_flag ==
  /\ At(Flags)
  /\ export' = [export EXCEPT ![Key.key] = Key.value % 2]
  /\ Continue
  /\ UNCHANGED <<config, lib, heap>>

\* The string of an entry point given before is forgotten.
process_syslib_list ==
  /\ At(EntryPoints)
  /\ export' = [export EXCEPT ![Key.key] = <<rest>>]
  /\ heap' = heap \cup {rest}
  /\ Continue
  /\ UNCHANGED <<config, lib>>

\* "libraries", and "modules" that means the same: a library with its defaults.
process_export_list ==
  /\ At({"library"})
  /\ lib' = [at |-> rest, name |-> Key.value, nid |-> HashOf(Key.value), syscall |-> 0, version |-> 1,
             functions |-> <<>>, variables |-> <<>>]
  /\ heap' = heap \cup {rest}
  /\ Continue
  /\ UNCHANGED <<config, export>>

\* The library is added to the list when all its keys were good.
AppendLibrary ==
  /\ At({"end"})
  /\ export' = [export EXCEPT !.libs = Append(@, lib)]
  /\ lib' = NULL
  /\ Continue
  /\ UNCHANGED <<config, heap>>

process_syscall ==
  /\ At({"syscall"})
  /\ lib' = [lib EXCEPT !.syscall = Key.value % 2]
  /\ Continue
  /\ UNCHANGED <<config, export, heap>>

process_nid ==
  /\ At({"libnid"})
  /\ lib' = [lib EXCEPT !.nid = Given(process_32bit_integer(Key.value))]
  /\ Continue
  /\ UNCHANGED <<config, export, heap>>

\* Mutant: the NID is left as it was.
process_version_KeepNid ==
  /\ At({"version"})
  /\ LET v == process_32bit_integer(Key.value)
     IN IF v < SHORT
        THEN lib' = [lib EXCEPT !.version = v] /\ Continue
        ELSE Fail /\ UNCHANGED lib
  /\ UNCHANGED <<config, export, heap>>

\* A version gives the library a new NID, whatever it had.
process_version ==
  /\ At({"version"})
  /\ LET v == process_32bit_integer(Key.value)
     IN IF v < SHORT
        THEN /\ lib' = [lib EXCEPT !.version = v, !.nid = HashOfVersion(v, lib.name)]
             /\ Continue
        ELSE Fail /\ UNCHANGED lib
  /\ UNCHANGED <<config, export, heap>>

\* The NID of a symbol without one, from what is known of its library so far.
DefaultNid(name) ==
  IF lib.version \in {0, 1} \/ lib.syscall # 0
  THEN HashOf(name)
  ELSE HashOfSymbol(lib.version, lib.name, name)

\* process_functions() and process_variables()
process_symbol(key, list) ==
  /\ At({key})
  /\ lib' = [lib EXCEPT ![list] = Append(@,
       [at |-> rest, name |-> Key.value,
        nid |-> IF Key.nid = NULL THEN DefaultNid(Key.value) ELSE Given(process_32bit_integer(Key.nid[1]))])]
  /\ heap' = heap \cup {rest}
  /\ Continue
  /\ UNCHANGED <<config, export>>

process_functions == process_symbol("function", "functions")
process_variables == process_symbol("variable", "variables")

process_error ==
  /\ At({"error"})
  /\ Fail
  /\ UNCHANGED <<config, export, lib, heap>>

Loaded ==
  /\ pc = "keys" /\ rest > Len(config.keys)
  /\ pc' = "loaded"
  /\ UNCHANGED <<config, rest, export, lib, heap>>

----------------------------------------------------------------------------
(* vita_exports_free()                                                      *)

Ats(s) == {s[i].at : i \in DOMAIN s}
Libs == {export.libs[i] : i \in DOMAIN export.libs}

\* Mutant: the variables of a library are not freed.
Reachable_NoVariables ==
  {0} \cup Ats(export.libs)
      \cup (UNION {Ats(l.functions) : l \in Libs})
      \cup (UNION {{export[e][i] : i \in DOMAIN export[e]} : e \in EntryPoints})

\* The blocks the structure leads to.
Reachable ==
  {0} \cup Ats(export.libs)
      \cup (UNION {Ats(l.functions) \cup Ats(l.variables) : l \in Libs})
      \cup (UNION {{export[e][i] : i \in DOMAIN export[e]} : e \in EntryPoints})

vita_exports_free ==
  /\ pc = "loaded"
  /\ pc' = "freed"
  /\ heap' = heap \ Reachable
  /\ UNCHANGED <<config, rest, export, lib>>

Terminated == pc \in {"failed", "freed"} /\ UNCHANGED vars

Next ==
  \/ vita_exports_loads \/ read_module_exports \/ vita_export_generate_default
  \/ process_number \/ process_flag \/ process_syslib_list
  \/ process_export_list \/ AppendLibrary
  \/ process_syscall \/ process_nid \/ process_version
  \/ process_functions \/ process_variables \/ process_error
  \/ Loaded \/ vita_exports_free \/ Terminated

Spec == Init /\ [][Next]_vars

----------------------------------------------------------------------------
(* Properties.                                                              *)

SymbolType == [at : Nat, name : Nat, nid : Seq(Nat)]
LibraryType == [at : Nat, name : Nat, nid : Seq(Nat), syscall : {0, 1}, version : 0 .. SHORT - 1,
                functions : Seq(SymbolType), variables : Seq(SymbolType)]
EntryPointType == {NULL} \cup [1 .. 1 -> Nat]
ExportType ==
  [is_default : BOOLEAN, attributes : 0 .. SHORT - 1, major : 0 .. BYTE - 1, minor : 0 .. BYTE - 1,
   nid : Seq(Nat), process_image : {0, 1}, imagemodule : {0, 1},
   start : EntryPointType, bootstart : EntryPointType, stop : EntryPointType, exit : EntryPointType,
   libs : Seq(LibraryType)]

\* Every variable has its type: in particular the fields of 8 and 16 bits hold
\* what was assigned to them.
TypeOK ==
  /\ pc \in {"load", "default", "root", "keys", "loaded", "failed", "freed"}
  /\ rest \in 1 .. Len(config.keys) + 1
  /\ export \in {NULL} \cup ExportType
  /\ lib \in {NULL} \cup LibraryType
  /\ heap \subseteq 0 .. Len(config.keys)

(* What a document says, independent of the order in which it says it.      *)

KeyAt(i) == config.keys[i]
Positions(names) == {i \in DOMAIN config.keys : KeyAt(i).key \in names}

\* The keys of the library that opens at i.
Body(i) == {j \in DOMAIN config.keys :
              j > i /\ \A k \in i .. j : KeyAt(k).key # "end" /\ (k > i => KeyAt(k).key # "library")}

Saying(S, key) == {j \in S : KeyAt(j).key = key}
ValueOf(S, key, default) ==
  IF Saying(S, key) = {} THEN default ELSE KeyAt(CHOOSE j \in Saying(S, key) : TRUE).value

\* No key of one value is given twice.
SaidOnce(S) == \A i, j \in S : KeyAt(i).key = KeyAt(j).key /\ KeyAt(i).key \notin SymbolKeys \cup {"library", "end"} => i = j

\* The version comes before the NID, and what a symbol's NID depends on before it.
WellOrdered(i) ==
  \A j, k \in Body(i) : j < k =>
    /\ KeyAt(j).key = "libnid" => KeyAt(k).key # "version"
    /\ KeyAt(j).key \in SymbolKeys => KeyAt(k).key \notin {"version", "syscall"}

VersionOf(i) == ValueOf(Body(i), "version", 1) % WORD
SyscallOf(i) == ValueOf(Body(i), "syscall", 0) % 2

SymbolNid(i, j) ==
  IF KeyAt(j).nid # NULL THEN Given(KeyAt(j).nid[1] % WORD)
  ELSE IF VersionOf(i) < 2 \/ SyscallOf(i) = 1 THEN HashOf(KeyAt(j).value)
  ELSE HashOfSymbol(VersionOf(i), KeyAt(i).value, KeyAt(j).value)

LibraryNid(i) ==
  IF Saying(Body(i), "libnid") # {} THEN Given(ValueOf(Body(i), "libnid", 0) % WORD)
  ELSE IF Saying(Body(i), "version") # {} THEN HashOfVersion(VersionOf(i), KeyAt(i).value)
  ELSE HashOf(KeyAt(i).value)

Said(l) ==
  /\ l.name = KeyAt(l.at).value
  /\ l.version = VersionOf(l.at) /\ l.syscall = SyscallOf(l.at)
  /\ l.nid = LibraryNid(l.at)
  /\ Ats(l.functions) = Saying(Body(l.at), "function")
  /\ Ats(l.variables) = Saying(Body(l.at), "variable")
  /\ \A s \in {l.functions[n] : n \in DOMAIN l.functions} \cup {l.variables[n] : n \in DOMAIN l.variables} :
       s.name = KeyAt(s.at).value /\ s.nid = SymbolNid(l.at, s.at)

\* The NIDs are computed while the keys arrive; they are those of the document as
\* a whole if each library says its version and its syscall flag before anything
\* that depends on them, however the keys are ordered otherwise.
NidsAsWritten ==
  pc = "loaded" =>
    /\ Ats(export.libs) = Positions({"library"})
    /\ \A l \in Libs : SaidOnce(Body(l.at)) /\ WellOrdered(l.at) => Said(l)

\* A configuration is loaded as a whole or not at all, and one whose numbers fit
\* and whose values have the right kind is never refused.
AllOrNothing ==
  /\ pc = "loaded" /\ config.given => Positions({"error"}) = {}
  /\ pc = "failed" =>
       \/ ~ config.hashes
       \/ config.given /\ ~ (config.opens /\ config.parses /\ config.root = "good")
       \/ Positions({"error"}) # {}
       \/ \E i \in Positions({"attributes"}) : KeyAt(i).value >= SHORT
       \/ \E i \in Positions({"major", "minor"}) : KeyAt(i).value >= BYTE
       \/ \E i \in Positions({"version"}) : KeyAt(i).value >= SHORT

\* vita_exports_free() frees every block once the configuration is loaded, except
\* the entry points that were given twice.
AllFreed ==
  pc = "freed" => \A i \in heap : \E j \in Positions(EntryPoints) : j > i /\ KeyAt(j).key = KeyAt(i).key
=============================================================================
