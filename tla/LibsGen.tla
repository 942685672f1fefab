------------------------------ MODULE LibsGen -------------------------------
(***************************************************************************)
(* vita-libs-gen: reads import files (vita-import-parse.c, vita-import.c)  *)
(* and writes an assembly file for each entry, and a makefile or           *)
(* CMakeLists.txt that puts them into stub archives (vita-libs-gen.c).     *)
(*                                                                         *)
(* An import file is the flat sequence of its keys.  Names are sequences   *)
(* of words, written with underscores between them, so that joining names  *)
(* with underscores is concatenation.                                      *)
(***************************************************************************)
EXTENDS Lists, SequencesExt, FiniteSets

CONSTANTS Inputs,   \* the inputs considered (see InputOK)
          SceKernel, Weak  \* words: of that name, and what "weak" adds to one

VARIABLES input,   \* never changes
          pc,      \* what main() is doing, or how it ended
          file,    \* number of the file being read, or of the module written
          rest,    \* number of its next key or entry
          imports, \* what was read: postfix and modules of each file
          asm,     \* assembly files written: name -> what is in it
          objs,    \* the makefile: name of an archive -> its objects
          targets, \* the archives it builds
          kernel,  \* g_kernel_objs
          broken   \* the makefile cannot be used

vars == <<input, pc, file, rest, imports, asm, objs, targets, kernel, broken>>

EntryTypes == {"function", "variable"}
LibraryKeys == {"kernel", "nid", "version"} \cup EntryTypes
\* "error" is any key that is refused, any value of the wrong kind, and a file that
\* cannot be opened or is not one YAML document.
Keys == [key : {"firmware", "module", "library", "error"} \cup LibraryKeys, name : Seq(Nat), value : Nat]

\* The characters of a firmware are digits and dots.
Dot == 10
DefaultFirmware == <<3, Dot, 6, 0>>

InputOK(in) ==
  /\ in.files \in Seq(Seq(Keys))
  /\ in.cmake \in BOOLEAN
  /\ in.dir \in BOOLEAN  \* the directory is there
  /\ in.room \in Nat     \* files that can be created
  /\ \A f \in DOMAIN in.files : \A k \in DOMAIN in.files[f] :
       LET key == in.files[f][k].key
       IN /\ key = "library" => \E j \in 1 .. k - 1 : in.files[f][j].key = "module"
          /\ key \in LibraryKeys => \E j \in 1 .. k - 1 : in.files[f][j].key = "library"
          /\ key = "firmware" => \E j \in DOMAIN in.files[f][k].name : in.files[f][k].name[j] # Dot

ASSUME InputsAssumption == \A in \in Inputs : InputOK(in)

LibsGenInit ==
  /\ input \in Inputs
  /\ pc = "read" /\ file = 1 /\ rest = 1
  /\ imports = <<>>
  /\ asm = <<>> /\ objs = <<>> /\ targets = <<>> /\ kernel = {} /\ broken = FALSE

output == <<asm, objs, targets, kernel, broken>>

----------------------------------------------------------------------------
(* Reading: main() and vita_imports_load().                                 *)

Key == input.files[file][rest]
At(key) == pc = "read" /\ file = Len(imports) /\ rest \in DOMAIN input.files[file] /\ Key.key = key
Continue == rest' = rest + 1 /\ UNCHANGED <<input, pc, file, output>>

\* vita_imports_new()
OpenFile ==
  /\ pc = "read" /\ file = Len(imports) + 1 /\ file \in DOMAIN input.files
  /\ imports' = Append(imports, [postfix |-> <<>>, modules |-> <<>>])
  /\ rest' = 1
  /\ UNCHANGED <<input, pc, file, output>>

\* The front of a buffer is overwritten.
Over(new, old) == new \o SubSeq(old, Len(new) + 1, Len(old))

\* The default firmware changes nothing; another overwrites the postfix.
firmware ==
  /\ At("firmware")
  /\ imports' = IF Key.name = DefaultFirmware THEN imports
                ELSE [imports EXCEPT ![file].postfix = Over(Select(Key.name, {n \in DOMAIN Key.name : Key.name[n] # Dot}), @)]
  /\ Continue

process_import_list ==
  /\ At("module")
  /\ imports' = [imports EXCEPT ![file].modules = Append(@, [name |-> Key.name, libs |-> <<>>])]
  /\ Continue

EmptyLib(name) ==
  [name |-> name, nid |-> 0, is_kernel |-> FALSE, version |-> 0, function |-> <<>>, variable |-> <<>>]

process_libraries ==
  /\ At("library")
  /\ LET m == Len(imports[file].modules)
     IN imports' = [imports EXCEPT ![file].modules[m].libs = Append(@, EmptyLib(Key.name))]
  /\ Continue

SetLib(field, x) ==
  LET m == Len(imports[file].modules)
      l == Len(imports[file].modules[m].libs)
  IN imports' = [imports EXCEPT ![file].modules[m].libs[l][field] = x]
ThisLib == Last(Last(imports[file].modules).libs)

\* flags |= version << 16
Bits == <<1, 2, 4, 8, 16, 32, 64, 128, 256, 512, 1024, 2048, 4096, 8192, 16384, 32768>>
IsSet(n, bit) == (n \div bit) % 2 = 1
Or(a, b) == SumOf([k \in 1 .. 16 |-> IF IsSet(a, Bits[k]) \/ IsSet(b, Bits[k]) THEN Bits[k] ELSE 0])

MaxVersion == 65535
process_library ==
  \/ At("kernel") /\ SetLib("is_kernel", Key.value = 1) /\ Continue
  \/ At("nid") /\ SetLib("nid", Key.value) /\ Continue
  \/ At("version") /\ Key.value <= MaxVersion /\ SetLib("version", Or(ThisLib.version, Key.value)) /\ Continue

\* process_import_functions(), process_import_variables()
process_entry ==
  /\ \E type \in EntryTypes : At(type) /\ SetLib(type, Append(ThisLib[type], [name |-> Key.name, nid |-> Key.value]))
  /\ Continue

\* Mutants: a file in error is passed over, or tried again.
Refused_Skips == file' = file + 1 /\ UNCHANGED pc
Refused_Again == UNCHANGED <<pc, file>>

Refused == pc' = "failure" /\ UNCHANGED file

\* Nothing is written when a file is refused.
BadKey ==
  /\ At("error") \/ (At("version") /\ Key.value > MaxVersion)
  /\ Refused
  /\ UNCHANGED <<input, rest, imports, output>>

FileDone ==
  /\ pc = "read" /\ file = Len(imports) /\ rest > Len(input.files[file])
  /\ file' = file + 1
  /\ UNCHANGED <<input, pc, rest, imports, output>>

\* mkdir() and chdir()
AllRead ==
  /\ pc = "read" /\ file > Len(input.files)
  /\ pc' = IF input.dir THEN "assembly" ELSE "failure"
  /\ file' = 1 /\ rest' = 1
  /\ UNCHANGED <<input, imports, output>>

----------------------------------------------------------------------------
(* Writing: generate_assembly(), then generate_makefile() or generate_cmake().*)

\* The modules of all files, each with the postfix of its file.
PostfixWord(digits) == IF digits = <<>> THEN <<>> ELSE <<FoldLeft(LAMBDA n, d : 10 * n + d, 1, digits) * 1000>>
ModulesOf(import) ==
  [m \in DOMAIN import.modules |->
     [name |-> import.modules[m].name, libs |-> import.modules[m].libs, postfix |-> PostfixWord(import.postfix)]]
Modules == FlattenSeq([f \in DOMAIN imports |-> ModulesOf(imports[f])])

\* "%s_%s_%s%s.S"
FileName(module, lib, entry) == module.name \o lib.name \o entry.name \o module.postfix

Asm(type, lib, entry) ==
  [type |-> type, symbol |-> entry.name, library |-> lib.name, version |-> lib.version, library_nid |-> lib.nid,
   nid |-> entry.nid]

\* The files of a library, functions first.
FilesOf(module, lib) ==
  LET of(type) == [n \in DOMAIN lib[type] |-> <<FileName(module, lib, lib[type][n]), Asm(type, lib, lib[type][n])>>]
  IN of("function") \o of("variable")
ModuleFiles(module) == FlattenSeq([l \in DOMAIN module.libs |-> FilesOf(module, module.libs[l])])

\* f overridden by the pairs of s, the last one of a name.
Override(f, s) ==
  [n \in DOMAIN f \cup {s[k][1] : k \in DOMAIN s} |->
     LET at == {k \in DOMAIN s : s[k][1] = n}
     IN IF at = {} THEN f[n] ELSE s[CHOOSE k \in at : \A j \in at : j <= k][2]]
Created == Cardinality(DOMAIN asm)

\* The first file that cannot be opened is the last.
generate_assembly ==
  /\ pc = "assembly" /\ file \in DOMAIN Modules
  /\ LET files == ModuleFiles(Modules[file])
     IN IF rest > Len(files)
        THEN file' = file + 1 /\ rest' = 1 /\ UNCHANGED <<pc, asm>>
        ELSE IF files[rest][1] \in DOMAIN asm \/ Created < input.room
        THEN asm' = Override(asm, <<files[rest]>>) /\ rest' = rest + 1 /\ UNCHANGED <<pc, file>>
        ELSE pc' = "failure" /\ UNCHANGED <<file, rest, asm>>
  /\ UNCHANGED <<input, imports, objs, targets, kernel, broken>>

\* fopen() of the makefile
AssemblyDone ==
  /\ pc = "assembly" /\ file > Len(Modules)
  /\ pc' = IF Created < input.room THEN "make" ELSE "failure"
  /\ file' = 1
  /\ UNCHANGED <<input, rest, imports, output>>

Objects(module, lib, weak) == LET files == FilesOf(module, lib)
                              IN {[file |-> files[n][1], weak |-> weak] : n \in DOMAIN files}
UserLibs(module) == {l \in DOMAIN module.libs : ~ module.libs[l].is_kernel}
UserObjects(module, weak) == UNION {Objects(module, module.libs[l], weak) : l \in UserLibs(module)}

\* Mutant: the weak archive gets the objects of the other.
WeakObjects_Strong(module) == UserObjects(module, FALSE)

WeakObjects(module) == UserObjects(module, TRUE)

\* The kernel libraries have archives of their own; without entries they are not
\* defined.
KernelLibs(module) == SelectSeq(module.libs, LAMBDA l : l.is_kernel)
WithEntries(module) == SelectSeq(KernelLibs(module), LAMBDA l : l.function # <<>> \/ l.variable # <<>>)
KernelArchives(module, ls) == [n \in DOMAIN ls |-> ls[n].name \o module.postfix]
KernelDefs(module) ==
  LET ls == WithEntries(module)
  IN [n \in DOMAIN ls |-> <<ls[n].name \o module.postfix, Objects(module, ls[n], FALSE)>>]
Archive(module) == module.name \o module.postfix
WeakArchive(module) == Archive(module) \o <<Weak>>
UserDefs(module) ==
  <<<<Archive(module), UserObjects(module, FALSE)>>, <<WeakArchive(module), WeakObjects(module)>>>>

\* Of the module SceKernel the objects of user libraries are written where they
\* are assigned to nothing, which make does not read.
generate_makefile ==
  /\ pc = "make" /\ ~ input.cmake /\ file \in DOMAIN Modules
  /\ LET m == Modules[file]
         special == m.name = <<SceKernel>>
     IN /\ targets' = targets \o <<Archive(m), WeakArchive(m)>> \o KernelArchives(m, KernelLibs(m))
        /\ objs' = Override(objs, (IF special THEN <<>> ELSE UserDefs(m)) \o KernelDefs(m))
        /\ kernel' = kernel \cup UNION {KernelDefs(m)[n][2] : n \in DOMAIN KernelDefs(m)}
                            \cup IF special THEN UserObjects(m, FALSE) \cup UserObjects(m, TRUE) ELSE {}
        /\ broken' = (broken \/ (special /\ UserObjects(m, FALSE) # {}))
  /\ file' = file + 1
  /\ UNCHANGED <<input, pc, rest, imports, asm>>

\* cmake refuses a library without sources, and two of one name.
generate_cmake ==
  /\ pc = "make" /\ input.cmake /\ file \in DOMAIN Modules
  /\ LET m == Modules[file]
         user == IF UserLibs(m) = {} THEN <<>> ELSE UserDefs(m)
         defs == user \o KernelDefs(m)
     IN /\ targets' = targets \o [n \in DOMAIN defs |-> defs[n][1]]
        /\ objs' = Override(objs, defs)
        /\ broken' = (broken \/ (user # <<>> /\ UserObjects(m, FALSE) = {}) \/ ~ IsInjective(targets'))
  /\ file' = file + 1
  /\ UNCHANGED <<input, pc, rest, imports, asm, kernel>>

\* A makefile ends with "SceKernel_OBJS =".
Exit ==
  /\ pc = "make" /\ file > Len(Modules)
  /\ pc' = "success"
  /\ objs' = IF input.cmake THEN objs ELSE Override(objs, <<<<<<SceKernel>>, kernel>>>>)
  /\ UNCHANGED <<input, file, rest, imports, asm, targets, kernel, broken>>

VitaLibsGen ==
  \/ OpenFile \/ firmware \/ process_import_list \/ process_libraries \/ process_library \/ process_entry
  \/ BadKey \/ FileDone \/ AllRead
  \/ generate_assembly \/ AssemblyDone \/ generate_makefile \/ generate_cmake \/ Exit
=============================================================================
