------------------------------ MODULE LibsGen2 ------------------------------
(***************************************************************************)
(* vita-libs-gen-2: reads the files of a NID database into lists of        *)
(* firmwares, modules, libraries and entries, groups the libraries into    *)
(* stub archives, and writes an assembly file for each entry and a         *)
(* makefile (or CMakeLists.txt) that puts them into the archives           *)
(* (vita-libs-gen-2.cpp, with vita-nid-db.c and vita-nid-db-yml.c).        *)
(*                                                                         *)
(* A file of the database is the sequence of its keys, as in NidCheck.     *)
(* Names are sequences of words, written with underscores between them:    *)
(* joining names with underscores is concatenation.                        *)
(***************************************************************************)
EXTENDS Naturals, Sequences, SequencesExt

CONSTANTS Inputs,    \* the inputs considered (see InputOK)
          SceKernel  \* the word of that name

VARIABLES input,   \* never changes
          pc,      \* what main() is doing
          todo,    \* files not read yet
          file,    \* the file being read, and
          rest,    \* the number of its next key
          fws,     \* the firmwares, in the order of their list
          modules, \* the modules: their firmware and name
          libs,    \* the libraries with their entries
          cur,     \* pFirmware, pModule, pLibrary: numbers in these lists, 0 for NULL
          stubs,   \* the stub archives, with the numbers of their libraries
          asm,     \* assembly files written: name -> what is in it
          objs     \* the makefile: name of an archive -> its assembly files

vars == <<input, pc, todo, file, rest, fws, modules, libs, cur, stubs, asm, objs>>

NONE == 0
USER == 1
KERNEL == 2
NoName == <<>>
EntryTypes == {"function", "variable"}
LibraryKeys == {"stubname", "version", "nid", "kernel"} \cup EntryTypes

\* A firmware is the number its digits are in hexadecimal, or BAD if
\* parse_fw_string() refuses it.
BAD == 1

Keys == [key : {"firmware", "module", "library", "error"} \cup LibraryKeys, name : Seq(Nat), value : Nat]

InputOK(i) ==
  /\ i.files \in Seq(Seq(Keys))
  /\ i.ignore_stubname \in BOOLEAN
  /\ i.cmake \in BOOLEAN
  /\ \A f \in DOMAIN i.files : \A k \in DOMAIN i.files[f] :
       LET key == i.files[f][k].key
       IN /\ key = "library" => \E j \in 1 .. k - 1 : i.files[f][j].key = "module"
          /\ key \in LibraryKeys =>
               \E j \in 1 .. k - 1 : /\ i.files[f][j].key = "library"
                                    /\ \A m \in j + 1 .. k - 1 : i.files[f][m].key \in LibraryKeys \cup {"error"}
          /\ key = "kernel" => i.files[f][k].value \in {USER, KERNEL}

ASSUME InputsAssumption == \A i \in Inputs : InputOK(i)

Init ==
  /\ input \in Inputs
  /\ pc = "read"
  /\ todo = DOMAIN input.files
  /\ file = 0 /\ rest = 0
  /\ fws = <<>> /\ modules = <<>> /\ libs = <<>>
  /\ cur = [fw |-> 0, module |-> 0, library |-> 0]
  /\ stubs = <<>> /\ asm = <<>> /\ objs = <<>>

output == <<stubs, asm, objs>>

----------------------------------------------------------------------------
(* Reading.                                                                 *)

Key == input.files[file][rest]
At(key) == pc = "read" /\ file # 0 /\ rest \in DOMAIN input.files[file] /\ Key.key = key
Continue == rest' = rest + 1 /\ UNCHANGED <<input, pc, todo, file, output>>

\* The position of x in the list s, which gets it as its last element if new.
Index(s, x) == IF \E i \in DOMAIN s : s[i] = x THEN CHOOSE i \in DOMAIN s : s[i] = x ELSE Len(s) + 1

\* Mutant: it is not looked for.
With_Always(s, x) == Append(s, x)

With(s, x) == IF \E i \in DOMAIN s : s[i] = x THEN s ELSE Append(s, x)

\* Mutant: an error ends a file as its end does.
FileDone_OrError ==
  IF file = 0 THEN TRUE
  ELSE IF rest > Len(input.files[file]) THEN TRUE
  ELSE Key.key = "error"

FileDone == IF file = 0 THEN TRUE ELSE rest > Len(input.files[file])

\* db_top_list_callback() on a file, in whatever order they are listed.
Open(f) ==
  /\ pc = "read" /\ FileDone
  /\ todo' = todo \ {f} /\ file' = f /\ rest' = 1
  /\ UNCHANGED <<input, pc, fws, modules, libs, cur, output>>
OpenFile == \E f \in todo : Open(f)

\* What the callback returns is ignored: the firmware before stays.
database_firmware ==
  /\ At("firmware")
  /\ IF Key.value = BAD
     THEN UNCHANGED <<fws, cur>>
     ELSE fws' = With(fws, Key.value) /\ cur' = [cur EXCEPT !.fw = Index(fws, Key.value)]
  /\ Continue
  /\ UNCHANGED <<modules, libs>>

\* Without a firmware so far, in this file or those before, it is 0.
module_name ==
  /\ At("module")
  /\ fws' = IF cur.fw = 0 THEN With(fws, 0) ELSE fws
  /\ LET fw == IF cur.fw = 0 THEN Index(fws, 0) ELSE cur.fw
         m == [fw |-> fw, name |-> Key.name]
     IN modules' = With(modules, m) /\ cur' = [cur EXCEPT !.fw = fw, !.module = Index(modules, m)]
  /\ Continue
  /\ UNCHANGED libs

\* db_new_library(): a library is never looked for, it is a new one.
library_name ==
  /\ At("library")
  /\ libs' = Append(libs, [module |-> cur.module, name |-> Key.name, stubname |-> NoName, privilege |-> NONE,
                           version |-> 0, nid |-> 0,
                           function |-> <<>>, variable |-> <<>>])
  /\ cur' = [cur EXCEPT !.library = Len(libs) + 1]
  /\ Continue
  /\ UNCHANGED <<fws, modules>>

Set(field, x) ==
  /\ libs' = [libs EXCEPT ![cur.library][field] = x]
  /\ Continue
  /\ UNCHANGED <<fws, modules, cur>>

library_stubname == At("stubname") /\ Set("stubname", Key.name)
library_version == At("version") /\ Set("version", Key.value)
library_nid == At("nid") /\ Set("nid", Key.value)
library_privilege == At("kernel") /\ Set("privilege", Key.value)

\* An entry is known by the place it is read at, as its NID is in the code.
NewEntry(type) ==
  At(type) /\ Set(type, Append(libs[cur.library][type], [name |-> Key.name, nid |-> <<file, rest>>]))
entry_function == NewEntry("function")
entry_variable == NewEntry("variable")

\* The rest of the file and the other files are not read, and nobody minds.
BadKey ==
  /\ At("error")
  /\ pc' = "group"
  /\ UNCHANGED <<input, todo, file, rest, fws, modules, libs, cur, output>>

\* After the last file, or earlier if the files cannot all be listed.
ReadingEnds ==
  /\ pc = "read" /\ FileDone
  /\ pc' = "group"
  /\ UNCHANGED <<input, todo, file, rest, fws, modules, libs, cur, output>>

\* main(): there is no database, and nothing is written.
NoDatabase ==
  /\ pc = "read" /\ file = 0
  /\ pc' = "failure"
  /\ UNCHANGED <<input, todo, file, rest, fws, modules, libs, cur, output>>

----------------------------------------------------------------------------
(* Grouping: fw_callback(), module_callback() and library_callback().       *)

FirmwareOf(l) == fws[modules[l.module].fw]

\* The libraries in the order of the lists of firmwares, modules and libraries.
Before(i, j) ==
  LET a == libs[i].module
      b == libs[j].module
  IN \/ modules[a].fw < modules[b].fw
     \/ modules[a].fw = modules[b].fw /\ a < b
     \/ a = b /\ i < j

\* The words of "%03X" and "0%03X".
Hex(n) == <<n>>
ZeroHex(n) == <<16777216 + n>>

\* The end of a stub's name, the firmware without its lowest 12 or 16 bits: none
\* for 3.60 and for no firmware.
Suffix(fw) ==
  IF fw = 0 \/ fw \div 4096 = 13824 \* 0x3600
  THEN <<>>
  ELSE IF fw \div 16777216 = 0 THEN ZeroHex(fw \div 4096)
  ELSE IF (fw \div 4096) % 16 # 0 THEN Hex(fw \div 4096)
  ELSE Hex(fw \div 65536)

\* Mutant: kernel libraries share the archive of their module too.
BaseName_Module(l) ==
  IF l.stubname # NoName /\ ~ input.ignore_stubname THEN l.stubname ELSE modules[l.module].name

BaseName(l) ==
  IF l.stubname # NoName /\ ~ input.ignore_stubname THEN l.stubname
  ELSE IF l.privilege = KERNEL THEN l.name
  ELSE modules[l.module].name

Grouped == UNION {{s.libs[i] : i \in DOMAIN s.libs} : s \in {stubs[i] : i \in DOMAIN stubs}}
NextLibrary == CHOOSE i \in DOMAIN libs \ Grouped : \A j \in DOMAIN libs \ (Grouped \cup {i}) : Before(i, j)

\* _vita_nid_db_search_stub_by_name(): a stub has a firmware besides its name.
SameStub(s, fw, name) == s.firmware = fw /\ s.name = name

\* _vita_nid_db_search_or_create_stub_by_name(), _vita_nid_db_stub_push_library()
library_callback ==
  /\ pc = "group" /\ Grouped # DOMAIN libs
  /\ LET i == NextLibrary
         fw == FirmwareOf(libs[i])
         name == BaseName(libs[i]) \o Suffix(fw)
         found == {s \in DOMAIN stubs : SameStub(stubs[s], fw, name)}
     IN stubs' = IF found = {} THEN Append(stubs, [firmware |-> fw, name |-> name, libs |-> <<i>>])
                 ELSE [stubs EXCEPT ![CHOOSE s \in found : TRUE].libs = Append(@, i)]
  /\ UNCHANGED <<input, pc, todo, file, rest, fws, modules, libs, cur, asm, objs>>

AllGrouped ==
  /\ pc = "group" /\ Grouped = DOMAIN libs
  /\ pc' = "make" /\ rest' = 1
  /\ UNCHANGED <<input, todo, file, fws, modules, libs, cur, output>>

----------------------------------------------------------------------------
(* Generation, a stub at a time: gen_makefile() and gen_cmake().            *)

\* "%s_%s_%s.S"
FileName(stub, library, entry) == stub.name \o library.name \o entry.name

\* vita_nid_db_gen_asm()
Asm(library, type, entry) ==
  [type |-> type, library |-> library.name, version |-> library.version, library_nid |-> library.nid,
   kernel |-> library.privilege = KERNEL, nid |-> entry.nid]

\* Mutant: the variables are left out.
FilesOf_Functions(stub, l) ==
  [i \in DOMAIN l.function |-> <<FileName(stub, l, l.function[i]), Asm(l, "function", l.function[i])>>]

\* The assembly files of a library: functions first, each with what it holds.
FilesOf(stub, l) ==
  LET of(type) == [i \in DOMAIN l[type] |->
                     <<FileName(stub, l, l[type][i]), Asm(l, type, l[type][i])>>]
  IN of("function") \o of("variable")

StubFiles(stub) == FlattenSeq([i \in DOMAIN stub.libs |-> FilesOf(stub, libs[stub.libs[i]])])

\* f overridden by the pairs of s, the last one of a name.
Override(f, s) ==
  [n \in DOMAIN f \cup {s[i][1] : i \in DOMAIN s} |->
     LET at == {i \in DOMAIN s : s[i][1] = n}
     IN IF at = {} THEN f[n] ELSE s[CHOOSE i \in at : \A j \in at : j <= i][2]]

\* "<name>_OBJS = ..." or set(<name>_ASM ...), with the files it names.
MakeStub ==
  /\ pc = "make" /\ rest \in DOMAIN stubs
  /\ LET files == StubFiles(stubs[rest])
     IN /\ asm' = Override(asm, files)
        /\ objs' = Override(objs, <<<<stubs[rest].name, {files[i][1] : i \in DOMAIN files}>>>>)
  /\ rest' = rest + 1
  /\ UNCHANGED <<input, pc, todo, file, fws, modules, libs, cur, stubs>>

\* The last assignment of a makefile, "SceKernel_OBJS =", and EXIT_SUCCESS, in
\* every case.
Exit ==
  /\ pc = "make" /\ rest > Len(stubs)
  /\ pc' = "success"
  /\ objs' = IF input.cmake THEN objs ELSE Override(objs, <<<<<<SceKernel>>, {}>>>>)
  /\ UNCHANGED <<input, todo, file, rest, fws, modules, libs, cur, stubs, asm>>

Terminated == pc \in {"success", "failure"} /\ UNCHANGED vars

ReadKey ==
  \/ database_firmware \/ module_name
  \/ library_name \/ library_stubname \/ library_version \/ library_nid \/ library_privilege
  \/ entry_function \/ entry_variable
Generate == library_callback \/ AllGrouped \/ MakeStub \/ Exit

Next == OpenFile \/ ReadKey \/ BadKey \/ ReadingEnds \/ NoDatabase \/ Generate \/ Terminated

Spec == Init /\ [][Next]_vars

----------------------------------------------------------------------------
(* Properties.                                                              *)

EntryType == [name : Seq(Nat), nid : Nat \X Nat]
LibraryType == [module : DOMAIN modules, name : Seq(Nat), stubname : Seq(Nat), privilege : {NONE, USER, KERNEL},
                version : Nat, nid : Nat, function : Seq(EntryType), variable : Seq(EntryType)]

\* Every variable has its type; the numbers that stand for pointers are in their
\* lists, and every list has its elements once.
TypeOK ==
  /\ pc \in {"read", "group", "make", "success", "failure"}
  /\ todo \subseteq DOMAIN input.files /\ file \in {0} \cup DOMAIN input.files
  /\ fws \in Seq(Nat) /\ IsInjective(fws)
  /\ modules \in Seq([fw : DOMAIN fws, name : Seq(Nat)]) /\ IsInjective(modules)
  /\ libs \in Seq(LibraryType)
  /\ cur.fw \in {0} \cup DOMAIN fws /\ cur.module \in {0} \cup DOMAIN modules
  /\ cur.library \in {0} \cup DOMAIN libs
  /\ stubs \in Seq([firmware : Nat, name : Seq(Nat), libs : Seq(DOMAIN libs)])

(* What the files say, independent of the order in which they are read.     *)

FileOf(e) == input.files[e[1]]
KeyOf(e) == FileOf(e)[e[2]]
All(key) == {e \in UNION {{f} \X DOMAIN input.files[f] : f \in DOMAIN input.files} : KeyOf(e).key = key}
Entries == All("function") \cup All("variable")

\* The number of the last such key before a key, in its file.
LastBefore(e, key) ==
  CHOOSE i \in 1 .. e[2] - 1 :
    /\ FileOf(e)[i].key = key
    /\ \A j \in i + 1 .. e[2] - 1 : FileOf(e)[j].key # key
LibraryKeyOf(e) == <<e[1], LastBefore(e, "library")>>

\* What is said of the library at the key l: of values, the last one.
KeysOf(l) ==
  {i \in DOMAIN FileOf(l) : i > l[2] /\ \A j \in l[2] + 1 .. i : FileOf(l)[j].key \in LibraryKeys}
ValueOf(l, key, field, default) ==
  LET at == {i \in KeysOf(l) : FileOf(l)[i].key = key}
  IN IF at = {} THEN default ELSE FileOf(l)[CHOOSE i \in at : \A j \in at : j <= i][field]
FileFirmware(l) == FileOf(l)[1].value
ArchiveOf(l) ==
  LET stubname == ValueOf(l, "stubname", "name", NoName)
      base == IF stubname # NoName /\ ~ input.ignore_stubname THEN stubname
              ELSE IF ValueOf(l, "kernel", "value", NONE) = KERNEL THEN KeyOf(l).name
              ELSE FileOf(l)[LastBefore(l, "module")].name
  IN base \o Suffix(FileFirmware(l))

ObjectOf(e) == ArchiveOf(LibraryKeyOf(e)) \o KeyOf(LibraryKeyOf(e)).name \o KeyOf(e).name

\* The archive of an entry has an object assembled from that entry, with the
\* version, the NID and the privilege of its library.
Built(e) ==
  LET l == LibraryKeyOf(e)
  IN /\ ArchiveOf(l) \in DOMAIN objs
     /\ ObjectOf(e) \in objs[ArchiveOf(l)]
     /\ asm[ObjectOf(e)] =
          [type |-> KeyOf(e).key, library |-> KeyOf(l).name, version |-> ValueOf(l, "version", "value", 0),
           library_nid |-> ValueOf(l, "nid", "value", 0), kernel |-> ValueOf(l, "kernel", "value", NONE) = KERNEL,
           nid |-> e]

\* Every file begins with a firmware that can be read, and has no error.
WellFormed ==
  /\ All("error") = {}
  /\ \A f \in DOMAIN input.files : input.files[f] # <<>> /\ input.files[f][1].key = "firmware"
  /\ \A e \in All("firmware") : e[2] = 1 /\ KeyOf(e).value # BAD

\* The archive of a makefile that gets nothing.
Emptied(archive) == archive = <<SceKernel>> /\ ~ input.cmake

\* Two firmwares give their archives one name, even if nothing is in the other;
\* another entry has its assembly file; or its archive is emptied.
Clashes(e) ==
  LET archive == ArchiveOf(LibraryKeyOf(e))
  IN \/ Emptied(archive)
     \/ \E d \in Entries : d # e /\ ObjectOf(d) = ObjectOf(e)
     \/ \E l \in All("library") : ArchiveOf(l) = archive /\ FileFirmware(l) # FileFirmware(e)

\* "support multi yml in once" (README.md:118): the files of a database give the
\* same archives in whatever order they are read, and each entry is built into the
\* archive its file asks for; unless names clash.
EveryEntryBuilt == pc = "success" /\ WellFormed /\ todo = {} => \A e \in Entries : ~ Clashes(e) => Built(e)

\* Whatever stopped the reading, what was read is built: no library is lost
\* between the database and the archives.
ReadIsBuilt ==
  pc = "success" =>
    \A s \in DOMAIN stubs : \A i \in DOMAIN stubs[s].libs :
      (\A t \in DOMAIN stubs : t # s => stubs[t].name # stubs[s].name) /\ ~ Emptied(stubs[s].name) =>
        LET l == libs[stubs[s].libs[i]]
        IN \A type \in EntryTypes : \A n \in DOMAIN l[type] :
             FileName(stubs[s], l, l[type][n]) \in objs[stubs[s].name] \cap DOMAIN asm

\* What a file in error leaves: of it only what precedes the error, and no file
\* is read after it.
NothingAfterError ==
  \A i \in DOMAIN libs : \A type \in EntryTypes : \A n \in DOMAIN libs[i][type] :
    LET e == libs[i][type][n].nid
    IN /\ \A k \in 1 .. e[2] : FileOf(e)[k].key # "error"
       /\ pc # "read" /\ All("error") # {} =>
            (e[1] \notin todo /\ (e[1] # file => \A d \in All("error") : d[1] # e[1]))
=============================================================================
