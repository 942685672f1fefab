------------------------------ MODULE Imports -------------------------------
(***************************************************************************)
(* From the import files to the import tables: vita-libs-gen writes the    *)
(* stub archives (LibsGen), a program is linked with some of their         *)
(* objects, and vita-elf-create turns the stubs of the linked ELF into the *)
(* tables the system reads (ModuleInfo), in a file (Output) from which      *)
(* vita-make-fself makes another one (MakeFself).                          *)
(***************************************************************************)
EXTENDS LibsGen, MakeFself

CONSTANT Cases  \* inputs of LibsGen with a program

ASSUME CasesAssumption == \A c \in Cases : InputOK(c.input) /\ ProgramOK(c.program) /\ FileOK(c.program)

VARIABLE linked  \* the objects linked, in their order; <<>> before and for none

allvars == <<vars, state, fself_vars, linked>>

ImportsInit ==
  \E c \in Cases :
    /\ input = c.input /\ LibsGenInit
    /\ InitWith(c.program, <<>>) /\ OutputInit /\ FselfInit
    /\ linked = <<>>

Generate == pc \notin {"success", "failure"} /\ VitaLibsGen /\ UNCHANGED <<state, fself_vars, linked>>

----------------------------------------------------------------------------
(* The assembler, the archiver and the linker.                              *)

Members(archive) == IF archive \in DOMAIN objs THEN objs[archive] ELSE {}
\* make stops at an object without a source.
Archived == {o \in UNION {Members(a) : a \in ToSet(targets)} : o.file \in DOMAIN asm}
SymbolOf(o) == asm[o.file].symbol

\* An object defines one symbol, which has a name, and nothing is defined twice.
Links(order) ==
  /\ IsInjective([n \in DOMAIN order |-> SymbolOf(order[n])])
  /\ \A n \in DOMAIN order : SymbolOf(order[n]) \in Seq(Nat) \ {<<>>}

\* The sections of one name are joined, in the order in which they come.
SectionOf(o) == [type |-> asm[o.file].type, name |-> asm[o.file].library]
Sorts(order) ==
  LET first == Select(order, {n \in DOMAIN order : \A m \in 1 .. n - 1 : SectionOf(order[m]) # SectionOf(order[n])})
  IN [n \in DOMAIN first |-> SectionOf(first[n])]

\* A word is 8 in a weak object.  How much relocation information a variable has is
\* given by its name.
StubOf(o) ==
  LET a == asm[o.file]
  IN [flags |-> 65536 * a.version + IF o.weak THEN WEAK ELSE 0, library_nid |-> a.library_nid, nid |-> a.nid,
      words |-> IF a.type = "variable" THEN [w \in 1 .. 2 * (Last(a.symbol) % 3) |-> Last(a.symbol)] ELSE <<>>]

\* Function stubs follow each other in the text; the sections of variable stubs are
\* not loaded and have the address 0.
JoinedSections(order) ==
  LET sorts == Sorts(order)
      of(t) == Select(order, {n \in DOMAIN order : SectionOf(order[n]) = t})
      size(t) == IF t.type = "function" THEN 16 * Len(of(t)) ELSE 0
  IN [n \in DOMAIN sorts |->
        [type |-> sorts[n].type, name |-> sorts[n].name,
         addr |-> IF sorts[n].type = "function" THEN program.text + SumOf([m \in 1 .. n - 1 |-> size(sorts[m])]) ELSE 0,
         stubs |-> [m \in DOMAIN of(sorts[n]) |-> StubOf(of(sorts[n])[m])]]]

Link ==
  /\ pc = "success" /\ ~ broken /\ stage = "link"
  /\ \E n \in 0 .. program.linked : \E S \in kSubset(n, Archived) : \E order \in SetToSeqs(S) :
       /\ Links(order)
       /\ linked' = order
       /\ elf' = [elf EXCEPT !.sections = JoinedSections(order)]
  /\ stage' = "load"
  /\ UNCHANGED <<vars, fself_vars, i, fstubs, vstubs, exports, params, top, libs, sizes, data, used, addrs, relas>>

Create == /\ (VitaElfCreate /\ UNCHANGED fself_vars) \/ (Written /\ UNCHANGED self) \/ VitaMakeFself
          /\ UNCHANGED <<vars, linked>>

Terminated == pc = "failure" \/ Failed \/ FselfEnded \/ (pc = "success" /\ broken)

ImportsNext == Generate \/ Link \/ Create \/ (Terminated /\ UNCHANGED allvars)

\* Each program runs on when it is run.
ImportsSpec == ImportsInit /\ [][ImportsNext]_allvars /\ WF_allvars(ImportsNext)

----------------------------------------------------------------------------
(* Properties: those of ModuleInfo, and what the files ask for.             *)

\* The functions and variables in the files, by the place where they are.
FileOf(e) == input.files[e[1]]
KeyOf(e) == FileOf(e)[e[2]]
All(keys) == {e \in UNION {{f} \X DOMAIN input.files[f] : f \in DOMAIN input.files} : KeyOf(e).key \in keys}
Entries == All(EntryTypes)
LastBefore(e, key) ==
  CHOOSE k \in 1 .. e[2] - 1 : FileOf(e)[k].key = key /\ \A j \in k + 1 .. e[2] - 1 : FileOf(e)[j].key # key
LibraryAt(e) == LastBefore(e, "library")
ModuleName(e) == FileOf(e)[LastBefore(e, "module")].name
LibraryName(e) == FileOf(e)[LibraryAt(e)].name
Values(e, key) ==
  {FileOf(e)[k].value : k \in {k \in DOMAIN FileOf(e) :
     /\ FileOf(e)[k].key = key /\ k > LibraryAt(e)
     /\ \A j \in LibraryAt(e) + 1 .. k : FileOf(e)[j].key \in LibraryKeys}}
ValueOf(e, key) == IF Values(e, key) = {} THEN 0 ELSE CHOOSE v \in Values(e, key) : TRUE

\* One of the names is the postfix of the file's firmware, without dots.
Postfix(e) ==
  LET firmwares == {FileOf(e)[k].name : k \in {k \in DOMAIN FileOf(e) : FileOf(e)[k].key = "firmware"}} \ {DefaultFirmware}
  IN IF firmwares = {} THEN <<>> ELSE PostfixWord(SelectSeq(CHOOSE f \in firmwares : TRUE, LAMBDA c : c # Dot))
IsKernel(e) == ValueOf(e, "kernel") = 1
ArchiveOf(e, weak) ==
  (IF IsKernel(e) THEN LibraryName(e) ELSE ModuleName(e)) \o Postfix(e) \o IF weak THEN <<Weak>> ELSE <<>>
ObjectOf(e) == ModuleName(e) \o LibraryName(e) \o KeyOf(e).name \o Postfix(e)

\* Files that say each thing once.
Plain ==
  /\ \A e \in Entries : \A key \in {"kernel", "nid", "version"} : Cardinality(Values(e, key)) <= 1
  /\ \A f \in DOMAIN input.files : Cardinality({k \in DOMAIN input.files[f] : input.files[f][k].key = "firmware"}) <= 1

\* Another entry has its file; another module or kernel library has its archive, or
\* the archive is that of all kernel libraries.
Clashes(e) ==
  \/ \E d \in Entries : d # e /\ ObjectOf(d) = ObjectOf(e)
  \/ Cardinality({n \in DOMAIN targets : targets[n] = ArchiveOf(e, FALSE)}) > 1
  \/ ~ input.cmake /\ (ModuleName(e) = <<SceKernel>> \/ ArchiveOf(e, FALSE) = <<SceKernel>>)

\* Nothing is written when a file is refused or the directory cannot be entered.
NothingFromRefused ==
  asm # <<>> \/ targets # <<>> =>
    input.dir /\ All({"error"}) = {} /\ \A e \in All({"version"}) : KeyOf(e).value <= MaxVersion

\* All or nothing of the files: every entry is assembled and in the archive of its
\* module, or of its library if that is in the kernel, and entries of modules also
\* in the weak one, as weak (vita-libs-gen.c:95-510); unless a file is refused,
\* when nothing is written (vita-libs-gen.c:40-62).
EveryEntryBuilt ==
  /\ NothingFromRefused
  /\ pc = "success" /\ stage = "link" /\ Plain =>
       \A e \in Entries : ~ Clashes(e) =>
         /\ ObjectOf(e) \in DOMAIN asm
         /\ asm[ObjectOf(e)] = [type |-> KeyOf(e).key, symbol |-> KeyOf(e).name, library |-> LibraryName(e),
                                version |-> ValueOf(e, "version"), library_nid |-> ValueOf(e, "nid"), nid |-> KeyOf(e).value]
         /\ \A weak \in {FALSE} \cup {~ IsKernel(e)} :
              /\ ArchiveOf(e, weak) \in ToSet(targets)
              /\ [file |-> ObjectOf(e), weak |-> weak] \in Members(ArchiveOf(e, weak))

\* The stubs linked from one library agree on what it is.
Agree(o) ==
  \A n \in DOMAIN linked :
    LET a == asm[linked[n].file]
        b == asm[o.file]
    IN a.library_nid = b.library_nid => a.library = b.library /\ a.version = b.version /\ linked[n].weak = o.weak

\* What a file says of an entry, and the archive it is linked from, is what the
\* system finds in the tables of the program: the library under its NID, with its
\* name and version, weak if it was linked from the weak archive, and in it the NID.
EntriesImported ==
  stage = "encoded" /\ top.start # NULL /\ Plain /\ ~ SameVariable =>
    \A e \in Entries : \A weak \in BOOLEAN :
      LET o == [file |-> ObjectOf(e), weak |-> weak]
      IN o \in ToSet(linked) /\ ~ Clashes(e) /\ Agree(o) =>
           \E n \in DOMAIN Stubs :
             /\ Stubs[n].target_nid = KeyOf(e).value /\ Stubs[n].library_nid = ValueOf(e, "nid")
             /\ TableOf(n) = IF KeyOf(e).key = "function" THEN "functions" ELSE "variables"
             /\ Lost(n) \/ \E raw \in Structures(11, IMPORT) :
                  /\ data[raw + 4] = ValueOf(e, "nid")
                  /\ Reads(raw, <<Max2(1, ValueOf(e, "version"))>>)
                  /\ data[raw + 1][1] = IF weak THEN WEAK ELSE 0
                  /\ Reads(Follow(raw + 5), <<LibraryName(e)>>)
                  /\ SegmentsOf(Stubs[n].addr) # {} \/ TableOf(n) = "variables" => ReadsStub(raw, n)

\* Both programs end, whatever they read.
Termination == <>Terminated
=============================================================================
