----------------------------- MODULE ModuleInfo -----------------------------
(***************************************************************************)
(* vita-elf-create, from the stubs of the ELF to the encoded module info:  *)
(* load_stubs() and the export list (vita-elf.c), the module parameters,   *)
(* the export and import tables, their size and their encoding (sce-elf.c, *)
(* varray.c), as main() calls them (vita-elf-create.c).                    *)
(*                                                                         *)
(* Host pointers are the addresses they are made from, NULL is -1.  What   *)
(* is encoded is a sequence of 32-bit words at real offsets; a word of two *)
(* 16-bit fields is a pair, a string is one word.                          *)
(***************************************************************************)
EXTENDS Lists, SequencesExt, FiniteSets

CONSTANTS Programs,  \* the ELFs considered, without their stubs (see ProgramOK)
          NidOf      \* function from the names of symbols: their NIDs

VARIABLES elf,      \* the input: a program with its stub sections
          stage,    \* what main() is doing, or how it ended
          i,        \* how often the loop of this stage has run
          fstubs,   \* ve->fstubs and ve->vstubs: address, library, NID and the
          vstubs,   \* words of relocation information of each
          exports,  \* the vita_export_t
          params,   \* words of the process parameters, and of those of libc
          top,      \* module_info: module_start, module_stop, and the exports
          libs,     \* liblist, and then the imports made from it
          sizes,    \* words of each section of the encoded data
          data,     \* the words encoded
          used,     \* words used of each section, cur_sizes,
          addrs,    \* and its next word, section_addrs
          relas     \* address and addend of each relocation of the data

state == <<elf, stage, i, fstubs, vstubs, exports, params, top, libs, sizes, data, used, addrs, relas>>

NULL == -1
NoSymbol == ""

\* The libraries of a configuration.
ExportedSymbol == [name : STRING, nid : Nat]
ExportedLibrary ==
  [name : STRING \ {NoSymbol}, nid : Nat, version : Nat, syscall : BOOLEAN,
   function : Seq(ExportedSymbol), variable : Seq(ExportedSymbol)]

\* The segments of a program, its symbols in the order of their table, its
\* configuration or the default, the option -g, and how many stubs it has at most.
ProgramOK(p) ==
  /\ p.segments \in Seq([vaddr : Nat, memsz : Nat]) /\ p.segments # <<>>
  /\ p.symtab \in Seq([name : DOMAIN NidOf, type : {"function", "variable"}, global : BOOLEAN,
                       visible : BOOLEAN, stub : BOOLEAN, value : Nat])
  /\ p.entry \in Nat /\ p.sdk \in Nat /\ p.text \in Nat /\ p.linked \in Nat
  /\ p.given \in BOOLEAN /\ p.output \in BOOLEAN /\ (p.output => ~ p.given)
  /\ {"is_default", "is_image_module", "is_process_image", "start", "bootstart", "stop", "exit", "libs"}
       = DOMAIN p.exports
  /\ p.exports.libs \in Seq(ExportedLibrary)
  /\ p.exports.is_default = ~ p.given /\ (~ p.given => p.exports.libs = <<>>)

ASSUME ProgramsAssumption == \A p \in Programs : ProgramOK(p)

\* sce_section_sizes_t, in its order.
Sections == <<"ModuleInfo", "Lib_ent", "Export", "Lib_stubs", "Import", "FNID", "FStub", "VNID", "VStub">>
NoWords == [s \in ToSet(Sections) |-> 0]

\* Words of sce_module_info_raw, sce_module_exports_raw, sce_module_imports_raw,
\* sce_process_param_v5_raw, sce_process_param_v6_raw and sce_libc_param_raw.
INFO == 23
EXPORT == 8
IMPORT == 13
PARAM5 == 12
PARAM6 == 13
LIBC == 44

\* vita_elf_load() comes first; sections is that of the linked program.
InitWith(p, sections) ==
  /\ elf = [program |-> p, sections |-> sections]
  /\ stage = "link" /\ i = 0
  /\ fstubs = <<>> /\ vstubs = <<>>
  /\ exports = p.exports
  /\ params = [process |-> 0, libc |-> 0]
  /\ top = [start |-> NULL, stop |-> NULL, exports |-> <<>>]
  /\ libs = <<>>
  /\ sizes = NoWords /\ used = NoWords /\ addrs = NoWords /\ data = <<>> /\ relas = {}

program == elf.program
To(s) == stage' = s /\ i' = 0
Again == UNCHANGED stage /\ i' = i + 1

----------------------------------------------------------------------------
(* vita-elf.c                                                               *)

\* A stub is 16 bytes of its section; its library has the name of the section.
StubsOf(section) ==
  [n \in DOMAIN section.stubs |->
     [addr |-> section.addr + 16 * (n - 1),
      library |-> [name |-> section.name, flags |-> section.stubs[n].flags],
      library_nid |-> section.stubs[n].library_nid, target_nid |-> section.stubs[n].nid,
      rel_info |-> section.stubs[n].words]]

load_stubs ==
  /\ stage = "load" /\ i < Len(elf.sections)
  /\ LET section == elf.sections[i + 1]
     IN IF section.type = "function"
        THEN fstubs' = fstubs \o StubsOf(section) /\ UNCHANGED vstubs
        ELSE vstubs' = vstubs \o StubsOf(section) /\ UNCHANGED fstubs
  /\ Again
  /\ UNCHANGED <<elf, exports, params, top, libs, sizes, data, used, addrs, relas>>

Loaded ==
  /\ stage = "load" /\ i = Len(elf.sections)
  /\ To(IF program.output THEN "generate" ELSE "params")
  /\ UNCHANGED <<elf, fstubs, vstubs, exports, params, top, libs, sizes, data, used, addrs, relas>>

\* get_function_by_symbol() and get_variable_by_symbol(): the first of that name
\* and type, local or global.
Named(type, name) == {n \in DOMAIN program.symtab : program.symtab[n].type = type /\ program.symtab[n].name = name}
AddressOf(type, name) == program.symtab[First(Named(type, name))].value
Has(type, name) == Named(type, name) # {}

InSegment(n, a) == program.segments[n].vaddr <= a /\ a < program.segments[n].vaddr + program.segments[n].memsz
SegmentsOf(a) == {n \in DOMAIN program.segments : InSegment(n, a)}
vita_elf_vaddr_to_host(a) == IF SegmentsOf(a) = {} THEN NULL ELSE a
vita_elf_host_to_vaddr(p) == IF p = NULL THEN 0 ELSE p

OwnGlobals == {n \in DOMAIN program.symtab : program.symtab[n].global /\ ~ program.symtab[n].stub}
HasGlobal(name) == OwnGlobals \cap Named("function", name) # {}
Libc == [start |-> "__module_start", stop |-> "__module_stop", exit |-> "__module_exit"]
Own == [start |-> "module_start", stop |-> "module_stop", exit |-> "module_exit"]

Given(e) == {p \in DOMAIN Own : e[p] # NoSymbol}

\* The entry points are the first global symbols of their names; the rest that is
\* visible is exported.  A second symbol of such a name is an export like others.
WithLibc ==
  IF Given(exports) = {} /\ \A p \in DOMAIN Libc : HasGlobal(Libc[p])
  THEN [exports EXCEPT !.start = Libc.start, !.stop = Libc.stop, !.exit = Libc.exit]
  ELSE exports
Found(p) == {n \in OwnGlobals : program.symtab[n].name = Own[p]}
FoundPoints == {p \in DOMAIN Own \ Given(WithLibc) : Found(p) # {}}
Others == {n \in OwnGlobals : program.symtab[n].visible} \ {First(Found(p)) : p \in FoundPoints}

\* The symbols of a type, sorted by NID.
NidOfSymbol(n) == NidOf[program.symtab[n].name]
OtherSymbols(type) ==
  LET symbols == {n \in Others : program.symtab[n].type = type}
      before(m, n) == NidOfSymbol(m) < NidOfSymbol(n) \/ (NidOfSymbol(m) = NidOfSymbol(n) /\ m < n)
      at(k) == CHOOSE n \in symbols : Cardinality({m \in symbols : before(m, n)}) = k - 1
  IN [k \in 1 .. Cardinality(symbols) |-> [name |-> program.symtab[at(k)].name, nid |-> NidOfSymbol(at(k))]]

vita_elf_generate_exports ==
  /\ stage = "generate"
  /\ exports' = [p \in DOMAIN exports |->
                   IF p \in FoundPoints THEN Own[p]
                   ELSE IF p = "libs" /\ Others # {}
                        THEN <<[name |-> "module", nid |-> 0, version |-> 1, syscall |-> FALSE,
                                function |-> OtherSymbols("function"), variable |-> OtherSymbols("variable")]>>
                        ELSE WithLibc[p]]
  /\ To(IF Others = {} THEN "crash" ELSE "params")  \* qsort(exportlib->variables, ...)
  /\ UNCHANGED <<elf, fstubs, vstubs, params, top, libs, sizes, data, used, addrs, relas>>

----------------------------------------------------------------------------
(* The parameters: main() and sce_elf_module_params_create().               *)

HeapSymbols == {"sceLibcHeapSize", "sceLibcHeapExtendedAlloc", "sceLibcHeapDelayedAlloc",
                "sceLibcHeapInitialSize", "sceLibcHeapUnitSize1MiB", "sceLibcHeapDetectOverrun"}
HasParam == exports.is_process_image /\ ~ exports.is_image_module

\* Mutant: the parameters of libc are counted for every module.
have_libc_Always == \E s \in HeapSymbols : Has("variable", s)

have_libc == HasParam /\ \E s \in HeapSymbols : Has("variable", s)

HasSdk == Has("variable", "module_sdk_version")
SdkAddress == AddressOf("variable", "module_sdk_version")
NewFormat == 23666688  \* 0x1692000
PSP2_SDK_VERSION == 56033297

sce_elf_module_params_create ==
  /\ stage = "params"
  /\ IF HasSdk /\ vita_elf_vaddr_to_host(SdkAddress) = NULL
     THEN To("failure") /\ UNCHANGED params
     ELSE /\ params' = IF HasParam
                       THEN [process |-> IF (IF HasSdk THEN program.sdk ELSE PSP2_SDK_VERSION) >= NewFormat
                                         THEN PARAM6 ELSE PARAM5,
                             libc |-> IF have_libc THEN LIBC ELSE 0]
                       ELSE params
          /\ To("main_export")
  /\ UNCHANGED <<elf, fstubs, vstubs, exports, top, libs, sizes, data, used, addrs, relas>>

----------------------------------------------------------------------------
(* sce_elf_module_info_create(): the exports.                               *)

\* NID_MODULE_START, NID_MODULE_BOOTSTART, ...; these, and the two entries that are
\* no address of the program, are negative.
MainNid == [start |-> -1, bootstart |-> -2, stop |-> -3, exit |-> -4, info |-> -5, param |-> -6, sdk |-> -7]
ModuleInfoEntry == -2
ProcessParamEntry == -3
Entry(name, entry) == <<[nid |-> MainNid[name], entry |-> entry]>>

Points == IF exports.is_image_module THEN {}
          ELSE {p \in {"start", "bootstart", "stop", "exit"} : exports[p] # NoSymbol}
PointAddress(p) ==
  IF p \in Points THEN vita_elf_vaddr_to_host(AddressOf("function", exports[p]))
  ELSE vita_elf_vaddr_to_host(program.entry)
DefaultStart == ~ exports.is_image_module /\ exports.start = NoSymbol /\ (exports.is_default \/ exports.is_process_image)
ShownPoints == Points \cup IF DefaultStart THEN {"start"} ELSE {}

Point(p) == IF p \in ShownPoints THEN Entry(p, PointAddress(p)) ELSE <<>>
MainFunctions == Point("start") \o Point("bootstart") \o Point("stop") \o Point("exit")
MainVariables ==
  Entry("info", ModuleInfoEntry) \o
  (IF HasParam THEN Entry("param", ProcessParamEntry) ELSE <<>>) \o
  (IF HasSdk THEN Entry("sdk", vita_elf_vaddr_to_host(SdkAddress)) ELSE <<>>)

set_main_module_export ==
  /\ stage = "main_export"
  /\ IF \A p \in Points : Has("function", exports[p])
     THEN /\ top' = [start |-> IF "start" \in ShownPoints THEN PointAddress("start") ELSE NULL,
                     stop |-> IF "stop" \in ShownPoints THEN PointAddress("stop") ELSE NULL,
                     exports |-> <<[name |-> NoSymbol, nid |-> 0, version |-> 0, flags |-> 32768,
                                    functions |-> Len(MainFunctions), entries |-> MainFunctions \o MainVariables]>>]
          /\ To("lib_exports")
     ELSE To("failure") /\ UNCHANGED top
  /\ UNCHANGED <<elf, fstubs, vstubs, exports, params, libs, sizes, data, used, addrs, relas>>

LibEntries(lib, type) ==
  [n \in DOMAIN lib[type] |->
     [nid |-> lib[type][n].nid, entry |-> vita_elf_vaddr_to_host(AddressOf(type, lib[type][n].name))]]

set_module_export ==
  /\ stage = "lib_exports" /\ i < Len(exports.libs)
  /\ LET lib == exports.libs[i + 1]
     IN IF \A type \in {"function", "variable"} : \A n \in DOMAIN lib[type] : Has(type, lib[type][n].name)
        THEN /\ top' = [top EXCEPT !.exports =
                          Append(@, [name |-> lib.name, nid |-> lib.nid, version |-> lib.version,
                                     flags |-> IF lib.syscall THEN 16385 ELSE 1,
                                     functions |-> Len(lib.function),
                                     entries |-> LibEntries(lib, "function") \o LibEntries(lib, "variable")])]
             /\ Again
        ELSE To("failure") /\ UNCHANGED top
  /\ UNCHANGED <<elf, fstubs, vstubs, exports, params, libs, sizes, data, used, addrs, relas>>

ExportsDone ==
  /\ stage = "lib_exports" /\ i = Len(exports.libs)
  /\ To("imports")
  /\ UNCHANGED <<elf, fstubs, vstubs, exports, params, top, libs, sizes, data, used, addrs, relas>>
----------------------------------------------------------------------------
(* sce_elf_module_info_create(): the imports, in sorted arrays (varray.c).  *)

\* get_sorted_insert_index(), low_idx and high_idx after each turn of its loop; compar
\* compares the key with each element.  Positions count from 0.
get_sorted_insert_index(compar) ==
  LET Turn(low, high) ==
        LET test == (low + high) \div 2
        IN IF low = high THEN <<low, high>>
           ELSE IF compar[test + 1] = 0 THEN <<test, test>>
           ELSE IF compar[test + 1] > 0 THEN <<test + 1, high>>
           ELSE <<low, test>>
      loop[n \in 0 .. Len(compar)] == IF n = 0 THEN <<0, Len(compar)>> ELSE Turn(loop[n - 1][1], loop[n - 1][2])
  IN loop[Len(compar)][1]

\* _library_search(): libraries are sorted downwards.
LibraryIndex(nid) == get_sorted_insert_index([m \in DOMAIN libs |-> libs[m].nid - nid])

\* Mutant: the element that is found is not looked at.
search_or_insert_Insert(nid) ==
  LET at == LibraryIndex(nid)
  IN InsertAt(libs, at + 1, [nid |-> nid, library |-> <<>>, functions |-> <<>>, variables |-> <<>>])

\* varray_sorted_search_or_insert(): liblist with a place for the library.
search_or_insert(nid) ==
  LET at == LibraryIndex(nid)
  IN IF at < Len(libs) /\ libs[at + 1].nid = nid THEN libs
     ELSE InsertAt(libs, at + 1, [nid |-> nid, library |-> <<>>, functions |-> <<>>, variables |-> <<>>])

\* varray_sorted_insert_ex() without duplicates: but _stub_nid_search() takes the
\* first field of the new stub for the NID it looks for, and that is its address.
sorted_insert(stubs, stub) ==
  LET at == get_sorted_insert_index([m \in DOMAIN stubs |-> stub.target_nid - stubs[m].target_nid])
  IN IF at < Len(stubs) /\ stubs[at + 1].target_nid = stub.addr THEN stubs
     ELSE InsertAt(stubs, at + 1, stub)

\* A stub of the list is put into the table of its library.
Insert(stub, table) ==
  LET found == search_or_insert(stub.library_nid)
      at == LibraryIndex(stub.library_nid) + 1
  IN libs' = [found EXCEPT ![at].library = stub.library, ![at][table] = sorted_insert(@, stub)]

InsertFunction ==
  /\ stage = "imports" /\ i < Len(fstubs)
  /\ Insert(fstubs[i + 1], "functions")
  /\ Again
  /\ UNCHANGED <<elf, fstubs, vstubs, exports, params, top, sizes, data, used, addrs, relas>>

InsertVariable ==
  /\ stage = "imports" /\ i >= Len(fstubs) /\ i < Len(fstubs) + Len(vstubs)
  /\ Insert(vstubs[i - Len(fstubs) + 1], "variables")
  /\ Again
  /\ UNCHANGED <<elf, fstubs, vstubs, exports, params, top, sizes, data, used, addrs, relas>>

Max2(a, b) == IF a >= b THEN a ELSE b
WEAK == 8
IsWeak(flags) == (flags \div WEAK) % 2 = 1

\* Mutant: the version is taken from the flags.
Version_Low(flags) == flags % 65536

Version(flags) == (flags \div 65536) % 65536

\* The tables hold the NIDs and addresses of the stubs in their order.
Table(stubs) == [n \in DOMAIN stubs |-> [nid |-> stubs[n].target_nid,
                                       entry |-> vita_elf_vaddr_to_host(stubs[n].addr)]]
set_module_import(lib) ==
  [name |-> lib.library.name, nid |-> lib.nid,
   version |-> Max2(1, Version(lib.library.flags)),
   flags |-> IF IsWeak(lib.library.flags) THEN WEAK ELSE 0,
   functions |-> Table(lib.functions), variables |-> Table(lib.variables)]

ImportsDone ==
  /\ stage = "imports" /\ i = Len(fstubs) + Len(vstubs)
  /\ libs' = [n \in DOMAIN libs |-> set_module_import(libs[n])]
  /\ To("size")
  /\ UNCHANGED <<elf, fstubs, vstubs, exports, params, top, sizes, data, used, addrs, relas>>

----------------------------------------------------------------------------
(* sce_elf_module_info_get_size()                                           *)

Total(f(_), s) == SumOf([n \in DOMAIN s |-> f(s[n])])
NameWords(name) == IF name = NoSymbol THEN 0 ELSE 1

\* Mutant: the header of relocation information is not counted.
VStubWords_NoHeader == Total(LAMBDA lib : Len(lib.variables), libs) + Total(LAMBDA v : Len(v.rel_info), vstubs)

\* The pointers, and the relocation information of every stub with its header.
VStubWords == Total(LAMBDA lib : Len(lib.variables), libs) + Total(LAMBDA v : 1 + Len(v.rel_info), vstubs)

get_size ==
  [ModuleInfo |-> INFO + params.process + (IF have_libc THEN LIBC ELSE 0),
   Lib_ent |-> EXPORT * Len(top.exports),
   Export |-> Total(LAMBDA e : NameWords(e.name) + 2 * Len(e.entries), top.exports),
   Lib_stubs |-> IMPORT * Len(libs),
   Import |-> Len(libs),
   FNID |-> Total(LAMBDA lib : Len(lib.functions), libs),
   FStub |-> Total(LAMBDA lib : Len(lib.functions), libs),
   VNID |-> Total(LAMBDA lib : Len(lib.variables), libs),
   VStub |-> VStubWords]

Sized ==
  /\ stage = "size"
  /\ sizes' = get_size
  /\ To("place")
  /\ UNCHANGED <<elf, fstubs, vstubs, exports, params, top, libs, data, used, addrs, relas>>
----------------------------------------------------------------------------
(* sce_elf_module_info_encode()                                             *)

Before(section) == SubSeq(Sections, 1, (CHOOSE n \in DOMAIN Sections : Sections[n] = section) - 1)
total_size == SumOf([n \in DOMAIN Sections |-> sizes[Sections[n]]])

\* The segment of module_start, or the first; its data follow its end.
segndx == IF top.start = NULL THEN 1 ELSE First(SegmentsOf(top.start))
segment == program.segments[segndx]
AlignUp(n) == ((n + 3) \div 4) * 4
start_offset == AlignUp(segment.memsz)
Base == segment.vaddr + start_offset
End == Base + 4 * total_size

Overlaps(s) == s.vaddr >= Base /\ s.vaddr < Base + 4 * total_size

\* Failing here frees a pointer that has no value yet.
Place ==
  /\ stage = "place"
  /\ IF \E n \in DOMAIN program.segments \ {segndx} : Overlaps(program.segments[n])
     THEN (To("null") \/ To("crash")) /\ UNCHANGED <<data, addrs>>
     ELSE /\ To("encode_info")
          /\ data' = [w \in 0 .. total_size - 1 |-> 0]
          /\ addrs' = [s \in DOMAIN addrs |-> Total(LAMBDA b : sizes[b], Before(s))]
  /\ UNCHANGED <<elf, fstubs, vstubs, exports, params, top, libs, sizes, used, relas>>

\* The address of a word of the data.
VADDR(w) == Base + 4 * w

\* Words at their places: one, and a sequence of them from w on.
Word(w, x) == [p \in {w} |-> x]
From(w, words) == [p \in w .. w + Len(words) - 1 |-> words[p - w + 1]]
When(c, words) == IF c THEN words ELSE <<>>

\* Mutant: a pointer is relocated only if it is in the program.
Relocated_Program(addresses) ==
  {[at |-> VADDR(w), addend |-> addresses[w]] : w \in {w \in DOMAIN addresses : addresses[w] # 0 /\ addresses[w] < Base}}

\* ADDRELA(): of the words that hold addresses those that are not 0 are relocated.
Relocated(addresses) ==
  {[at |-> VADDR(w), addend |-> addresses[w]] : w \in {w \in DOMAIN addresses : addresses[w] # 0}}

\* Values and addresses are written, and the addresses relocated.
Write(values, addresses) ==
  /\ data' = values ++ addresses ++ data
  /\ relas' = relas \cup Relocated(addresses)

\* What the words of sce_process_param_v5_raw (and v6) and of sce_libc_param_raw
\* are named for; a symbol that is not there leaves 0.
ProcessVariables ==
  From(4, <<"sceUserMainThreadName", "sceUserMainThreadPriority", "sceUserMainThreadStackSize",
            "sceUserMainThreadAttribute">>) ++
  From(9, <<"sceKernelPreloadModuleInhibit", "sceUserMainThreadCpuAffinityMask">>)
LibcVariables ==
  Word(31, "sceLibcHeapSize") ++ From(33, <<"sceLibcHeapExtendedAlloc", "sceLibcHeapDelayedAlloc">>) ++
  From(39, <<"sceLibcHeapInitialSize", "sceLibcHeapUnitSize1MiB", "sceLibcHeapDetectOverrun">>)
MallocReplace == 0
NewReplace == 13
MallocForTls == 23
ParamSize == 29
DefaultHeapSize == 43
LibcFunctions ==
  From(MallocReplace + 2,
       <<"user_malloc_init", "user_malloc_finalize", "user_malloc", "user_free", "user_calloc", "user_realloc",
         "user_memalign", "user_reallocalign", "user_malloc_stats", "user_malloc_stats_fast",
         "user_malloc_usable_size">>) ++
  From(NewReplace + 2,
       <<"_Z8user_newj", "_Z8user_newjRKSt9nothrow_t", "_Z14user_new_arrayj", "_Z14user_new_arrayjRKSt9nothrow_t",
         "_Z11user_deletePv", "_Z11user_deletePvRKSt9nothrow_t",
         "_Z17user_delete_arrayPv", "_Z17user_delete_arrayPvRKSt9nothrow_t">>) ++
  From(MallocForTls + 2,
       <<"user_malloc_for_tls_init", "user_malloc_for_tls_finalize", "user_malloc_for_tls", "user_free_for_tls">>)
Symbols(type, names, at) ==
  [w \in {at + n : n \in {n \in DOMAIN names : Has(type, names[n])}} |-> AddressOf(type, names[w - at])]

LibcAt == INFO + params.process
LibcAddresses ==
  Symbols("variable", LibcVariables, LibcAt) ++ Symbols("function", LibcFunctions, LibcAt) ++
  Word(LibcAt + 32, VADDR(LibcAt + DefaultHeapSize)) ++ Word(LibcAt + 37, VADDR(LibcAt + MallocReplace)) ++
  Word(LibcAt + 38, VADDR(LibcAt + NewReplace)) ++ Word(LibcAt + 42, VADDR(LibcAt + MallocForTls))
ProcessAddresses ==
  Symbols("variable", ProcessVariables, INFO) ++
  When(params.libc # 0, Word(INFO + 11, VADDR(LibcAt + ParamSize)))

\* vita_elf_host_to_segoffset(), of a pointer that is not NULL.
SegOffset(p) == IF segment.vaddr <= p /\ p <= segment.vaddr + segment.memsz THEN p - segment.vaddr ELSE NULL
OFFSET(section) == start_offset + 4 * addrs[section]

EncodeInfo ==
  /\ stage = "encode_info"
  /\ LET imports == IF top.start # NULL
                    THEN <<OFFSET("Lib_stubs"), OFFSET("Lib_stubs") + 4 * sizes["Lib_stubs"]>>
                    ELSE <<0, 0>>
     IN Write(From(9, <<OFFSET("Lib_ent"), OFFSET("Lib_ent") + 4 * sizes["Lib_ent"]>> \o imports) ++
              From(17, <<SegOffset(top.start), SegOffset(top.stop)>>),
              When(params.process # 0, ProcessAddresses) ++ When(params.libc # 0, LibcAddresses))
  /\ To("encode_exports")
  /\ UNCHANGED <<elf, fstubs, vstubs, exports, params, top, libs, sizes, used, addrs>>

\* INCR()
Plus(words, more) == [s \in DOMAIN words |-> IF s \in DOMAIN more THEN words[s] + more[s] ELSE words[s]]
Used(more) == used' = Plus(used, more) /\ addrs' = Plus(addrs, more)

\* Mutant: the size of the section is not looked at.
Fits_Unchecked(more) == TRUE

Fits(more) == \A s \in DOMAIN more : used[s] + more[s] <= sizes[s]
Nids(table) == [n \in DOMAIN table |-> table[n].nid]

\* A structure, its name, and the tables of its NIDs and its entries.
EntryValue(p) ==
  IF p = ModuleInfoEntry THEN Base
  ELSE IF p = ProcessParamEntry THEN VADDR(INFO) ELSE vita_elf_host_to_vaddr(p)

EncodeExport ==
  /\ stage = "encode_exports" /\ i < Len(top.exports)
  /\ LET e == top.exports[i + 1]
         n == Len(e.entries)
         raw == addrs["Lib_ent"]
         nids == addrs["Export"] + NameWords(e.name)
         more == [Lib_ent |-> EXPORT, Export |-> NameWords(e.name) + 2 * n]
     IN IF Fits(more)
        THEN /\ Write(From(raw, <<e.version, <<e.flags, e.functions>>, n - e.functions, 0, e.nid>>) ++
                      When(e.name # NoSymbol, Word(addrs["Export"], e.name)) ++ From(nids, Nids(e.entries)),
                      When(e.name # NoSymbol, Word(raw + 5, VADDR(addrs["Export"]))) ++
                      From(raw + 6, <<VADDR(nids), VADDR(nids + n)>>) ++
                      From(nids + n, [m \in 1 .. n |-> EntryValue(e.entries[m].entry)]))
             /\ Used(more) /\ Again
        ELSE To("null") /\ UNCHANGED <<data, used, addrs, relas>>
  /\ UNCHANGED <<elf, fstubs, vstubs, exports, params, top, libs, sizes>>

ExportsEncoded ==
  /\ stage = "encode_exports" /\ i = Len(top.exports)
  /\ To("encode_imports")
  /\ UNCHANGED <<elf, fstubs, vstubs, exports, params, top, libs, sizes, data, used, addrs, relas>>

\* The first stub with the NIDs of a variable is looked for; its relocation
\* information has a header: its size in bytes, shifted by 4.
Stub(lib, variable) ==
  vstubs[First({n \in DOMAIN vstubs : vstubs[n].library_nid = lib.nid /\ vstubs[n].target_nid = variable.nid})]
RelInfo(stub) == <<64 * (1 + Len(stub.rel_info))>> \o stub.rel_info

EncodeImport ==
  /\ stage = "encode_imports" /\ i < Len(libs)
  /\ LET lib == libs[i + 1]
         nf == Len(lib.functions)
         nv == Len(lib.variables)
         raw == addrs["Lib_stubs"]
         infos == [n \in 1 .. nv |-> RelInfo(Stub(lib, lib.variables[n]))]
         info_at == [n \in 1 .. nv |-> addrs["VStub"] + nv + SumOf([m \in 1 .. n - 1 |-> Len(infos[m])])]
         more == [Lib_stubs |-> IMPORT, Import |-> 1, FNID |-> nf, FStub |-> nf, VNID |-> nv,
                  VStub |-> nv + Len(FlattenSeq(infos))]
     IN IF Fits(more)
        THEN /\ Write(From(raw, <<lib.version, <<lib.flags, nf>>, <<nv, 0>>, 0, lib.nid>>) ++
                      Word(addrs["Import"], lib.name) ++
                      From(addrs["FNID"], Nids(lib.functions)) ++ From(addrs["VNID"], Nids(lib.variables)) ++
                      From(addrs["VStub"] + nv, FlattenSeq(infos)),
                      Word(raw + 5, VADDR(addrs["Import"])) ++
                      When(nf # 0, From(raw + 7, <<VADDR(addrs["FNID"]), VADDR(addrs["FStub"])>>)) ++
                      When(nv # 0, From(raw + 9, <<VADDR(addrs["VNID"]), VADDR(addrs["VStub"])>>)) ++
                      From(addrs["FStub"], [n \in 1 .. nf |-> vita_elf_host_to_vaddr(lib.functions[n].entry)]) ++
                      From(addrs["VStub"], [n \in 1 .. nv |-> VADDR(info_at[n])]))
             /\ Used(more) /\ Again
        ELSE \* of VStub the check comes after the words are written, and it is the last section
             To("overrun") /\ UNCHANGED <<data, used, addrs, relas>>
  /\ UNCHANGED <<elf, fstubs, vstubs, exports, params, top, libs, sizes>>

\* "did not use all space in section %d!"
Encoded ==
  /\ stage = "encode_imports" /\ i = Len(libs)
  /\ To(IF [used EXCEPT !["ModuleInfo"] = INFO + params.process + params.libc] = sizes THEN "encoded" ELSE "null")
  /\ UNCHANGED <<elf, fstubs, vstubs, exports, params, top, libs, sizes, data, used, addrs, relas>>

VitaElfCreate ==
  \/ load_stubs \/ Loaded \/ vita_elf_generate_exports \/ sce_elf_module_params_create
  \/ set_main_module_export \/ set_module_export \/ ExportsDone
  \/ InsertFunction \/ InsertVariable \/ ImportsDone \/ Sized
  \/ Place \/ EncodeInfo \/ EncodeExport \/ ExportsEncoded \/ EncodeImport \/ Encoded
----------------------------------------------------------------------------
(* Properties.                                                              *)

Stubs == fstubs \o vstubs
TableOf(n) == IF n <= Len(fstubs) THEN "functions" ELSE "variables"

\* A stub whose address is the NID at the place where it belongs is lost.
Lost(n) ==
  \E m \in DOMAIN Stubs : /\ TableOf(m) = TableOf(n) /\ Stubs[m].library_nid = Stubs[n].library_nid
                         /\ Stubs[m].target_nid = Stubs[n].addr

\* The sorted arrays stay sorted and each library is there once, with the stubs
\* inserted so far: what a search relies on.
ListsSorted ==
  stage = "imports" =>
    /\ \A l \in 1 .. Len(libs) - 1 : libs[l].nid > libs[l + 1].nid
    /\ \A l \in DOMAIN libs : \A t \in {"functions", "variables"} :
         \A n \in 1 .. Len(libs[l][t]) - 1 : libs[l][t][n].target_nid <= libs[l][t][n + 1].target_nid
    /\ \A n \in 1 .. i : ~ Lost(n) =>
         \E l \in DOMAIN libs : libs[l].nid = Stubs[n].library_nid /\ Stubs[n] \in ToSet(libs[l][TableOf(n)])

\* Every variable has its type: sections are not used beyond their size, what is
\* relocated is a word of the data, libraries are there because of a stub, and the
\* sorted arrays are sorted (varray.c:194-246, sce-elf.c:477-497).
TypeOK ==
  /\ i \in Nat
  /\ \A s \in ToSet(Sections) : stage \notin {"link", "load", "generate", "params"} => used[s] \in 0 .. sizes[s]
  /\ DOMAIN data \in {1 .. 0, 0 .. total_size - 1}
  /\ stage = "encoded" => \A r \in relas : data[(r.at - Base) \div 4] = r.addend /\ r.at = VADDR((r.at - Base) \div 4)
  /\ \A l \in DOMAIN libs : \E n \in DOMAIN Stubs : Stubs[n].library_nid = libs[l].nid
  /\ ListsSorted

\* Two variable stubs of one NID: the space is counted for both, and what is
\* encoded is that of the first, twice.
SameVariable ==
  \E m, n \in DOMAIN vstubs : /\ m # n /\ vstubs[m].library_nid = vstubs[n].library_nid
                             /\ vstubs[m].target_nid = vstubs[n].target_nid
LostVariable == \E n \in DOMAIN vstubs : Lost(Len(fstubs) + n)

\* Encoding fails, or worse, only if a segment is in the way, a variable is
\* imported twice or lost, or there is nothing to export: what
\* sce_elf_module_info_get_size() counts is what is written (sce-elf.c:1020-1027).
EncodingFailsForCause ==
  /\ stage \in {"null", "overrun", "crash"} =>
       \/ sizes # NoWords /\ \E n \in DOMAIN program.segments \ {segndx} : Overlaps(program.segments[n])
       \/ SameVariable \/ LostVariable
       \/ program.output /\ exports.libs = <<>>
  /\ stage = "overrun" => SameVariable

\* Segments that meet in memory, and those that were apart with their padding.
Meets(s, low, high) == s.vaddr < high /\ low < s.vaddr + s.memsz
Apart == \A m, n \in DOMAIN program.segments :
           m # n => ~ Meets(program.segments[m], program.segments[n].vaddr, program.segments[n].vaddr + AlignUp(program.segments[n].memsz))

(* What the system reads: it knows where the module info is, follows what    *)
(* is relocated, and nothing else.                                          *)

Follow(w) == IF [at |-> VADDR(w), addend |-> data[w]] \in relas /\ data[w] >= Base /\ data[w] < End
             THEN (data[w] - Base) \div 4 ELSE NULL
Reads(w, words) == w # NULL /\ \A n \in DOMAIN words : data[w + n - 1] = words[n]
\* An address of the program; 0 is not relocated, as if it were none.
ReadsAddress(w, a) == data[w] = a /\ (a # 0 => [at |-> VADDR(w), addend |-> a] \in relas)

\* Structures from one word of the module info to the next.
Structures(word, size) ==
  LET first == (data[word] - start_offset) \div 4
      last == (data[word + 1] - start_offset) \div 4
  IN {w \in first .. last - 1 : (w - first) % size = 0}

\* The stub n is in the table of its library: its NID, with its address if it is a
\* function, and with its relocation information if it is a variable.
ReadsStub(raw, n) ==
  LET stub == Stubs[n]
      in(nids, entries, count) ==
        \E m \in 1 .. count :
          /\ Reads(Follow(nids) + m - 1, <<stub.target_nid>>)
          /\ IF n <= Len(fstubs)
             THEN ReadsAddress(Follow(entries) + m - 1, stub.addr)
             ELSE Reads(Follow(Follow(entries) + m - 1), RelInfo(stub))
  IN IF n <= Len(fstubs) THEN in(raw + 7, raw + 8, data[raw + 1][2]) ELSE in(raw + 9, raw + 10, data[raw + 2][1])

\* The system finds each stub of the ELF in the table of its library, which is
\* there once: unless module_start is in no segment, or the stub is lost or is a
\* variable imported twice (sce-elf.c:957-1004).
ImportsRead ==
  stage = "encoded" /\ top.start # NULL /\ ~ SameVariable =>
    \A n \in DOMAIN Stubs : ~ Lost(n) /\ (n <= Len(fstubs) => SegmentsOf(Stubs[n].addr) # {}) =>
      LET found == {raw \in Structures(11, IMPORT) : data[raw + 4] = Stubs[n].library_nid}
      IN Cardinality(found) = 1 /\ \A raw \in found : ReadsStub(raw, n)

\* The system finds each export of the configuration under its NID at the address
\* of its symbol, and module_start where the code says (sce-elf.c:140-306, 914-955).
ReadsEntry(raw, nid, a) ==
  \E m \in 1 .. data[raw + 1][2] + data[raw + 2] :
    Reads(Follow(raw + 6) + m - 1, <<nid>>) /\ ReadsAddress(Follow(raw + 7) + m - 1, a)
ExportsRead ==
  stage = "encoded" =>
    /\ \A l \in DOMAIN exports.libs : \A type \in {"function", "variable"} :
         \A n \in DOMAIN exports.libs[l][type] :
           LET raws == {raw \in Structures(9, EXPORT) : data[raw + 4] = exports.libs[l].nid /\ Follow(raw + 5) # NULL}
               symbol == exports.libs[l][type][n]
           IN \E raw \in raws : ReadsEntry(raw, symbol.nid,
                                          vita_elf_host_to_vaddr(vita_elf_vaddr_to_host(AddressOf(type, symbol.name))))
    /\ \A p \in Points : \E raw \in Structures(9, EXPORT) :
         data[raw + 1][1] = 32768 /\ ReadsEntry(raw, MainNid[p], vita_elf_host_to_vaddr(PointAddress(p)))
=============================================================================
