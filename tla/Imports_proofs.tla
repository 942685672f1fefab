--------------------------- MODULE Imports_proofs ---------------------------
(***************************************************************************)
(* For every set of import files and programs: the tables of the module    *)
(* info, and what the programs leave in the files they write.              *)
(***************************************************************************)
EXTENDS Imports, ProofLemmas, FiniteSetTheorems

----------------------------------------------------------------------------
(* Which files there are.                                                   *)

\* The stages of main() with a whole ELF in the output file, and those after packing.
Unpacked == {"pack", "pack_segments", "remove"}
Finished == {"done", "headers", "segments", "error", "killed", "fself"}
Creating == {"write_info", "write_sections", "write_relas", "fill_relas", "rewrite", "update"}
Writing == Creating \cup Unpacked \cup {"rename", "fclose"} \cup Finished

\* The ELF, and the file it is packed into, as far as they are known to be whole: what is
\* made of a file that has lost something has lost it too.
DiskInv ==
  /\ DOMAIN disk = {"velf", "tmp", "self"}
  /\ packed.next # 0 \/ disk["tmp"] # "none" => stage \in {"pack_segments", "remove", "rename", "fclose"} \cup Finished
  /\ stage \in Unpacked => disk["velf"] \in {"elf", "lost"}
  /\ stage \in {"pack_segments", "remove", "rename"} => disk["tmp"] \in {"partial", "lost"}
  /\ stage = "rename" => disk["velf"] \in {"elf", "lost", "none"}
  /\ stage = "fclose" => \/ disk["tmp"] = "none" /\ disk["velf"] \in {"partial", "lost"}
                         \/ disk["tmp"] \in {"partial", "lost"} /\ disk["velf"] \in {"elf", "lost", "none"}
  /\ stage \in Finished => Remains \/ DataLost
  /\ disk["velf"] = "lost" => disk["tmp"] \in {"none", "lost"}
  /\ "packed" \in {disk["velf"], disk["tmp"]} => stage \in Finished /\ Len(packed.offsets) = Len(dest.segments)
  /\ disk["velf"] = "packed" => disk["tmp"] = "none"
  /\ stage = "pack_segments" => i = Len(packed.offsets)
  /\ \E S : packed.offsets \in Seq(S)
  /\ stage \in {"remove", "rename", "fclose"} => Len(packed.offsets) = Len(dest.segments)
  /\ stage \in {"headers", "segments"} \/ disk["self"] = "self" => disk["velf"] \in {"elf", "packed"}
  /\ disk["self"] = "self" => stage = "fself"
  /\ stage = "fself" => disk["self"] \in {"self", "lost"}

\* No file is there at first.
LEMMA InitDisk == ImportsInit => DiskInv
<1> SUFFICES ASSUME ImportsInit PROVE DiskInv
    OBVIOUS
<1>1. stage = "link" /\ disk = [name \in {"velf", "tmp", "self"} |-> "none"] /\ packed = [offsets |-> <<>>, next |-> 0]
      BY DEF ImportsInit, InitWith, OutputInit
<1>2. packed.offsets \in Seq({})
      BY <1>1
<1> QED
    BY <1>1, <1>2 DEF DiskInv, Creating, Unpacked, Finished

\* The stages of reading and encoding come before those of writing.
LEMMA CreateStages ==
  ASSUME VitaElfCreate
  PROVE  stage \notin Writing /\ stage' \notin Writing
<1> USE DEF Writing, Creating, Unpacked, Finished
<1>1. CASE load_stubs \/ Loaded \/ vita_elf_generate_exports \/ sce_elf_module_params_create
      BY <1>1 DEF load_stubs, Loaded, vita_elf_generate_exports, sce_elf_module_params_create, To, Again
<1>2. CASE set_main_module_export \/ set_module_export \/ ExportsDone
  <2>1. CASE set_main_module_export
        BY <2>1 DEF set_main_module_export, To
  <2>2. CASE set_module_export
        BY <2>2 DEF set_module_export, To, Again
  <2>3. CASE ExportsDone
        BY <2>3 DEF ExportsDone, To
  <2> QED
      BY <1>2, <2>1, <2>2, <2>3
<1>3. CASE InsertFunction \/ InsertVariable \/ ImportsDone \/ Sized
      BY <1>3 DEF InsertFunction, InsertVariable, ImportsDone, Sized, To, Again
<1>4. CASE Place \/ EncodeInfo \/ EncodeExport \/ ExportsEncoded \/ EncodeImport \/ Encoded
      BY <1>4 DEF Place, EncodeInfo, EncodeExport, ExportsEncoded, EncodeImport, Encoded, To, Again
<1> QED
    BY <1>1, <1>2, <1>3, <1>4 DEF VitaElfCreate

\* A step that writes the ELF, or packs it.
LEMMA WrittenDisk ==
  ASSUME DiskInv, Written
  PROVE  DiskInv'
<1> USE DEF DiskInv, Remains, DataLost, Creating, Unpacked, Finished, To, Again
<1>1. CASE elf_utils_copy_to_file
      BY <1>1 DEF elf_utils_copy_to_file
<1>2. CASE sce_elf_write_module_info
      BY <1>2 DEF sce_elf_write_module_info
<1>3. CASE WriteSection
      BY <1>3 DEF WriteSection
<1>4. CASE AddRelaSection \/ sce_elf_write_rela_sections
      BY <1>4 DEF AddRelaSection, sce_elf_write_rela_sections
<1>5. CASE sce_elf_rewrite_stubs
      BY <1>5 DEF sce_elf_rewrite_stubs
<1>6. CASE elf_update
  <2>1. stage = "update" /\ packed' = packed /\ dest' = dest /\ stage' \in {"pack", "done", "failure"}
        /\ \/ disk' = disk /\ stage' = "failure"
           \/ (\E left \in {"elf", "lost"} : disk' = [disk EXCEPT !["velf"] = left]) /\ stage' \in {"pack", "done"}
        BY <1>6, ZenonT(30) DEF elf_update
  <2>2. disk["self"] # "self" /\ "packed" \notin {disk["velf"], disk["tmp"]}
        BY <2>1
  <2>3. CASE stage' = "failure"
        BY <2>1, <2>2, <2>3
  <2>4. CASE stage' # "failure"
    <3>1. PICK left \in {"elf", "lost"} : disk' = [disk EXCEPT !["velf"] = left]
          BY <2>1, <2>4
    <3>2. disk'["velf"] = left /\ disk'["tmp"] = disk["tmp"] /\ disk'["self"] = disk["self"] /\ DOMAIN disk' = DOMAIN disk
          BY <3>1
    <3> QED
        BY <2>1, <2>2, <2>4, <3>2
  <2> QED
      BY <2>3, <2>4
<1>7. CASE vita_elf_packing
  <2>1. packed' = [offsets |-> <<>>, next |-> HeaderSize] /\ stage' = "pack_segments" /\ i' = 0
        /\ disk' = [disk EXCEPT !["tmp"] = IF disk["velf"] = "lost" THEN "lost" ELSE "partial"]
        BY <1>7 DEF vita_elf_packing, Temporary
  <2>2. packed'.offsets \in Seq({}) /\ Len(packed'.offsets) = 0
        BY <2>1
  <2> QED
      BY <1>7, <2>1, <2>2 DEF vita_elf_packing
<1>8. CASE PackSegment
  <2>1. PICK x : packed'.offsets = Append(packed.offsets, x)
        BY <1>8 DEF PackSegment
  <2>2. PICK S : packed.offsets \in Seq(S)
        OBVIOUS
  <2>3. packed'.offsets \in Seq(S \cup {x}) /\ Len(packed'.offsets) = Len(packed.offsets) + 1
        BY <2>1, <2>2
  <2> QED
      BY <1>8, <2>3 DEF PackSegment
<1>9. CASE PackHeaders
      BY <1>9 DEF PackHeaders, output_vars
<1>10. CASE PackingFails
      BY <1>10 DEF PackingFails, output_vars
<1>11. CASE remove
      BY <1>11 DEF remove
<1>12. CASE rename
      BY <1>12 DEF rename, Temporary
<1>13. CASE fclose
      BY <1>13 DEF fclose
<1> QED
    BY <1>1, <1>2, <1>3, <1>4, <1>5, <1>6, <1>7, <1>8, <1>9, <1>10, <1>11, <1>12, <1>13 DEF Written

\* A step of vita-make-fself, which only reads the file.
LEMMA FselfDisk ==
  ASSUME DiskInv, VitaMakeFself
  PROVE  DiskInv'
<1> USE DEF DiskInv, Remains, DataLost, Creating, Unpacked, Finished, To, Again, Error
<1>1. CASE ReadInput
      BY <1>1 DEF ReadInput, output_vars
<1>2. CASE ReadLost
      BY <1>2 DEF ReadLost
<1>3. CASE WriteHeaders
      BY <1>3 DEF WriteHeaders
<1>4. CASE WriteSegment
      BY <1>4 DEF WriteSegment, output_vars
<1>5. CASE WriteHeader
      BY <1>5 DEF WriteHeader
<1> QED
    BY <1>1, <1>2, <1>3, <1>4, <1>5 DEF VitaMakeFself

\* Every step keeps it.
LEMMA NextDisk == DiskInv /\ [ImportsNext]_allvars => DiskInv'
<1> SUFFICES ASSUME DiskInv, [ImportsNext]_allvars PROVE DiskInv'
    OBVIOUS
<1>1. CASE Generate \/ (Terminated /\ UNCHANGED allvars) \/ UNCHANGED allvars
      BY <1>1 DEF Generate, allvars, state, fself_vars, output_vars, DiskInv, Remains, DataLost
<1>2. CASE Link
      BY <1>2 DEF Link, fself_vars, output_vars, DiskInv, Remains, DataLost, Unpacked, Finished
<1>3. CASE VitaElfCreate /\ UNCHANGED fself_vars
  <2>1. disk' = disk /\ packed' = packed /\ dest' = dest
        BY <1>3 DEF fself_vars, output_vars
  <2> QED
      BY <1>3, <2>1, CreateStages DEF DiskInv, Remains, DataLost, Writing, Creating, Unpacked, Finished
<1>4. CASE Create
      BY <1>3, <1>4, WrittenDisk, FselfDisk DEF Create
<1> QED
    BY <1>1, <1>2, <1>4 DEF ImportsNext

\* Whatever call fails while packing or making a SELF, and wherever the programs are
\* stopped, the ELF or the packed file is there, under the name of the output or the
\* temporary one, but between removing the one and closing the other; and status 0 means
\* less only if rename() has failed or some of a file is lost without an error.
THEOREM OutputSurvivesAlways == ImportsSpec => []OutputSurvives
<1>1. DiskInv => OutputSurvives
      BY DEF DiskInv, OutputSurvives, ElfSurvives, Remains, DataLost, Finished, Unpacked
<1> QED
    BY <1>1, InitDisk, NextDisk, PTL DEF ImportsSpec

\* A turn of the search, and what it goes through.
SearchTurn(s, low, high) ==
  LET test == (low + high) \div 2
  IN IF low = high THEN <<low, high>>
     ELSE IF s[test + 1] = 0 THEN <<test, test>>
     ELSE IF s[test + 1] > 0 THEN <<test + 1, high>>
     ELSE <<low, test>>
SearchRange(s) == {p \in (0 .. Len(s)) \X (0 .. Len(s)) : p[1] <= p[2]}
SearchRuns(s, c) ==
  /\ c[0] = <<0, Len(s)>>
  /\ \A n \in 1 .. Len(s) : c[n] = SearchTurn(s, c[n - 1][1], c[n - 1][2])
  /\ \A n \in 0 .. Len(s) : c[n] \in SearchRange(s)
  /\ get_sorted_insert_index(s) = c[Len(s)][1]

\* The search of a list has such a run.
LEMMA SearchLoop == ASSUME NEW s, IsList(s) PROVE \E c : SearchRuns(s, c)
<1> DEFINE N == Len(s)
           S == {p \in (0 .. N) \X (0 .. N) : p[1] <= p[2]}
           Turn(low, high) == SearchTurn(s, low, high)
           step == [p \in (1 .. N) \X S |-> Turn(p[2][1], p[2][2])]
           Is(h) == h = [n \in 0 .. N |-> IF n = 0 THEN <<0, N>> ELSE Turn(h[n - 1][1], h[n - 1][2])]
           c == CHOOSE h : Is(h)
<1>1. N \in Nat
      BY ListFacts
<1>2. ASSUME NEW p \in S PROVE Turn(p[1], p[2]) \in S
  <2>1. p[1] \in 0 .. N /\ p[2] \in 0 .. N /\ p[1] <= p[2]
        OBVIOUS
  <2>2. CASE p[1] = p[2]
        BY <2>1, <2>2 DEF SearchTurn
  <2>3. CASE p[1] # p[2]
    <3>1. PICK t : t = (p[1] + p[2]) \div 2
          OBVIOUS
    <3>2. t \in 0 .. N /\ p[1] <= t /\ t < p[2] /\ t + 1 \in 0 .. N
          BY <2>1, <2>3, <3>1, <1>1
    <3>3. <<t, t>> \in S /\ <<t + 1, p[2]>> \in S /\ <<p[1], t>> \in S
          BY <2>1, <3>2, <1>1
    <3>4. Turn(p[1], p[2]) = IF s[t + 1] = 0 THEN <<t, t>> ELSE IF s[t + 1] > 0 THEN <<t + 1, p[2]>> ELSE <<p[1], t>>
          BY <2>3, <3>1 DEF SearchTurn
    <3> QED
        BY <3>3, <3>4
  <2> QED
      BY <2>2, <2>3
<1>3. <<0, N>> \in S
      BY <1>1
<1>4. step \in [(1 .. N) \X S -> S] /\ \A n \in 1 .. N : \A x \in S : step[<<n, x>>] = Turn(x[1], x[2])
  <2> HIDE DEF Turn, S
  <2>1. ASSUME NEW p \in (1 .. N) \X S PROVE Turn(p[2][1], p[2][2]) \in S
        BY <1>2
  <2> QED
      BY <2>1
<1>5. Loops(N, S, <<0, N>>, step)
  <2> HIDE DEF step, N, S
  <2> QED
      BY <1>1, <1>3, <1>4, LoopExists
<1>6. PICK h \in [0 .. N -> S] : h[0] = <<0, N>> /\ \A n \in 1 .. N : h[n] = step[<<n, h[n - 1]>>]
  <2> HIDE DEF step, S
  <2> QED
      BY <1>5 DEF Loops
<1>7. Is(h)
  <2> HIDE DEF step, S, Turn, N
  <2>1. ASSUME NEW n \in 0 .. N
        PROVE  h[n] = IF n = 0 THEN <<0, N>> ELSE Turn(h[n - 1][1], h[n - 1][2])
    <3>1. CASE n = 0
          BY <1>6, <3>1
    <3>2. CASE n # 0
      <4>1. n \in 1 .. N /\ n - 1 \in 0 .. N
            BY <3>2, <1>1
      <4> QED
          BY <1>4, <1>6, <4>1, <3>2
    <3> QED
        BY <3>1, <3>2
  <2>2. h = [n \in 0 .. N |-> h[n]]
        BY <1>6
  <2> QED
      BY <2>1, <2>2
<1>8. Is(c)
  <2> HIDE DEF Is
  <2> QED
      BY <1>7
<1>9. get_sorted_insert_index(s) = c[N][1]
      BY DEF get_sorted_insert_index, SearchTurn
<1>10. c[0] = <<0, N>> /\ \A n \in 1 .. N : c[n] = Turn(c[n - 1][1], c[n - 1][2])
  <2> HIDE DEF c, Turn, N
  <2>1. \A n \in 0 .. N : c[n] = IF n = 0 THEN <<0, N>> ELSE Turn(c[n - 1][1], c[n - 1][2])
        BY <1>8
  <2>2. 0 \in 0 .. N /\ \A n \in 1 .. N : n \in 0 .. N /\ n # 0
        BY <1>1
  <2>3. c[0] = <<0, N>>
        BY <2>1, <2>2
  <2>4. ASSUME NEW n \in 1 .. N PROVE c[n] = Turn(c[n - 1][1], c[n - 1][2])
        BY <2>1, <2>2
  <2> QED
      BY <2>3, <2>4
<1> HIDE DEF c, Is
<1>11. \A n \in 0 .. N : c[n] \in S
  <2> DEFINE T == {n \in 0 .. N : c[n] \notin S}
  <2> HIDE DEF step, S, Turn, N
  <2> SUFFICES ASSUME NEW x \in T PROVE FALSE
      OBVIOUS
  <2>1. PICK m \in T : \A k \in T : m <= k
    <3>1. T \in SUBSET Nat /\ x \in T
          BY <1>1
    <3> QED
        BY <3>1, LeastNatural
  <2>2. m \in 1 .. N /\ m - 1 \in 0 .. N
    <3>1. m \in 0 .. N /\ m # 0
          BY <2>1, <1>3, <1>10
    <3> QED
        BY <3>1, <1>1
  <2>3. c[m - 1] \in S
    <3>1. ~ (m <= m - 1)
          BY <2>2, <1>1
    <3> QED
        BY <3>1, <2>1, <2>2
  <2> QED
      BY <2>1, <2>2, <2>3, <1>2, <1>10
<1>12. c[0] = <<0, Len(s)>> /\ (\A n \in 1 .. Len(s) : c[n] = SearchTurn(s, c[n - 1][1], c[n - 1][2]))
       /\ (\A n \in 0 .. Len(s) : c[n] \in SearchRange(s)) /\ get_sorted_insert_index(s) = c[Len(s)][1]
       BY <1>9, <1>10, <1>11 DEF SearchRange
<1> QED
    BY <1>12 DEF SearchRuns

\* The place found is one in the array or behind it.
LEMMA IndexRange ==
  ASSUME NEW s, IsList(s)
  PROVE  get_sorted_insert_index(s) \in 0 .. Len(s)
<1>1. PICK c : SearchRuns(s, c)
      BY SearchLoop
<1>2. Len(s) \in 0 .. Len(s)
      BY ListFacts
<1> QED
    BY <1>1, <1>2 DEF SearchRuns, SearchRange

----------------------------------------------------------------------------
(* The tables vita-elf-create keeps in memory, and the linker.              *)

\* The keys of sizes and addrs.
SectionNames == {"ModuleInfo", "Lib_ent", "Export", "Lib_stubs", "Import", "FNID", "FStub", "VNID", "VStub"}

\* The names in their order are those.
LEMMA SectionFacts ==
  /\ IsList(Sections) /\ Len(Sections) = 9 /\ DOMAIN Sections = 1 .. 9
  /\ \A n \in 1 .. 9 : Sections[n] \in SectionNames
  /\ ToSet(Sections) = SectionNames
  /\ Sections[1] = "ModuleInfo"
<1>1. Sections \in Seq(SectionNames) /\ Len(Sections) = 9
      BY DEF Sections, SectionNames
<1>2. IsList(Sections) /\ DOMAIN Sections = 1 .. 9 /\ \A n \in 1 .. 9 : Sections[n] \in SectionNames
      BY <1>1 DEF IsList
<1>3. Sections[1] = "ModuleInfo" /\ Sections[2] = "Lib_ent" /\ Sections[3] = "Export" /\ Sections[4] = "Lib_stubs"
      /\ Sections[5] = "Import" /\ Sections[6] = "FNID" /\ Sections[7] = "FStub" /\ Sections[8] = "VNID" /\ Sections[9] = "VStub"
      BY DEF Sections
<1>4. SectionNames \subseteq ToSet(Sections)
  <2>1. 1 \in 1 .. 9 /\ 2 \in 1 .. 9 /\ 3 \in 1 .. 9 /\ 4 \in 1 .. 9 /\ 5 \in 1 .. 9 /\ 6 \in 1 .. 9 /\ 7 \in 1 .. 9
        /\ 8 \in 1 .. 9 /\ 9 \in 1 .. 9
        OBVIOUS
  <2> QED
      BY <2>1, <1>2, <1>3 DEF ToSet, SectionNames
<1>5. ToSet(Sections) \subseteq SectionNames
      BY <1>2 DEF ToSet
<1> QED
    BY <1>1, <1>2, <1>3, <1>4, <1>5

\* What the program, and each of the tables in memory, has the shape of.
ProgramShape ==
  /\ elf = [program |-> elf.program, sections |-> elf.sections]
  /\ ProgramOK(elf.program) /\ FileOK(elf.program)
SectionLists ==
  /\ IsList(elf.sections)
  /\ \A n \in DOMAIN elf.sections :
       /\ IsList(elf.sections[n].stubs)
       /\ \A m \in DOMAIN elf.sections[n].stubs : IsList(elf.sections[n].stubs[m].words)
StubLists == IsList(fstubs) /\ IsList(vstubs) /\ \A n \in DOMAIN vstubs : IsList(vstubs[n].rel_info)
ExportLists ==
  /\ "libs" \in DOMAIN exports /\ IsList(exports.libs)
  /\ \A n \in DOMAIN exports.libs : IsList(exports.libs[n].function) /\ IsList(exports.libs[n].variable)
TopLists ==
  /\ "exports" \in DOMAIN top /\ IsList(top.exports)
  /\ \A n \in DOMAIN top.exports : IsList(top.exports[n].entries)
LibLists ==
  /\ IsList(libs)
  /\ \A n \in DOMAIN libs : /\ {"nid", "functions", "variables"} \subseteq DOMAIN libs[n]
                            /\ IsList(libs[n].functions) /\ IsList(libs[n].variables)
Words ==
  /\ params.process \in Nat /\ params.libc \in Nat
  /\ \A s \in SectionNames : sizes[s] \in Nat
  /\ DOMAIN addrs = SectionNames /\ \A s \in SectionNames : addrs[s] \in Int
Encoding == {"place", "encode_info", "encode_exports", "encode_imports", "encoded"}
InfoCounted == stage \in Encoding \cup Writing => sizes["ModuleInfo"] >= INFO

Shape ==
  /\ ProgramShape /\ SectionLists /\ StubLists /\ ExportLists /\ TopLists /\ LibLists /\ Words /\ InfoCounted
  /\ i \in Nat /\ IsFiniteSet(relas)

\* The shape holds at first.
LEMMA InitShape == ImportsInit => Shape
<1> SUFFICES ASSUME ImportsInit PROVE Shape
    OBVIOUS
<1>1. PICK c \in Cases : InitWith(c.program, <<>>)
      BY DEF ImportsInit
<1>2. ProgramOK(c.program) /\ FileOK(c.program)
      BY CasesAssumption
<1> USE <1>1 DEF InitWith
<1>3. ProgramShape
      BY <1>2 DEF ProgramShape
<1>4. DOMAIN <<>> = {} /\ IsList(<<>>)
      BY EmptyList
<1>5. SectionLists /\ StubLists /\ LibLists /\ TopLists
      BY <1>4 DEF SectionLists, StubLists, LibLists, TopLists
<1>6. ExportLists
  <2>1. exports = c.program.exports
        OBVIOUS
  <2>2. "libs" \in DOMAIN exports /\ exports.libs \in Seq(ExportedLibrary)
        BY <1>2, <2>1 DEF ProgramOK
  <2>3. IsList(exports.libs)
        BY <2>2 DEF IsList
  <2>4. ASSUME NEW n \in DOMAIN exports.libs PROVE IsList(exports.libs[n].function) /\ IsList(exports.libs[n].variable)
    <3>1. exports.libs[n] \in ExportedLibrary
          BY <2>2
    <3>2. exports.libs[n].function \in Seq(ExportedSymbol) /\ exports.libs[n].variable \in Seq(ExportedSymbol)
          BY <3>1 DEF ExportedLibrary
    <3> QED
        BY <3>2 DEF IsList
  <2> QED
      BY <2>2, <2>3, <2>4 DEF ExportLists
<1>7. Words
      BY SectionFacts DEF Words, NoWords
<1>8. InfoCounted
      BY DEF InfoCounted, Encoding, Writing, Creating, Unpacked, Finished
<1>9. i \in Nat /\ relas = {}
      OBVIOUS
<1> QED
    BY <1>3, <1>5, <1>6, <1>7, <1>8, <1>9, FS_EmptySet DEF Shape

\* The linker.

\* Linking joins sections that are sequences of stubs.
LEMMA OrderList ==
  ASSUME NEW n \in Nat, NEW S, Cardinality(S) = n, NEW order \in SetToSeqs(S)
  PROVE  IsList(order)
<1>1. order \in [1 .. Cardinality(S) -> S]
      BY DEF SetToSeqs
<1>2. order = [k \in 1 .. n |-> order[k]]
      BY <1>1
<1> QED
    BY <1>2, FunctionList

\* The sections that are joined are listed once.
LEMMA SortsList ==
  ASSUME NEW order, IsList(order)
  PROVE  IsList(Sorts(order))
<1> DEFINE I == {n \in DOMAIN order : \A m \in 1 .. n - 1 : SectionOf(order[m]) # SectionOf(order[n])}
           first == Select(order, I)
<1>1. Sorts(order) = [n \in DOMAIN first |-> SectionOf(first[n])]
      BY DEF Sorts
<1>2. IsList(first)
  <2> HIDE DEF I
  <2> QED
      BY SelectList
<1> HIDE DEF first
<1>3. Len(first) \in Nat /\ DOMAIN first = 1 .. Len(first)
      BY <1>2, ListFacts
<1>4. Sorts(order) = [n \in 1 .. Len(first) |-> Sorts(order)[n]]
      BY <1>1, <1>3
<1> QED
    BY <1>3, <1>4, FunctionList

\* The words of a stub.
LEMMA StubWords ==
  ASSUME NEW o, SymbolOf(o) \in Seq(Nat) \ {<<>>}
  PROVE  IsList(StubOf(o).words)
<1> DEFINE s == SymbolOf(o)
           k == 2 * (Last(s) % 3)
           f == [w \in 1 .. k |-> Last(s)]
<1>1. StubOf(o).words = IF asm[o.file].type = "variable" THEN f ELSE <<>>
      BY DEF StubOf, SymbolOf
<1>2. Last(s) \in Nat
  <2>1. Len(s) \in 1 .. Len(s)
    <3>1. Len(s) \in Nat /\ Len(s) # 0
          BY EmptySeq
    <3> QED
        BY <3>1
  <2> HIDE DEF s
  <2>2. s \in Seq(Nat)
        BY DEF s
  <2> QED
      BY <2>1, <2>2 DEF Last
<1>3. k \in Nat
  <2> HIDE DEF s
  <2>1. PICK x \in Nat : x = Last(s)
        BY <1>2
  <2>2. x % 3 \in Nat
        OBVIOUS
  <2> QED
      BY <2>1, <2>2
<1>4. IsList(f)
  <2> HIDE DEF k, s
  <2>1. f = [w \in 1 .. k |-> f[w]]
        OBVIOUS
  <2> HIDE DEF f
  <2> QED
      BY <1>3, <2>1, FunctionList
<1> HIDE DEF f
<1> QED
    BY <1>1, <1>4, EmptyList

\* The sections that the linker makes.
LEMMA JoinedLists ==
  ASSUME NEW order, IsList(order), Links(order)
  PROVE  /\ IsList(JoinedSections(order))
         /\ \A n \in DOMAIN JoinedSections(order) :
              /\ IsList(JoinedSections(order)[n].stubs)
              /\ \A m \in DOMAIN JoinedSections(order)[n].stubs : IsList(JoinedSections(order)[n].stubs[m].words)
<1> DEFINE sorts == Sorts(order)
           of(t) == Select(order, {n \in DOMAIN order : SectionOf(order[n]) = t})
           J == JoinedSections(order)
<1>1. IsList(sorts)
      BY SortsList
<1>2. DOMAIN J = DOMAIN sorts /\ J = [n \in DOMAIN J |-> J[n]]
      BY DEF JoinedSections
<1>3. \A n \in DOMAIN J : J[n].stubs = [m \in DOMAIN of(sorts[n]) |-> StubOf(of(sorts[n])[m])]
      BY DEF JoinedSections
<1>4. ASSUME NEW t PROVE /\ IsList(of(t)) /\ \A m \in DOMAIN of(t) : IsList(StubOf(of(t)[m]).words)
  <2> DEFINE I == {n \in DOMAIN order : SectionOf(order[n]) = t}
  <2>1. I \subseteq DOMAIN order
        OBVIOUS
  <2> HIDE DEF I
  <2>2. IsList(Select(order, I)) /\ \A n \in DOMAIN Select(order, I) : \E m \in I \cap DOMAIN order : Select(order, I)[n] = order[m]
        BY SelectList
  <2>3. \A n \in DOMAIN Select(order, I) : SymbolOf(Select(order, I)[n]) \in Seq(Nat) \ {<<>>}
        BY <2>1, <2>2 DEF Links
  <2> QED
      BY <2>2, <2>3, StubWords DEF I
<1> HIDE DEF sorts, of, J
<1>5. Len(sorts) \in Nat /\ DOMAIN sorts = 1 .. Len(sorts)
      BY <1>1, ListFacts
<1>6. IsList(J)
      BY <1>2, <1>5, FunctionList
<1>7. ASSUME NEW n \in DOMAIN J PROVE IsList(J[n].stubs) /\ \A m \in DOMAIN J[n].stubs : IsList(J[n].stubs[m].words)
  <2> DEFINE o == of(sorts[n])
  <2>1. IsList(o) /\ \A m \in DOMAIN o : IsList(StubOf(o[m]).words)
        BY <1>4
  <2>2. J[n].stubs = [m \in DOMAIN o |-> StubOf(o[m])]
        BY <1>3
  <2> HIDE DEF o
  <2>3. Len(o) \in Nat /\ DOMAIN o = 1 .. Len(o)
        BY <2>1, ListFacts
  <2>4. J[n].stubs = [m \in 1 .. Len(o) |-> J[n].stubs[m]]
        BY <2>2, <2>3
  <2>5. IsList(J[n].stubs)
        BY <2>3, <2>4, FunctionList
  <2> QED
      BY <2>1, <2>2, <2>5
<1> QED
    BY <1>6, <1>7 DEF J

\* Linking keeps the shape.
LEMMA LinkShape == ASSUME Shape, Link PROVE Shape'
<1>1. PICK n \in 0 .. program.linked : \E S \in kSubset(n, Archived) : \E order \in SetToSeqs(S) :
        Links(order) /\ elf' = [elf EXCEPT !.sections = JoinedSections(order)]
      BY DEF Link
<1>2. PICK S \in kSubset(n, Archived) : \E order \in SetToSeqs(S) :
        Links(order) /\ elf' = [elf EXCEPT !.sections = JoinedSections(order)]
      BY <1>1
<1>3. PICK order \in SetToSeqs(S) : Links(order) /\ elf' = [elf EXCEPT !.sections = JoinedSections(order)]
      BY <1>2
<1>4. n \in Nat /\ Cardinality(S) = n
  <2>1. ProgramOK(elf.program)
        BY DEF Shape, ProgramShape
  <2>2. program.linked \in Nat
        BY <2>1 DEF ProgramOK, program
  <2> QED
      BY <1>1, <1>2, <2>2 DEF kSubset
<1>5. IsList(order)
      BY <1>3, <1>4, OrderList
<1>6. PICK J : J = JoinedSections(order)
      OBVIOUS
<1>7. IsList(J) /\ \A k \in DOMAIN J : IsList(J[k].stubs) /\ \A m \in DOMAIN J[k].stubs : IsList(J[k].stubs[m].words)
      BY <1>3, <1>5, <1>6, JoinedLists
<1>8. elf'.program = elf.program /\ elf'.sections = J /\ elf' = [program |-> elf'.program, sections |-> elf'.sections]
      BY <1>3, <1>6 DEF Shape, ProgramShape
<1>9. ProgramShape'
      BY <1>8 DEF Shape, ProgramShape
<1>10. SectionLists'
      BY <1>7, <1>8 DEF SectionLists
<1>11. UNCHANGED <<i, fstubs, vstubs, exports, params, top, libs, sizes, addrs, relas>> /\ stage' = "load"
      BY DEF Link
<1> QED
    BY <1>9, <1>10, <1>11
    DEF Shape, StubLists, ExportLists, TopLists, LibLists, Words, InfoCounted, Encoding, Writing, Creating, Unpacked, Finished

----------------------------------------------------------------------------
(* Loading the stubs and exports.                                           *)

\* The stubs of a section.
LEMMA StubsOfList ==
  ASSUME NEW section, IsList(section.stubs), \A m \in DOMAIN section.stubs : IsList(section.stubs[m].words)
  PROVE  IsList(StubsOf(section)) /\ \A n \in DOMAIN StubsOf(section) : IsList(StubsOf(section)[n].rel_info)
<1>1. /\ StubsOf(section) = [n \in DOMAIN section.stubs |-> StubsOf(section)[n]]
      /\ \A n \in DOMAIN section.stubs : StubsOf(section)[n].rel_info = section.stubs[n].words
      BY DEF StubsOf
<1>2. IsList(StubsOf(section)) /\ DOMAIN StubsOf(section) = DOMAIN section.stubs
      BY <1>1, MapList
<1> QED
    BY <1>1, <1>2

\* Loading the stubs, a section a step.
LEMMA LoadShape == ASSUME Shape, load_stubs PROVE StubLists'
<1> DEFINE section == elf.sections[i + 1]
           new == StubsOf(section)
<1>1. i + 1 \in DOMAIN elf.sections
  <2>1. Len(elf.sections) \in Nat /\ DOMAIN elf.sections = 1 .. Len(elf.sections)
        BY ListFacts DEF Shape, SectionLists
  <2> QED
      BY <2>1 DEF Shape, load_stubs
<1>2. IsList(new) /\ \A n \in DOMAIN new : IsList(new[n].rel_info)
      BY <1>1, StubsOfList DEF Shape, SectionLists
<1>3. (fstubs' = fstubs \o new /\ vstubs' = vstubs) \/ (vstubs' = vstubs \o new /\ fstubs' = fstubs)
      BY DEF load_stubs
<1> HIDE DEF new
<1>4. CASE fstubs' = fstubs \o new /\ vstubs' = vstubs
      BY <1>2, <1>4, ListConcat DEF Shape, StubLists
<1>5. CASE vstubs' = vstubs \o new /\ fstubs' = fstubs
  <2>1. IsList(vstubs')
        BY <1>2, <1>5, ListConcat DEF Shape, StubLists
  <2>2. IsList(vstubs) /\ \A n \in DOMAIN vstubs : IsList(vstubs[n].rel_info)
        BY DEF Shape, StubLists
  <2>3. ASSUME NEW n \in DOMAIN vstubs' PROVE IsList(vstubs'[n].rel_info)
    <3>1. n \in 1 .. Len(vstubs \o new)
          BY <2>1, <1>5, ListFacts
    <3>2. \/ n \in 1 .. Len(vstubs) /\ vstubs'[n] = vstubs[n]
          \/ n - Len(vstubs) \in 1 .. Len(new) /\ vstubs'[n] = new[n - Len(vstubs)]
          BY <3>1, <2>2, <1>2, <1>5, ConcatElements
    <3> QED
        BY <3>2, <1>2, <2>2, ListFacts
  <2> QED
      BY <2>1, <2>3, <1>5 DEF Shape, StubLists
<1> QED
    BY <1>3, <1>4, <1>5

\* The symbols that are exported by default.
LEMMA OthersFinite == ASSUME Shape, NEW S \in SUBSET Others PROVE IsFiniteSet(S)
<1>1. program.symtab \in Seq([name : DOMAIN NidOf, type : {"function", "variable"}, global : BOOLEAN,
                              visible : BOOLEAN, stub : BOOLEAN, value : Nat])
      BY DEF Shape, ProgramShape, ProgramOK, program
<1>2. IsList(program.symtab)
      BY <1>1 DEF IsList
<1>3. Len(program.symtab) \in Nat /\ DOMAIN program.symtab = 1 .. Len(program.symtab)
      BY <1>2, ListFacts
<1>4. IsFiniteSet(DOMAIN program.symtab)
      BY <1>3, FS_Interval
<1>5. S \subseteq DOMAIN program.symtab
      BY DEF Others, OwnGlobals
<1> QED
    BY <1>4, <1>5, FS_Subset

\* The symbols that are exported are listed.
LEMMA OtherSymbolsList == ASSUME Shape, NEW type PROVE IsList(OtherSymbols(type))
<1> DEFINE symbols == {n \in Others : program.symtab[n].type = type}
           k == Cardinality(symbols)
<1>1. k \in Nat
  <2>1. symbols \in SUBSET Others
        OBVIOUS
  <2> HIDE DEF symbols
  <2> QED
      BY <2>1, OthersFinite, FS_CardinalityType
<1>2. OtherSymbols(type) = [n \in 1 .. k |-> OtherSymbols(type)[n]]
      BY DEF OtherSymbols
<1> HIDE DEF k
<1> QED
    BY <1>1, <1>2, FunctionList

\* The library that is generated has them.
LEMMA GenerateShape == ASSUME Shape, vita_elf_generate_exports PROVE ExportLists'
<1>1. ExportLists
      BY DEF Shape
<1>2. "libs" \notin FoundPoints /\ WithLibc.libs = exports.libs
  <2>1. DOMAIN Own = {"start", "stop", "exit"}
        BY DEF Own
  <2> QED
      BY <2>1, <1>1 DEF FoundPoints, WithLibc, ExportLists
<1> DEFINE lib == [name |-> "module", nid |-> 0, version |-> 1, syscall |-> FALSE,
                   function |-> OtherSymbols("function"), variable |-> OtherSymbols("variable")]
<1>3. lib.function = OtherSymbols("function") /\ lib.variable = OtherSymbols("variable")
      OBVIOUS
<1>4. DOMAIN exports' = DOMAIN exports /\ exports'.libs = IF Others # {} THEN <<lib>> ELSE exports.libs
      BY <1>1, <1>2 DEF vita_elf_generate_exports, ExportLists
<1>5. IsList(lib.function) /\ IsList(lib.variable)
      BY <1>3, OtherSymbolsList
<1> HIDE DEF lib
<1>6. CASE Others # {}
  <2>1. IsList(<<lib>>) /\ DOMAIN <<lib>> = 1 .. 1 /\ <<lib>>[1] = lib
        BY OneList, ListFacts
  <2>2. \A n \in 1 .. 1 : n = 1
        OBVIOUS
  <2> QED
      BY <1>1, <1>4, <1>5, <1>6, <2>1, <2>2 DEF ExportLists
<1>7. CASE Others = {}
      BY <1>1, <1>4, <1>7 DEF ExportLists
<1> QED
    BY <1>6, <1>7

\* The entries of the main library.
LEMMA MainLists == IsList(MainFunctions) /\ IsList(MainVariables)
<1>1. \A name, entry : IsList(Entry(name, entry))
      BY OneList DEF Entry
<1>2. IsList(Point("start")) /\ IsList(Point("bootstart")) /\ IsList(Point("stop")) /\ IsList(Point("exit"))
      BY <1>1, EmptyList DEF Point
<1>3. IsList(MainFunctions)
  <2>1. IsList(Point("start") \o Point("bootstart"))
        BY <1>2, ListConcat
  <2>2. IsList((Point("start") \o Point("bootstart")) \o Point("stop"))
        BY <2>1, <1>2, ListConcat
  <2> QED
      BY <2>2, <1>2, ListConcat DEF MainFunctions
<1>4. IsList(MainVariables)
  <2> DEFINE a == Entry("info", ModuleInfoEntry)
             b == IF HasParam THEN Entry("param", ProcessParamEntry) ELSE <<>>
             c == IF HasSdk THEN Entry("sdk", vita_elf_vaddr_to_host(SdkAddress)) ELSE <<>>
  <2>1. IsList(a) /\ IsList(b) /\ IsList(c)
        BY <1>1, EmptyList
  <2>2. MainVariables = (a \o b) \o c
        BY DEF MainVariables
  <2> HIDE DEF a, b, c
  <2>3. IsList(a \o b)
        BY <2>1, ListConcat
  <2> QED
      BY <2>1, <2>2, <2>3, ListConcat
<1> QED
    BY <1>3, <1>4

\* The main library.
LEMMA MainExportShape == ASSUME Shape, set_main_module_export PROVE TopLists'
<1>1. CASE UNCHANGED top
      BY <1>1 DEF Shape, TopLists
<1>2. CASE ~ UNCHANGED top
  <2> DEFINE e == [name |-> NoSymbol, nid |-> 0, version |-> 0, flags |-> 32768,
                   functions |-> Len(MainFunctions), entries |-> MainFunctions \o MainVariables]
  <2>1. "exports" \in DOMAIN top' /\ top'.exports = <<e>>
    <3> DEFINE a == IF "start" \in ShownPoints THEN PointAddress("start") ELSE NULL
               b == IF "stop" \in ShownPoints THEN PointAddress("stop") ELSE NULL
    <3>1. top' = [start |-> a, stop |-> b, exports |-> <<e>>]
          BY <1>2 DEF set_main_module_export
    <3> HIDE DEF a, b, e
    <3> QED
        BY <3>1
  <2>2. IsList(e.entries)
        BY MainLists, ListConcat
  <2> HIDE DEF e
  <2>3. IsList(<<e>>) /\ DOMAIN <<e>> = 1 .. 1 /\ <<e>>[1] = e
        BY OneList, ListFacts
  <2>4. \A n \in 1 .. 1 : n = 1
        OBVIOUS
  <2> QED
      BY <2>1, <2>2, <2>3, <2>4 DEF TopLists
<1> QED
    BY <1>1, <1>2

\* A library of the configuration.
LEMMA LibExportShape == ASSUME Shape, set_module_export PROVE TopLists'
<1>1. CASE UNCHANGED top
      BY <1>1 DEF Shape, TopLists
<1>2. CASE ~ UNCHANGED top
  <2> DEFINE lib == exports.libs[i + 1]
             e == [name |-> lib.name, nid |-> lib.nid, version |-> lib.version,
                   flags |-> IF lib.syscall THEN 16385 ELSE 1,
                   functions |-> Len(lib.function),
                   entries |-> LibEntries(lib, "function") \o LibEntries(lib, "variable")]
  <2>1. top' = [top EXCEPT !.exports = Append(@, e)]
        BY <1>2 DEF set_module_export
  <2>2. i + 1 \in DOMAIN exports.libs
    <3>1. Len(exports.libs) \in Nat /\ DOMAIN exports.libs = 1 .. Len(exports.libs)
          BY ListFacts DEF Shape, ExportLists
    <3> QED
        BY <3>1 DEF Shape, set_module_export
  <2>3. IsList(lib.function) /\ IsList(lib.variable)
        BY <2>2 DEF Shape, ExportLists
  <2>4. e.entries = LibEntries(lib, "function") \o LibEntries(lib, "variable")
        OBVIOUS
  <2> HIDE DEF e, lib
  <2>5. IsList(LibEntries(lib, "function")) /\ IsList(LibEntries(lib, "variable"))
    <3>1. LibEntries(lib, "function") = [n \in DOMAIN lib.function |-> LibEntries(lib, "function")[n]]
          BY DEF LibEntries
    <3>2. LibEntries(lib, "variable") = [n \in DOMAIN lib.variable |-> LibEntries(lib, "variable")[n]]
          BY DEF LibEntries
    <3> QED
        BY <3>1, <3>2, <2>3, MapList
  <2>6. IsList(e.entries)
        BY <2>4, <2>5, ListConcat
  <2>7. TopLists
        BY DEF Shape
  <2>8. top'.exports = Append(top.exports, e) /\ "exports" \in DOMAIN top'
        BY <2>1, <2>7 DEF TopLists
  <2>9. IsList(Append(top.exports, e)) /\ DOMAIN Append(top.exports, e) = 1 .. Len(top.exports) + 1
        /\ Len(top.exports) \in Nat /\ DOMAIN top.exports = 1 .. Len(top.exports)
        BY <2>7, ListAppend, ListFacts DEF TopLists
  <2>10. ASSUME NEW n \in 1 .. Len(top.exports) + 1 PROVE IsList(Append(top.exports, e)[n].entries)
    <3>1. CASE n = Len(top.exports) + 1
          BY <3>1, <2>6, <2>7, ListAppend DEF TopLists
    <3>2. CASE n # Len(top.exports) + 1
      <4>1. n \in 1 .. Len(top.exports)
            BY <3>2, <2>9
      <4> QED
          BY <4>1, <2>7, <2>9, ListAppend DEF TopLists
    <3> QED
        BY <3>1, <3>2
  <2> QED
      BY <2>8, <2>9, <2>10 DEF TopLists
<1> QED
    BY <1>1, <1>2

----------------------------------------------------------------------------
(* The import table, and sizes and places of the sections.                  *)

\* Where a library is, if it is there.
LEMMA LibraryIndexRange == ASSUME LibLists, NEW nid PROVE LibraryIndex(nid) \in 0 .. Len(libs)
<1> DEFINE f == [m \in DOMAIN libs |-> libs[m].nid - nid]
<1>1. IsList(f) /\ Len(f) = Len(libs)
  <2>1. f = [m \in DOMAIN libs |-> f[m]]
        OBVIOUS
  <2> HIDE DEF f
  <2> QED
      BY <2>1, MapList DEF LibLists
<1>2. LibraryIndex(nid) = get_sorted_insert_index(f)
      BY DEF LibraryIndex
<1> HIDE DEF f
<1> QED
    BY <1>1, <1>2, IndexRange

\* A table with a stub inserted.
LEMMA SortedInsertList == ASSUME NEW stubs, IsList(stubs), NEW stub PROVE IsList(sorted_insert(stubs, stub))
<1> DEFINE f == [m \in DOMAIN stubs |-> stub.target_nid - stubs[m].target_nid]
           at == get_sorted_insert_index(f)
<1>1. IsList(f) /\ Len(f) = Len(stubs)
  <2>1. f = [m \in DOMAIN stubs |-> f[m]]
        OBVIOUS
  <2> HIDE DEF f
  <2> QED
      BY <2>1, MapList
<1>2. at \in 0 .. Len(stubs)
  <2> HIDE DEF f
  <2> QED
      BY <1>1, IndexRange
<1>3. sorted_insert(stubs, stub) = stubs \/ sorted_insert(stubs, stub) = InsertAt(stubs, at + 1, stub)
      BY DEF sorted_insert
<1> HIDE DEF at
<1>4. at + 1 \in 1 .. Len(stubs) + 1
      BY <1>2, ListFacts
<1> QED
    BY <1>3, <1>4, ListInsert

\* A library of the import table.
LibraryOK(lib) ==
  {"nid", "functions", "variables"} \subseteq DOMAIN lib /\ IsList(lib.functions) /\ IsList(lib.variables)

\* The list of libraries with one inserted.
LEMMA SearchOrInsertLists ==
  ASSUME LibLists, NEW nid
  PROVE  IsList(search_or_insert(nid)) /\ \A n \in DOMAIN search_or_insert(nid) : LibraryOK(search_or_insert(nid)[n])
<1> DEFINE at == LibraryIndex(nid)
           new == [nid |-> nid, library |-> <<>>, functions |-> <<>>, variables |-> <<>>]
<1>1. at + 1 \in 1 .. Len(libs) + 1 /\ Len(libs) \in Nat /\ DOMAIN libs = 1 .. Len(libs)
      BY LibraryIndexRange, ListFacts DEF LibLists
<1>2. LibraryOK(new)
      BY EmptyList DEF LibraryOK
<1>3. \A n \in DOMAIN libs : LibraryOK(libs[n])
      BY DEF LibLists, LibraryOK
<1>4. search_or_insert(nid) = libs \/ search_or_insert(nid) = InsertAt(libs, at + 1, new)
      BY DEF search_or_insert
<1> HIDE DEF at, new
<1>5. CASE search_or_insert(nid) = libs
      BY <1>3, <1>5 DEF LibLists
<1>6. CASE search_or_insert(nid) = InsertAt(libs, at + 1, new)
  <2> DEFINE s == InsertAt(libs, at + 1, new)
  <2>1. IsList(s) /\ Len(s) = Len(libs) + 1
        /\ \A n \in 1 .. Len(libs) + 1 : s[n] = IF n < at + 1 THEN libs[n] ELSE IF n = at + 1 THEN new ELSE libs[n - 1]
        BY <1>1, ListInsert DEF LibLists
  <2> HIDE DEF s
  <2>2. DOMAIN s = 1 .. Len(libs) + 1
        BY <2>1, ListFacts
  <2>3. ASSUME NEW n \in 1 .. Len(libs) + 1 PROVE LibraryOK(s[n])
    <3>1. CASE n < at + 1
      <4>1. n \in DOMAIN libs
            BY <3>1, <1>1
      <4> QED
          BY <3>1, <4>1, <2>1, <1>3
    <3>2. CASE n = at + 1
          BY <3>2, <2>1, <1>1, <1>2
    <3>3. CASE ~ n < at + 1 /\ n # at + 1
      <4>1. n - 1 \in DOMAIN libs
            BY <3>3, <1>1
      <4> QED
          BY <3>3, <4>1, <2>1, <1>3
    <3> QED
        BY <3>1, <3>2, <3>3
  <2> QED
      BY <1>6, <2>1, <2>2, <2>3 DEF s
<1> QED
    BY <1>4, <1>5, <1>6

\* A stub that is inserted leaves sorted lists of entries.
LEMMA InsertShape ==
  ASSUME LibLists, NEW stub, NEW table \in {"functions", "variables"}, Insert(stub, table)
  PROVE  LibLists'
<1> DEFINE found == search_or_insert(stub.library_nid)
           at == LibraryIndex(stub.library_nid) + 1
           lib == [found[at] EXCEPT !.library = stub.library]
           x == sorted_insert(lib[table], stub)
<1>1. libs' = [found EXCEPT ![at] = [lib EXCEPT ![table] = x]]
  <2>1. libs' = [found EXCEPT ![at].library = stub.library, ![at][table] = sorted_insert(@, stub)]
        BY DEF Insert
  <2> HIDE DEF found, at
  <2> QED
      BY <2>1
<1>2. IsList(found) /\ \A n \in DOMAIN found : LibraryOK(found[n])
      BY SearchOrInsertLists
<1> HIDE DEF found, at
<1>3. ASSUME at \in DOMAIN found PROVE LibraryOK([lib EXCEPT ![table] = x])
  <2>1. DOMAIN lib = DOMAIN found[at] /\ lib.functions = found[at].functions /\ lib.variables = found[at].variables
        BY <1>2, <1>3 DEF LibraryOK
  <2>2. IsList(lib[table])
        BY <1>2, <1>3, <2>1 DEF LibraryOK
  <2> HIDE DEF lib
  <2>3. IsList(x)
        BY <2>2, SortedInsertList
  <2> HIDE DEF x
  <2>4. {"nid", "functions", "variables"} \subseteq DOMAIN lib
        BY <1>2, <1>3, <2>1 DEF LibraryOK
  <2>5. IsList(lib.functions) /\ IsList(lib.variables)
        BY <1>2, <1>3, <2>1 DEF LibraryOK
  <2> QED
      BY <2>3, <2>4, <2>5 DEF LibraryOK
<1> HIDE DEF lib, x
<1>4. libs' = [n \in DOMAIN found |-> libs'[n]]
      BY <1>1
<1>5. IsList(libs') /\ DOMAIN libs' = DOMAIN found
      BY <1>2, <1>4, MapList
<1>6. \A n \in DOMAIN libs' : LibraryOK(libs'[n])
      BY <1>1, <1>2, <1>3, <1>5
<1> QED
    BY <1>5, <1>6 DEF LibLists, LibraryOK

\* The import tables are made from the libraries.
LEMMA ImportsDoneShape == ASSUME LibLists, ImportsDone PROVE LibLists'
<1>1. libs' = [n \in DOMAIN libs |-> set_module_import(libs[n])]
      BY DEF ImportsDone
<1>2. libs' = [n \in DOMAIN libs |-> libs'[n]]
      BY <1>1
<1>3. IsList(libs') /\ DOMAIN libs' = DOMAIN libs
      BY <1>2, MapList DEF LibLists
<1>4. ASSUME NEW stubs, IsList(stubs) PROVE IsList(Table(stubs))
  <2>1. Table(stubs) = [n \in DOMAIN stubs |-> Table(stubs)[n]]
        BY DEF Table
  <2> QED
      BY <2>1, <1>4, MapList
<1>5. ASSUME NEW lib, LibraryOK(lib) PROVE LibraryOK(set_module_import(lib))
  <2>1. set_module_import(lib).functions = Table(lib.functions) /\ set_module_import(lib).variables = Table(lib.variables)
        /\ {"nid", "functions", "variables"} \subseteq DOMAIN set_module_import(lib)
        BY DEF set_module_import
  <2> QED
      BY <2>1, <1>4, <1>5 DEF LibraryOK
<1>6. \A n \in DOMAIN libs' : LibraryOK(libs'[n])
      BY <1>1, <1>3, <1>5 DEF LibLists, LibraryOK
<1> QED
    BY <1>3, <1>6 DEF LibLists, LibraryOK

\* A sum over a list.
LEMMA SumMapNat ==
  ASSUME NEW s, IsList(s), NEW f, f = [n \in DOMAIN s |-> f[n]], \A n \in DOMAIN s : f[n] \in Nat
  PROVE  SumOf(f) \in Nat
BY MapList, SumNat

\* No size is negative.
LEMMA SizesNat ==
  ASSUME Shape
  PROVE  /\ \A s \in SectionNames : get_size[s] \in Nat
         /\ get_size["ModuleInfo"] >= INFO
<1> USE DEF Shape
<1>1. Len(top.exports) \in Nat /\ Len(libs) \in Nat
      BY ListFacts DEF TopLists, LibLists
<1>2. Total(LAMBDA e : NameWords(e.name) + 2 * Len(e.entries), top.exports) \in Nat
  <2> DEFINE f == [n \in DOMAIN top.exports |-> NameWords(top.exports[n].name) + 2 * Len(top.exports[n].entries)]
  <2>1. Total(LAMBDA e : NameWords(e.name) + 2 * Len(e.entries), top.exports) = SumOf(f)
        BY DEF Total
  <2>2. \A n \in DOMAIN top.exports : f[n] \in Nat
    <3>1. ASSUME NEW n \in DOMAIN top.exports PROVE NameWords(top.exports[n].name) + 2 * Len(top.exports[n].entries) \in Nat
      <4>1. Len(top.exports[n].entries) \in Nat
            BY ListFacts DEF TopLists
      <4>2. NameWords(top.exports[n].name) \in Nat
            BY DEF NameWords
      <4> QED
          BY <4>1, <4>2
    <3> QED
        BY <3>1
  <2>3. f = [n \in DOMAIN top.exports |-> f[n]]
        OBVIOUS
  <2> HIDE DEF f
  <2>4. SumOf(f) \in Nat
        BY <2>2, <2>3, SumMapNat DEF TopLists
  <2> QED
      BY <2>1, <2>4
<1>3. Total(LAMBDA lib : Len(lib.functions), libs) \in Nat
  <2> DEFINE f == [n \in DOMAIN libs |-> Len(libs[n].functions)]
  <2>1. Total(LAMBDA lib : Len(lib.functions), libs) = SumOf(f)
        BY DEF Total
  <2>2. \A n \in DOMAIN libs : f[n] \in Nat
        BY ListFacts DEF LibLists
  <2>3. f = [n \in DOMAIN libs |-> f[n]]
        OBVIOUS
  <2> HIDE DEF f
  <2> QED
      BY <2>1, <2>2, <2>3, SumMapNat DEF LibLists
<1>4. Total(LAMBDA lib : Len(lib.variables), libs) \in Nat
  <2> DEFINE f == [n \in DOMAIN libs |-> Len(libs[n].variables)]
  <2>1. Total(LAMBDA lib : Len(lib.variables), libs) = SumOf(f)
        BY DEF Total
  <2>2. \A n \in DOMAIN libs : f[n] \in Nat
        BY ListFacts DEF LibLists
  <2>3. f = [n \in DOMAIN libs |-> f[n]]
        OBVIOUS
  <2> HIDE DEF f
  <2> QED
      BY <2>1, <2>2, <2>3, SumMapNat DEF LibLists
<1>5. Total(LAMBDA v : 1 + Len(v.rel_info), vstubs) \in Nat
  <2> DEFINE f == [n \in DOMAIN vstubs |-> 1 + Len(vstubs[n].rel_info)]
  <2>1. Total(LAMBDA v : 1 + Len(v.rel_info), vstubs) = SumOf(f)
        BY DEF Total
  <2>2. \A n \in DOMAIN vstubs : f[n] \in Nat
    <3>1. \A n \in DOMAIN vstubs : Len(vstubs[n].rel_info) \in Nat
          BY ListFacts DEF StubLists
    <3> QED
        BY <3>1
  <2>3. f = [n \in DOMAIN vstubs |-> f[n]]
        OBVIOUS
  <2> HIDE DEF f
  <2> QED
      BY <2>1, <2>2, <2>3, SumMapNat DEF StubLists
<1>6. VStubWords \in Nat
      BY <1>4, <1>5 DEF VStubWords, Total
<1>7. params.process \in Nat /\ params.libc \in Nat
      BY DEF Words
<1>8. get_size["ModuleInfo"] \in Nat /\ get_size["ModuleInfo"] >= INFO
  <2>1. get_size["ModuleInfo"] = INFO + params.process + (IF have_libc THEN LIBC ELSE 0)
        BY DEF get_size
  <2> QED
      BY <2>1, <1>7 DEF INFO, LIBC
<1>9. get_size["Lib_ent"] \in Nat /\ get_size["Lib_stubs"] \in Nat /\ get_size["Import"] \in Nat
  <2>1. get_size["Lib_ent"] = EXPORT * Len(top.exports) /\ get_size["Lib_stubs"] = IMPORT * Len(libs) /\ get_size["Import"] = Len(libs)
        BY DEF get_size
  <2> QED
      BY <2>1, <1>1 DEF EXPORT, IMPORT
<1>10. get_size["Export"] \in Nat /\ get_size["FNID"] \in Nat /\ get_size["FStub"] \in Nat /\ get_size["VNID"] \in Nat
       /\ get_size["VStub"] \in Nat
      BY <1>2, <1>3, <1>4, <1>6 DEF get_size
<1> QED
    BY <1>8, <1>9, <1>10 DEF SectionNames

\* The places of the sections are numbers.
LEMMA PlaceShape == ASSUME Shape, Place PROVE DOMAIN addrs' = SectionNames /\ \A s \in SectionNames : addrs'[s] \in Int
<1>1. DOMAIN addrs = SectionNames /\ \A s \in SectionNames : addrs[s] \in Int /\ sizes[s] \in Nat
      BY DEF Shape, Words
<1>2. CASE addrs' = addrs
      BY <1>1, <1>2
<1>3. CASE addrs' = [s \in DOMAIN addrs |-> Total(LAMBDA b : sizes[b], Before(s))]
  <2>1. ASSUME NEW s \in SectionNames PROVE Total(LAMBDA b : sizes[b], Before(s)) \in Nat
    <3> DEFINE k == CHOOSE n \in DOMAIN Sections : Sections[n] = s
               b == Before(s)
               f == [n \in DOMAIN b |-> sizes[b[n]]]
    <3>1. k \in 1 .. 9
      <4>1. \E n \in DOMAIN Sections : Sections[n] = s
            BY SectionFacts DEF ToSet
      <4> QED
          BY <4>1, SectionFacts
    <3>2. b = SubSeq(Sections, 1, k - 1)
          BY DEF Before
    <3> HIDE DEF k, b
    <3>3. IsList(b) /\ Len(b) = k - 1 /\ \A n \in 1 .. Len(b) : b[n] = Sections[n]
      <4>1. IsList(Sections) /\ 1 \in Int /\ k - 1 \in Int
            BY <3>1, SectionFacts
      <4>2. IsList(b) /\ Len(b) = IF 1 <= k - 1 THEN (k - 1) - 1 + 1 ELSE 0
            BY <3>2, <4>1, ListSub
      <4>3. \A n \in 1 .. Len(b) : b[n] = Sections[n + 1 - 1]
            BY <3>2, <4>1, ListSub
      <4>4. Len(b) = k - 1
            BY <4>2, <3>1
      <4>5. \A n \in 1 .. Len(b) : n + 1 - 1 = n
            BY <4>4, <3>1
      <4> QED
          BY <4>2, <4>3, <4>4, <4>5
    <3>4. \A n \in DOMAIN b : b[n] \in SectionNames
      <4>1. DOMAIN b = 1 .. k - 1
            BY <3>3, ListFacts
      <4>2. \A n \in 1 .. k - 1 : n \in 1 .. 9
            BY <3>1
      <4> QED
          BY <4>1, <4>2, <3>3, SectionFacts
    <3>5. Total(LAMBDA b1 : sizes[b1], b) = SumOf(f)
          BY DEF Total
    <3>6. f = [n \in DOMAIN b |-> f[n]] /\ \A n \in DOMAIN b : f[n] \in Nat
          BY <3>4, <1>1
    <3> HIDE DEF f
    <3>7. SumOf(f) \in Nat
          BY <3>3, <3>6, SumMapNat
    <3> QED
        BY <3>5, <3>7 DEF b
  <2> QED
      BY <1>1, <1>3, <2>1 DEF Total
<1> QED
    BY <1>2, <1>3 DEF Place

----------------------------------------------------------------------------
(* The relocations that are recorded are finitely many.                     *)

\* A function that is written word by word is finite, and so are the relocations of it.
FinFun(f) == IsFiniteSet(DOMAIN f)

\* Each of the ways to write writes finitely many words.
LEMMA FinJoin == ASSUME NEW f, NEW g, FinFun(f), FinFun(g) PROVE FinFun(f ++ g)
<1>1. DOMAIN (f ++ g) = DOMAIN f \cup DOMAIN g
      BY JoinFacts
<1> QED
    BY <1>1, FS_Union DEF FinFun

LEMMA FinEmpty == FinFun(<<>>)
<1>1. DOMAIN <<>> = {}
      OBVIOUS
<1> QED
    BY <1>1, FS_EmptySet DEF FinFun

LEMMA FinWord == ASSUME NEW w, NEW x PROVE FinFun(Word(w, x))
BY FS_Singleton DEF FinFun, Word

LEMMA FinFrom == ASSUME NEW w \in Int, NEW words, IsList(words) PROVE FinFun(From(w, words))
<1>1. Len(words) \in Nat
      BY ListFacts
<1>2. DOMAIN From(w, words) = w .. w + Len(words) - 1
      BY DEF From
<1>3. w + Len(words) - 1 \in Int
      BY <1>1
<1> QED
    BY <1>2, <1>3, FS_Interval DEF FinFun

LEMMA FinWhen == ASSUME NEW c, NEW f, FinFun(f) PROVE FinFun(When(c, f))
BY FinEmpty DEF When

LEMMA FinSymbols == ASSUME NEW type, NEW names, FinFun(names), NEW at PROVE FinFun(Symbols(type, names, at))
<1> DEFINE K == {n \in DOMAIN names : Has(type, names[n])}
           T == {at + n : n \in K}
           f == [n \in K |-> at + n]
<1>1. DOMAIN Symbols(type, names, at) = T
      BY DEF Symbols
<1>2. IsFiniteSet(K)
      BY FS_Subset DEF FinFun
<1>3. f \in Surjection(K, T)
      BY DEF Surjection
<1> HIDE DEF K, T, f
<1>4. IsFiniteSet(T)
      BY <1>2, <1>3, FS_Surjection
<1> QED
    BY <1>1, <1>4 DEF FinFun

\* They are finitely many to relocate.
LEMMA FinRelocated == ASSUME NEW f, FinFun(f) PROVE IsFiniteSet(Relocated(f))
<1> DEFINE K == {w \in DOMAIN f : f[w] # 0}
           T == {[at |-> VADDR(w), addend |-> f[w]] : w \in K}
           h == [w \in K |-> [at |-> VADDR(w), addend |-> f[w]]]
<1>1. Relocated(f) = T
      BY DEF Relocated
<1>2. IsFiniteSet(K)
      BY FS_Subset DEF FinFun
<1>3. h \in Surjection(K, T)
      BY DEF Surjection
<1> HIDE DEF K, T, h
<1>4. IsFiniteSet(T)
      BY <1>2, <1>3, FS_Surjection
<1> QED
    BY <1>1, <1>4

\* So the relocations stay finitely many.
LEMMA FinWrite ==
  ASSUME IsFiniteSet(relas), NEW values, NEW addresses, FinFun(addresses), Write(values, addresses)
  PROVE  IsFiniteSet(relas')
<1>1. relas' = relas \cup Relocated(addresses)
      BY DEF Write
<1> QED
    BY <1>1, FinRelocated, FS_Union

\* The words of the parameters.
LEMMA FinVariables == FinFun(ProcessVariables) /\ FinFun(LibcVariables) /\ FinFun(LibcFunctions)
<1>2. FinFun(ProcessVariables)
  <2> DEFINE s == <<"sceUserMainThreadName", "sceUserMainThreadPriority", "sceUserMainThreadStackSize",
                    "sceUserMainThreadAttribute">>
             t == <<"sceKernelPreloadModuleInhibit", "sceUserMainThreadCpuAffinityMask">>
  <2>1. IsList(s) /\ IsList(t)
        BY List2, List3, List4
  <2>2. ProcessVariables = From(4, s) ++ From(9, t)
        BY DEF ProcessVariables
  <2> HIDE DEF s, t
  <2> QED
      BY <2>1, <2>2, FinFrom, FinJoin
<1>3. FinFun(LibcVariables)
  <2> DEFINE s == <<"sceLibcHeapExtendedAlloc", "sceLibcHeapDelayedAlloc">>
             t == <<"sceLibcHeapInitialSize", "sceLibcHeapUnitSize1MiB", "sceLibcHeapDetectOverrun">>
             w == Word(31, "sceLibcHeapSize")
  <2>1. IsList(s) /\ IsList(t)
        BY List2, List3, List4
  <2>2. LibcVariables = (w ++ From(33, s)) ++ From(39, t)
        BY DEF LibcVariables
  <2>3. FinFun(w)
        BY FinWord
  <2> HIDE DEF s, t, w
  <2>4. FinFun(From(33, s)) /\ FinFun(From(39, t))
        BY <2>1, FinFrom
  <2> QED
      BY <2>2, <2>3, <2>4, FinJoin
<1>4. FinFun(LibcFunctions)
  <2> DEFINE s == <<"user_malloc_init", "user_malloc_finalize", "user_malloc", "user_free", "user_calloc", "user_realloc",
                    "user_memalign", "user_reallocalign", "user_malloc_stats", "user_malloc_stats_fast",
                    "user_malloc_usable_size">>
             t == <<"_Z8user_newj", "_Z8user_newjRKSt9nothrow_t", "_Z14user_new_arrayj", "_Z14user_new_arrayjRKSt9nothrow_t",
                    "_Z11user_deletePv", "_Z11user_deletePvRKSt9nothrow_t", "_Z17user_delete_arrayPv",
                    "_Z17user_delete_arrayPvRKSt9nothrow_t">>
             u == <<"user_malloc_for_tls_init", "user_malloc_for_tls_finalize", "user_malloc_for_tls", "user_free_for_tls">>
  <2>1. IsList(s) /\ IsList(t) /\ IsList(u)
        BY List11, List8, List4
  <2>2. LibcFunctions = (From(MallocReplace + 2, s) ++ From(NewReplace + 2, t)) ++ From(MallocForTls + 2, u)
        BY DEF LibcFunctions
  <2> HIDE DEF s, t, u
  <2>3. FinFun(From(MallocReplace + 2, s)) /\ FinFun(From(NewReplace + 2, t)) /\ FinFun(From(MallocForTls + 2, u))
        BY <2>1, FinFrom DEF MallocReplace, NewReplace, MallocForTls
  <2> QED
      BY <2>2, <2>3, FinJoin
<1> QED
    BY <1>2, <1>3, <1>4

\* The module info is encoded.
LEMMA EncodeInfoFinite == ASSUME Shape, EncodeInfo PROVE IsFiniteSet(relas')
<1> DEFINE addresses == When(params.process # 0, ProcessAddresses) ++ When(params.libc # 0, LibcAddresses)
<1>1. PICK values : Write(values, addresses)
      BY DEF EncodeInfo
<1>2. FinFun(ProcessAddresses)
  <2>1. FinFun(Symbols("variable", ProcessVariables, INFO))
        BY FinVariables, FinSymbols
  <2>2. FinFun(When(params.libc # 0, Word(INFO + 11, VADDR(LibcAt + ParamSize))))
        BY FinWord, FinWhen
  <2> QED
      BY <2>1, <2>2, FinJoin DEF ProcessAddresses
<1>3. FinFun(LibcAddresses)
  <2> DEFINE a == Symbols("variable", LibcVariables, LibcAt)
             b == Symbols("function", LibcFunctions, LibcAt)
             c == Word(LibcAt + 32, VADDR(LibcAt + DefaultHeapSize))
             d == Word(LibcAt + 37, VADDR(LibcAt + MallocReplace))
             e == Word(LibcAt + 38, VADDR(LibcAt + NewReplace))
             f == Word(LibcAt + 42, VADDR(LibcAt + MallocForTls))
  <2>1. FinFun(a) /\ FinFun(b) /\ FinFun(c) /\ FinFun(d) /\ FinFun(e) /\ FinFun(f)
        BY FinVariables, FinSymbols, FinWord
  <2>2. LibcAddresses = ((((a ++ b) ++ c) ++ d) ++ e) ++ f
        BY DEF LibcAddresses
  <2> HIDE DEF a, b, c, d, e, f
  <2>3. FinFun((a ++ b) ++ c)
        BY <2>1, FinJoin
  <2>4. FinFun(((a ++ b) ++ c) ++ d)
        BY <2>1, <2>3, FinJoin
  <2>5. FinFun((((a ++ b) ++ c) ++ d) ++ e)
        BY <2>1, <2>4, FinJoin
  <2> QED
      BY <2>1, <2>2, <2>5, FinJoin
<1>4. FinFun(addresses)
      BY <1>2, <1>3, FinWhen, FinJoin
<1> HIDE DEF addresses
<1> QED
    BY <1>1, <1>4, FinWrite DEF Shape

----------------------------------------------------------------------------
(* Each variable that is imported has a stub.                               *)

\* An element that is inserted is there, and all that was.
LEMMA SearchOrInsertFacts ==
  ASSUME LibLists, NEW nid
  PROVE  LET found == search_or_insert(nid)
             at == LibraryIndex(nid) + 1
         IN /\ at \in DOMAIN found /\ found[at].nid = nid
            /\ \A n \in DOMAIN found :
                 \/ \E m \in DOMAIN libs : found[n] = libs[m]
                 \/ found[n].functions = <<>> /\ found[n].variables = <<>>
<1> DEFINE found == search_or_insert(nid)
           at == LibraryIndex(nid)
           new == [nid |-> nid, library |-> <<>>, functions |-> <<>>, variables |-> <<>>]
<1>1. at \in Nat /\ at + 1 \in 1 .. Len(libs) + 1 /\ Len(libs) \in Nat /\ DOMAIN libs = 1 .. Len(libs)
      BY LibraryIndexRange, ListFacts DEF LibLists
<1>2. new.nid = nid /\ new.functions = <<>> /\ new.variables = <<>>
      OBVIOUS
<1>3. \/ found = libs /\ at < Len(libs) /\ libs[at + 1].nid = nid
      \/ found = InsertAt(libs, at + 1, new)
      BY DEF search_or_insert
<1> HIDE DEF at, new, found
<1>4. CASE found = libs /\ at < Len(libs) /\ libs[at + 1].nid = nid
  <2>1. at + 1 \in DOMAIN libs
        BY <1>1, <1>4
  <2> QED
      BY <2>1, <1>4 DEF at, found
<1>5. CASE found = InsertAt(libs, at + 1, new)
  <2>1. IsList(found) /\ Len(found) = Len(libs) + 1
        /\ \A n \in 1 .. Len(libs) + 1 : found[n] = IF n < at + 1 THEN libs[n] ELSE IF n = at + 1 THEN new ELSE libs[n - 1]
        BY <1>1, <1>5, ListInsert DEF LibLists
  <2>2. DOMAIN found = 1 .. Len(libs) + 1
        BY <2>1, ListFacts
  <2>3. at + 1 \in DOMAIN found /\ found[at + 1] = new
        BY <1>1, <2>1, <2>2
  <2>4. ASSUME NEW n \in DOMAIN found, n # at + 1 PROVE \E m \in DOMAIN libs : found[n] = libs[m]
    <3>1. CASE n < at + 1
      <4>1. n \in DOMAIN libs
            BY <3>1, <1>1, <2>2
      <4> QED
          BY <3>1, <4>1, <2>1, <2>2
    <3>2. CASE ~ n < at + 1
      <4>1. n - 1 \in DOMAIN libs
            BY <3>2, <1>1, <2>2, <2>4
      <4> QED
          BY <3>2, <4>1, <2>1, <2>2, <2>4
    <3> QED
        BY <3>1, <3>2
  <2> QED
      BY <1>2, <2>3, <2>4 DEF at, found
<1> QED
    BY <1>3, <1>4, <1>5

\* One step of inserting into a library.
LEMMA InsertStep ==
  ASSUME LibLists, NEW stub, NEW table \in {"functions", "variables"}, Insert(stub, table)
  PROVE  LET found == search_or_insert(stub.library_nid)
             at == LibraryIndex(stub.library_nid) + 1
         IN /\ DOMAIN libs' = DOMAIN found
            /\ \A n \in DOMAIN found : n # at => libs'[n] = found[n]
            /\ libs'[at].nid = found[at].nid
            /\ \A t \in {"functions", "variables"} :
                 libs'[at][t] = IF t = table THEN sorted_insert(found[at][t], stub) ELSE found[at][t]
<1> DEFINE found == search_or_insert(stub.library_nid)
           at == LibraryIndex(stub.library_nid) + 1
           lib == [found[at] EXCEPT !.library = stub.library]
           x == sorted_insert(lib[table], stub)
<1>1. libs' = [found EXCEPT ![at] = [lib EXCEPT ![table] = x]]
  <2>1. libs' = [found EXCEPT ![at].library = stub.library, ![at][table] = sorted_insert(@, stub)]
        BY DEF Insert
  <2> HIDE DEF found, at
  <2> QED
      BY <2>1
<1>2. at \in DOMAIN found /\ LibraryOK(found[at])
      BY SearchOrInsertLists, SearchOrInsertFacts
<1> HIDE DEF found, at
<1>3. DOMAIN lib = DOMAIN found[at] /\ lib.nid = found[at].nid /\ lib.functions = found[at].functions
      /\ lib.variables = found[at].variables
      BY <1>2 DEF LibraryOK
<1>4. libs'[at] = [lib EXCEPT ![table] = x] /\ DOMAIN libs' = DOMAIN found /\ \A n \in DOMAIN found : n # at => libs'[n] = found[n]
      BY <1>1, <1>2
<1> HIDE DEF lib
<1>5. x = sorted_insert(found[at][table], stub)
      BY <1>3
<1> HIDE DEF x
<1>6. \A t \in {"functions", "variables"} : libs'[at][t] = IF t = table THEN x ELSE found[at][t]
      BY <1>2, <1>3, <1>4 DEF LibraryOK
<1>7. libs'[at].nid = found[at].nid
      BY <1>2, <1>3, <1>4 DEF LibraryOK
<1> QED
    BY <1>4, <1>5, <1>6, <1>7 DEF found, at

\* Sorting in a stub leaves out none.
LEMMA SortedInsertElements ==
  ASSUME NEW stubs, IsList(stubs), NEW stub, NEW n \in DOMAIN sorted_insert(stubs, stub)
  PROVE  sorted_insert(stubs, stub)[n] = stub \/ \E m \in DOMAIN stubs : sorted_insert(stubs, stub)[n] = stubs[m]
<1> DEFINE f == [m \in DOMAIN stubs |-> stub.target_nid - stubs[m].target_nid]
           at == get_sorted_insert_index(f)
<1>1. IsList(f) /\ Len(f) = Len(stubs)
  <2>1. f = [m \in DOMAIN stubs |-> f[m]]
        OBVIOUS
  <2> HIDE DEF f
  <2> QED
      BY <2>1, MapList
<1>2. at \in 0 .. Len(stubs)
  <2> HIDE DEF f
  <2> QED
      BY <1>1, IndexRange
<1>3. sorted_insert(stubs, stub) = stubs \/ sorted_insert(stubs, stub) = InsertAt(stubs, at + 1, stub)
      BY DEF sorted_insert
<1> HIDE DEF at
<1>4. at + 1 \in 1 .. Len(stubs) + 1 /\ Len(stubs) \in Nat /\ DOMAIN stubs = 1 .. Len(stubs)
      BY <1>2, ListFacts
<1>5. CASE sorted_insert(stubs, stub) = InsertAt(stubs, at + 1, stub)
  <2> DEFINE s == InsertAt(stubs, at + 1, stub)
  <2>1. IsList(s) /\ Len(s) = Len(stubs) + 1
        /\ \A k \in 1 .. Len(stubs) + 1 : s[k] = IF k < at + 1 THEN stubs[k] ELSE IF k = at + 1 THEN stub ELSE stubs[k - 1]
        BY <1>4, ListInsert
  <2> HIDE DEF s
  <2>2. n \in 1 .. Len(stubs) + 1
        BY <2>1, <1>5, ListFacts DEF s
  <2>3. (n < at + 1 => n \in DOMAIN stubs) /\ (~ n < at + 1 /\ n # at + 1 => n - 1 \in DOMAIN stubs)
        BY <2>2, <1>4
  <2> QED
      BY <1>5, <2>1, <2>2, <2>3 DEF s
<1> QED
    BY <1>3, <1>5

\* The stages before the import table is built.
Early == {"link", "load", "generate", "params", "main_export", "lib_exports"}
HasStub(lib, nid) == \E m \in DOMAIN vstubs : vstubs[m].library_nid = lib /\ vstubs[m].target_nid = nid
\* Each variable of the import table has its stub, which encode_vstub() looks for.
VariablesFound ==
  /\ stage \in Early => libs = <<>>
  /\ stage = "imports" =>
       \A l \in DOMAIN libs : \A v \in DOMAIN libs[l].variables : HasStub(libs[l].nid, libs[l].variables[v].target_nid)
  /\ stage \in {"size"} \cup Encoding =>
       \A l \in DOMAIN libs : \A v \in DOMAIN libs[l].variables : HasStub(libs[l].nid, libs[l].variables[v].nid)

\* Inserting a stub brings in a variable with a stub.
LEMMA InsertFound ==
  ASSUME LibLists, VariablesFound, stage = "imports", UNCHANGED <<stage, vstubs>>,
         NEW stub, NEW table \in {"functions", "variables"}, Insert(stub, table),
         table = "variables" => HasStub(stub.library_nid, stub.target_nid)
  PROVE  VariablesFound'
<1> DEFINE found == search_or_insert(stub.library_nid)
           at == LibraryIndex(stub.library_nid) + 1
<1>1. /\ DOMAIN libs' = DOMAIN found
      /\ \A n \in DOMAIN found : n # at => libs'[n] = found[n]
      /\ libs'[at].nid = found[at].nid
      /\ libs'[at].variables = IF "variables" = table THEN sorted_insert(found[at].variables, stub) ELSE found[at].variables
      BY InsertStep
<1>2. /\ at \in DOMAIN found /\ found[at].nid = stub.library_nid
      /\ \A n \in DOMAIN found :
           (\E m \in DOMAIN libs : found[n] = libs[m]) \/ (found[n].functions = <<>> /\ found[n].variables = <<>>)
      BY SearchOrInsertFacts
<1>3. IsList(found[at].variables)
      BY <1>2, SearchOrInsertLists DEF LibraryOK
<1> HIDE DEF found, at
<1>4. DOMAIN <<>> = {}
      OBVIOUS
<1>5. \A n \in DOMAIN found : \A v \in DOMAIN found[n].variables : HasStub(found[n].nid, found[n].variables[v].target_nid)
      BY <1>2, <1>4 DEF VariablesFound
<1>6. ASSUME NEW l \in DOMAIN libs', NEW v \in DOMAIN libs'[l].variables
      PROVE  HasStub(libs'[l].nid, libs'[l].variables[v].target_nid)
  <2>1. CASE l # at
        BY <1>1, <1>5, <2>1
  <2>2. CASE l = at
    <3>1. CASE table # "variables"
          BY <1>1, <1>5, <2>2, <3>1
    <3>2. CASE table = "variables"
      <4>1. v \in DOMAIN sorted_insert(found[at].variables, stub) /\ libs'[l].variables[v] = sorted_insert(found[at].variables, stub)[v]
            BY <1>1, <2>2, <3>2
      <4>2. \/ libs'[l].variables[v] = stub
            \/ \E m \in DOMAIN found[at].variables : libs'[l].variables[v] = found[at].variables[m]
            BY <4>1, <1>3, SortedInsertElements
      <4> QED
          BY <4>2, <1>1, <1>2, <1>5, <2>2, <3>2
    <3> QED
        BY <3>1, <3>2
  <2> QED
      BY <2>1, <2>2
<1> QED
    BY <1>6 DEF VariablesFound, HasStub, Early, Encoding

\* Making the import tables keeps the NIDs of variables.
LEMMA ImportsDoneFound == ASSUME LibLists, VariablesFound, ImportsDone PROVE VariablesFound'
<1>1. stage = "imports" /\ stage' = "size" /\ vstubs' = vstubs /\ libs' = [n \in DOMAIN libs |-> set_module_import(libs[n])]
      BY DEF ImportsDone, To
<1>2. ASSUME NEW l \in DOMAIN libs', NEW v \in DOMAIN libs'[l].variables
      PROVE  HasStub(libs'[l].nid, libs'[l].variables[v].nid)
  <2>1. l \in DOMAIN libs /\ libs'[l] = set_module_import(libs[l])
        BY <1>1
  <2>2. libs'[l].nid = libs[l].nid /\ libs'[l].variables = Table(libs[l].variables)
        BY <2>1 DEF set_module_import
  <2>3. v \in DOMAIN libs[l].variables /\ libs'[l].variables[v].nid = libs[l].variables[v].target_nid
        BY <2>2 DEF Table
  <2> QED
      BY <1>1, <2>1, <2>2, <2>3 DEF VariablesFound
<1> QED
    BY <1>1, <1>2 DEF VariablesFound, HasStub, Early, Encoding

----------------------------------------------------------------------------
(* Encoding.                                                                *)

\* The next addresses of the sections.
AddressesOK(a) == DOMAIN a = SectionNames /\ \A s \in SectionNames : a[s] \in Int

\* The next words of the sections are numbers.
LEMMA PlusOK ==
  ASSUME NEW a, AddressesOK(a), NEW more, \A s \in DOMAIN more : more[s] \in Int
  PROVE  AddressesOK(Plus(a, more))
<1>1. Plus(a, more) = [s \in SectionNames |-> IF s \in DOMAIN more THEN a[s] + more[s] ELSE a[s]]
      BY DEF Plus, AddressesOK
<1>2. ASSUME NEW s \in SectionNames PROVE (IF s \in DOMAIN more THEN a[s] + more[s] ELSE a[s]) \in Int
      BY DEF AddressesOK
<1> QED
    BY <1>1, <1>2 DEF AddressesOK

\* A library with its entries is encoded.
LEMMA EncodeExportShape == ASSUME Shape, EncodeExport PROVE IsFiniteSet(relas') /\ AddressesOK(addrs')
<1>1. AddressesOK(addrs) /\ IsFiniteSet(relas)
      BY DEF Shape, Words, AddressesOK
<1> DEFINE e == top.exports[i + 1]
           n == Len(e.entries)
           raw == addrs["Lib_ent"]
           nids == addrs["Export"] + NameWords(e.name)
           more == [Lib_ent |-> EXPORT, Export |-> NameWords(e.name) + 2 * n]
           values == [m \in 1 .. n |-> EntryValue(e.entries[m].entry)]
           addresses == When(e.name # NoSymbol, Word(raw + 5, VADDR(addrs["Export"]))) ++
                        From(raw + 6, <<VADDR(nids), VADDR(nids + n)>>) ++
                        From(nids + n, values)
<1>2. n \in Nat
  <2>1. i + 1 \in DOMAIN top.exports
    <3>1. Len(top.exports) \in Nat /\ DOMAIN top.exports = 1 .. Len(top.exports)
          BY ListFacts DEF Shape, TopLists
    <3> QED
        BY <3>1 DEF Shape, EncodeExport
  <2> QED
      BY <2>1, ListFacts DEF Shape, TopLists
<1>3. CASE UNCHANGED <<relas, addrs>>
      BY <1>1, <1>3
<1>4. CASE ~ UNCHANGED <<relas, addrs>>
  <2>1. addrs' = Plus(addrs, more) /\ \E w : Write(w, addresses)
        BY <1>4 DEF EncodeExport, Used
  <2>2. DOMAIN more = {"Lib_ent", "Export"} /\ more["Lib_ent"] = EXPORT /\ more["Export"] = NameWords(e.name) + 2 * n
        OBVIOUS
  <2>3. raw \in Int /\ nids \in Int /\ NameWords(e.name) \in Int
        BY <1>1 DEF AddressesOK, SectionNames, NameWords
  <2>4. values = [m \in 1 .. n |-> values[m]]
        OBVIOUS
  <2> HIDE DEF values
  <2>5. FinFun(addresses)
    <3> DEFINE x == When(e.name # NoSymbol, Word(raw + 5, VADDR(addrs["Export"])))
               y == From(raw + 6, <<VADDR(nids), VADDR(nids + n)>>)
               z == From(nids + n, values)
    <3>1. FinFun(x)
          BY FinWord, FinWhen
    <3>2. FinFun(y)
          BY <2>3, List2, FinFrom
    <3>3. FinFun(z)
      <4>1. IsList(values)
            BY <1>2, <2>4, FunctionList
      <4>2. nids + n \in Int
            BY <1>2, <2>3
      <4> QED
          BY <4>1, <4>2, FinFrom
    <3>4. addresses = (x ++ y) ++ z
          OBVIOUS
    <3> HIDE DEF x, y, z
    <3> QED
        BY <3>1, <3>2, <3>3, <3>4, FinJoin
  <2> HIDE DEF more, addresses
  <2>6. \A s \in DOMAIN more : more[s] \in Int
        BY <2>2, <2>3, <1>2 DEF EXPORT
  <2> QED
      BY <1>1, <2>1, <2>5, <2>6, PlusOK, FinWrite
<1> QED
    BY <1>3, <1>4

\* An import is encoded.
LEMMA EncodeImportShape == ASSUME Shape, VariablesFound, EncodeImport PROVE IsFiniteSet(relas') /\ AddressesOK(addrs')
<1>1. AddressesOK(addrs) /\ IsFiniteSet(relas)
      BY DEF Shape, Words, AddressesOK
<1> DEFINE lib == libs[i + 1]
           nf == Len(lib.functions)
           nv == Len(lib.variables)
           raw == addrs["Lib_stubs"]
           infos == [n \in 1 .. nv |-> RelInfo(Stub(lib, lib.variables[n]))]
           info_at == [n \in 1 .. nv |-> addrs["VStub"] + nv + SumOf([m \in 1 .. n - 1 |-> Len(infos[m])])]
           more == [Lib_stubs |-> IMPORT, Import |-> 1, FNID |-> nf, FStub |-> nf, VNID |-> nv,
                    VStub |-> nv + Len(FlattenSeq(infos))]
           functions == [n \in 1 .. nf |-> vita_elf_host_to_vaddr(lib.functions[n].entry)]
           variables == [n \in 1 .. nv |-> VADDR(info_at[n])]
           addresses == Word(raw + 5, VADDR(addrs["Import"])) ++
                        When(nf # 0, From(raw + 7, <<VADDR(addrs["FNID"]), VADDR(addrs["FStub"])>>)) ++
                        When(nv # 0, From(raw + 9, <<VADDR(addrs["VNID"]), VADDR(addrs["VStub"])>>)) ++
                        From(addrs["FStub"], functions) ++ From(addrs["VStub"], variables)
<1>2. i + 1 \in DOMAIN libs
  <2>1. Len(libs) \in Nat /\ DOMAIN libs = 1 .. Len(libs)
        BY ListFacts DEF Shape, LibLists
  <2> QED
      BY <2>1 DEF Shape, EncodeImport
<1>3. IsList(lib.functions) /\ IsList(lib.variables) /\ nf \in Nat /\ nv \in Nat /\ DOMAIN lib.variables = 1 .. nv
      BY <1>2, ListFacts DEF Shape, LibLists
<1>4. \A v \in DOMAIN lib.variables : HasStub(lib.nid, lib.variables[v].nid)
      BY <1>2 DEF VariablesFound, EncodeImport, Encoding
<1>5. CASE UNCHANGED <<relas, addrs>>
      BY <1>1, <1>5
<1>6. CASE ~ UNCHANGED <<relas, addrs>>
  <2>1. addrs' = Plus(addrs, more) /\ \E w : Write(w, addresses)
        BY <1>6 DEF EncodeImport, Used
  <2>2. ASSUME NEW n \in 1 .. nv PROVE IsList(RelInfo(Stub(lib, lib.variables[n])))
    <3> DEFINE I == {m \in DOMAIN vstubs : vstubs[m].library_nid = lib.nid /\ vstubs[m].target_nid = lib.variables[n].nid}
    <3>1. I # {}
          BY <1>3, <1>4 DEF HasStub
    <3>2. I \in SUBSET Nat /\ I \subseteq DOMAIN vstubs
      <4>1. Len(vstubs) \in Nat /\ DOMAIN vstubs = 1 .. Len(vstubs)
            BY ListFacts DEF Shape, StubLists
      <4> QED
          BY <4>1
    <3>3. Stub(lib, lib.variables[n]) = vstubs[First(I)]
          BY DEF Stub
    <3> HIDE DEF I
    <3>4. First(I) \in DOMAIN vstubs
          BY <3>1, <3>2, FirstIn
    <3>5. IsList(Stub(lib, lib.variables[n]).rel_info)
          BY <3>3, <3>4 DEF Shape, StubLists
    <3> QED
        BY <3>5, OneList, ListConcat DEF RelInfo
  <2>3. infos = [n \in 1 .. nv |-> infos[n]] /\ \A n \in 1 .. nv : IsList(infos[n])
        BY <2>2
  <2>4. functions = [n \in 1 .. nf |-> functions[n]] /\ variables = [n \in 1 .. nv |-> variables[n]]
        OBVIOUS
  <2>5. DOMAIN more = {"Lib_stubs", "Import", "FNID", "FStub", "VNID", "VStub"}
        /\ more["Lib_stubs"] = IMPORT /\ more["Import"] = 1 /\ more["FNID"] = nf /\ more["FStub"] = nf /\ more["VNID"] = nv
        /\ more["VStub"] = nv + Len(FlattenSeq(infos))
        OBVIOUS
  <2> HIDE DEF infos, functions, variables, lib
  <2>6. Len(FlattenSeq(infos)) \in Nat
    <3>1. IsList(infos) /\ Len(infos) = nv
          BY <1>3, <2>3, FunctionList
    <3>2. \A n \in DOMAIN infos : IsList(infos[n])
          BY <2>3, <3>1, ListFacts
    <3>3. IsList(FlattenSeq(infos))
          BY <3>1, <3>2, FlattenList
    <3> QED
        BY <3>3, ListFacts
  <2>7. IsList(functions) /\ IsList(variables)
        BY <1>3, <2>4, FunctionList
  <2>8. raw \in Int /\ addrs["FStub"] \in Int /\ addrs["VStub"] \in Int
        BY <1>1 DEF AddressesOK, SectionNames
  <2>9. FinFun(addresses)
    <3> DEFINE a == Word(raw + 5, VADDR(addrs["Import"]))
               b == When(nf # 0, From(raw + 7, <<VADDR(addrs["FNID"]), VADDR(addrs["FStub"])>>))
               c == When(nv # 0, From(raw + 9, <<VADDR(addrs["VNID"]), VADDR(addrs["VStub"])>>))
               d == From(addrs["FStub"], functions)
               e == From(addrs["VStub"], variables)
    <3>1. FinFun(a)
          BY FinWord
    <3>2. FinFun(b)
          BY <2>8, List2, FinFrom, FinWhen
    <3>3. FinFun(c)
          BY <2>8, List2, FinFrom, FinWhen
    <3>4. FinFun(d) /\ FinFun(e)
          BY <2>7, <2>8, FinFrom
    <3>5. addresses = (((a ++ b) ++ c) ++ d) ++ e
          OBVIOUS
    <3> HIDE DEF a, b, c, d, e
    <3>6. FinFun((a ++ b) ++ c)
          BY <3>1, <3>2, <3>3, FinJoin
    <3>7. FinFun(((a ++ b) ++ c) ++ d)
          BY <3>4, <3>6, FinJoin
    <3> QED
        BY <3>4, <3>5, <3>7, FinJoin
  <2> HIDE DEF addresses, more
  <2>10. \A s \in DOMAIN more : more[s] \in Int
    <3>1. nf \in Int /\ nv \in Int /\ nv + Len(FlattenSeq(infos)) \in Int /\ IMPORT \in Int
          BY <1>3, <2>6 DEF IMPORT, lib
    <3> HIDE DEF nf, nv
    <3> QED
        BY <2>5, <3>1
  <2> QED
      BY <1>1, <2>1, <2>9, <2>10, PlusOK, FinWrite
<1> QED
    BY <1>5, <1>6

----------------------------------------------------------------------------
(* The invariant of the tables.                                             *)

\* What holds of the tables in every stage.
Pipeline == Shape /\ VariablesFound

\* The invariant holds at first.
LEMMA InitPipeline == ImportsInit => Pipeline
<1> SUFFICES ASSUME ImportsInit PROVE Pipeline
    OBVIOUS
<1>1. stage = "link" /\ libs = <<>>
      BY DEF ImportsInit, InitWith
<1>2. VariablesFound
      BY <1>1 DEF VariablesFound, Encoding
<1> QED
    BY <1>2, InitShape DEF Pipeline

\* The linker.
LEMMA LinkPipeline == ASSUME Pipeline, Link PROVE Pipeline'
<1>1. VariablesFound'
      BY DEF Link, Pipeline, VariablesFound, Early, Encoding
<1> QED
    BY <1>1, LinkShape DEF Pipeline

Counters == <<elf, fstubs, vstubs, exports, params, top, libs, sizes, data, used, addrs, relas>>

\* Writing changes none of what is encoded.
LEMMA WrittenStages ==
  ASSUME Written \/ VitaMakeFself, i \in Nat
  PROVE  /\ stage \in Writing \cup {"encoded", "null"}
         /\ stage' \in Writing \cup {"failure", "crash"}
         /\ stage' \in Writing => stage # "null"
         /\ stage' = "crash" => stage = "null"
         /\ i' \in Nat /\ UNCHANGED Counters
<1> USE DEF Writing, Creating, Unpacked, Finished, To, Again, Counters
<1>1. CASE Written
  <2>1. UNCHANGED Counters
        BY <1>1 DEF Written
  <2>2. CASE elf_utils_copy_to_file \/ sce_elf_write_module_info
        BY <2>1, <2>2 DEF elf_utils_copy_to_file, sce_elf_write_module_info
  <2>3. CASE WriteSection \/ AddRelaSection \/ sce_elf_write_rela_sections
        BY <2>1, <2>3 DEF WriteSection, AddRelaSection, sce_elf_write_rela_sections
  <2>4. CASE sce_elf_rewrite_stubs \/ elf_update \/ vita_elf_packing
        BY <2>1, <2>4 DEF sce_elf_rewrite_stubs, elf_update, vita_elf_packing
  <2>5. CASE PackSegment \/ PackHeaders \/ PackingFails
        BY <2>1, <2>5 DEF PackSegment, PackHeaders, PackingFails
  <2>6. CASE remove \/ rename \/ fclose
        BY <2>1, <2>6 DEF remove, rename, fclose
  <2> QED
      BY <1>1, <2>2, <2>3, <2>4, <2>5, <2>6 DEF Written
<1>2. CASE VitaMakeFself
  <2>1. UNCHANGED Counters
        BY <1>2 DEF VitaMakeFself
  <2>2. ReadInput \/ ReadLost \/ WriteHeaders \/ WriteSegment \/ WriteHeader
        BY <1>2 DEF VitaMakeFself
  <2>3. CASE ReadInput
        BY <2>1, <2>3 DEF ReadInput, Error
  <2>4. CASE WriteHeaders
        BY <2>1, <2>4 DEF WriteHeaders, Error
  <2>5. CASE WriteSegment
    <3>1. stage = "segments"
          BY <2>5 DEF WriteSegment
    <3>2. Again \/ Error
      <4> HIDE DEF Again
      <4> QED
          BY <2>5, Zenon DEF WriteSegment
    <3> QED
        BY <2>1, <3>1, <3>2 DEF Error
  <2>6. CASE WriteHeader
        BY <2>1, <2>6 DEF WriteHeader, Error
  <2>7. CASE ReadLost
        BY <2>1, <2>7 DEF ReadLost
  <2> QED
      BY <2>2, <2>3, <2>4, <2>5, <2>6, <2>7
<1> QED
    BY <1>1, <1>2

\* Writing keeps it.
LEMMA WrittenPipeline == ASSUME Pipeline, Written \/ VitaMakeFself PROVE Pipeline'
<1>1. i \in Nat
      BY DEF Pipeline, Shape
<1>2. /\ stage \in Writing \cup {"encoded", "null"}
      /\ stage' \in Writing \cup {"failure", "crash"}
      /\ stage' \in Writing => stage # "null"
      /\ i' \in Nat /\ UNCHANGED Counters
      BY <1>1, WrittenStages
<1>3. UNCHANGED <<elf, fstubs, vstubs, exports, params, top, libs, sizes, addrs, relas>>
      BY <1>2 DEF Counters
<1>4. stage' \notin Early \cup {"imports", "size"} \cup Encoding
      BY <1>2 DEF Early, Encoding, Writing, Creating, Unpacked, Finished
<1>5. stage' \in Writing => stage \in Encoding \cup Writing
      BY <1>2 DEF Encoding
<1>6. ProgramShape' /\ SectionLists' /\ StubLists' /\ ExportLists' /\ TopLists' /\ LibLists' /\ Words' /\ IsFiniteSet(relas')
      BY <1>3 DEF Pipeline, Shape, ProgramShape, SectionLists, StubLists, ExportLists, TopLists, LibLists, Words
<1>7. InfoCounted'
      BY <1>3, <1>4, <1>5 DEF Pipeline, Shape, InfoCounted
<1>8. VariablesFound'
      BY <1>4 DEF VariablesFound
<1> QED
    BY <1>2, <1>6, <1>7, <1>8 DEF Pipeline, Shape

\* What each step of vita-elf-create up to the encoding leaves alone.
CreateFrame ==
  /\ i' \in Nat /\ elf' = elf
  /\ load_stubs \/ UNCHANGED <<fstubs, vstubs>>
  /\ vita_elf_generate_exports \/ UNCHANGED exports
  /\ set_main_module_export \/ set_module_export \/ UNCHANGED top
  /\ InsertFunction \/ InsertVariable \/ ImportsDone \/ UNCHANGED libs
  /\ sce_elf_module_params_create \/ UNCHANGED params
  /\ Sized \/ UNCHANGED sizes
  /\ Place \/ EncodeExport \/ EncodeImport \/ UNCHANGED addrs
  /\ EncodeInfo \/ EncodeExport \/ EncodeImport \/ UNCHANGED relas

\* Each step is one of these.
LEMMA CreateFrames == ASSUME VitaElfCreate, i \in Nat PROVE CreateFrame
<1> USE DEF To, Again
<1>1. CASE load_stubs
      BY <1>1 DEF CreateFrame, load_stubs
<1>2. CASE Loaded
      BY <1>2 DEF CreateFrame, Loaded
<1>3. CASE vita_elf_generate_exports
      BY <1>3 DEF CreateFrame, vita_elf_generate_exports
<1>4. CASE sce_elf_module_params_create
      BY <1>4 DEF CreateFrame, sce_elf_module_params_create
<1>5. CASE set_main_module_export
      BY <1>5 DEF CreateFrame, set_main_module_export
<1>6. CASE set_module_export
      BY <1>6 DEF CreateFrame, set_module_export
<1>7. CASE ExportsDone
      BY <1>7 DEF CreateFrame, ExportsDone
<1>8. CASE InsertFunction
      BY <1>8 DEF CreateFrame, InsertFunction
<1>9. CASE InsertVariable
      BY <1>9 DEF CreateFrame, InsertVariable
<1>10. CASE ImportsDone
      BY <1>10 DEF CreateFrame, ImportsDone
<1>11. CASE Sized
      BY <1>11 DEF CreateFrame, Sized
<1>12. CASE Place
  <2>1. UNCHANGED <<elf, fstubs, vstubs, exports, params, top, libs, sizes, used, relas>>
        BY <1>12 DEF Place
  <2>2. To("null") \/ To("crash") \/ To("encode_info")
    <3> HIDE DEF To
    <3> QED
        BY <1>12, Zenon DEF Place
  <2> QED
      BY <1>12, <2>1, <2>2 DEF CreateFrame
<1>13. CASE EncodeInfo
      BY <1>13 DEF CreateFrame, EncodeInfo
<1>14. CASE EncodeExport
      BY <1>14 DEF CreateFrame, EncodeExport
<1>15. CASE ExportsEncoded
      BY <1>15 DEF CreateFrame, ExportsEncoded
<1>16. CASE EncodeImport
      BY <1>16 DEF CreateFrame, EncodeImport
<1>17. CASE Encoded
      BY <1>17 DEF CreateFrame, Encoded
<1> QED
    BY <1>1, <1>2, <1>3, <1>4, <1>5, <1>6, <1>7, <1>8, <1>9, <1>10, <1>11, <1>12, <1>13, <1>14, <1>15, <1>16, <1>17 DEF VitaElfCreate

\* Every step of vita-elf-create up to the encoding keeps it.
LEMMA CreatePipeline == ASSUME Pipeline, VitaElfCreate PROVE Pipeline'
<1> USE DEF To, Again
<1>1. Shape /\ VariablesFound /\ i \in Nat
      BY DEF Pipeline, Shape
<1>0. CreateFrame
      BY <1>1, CreateFrames
<1>2. i' \in Nat
      BY <1>0, <1>1 DEF CreateFrame
<1>3. ProgramShape' /\ SectionLists'
  <2>1. elf' = elf
        BY <1>0 DEF CreateFrame
  <2> QED
      BY <2>1, <1>1 DEF Shape, ProgramShape, SectionLists
<1>4. StubLists'
  <2>1. CASE load_stubs
        BY <1>1, <2>1, LoadShape
  <2>2. CASE ~ load_stubs
    <3>1. UNCHANGED <<fstubs, vstubs>>
          BY <1>0, <2>2 DEF CreateFrame
    <3> QED
        BY <1>1, <3>1 DEF Shape, StubLists
  <2> QED
      BY <2>1, <2>2
<1>5. ExportLists'
  <2>1. CASE vita_elf_generate_exports
        BY <1>1, <2>1, GenerateShape
  <2>2. CASE ~ vita_elf_generate_exports
    <3>1. UNCHANGED exports
          BY <1>0, <2>2 DEF CreateFrame
    <3> QED
        BY <1>1, <3>1 DEF Shape, ExportLists
  <2> QED
      BY <2>1, <2>2
<1>6. TopLists'
  <2>1. CASE set_main_module_export
        BY <1>1, <2>1, MainExportShape
  <2>2. CASE set_module_export
        BY <1>1, <2>2, LibExportShape
  <2>3. CASE ~ set_main_module_export /\ ~ set_module_export
    <3>1. UNCHANGED top
          BY <1>0, <2>3 DEF CreateFrame
    <3> QED
        BY <1>1, <3>1 DEF Shape, TopLists
  <2> QED
      BY <2>1, <2>2, <2>3
<1>7. LibLists'
  <2>1. LibLists
        BY <1>1 DEF Shape
  <2>2. CASE InsertFunction \/ InsertVariable
        BY <2>1, <2>2, InsertShape DEF InsertFunction, InsertVariable
  <2>3. CASE ImportsDone
        BY <2>1, <2>3, ImportsDoneShape
  <2>4. CASE ~ InsertFunction /\ ~ InsertVariable /\ ~ ImportsDone
    <3>1. UNCHANGED libs
          BY <1>0, <2>4 DEF CreateFrame
    <3> QED
        BY <2>1, <3>1 DEF LibLists
  <2> QED
      BY <2>2, <2>3, <2>4
<1>8. params'.process \in Nat /\ params'.libc \in Nat
  <2>1. params.process \in Nat /\ params.libc \in Nat
        BY <1>1 DEF Shape, Words
  <2>2. CASE sce_elf_module_params_create
    <3>1. params' = params \/ \E p \in {PARAM6, PARAM5}, l \in {LIBC, 0} : params' = [process |-> p, libc |-> l]
          BY <2>2 DEF sce_elf_module_params_create
    <3> QED
        BY <2>1, <3>1 DEF PARAM5, PARAM6, LIBC
  <2>3. CASE ~ sce_elf_module_params_create
    <3>1. UNCHANGED params
          BY <1>0, <2>3 DEF CreateFrame
    <3> QED
        BY <2>1, <3>1
  <2> QED
      BY <2>2, <2>3
<1>9. (\A s \in SectionNames : sizes'[s] \in Nat) /\ InfoCounted'
  <2>1. CASE Sized
    <3>1. sizes' = get_size
          BY <2>1 DEF Sized
    <3> QED
        BY <1>1, <3>1, SizesNat DEF InfoCounted
  <2>2. CASE ~ Sized
    <3>1. UNCHANGED sizes
          BY <1>0, <2>2 DEF CreateFrame
    <3>2. stage' \in Encoding \cup Writing => stage \in Encoding
      <4> USE DEF Encoding, Writing, Creating, Unpacked, Finished
      <4>1. CASE load_stubs \/ Loaded \/ vita_elf_generate_exports \/ sce_elf_module_params_create \/ set_main_module_export
            BY <4>1 DEF load_stubs, Loaded, vita_elf_generate_exports, sce_elf_module_params_create, set_main_module_export
      <4>2. CASE set_module_export \/ ExportsDone \/ InsertFunction \/ InsertVariable \/ ImportsDone
            BY <4>2 DEF set_module_export, ExportsDone, InsertFunction, InsertVariable, ImportsDone
      <4>3. CASE Place \/ EncodeInfo \/ EncodeExport \/ ExportsEncoded \/ EncodeImport \/ Encoded
            BY <4>3 DEF Place, EncodeInfo, EncodeExport, ExportsEncoded, EncodeImport, Encoded
      <4> QED
          BY <2>2, <4>1, <4>2, <4>3 DEF VitaElfCreate
    <3> QED
        BY <1>1, <3>1, <3>2 DEF Shape, Words, InfoCounted
  <2> QED
      BY <2>1, <2>2
<1>10. AddressesOK(addrs')
  <2>1. AddressesOK(addrs)
        BY <1>1 DEF Shape, Words, AddressesOK
  <2>2. CASE Place
        BY <1>1, <2>2, PlaceShape DEF AddressesOK
  <2>3. CASE EncodeExport \/ EncodeImport
        BY <1>1, <2>3, EncodeExportShape, EncodeImportShape
  <2>4. CASE ~ Place /\ ~ EncodeExport /\ ~ EncodeImport
    <3>1. UNCHANGED addrs
          BY <1>0, <2>4 DEF CreateFrame
    <3> QED
        BY <2>1, <3>1
  <2> QED
      BY <2>2, <2>3, <2>4
<1>11. IsFiniteSet(relas')
  <2>1. CASE EncodeInfo
        BY <1>1, <2>1, EncodeInfoFinite
  <2>2. CASE EncodeExport \/ EncodeImport
        BY <1>1, <2>2, EncodeExportShape, EncodeImportShape
  <2>3. CASE ~ EncodeInfo /\ ~ EncodeExport /\ ~ EncodeImport
    <3>1. UNCHANGED relas
          BY <1>0, <2>3 DEF CreateFrame
    <3> QED
        BY <1>1, <3>1 DEF Shape
  <2> QED
      BY <2>1, <2>2, <2>3
<1>12. VariablesFound'
  <2> USE DEF Early, Encoding
  <2>1. CASE load_stubs \/ Loaded \/ vita_elf_generate_exports \/ sce_elf_module_params_create \/ set_main_module_export
        BY <1>1, <2>1 DEF load_stubs, Loaded, vita_elf_generate_exports, sce_elf_module_params_create, set_main_module_export,
                          VariablesFound
  <2>2. CASE set_module_export
        BY <1>1, <2>2 DEF set_module_export, VariablesFound
  <2>3. CASE ExportsDone
    <3>1. DOMAIN <<>> = {} /\ libs' = <<>> /\ stage' = "imports"
          BY <1>1, <2>3 DEF ExportsDone, VariablesFound
    <3> QED
        BY <3>1 DEF VariablesFound
  <2>4. CASE InsertFunction
        BY <1>1, <2>4, InsertFound DEF InsertFunction, Shape
  <2>5. CASE InsertVariable
    <3>1. HasStub(vstubs[i - Len(fstubs) + 1].library_nid, vstubs[i - Len(fstubs) + 1].target_nid)
      <4>1. Len(fstubs) \in Nat /\ Len(vstubs) \in Nat /\ DOMAIN vstubs = 1 .. Len(vstubs)
            BY <1>1, ListFacts DEF Shape, StubLists
      <4>2. i - Len(fstubs) + 1 \in DOMAIN vstubs
            BY <1>1, <2>5, <4>1 DEF InsertVariable
      <4> QED
          BY <4>2 DEF HasStub
    <3> QED
        BY <1>1, <2>5, <3>1, InsertFound DEF InsertVariable, Shape
  <2>6. CASE ImportsDone
        BY <1>1, <2>6, ImportsDoneFound DEF Shape
  <2>7. CASE Sized \/ Place \/ EncodeInfo \/ EncodeExport \/ ExportsEncoded \/ EncodeImport \/ Encoded
    <3>1. stage \in {"size"} \cup Encoding /\ stage' \in Encoding \cup {"null", "crash", "overrun"} /\ UNCHANGED <<libs, vstubs>>
          BY <2>7 DEF Sized, Place, EncodeInfo, EncodeExport, ExportsEncoded, EncodeImport, Encoded
    <3> QED
        BY <1>1, <3>1 DEF VariablesFound, HasStub
  <2> QED
      BY <2>1, <2>2, <2>3, <2>4, <2>5, <2>6, <2>7 DEF VitaElfCreate
<1>13. Words'
      BY <1>8, <1>9, <1>10 DEF Words, AddressesOK
<1> QED
    BY <1>2, <1>3, <1>4, <1>5, <1>6, <1>7, <1>9, <1>11, <1>12, <1>13 DEF Pipeline, Shape

\* And every step of all the programs.
LEMMA NextPipeline == Pipeline /\ [ImportsNext]_allvars => Pipeline'
<1> SUFFICES ASSUME Pipeline, [ImportsNext]_allvars PROVE Pipeline'
    OBVIOUS
<1>1. CASE Generate \/ (Terminated /\ UNCHANGED allvars) \/ UNCHANGED allvars
      BY <1>1 DEF Generate, allvars, state, Pipeline, Shape, VariablesFound, HasStub, ProgramShape, SectionLists, StubLists,
                  ExportLists, TopLists, LibLists, Words, InfoCounted
<1>2. CASE Link
      BY <1>2, LinkPipeline
<1>3. CASE Create
      BY <1>3, CreatePipeline, WrittenPipeline DEF Create
<1> QED
    BY <1>1, <1>2, <1>3 DEF ImportsNext

----------------------------------------------------------------------------
(* The headers of the ELF that is written.                                  *)

\* The fields a program header has at least.
Fields == {"vaddr", "memsz", "offset", "filesz", "align"}
IsHeaders(d) == d = [sections |-> d.sections, segments |-> d.segments, shoff |-> d.shoff, entry |-> d.entry]
SegmentOK(s) == Fields \subseteq DOMAIN s /\ s.filesz \in Nat /\ s.align \in Nat

\* Moving the contents moves segments and does nothing else to them.
SameSegments(d, e) ==
  /\ IsHeaders(e) /\ e.entry = d.entry
  /\ IsList(e.segments) /\ Len(e.segments) = Len(d.segments)
  /\ \A n \in 1 .. Len(d.segments) :
       /\ DOMAIN e.segments[n] = DOMAIN d.segments[n]
       /\ e.segments[n].filesz = d.segments[n].filesz /\ e.segments[n].align = d.segments[n].align
       /\ e.segments[n].vaddr = d.segments[n].vaddr /\ e.segments[n].memsz = d.segments[n].memsz
       /\ d.segments[n].offset \in Int => e.segments[n].offset \in Int

\* Contents are moved.
LEMMA ShiftSegments ==
  ASSUME NEW d, IsHeaders(d), IsList(d.segments), \A n \in 1 .. Len(d.segments) : SegmentOK(d.segments[n]),
         NEW start, NEW amount \in Int
  PROVE  SameSegments(d, elf_utils_shift_contents(d, start, amount))
<1> DEFINE e == elf_utils_shift_contents(d, start, amount)
           segments == [n \in DOMAIN d.segments |-> [d.segments[n] EXCEPT !.offset = Shifted(d.segments[n].offset, start, amount)]]
<1>1. PICK sections, shoff : e = [d EXCEPT !.sections = sections, !.segments = segments, !.shoff = shoff]
  <2> DEFINE at(s) == Shifted(s.offset, start, amount)
             ends == {at(s) + InFile(s) : s \in ToSet(d.sections)}
             to == Shifted(d.shoff, start, amount)
             sections == [n \in DOMAIN d.sections |-> [d.sections[n] EXCEPT !.offset = at(d.sections[n])]]
             shoff == IF \A end \in ends : end <= to THEN to ELSE Max(ends)
  <2>1. e = [d EXCEPT !.sections = sections, !.segments = segments, !.shoff = shoff]
    <3>1. "sections" \in DOMAIN d /\ "segments" \in DOMAIN d /\ "shoff" \in DOMAIN d
          BY DEF IsHeaders
    <3> QED
        BY <3>1 DEF elf_utils_shift_contents
  <2> QED
      BY <2>1
<1>2. IsHeaders(e) /\ e.entry = d.entry /\ e.segments = segments
  <2> HIDE DEF e, segments
  <2> QED
      BY <1>1 DEF IsHeaders
<1> HIDE DEF e
<1>3. segments = [n \in DOMAIN d.segments |-> segments[n]]
      OBVIOUS
<1>4. IsList(segments) /\ Len(segments) = Len(d.segments)
  <2> HIDE DEF segments
  <2> QED
      BY <1>3, MapList
<1>5. ASSUME NEW n \in 1 .. Len(d.segments)
      PROVE  /\ DOMAIN segments[n] = DOMAIN d.segments[n]
             /\ segments[n].filesz = d.segments[n].filesz /\ segments[n].align = d.segments[n].align
             /\ segments[n].vaddr = d.segments[n].vaddr /\ segments[n].memsz = d.segments[n].memsz
             /\ d.segments[n].offset \in Int => segments[n].offset \in Int
  <2>1. n \in DOMAIN d.segments
        BY ListFacts
  <2>2. Fields \subseteq DOMAIN d.segments[n]
        BY DEF SegmentOK
  <2>3. segments[n] = [d.segments[n] EXCEPT !.offset = Shifted(d.segments[n].offset, start, amount)]
        BY <2>1
  <2> HIDE DEF segments
  <2>4. d.segments[n].offset \in Int => Shifted(d.segments[n].offset, start, amount) \in Int
        BY DEF Shifted
  <2> QED
      BY <2>2, <2>3, <2>4 DEF Fields
<1> QED
    BY <1>2, <1>4, <1>5 DEF SameSegments, e

\* A section is added.
LEMMA NewSectionSegments ==
  ASSUME NEW d, IsHeaders(d), IsList(d.segments), \A n \in 1 .. Len(d.segments) : SegmentOK(d.segments[n]),
         NEW namelen \in Int, NEW section
  PROVE  SameSegments(d, elf_utils_new_scn_with_name(d, namelen, section))
<1> DEFINE n == CHOOSE n \in DOMAIN d.sections : d.sections[n].id[1] = "shstrtab"
           end == d.sections[n].offset + d.sections[n].size
           e == elf_utils_shift_contents(d, end, namelen)
           s == Append([e.sections EXCEPT ![n].size = d.sections[n].size + namelen], section)
           f == elf_utils_new_scn_with_name(d, namelen, section)
<1>1. f = [e EXCEPT !.sections = s]
      BY DEF elf_utils_new_scn_with_name
<1>2. SameSegments(d, e)
  <2> HIDE DEF end
  <2> QED
      BY ShiftSegments
<1> HIDE DEF e, s, f
<1>3. IsHeaders(f) /\ f.entry = e.entry /\ f.segments = e.segments
      BY <1>1, <1>2 DEF SameSegments, IsHeaders
<1>4. SameSegments(d, f)
      BY <1>2, <1>3 DEF SameSegments
<1> QED
    BY <1>4 DEF f

\* The last section gets its contents.
LEMMA WithDataSegments ==
  ASSUME NEW d, IsHeaders(d), IsList(d.segments), \A n \in 1 .. Len(d.segments) : SegmentOK(d.segments[n]),
         NEW size \in Int
  PROVE  SameSegments(d, WithData(d, size))
<1> DEFINE e == elf_utils_shift_contents(d, d.shoff, size + 16)
           n == Len(d.sections)
           s == [[e.sections EXCEPT ![n].offset = DataOffset(d)] EXCEPT ![n].size = size]
           f == WithData(d, size)
<1>1. f = [[e EXCEPT !.sections[n].offset = DataOffset(d)] EXCEPT !.sections[n].size = size]
      BY DEF WithData
<1>2. SameSegments(d, e)
      BY ShiftSegments
<1> HIDE DEF e, f
<1>3. f = [e EXCEPT !.sections = s]
      BY <1>1, <1>2 DEF SameSegments, IsHeaders
<1> HIDE DEF s
<1>4. IsHeaders(f) /\ f.entry = e.entry /\ f.segments = e.segments
      BY <1>3, <1>2 DEF SameSegments, IsHeaders
<1>5. SameSegments(d, f)
      BY <1>2, <1>4 DEF SameSegments
<1> QED
    BY <1>5 DEF f

\* The segments of the linked ELF.
LEMMA ProgramFacts ==
  ASSUME Shape
  PROVE  /\ IsList(program.segments) /\ Len(program.segments) \in 1 .. 4 /\ DOMAIN program.segments = 1 .. Len(program.segments)
         /\ \A n \in DOMAIN program.segments :
              /\ DOMAIN program.segments[n] = {"vaddr", "memsz"}
              /\ program.segments[n].vaddr \in Nat /\ program.segments[n].memsz \in Nat
              /\ DOMAIN program.file.segments[n] = {"offset", "filesz", "align"}
              /\ program.file.segments[n].offset \in Nat /\ program.file.segments[n].filesz \in Nat
              /\ program.file.segments[n].align \in Nat
<1>1. ProgramOK(program) /\ FileOK(program)
      BY DEF Shape, ProgramShape, program
<1>2. program.segments \in Seq([vaddr : Nat, memsz : Nat]) /\ program.segments # <<>>
      BY <1>1 DEF ProgramOK
<1>3. program.file.segments \in [DOMAIN program.segments -> [offset : Nat, filesz : Nat, align : Nat]] /\ Len(program.segments) <= 4
      BY <1>1 DEF FileOK
<1>4. IsList(program.segments)
      BY <1>2 DEF IsList
<1>5. Len(program.segments) \in 1 .. 4 /\ DOMAIN program.segments = 1 .. Len(program.segments)
  <2>1. Len(program.segments) \in Nat /\ Len(program.segments) # 0
        BY <1>2, EmptySeq
  <2>2. DOMAIN program.segments = 1 .. Len(program.segments)
        BY <1>4, ListFacts
  <2>3. Len(program.segments) >= 1 /\ Len(program.segments) <= 4
        BY <1>3, <2>1
  <2>4. Len(program.segments) \in 1 .. 4
    <3>1. \A k \in Nat : k >= 1 /\ k <= 4 => k \in 1 .. 4
          OBVIOUS
    <3> QED
        BY <2>1, <2>3, <3>1
  <2> QED
      BY <2>2, <2>4
<1>6. ASSUME NEW n \in DOMAIN program.segments
      PROVE  program.segments[n] \in [vaddr : Nat, memsz : Nat] /\ program.file.segments[n] \in [offset : Nat, filesz : Nat, align : Nat]
  <2>1. n \in 1 .. Len(program.segments)
        BY <1>5
  <2>2. program.segments[n] \in [vaddr : Nat, memsz : Nat]
        BY <1>2, <2>1, ElementOfSeq
  <2> QED
      BY <1>3, <2>2
<1> QED
    BY <1>4, <1>5, <1>6

\* Alignment to a word, and the size of the module info in words.
LEMMA AlignUpFacts == ASSUME NEW n \in Nat PROVE AlignUp(n) \in Nat /\ AlignUp(n) - n \in 0 .. 3 /\ AlignUp(n) % 4 = 0
BY DEF AlignUp

\* The module info is the first section.
LEMMA TotalSizeFacts ==
  ASSUME Shape
  PROVE  total_size \in Nat /\ total_size >= sizes["ModuleInfo"]
<1> DEFINE s == [n \in DOMAIN Sections |-> sizes[Sections[n]]]
<1>1. total_size = SumOf(s)
      BY DEF total_size
<1>2. s = [n \in DOMAIN Sections |-> s[n]] /\ \A n \in 1 .. 9 : s[n] \in Nat /\ s[n] = sizes[Sections[n]]
      BY SectionFacts DEF Shape, Words
<1> HIDE DEF s
<1>3. IsList(s) /\ Len(s) = 9
      BY <1>2, SectionFacts, MapList
<1>4. PICK h \in [0 .. 9 -> Nat] : h[0] = 0 /\ (\A n \in 1 .. 9 : h[n] = h[n - 1] + s[n]) /\ SumOf(s) = h[9]
  <2>1. Len(s) \in Nat /\ \A n \in 1 .. Len(s) : s[n] \in Nat
        BY <1>2, <1>3
  <2>2. \E h \in [0 .. Len(s) -> Nat] :
          h[0] = 0 /\ (\A n \in 1 .. Len(s) : h[n] = h[n - 1] + s[n]) /\ SumOf(s) = h[Len(s)]
        BY <2>1, SumFacts
  <2> QED
      BY <1>3, <2>2
<1>5. h[1] = h[0] + s[1] /\ h[2] = h[1] + s[2] /\ h[3] = h[2] + s[3] /\ h[4] = h[3] + s[4] /\ h[5] = h[4] + s[5]
      /\ h[6] = h[5] + s[6] /\ h[7] = h[6] + s[7] /\ h[8] = h[7] + s[8] /\ h[9] = h[8] + s[9]
  <2>1. \A n \in 0 .. 8 : h[n + 1] = h[n] + s[n + 1]
    <3>1. ASSUME NEW n \in 0 .. 8 PROVE h[n + 1] = h[n] + s[n + 1]
      <4>1. n + 1 \in 1 .. 9 /\ (n + 1) - 1 = n
            OBVIOUS
      <4> QED
          BY <4>1, <1>4
    <3> QED
        BY <3>1
  <2> QED
      BY <2>1
<1>6. s[1] \in Nat /\ s[2] \in Nat /\ s[3] \in Nat /\ s[4] \in Nat /\ s[5] \in Nat /\ s[6] \in Nat /\ s[7] \in Nat /\ s[8] \in Nat /\ s[9] \in Nat
      BY <1>2
<1>7. h[9] \in Nat /\ h[9] >= s[1]
      BY <1>4, <1>5, <1>6
<1>8. s[1] = sizes["ModuleInfo"]
      BY <1>2, SectionFacts
<1> QED
    BY <1>1, <1>4, <1>7, <1>8

----------------------------------------------------------------------------
(* Writing leaves the segments in order.                                    *)

\* Where sce_elf_write_module_info() has put the module info.
InfoPlaced ==
  /\ EntrySegments # {}
  /\ LET g == First(EntrySegments)
     IN /\ dest.entry = [segment |-> (g - 1) % 4, offset |-> EntryOffset]
        /\ dest.segments[g].filesz =
             program.file.segments[g].filesz + (4 * total_size + EntryOffset - program.segments[g].memsz)
\* The stages of writing before there is a segment for the relocations.
Short == {"write_info", "write_sections", "write_relas", "fill_relas"}
\* The segments of the headers: those of the ELF, then that of the relocations.
SegmentsOK ==
  /\ IsHeaders(dest) /\ IsList(dest.segments)
  /\ Len(dest.segments) = IF stage \in Short THEN Len(program.segments) ELSE Len(program.segments) + 1
  /\ \A n \in 1 .. Len(dest.segments) : SegmentOK(dest.segments[n])
  /\ \A n \in DOMAIN program.segments : dest.segments[n].offset \in Int /\ dest.segments[n].vaddr = program.segments[n].vaddr
\* What holds of the headers while the file is written, and after.
DestOK ==
  stage \in Writing =>
    /\ SegmentsOK
    /\ stage = "write_info" => \A n \in DOMAIN program.segments : dest.segments[n].filesz = program.file.segments[n].filesz
    /\ stage # "write_info" => InfoPlaced

\* The segment of the entry point.
LEMMA EntryFacts ==
  ASSUME Shape, EntrySegments # {}
  PROVE  /\ First(EntrySegments) \in DOMAIN program.segments
         /\ EntryOffset \in Nat /\ EntryOffset >= program.segments[First(EntrySegments)].memsz
<1>1. DOMAIN program.segments = 1 .. Len(program.segments)
      BY ProgramFacts
<1>2. EntrySegments \in SUBSET Nat /\ EntrySegments \subseteq DOMAIN program.segments
      BY <1>1 DEF EntrySegments, SegmentsOf
<1>3. First(EntrySegments) \in DOMAIN program.segments
      BY <1>2, FirstIn
<1>4. PICK m \in Nat : m = program.segments[First(EntrySegments)].memsz
      BY <1>3, ProgramFacts
<1>5. EntryOffset = AlignUp(m)
      BY <1>4 DEF EntryOffset
<1>6. AlignUp(m) \in Nat /\ AlignUp(m) >= m
  <2>1. AlignUp(m) \in Nat /\ AlignUp(m) - m \in 0 .. 3
        BY AlignUpFacts
  <2> QED
      BY <2>1
<1> QED
    BY <1>3, <1>4, <1>5, <1>6

\* The headers are copied.
LEMMA CopyDest == ASSUME Pipeline, elf_utils_copy_to_file, elf' = elf PROVE DestOK'
<1>1. Shape
      BY DEF Pipeline
<1>2. CASE stage' \notin Writing
      BY <1>2 DEF DestOK
<1>3. CASE stage' \in Writing
  <2> DEFINE segments == [n \in DOMAIN program.segments |-> program.segments[n] ++ program.file.segments[n]]
  <2>1. stage' = "write_info" /\ \E sections, shoff :
          dest' = [sections |-> sections, segments |-> segments, shoff |-> shoff, entry |-> <<>>]
        BY <1>3 DEF elf_utils_copy_to_file, To, Writing, Creating, Unpacked, Finished
  <2>2. segments = [n \in DOMAIN program.segments |-> segments[n]] /\ \A n \in DOMAIN program.segments :
          segments[n] = program.segments[n] ++ program.file.segments[n]
        OBVIOUS
  <2> HIDE DEF segments
  <2>3. IsHeaders(dest') /\ dest'.segments = segments
        BY <2>1 DEF IsHeaders
  <2>4. IsList(segments) /\ Len(segments) = Len(program.segments) /\ DOMAIN segments = DOMAIN program.segments
        BY <1>1, <2>2, ProgramFacts, MapList
  <2>5. ASSUME NEW n \in DOMAIN program.segments
        PROVE  /\ SegmentOK(segments[n])
               /\ segments[n].offset \in Int /\ segments[n].vaddr = program.segments[n].vaddr
               /\ segments[n].filesz = program.file.segments[n].filesz
    <3>1. /\ DOMAIN program.segments[n] = {"vaddr", "memsz"}
          /\ DOMAIN program.file.segments[n] = {"offset", "filesz", "align"}
          /\ program.file.segments[n].offset \in Nat /\ program.file.segments[n].filesz \in Nat
          /\ program.file.segments[n].align \in Nat
          BY <1>1, ProgramFacts
    <3>2. /\ DOMAIN segments[n] = DOMAIN program.segments[n] \cup DOMAIN program.file.segments[n]
          /\ \A x \in DOMAIN program.segments[n] : segments[n][x] = program.segments[n][x]
          /\ \A x \in DOMAIN program.file.segments[n] : x \notin DOMAIN program.segments[n] => segments[n][x] = program.file.segments[n][x]
      <4> DEFINE f == program.segments[n]
                 g == program.file.segments[n]
      <4>1. segments[n] = f ++ g
            BY <2>2
      <4> HIDE DEF f, g
      <4>2. DOMAIN (f ++ g) = DOMAIN f \cup DOMAIN g
            /\ (\A x \in DOMAIN f : (f ++ g)[x] = f[x]) /\ (\A x \in DOMAIN g : x \notin DOMAIN f => (f ++ g)[x] = g[x])
            BY JoinFacts
      <4>3. /\ DOMAIN segments[n] = DOMAIN f \cup DOMAIN g
            /\ \A x \in DOMAIN f : segments[n][x] = f[x]
            /\ \A x \in DOMAIN g : x \notin DOMAIN f => segments[n][x] = g[x]
            BY <4>1, <4>2
      <4> QED
          BY <4>3 DEF f, g
    <3>3. DOMAIN segments[n] = {"vaddr", "memsz"} \cup {"offset", "filesz", "align"}
          BY <3>1, <3>2
    <3>4. segments[n].offset = program.file.segments[n].offset /\ segments[n].filesz = program.file.segments[n].filesz
          /\ segments[n].align = program.file.segments[n].align /\ segments[n].vaddr = program.segments[n].vaddr
          BY <3>1, <3>2
    <3> QED
        BY <3>1, <3>3, <3>4 DEF SegmentOK, Fields
  <2>6. 1 .. Len(segments) = DOMAIN program.segments
        BY <2>4, ListFacts
  <2>7. SegmentsOK'
        BY <2>1, <2>3, <2>4, <2>5, <2>6 DEF SegmentsOK, Short, program
  <2> QED
      BY <2>1, <2>3, <2>5, <2>7 DEF DestOK, program
<1> QED
    BY <1>2, <1>3

\* What keeps the headers' segments keeps all that is known of them.
LEMMA SameDest ==
  ASSUME Shape, SegmentsOK, SameSegments(dest, dest'), elf' = elf, stage' \in Short <=> stage \in Short
  PROVE  SegmentsOK'
<1>1. \A n \in 1 .. Len(dest.segments) : SegmentOK(dest'.segments[n])
      BY DEF SameSegments, SegmentsOK, SegmentOK
<1>2. DOMAIN program.segments \subseteq 1 .. Len(dest.segments)
  <2>1. Len(program.segments) \in Nat /\ DOMAIN program.segments = 1 .. Len(program.segments)
        BY ProgramFacts
  <2> QED
      BY <2>1 DEF SegmentsOK
<1>3. \A n \in DOMAIN program.segments : dest'.segments[n].offset \in Int /\ dest'.segments[n].vaddr = program.segments[n].vaddr
      BY <1>2 DEF SameSegments, SegmentsOK
<1> QED
    BY <1>1, <1>3 DEF SegmentsOK, SameSegments, program

\* The place of the module info stays.
LEMMA SamePlaced ==
  ASSUME Shape, SegmentsOK, InfoPlaced, SameSegments(dest, dest'), UNCHANGED <<elf, sizes>>
  PROVE  InfoPlaced'
<1>1. First(EntrySegments) \in DOMAIN program.segments
      BY EntryFacts DEF InfoPlaced
<1>2. First(EntrySegments) \in 1 .. Len(dest.segments)
  <2>1. Len(program.segments) \in Nat /\ DOMAIN program.segments = 1 .. Len(program.segments)
        BY ProgramFacts
  <2> QED
      BY <1>1, <2>1 DEF SegmentsOK
<1>3. dest'.entry = dest.entry /\ dest'.segments[First(EntrySegments)].filesz = dest.segments[First(EntrySegments)].filesz
      BY <1>2 DEF SameSegments
<1>4. EntrySegments' = EntrySegments /\ program' = program /\ EntryOffset' = EntryOffset /\ total_size' = total_size
      BY DEF EntrySegments, SegmentsOf, InSegment, program, EntryOffset, total_size
<1> QED
    BY <1>3, <1>4 DEF InfoPlaced

\* Room is made for the module info.
LEMMA WriteInfoDest ==
  ASSUME Shape, DestOK, sce_elf_write_module_info, UNCHANGED <<elf, sizes>>
  PROVE  DestOK'
<1>1. stage = "write_info" /\ SegmentsOK /\ \A n \in DOMAIN program.segments : dest.segments[n].filesz = program.file.segments[n].filesz
      BY DEF DestOK, sce_elf_write_module_info, Writing, Creating
<1>2. CASE EntrySegments = {}
  <2>1. stage' = "failure"
        BY <1>2 DEF sce_elf_write_module_info, To
  <2> QED
      BY <2>1 DEF DestOK, Writing, Creating, Unpacked, Finished
<1>3. CASE EntrySegments # {}
  <2> DEFINE total == 4 * total_size + EntryOffset - program.segments[First(EntrySegments)].memsz
             e == elf_utils_shift_contents(dest, start_foffset, total)
  <2>1. PICK g : g = First(EntrySegments)
        OBVIOUS
  <2>2. /\ dest' = [e EXCEPT !.segments[g].filesz = @ + total, !.segments[g].memsz = @ + total,
                             !.entry = [segment |-> (g - 1) % 4, offset |-> EntryOffset]]
        /\ stage' = "write_sections"
        BY <1>3, <2>1 DEF sce_elf_write_module_info, To
  <2>3. g \in DOMAIN program.segments /\ total \in Nat
    <3>1. g \in DOMAIN program.segments /\ EntryOffset \in Nat /\ EntryOffset >= program.segments[g].memsz
          BY <1>3, <2>1, EntryFacts
    <3>2. program.segments[g].memsz \in Nat
          BY <3>1, ProgramFacts
    <3>3. total_size \in Nat
          BY TotalSizeFacts
    <3>4. \A a, b, c \in Nat : b >= c => 4 * a + b - c \in Nat
          OBVIOUS
    <3> QED
        BY <2>1, <3>1, <3>2, <3>3, <3>4
  <2>4. SameSegments(dest, e)
    <3>1. total \in Int
          BY <2>3
    <3> HIDE DEF total
    <3> QED
        BY <1>1, <3>1, ShiftSegments DEF SegmentsOK
  <2>5. total = 4 * total_size + EntryOffset - program.segments[g].memsz
        BY <2>1
  <2> HIDE DEF e, total
  <2>6. /\ IsList(program.segments) /\ DOMAIN program.segments = 1 .. Len(program.segments) /\ Len(program.segments) \in Nat
        /\ program.file.segments[g].filesz \in Nat
        BY <2>3, ProgramFacts
  <2>7. Len(dest.segments) = Len(program.segments) /\ IsList(e.segments) /\ Len(e.segments) = Len(program.segments)
        BY <1>1, <2>4 DEF SameSegments, SegmentsOK, Short
  <2>8. DOMAIN e.segments = DOMAIN program.segments
        BY <2>6, <2>7, ListFacts
  <2> DEFINE grown == [[e.segments[g] EXCEPT !.filesz = @ + total] EXCEPT !.memsz = @ + total]
             segments == [[e.segments EXCEPT ![g].filesz = @ + total] EXCEPT ![g].memsz = @ + total]
  <2>9. segments = [n \in DOMAIN program.segments |-> IF n = g THEN grown ELSE e.segments[n]]
        BY <2>3, <2>8
  <2>10. IsHeaders(dest') /\ dest'.segments = segments /\ dest'.entry = [segment |-> (g - 1) % 4, offset |-> EntryOffset]
    <3>1. e = [sections |-> e.sections, segments |-> e.segments, shoff |-> e.shoff, entry |-> e.entry]
          BY <2>4 DEF SameSegments, IsHeaders
    <3>2. dest' = [sections |-> e.sections, segments |-> segments, shoff |-> e.shoff,
                   entry |-> [segment |-> (g - 1) % 4, offset |-> EntryOffset]]
          BY <2>2, <3>1
    <3> HIDE DEF segments
    <3> QED
        BY <3>2 DEF IsHeaders
  <2>11. /\ \A n \in DOMAIN program.segments : SegmentOK(e.segments[n]) /\ e.segments[n].offset \in Int
         /\ \A n \in DOMAIN program.segments : e.segments[n].vaddr = program.segments[n].vaddr
         /\ e.segments[g].filesz = program.file.segments[g].filesz
    <3>1. ASSUME NEW n \in DOMAIN program.segments
          PROVE  SegmentOK(e.segments[n]) /\ e.segments[n].offset \in Int /\ e.segments[n].vaddr = program.segments[n].vaddr
                 /\ e.segments[n].filesz = program.file.segments[n].filesz
      <4>1. n \in 1 .. Len(dest.segments)
            BY <2>6, <2>7
      <4>2. SegmentOK(dest.segments[n]) /\ dest.segments[n].offset \in Int /\ dest.segments[n].vaddr = program.segments[n].vaddr
            /\ dest.segments[n].filesz = program.file.segments[n].filesz
            BY <1>1, <4>1 DEF SegmentsOK
      <4> QED
          BY <4>1, <4>2, <2>4 DEF SameSegments, SegmentOK
    <3> QED
        BY <3>1, <2>3
  <2>12. SegmentOK(grown) /\ grown.offset \in Int /\ grown.vaddr = program.segments[g].vaddr
         /\ grown.filesz = program.file.segments[g].filesz + total
    <3>1. Fields \subseteq DOMAIN e.segments[g] /\ e.segments[g].filesz \in Nat /\ e.segments[g].align \in Nat
          BY <2>3, <2>11 DEF SegmentOK
    <3>2. e.segments[g].filesz + total \in Nat
          BY <3>1, <2>3
    <3> QED
        BY <2>3, <2>11, <3>1, <3>2 DEF SegmentOK, Fields
  <2> HIDE DEF grown, segments
  <2>13. IsList(segments) /\ Len(segments) = Len(program.segments) /\ segments[g] = grown
         /\ \A n \in DOMAIN program.segments : n # g => segments[n] = e.segments[n]
    <3>1. segments = [n \in DOMAIN program.segments |-> segments[n]]
          BY <2>9
    <3> QED
        BY <3>1, <2>3, <2>6, <2>9, MapList
  <2>14. \A n \in DOMAIN program.segments :
           /\ SegmentOK(segments[n]) /\ segments[n].offset \in Int
           /\ segments[n].vaddr = program.segments[n].vaddr
         BY <2>11, <2>12, <2>13
  <2>15. SegmentsOK'
         BY <2>2, <2>6, <2>10, <2>13, <2>14 DEF SegmentsOK, Short, program
  <2>16. InfoPlaced'
    <3>1. EntrySegments' = EntrySegments /\ program' = program /\ EntryOffset' = EntryOffset /\ total_size' = total_size
          BY DEF EntrySegments, SegmentsOf, InSegment, program, EntryOffset, total_size
    <3> QED
        BY <1>3, <2>1, <2>5, <2>10, <2>12, <2>13, <3>1 DEF InfoPlaced
  <2> QED
      BY <2>2, <2>15, <2>16 DEF DestOK
<1> QED
    BY <1>2, <1>3

\* Sections are named and added.
LEMMA LengthsOfNames == \A n \in 1 .. 9 : NameLength[n] \in Nat
BY DEF NameLength

\* A section of the module info is written.
LEMMA WriteSectionDest ==
  ASSUME Shape, DestOK, WriteSection, UNCHANGED <<elf, sizes>>
  PROVE  DestOK'
<1>1. stage = "write_sections" /\ SegmentsOK /\ InfoPlaced
      BY DEF DestOK, WriteSection, Writing, Creating
<1>2. stage' \in {"write_sections", "write_relas"}
      BY <1>1 DEF WriteSection, To, Again
<1>3. i + 1 \in 1 .. 9
      BY SectionFacts DEF Shape, WriteSection
<1>4. SameSegments(dest, dest')
  <2>1. PICK section : dest' = dest \/ dest' = elf_utils_new_scn_with_name(dest, NameLength[i + 1], section)
    <3> HIDE DEF elf_utils_new_scn_with_name, NewSection
    <3> QED
        BY DEF WriteSection
  <2>2. CASE dest' = dest
        BY <1>1, <2>2 DEF SameSegments, SegmentsOK
  <2>3. CASE dest' = elf_utils_new_scn_with_name(dest, NameLength[i + 1], section)
    <3>1. PICK k \in Nat : k = NameLength[i + 1]
          BY <1>3, LengthsOfNames
    <3>2. SameSegments(dest, elf_utils_new_scn_with_name(dest, k, section))
          BY <1>1, NewSectionSegments DEF SegmentsOK
    <3> QED
        BY <2>3, <3>1, <3>2
  <2> QED
      BY <2>1, <2>2, <2>3
<1>5. SegmentsOK' /\ InfoPlaced'
      BY <1>1, <1>2, <1>4, SameDest, SamePlaced DEF Short
<1> QED
    BY <1>2, <1>5 DEF DestOK

\* The section of the relocations is added.
LEMMA AddRelaDest ==
  ASSUME Shape, DestOK, AddRelaSection, UNCHANGED <<elf, sizes>>
  PROVE  DestOK'
<1>1. stage = "write_relas" /\ SegmentsOK /\ InfoPlaced /\ stage' = "fill_relas"
      BY DEF DestOK, AddRelaSection, Writing, Creating, To
<1>2. SameSegments(dest, dest')
  <2>1. PICK section : dest' = elf_utils_new_scn_with_name(dest, RelNameLength, section)
        BY DEF AddRelaSection
  <2>2. PICK k \in Nat : k = RelNameLength
        BY DEF RelNameLength
  <2>3. SameSegments(dest, elf_utils_new_scn_with_name(dest, k, section))
        BY <1>1, NewSectionSegments DEF SegmentsOK
  <2> QED
      BY <2>1, <2>2, <2>3
<1>3. SegmentsOK' /\ InfoPlaced'
      BY <1>1, <1>2, SameDest, SamePlaced DEF Short
<1> QED
    BY <1>1, <1>3 DEF DestOK

\* The relocations get a segment.
LEMMA RelaSizeNat == ASSUME Shape PROVE RelaSize \in Nat
<1> DEFINE S == {r \in relas : InSegments(r.addend)}
<1>1. IsFiniteSet(S)
      BY FS_Subset DEF Shape
<1> HIDE DEF S
<1>2. Cardinality(S) \in Nat
      BY <1>1, FS_CardinalityType
<1>3. program.file.relas \in Nat
  <2>1. FileOK(program)
        BY DEF Shape, ProgramShape, program
  <2> QED
      BY <2>1 DEF FileOK
<1>4. RelaSize = RELA * (program.file.relas + Cardinality(S))
      BY DEF RelaSize, S
<1>5. \A a, b \in Nat : RELA * (a + b) \in Nat
      BY DEF RELA
<1> QED
    BY <1>2, <1>3, <1>4, <1>5

\* The segment of the relocations is added.
LEMMA WriteRelasDest ==
  ASSUME Shape, DestOK, sce_elf_write_rela_sections, UNCHANGED <<elf, sizes>>
  PROVE  DestOK'
<1>1. stage = "fill_relas" /\ SegmentsOK /\ InfoPlaced /\ stage' = "rewrite"
      BY DEF DestOK, sce_elf_write_rela_sections, Writing, Creating, To
<1>2. PICK size \in Nat : size = RelaSize
      BY RelaSizeNat
<1> DEFINE e == WithData(dest, size)
           new == [vaddr |-> 0, memsz |-> 0, offset |-> DataOffset(dest), filesz |-> size, align |-> 16]
           segments == Append(e.segments, new)
<1>3. SameSegments(dest, e)
  <2>1. \A n \in 1 .. Len(dest.segments) : SegmentOK(dest.segments[n])
        BY <1>1 DEF SegmentsOK
  <2>2. IsHeaders(dest) /\ IsList(dest.segments) /\ size \in Int
        BY <1>1 DEF SegmentsOK
  <2>3. SameSegments(dest, WithData(dest, size))
        BY <2>1, <2>2, WithDataSegments
  <2> QED
      BY <2>3
<1>4. dest' = [e EXCEPT !.segments = segments]
      BY <1>2, <1>3 DEF sce_elf_write_rela_sections, SameSegments, IsHeaders
<1> HIDE DEF e
<1>5. SegmentOK(new)
      BY DEF SegmentOK, Fields
<1> HIDE DEF new
<1>6. IsList(segments) /\ Len(segments) = Len(e.segments) + 1
      /\ (\A n \in 1 .. Len(e.segments) : segments[n] = e.segments[n]) /\ segments[Len(e.segments) + 1] = new
      BY <1>3, ListAppend DEF SameSegments
<1> HIDE DEF segments
<1>7. IsHeaders(dest') /\ dest'.segments = segments /\ dest'.entry = dest.entry
      BY <1>4, <1>3 DEF SameSegments, IsHeaders
<1>8. /\ DOMAIN program.segments = 1 .. Len(program.segments) /\ Len(program.segments) \in Nat
      /\ Len(dest.segments) = Len(program.segments) /\ Len(e.segments) = Len(program.segments)
      BY <1>1, <1>3, ProgramFacts DEF SegmentsOK, SameSegments, Short
<1>9. \A n \in DOMAIN program.segments :
        /\ SegmentOK(segments[n]) /\ segments[n].offset \in Int
        /\ segments[n].vaddr = program.segments[n].vaddr
        /\ segments[n].filesz = dest.segments[n].filesz
  <2>1. ASSUME NEW n \in DOMAIN program.segments
        PROVE  /\ SegmentOK(segments[n]) /\ segments[n].offset \in Int
               /\ segments[n].vaddr = program.segments[n].vaddr
               /\ segments[n].filesz = dest.segments[n].filesz
    <3>1. n \in 1 .. Len(dest.segments) /\ segments[n] = e.segments[n]
          BY <1>6, <1>8
    <3>2. SegmentOK(dest.segments[n]) /\ dest.segments[n].offset \in Int /\ dest.segments[n].vaddr = program.segments[n].vaddr
          BY <1>1, <3>1 DEF SegmentsOK
    <3> QED
        BY <3>1, <3>2, <1>3 DEF SameSegments, SegmentOK
  <2> QED
      BY <2>1
<1>10. \A n \in 1 .. Len(segments) : SegmentOK(segments[n])
  <2>1. \A n \in 1 .. Len(segments) : n \in DOMAIN program.segments \/ n = Len(e.segments) + 1
        BY <1>6, <1>8
  <2> QED
      BY <1>5, <1>6, <1>9, <2>1
<1>11. SegmentsOK'
       BY <1>1, <1>6, <1>7, <1>8, <1>9, <1>10 DEF SegmentsOK, Short, program
<1>12. InfoPlaced'
  <2>1. First(EntrySegments) \in DOMAIN program.segments
        BY <1>1, EntryFacts DEF InfoPlaced
  <2>2. EntrySegments' = EntrySegments /\ program' = program /\ EntryOffset' = EntryOffset /\ total_size' = total_size
        BY DEF EntrySegments, SegmentsOf, InSegment, program, EntryOffset, total_size
  <2>3. dest'.segments[First(EntrySegments)].filesz = dest.segments[First(EntrySegments)].filesz
        BY <1>7, <1>9, <2>1
  <2> QED
      BY <1>1, <1>7, <2>2, <2>3 DEF InfoPlaced
<1> QED
    BY <1>1, <1>11, <1>12 DEF DestOK

\* The sections of stubs go.
LEMMA RewriteDest ==
  ASSUME Shape, DestOK, sce_elf_rewrite_stubs, UNCHANGED <<elf, sizes>>
  PROVE  DestOK'
<1>1. stage = "rewrite" /\ SegmentsOK /\ InfoPlaced /\ stage' = "update"
      BY DEF DestOK, sce_elf_rewrite_stubs, Writing, Creating, To
<1>2. PICK sections : dest' = [dest EXCEPT !.sections = sections]
      BY DEF sce_elf_rewrite_stubs
<1>3. IsHeaders(dest') /\ dest'.segments = dest.segments /\ dest'.entry = dest.entry
      BY <1>1, <1>2 DEF SegmentsOK, IsHeaders
<1>4. SameSegments(dest, dest')
      BY <1>1, <1>3 DEF SameSegments, SegmentsOK
<1>5. SegmentsOK' /\ InfoPlaced'
      BY <1>1, <1>4, SameDest, SamePlaced DEF Short
<1> QED
    BY <1>1, <1>5 DEF DestOK

\* Updating the file, packing and making a SELF are done from headers that stay.
LEMMA KeptDest ==
  ASSUME Shape, DestOK, UNCHANGED <<dest, elf, sizes>>,
         stage' \in Writing => stage \in Writing \ (Short \cup {"rewrite"}) /\ stage' \notin Short
  PROVE  DestOK'
<1>1. CASE stage' \notin Writing
      BY <1>1 DEF DestOK
<1>2. CASE stage' \in Writing
  <2>1. SegmentsOK /\ InfoPlaced
        BY <1>2 DEF DestOK, Short
  <2>2. SameSegments(dest, dest')
        BY <2>1 DEF SameSegments, SegmentsOK
  <2>3. SegmentsOK' /\ InfoPlaced'
        BY <1>2, <2>1, <2>2, SameDest, SamePlaced DEF Short
  <2> QED
      BY <1>2, <2>3 DEF DestOK, Short
<1> QED
    BY <1>1, <1>2

\* Every step of writing, packing and making a SELF.
LEMMA WrittenDest ==
  ASSUME Pipeline, DestOK, Written \/ VitaMakeFself
  PROVE  DestOK'
<1>1. Shape /\ UNCHANGED <<elf, sizes>>
  <2>1. Shape /\ i \in Nat
        BY DEF Pipeline, Shape
  <2>2. UNCHANGED Counters
        BY <2>1, WrittenStages
  <2> QED
      BY <2>1, <2>2 DEF Counters
<1>2. CASE elf_utils_copy_to_file
      BY <1>1, <1>2, CopyDest
<1>3. CASE sce_elf_write_module_info
      BY <1>1, <1>3, WriteInfoDest
<1>4. CASE WriteSection
      BY <1>1, <1>4, WriteSectionDest
<1>5. CASE AddRelaSection
      BY <1>1, <1>5, AddRelaDest
<1>6. CASE sce_elf_write_rela_sections
      BY <1>1, <1>6, WriteRelasDest
<1>7. CASE sce_elf_rewrite_stubs
      BY <1>1, <1>7, RewriteDest
<1> USE DEF To, Again, Writing, Creating, Unpacked, Finished, Short
<1>8. CASE elf_update \/ vita_elf_packing \/ PackSegment \/ PackHeaders \/ PackingFails \/ remove \/ rename \/ fclose
  <2>1. UNCHANGED dest /\ (stage' \in Writing => stage \in Writing \ (Short \cup {"rewrite"}) /\ stage' \notin Short)
    <3>1. CASE elf_update \/ vita_elf_packing
          BY <3>1 DEF elf_update, vita_elf_packing
    <3>2. CASE PackSegment \/ PackHeaders \/ PackingFails
          BY <3>2 DEF PackSegment, PackHeaders, PackingFails, output_vars
    <3>3. CASE remove \/ rename \/ fclose
          BY <3>3 DEF remove, rename, fclose
    <3> QED
        BY <1>8, <3>1, <3>2, <3>3
  <2> QED
      BY <1>1, <2>1, KeptDest
<1>9. CASE VitaMakeFself
  <2>1. UNCHANGED dest /\ stage \in Finished
    <3>1. ReadInput \/ ReadLost \/ WriteHeaders \/ WriteSegment \/ WriteHeader
          BY <1>9 DEF VitaMakeFself
    <3> QED
        BY <3>1 DEF ReadInput, ReadLost, WriteHeaders, WriteSegment, WriteHeader, output_vars
  <2>2. stage' \in Finished
    <3>1. CASE ReadInput
          BY <3>1 DEF ReadInput, Error
    <3>2. CASE WriteHeaders
          BY <3>2 DEF WriteHeaders, Error
    <3>3. CASE WriteSegment
      <4>1. Again \/ Error
        <5> HIDE DEF Again
        <5> QED
            BY <3>3, Zenon DEF WriteSegment
      <4> QED
          BY <2>1, <4>1 DEF Error
    <3>4. CASE WriteHeader
          BY <3>4 DEF WriteHeader, Error
    <3>5. CASE ReadLost
          BY <3>5 DEF ReadLost
    <3> QED
        BY <1>9, <3>1, <3>2, <3>3, <3>4, <3>5 DEF VitaMakeFself
  <2> QED
      BY <1>1, <2>1, <2>2, KeptDest
<1> QED
    BY <1>2, <1>3, <1>4, <1>5, <1>6, <1>7, <1>8, <1>9 DEF Written

----------------------------------------------------------------------------
(* Packing.                                                                 *)

\* No stage before writing has anything of a file.
LEMMA Unwritten ==
  ASSUME [ImportsNext]_allvars, Pipeline
  PROVE  \/ UNCHANGED <<dest, disk, packed, self>> /\ stage \notin Writing /\ stage' \notin Writing
         \/ UNCHANGED <<dest, disk, packed, self, stage, i, elf, sizes, top>>
         \/ Written /\ UNCHANGED self
         \/ VitaMakeFself
<1>1. CASE Generate \/ (Terminated /\ UNCHANGED allvars) \/ UNCHANGED allvars
      BY <1>1 DEF Generate, allvars, state, fself_vars, output_vars
<1>2. CASE Link
      BY <1>2 DEF Link, fself_vars, output_vars, Writing, Creating, Unpacked, Finished
<1>3. CASE VitaElfCreate /\ UNCHANGED fself_vars
      BY <1>3, CreateStages DEF fself_vars, output_vars
<1>4. CASE Create
      BY <1>3, <1>4 DEF Create
<1> QED
    BY <1>1, <1>2, <1>4 DEF ImportsNext

\* And every step of all the programs.
LEMMA NextDest == ASSUME Pipeline, DestOK, [ImportsNext]_allvars PROVE DestOK'
<1>1. CASE stage' \notin Writing
      BY <1>1 DEF DestOK
<1>2. CASE UNCHANGED <<dest, disk, packed, self, stage, i, elf, sizes, top>>
      BY <1>2 DEF DestOK, SegmentsOK, InfoPlaced, IsHeaders, program, EntrySegments, SegmentsOf, InSegment, EntryOffset, total_size
<1>3. CASE Written \/ VitaMakeFself
      BY <1>3, WrittenDest
<1> QED
    BY <1>1, <1>2, <1>3, Unwritten

\* Rounding down to a multiple.
LEMMA RoundedDown ==
  ASSUME NEW x \in Int, NEW a \in Nat \ {0}
  PROVE  /\ (x \div a) * a \in Int /\ ((x \div a) * a) % a = 0
         /\ (x \div a) * a <= x /\ x - (x \div a) * a < a
<1>1. PICK q \in Int : q = x \div a
      BY DivMod
<1>2. PICK r \in 0 .. a - 1 : r = x % a
      BY ModRange
<1>3. q * a \in Int /\ x = q * a + r
      BY <1>1, <1>2, DivMod
<1>4. q * a = x - r
      BY <1>3
<1>5. (x - (x % a)) % a = 0
      BY ModFloor
<1>6. (q * a) % a = 0
      BY <1>2, <1>4, <1>5
<1>7. q * a <= x /\ x - q * a < a
      BY <1>2, <1>3
<1> QED
    BY <1>1, <1>3, <1>6, <1>7

\* Where a segment is put is aligned, and not before where it may be.
LEMMA AlignedFacts ==
  ASSUME NEW offset \in Nat, NEW align \in Nat
  PROVE  /\ Aligned(offset, align) \in Nat
         /\ align # 0 => Aligned(offset, align) >= offset /\ Aligned(offset, align) % align = 0
<1>1. CASE align = 0
      BY <1>1 DEF Aligned
<1>2. CASE align # 0
  <2>1. PICK x \in Int : x = offset + align - 1
        OBVIOUS
  <2>2. align \in Nat \ {0} /\ Aligned(offset, align) = (x \div align) * align
        BY <1>2, <2>1 DEF Aligned
  <2>3. PICK y \in Int : y = (x \div align) * align
        BY <2>2, RoundedDown
  <2>4. y % align = 0 /\ x - y < align
        BY <2>2, <2>3, RoundedDown
  <2>5. y >= offset
        BY <2>1, <2>4
  <2> QED
      BY <2>2, <2>3, <2>4, <2>5
<1> QED
    BY <1>1, <1>2

\* The stages with a packed file that is not in place yet.
Packing == {"pack_segments", "remove", "rename", "fclose"}
HasAlign == \A n \in 1 .. Len(dest.segments) : dest.segments[n].align # 0
PackedEnd(n) == packed.offsets[n] + dest.segments[n].filesz
\* The segments packed so far are aligned and behind one another and the headers; this is
\* what makes PackedLoads inductive.
PackOK ==
  /\ DOMAIN packed = {"offsets", "next"} /\ IsList(packed.offsets)
  /\ stage \notin Packing \cup Finished => packed.offsets = <<>>
  /\ stage \in Writing => Len(packed.offsets) <= Len(dest.segments)
  /\ \A n \in 1 .. Len(packed.offsets) : packed.offsets[n] \in Nat
  /\ stage = "pack_segments" =>
       /\ packed.next \in Nat
       /\ HasAlign => packed.next >= HeaderSize /\ \A n \in 1 .. Len(packed.offsets) : PackedEnd(n) <= packed.next
  /\ HasAlign => \A n \in 1 .. Len(packed.offsets) :
       /\ packed.offsets[n] % Align(dest.segments[n].align) = 0
       /\ packed.offsets[n] >= HeaderSize
       /\ \A m \in 1 .. n - 1 : PackedEnd(m) <= packed.offsets[n]

\* Nothing is packed at first.
LEMMA InitPack == ASSUME ImportsInit PROVE PackOK
<1>1. stage = "link" /\ packed = [offsets |-> <<>>, next |-> 0]
      BY DEF ImportsInit, InitWith, OutputInit
<1>2. IsList(packed.offsets) /\ 1 .. Len(packed.offsets) = {}
      BY <1>1, EmptyList
<1> QED
    BY <1>1, <1>2 DEF PackOK, Writing, Creating, Unpacked, Finished

\* A segment goes behind all that were packed.
LEMMA PackSegmentOK ==
  ASSUME Pipeline, DestOK, DiskInv, PackOK, PackSegment
  PROVE  PackOK'
<1>1. stage = "pack_segments" /\ stage' = "pack_segments" /\ i < Len(dest.segments) /\ i = Len(packed.offsets) /\ dest' = dest
      BY DEF PackSegment, Again, DiskInv
<1>2. SegmentsOK
      BY <1>1 DEF DestOK, Writing, Unpacked
<1>3. IsList(packed.offsets) /\ Len(packed.offsets) \in Nat /\ Len(dest.segments) \in Nat
      BY <1>2, ListFacts DEF PackOK, SegmentsOK
<1>4. PICK k \in Nat : k = Len(packed.offsets)
      BY <1>3
<1>5. k + 1 \in 1 .. Len(dest.segments) /\ i = k
      BY <1>1, <1>3, <1>4
<1>6. PICK size, align \in Nat : size = dest.segments[k + 1].filesz /\ align = dest.segments[k + 1].align
      BY <1>2, <1>5 DEF SegmentsOK, SegmentOK
<1>7. PICK next \in Nat : next = packed.next
      BY <1>1 DEF PackOK
<1>8. Align(align) \in Nat /\ (align # 0 => Align(align) # 0)
      BY DEF Align
<1>9. PICK offset \in Nat : offset = Aligned(next, Align(align)) /\ (align # 0 => offset >= next /\ offset % Align(align) = 0)
      BY <1>8, AlignedFacts
<1>10. packed' = [offsets |-> Append(packed.offsets, offset), next |-> offset + size]
       BY <1>5, <1>6, <1>7, <1>9 DEF PackSegment, Behind
<1> DEFINE offsets == Append(packed.offsets, offset)
<1>11. IsList(offsets) /\ Len(offsets) = k + 1 /\ (\A n \in 1 .. k : offsets[n] = packed.offsets[n]) /\ offsets[k + 1] = offset
       BY <1>3, <1>4, ListAppend
<1> HIDE DEF offsets
<1>12. packed'.offsets = offsets /\ packed'.next = offset + size /\ DOMAIN packed' = {"offsets", "next"}
       BY <1>10 DEF offsets
<1>13. offset + size \in Nat /\ HeaderSize' = HeaderSize /\ HasAlign' = HasAlign /\ k + 1 <= Len(dest.segments)
       BY <1>1, <1>3, <1>5 DEF HeaderSize, HasAlign
<1>14. \A n \in 1 .. k + 1 : offsets[n] \in Nat
       BY <1>4, <1>11 DEF PackOK
<1>15. PICK h \in Nat : h = HeaderSize
       BY <1>3 DEF HeaderSize, EHDR, PHDR
<1>16. ASSUME HasAlign
       PROVE  /\ offset + size >= h
              /\ \A n \in 1 .. k + 1 :
                   /\ offsets[n] + dest.segments[n].filesz <= offset + size
                   /\ offsets[n] % Align(dest.segments[n].align) = 0
                   /\ offsets[n] >= h
                   /\ \A m \in 1 .. n - 1 : offsets[m] + dest.segments[m].filesz <= offsets[n]
  <2>1. align # 0 /\ offset >= next /\ offset % Align(align) = 0
        BY <1>5, <1>6, <1>9, <1>16 DEF HasAlign
  <2>2. next >= h /\ \A n \in 1 .. k : packed.offsets[n] + dest.segments[n].filesz <= next
        BY <1>1, <1>4, <1>7, <1>15, <1>16 DEF PackOK, PackedEnd
  <2>3. \A n \in 1 .. k : /\ packed.offsets[n] % Align(dest.segments[n].align) = 0
                          /\ packed.offsets[n] >= h
                          /\ \A m \in 1 .. n - 1 : packed.offsets[m] + dest.segments[m].filesz <= packed.offsets[n]
        BY <1>4, <1>15, <1>16 DEF PackOK, PackedEnd
  <2>4. ASSUME NEW n \in 1 .. k
        PROVE  /\ offsets[n] + dest.segments[n].filesz <= offset
               /\ offsets[n] % Align(dest.segments[n].align) = 0
               /\ offsets[n] >= h
               /\ \A m \in 1 .. n - 1 : offsets[m] + dest.segments[m].filesz <= offsets[n]
    <3>1. packed.offsets[n] \in Nat /\ dest.segments[n].filesz \in Nat
      <4>1. n \in 1 .. Len(dest.segments) /\ n \in 1 .. Len(packed.offsets)
            BY <1>3, <1>4, <1>5
      <4> QED
          BY <4>1, <1>2 DEF SegmentsOK, SegmentOK, PackOK
    <3>2. PICK e \in Nat : e = packed.offsets[n] + dest.segments[n].filesz
          BY <3>1
    <3>3. e <= offset
          BY <2>1, <2>2, <3>2
    <3>4. \A m \in 1 .. n - 1 : m \in 1 .. k /\ offsets[m] = packed.offsets[m]
          BY <1>11
    <3> QED
        BY <1>11, <2>3, <3>2, <3>3, <3>4
  <2>5. /\ offsets[k + 1] + dest.segments[k + 1].filesz <= offset + size
        /\ offsets[k + 1] % Align(dest.segments[k + 1].align) = 0
        /\ offsets[k + 1] >= h
        BY <1>6, <1>11, <2>1, <2>2
  <2>6. \A m \in 1 .. k : offsets[m] + dest.segments[m].filesz <= offsets[k + 1]
        BY <1>11, <2>4
  <2>7. \A n \in 1 .. k : offsets[n] + dest.segments[n].filesz <= offset + size
    <3>1. ASSUME NEW n \in 1 .. k PROVE offsets[n] + dest.segments[n].filesz <= offset + size
      <4>1. offsets[n] \in Nat /\ dest.segments[n].filesz \in Nat
        <5>1. n \in 1 .. Len(dest.segments) /\ n \in 1 .. k + 1
              BY <1>3, <1>5
        <5> QED
            BY <5>1, <1>2, <1>14 DEF SegmentsOK, SegmentOK
      <4>2. PICK e \in Nat : e = offsets[n] + dest.segments[n].filesz
            BY <4>1
      <4>3. e <= offset
            BY <2>4, <4>2
      <4> QED
          BY <4>2, <4>3
    <3> QED
        BY <3>1
  <2>8. offset + size >= h
        BY <2>1, <2>2
  <2>9. ASSUME NEW n \in 1 .. k + 1
        PROVE  /\ offsets[n] + dest.segments[n].filesz <= offset + size
               /\ offsets[n] % Align(dest.segments[n].align) = 0
               /\ offsets[n] >= h
               /\ \A m \in 1 .. n - 1 : offsets[m] + dest.segments[m].filesz <= offsets[n]
    <3>1. CASE n \in 1 .. k
          BY <2>4, <2>7, <3>1
    <3>2. CASE n = k + 1
      <4>1. 1 .. n - 1 = 1 .. k
            BY <3>2
      <4> QED
          BY <2>5, <2>6, <3>2, <4>1
    <3> QED
        BY <3>1, <3>2
  <2> QED
      BY <2>8, <2>9
<1>17. HasAlign' => HasAlign
       BY <1>13
<1> QED
    BY <1>1, <1>11, <1>12, <1>13, <1>14, <1>15, <1>16, <1>17 DEF PackOK, PackedEnd, Packing

\* What is packed stays when the headers do.
LEMMA KeptPack ==
  ASSUME PackOK, UNCHANGED <<dest, packed>>, stage' = "pack_segments" => stage = "pack_segments",
         stage' \notin Packing \cup Finished => stage \notin Packing \cup Finished,
         stage' \in Writing => stage \in Writing
  PROVE  PackOK'
BY DEF PackOK, HasAlign, PackedEnd, HeaderSize

\* Every step of all the programs keeps it.
LEMMA NextPack ==
  ASSUME Pipeline, DestOK, DestOK', DiskInv, PackOK, [ImportsNext]_allvars
  PROVE  PackOK'
<1> USE DEF Writing, Creating, Unpacked, Finished, Packing
<1>1. CASE UNCHANGED <<dest, disk, packed, self>> /\ stage \notin Writing /\ stage' \notin Writing
      BY <1>1, KeptPack
<1>2. CASE UNCHANGED <<dest, disk, packed, self, stage, i, elf, sizes, top>>
      BY <1>2, KeptPack
<1> USE DEF To, Again
<1>3. CASE VitaMakeFself
  <2>1. UNCHANGED <<dest, packed>> /\ stage \in Finished
    <3>1. ReadInput \/ ReadLost \/ WriteHeaders \/ WriteSegment \/ WriteHeader
          BY <1>3 DEF VitaMakeFself
    <3> QED
        BY <3>1 DEF ReadInput, ReadLost, WriteHeaders, WriteSegment, WriteHeader, output_vars
  <2>2. stage' \in Finished
    <3>1. CASE ReadInput
          BY <3>1 DEF ReadInput, Error
    <3>2. CASE WriteHeaders
          BY <3>2 DEF WriteHeaders, Error
    <3>3. CASE WriteSegment
      <4>1. Again \/ Error
        <5> HIDE DEF Again
        <5> QED
            BY <3>3, Zenon DEF WriteSegment
      <4> QED
          BY <2>1, <4>1 DEF Error
    <3>4. CASE WriteHeader
          BY <3>4 DEF WriteHeader, Error
    <3>5. CASE ReadLost
          BY <3>5 DEF ReadLost
    <3> QED
        BY <1>3, <3>1, <3>2, <3>3, <3>4, <3>5 DEF VitaMakeFself
  <2> QED
      BY <2>1, <2>2, KeptPack
<1>4. CASE Written
  <2>1. CASE PackSegment
        BY <2>1, PackSegmentOK
  <2>2. CASE vita_elf_packing
    <3>1. stage = "pack" /\ stage' = "pack_segments" /\ dest' = dest /\ packed' = [offsets |-> <<>>, next |-> HeaderSize]
          BY <2>2 DEF vita_elf_packing
    <3>2. IsList(<<>>) /\ Len(<<>>) = 0 /\ 1 .. 0 = {}
          BY EmptyList
    <3>3. Len(dest.segments) \in Nat
          BY <3>1, ListFacts DEF DestOK, SegmentsOK
    <3>4. HeaderSize \in Nat /\ HeaderSize' = HeaderSize
          BY <3>1, <3>3 DEF HeaderSize, EHDR, PHDR
    <3>5. packed'.offsets = <<>> /\ packed'.next = HeaderSize /\ DOMAIN packed' = {"offsets", "next"}
          BY <3>1
    <3>6. 1 .. Len(packed'.offsets) = {} /\ Len(packed'.offsets) = 0 /\ IsList(packed'.offsets)
          BY <3>2, <3>5
    <3>7. HeaderSize \in Int /\ HeaderSize >= HeaderSize /\ Len(dest.segments) >= 0
          BY <3>3, <3>4
    <3> QED
        BY <3>1, <3>4, <3>5, <3>6, <3>7 DEF PackOK
  <2>3. CASE ~ PackSegment /\ ~ vita_elf_packing
    <3>1. UNCHANGED packed /\ (stage' = "pack_segments" => stage = "pack_segments")
          /\ (stage' \notin Packing \cup Finished => stage \notin Packing \cup Finished \/ stage' \notin Writing)
      <4>1. CASE elf_utils_copy_to_file \/ sce_elf_write_module_info \/ WriteSection
            BY <4>1 DEF elf_utils_copy_to_file, sce_elf_write_module_info, WriteSection
      <4>2. CASE AddRelaSection \/ sce_elf_write_rela_sections \/ sce_elf_rewrite_stubs \/ elf_update
            BY <4>2 DEF AddRelaSection, sce_elf_write_rela_sections, sce_elf_rewrite_stubs, elf_update
      <4>3. CASE PackHeaders \/ PackingFails \/ remove \/ rename \/ fclose
            BY <4>3 DEF PackHeaders, PackingFails, remove, rename, fclose, output_vars
      <4> QED
          BY <1>4, <2>3, <4>1, <4>2, <4>3 DEF Written
    <3>2. CASE stage \in Packing \cup Finished \cup {"pack", "update"}
      <4>1. /\ stage' \in Packing \cup Finished \cup {"pack", "failure"} /\ UNCHANGED dest
            /\ stage' = "failure" => stage = "update"
            /\ stage' \in {"pack", "failure"} => stage = "update"
        <5>1. CASE elf_update
              BY <5>1 DEF elf_update
        <5>2. CASE PackHeaders \/ PackingFails
              BY <5>2 DEF PackHeaders, PackingFails, output_vars
        <5>3. CASE remove \/ rename \/ fclose
              BY <5>3 DEF remove, rename, fclose
        <5>4. ~ elf_utils_copy_to_file /\ ~ sce_elf_write_module_info /\ ~ WriteSection /\ ~ AddRelaSection
              /\ ~ sce_elf_write_rela_sections /\ ~ sce_elf_rewrite_stubs
              BY <3>2 DEF elf_utils_copy_to_file, sce_elf_write_module_info, WriteSection, AddRelaSection,
                          sce_elf_write_rela_sections, sce_elf_rewrite_stubs
        <5> QED
            BY <1>4, <2>3, <5>1, <5>2, <5>3, <5>4 DEF Written
      <4> QED
          BY <3>1, <3>2, <4>1, KeptPack
    <3>3. CASE stage \notin Packing \cup Finished \cup {"pack", "update"}
      <4>1. stage' \notin Packing \cup Finished
        <5>1. ~ elf_update /\ ~ PackHeaders /\ ~ PackingFails /\ ~ remove /\ ~ rename /\ ~ fclose
              BY <3>3 DEF elf_update, PackHeaders, PackingFails, remove, rename, fclose
        <5>2. CASE elf_utils_copy_to_file \/ sce_elf_write_module_info \/ WriteSection
              BY <5>2 DEF elf_utils_copy_to_file, sce_elf_write_module_info, WriteSection
        <5>3. CASE AddRelaSection \/ sce_elf_write_rela_sections \/ sce_elf_rewrite_stubs
              BY <5>3 DEF AddRelaSection, sce_elf_write_rela_sections, sce_elf_rewrite_stubs
        <5> QED
            BY <1>4, <2>3, <5>1, <5>2, <5>3 DEF Written
      <4>2. packed.offsets = <<>> /\ packed' = packed
            BY <3>1, <3>3 DEF PackOK
      <4>3. 1 .. Len(packed.offsets) = {} /\ Len(packed.offsets) = 0
            BY <4>2
      <4>4. stage' \in Writing => Len(dest'.segments) \in Nat
            BY ListFacts DEF DestOK, SegmentsOK
      <4> HIDE DEF Writing
      <4>5. stage' \in Writing => Len(packed'.offsets) <= Len(dest'.segments)
            BY <4>2, <4>3, <4>4
      <4> QED
          BY <4>1, <4>2, <4>3, <4>5 DEF PackOK
    <3> QED
        BY <3>2, <3>3
  <2> QED
      BY <2>1, <2>2, <2>3
<1> QED
    BY <1>1, <1>2, <1>3, <1>4, Unwritten

\* No two of the segments are packed into the same bytes.
LEMMA PackLoads ==
  ASSUME DestOK, DiskInv, PackOK
  PROVE  PackedLoads
<1> SUFFICES ASSUME "packed" \in {disk["velf"], disk["tmp"]}, \A n \in DOMAIN dest.segments : dest.segments[n].align # 0,
                    NEW n \in DOMAIN dest.segments
             PROVE  /\ packed.offsets[n] % Align(dest.segments[n].align) = 0
                    /\ ~ Overwritten(<<packed.offsets[n], packed.offsets[n] + dest.segments[n].filesz>>, <<0, HeaderSize>>)
                    /\ \A m \in DOMAIN dest.segments \ {n} :
                         ~ Overwritten(<<packed.offsets[n], packed.offsets[n] + dest.segments[n].filesz>>,
                                       <<packed.offsets[m], packed.offsets[m] + dest.segments[m].filesz>>)
    BY DEF PackedLoads
<1>1. stage \in Finished /\ Len(packed.offsets) = Len(dest.segments)
      BY DEF DiskInv
<1>2. SegmentsOK
      BY <1>1 DEF DestOK, Writing
<1>3. DOMAIN dest.segments = 1 .. Len(dest.segments) /\ Len(dest.segments) \in Nat
      BY <1>2, ListFacts DEF SegmentsOK
<1>4. HasAlign
      BY <1>3 DEF HasAlign
<1>5. \A k \in DOMAIN dest.segments : packed.offsets[k] \in Nat /\ dest.segments[k].filesz \in Nat
      BY <1>1, <1>2, <1>3 DEF PackOK, SegmentsOK, SegmentOK
<1>6. \A k \in DOMAIN dest.segments :
        /\ packed.offsets[k] % Align(dest.segments[k].align) = 0
        /\ packed.offsets[k] >= HeaderSize
        /\ \A m \in 1 .. k - 1 : packed.offsets[m] + dest.segments[m].filesz <= packed.offsets[k]
      BY <1>1, <1>3, <1>4 DEF PackOK, PackedEnd
<1>7. HeaderSize \in Nat
      BY <1>3 DEF HeaderSize, EHDR, PHDR
<1>8. \A a, b, c, d \in Nat : b <= c \/ d <= a => ~ Overwritten(<<a, b>>, <<c, d>>)
      BY DEF Overwritten
<1>9. ~ Overwritten(<<packed.offsets[n], packed.offsets[n] + dest.segments[n].filesz>>, <<0, HeaderSize>>)
      BY <1>5, <1>6, <1>7, <1>8
<1>10. ASSUME NEW m \in DOMAIN dest.segments \ {n}
       PROVE  ~ Overwritten(<<packed.offsets[n], packed.offsets[n] + dest.segments[n].filesz>>,
                            <<packed.offsets[m], packed.offsets[m] + dest.segments[m].filesz>>)
  <2>1. PICK b, d \in Nat : b = packed.offsets[n] + dest.segments[n].filesz /\ d = packed.offsets[m] + dest.segments[m].filesz
        BY <1>5
  <2>2. n \in 1 .. m - 1 \/ m \in 1 .. n - 1
        BY <1>3
  <2>3. b <= packed.offsets[m] \/ d <= packed.offsets[n]
        BY <1>6, <2>1, <2>2
  <2> QED
      BY <1>5, <1>8, <2>1, <2>3
<1> QED
    BY <1>6, <1>9, <1>10

----------------------------------------------------------------------------
(* The SELF.                                                                *)

InfoEnd(n) == self.infos[n].offset + self.infos[n].length
NidOK == self.nid = InputOffset(dest.entry.segment + 1) + dest.entry.offset
\* The segments put into the SELF so far are behind one another and the header area.
InfosOK ==
  /\ IsList(self.infos) /\ Len(self.infos) <= phnum /\ self.at \in Nat /\ self.at >= HEADER_LEN
  /\ stage = "segments" => i = Len(self.infos) /\ (i < phnum => self.at % 16 = 0)
  /\ \A n \in 1 .. Len(self.infos) :
       /\ self.infos[n].offset \in Nat /\ self.infos[n].length \in Nat
       /\ self.infos[n].offset % 16 = 0 /\ self.infos[n].offset >= HEADER_LEN
       /\ InfoEnd(n) <= self.at
       /\ ~ Selected("compressed") => self.infos[n].length - dest.segments[n].filesz \in 0 .. 3
       /\ \A m \in 1 .. n - 1 : InfoEnd(m) <= self.infos[n].offset
\* What makes SelfLoads inductive: that, and the NID is where e_entry says.
SelfOK ==
  /\ DOMAIN self = {"nid", "at", "infos"}
  /\ disk["self"] = "self" => stage = "fself"
  /\ stage \notin {"segments", "error", "fself"} => self.infos = <<>>
  /\ stage \in {"headers", "segments"} \/ disk["self"] = "self" => NidOK
  /\ stage = "segments" \/ disk["self"] = "self" => InfosOK
  /\ disk["self"] = "self" => Len(self.infos) = phnum

\* There is no SELF at first.
LEMMA InitSelf == ASSUME ImportsInit PROVE SelfOK
BY DEF ImportsInit, InitWith, FselfInit, OutputInit, SelfOK

\* Nor while the ELF is made.
LEMMA KeptSelf ==
  ASSUME SelfOK, UNCHANGED self, disk'["self"] = disk["self"], stage \notin {"headers", "segments", "error", "fself"},
         stage' \notin {"headers", "segments", "error", "fself"}
  PROVE  SelfOK'
BY DEF SelfOK

\* Making a SELF leaves what it is made from as it is.
LEMMA SameInput ==
  ASSUME UNCHANGED <<dest, packed, elf>>, disk'["velf"] = disk["velf"]
  PROVE  /\ phnum' = phnum /\ HEADER_LEN' = HEADER_LEN /\ Selected("compressed")' = Selected("compressed")
         /\ InputOffset(dest.entry.segment + 1)' = InputOffset(dest.entry.segment + 1)
BY DEF phnum, HEADER_LEN, Selected, InputOffset, program

\* Where the next segment goes is aligned.
LEMMA BehindFacts ==
  ASSUME NEW offset \in Nat, NEW length \in Nat
  PROVE  BehindInfo(offset, length) \in Nat /\ BehindInfo(offset, length) >= offset + length /\ BehindInfo(offset, length) % 16 = 0
<1>1. PICK x \in Nat : x = offset + length
      OBVIOUS
<1>2. BehindInfo(offset, length) = ((x + 15) \div 16) * 16
      BY <1>1 DEF BehindInfo
<1> QED
    BY <1>1, <1>2

\* A segment that is not compressed has its length.
LEMMA LengthFacts ==
  ASSUME NEW filesz \in Nat, NEW length \in Lengths(filesz)
  PROVE  length \in Nat /\ (~ Selected("compressed") => length = filesz)
BY DEF Lengths

\* A segment goes behind those that are written.
LEMMA WriteSegmentSelf ==
  ASSUME Pipeline, DestOK, SelfOK, WriteSegment, UNCHANGED elf
  PROVE  SelfOK'
<1>1. stage = "segments" /\ i < phnum /\ UNCHANGED <<dest, disk, packed>>
      BY DEF WriteSegment, output_vars
<1>2. CASE Error
      BY <1>1, <1>2 DEF Error, To, SelfOK
<1>3. CASE ~ Error
  <2>1. SegmentsOK /\ InfosOK /\ NidOK
        BY <1>1 DEF DestOK, Writing, Finished, SelfOK
  <2>2. IsList(self.infos) /\ Len(self.infos) \in Nat /\ phnum \in Nat
        BY <2>1, ListFacts DEF InfosOK, SegmentsOK, phnum
  <2>3. PICK k \in Nat : k = Len(self.infos)
        BY <2>2
  <2>4. i = k /\ k + 1 \in 1 .. phnum
        BY <1>1, <2>1, <2>2, <2>3 DEF InfosOK
  <2>5. PICK filesz \in Nat : filesz = dest.segments[k + 1].filesz
        BY <2>1, <2>4 DEF SegmentsOK, SegmentOK, phnum
  <2>6. PICK length \in Lengths(filesz) :
          /\ self' = [self EXCEPT !.infos = Append(@, [offset |-> self.at, length |-> AlignUp(length)]),
                                  !.at = IF i + 1 = phnum THEN @ + AlignUp(length) ELSE BehindInfo(@, AlignUp(length))]
          /\ Again
        BY <1>3, <2>4, <2>5 DEF WriteSegment
  <2>7. length \in Nat /\ (~ Selected("compressed") => length = filesz)
        BY <2>5, <2>6, LengthFacts
  <2>8. PICK padded \in Nat : padded = AlignUp(length) /\ padded - length \in 0 .. 3
        BY <2>7, AlignUpFacts
  <2>9. PICK at \in Nat : at = self.at /\ at >= HEADER_LEN /\ at % 16 = 0
        BY <1>1, <2>1, <2>4 DEF InfosOK
  <2>10. PICK next \in Nat : /\ next = IF k + 1 = phnum THEN at + padded ELSE BehindInfo(at, padded)
                             /\ next >= at + padded /\ (k + 1 < phnum => next % 16 = 0)
    <3>1. CASE k + 1 = phnum
          BY <3>1
    <3>2. CASE k + 1 # phnum
          BY <3>2, BehindFacts
    <3> QED
        BY <3>1, <3>2
  <2> DEFINE info == [offset |-> at, length |-> padded]
             infos == Append(self.infos, info)
  <2>11. self' = [self EXCEPT !.infos = infos, !.at = next] /\ stage' = "segments" /\ i' = k + 1
         BY <1>1, <2>4, <2>6, <2>8, <2>9, <2>10 DEF Again
  <2>12. info.offset = at /\ info.length = padded
         OBVIOUS
  <2> HIDE DEF info
  <2>13. IsList(infos) /\ Len(infos) = k + 1 /\ (\A n \in 1 .. k : infos[n] = self.infos[n]) /\ infos[k + 1] = info
         BY <2>2, <2>3, ListAppend
  <2> HIDE DEF infos
  <2>14. self'.infos = infos /\ self'.at = next /\ self'.nid = self.nid /\ DOMAIN self' = {"nid", "at", "infos"}
         BY <2>11 DEF SelfOK
  <2>15. PICK h \in Nat : h = HEADER_LEN
         BY DEF HEADER_LEN
  <2>16. phnum' = phnum /\ HEADER_LEN' = h /\ Selected("compressed")' = Selected("compressed")
         /\ InputOffset(dest.entry.segment + 1)' = InputOffset(dest.entry.segment + 1)
         BY <1>1, <2>15, SameInput
  <2>17. at >= h /\ next >= h
         BY <2>9, <2>10, <2>15
  <2>18. ASSUME NEW n \in 1 .. k
         PROVE  /\ infos[n].offset \in Nat /\ infos[n].length \in Nat
                /\ infos[n].offset % 16 = 0 /\ infos[n].offset >= h
                /\ infos[n].offset + infos[n].length <= at
                /\ ~ Selected("compressed") => infos[n].length - dest.segments[n].filesz \in 0 .. 3
                /\ \A m \in 1 .. n - 1 : infos[m].offset + infos[m].length <= infos[n].offset
    <3>1. \A m \in 1 .. n - 1 : m \in 1 .. k
          OBVIOUS
    <3> QED
        BY <2>1, <2>3, <2>9, <2>13, <2>15, <3>1 DEF InfosOK, InfoEnd
  <2>19. \A m \in 1 .. k : infos[m].offset + infos[m].length <= at /\ infos[m].offset + infos[m].length \in Nat
         BY <2>18
  <2>20. ASSUME NEW n \in 1 .. k + 1
         PROVE  /\ infos[n].offset \in Nat /\ infos[n].length \in Nat
                /\ infos[n].offset % 16 = 0 /\ infos[n].offset >= h
                /\ infos[n].offset + infos[n].length <= next
                /\ ~ Selected("compressed") => infos[n].length - dest.segments[n].filesz \in 0 .. 3
                /\ \A m \in 1 .. n - 1 : infos[m].offset + infos[m].length <= infos[n].offset
    <3>1. CASE n \in 1 .. k
      <4>1. PICK e \in Nat : e = infos[n].offset + infos[n].length /\ e <= at
            BY <3>1, <2>19
      <4>2. e <= next
            BY <2>10, <4>1
      <4> QED
          BY <3>1, <2>18, <4>1, <4>2
    <3>2. CASE n = k + 1
      <4>1. infos[n].offset = at /\ infos[n].length = padded
            BY <3>2, <2>12, <2>13
      <4>2. ~ Selected("compressed") => padded - dest.segments[n].filesz \in 0 .. 3
            BY <3>2, <2>5, <2>7, <2>8
      <4>3. 1 .. n - 1 = 1 .. k
            BY <3>2
      <4> QED
          BY <2>9, <2>10, <2>17, <2>19, <4>1, <4>2, <4>3
    <3> QED
        BY <3>1, <3>2
  <2>21. InfosOK'
    <3>1. k + 1 <= phnum
          BY <2>2, <2>4
    <3> QED
        BY <1>1, <2>10, <2>11, <2>13, <2>14, <2>16, <2>17, <2>20, <3>1 DEF InfosOK, InfoEnd
  <2>22. NidOK'
         BY <1>1, <2>1, <2>14, <2>16 DEF NidOK
  <2> QED
      BY <1>1, <2>11, <2>14, <2>21, <2>22 DEF SelfOK
<1> QED
    BY <1>2, <1>3

\* Every step of all the programs keeps it.
LEMMA NextSelf ==
  ASSUME Pipeline, DestOK, DiskInv, PackOK, SelfOK, [ImportsNext]_allvars
  PROVE  SelfOK'
<1>1. CASE UNCHANGED <<dest, disk, packed, self>> /\ stage \notin Writing /\ stage' \notin Writing
      BY <1>1, KeptSelf DEF Writing, Finished
<1>2. CASE UNCHANGED <<dest, disk, packed, self, stage, i, elf, sizes, top>>
      BY <1>2 DEF SelfOK, NidOK, InfosOK, InfoEnd, InputOffset, phnum, HEADER_LEN, Selected, program
<1>3. CASE Written /\ UNCHANGED self
  <2>1. stage \notin {"headers", "segments", "error", "fself"} /\ stage' \notin {"headers", "segments", "error", "fself"}
        /\ disk'["self"] = disk["self"]
    <3> USE DEF To, Again
    <3>0. DOMAIN disk = {"velf", "tmp", "self"}
          BY DEF DiskInv
    <3>1. CASE elf_utils_copy_to_file \/ sce_elf_write_module_info \/ WriteSection
          BY <3>0, <3>1 DEF elf_utils_copy_to_file, sce_elf_write_module_info, WriteSection
    <3>2. CASE AddRelaSection \/ sce_elf_write_rela_sections \/ sce_elf_rewrite_stubs \/ elf_update
          BY <3>0, <3>2 DEF AddRelaSection, sce_elf_write_rela_sections, sce_elf_rewrite_stubs, elf_update
    <3>3. CASE vita_elf_packing \/ PackSegment \/ PackHeaders \/ PackingFails
          BY <3>0, <3>3 DEF vita_elf_packing, PackSegment, PackHeaders, PackingFails, output_vars, Temporary
    <3>4. CASE remove \/ rename \/ fclose
          BY <3>0, <3>4 DEF remove, rename, fclose
    <3> QED
        BY <1>3, <3>1, <3>2, <3>3, <3>4 DEF Written
  <2> QED
      BY <1>3, <2>1, KeptSelf
<1>4. CASE VitaMakeFself
  <2>1. UNCHANGED elf
        BY <1>4 DEF VitaMakeFself
  <2>2. DOMAIN disk = {"velf", "tmp", "self"}
        BY DEF DiskInv
  <2>3. CASE ReadInput
    <3>1. stage = "done" /\ UNCHANGED <<dest, disk, packed>>
          BY <2>3 DEF ReadInput, output_vars
    <3>2. CASE Error
          BY <3>1, <3>2 DEF Error, To, SelfOK
    <3>3. CASE ~ Error
      <4>1. self' = [self EXCEPT !.nid = InputOffset(dest.entry.segment + 1) + dest.entry.offset] /\ stage' = "headers"
            BY <2>3, <3>3 DEF ReadInput, To
      <4>2. self'.nid = InputOffset(dest.entry.segment + 1) + dest.entry.offset /\ self'.infos = <<>>
            /\ DOMAIN self' = {"nid", "at", "infos"}
            BY <3>1, <4>1 DEF SelfOK
      <4>3. NidOK'
            BY <2>1, <3>1, <4>2, SameInput DEF NidOK
      <4> QED
          BY <3>1, <4>1, <4>2, <4>3 DEF SelfOK
    <3> QED
        BY <3>2, <3>3
  <2>4. CASE WriteHeaders
    <3>1. stage = "headers" /\ UNCHANGED <<dest, packed>> /\ disk'["velf"] = disk["velf"] /\ (disk'["self"] = "self" => disk["self"] = "self")
          BY <2>2, <2>4 DEF WriteHeaders
    <3>2. CASE Error
          BY <3>1, <3>2 DEF Error, To, SelfOK
    <3>3. CASE ~ Error
      <4>1. self' = [self EXCEPT !.at = HEADER_LEN] /\ stage' = "segments" /\ i' = 0
            BY <2>4, <3>3 DEF WriteHeaders, To
      <4>2. self'.nid = self.nid /\ self'.at = HEADER_LEN /\ self'.infos = <<>> /\ DOMAIN self' = {"nid", "at", "infos"}
            BY <3>1, <4>1 DEF SelfOK
      <4>3. NidOK' /\ HEADER_LEN' = HEADER_LEN /\ phnum' = phnum
            BY <2>1, <3>1, <4>2, SameInput DEF NidOK, SelfOK
      <4>4. HEADER_LEN \in Nat /\ HEADER_LEN % 16 = 0 /\ HEADER_LEN >= HEADER_LEN
            BY DEF HEADER_LEN
      <4>5. phnum \in Nat
            BY <3>1, ListFacts DEF DestOK, SegmentsOK, Writing, Finished, phnum
      <4>6. IsList(<<>>) /\ Len(<<>>) = 0 /\ 1 .. 0 = {}
            BY EmptyList
      <4>7. IsList(self'.infos) /\ Len(self'.infos) = 0 /\ 1 .. Len(self'.infos) = {} /\ 0 <= phnum
            BY <4>2, <4>5, <4>6
      <4>8. InfosOK'
            BY <4>1, <4>2, <4>3, <4>4, <4>7 DEF InfosOK
      <4> QED
          BY <3>1, <4>1, <4>2, <4>3, <4>8 DEF SelfOK
    <3> QED
        BY <3>2, <3>3
  <2>5. CASE WriteSegment
        BY <2>1, <2>5, WriteSegmentSelf
  <2>6. CASE WriteHeader
    <3>1. stage = "segments" /\ i = phnum /\ UNCHANGED <<dest, packed, self>> /\ disk'["velf"] = disk["velf"]
          BY <2>2, <2>6 DEF WriteHeader, Error
    <3>2. CASE stage' = "error"
      <4>1. UNCHANGED disk
            BY <2>6, <3>2 DEF WriteHeader, To
      <4> QED
          BY <3>1, <3>2, <4>1 DEF SelfOK
    <3>3. CASE stage' # "error"
      <4>1. stage' = "fself"
            BY <2>6, <3>3 DEF WriteHeader, Error, To
      <4>2. phnum' = phnum /\ HEADER_LEN' = HEADER_LEN /\ Selected("compressed")' = Selected("compressed") /\ NidOK'
            BY <2>1, <3>1, SameInput DEF NidOK, SelfOK
      <4>3. InfosOK /\ Len(self.infos) = phnum
            BY <3>1 DEF SelfOK, InfosOK
      <4>4. InfosOK'
            BY <3>1, <4>1, <4>2, <4>3 DEF InfosOK, InfoEnd
      <4> QED
          BY <3>1, <4>1, <4>2, <4>3, <4>4 DEF SelfOK
    <3> QED
        BY <3>2, <3>3
  <2>7. CASE ReadLost
    <3>1. stage = "done" /\ UNCHANGED self /\ stage' \in {"fself", "error", "killed"} /\ disk'["self"] \in {disk["self"], "lost", "partial"}
          BY <2>2, <2>7 DEF ReadLost, To
    <3>2. self.infos = <<>> /\ disk["self"] # "self"
          BY <3>1 DEF SelfOK
    <3> QED
        BY <3>1, <3>2 DEF SelfOK
  <2> QED
      BY <1>4, <2>3, <2>4, <2>5, <2>6, <2>7 DEF VitaMakeFself
<1> QED
    BY <1>1, <1>2, <1>3, <1>4, Unwritten

\* The tables in front of the segments follow one another and end in the header area.
LEMMA TableFacts ==
  ASSUME phnum \in 0 .. 5
  PROVE  /\ IsList(HeaderTables) /\ Len(HeaderTables) = 7
         /\ \A n \in 1 .. 7 : HeaderTables[n][1] \in Nat /\ HeaderTables[n][2] \in Nat /\ HeaderTables[n][2] <= HEADER_LEN
         /\ \A n \in 1 .. 7 : \A m \in 1 .. n - 1 : HeaderTables[m][2] <= HeaderTables[n][1]
<1> DEFINE a == section_info_offset
           b == sceversion_offset
           c == controlinfo_offset
           d == controlinfo_offset + SCE_CONTROLINFO
<1>1. elf_offset = 160 /\ phdr_offset = 224
      BY DEF elf_offset, phdr_offset, SCE_HEADER, SCE_APPINFO, EHDR
<1>2. a \in Nat /\ b \in Nat /\ c \in Nat /\ d \in Nat /\ 224 <= a /\ a <= b /\ b <= c /\ c <= d /\ d <= HEADER_LEN
  <2>1. PICK p \in 0 .. 5 : p = phnum
        OBVIOUS
  <2>2. a = 224 + 32 * p /\ b = 224 + 32 * p + 32 * p /\ c = 240 + 32 * p + 32 * p
        BY <1>1, <2>1 DEF section_info_offset, sceversion_offset, controlinfo_offset, PHDR, SEGMENT_INFO, SCE_VERSION
  <2>3. PICK size \in Nat, h \in Nat : size = SCE_CONTROLINFO /\ h = HEADER_LEN /\ 560 + size <= h
        BY DEF SCE_CONTROLINFO, HEADER_LEN
  <2>4. d = 240 + 32 * p + 32 * p + size
        BY <2>2, <2>3
  <2>5. 32 * p \in 0 .. 160
        BY <2>1
  <2> HIDE DEF a, b, c, d
  <2> QED
      BY <2>2, <2>3, <2>4, <2>5
<1>3. HeaderTables = <<<<0, 128>>, <<128, 160>>, <<160, 212>>, <<224, a>>, <<a, b>>, <<b, c>>, <<c, d>>>>
      BY <1>1 DEF HeaderTables, SCE_HEADER, EHDR
<1> HIDE DEF a, b, c, d
<1>4. HeaderTables \in Seq(Nat \X Nat) /\ Len(HeaderTables) = 7
      BY <1>2, <1>3
<1>5. /\ HeaderTables[1] = <<0, 128>> /\ HeaderTables[2] = <<128, 160>> /\ HeaderTables[3] = <<160, 212>>
      /\ HeaderTables[4] = <<224, a>> /\ HeaderTables[5] = <<a, b>> /\ HeaderTables[6] = <<b, c>> /\ HeaderTables[7] = <<c, d>>
      BY <1>3
<1>6. 212 <= HEADER_LEN /\ HEADER_LEN \in Nat
      BY DEF HEADER_LEN
<1>7. \A n \in 1 .. 7 : n = 1 \/ n = 2 \/ n = 3 \/ n = 4 \/ n = 5 \/ n = 6 \/ n = 7
      OBVIOUS
<1>8. \A n \in 1 .. 7 : HeaderTables[n][1] \in Nat /\ HeaderTables[n][2] \in Nat /\ HeaderTables[n][2] <= HEADER_LEN
      BY <1>2, <1>5, <1>6, <1>7
<1>9. \A n \in 1 .. 7 : \A m \in 1 .. n - 1 : HeaderTables[m][2] <= HeaderTables[n][1]
      BY <1>2, <1>5, <1>7
<1> QED
    BY <1>4, <1>8, <1>9 DEF IsList

\* The inductive invariant of the files.
HeldOK == Pipeline /\ DestOK /\ DiskInv /\ PackOK /\ SelfOK

\* What holds when the SELF is whole.
LEMMA WholeFacts ==
  ASSUME HeldOK, disk["self"] = "self"
  PROVE  /\ SegmentsOK /\ InfoPlaced /\ InfosOK /\ NidOK
         /\ phnum \in 1 .. 5 /\ Len(self.infos) = phnum /\ phnum = Len(program.segments) + 1
<1>1. SegmentsOK /\ InfoPlaced /\ InfosOK /\ NidOK /\ Len(self.infos) = phnum /\ stage = "fself"
      BY DEF HeldOK, DestOK, SelfOK, Writing, Finished
<1>2. Len(program.segments) \in 1 .. 4
      BY ProgramFacts DEF HeldOK, Pipeline
<1>3. phnum = Len(program.segments) + 1
      BY <1>1 DEF SegmentsOK, Short, phnum
<1>4. \A k \in 1 .. 4 : k + 1 \in 1 .. 5
      OBVIOUS
<1> QED
    BY <1>1, <1>2, <1>3, <1>4

\* The header tables and the segments of a SELF follow one another.
LEMMA SelfApart ==
  ASSUME HeldOK, disk["self"] = "self"
  PROVE  LET ranges == HeaderTables \o [n \in 1 .. phnum |-> <<self.infos[n].offset, self.infos[n].offset + self.infos[n].length>>]
         IN \A m, n \in DOMAIN ranges : m # n => ~ Overwritten(ranges[m], ranges[n])
<1> DEFINE infos == [n \in 1 .. phnum |-> <<self.infos[n].offset, self.infos[n].offset + self.infos[n].length>>]
           ranges == HeaderTables \o infos
<1>1. InfosOK /\ phnum \in 1 .. 5 /\ Len(self.infos) = phnum /\ phnum \in 0 .. 5 /\ phnum \in Nat
      BY WholeFacts
<1>2. infos = [n \in 1 .. phnum |-> infos[n]]
      OBVIOUS
<1>3. \A n \in 1 .. phnum : infos[n][1] = self.infos[n].offset /\ infos[n][2] = InfoEnd(n)
      BY DEF InfoEnd
<1> HIDE DEF infos
<1>4. IsList(infos) /\ Len(infos) = phnum
      BY <1>1, <1>2, FunctionList
<1>5. PICK h \in Nat : h = HEADER_LEN
      BY DEF HEADER_LEN
<1>6. \A n \in 1 .. phnum :
        /\ infos[n][1] \in Nat /\ infos[n][2] \in Nat /\ infos[n][1] >= h
        /\ \A m \in 1 .. n - 1 : infos[m][2] <= infos[n][1]
  <2>1. ASSUME NEW n \in 1 .. phnum
        PROVE  /\ infos[n][1] \in Nat /\ infos[n][2] \in Nat /\ infos[n][1] >= h
               /\ \A m \in 1 .. n - 1 : infos[m][2] <= infos[n][1]
    <3>1. n \in 1 .. Len(self.infos) /\ \A m \in 1 .. n - 1 : m \in 1 .. phnum
          BY <1>1
    <3>2. /\ self.infos[n].offset \in Nat /\ self.infos[n].length \in Nat /\ self.infos[n].offset >= HEADER_LEN
          /\ \A m \in 1 .. n - 1 : InfoEnd(m) <= self.infos[n].offset
          BY <1>1, <3>1 DEF InfosOK
    <3>3. InfoEnd(n) \in Nat
          BY <3>2 DEF InfoEnd
    <3> QED
        BY <1>3, <1>5, <3>1, <3>2, <3>3
  <2> QED
      BY <2>1
<1>7. /\ IsList(HeaderTables) /\ Len(HeaderTables) = 7
      /\ \A n \in 1 .. 7 : HeaderTables[n][1] \in Nat /\ HeaderTables[n][2] \in Nat /\ HeaderTables[n][2] <= h
      /\ \A n \in 1 .. 7 : \A m \in 1 .. n - 1 : HeaderTables[m][2] <= HeaderTables[n][1]
      BY <1>1, <1>5, TableFacts
<1>8. IsList(ranges) /\ Len(ranges) = 7 + phnum
      /\ \A n \in 1 .. 7 + phnum : ranges[n] = IF n <= 7 THEN HeaderTables[n] ELSE infos[n - 7]
  <2>1. IsList(ranges) /\ Len(ranges) = Len(HeaderTables) + Len(infos)
        /\ \A n \in 1 .. Len(HeaderTables) + Len(infos) :
             ranges[n] = IF n <= Len(HeaderTables) THEN HeaderTables[n] ELSE infos[n - Len(HeaderTables)]
        BY <1>4, <1>7, ListConcat
  <2> HIDE DEF ranges
  <2> QED
      BY <1>4, <1>7, <2>1
<1> HIDE DEF ranges
<1>9. DOMAIN ranges = 1 .. 7 + phnum
      BY <1>8, ListFacts
<1>10. ASSUME NEW m \in DOMAIN ranges, NEW n \in DOMAIN ranges, m < n
       PROVE  /\ ranges[m][1] \in Nat /\ ranges[m][2] \in Nat /\ ranges[n][1] \in Nat /\ ranges[n][2] \in Nat
              /\ ranges[m][2] <= ranges[n][1]
  <2>1. CASE n <= 7
    <3>1. m \in 1 .. 7 /\ n \in 1 .. 7 /\ m \in 1 .. n - 1
          BY <1>1, <1>9, <1>10, <2>1
    <3>2. ranges[m] = HeaderTables[m] /\ ranges[n] = HeaderTables[n]
          BY <1>8, <1>9, <2>1, <3>1
    <3> QED
        BY <1>7, <3>1, <3>2
  <2>2. CASE n > 7 /\ m <= 7
    <3>1. m \in 1 .. 7 /\ n - 7 \in 1 .. phnum /\ ~ n <= 7
          BY <1>1, <1>9, <2>2
    <3>2. ranges[m] = HeaderTables[m] /\ ranges[n] = infos[n - 7]
          BY <1>8, <1>9, <2>2, <3>1
    <3>3. HeaderTables[m][2] \in Nat /\ HeaderTables[m][2] <= h /\ infos[n - 7][1] \in Nat /\ infos[n - 7][1] >= h
          BY <1>6, <1>7, <3>1
    <3>4. \A a, b \in Nat : a <= h /\ b >= h => a <= b
          OBVIOUS
    <3> QED
        BY <1>6, <1>7, <3>1, <3>2, <3>3, <3>4
  <2>3. CASE m > 7
    <3>1. m - 7 \in 1 .. phnum /\ n - 7 \in 1 .. phnum /\ m - 7 \in 1 .. (n - 7) - 1 /\ ~ n <= 7 /\ ~ m <= 7
          BY <1>1, <1>9, <1>10, <2>3
    <3>2. ranges[m] = infos[m - 7] /\ ranges[n] = infos[n - 7]
          BY <1>8, <1>9, <3>1
    <3> QED
        BY <1>6, <3>1, <3>2
  <2> QED
      BY <1>1, <1>9, <2>1, <2>2, <2>3
<1>11. ASSUME NEW m \in DOMAIN ranges, NEW n \in DOMAIN ranges, m # n
       PROVE  ~ Overwritten(ranges[m], ranges[n])
  <2>1. m < n \/ n < m
        BY <1>1, <1>9, <1>11
  <2>2. CASE m < n
        BY <2>2, <1>10 DEF Overwritten
  <2>3. CASE n < m
        BY <2>3, <1>10 DEF Overwritten
  <2> QED
      BY <2>1, <2>2, <2>3
<1>12. \A m, n \in DOMAIN ranges : m # n => ~ Overwritten(ranges[m], ranges[n])
       BY <1>11
<1> QED
    BY <1>12 DEF ranges, infos

\* The NID is written into the module info.
LEMMA NidPlaced ==
  ASSUME HeldOK, disk["self"] = "self", Regular
  PROVE  \E n \in 1 .. phnum :
           LET at == self.nid - InputOffset(n)
           IN 0 <= at /\ at + 4 * INFO <= dest.segments[n].filesz /\ dest.segments[n].vaddr + at = Base
<1>1. SegmentsOK /\ InfoPlaced /\ NidOK /\ phnum = Len(program.segments) + 1 /\ Shape /\ stage = "fself"
      BY WholeFacts DEF HeldOK, Pipeline, SelfOK
<1>2. PICK g : g = First(EntrySegments)
      OBVIOUS
<1>3. g \in DOMAIN program.segments /\ g = segndx /\ program.file.segments[g].filesz = program.segments[g].memsz
      BY <1>1, <1>2, EntryFacts DEF Regular
<1>4. g \in 1 .. 4 /\ g \in 1 .. phnum
  <2>1. PICK k \in Nat : k = Len(program.segments) /\ k <= 4
    <3>1. Len(program.segments) \in 1 .. 4
          BY <1>1, ProgramFacts
    <3>2. \A b \in 1 .. 4 : b \in Nat /\ b <= 4
          OBVIOUS
    <3> QED
        BY <3>1, <3>2
  <2>2. g \in 1 .. k
        BY <1>1, <1>3, <2>1, ProgramFacts
  <2>3. phnum = k + 1
        BY <1>1, <2>1
  <2>4. \A x \in 1 .. k : x \in 1 .. 4 /\ x \in 1 .. k + 1
    <3>1. k \in Nat /\ k <= 4
          BY <2>1
    <3>2. \A b, x \in Nat : 1 <= x /\ x <= b /\ b <= 4 => x \in 1 .. 4 /\ x \in 1 .. b + 1
          OBVIOUS
    <3>3. \A x \in 1 .. k : x \in Nat /\ 1 <= x /\ x <= k
          BY <3>1
    <3> QED
        BY <3>1, <3>2, <3>3
  <2> QED
      BY <2>2, <2>3, <2>4
<1>5. PICK at \in Nat : at = EntryOffset
      BY <1>1, EntryFacts DEF InfoPlaced
<1>6. dest.entry = [segment |-> (g - 1) % 4, offset |-> at]
      /\ dest.segments[g].filesz = program.file.segments[g].filesz + (4 * total_size + at - program.segments[g].memsz)
      BY <1>1, <1>2, <1>5 DEF InfoPlaced
<1>7. dest.entry.segment + 1 = g /\ dest.entry.offset = at
  <2>1. \A k \in 1 .. 4 : ((k - 1) % 4) + 1 = k
        OBVIOUS
  <2> QED
      BY <1>4, <1>6, <2>1
<1>8. PICK o \in Int : o = InputOffset(g)
  <2>1. CASE disk["velf"] = "packed"
    <3>1. Len(packed.offsets) = phnum
          BY <2>1 DEF HeldOK, DiskInv, phnum
    <3>2. packed.offsets[g] \in Nat
          BY <1>4, <3>1 DEF HeldOK, PackOK
    <3> QED
        BY <2>1, <3>2 DEF InputOffset
  <2>2. CASE disk["velf"] # "packed"
        BY <1>1, <1>3, <2>2 DEF InputOffset, SegmentsOK
  <2> QED
      BY <2>1, <2>2
<1>9. self.nid = o + at
      BY <1>1, <1>7, <1>8 DEF NidOK
<1>10. PICK size \in Nat : size = total_size /\ size >= INFO
  <2>1. total_size \in Nat /\ total_size >= sizes["ModuleInfo"]
        BY <1>1, TotalSizeFacts
  <2>2. sizes["ModuleInfo"] >= INFO
        BY <1>1 DEF Shape, InfoCounted, Writing, Finished
  <2>3. sizes["ModuleInfo"] \in Nat
        BY <1>1 DEF Shape, Words, SectionNames
  <2> QED
      BY <2>1, <2>2, <2>3 DEF INFO
<1>11. PICK m, v \in Nat : m = program.segments[g].memsz /\ v = program.segments[g].vaddr
       BY <1>1, <1>3, ProgramFacts
<1>12. dest.segments[g].filesz = m + (4 * size + at - m) /\ dest.segments[g].vaddr = v
       BY <1>1, <1>3, <1>6, <1>10, <1>11 DEF SegmentsOK
<1>13. Base = v + at
       BY <1>2, <1>3, <1>5, <1>11 DEF Base, segment, start_offset, EntryOffset
<1>14. self.nid - InputOffset(g) = at
       BY <1>8, <1>9
<1>15. 0 <= at /\ at + 4 * INFO <= dest.segments[g].filesz
       BY <1>10, <1>12 DEF INFO
<1> QED
    BY <1>4, <1>12, <1>13, <1>14, <1>15

\* The SELF loads.
LEMMA HeldSelfLoads == ASSUME HeldOK PROVE SelfLoads
<1> SUFFICES ASSUME disk["self"] = "self" PROVE SelfLoads
    BY DEF SelfLoads
<1>1. SegmentsOK /\ InfosOK /\ phnum \in 1 .. 5 /\ Len(self.infos) = phnum
      BY WholeFacts
<1>2. \A n \in 1 .. phnum :
        /\ self.infos[n].offset % 16 = 0 /\ self.infos[n].offset + self.infos[n].length <= self.at
        /\ ~ Selected("compressed") => self.infos[n].length - dest.segments[n].filesz \in 0 .. 3
      BY <1>1 DEF InfosOK, InfoEnd
<1>3. LET ranges == HeaderTables \o [n \in 1 .. phnum |-> <<self.infos[n].offset, self.infos[n].offset + self.infos[n].length>>]
      IN \A m, n \in DOMAIN ranges : m # n => ~ Overwritten(ranges[m], ranges[n])
      BY SelfApart
<1>4. Regular => \E n \in 1 .. phnum :
        LET at == self.nid - InputOffset(n)
        IN 0 <= at /\ at + 4 * INFO <= dest.segments[n].filesz /\ dest.segments[n].vaddr + at = Base
      BY NidPlaced
<1> QED
    BY <1>1, <1>2, <1>3, <1>4, Zenon DEF SelfLoads

\* What is made of the ELF loads as it does: in the packed file each segment is where
\* its header says, aligned, and none over another or the headers; in the SELF the tables
\* and segments are apart, each where its info says, and the NID is in the module info
\* (vita-elf-create.c:209-250, vita-make-fself.c:134-145, 161-179, 309-370).
THEOREM CopiesLoadAlways == ImportsSpec => []CopiesLoad
<1>1. ImportsInit => HeldOK
  <2> SUFFICES ASSUME ImportsInit PROVE HeldOK
      OBVIOUS
  <2>1. DestOK
        BY DEF ImportsInit, InitWith, DestOK, Writing, Creating, Unpacked, Finished
  <2> QED
      BY <2>1, InitPipeline, InitDisk, InitPack, InitSelf DEF HeldOK
<1>2. HeldOK /\ [ImportsNext]_allvars => HeldOK'
  <2> SUFFICES ASSUME HeldOK, [ImportsNext]_allvars PROVE HeldOK'
      OBVIOUS
  <2>1. Pipeline' /\ DestOK' /\ DiskInv'
        BY NextPipeline, NextDest, NextDisk DEF HeldOK
  <2> QED
      BY <2>1, NextPack, NextSelf DEF HeldOK
<1>3. HeldOK => CopiesLoad
  <2> SUFFICES ASSUME HeldOK PROVE CopiesLoad
      OBVIOUS
  <2> QED
      BY PackLoads, HeldSelfLoads DEF HeldOK, CopiesLoad
<1> QED
    BY <1>1, <1>2, <1>3, PTL DEF ImportsSpec

----------------------------------------------------------------------------
(* Searching a sorted array (varray.c).                                      *)

\* An element is found, or the place is the one between what is before the key and
\* what is behind it.
Placed(s, at) ==
  \/ at < Len(s) /\ s[at + 1] = 0
  \/ (\A m \in 1 .. at : s[m] > 0) /\ (\A m \in at + 1 .. Len(s) : s[m] < 0)

\* So it is in every range: there is an element in the middle that is found, or is left
\* out with what is on its side.
LEMMA TurnNarrows ==
  ASSUME NEW N \in Nat, NEW s, Len(s) = N, \A m \in 1 .. N : s[m] \in Int,
         \A m, k \in 1 .. N : m <= k => s[m] >= s[k],
         NEW low \in 0 .. N, NEW high \in 0 .. N, low < high,
         \A m \in 1 .. low : s[m] > 0, \A m \in high + 1 .. N : s[m] < 0
  PROVE  LET p == SearchTurn(s, low, high)
         IN /\ p[1] \in 0 .. N /\ p[2] \in 0 .. N /\ p[2] - p[1] < high - low
            /\ \/ p[1] = p[2] /\ p[1] < N /\ s[p[1] + 1] = 0
               \/ (\A m \in 1 .. p[1] : s[m] > 0) /\ (\A m \in p[2] + 1 .. N : s[m] < 0)
<1>1. PICK t : t = (low + high) \div 2
      OBVIOUS
<1>2. t \in 0 .. N /\ low <= t /\ t < high /\ t + 1 \in 1 .. N
      BY <1>1
<1>3. SearchTurn(s, low, high) = IF s[t + 1] = 0 THEN <<t, t>> ELSE IF s[t + 1] > 0 THEN <<t + 1, high>> ELSE <<low, t>>
      BY <1>1 DEF SearchTurn
<1>4. s[t + 1] \in Int
      BY <1>2
<1>5. CASE s[t + 1] = 0
  <2>1. SearchTurn(s, low, high) = <<t, t>>
        BY <1>3, <1>5
  <2> QED
      BY <1>2, <1>5, <2>1
<1>6. CASE s[t + 1] > 0
  <2>1. SearchTurn(s, low, high) = <<t + 1, high>>
        BY <1>3, <1>4, <1>6
  <2>2. ASSUME NEW m \in 1 .. t + 1 PROVE s[m] > 0
    <3>1. m \in 1 .. N /\ m <= t + 1
          BY <1>2
    <3>2. s[m] >= s[t + 1] /\ s[m] \in Int
          BY <1>2, <3>1
    <3> QED
        BY <1>4, <1>6, <3>2
  <2>3. high - (t + 1) < high - low
        BY <1>2
  <2> QED
      BY <1>2, <2>1, <2>2, <2>3
<1>7. CASE s[t + 1] < 0
  <2>1. SearchTurn(s, low, high) = <<low, t>>
        BY <1>3, <1>4, <1>7
  <2>2. ASSUME NEW m \in t + 1 .. N PROVE s[m] < 0
    <3>1. m \in 1 .. N /\ t + 1 <= m
          BY <1>2
    <3>2. s[t + 1] >= s[m] /\ s[m] \in Int
          BY <1>2, <3>1
    <3> QED
        BY <1>4, <1>7, <3>2
  <2>3. t - low < high - low
        BY <1>2
  <2> QED
      BY <1>2, <2>1, <2>2, <2>3
<1> QED
    BY <1>4, <1>5, <1>6, <1>7

\* After as many turns as there are elements the range is empty.
THEOREM IndexPlaced ==
  ASSUME NEW s, IsList(s), \A m \in 1 .. Len(s) : s[m] \in Int,
         \A m, k \in 1 .. Len(s) : m <= k => s[m] >= s[k]
  PROVE  Placed(s, get_sorted_insert_index(s))
<1>1. PICK c : SearchRuns(s, c)
      BY SearchLoop
<1> DEFINE N == Len(s)
           Narrowed(n) == \/ c[n][1] = c[n][2] /\ Placed(s, c[n][1])
                          \/ /\ c[n][2] - c[n][1] <= N - n
                             /\ \A m \in 1 .. c[n][1] : s[m] > 0
                             /\ \A m \in c[n][2] + 1 .. N : s[m] < 0
           T == {n \in 0 .. N : ~ Narrowed(n)}
<1>2. N \in Nat
      BY ListFacts
<1>3. ASSUME NEW n \in 0 .. N
      PROVE c[n][1] \in 0 .. N /\ c[n][2] \in 0 .. N /\ c[n][1] <= c[n][2] /\ c[n] = <<c[n][1], c[n][2]>>
      BY <1>1 DEF SearchRuns, SearchRange
<1>4. Narrowed(0)
  <2>1. c[0][1] = 0 /\ c[0][2] = N
        BY <1>1 DEF SearchRuns
  <2>2. N - 0 <= N - 0 /\ 1 .. 0 = {} /\ N + 1 .. N = {}
        BY <1>2
  <2> QED
      BY <2>1, <2>2
<1>5. ASSUME NEW n \in 1 .. N, Narrowed(n - 1) PROVE Narrowed(n)
  <2>1. n - 1 \in 0 .. N /\ n \in 0 .. N
        BY <1>2
  <2>2. PICK low, high : low = c[n - 1][1] /\ high = c[n - 1][2]
        OBVIOUS
  <2>3. low \in 0 .. N /\ high \in 0 .. N /\ low <= high /\ c[n] = SearchTurn(s, low, high)
        BY <1>1, <1>3, <2>1, <2>2 DEF SearchRuns
  <2>4. CASE low = high
    <3>1. c[n] = <<low, high>>
          BY <2>3, <2>4 DEF SearchTurn
    <3>2. CASE Placed(s, low)
          BY <2>4, <3>1, <3>2
    <3>3. CASE (\A m \in 1 .. low : s[m] > 0) /\ (\A m \in high + 1 .. N : s[m] < 0)
          BY <2>4, <3>1, <3>3 DEF Placed
    <3> QED
        BY <1>5, <2>2, <3>2, <3>3
  <2>5. CASE low # high
    <3>1. low < high /\ high - low <= N - (n - 1) /\ (\A m \in 1 .. low : s[m] > 0) /\ (\A m \in high + 1 .. N : s[m] < 0)
          BY <1>5, <2>2, <2>3, <2>5
    <3>2. LET p == SearchTurn(s, low, high)
          IN /\ p[1] \in 0 .. N /\ p[2] \in 0 .. N /\ p[2] - p[1] < high - low
             /\ \/ p[1] = p[2] /\ p[1] < N /\ s[p[1] + 1] = 0
                \/ (\A m \in 1 .. p[1] : s[m] > 0) /\ (\A m \in p[2] + 1 .. N : s[m] < 0)
          BY <1>2, <2>3, <3>1, TurnNarrows
    <3>3. c[n][1] \in 0 .. N /\ c[n][2] \in 0 .. N /\ c[n][2] - c[n][1] < high - low
          BY <2>3, <3>2
    <3>4. c[n][2] - c[n][1] <= N - n
          BY <1>2, <2>3, <3>1, <3>3
    <3>5. \/ c[n][1] = c[n][2] /\ c[n][1] < N /\ s[c[n][1] + 1] = 0
          \/ (\A m \in 1 .. c[n][1] : s[m] > 0) /\ (\A m \in c[n][2] + 1 .. N : s[m] < 0)
          BY <2>3, <3>2
    <3> QED
        BY <3>4, <3>5 DEF Placed
  <2> QED
      BY <2>4, <2>5
<1>6. \A n \in 0 .. N : Narrowed(n)
  <2> HIDE DEF Narrowed, N
  <2> SUFFICES ASSUME NEW x \in T PROVE FALSE
      OBVIOUS
  <2>1. PICK m \in T : \A k \in T : m <= k
    <3>1. T \in SUBSET Nat /\ x \in T
          BY <1>2
    <3> QED
        BY <3>1, LeastNatural
  <2>2. m \in 1 .. N /\ m - 1 \in 0 .. N
    <3>1. m \in 0 .. N /\ m # 0
          BY <2>1, <1>4
    <3> QED
        BY <3>1, <1>2
  <2>3. Narrowed(m - 1)
    <3>1. ~ (m <= m - 1)
          BY <2>2, <1>2
    <3> QED
        BY <3>1, <2>1, <2>2
  <2> QED
      BY <2>1, <2>2, <2>3, <1>5
<1>7. N \in 0 .. N
      BY <1>2
<1>8. PICK low, high : low = c[N][1] /\ high = c[N][2]
      OBVIOUS
<1>9. Placed(s, low)
  <2>1. low \in 0 .. N /\ high \in 0 .. N /\ low <= high
        BY <1>3, <1>7, <1>8
  <2>2. \/ Placed(s, low)
        \/ high - low <= N - N /\ (\A m \in 1 .. low : s[m] > 0) /\ (\A m \in high + 1 .. N : s[m] < 0)
        BY <1>6, <1>7, <1>8
  <2>3. CASE high - low <= N - N /\ (\A m \in 1 .. low : s[m] > 0) /\ (\A m \in high + 1 .. N : s[m] < 0)
    <3>1. high = low
          BY <1>2, <2>1, <2>3
    <3> QED
        BY <2>3, <3>1 DEF Placed
  <2> QED
      BY <2>2, <2>3
<1> QED
    BY <1>1, <1>8, <1>9 DEF SearchRuns

----------------------------------------------------------------------------
(* NIDs are numbers, from the import files to the stubs.                    *)

\* The tables of the files that are read.
EntriesOK(s) == IsList(s) /\ \A n \in DOMAIN s : s[n].nid \in Nat
ReadLibOK(l) ==
  /\ DOMAIN l = {"name", "nid", "is_kernel", "version", "function", "variable"}
  /\ l.nid \in Nat /\ EntriesOK(l.function) /\ EntriesOK(l.variable)
ReadModuleOK(m) == "libs" \in DOMAIN m /\ IsList(m.libs) /\ \A n \in DOMAIN m.libs : ReadLibOK(m.libs[n])
ImportOK(f) == "modules" \in DOMAIN f /\ IsList(f.modules) /\ \A n \in DOMAIN f.modules : ReadModuleOK(f.modules[n])
ImportsOK == IsList(imports) /\ \A n \in DOMAIN imports : ImportOK(imports[n])
AsmOK == \A f \in DOMAIN asm : asm[f].library_nid \in Nat /\ asm[f].nid \in Nat
\* What vita-libs-gen reads and writes is so, and it does not read beyond its input.
ReadOK ==
  /\ InputOK(input) /\ ImportsOK /\ AsmOK
  /\ file \in Nat \ {0} /\ rest \in Nat \ {0}
  /\ pc = "read" => Len(imports) <= Len(input.files)

\* So it is before a file is read.
LEMMA InitRead == ImportsInit => ReadOK
<1> SUFFICES ASSUME ImportsInit PROVE ReadOK
    OBVIOUS
<1>1. InputOK(input)
      BY CasesAssumption DEF ImportsInit
<1>2. imports = <<>> /\ asm = <<>> /\ file = 1 /\ rest = 1
      BY DEF ImportsInit, LibsGenInit
<1>3. ImportsOK /\ AsmOK
  <2>1. DOMAIN <<>> = {}
        OBVIOUS
  <2> QED
      BY <1>2, <2>1, EmptyList DEF ImportsOK, AsmOK
<1>4. Len(imports) = 0 /\ Len(input.files) \in Nat
  <2>1. input.files \in Seq(Seq(Keys))
        BY <1>1 DEF InputOK
  <2> QED
      BY <1>2, <2>1, EmptyList
<1> QED
    BY <1>1, <1>2, <1>3, <1>4 DEF ReadOK

\* The key that is read.
LEMMA KeyFacts == ASSUME ReadOK, NEW key, At(key) PROVE Key.value \in Nat /\ file \in DOMAIN imports /\ pc = "read"
<1>1. input.files \in Seq(Seq(Keys)) /\ Len(input.files) \in Nat
      BY DEF ReadOK, InputOK
<1>2. pc = "read" /\ file = Len(imports) /\ rest \in DOMAIN input.files[file]
      BY DEF At
<1>3. Len(imports) \in Nat /\ DOMAIN imports = 1 .. Len(imports)
      BY ListFacts DEF ReadOK, ImportsOK
<1>4. file \in 1 .. Len(input.files) /\ file \in DOMAIN imports
      BY <1>1, <1>2, <1>3 DEF ReadOK
<1>5. input.files[file] \in Seq(Keys)
      BY <1>1, <1>4
<1>6. input.files[file][rest] \in Keys
      BY <1>2, <1>5
<1> QED
    BY <1>2, <1>4, <1>6 DEF Key, Keys

\* One file's modules are changed.
LEMMA ModulesReplaced ==
  ASSUME ImportsOK, NEW m, IsList(m), \A n \in DOMAIN m : ReadModuleOK(m[n]),
         imports' = [imports EXCEPT ![file] = [imports[file] EXCEPT !.modules = m]]
  PROVE  ImportsOK' /\ Len(imports') = Len(imports)
<1> DEFINE f == [imports[file] EXCEPT !.modules = m]
<1>1. ASSUME file \in DOMAIN imports PROVE ImportOK(f)
  <2>1. "modules" \in DOMAIN imports[file]
        BY <1>1 DEF ImportsOK, ImportOK
  <2>2. f.modules = m /\ "modules" \in DOMAIN f
        BY <2>1
  <2> HIDE DEF f
  <2> QED
      BY <2>2 DEF ImportOK
<1>0. imports' = [imports EXCEPT ![file] = f]
      OBVIOUS
<1> HIDE DEF f
<1>2. /\ IsList(imports') /\ DOMAIN imports' = DOMAIN imports /\ Len(imports') = Len(imports)
      /\ \A n \in DOMAIN imports : imports'[n] = IF n = file THEN f ELSE imports[n]
  <2>1. IsList(imports)
        BY DEF ImportsOK
  <2>2. PICK g : g = [imports EXCEPT ![file] = f]
        OBVIOUS
  <2>3. IsList(g) /\ DOMAIN g = DOMAIN imports /\ Len(g) = Len(imports) /\ \A n \in DOMAIN imports : g[n] = IF n = file THEN f ELSE imports[n]
        BY <2>1, <2>2, ListReplace
  <2>4. imports' = g
        BY <1>0, <2>2
  <2> QED
      BY <2>3, <2>4
<1> QED
    BY <1>1, <1>2 DEF ImportsOK

\* One library is changed: that of the module read last.
LEMMA LibReplaced ==
  ASSUME ImportsOK, file \in DOMAIN imports, NEW m, NEW libraries, IsList(libraries),
         \A n \in DOMAIN libraries : ReadLibOK(libraries[n]),
         imports' = [imports EXCEPT ![file] = [imports[file] EXCEPT !.modules =
                       [imports[file].modules EXCEPT ![m] = [imports[file].modules[m] EXCEPT !.libs = libraries]]]]
  PROVE  ImportsOK' /\ Len(imports') = Len(imports)
<1> DEFINE s == imports[file].modules
           x == [s[m] EXCEPT !.libs = libraries]
           t == [s EXCEPT ![m] = x]
<1>1. IsList(s) /\ \A n \in DOMAIN s : ReadModuleOK(s[n])
      BY DEF ImportsOK, ImportOK
<1>2. ASSUME m \in DOMAIN s PROVE ReadModuleOK(x)
  <2>1. "libs" \in DOMAIN s[m]
        BY <1>1, <1>2 DEF ReadModuleOK
  <2>2. "libs" \in DOMAIN x /\ x.libs = libraries
        BY <2>1
  <2> HIDE DEF x
  <2> QED
      BY <2>2 DEF ReadModuleOK
<1> HIDE DEF x, s
<1>3. IsList(t) /\ \A n \in DOMAIN t : ReadModuleOK(t[n])
  <2>1. IsList(t) /\ DOMAIN t = DOMAIN s /\ \A n \in DOMAIN s : t[n] = IF n = m THEN x ELSE s[n]
        BY <1>1, ListReplace
  <2> HIDE DEF t
  <2> QED
      BY <1>1, <1>2, <2>1
<1>4. imports' = [imports EXCEPT ![file] = [imports[file] EXCEPT !.modules = t]]
      BY DEF t, x, s
<1> HIDE DEF t
<1> QED
    BY <1>3, <1>4, ModulesReplaced

\* A field of the library that is read last.
LEMMA SetLibOK ==
  ASSUME ImportsOK, file \in DOMAIN imports, NEW field \in {"name", "nid", "is_kernel", "version", "function", "variable"}, NEW x,
         field = "nid" => x \in Nat,
         field \in {"function", "variable"} /\ ReadLibOK(ThisLib) => EntriesOK(x),
         SetLib(field, x)
  PROVE  ImportsOK' /\ Len(imports') = Len(imports)
<1> DEFINE s == imports[file].modules
           m == Len(s)
           ls == s[m].libs
           l == Len(ls)
           y == [ls[l] EXCEPT ![field] = x]
           t == [ls EXCEPT ![l] = y]
<1>1. imports' = [imports EXCEPT ![file] = [imports[file] EXCEPT !.modules = [s EXCEPT ![m] = [s[m] EXCEPT !.libs = t]]]]
  <2>1. imports' = [imports EXCEPT ![file].modules[m].libs[l][field] = x]
        BY DEF SetLib
  <2> HIDE DEF m, l
  <2> QED
      BY <2>1
<1>2. IsList(s) /\ \A n \in DOMAIN s : ReadModuleOK(s[n])
      BY DEF ImportsOK, ImportOK
<1>3. m \in Nat /\ DOMAIN s = 1 .. m
      BY <1>2, ListFacts
<1>4. CASE m = 0
  <2>1. m \notin DOMAIN s
        BY <1>3, <1>4
  <2> HIDE DEF t, m
  <2>2. [s EXCEPT ![m] = [s[m] EXCEPT !.libs = t]] = s
    <3>1. s = [n \in DOMAIN s |-> s[n]]
          BY <1>2, ListFacts
    <3> HIDE DEF s
    <3> QED
        BY <2>1, <3>1
  <2>3. imports' = [imports EXCEPT ![file] = [imports[file] EXCEPT !.modules = s]]
        BY <1>1, <2>2
  <2> QED
      BY <1>2, <2>3, ModulesReplaced
<1>5. CASE m # 0
  <2>1. m \in DOMAIN s
        BY <1>3, <1>5
  <2>2. IsList(ls) /\ \A n \in DOMAIN ls : ReadLibOK(ls[n])
        BY <1>2, <2>1 DEF ReadModuleOK
  <2>3. l \in Nat /\ DOMAIN ls = 1 .. l
        BY <2>2, ListFacts
  <2>4. ASSUME l \in DOMAIN ls PROVE ReadLibOK(y)
    <3>1. ReadLibOK(ls[l])
          BY <2>2, <2>4
    <3>2. DOMAIN y = DOMAIN ls[l] /\ \A f \in DOMAIN ls[l] : y[f] = IF f = field THEN x ELSE ls[l][f]
          OBVIOUS
    <3>3. field \in {"function", "variable"} => EntriesOK(x)
      <4>1. ThisLib = ls[l]
            BY Zenon DEF ThisLib, Last
      <4> QED
          BY <3>1, <4>1
    <3> HIDE DEF y, ls
    <3>4. DOMAIN y = {"name", "nid", "is_kernel", "version", "function", "variable"}
          BY <3>1, <3>2 DEF ReadLibOK
    <3>5. y.nid \in Nat
          BY <3>1, <3>2 DEF ReadLibOK
    <3>6. EntriesOK(y.function)
          BY <3>1, <3>2, <3>3 DEF ReadLibOK
    <3>7. EntriesOK(y.variable)
          BY <3>1, <3>2, <3>3 DEF ReadLibOK
    <3> QED
        BY <3>4, <3>5, <3>6, <3>7 DEF ReadLibOK
  <2> HIDE DEF y, ls, l
  <2>5. IsList(t) /\ \A n \in DOMAIN t : ReadLibOK(t[n])
    <3>1. IsList(t) /\ DOMAIN t = DOMAIN ls /\ \A n \in DOMAIN ls : t[n] = IF n = l THEN y ELSE ls[n]
          BY <2>2, ListReplace
    <3> HIDE DEF t
    <3> QED
        BY <2>2, <2>4, <3>1
  <2> HIDE DEF t, m
  <2> QED
      BY <1>1, <2>5, LibReplaced
<1> QED
    BY <1>4, <1>5

\* Each step of vita-libs-gen.
LEMMA ReadStep ==
  ASSUME ReadOK, VitaLibsGen
  PROVE  ImportsOK' /\ (pc' = "read" => Len(imports') <= Len(input.files)) /\ input' = input /\ file' \in Nat \ {0} /\ rest' \in Nat \ {0}
<1>1. ImportsOK /\ file \in Nat \ {0} /\ rest \in Nat \ {0} /\ IsList(imports) /\ Len(imports) \in Nat /\ DOMAIN imports = 1 .. Len(imports)
      BY ListFacts DEF ReadOK, ImportsOK
<1>2. CASE OpenFile
  <2> DEFINE new == [postfix |-> <<>>, modules |-> <<>>]
  <2>1. ImportOK(new)
    <3>1. DOMAIN <<>> = {}
          OBVIOUS
    <3> QED
        BY <3>1, EmptyList DEF ImportOK
  <2>2. imports' = Append(imports, new) /\ file = Len(imports) + 1 /\ file \in DOMAIN input.files
        BY <1>2 DEF OpenFile
  <2> HIDE DEF new
  <2>3. IsList(imports') /\ Len(imports') = Len(imports) + 1 /\ (\A n \in 1 .. Len(imports) : imports'[n] = imports[n])
        /\ imports'[Len(imports) + 1] = new
        BY <1>1, <2>2, ListAppend
  <2>4. \A n \in 1 .. Len(imports) + 1 : n \in 1 .. Len(imports) \/ n = Len(imports) + 1
        BY <1>1
  <2>5. DOMAIN imports' = 1 .. Len(imports) + 1
        BY <2>3, ListFacts
  <2>6. ImportsOK'
        BY <1>1, <2>1, <2>3, <2>4, <2>5 DEF ImportsOK
  <2>7. Len(imports) + 1 <= Len(input.files)
    <3>1. input.files \in Seq(Seq(Keys))
          BY DEF ReadOK, InputOK
    <3> QED
        BY <2>2, <3>1
  <2> QED
      BY <1>1, <1>2, <2>3, <2>6, <2>7 DEF OpenFile
<1>3. CASE firmware
  <2>1. file \in DOMAIN imports /\ pc = "read"
        BY <1>3, KeyFacts DEF firmware
  <2>2. imports' = imports \/ \E x : imports' = [imports EXCEPT ![file] = [imports[file] EXCEPT !.postfix = x]]
        BY <1>3, Zenon DEF firmware
  <2>3. ImportsOK' /\ Len(imports') = Len(imports)
    <3>1. CASE imports' = imports
          BY <1>1, <3>1 DEF ImportsOK
    <3>2. CASE \E x : imports' = [imports EXCEPT ![file] = [imports[file] EXCEPT !.postfix = x]]
      <4>1. PICK x : imports' = [imports EXCEPT ![file] = [imports[file] EXCEPT !.postfix = x]]
            BY <3>2
      <4> DEFINE f == [imports[file] EXCEPT !.postfix = x]
      <4>2. ImportOK(f)
        <5>1. DOMAIN f = DOMAIN imports[file] /\ f.modules = imports[file].modules
              BY <1>1, <2>1 DEF ImportsOK, ImportOK
        <5>2. ImportOK(imports[file])
              BY <1>1, <2>1 DEF ImportsOK
        <5> HIDE DEF f
        <5> QED
            BY <5>1, <5>2 DEF ImportOK
      <4>3. imports' = [imports EXCEPT ![file] = f]
            BY <4>1
      <4> HIDE DEF f
      <4>4. /\ IsList(imports') /\ DOMAIN imports' = DOMAIN imports /\ Len(imports') = Len(imports)
            /\ \A n \in DOMAIN imports : imports'[n] = IF n = file THEN f ELSE imports[n]
            BY <1>1, <4>3, ListReplace
      <4> QED
          BY <1>1, <4>2, <4>4 DEF ImportsOK
    <3> QED
        BY <2>2, <3>1, <3>2
  <2> QED
      BY <1>1, <1>3, <2>3, <2>1 DEF firmware, Continue, ReadOK
<1>4. CASE process_import_list
  <2>1. file \in DOMAIN imports /\ pc = "read"
        BY <1>4, KeyFacts DEF process_import_list
  <2> DEFINE s == imports[file].modules
             new == [name |-> Key.name, libs |-> <<>>]
             m == Append(s, new)
  <2>2. imports' = [imports EXCEPT ![file] = [imports[file] EXCEPT !.modules = m]]
        BY <1>4 DEF process_import_list
  <2>3. ReadModuleOK(new)
    <3>1. DOMAIN <<>> = {}
          OBVIOUS
    <3> QED
        BY <3>1, EmptyList DEF ReadModuleOK
  <2>4. IsList(s) /\ \A n \in DOMAIN s : ReadModuleOK(s[n])
        BY <1>1, <2>1 DEF ImportsOK, ImportOK
  <2> HIDE DEF s, new
  <2>5. IsList(m) /\ \A n \in DOMAIN m : ReadModuleOK(m[n])
    <3>1. IsList(m) /\ Len(m) = Len(s) + 1 /\ (\A n \in 1 .. Len(s) : m[n] = s[n]) /\ m[Len(s) + 1] = new
          BY <2>4, ListAppend
    <3>2. Len(s) \in Nat /\ DOMAIN s = 1 .. Len(s)
          BY <2>4, ListFacts
    <3>3. DOMAIN m = 1 .. Len(s) + 1
          BY <3>1, ListFacts
    <3> HIDE DEF m
    <3>4. \A n \in 1 .. Len(s) + 1 : n \in 1 .. Len(s) \/ n = Len(s) + 1
          BY <3>2
    <3> QED
        BY <2>3, <2>4, <3>1, <3>2, <3>3, <3>4
  <2> HIDE DEF m
  <2>6. ImportsOK' /\ Len(imports') = Len(imports)
        BY <1>1, <2>2, <2>5, ModulesReplaced
  <2> QED
      BY <1>1, <1>4, <2>6, <2>1 DEF process_import_list, Continue, ReadOK
<1>5. CASE process_libraries
  <2>1. file \in DOMAIN imports /\ pc = "read"
        BY <1>5, KeyFacts DEF process_libraries
  <2> DEFINE s == imports[file].modules
             k == Len(s)
             ls == s[k].libs
             new == EmptyLib(Key.name)
             m == Append(ls, new)
  <2>2. imports' = [imports EXCEPT ![file] = [imports[file] EXCEPT !.modules = [s EXCEPT ![k] = [s[k] EXCEPT !.libs = m]]]]
    <3>1. imports' = [imports EXCEPT ![file].modules[k].libs = Append(@, new)]
          BY <1>5 DEF process_libraries
    <3> HIDE DEF k, new
    <3> QED
        BY <3>1
  <2>3. ReadLibOK(new)
    <3>1. DOMAIN <<>> = {} /\ EntriesOK(<<>>)
          BY EmptyList DEF EntriesOK
    <3> QED
        BY <3>1 DEF ReadLibOK, EmptyLib
  <2>4. IsList(s) /\ \A n \in DOMAIN s : ReadModuleOK(s[n])
        BY <1>1, <2>1 DEF ImportsOK, ImportOK
  <2>5. k \in Nat /\ DOMAIN s = 1 .. k
        BY <2>4, ListFacts
  <2>6. CASE k = 0
    <3>1. k \notin DOMAIN s
          BY <2>5, <2>6
    <3> HIDE DEF m, k
    <3>2. [s EXCEPT ![k] = [s[k] EXCEPT !.libs = m]] = s
      <4>1. s = [n \in DOMAIN s |-> s[n]]
            BY <2>4, ListFacts
      <4> HIDE DEF s
      <4> QED
          BY <3>1, <4>1
    <3>3. imports' = [imports EXCEPT ![file] = [imports[file] EXCEPT !.modules = s]]
          BY <2>2, <3>2
    <3>4. ImportsOK' /\ Len(imports') = Len(imports)
          BY <1>1, <2>4, <3>3, ModulesReplaced
    <3> QED
        BY <1>1, <1>5, <3>4, <2>1 DEF process_libraries, Continue, ReadOK
  <2>7. CASE k # 0
    <3>1. k \in DOMAIN s
          BY <2>5, <2>7
    <3>2. IsList(ls) /\ \A n \in DOMAIN ls : ReadLibOK(ls[n])
          BY <2>4, <3>1 DEF ReadModuleOK
    <3> HIDE DEF ls, new
    <3>3. IsList(m) /\ \A n \in DOMAIN m : ReadLibOK(m[n])
      <4>1. IsList(m) /\ Len(m) = Len(ls) + 1 /\ (\A n \in 1 .. Len(ls) : m[n] = ls[n]) /\ m[Len(ls) + 1] = new
            BY <3>2, ListAppend
      <4>2. Len(ls) \in Nat /\ DOMAIN ls = 1 .. Len(ls)
            BY <3>2, ListFacts
      <4>3. DOMAIN m = 1 .. Len(ls) + 1
            BY <4>1, ListFacts
      <4> HIDE DEF m
      <4>4. \A n \in 1 .. Len(ls) + 1 : n \in 1 .. Len(ls) \/ n = Len(ls) + 1
            BY <4>2
      <4> QED
          BY <2>3, <3>2, <4>1, <4>2, <4>3, <4>4
    <3> HIDE DEF m, k
    <3>4. ImportsOK' /\ Len(imports') = Len(imports)
          BY <1>1, <2>1, <2>2, <3>3, LibReplaced
    <3> QED
        BY <1>1, <1>5, <3>4, <2>1 DEF process_libraries, Continue, ReadOK
  <2> QED
      BY <2>6, <2>7
<1>6. CASE process_library \/ process_entry
  <2>1. PICK key : At(key) /\ \E field \in {"name", "nid", "is_kernel", "version", "function", "variable"} : \E x :
          /\ SetLib(field, x) /\ Continue
          /\ field = "nid" => x = Key.value
          /\ field \in {"function", "variable"} => x = Append(ThisLib[field], [name |-> Key.name, nid |-> Key.value])
        BY <1>6, Zenon DEF process_library, process_entry, EntryTypes
  <2>2. Key.value \in Nat /\ file \in DOMAIN imports /\ pc = "read"
        BY <2>1, KeyFacts
  <2>3. PICK field \in {"name", "nid", "is_kernel", "version", "function", "variable"} : \E x :
          /\ SetLib(field, x) /\ Continue
          /\ field = "nid" => x = Key.value
          /\ field \in {"function", "variable"} => x = Append(ThisLib[field], [name |-> Key.name, nid |-> Key.value])
        BY <2>1
  <2>4. PICK x :
          /\ SetLib(field, x) /\ Continue
          /\ field = "nid" => x = Key.value
          /\ field \in {"function", "variable"} => x = Append(ThisLib[field], [name |-> Key.name, nid |-> Key.value])
        BY <2>3
  <2>5. ASSUME field \in {"function", "variable"}, ReadLibOK(ThisLib) PROVE EntriesOK(x)
    <3> DEFINE s == ThisLib[field]
               new == [name |-> Key.name, nid |-> Key.value]
    <3>1. EntriesOK(s) /\ new.nid \in Nat /\ x = Append(s, new)
          BY <2>2, <2>4, <2>5 DEF ReadLibOK
    <3> HIDE DEF s, new
    <3>2. IsList(x) /\ Len(x) = Len(s) + 1 /\ (\A n \in 1 .. Len(s) : x[n] = s[n]) /\ x[Len(s) + 1] = new
          BY <3>1, ListAppend DEF EntriesOK
    <3>3. Len(s) \in Nat /\ DOMAIN s = 1 .. Len(s) /\ DOMAIN x = 1 .. Len(s) + 1
          BY <3>1, <3>2, ListFacts DEF EntriesOK
    <3>4. \A n \in 1 .. Len(s) + 1 : n \in 1 .. Len(s) \/ n = Len(s) + 1
          BY <3>3
    <3> QED
        BY <3>1, <3>2, <3>3, <3>4 DEF EntriesOK
  <2>6. field = "nid" => x \in Nat
        BY <2>2, <2>4
  <2>7. ImportsOK' /\ Len(imports') = Len(imports)
        BY <1>1, <2>2, <2>4, <2>5, <2>6, SetLibOK
  <2> QED
      BY <1>1, <2>2, <2>4, <2>7 DEF Continue, ReadOK
<1>7. CASE BadKey \/ FileDone \/ AllRead
  <2>1. CASE BadKey
    <3>1. imports' = imports /\ input' = input /\ pc' = "failure" /\ file' = file /\ rest' = rest
          BY <2>1, Zenon DEF BadKey, Refused
    <3> QED
        BY <1>1, <3>1 DEF ImportsOK
  <2>2. CASE FileDone
    <3>1. imports' = imports /\ input' = input /\ pc' = pc /\ file' = file + 1 /\ rest' = rest
          BY <2>2 DEF FileDone
    <3> QED
        BY <1>1, <3>1 DEF ImportsOK, ReadOK
  <2>3. CASE AllRead
    <3>1. imports' = imports /\ input' = input /\ pc' # "read" /\ file' = 1 /\ rest' = 1
          BY <2>3 DEF AllRead
    <3> QED
        BY <1>1, <3>1 DEF ImportsOK
  <2> QED
      BY <1>7, <2>1, <2>2, <2>3
<1>8. CASE generate_assembly
  <2>1. imports' = imports /\ input' = input /\ pc' # "read" /\ file' \in {file, file + 1} /\ rest' \in {1, rest, rest + 1}
    <3>1. imports' = imports /\ input' = input /\ pc = "assembly"
          BY <1>8 DEF generate_assembly
    <3>2. \/ file' = file + 1 /\ rest' = 1 /\ pc' = pc
          \/ rest' = rest + 1 /\ UNCHANGED <<pc, file>>
          \/ pc' = "failure" /\ UNCHANGED <<file, rest>>
          BY <1>8, Zenon DEF generate_assembly
    <3> QED
        BY <3>1, <3>2
  <2> QED
      BY <1>1, <2>1 DEF ImportsOK
<1>9. CASE AssemblyDone
      BY <1>1, <1>9 DEF AssemblyDone, ImportsOK
<1>10. CASE generate_makefile \/ generate_cmake
  <2>1. imports' = imports /\ input' = input /\ pc' = pc /\ pc # "read" /\ file' = file + 1 /\ rest' = rest
        BY <1>10, Zenon DEF generate_makefile, generate_cmake
  <2> QED
      BY <1>1, <2>1 DEF ImportsOK
<1>11. CASE Exit
  <2>1. imports' = imports /\ input' = input /\ pc' = "success" /\ file' = file /\ rest' = rest
        BY <1>11, Zenon DEF Exit
  <2> QED
      BY <1>1, <2>1 DEF ImportsOK
<1> QED
    BY <1>2, <1>3, <1>4, <1>5, <1>6, <1>7, <1>8, <1>9, <1>10, <1>11 DEF VitaLibsGen

\* The modules that are written.
LEMMA ModulesFacts ==
  ASSUME ImportsOK
  PROVE  IsList(Modules) /\ \A n \in DOMAIN Modules : ReadModuleOK(Modules[n])
<1> DEFINE s == [f \in DOMAIN imports |-> ModulesOf(imports[f])]
<1>1. IsList(s) /\ DOMAIN s = DOMAIN imports /\ \A n \in DOMAIN s : s[n] = ModulesOf(imports[n])
  <2>1. s = [f \in DOMAIN imports |-> s[f]] /\ \A n \in DOMAIN s : s[n] = ModulesOf(imports[n])
        OBVIOUS
  <2> HIDE DEF s
  <2> QED
      BY <2>1, MapList DEF ImportsOK
<1>2. Modules = FlattenSeq(s)
      BY DEF Modules
<1> HIDE DEF s
<1>3. ASSUME NEW n \in DOMAIN s PROVE IsList(s[n]) /\ \A m \in DOMAIN s[n] : ReadModuleOK(s[n][m])
  <2> DEFINE import == imports[n]
             t == ModulesOf(import)
  <2>1. IsList(import.modules) /\ \A m \in DOMAIN import.modules : ReadModuleOK(import.modules[m])
        BY <1>1, <1>3 DEF ImportsOK, ImportOK
  <2>2. /\ t = [m \in DOMAIN import.modules |-> t[m]]
        /\ \A m \in DOMAIN import.modules : t[m].libs = import.modules[m].libs /\ "libs" \in DOMAIN t[m]
        BY DEF ModulesOf
  <2>3. s[n] = t
        BY <1>1, <1>3
  <2> HIDE DEF t, import
  <2>4. IsList(t) /\ DOMAIN t = DOMAIN import.modules
        BY <2>1, <2>2, MapList
  <2> QED
      BY <2>1, <2>2, <2>3, <2>4 DEF ReadModuleOK
<1>4. /\ IsList(FlattenSeq(s))
      /\ \A k \in DOMAIN FlattenSeq(s) : \E n \in DOMAIN s : \E m \in DOMAIN s[n] : FlattenSeq(s)[k] = s[n][m]
      BY <1>1, <1>3, FlattenElements
<1> QED
    BY <1>2, <1>3, <1>4

\* A file and its contents.
AsmEntryOK(p) == p[2].library_nid \in Nat /\ p[2].nid \in Nat

\* The files written for the entries of a library have their NIDs.
LEMMA FilesFacts ==
  ASSUME NEW module, NEW lib, ReadLibOK(lib)
  PROVE  IsList(FilesOf(module, lib)) /\ \A n \in DOMAIN FilesOf(module, lib) : AsmEntryOK(FilesOf(module, lib)[n])
<1> DEFINE of(type) == [n \in DOMAIN lib[type] |-> <<FileName(module, lib, lib[type][n]), Asm(type, lib, lib[type][n])>>]
<1>1. ASSUME NEW type \in {"function", "variable"} PROVE IsList(of(type)) /\ \A n \in DOMAIN of(type) : AsmEntryOK(of(type)[n])
  <2> DEFINE s == lib[type]
             t == of(type)
  <2>1. IsList(s) /\ lib.nid \in Nat /\ \A n \in DOMAIN s : s[n].nid \in Nat
        BY DEF ReadLibOK, EntriesOK
  <2>2. /\ t = [n \in DOMAIN s |-> t[n]]
        /\ \A n \in DOMAIN s : t[n][2].library_nid = lib.nid /\ t[n][2].nid = s[n].nid
        BY DEF Asm
  <2> HIDE DEF s, t
  <2>3. IsList(t) /\ DOMAIN t = DOMAIN s
        BY <2>1, <2>2, MapList
  <2> QED
      BY <2>1, <2>2, <2>3 DEF AsmEntryOK, t
<1>2. FilesOf(module, lib) = of("function") \o of("variable")
      BY DEF FilesOf
<1> HIDE DEF of
<1>3. IsList(of("function")) /\ IsList(of("variable"))
      BY <1>1
<1>4. IsList(of("function") \o of("variable"))
      BY <1>3, ListConcat
<1>5. ASSUME NEW n \in DOMAIN (of("function") \o of("variable")) PROVE AsmEntryOK((of("function") \o of("variable"))[n])
  <2>1. n \in 1 .. Len(of("function") \o of("variable"))
        BY <1>4, ListFacts
  <2>2. \/ n \in 1 .. Len(of("function")) /\ (of("function") \o of("variable"))[n] = of("function")[n]
        \/ n - Len(of("function")) \in 1 .. Len(of("variable"))
           /\ (of("function") \o of("variable"))[n] = of("variable")[n - Len(of("function"))]
        BY <1>3, <2>1, ConcatElements
  <2>3. DOMAIN of("function") = 1 .. Len(of("function")) /\ DOMAIN of("variable") = 1 .. Len(of("variable"))
        BY <1>3, ListFacts
  <2> QED
      BY <1>1, <2>2, <2>3
<1> QED
    BY <1>2, <1>4, <1>5

\* So have those of all libraries of a module.
LEMMA ModuleFilesFacts ==
  ASSUME NEW module, ReadModuleOK(module)
  PROVE  IsList(ModuleFiles(module)) /\ \A n \in DOMAIN ModuleFiles(module) : AsmEntryOK(ModuleFiles(module)[n])
<1> DEFINE s == [l \in DOMAIN module.libs |-> FilesOf(module, module.libs[l])]
<1>1. IsList(s) /\ \A l \in DOMAIN s : IsList(s[l]) /\ \A n \in DOMAIN s[l] : AsmEntryOK(s[l][n])
  <2>1. s = [l \in DOMAIN module.libs |-> s[l]] /\ \A l \in DOMAIN module.libs : s[l] = FilesOf(module, module.libs[l])
        OBVIOUS
  <2>2. IsList(module.libs) /\ \A l \in DOMAIN module.libs : ReadLibOK(module.libs[l])
        BY DEF ReadModuleOK
  <2> HIDE DEF s
  <2>3. IsList(s) /\ DOMAIN s = DOMAIN module.libs
        BY <2>1, <2>2, MapList
  <2> QED
      BY <2>1, <2>2, <2>3, FilesFacts
<1>2. ModuleFiles(module) = FlattenSeq(s)
      BY DEF ModuleFiles
<1> HIDE DEF s
<1>3. /\ IsList(FlattenSeq(s))
      /\ \A k \in DOMAIN FlattenSeq(s) : \E n \in DOMAIN s : \E m \in DOMAIN s[n] : FlattenSeq(s)[k] = s[n][m]
      BY <1>1, FlattenElements
<1> QED
    BY <1>1, <1>2, <1>3

\* What is written last is one of those, or was there.
LEMMA OverrideOne ==
  ASSUME NEW f, NEW x, NEW n \in DOMAIN Override(f, <<x>>)
  PROVE  (n \in DOMAIN f /\ Override(f, <<x>>)[n] = f[n]) \/ Override(f, <<x>>)[n] = x[2]
<1> DEFINE s == <<x>>
           at == {k \in DOMAIN s : s[k][1] = n}
<1>1. DOMAIN s = {1} /\ s[1] = x
      OBVIOUS
<1>2. n \in DOMAIN f \cup {s[k][1] : k \in DOMAIN s}
      BY DEF Override
<1>3. Override(f, s)[n] = IF at = {} THEN f[n] ELSE s[CHOOSE k \in at : \A j \in at : j <= k][2]
      BY <1>2 DEF Override
<1> HIDE DEF s
<1>4. CASE at = {}
  <2>1. n \in DOMAIN f
        BY <1>2, <1>4
  <2> QED
      BY <1>3, <1>4, <2>1 DEF s
<1>5. CASE at # {}
  <2>1. at = {1}
        BY <1>1, <1>5
  <2> HIDE DEF at
  <2>2. (CHOOSE k \in at : \A j \in at : j <= k) = 1
        BY <2>1
  <2> QED
      BY <1>1, <1>3, <1>5, <2>2 DEF s
<1> QED
    BY <1>4, <1>5

\* Each file that is written has NIDs that are numbers.
LEMMA AsmStep == ASSUME ReadOK, VitaLibsGen PROVE AsmOK'
<1>1. AsmOK /\ ImportsOK /\ file \in Nat \ {0} /\ rest \in Nat \ {0}
      BY DEF ReadOK
<1>2. CASE asm' = asm
      BY <1>1, <1>2 DEF AsmOK
<1>3. CASE generate_assembly /\ asm' # asm
  <2> DEFINE files == ModuleFiles(Modules[file])
  <2>1. file \in DOMAIN Modules /\ ~ rest > Len(files) /\ asm' = Override(asm, <<files[rest]>>)
        BY <1>3, Zenon DEF generate_assembly
  <2>2. IsList(files) /\ \A n \in DOMAIN files : AsmEntryOK(files[n])
        BY <1>1, <2>1, ModulesFacts, ModuleFilesFacts
  <2> HIDE DEF files
  <2>3. rest \in DOMAIN files
    <3>1. Len(files) \in Nat /\ DOMAIN files = 1 .. Len(files)
          BY <2>2, ListFacts
    <3> QED
        BY <1>1, <2>1, <3>1
  <2>4. PICK x : x = files[rest]
        OBVIOUS
  <2>5. x[2].library_nid \in Nat /\ x[2].nid \in Nat
        BY <2>2, <2>3, <2>4 DEF AsmEntryOK
  <2>6. ASSUME NEW f \in DOMAIN asm' PROVE asm'[f].library_nid \in Nat /\ asm'[f].nid \in Nat
    <3>1. f \in DOMAIN Override(asm, <<x>>) /\ asm'[f] = Override(asm, <<x>>)[f]
          BY <2>1, <2>4, <2>6
    <3>2. (f \in DOMAIN asm /\ asm'[f] = asm[f]) \/ asm'[f] = x[2]
          BY <3>1, OverrideOne
    <3> QED
        BY <1>1, <2>5, <3>2 DEF AsmOK
  <2> QED
      BY <2>6 DEF AsmOK
<1>4. generate_assembly \/ asm' = asm
      BY Zenon DEF VitaLibsGen, OpenFile, firmware, process_import_list, process_libraries, process_library, process_entry,
         BadKey, FileDone, AllRead, AssemblyDone, generate_makefile, generate_cmake, Exit, Continue, output
<1> QED
    BY <1>2, <1>3, <1>4

\* Reading and writing keep it; the other programs change nothing of it.
LEMMA NextRead == ReadOK /\ [ImportsNext]_allvars => ReadOK'
<1> SUFFICES ASSUME ReadOK, [ImportsNext]_allvars PROVE ReadOK'
    OBVIOUS
<1>1. CASE Generate
  <2>1. VitaLibsGen
        BY <1>1 DEF Generate
  <2> QED
      BY <2>1, ReadStep, AsmStep DEF ReadOK
<1>2. CASE UNCHANGED vars
      BY <1>2 DEF vars, ReadOK, ImportsOK, AsmOK
<1>3. Generate \/ UNCHANGED vars
      BY Zenon DEF ImportsNext, Link, Create, allvars
<1> QED
    BY <1>1, <1>2, <1>3

\* The NIDs of stubs, and of those in the sections, are numbers.
NidsNat(stubs) == \A n \in DOMAIN stubs : stubs[n].library_nid \in Nat /\ stubs[n].target_nid \in Nat
SectionNids ==
  \A n \in DOMAIN elf.sections : \A m \in DOMAIN elf.sections[n].stubs :
    elf.sections[n].stubs[m].library_nid \in Nat /\ elf.sections[n].stubs[m].nid \in Nat
\* The NIDs of the stubs are numbers.
NidsOK == SectionNids /\ NidsNat(fstubs) /\ NidsNat(vstubs)

\* The NIDs of a section are those of the objects joined.
LEMMA JoinedNids ==
  ASSUME AsmOK, NEW order, IsList(order), \A n \in DOMAIN order : order[n].file \in DOMAIN asm,
         NEW n \in DOMAIN JoinedSections(order), NEW m \in DOMAIN JoinedSections(order)[n].stubs
  PROVE  JoinedSections(order)[n].stubs[m].library_nid \in Nat /\ JoinedSections(order)[n].stubs[m].nid \in Nat
<1> DEFINE sorts == Sorts(order)
           of(t) == Select(order, {k \in DOMAIN order : SectionOf(order[k]) = t})
           I == {k \in DOMAIN order : SectionOf(order[k]) = sorts[n]}
           o == of(sorts[n])
<1>1. JoinedSections(order)[n].stubs = [k \in DOMAIN o |-> StubOf(o[k])]
      BY DEF JoinedSections
<1>2. m \in DOMAIN o /\ JoinedSections(order)[n].stubs[m] = StubOf(o[m])
  <2> HIDE DEF o
  <2> QED
      BY <1>1
<1>3. o = Select(order, I)
      OBVIOUS
<1> HIDE DEF I, o
<1>4. \E k \in DOMAIN order : o[m] = order[k]
      BY <1>2, <1>3, SelectList
<1>5. o[m].file \in DOMAIN asm
      BY <1>4
<1>6. StubOf(o[m]).library_nid = asm[o[m].file].library_nid /\ StubOf(o[m]).nid = asm[o[m].file].nid
      BY DEF StubOf
<1> QED
    BY <1>2, <1>5, <1>6 DEF AsmOK

\* So they are after linking.
LEMMA LinkNids == ASSUME Shape, AsmOK, NidsOK, Link PROVE NidsOK'
<1>1. PICK n \in 0 .. program.linked : \E S \in kSubset(n, Archived) : \E order \in SetToSeqs(S) :
        Links(order) /\ elf' = [elf EXCEPT !.sections = JoinedSections(order)]
      BY DEF Link
<1>2. PICK S \in kSubset(n, Archived) : \E order \in SetToSeqs(S) :
        Links(order) /\ elf' = [elf EXCEPT !.sections = JoinedSections(order)]
      BY <1>1
<1>3. PICK order \in SetToSeqs(S) : Links(order) /\ elf' = [elf EXCEPT !.sections = JoinedSections(order)]
      BY <1>2
<1>4. n \in Nat /\ Cardinality(S) = n /\ S \subseteq Archived
  <2>1. ProgramOK(elf.program)
        BY DEF Shape, ProgramShape
  <2>2. program.linked \in Nat
        BY <2>1 DEF ProgramOK, program
  <2> QED
      BY <1>1, <1>2, <2>2 DEF kSubset
<1>5. IsList(order)
      BY <1>3, <1>4, OrderList
<1>6. order \in [1 .. Cardinality(S) -> S]
      BY DEF SetToSeqs
<1>7. \A k \in DOMAIN order : order[k] \in Archived
      BY <1>4, <1>6
<1>8. \A k \in DOMAIN order : order[k].file \in DOMAIN asm
      BY <1>7 DEF Archived
<1>9. PICK J : J = JoinedSections(order)
      OBVIOUS
<1>10. elf'.sections = J
       BY <1>3, <1>9 DEF Shape, ProgramShape
<1>11. \A k \in DOMAIN J : \A m \in DOMAIN J[k].stubs : J[k].stubs[m].library_nid \in Nat /\ J[k].stubs[m].nid \in Nat
       BY <1>5, <1>8, <1>9, JoinedNids
<1>12. SectionNids'
       BY <1>10, <1>11 DEF SectionNids
<1>13. UNCHANGED <<fstubs, vstubs>>
       BY DEF Link
<1> QED
    BY <1>12, <1>13 DEF NidsOK, NidsNat

\* Two lists of stubs in one.
LEMMA ConcatNids ==
  ASSUME NEW s, IsList(s), NidsNat(s), NEW t, IsList(t), NidsNat(t)
  PROVE  NidsNat(s \o t)
<1>1. IsList(s \o t)
      BY ListConcat
<1>2. ASSUME NEW n \in DOMAIN (s \o t) PROVE (s \o t)[n].library_nid \in Nat /\ (s \o t)[n].target_nid \in Nat
  <2>1. n \in 1 .. Len(s \o t)
        BY <1>1, ListFacts
  <2>2. \/ n \in 1 .. Len(s) /\ (s \o t)[n] = s[n]
        \/ n - Len(s) \in 1 .. Len(t) /\ (s \o t)[n] = t[n - Len(s)]
        BY <2>1, ConcatElements
  <2>3. DOMAIN s = 1 .. Len(s) /\ DOMAIN t = 1 .. Len(t)
        BY ListFacts
  <2> QED
      BY <2>2, <2>3 DEF NidsNat
<1> QED
    BY <1>2 DEF NidsNat

\* Stubs have the NIDs of their section.
LEMMA LoadNids == ASSUME Shape, NidsOK, load_stubs PROVE NidsOK'
<1> DEFINE section == elf.sections[i + 1]
           new == StubsOf(section)
<1>1. i + 1 \in DOMAIN elf.sections
  <2>1. Len(elf.sections) \in Nat /\ DOMAIN elf.sections = 1 .. Len(elf.sections)
        BY ListFacts DEF Shape, SectionLists
  <2> QED
      BY <2>1 DEF Shape, load_stubs
<1>2. IsList(new)
      BY <1>1, StubsOfList DEF Shape, SectionLists
<1>3. (fstubs' = fstubs \o new /\ vstubs' = vstubs) \/ (vstubs' = vstubs \o new /\ fstubs' = fstubs)
      BY DEF load_stubs
<1>4. NidsNat(new)
  <2>1. DOMAIN new = DOMAIN section.stubs
        /\ \A n \in DOMAIN new : new[n].library_nid = section.stubs[n].library_nid /\ new[n].target_nid = section.stubs[n].nid
        BY DEF StubsOf
  <2> HIDE DEF new
  <2> QED
      BY <1>1, <2>1 DEF NidsOK, SectionNids, NidsNat
<1> HIDE DEF new
<1>5. IsList(fstubs) /\ IsList(vstubs) /\ NidsNat(fstubs) /\ NidsNat(vstubs)
      BY DEF Shape, StubLists, NidsOK
<1>6. NidsNat(fstubs \o new) /\ NidsNat(vstubs \o new)
      BY <1>2, <1>4, <1>5, ConcatNids
<1>7. NidsNat(fstubs)' /\ NidsNat(vstubs)'
  <2>1. CASE fstubs' = fstubs \o new /\ vstubs' = vstubs
        BY <1>5, <1>6, <2>1 DEF NidsNat
  <2>2. CASE vstubs' = vstubs \o new /\ fstubs' = fstubs
        BY <1>5, <1>6, <2>2 DEF NidsNat
  <2> QED
      BY <1>3, <2>1, <2>2
<1>8. elf' = elf
      BY DEF load_stubs
<1> QED
    BY <1>7, <1>8 DEF NidsOK, SectionNids

\* There are no stubs at first.
LEMMA InitNids == ImportsInit => NidsOK
<1> SUFFICES ASSUME ImportsInit PROVE NidsOK
    OBVIOUS
<1>1. elf.sections = <<>> /\ fstubs = <<>> /\ vstubs = <<>>
      BY DEF ImportsInit, InitWith
<1>2. DOMAIN <<>> = {}
      OBVIOUS
<1> QED
    BY <1>1, <1>2 DEF NidsOK, SectionNids, NidsNat

\* No other step changes the stubs.
LEMMA SameStubs == ASSUME [ImportsNext]_allvars, Pipeline PROVE Link \/ load_stubs \/ UNCHANGED <<elf, fstubs, vstubs>>
<1>1. CASE VitaElfCreate
      BY <1>1, CreateFrames DEF Pipeline, Shape, CreateFrame
<1>2. CASE Written \/ VitaMakeFself
      BY <1>2, WrittenStages DEF Pipeline, Shape, Counters
<1>3. Link \/ UNCHANGED state \/ VitaElfCreate \/ Written \/ VitaMakeFself
      BY Zenon DEF ImportsNext, Generate, Create, allvars
<1> QED
    BY <1>1, <1>2, <1>3 DEF state

\* Every step keeps it.
LEMMA NextNids == ASSUME Pipeline, ReadOK, NidsOK, [ImportsNext]_allvars PROVE NidsOK'
<1>1. CASE Link
      BY <1>1, LinkNids DEF Pipeline, ReadOK
<1>2. CASE load_stubs
      BY <1>2, LoadNids DEF Pipeline
<1>3. CASE UNCHANGED <<elf, fstubs, vstubs>>
      BY <1>3 DEF NidsOK, SectionNids, NidsNat
<1> QED
    BY <1>1, <1>2, <1>3, SameStubs

----------------------------------------------------------------------------
(* The arrays of libraries and stubs stay sorted.                            *)

\* Libraries are in order downwards without duplicates, stubs upwards.
Descending(s) ==
  /\ \A l \in DOMAIN s : s[l].nid \in Nat
  /\ \A l, m \in DOMAIN s : l < m => s[l].nid > s[m].nid
Ascending(s) ==
  /\ \A n \in DOMAIN s : s[n].target_nid \in Nat
  /\ \A m, n \in DOMAIN s : m < n => s[m].target_nid <= s[n].target_nid

\* A library is put where it belongs.
LEMMA SearchSorted ==
  ASSUME LibLists, Descending(libs), NEW nid \in Nat
  PROVE  LET found == search_or_insert(nid)
             at == LibraryIndex(nid) + 1
         IN /\ Descending(found)
            /\ \A n \in DOMAIN found : (\E m \in DOMAIN libs : found[n] = libs[m])
                                       \/ (n = at /\ found[n].functions = <<>> /\ found[n].variables = <<>>)
            /\ \A m \in DOMAIN libs : \E n \in DOMAIN found : found[n] = libs[m]
<1> DEFINE found == search_or_insert(nid)
           at == LibraryIndex(nid)
           new == [nid |-> nid, library |-> <<>>, functions |-> <<>>, variables |-> <<>>]
           f == [m \in DOMAIN libs |-> libs[m].nid - nid]
<1>1. at \in Nat /\ at + 1 \in 1 .. Len(libs) + 1 /\ Len(libs) \in Nat /\ DOMAIN libs = 1 .. Len(libs) /\ IsList(libs)
      BY LibraryIndexRange, ListFacts DEF LibLists
<1>2. new.nid = nid /\ new.functions = <<>> /\ new.variables = <<>>
      OBVIOUS
<1>3. \/ found = libs /\ at < Len(libs) /\ libs[at + 1].nid = nid
      \/ found = InsertAt(libs, at + 1, new) /\ ~ (at < Len(libs) /\ libs[at + 1].nid = nid)
      BY DEF search_or_insert
<1>4. at = get_sorted_insert_index(f)
      BY DEF LibraryIndex
<1>5. f = [m \in DOMAIN libs |-> f[m]] /\ \A m \in DOMAIN libs : f[m] = libs[m].nid - nid
      OBVIOUS
<1> HIDE DEF at, new, found, f
<1>6. Placed(f, at)
  <2>1. IsList(f) /\ Len(f) = Len(libs)
        BY <1>1, <1>5, MapList
  <2>2. \A m \in 1 .. Len(f) : f[m] \in Int
        BY <1>1, <1>5, <2>1 DEF Descending
  <2>3. ASSUME NEW m \in 1 .. Len(f), NEW k \in 1 .. Len(f), m <= k PROVE f[m] >= f[k]
    <3>1. m = k \/ m < k
          BY <2>3
    <3>2. libs[m].nid \in Nat /\ libs[k].nid \in Nat /\ (m < k => libs[m].nid > libs[k].nid)
          BY <1>1, <2>1 DEF Descending
    <3> QED
        BY <1>1, <1>5, <2>1, <3>1, <3>2
  <2> QED
      BY <1>4, <2>1, <2>2, <2>3, IndexPlaced
<1>7. CASE found = libs
      BY <1>7 DEF found
<1>8. CASE found = InsertAt(libs, at + 1, new) /\ ~ (at < Len(libs) /\ libs[at + 1].nid = nid)
  <2>1. Len(f) = Len(libs)
        BY <1>1, <1>5, MapList
  <2>2. (\A m \in 1 .. at : libs[m].nid > nid) /\ (\A m \in at + 1 .. Len(libs) : libs[m].nid < nid)
    <3>1. ~ (at < Len(f) /\ f[at + 1] = 0)
      <4>1. ASSUME at < Len(libs), f[at + 1] = 0 PROVE FALSE
        <5>1. at + 1 \in DOMAIN libs
              BY <1>1, <4>1
        <5>2. libs[at + 1].nid \in Nat /\ f[at + 1] = libs[at + 1].nid - nid
              BY <1>5, <5>1 DEF Descending
        <5>3. libs[at + 1].nid = nid
              BY <4>1, <5>2
        <5> QED
            BY <1>8, <4>1, <5>3
      <4> QED
          BY <2>1, <4>1
    <3>2. (\A m \in 1 .. at : f[m] > 0) /\ (\A m \in at + 1 .. Len(libs) : f[m] < 0)
          BY <1>6, <2>1, <3>1 DEF Placed
    <3>3. (\A m \in 1 .. at : m \in DOMAIN libs) /\ (\A m \in at + 1 .. Len(libs) : m \in DOMAIN libs)
          BY <1>1
    <3>4. \A m \in DOMAIN libs : libs[m].nid \in Nat /\ f[m] = libs[m].nid - nid
          BY <1>5 DEF Descending
    <3>5. \A m \in DOMAIN libs : (f[m] > 0 => libs[m].nid > nid) /\ (f[m] < 0 => libs[m].nid < nid)
          BY <3>4
    <3> QED
        BY <3>2, <3>3, <3>5
  <2>3. IsList(found) /\ Len(found) = Len(libs) + 1
        /\ \A n \in 1 .. Len(libs) + 1 : found[n] = IF n < at + 1 THEN libs[n] ELSE IF n = at + 1 THEN new ELSE libs[n - 1]
        BY <1>1, <1>8, ListInsert
  <2>4. DOMAIN found = 1 .. Len(libs) + 1
        BY <2>3, ListFacts
  <2>5. ASSUME NEW n \in DOMAIN found
        PROVE  \/ n \in 1 .. at /\ n \in DOMAIN libs /\ found[n] = libs[n]
               \/ n = at + 1 /\ found[n] = new
               \/ n - 1 \in at + 1 .. Len(libs) /\ n - 1 \in DOMAIN libs /\ found[n] = libs[n - 1]
    <3>1. n \in 1 .. Len(libs) + 1
          BY <2>4
    <3>2. CASE n < at + 1
      <4>1. n \in 1 .. at /\ n \in DOMAIN libs
            BY <1>1, <3>1, <3>2
      <4> QED
          BY <2>3, <3>1, <3>2, <4>1
    <3>3. CASE n = at + 1
      <4>1. ~ n < at + 1
            BY <1>1, <3>3
      <4> QED
          BY <2>3, <3>1, <3>3, <4>1
    <3>4. CASE n > at + 1
      <4>1. ~ n < at + 1 /\ n # at + 1 /\ n - 1 \in at + 1 .. Len(libs) /\ n - 1 \in DOMAIN libs
            BY <1>1, <3>1, <3>4
      <4> QED
          BY <2>3, <3>1, <4>1
    <3> QED
        BY <1>1, <3>1, <3>2, <3>3, <3>4
  <2>6. \A n \in DOMAIN found : found[n].nid \in Nat
        BY <1>2, <2>5 DEF Descending
  <2>7. ASSUME NEW m \in DOMAIN found, NEW n \in DOMAIN found, m < n PROVE found[m].nid > found[n].nid
    <3>1. m \in 1 .. Len(libs) + 1 /\ n \in 1 .. Len(libs) + 1
          BY <2>4
    <3>2. CASE m \in 1 .. at /\ m \in DOMAIN libs /\ found[m] = libs[m]
      <4>1. CASE n \in 1 .. at /\ n \in DOMAIN libs /\ found[n] = libs[n]
            BY <2>7, <3>2, <4>1 DEF Descending
      <4>2. CASE n = at + 1 /\ found[n] = new
            BY <1>2, <2>2, <3>2, <4>2
      <4>3. CASE n - 1 \in at + 1 .. Len(libs) /\ n - 1 \in DOMAIN libs /\ found[n] = libs[n - 1]
        <5>1. m < n - 1
              BY <1>1, <3>1, <3>2, <4>3
        <5> QED
            BY <3>2, <4>3, <5>1 DEF Descending
      <4> QED
          BY <2>5, <4>1, <4>2, <4>3
    <3>3. CASE m = at + 1 /\ found[m] = new
      <4>1. n - 1 \in at + 1 .. Len(libs) /\ n - 1 \in DOMAIN libs /\ found[n] = libs[n - 1]
        <5>1. n \notin 1 .. at /\ n # at + 1
              BY <1>1, <2>7, <3>1, <3>3
        <5> QED
            BY <2>5, <5>1
      <4>2. libs[n - 1].nid < nid /\ libs[n - 1].nid \in Nat
            BY <2>2, <4>1 DEF Descending
      <4> QED
          BY <1>2, <3>3, <4>1, <4>2
    <3>4. CASE m - 1 \in at + 1 .. Len(libs) /\ m - 1 \in DOMAIN libs /\ found[m] = libs[m - 1]
      <4>1. n - 1 \in at + 1 .. Len(libs) /\ n - 1 \in DOMAIN libs /\ found[n] = libs[n - 1]
        <5>1. n \notin 1 .. at /\ n # at + 1
              BY <1>1, <2>7, <3>1, <3>4
        <5> QED
            BY <2>5, <5>1
      <4>2. m - 1 < n - 1
            BY <2>7, <3>1
      <4> QED
          BY <3>4, <4>1, <4>2 DEF Descending
    <3> QED
        BY <2>5, <3>2, <3>3, <3>4
  <2>8. \A n \in DOMAIN found : (\E m \in DOMAIN libs : found[n] = libs[m])
                                \/ (n = at + 1 /\ found[n].functions = <<>> /\ found[n].variables = <<>>)
        BY <1>2, <2>5
  <2>9. ASSUME NEW m \in DOMAIN libs PROVE \E n \in DOMAIN found : found[n] = libs[m]
    <3>1. CASE m < at + 1
      <4>1. m \in DOMAIN found /\ m \in 1 .. Len(libs) + 1
            BY <1>1, <2>4
      <4> QED
          BY <2>3, <3>1, <4>1
    <3>2. CASE ~ m < at + 1
      <4>1. m + 1 \in DOMAIN found /\ m + 1 \in 1 .. Len(libs) + 1 /\ ~ (m + 1 < at + 1) /\ m + 1 # at + 1 /\ (m + 1) - 1 = m
            BY <1>1, <2>4, <3>2
      <4> QED
          BY <2>3, <4>1
    <3> QED
        BY <3>1, <3>2
  <2> QED
      BY <2>6, <2>7, <2>8, <2>9 DEF Descending, found, at
<1> QED
    BY <1>3, <1>7, <1>8

\* So is a stub; it is left out if one before which it belongs has its address for a NID.
LEMMA StubSorted ==
  ASSUME NEW stubs, IsList(stubs), Ascending(stubs), NEW stub, stub.target_nid \in Nat
  PROVE  LET s == sorted_insert(stubs, stub)
         IN /\ Ascending(s)
            /\ \A m \in DOMAIN stubs : \E n \in DOMAIN s : s[n] = stubs[m]
            /\ (\E n \in DOMAIN s : s[n] = stub) \/ (\E m \in DOMAIN stubs : stubs[m].target_nid = stub.addr)
<1> DEFINE f == [m \in DOMAIN stubs |-> stub.target_nid - stubs[m].target_nid]
           at == get_sorted_insert_index(f)
           s == sorted_insert(stubs, stub)
<1>1. IsList(f) /\ Len(f) = Len(stubs) /\ \A m \in DOMAIN stubs : f[m] = stub.target_nid - stubs[m].target_nid
  <2>1. f = [m \in DOMAIN stubs |-> f[m]] /\ \A m \in DOMAIN stubs : f[m] = stub.target_nid - stubs[m].target_nid
        OBVIOUS
  <2> HIDE DEF f
  <2> QED
      BY <2>1, MapList
<1>2. \/ s = stubs /\ at < Len(stubs) /\ stubs[at + 1].target_nid = stub.addr
      \/ s = InsertAt(stubs, at + 1, stub)
      BY DEF sorted_insert
<1> HIDE DEF f, s
<1>3. Len(stubs) \in Nat /\ DOMAIN stubs = 1 .. Len(stubs)
      BY ListFacts
<1>4. at \in Nat /\ at + 1 \in 1 .. Len(stubs) + 1
  <2>1. at \in 0 .. Len(f)
        BY <1>1, IndexRange
  <2> HIDE DEF at
  <2> QED
      BY <1>1, <1>3, <2>1
<1>5. Placed(f, at)
  <2>1. \A m \in 1 .. Len(f) : f[m] \in Int
        BY <1>1, <1>3 DEF Ascending
  <2>2. ASSUME NEW m \in 1 .. Len(f), NEW k \in 1 .. Len(f), m <= k PROVE f[m] >= f[k]
    <3>1. m = k \/ m < k
          BY <2>2
    <3>2. stubs[m].target_nid \in Nat /\ stubs[k].target_nid \in Nat /\ (m < k => stubs[m].target_nid <= stubs[k].target_nid)
          BY <1>1, <1>3 DEF Ascending
    <3> QED
        BY <1>1, <1>3, <3>1, <3>2
  <2> QED
      BY <1>1, <2>1, <2>2, IndexPlaced
<1> HIDE DEF at
<1>6. CASE s = stubs /\ at < Len(stubs) /\ stubs[at + 1].target_nid = stub.addr
  <2>1. at + 1 \in DOMAIN stubs
        BY <1>3, <1>4, <1>6
  <2> QED
      BY <1>6, <2>1 DEF s
<1>7. CASE s = InsertAt(stubs, at + 1, stub)
  <2>1. ASSUME NEW m \in 1 .. Len(stubs)
        PROVE (m <= at => stubs[m].target_nid <= stub.target_nid) /\ (m > at => stubs[m].target_nid >= stub.target_nid)
    <3>1. m \in DOMAIN stubs /\ stubs[m].target_nid \in Nat /\ f[m] = stub.target_nid - stubs[m].target_nid
          BY <1>1, <1>3 DEF Ascending
    <3>2. CASE at < Len(f) /\ f[at + 1] = 0
      <4>1. at + 1 \in DOMAIN stubs /\ stubs[at + 1].target_nid \in Nat /\ f[at + 1] = stub.target_nid - stubs[at + 1].target_nid
        <5>1. at + 1 \in DOMAIN stubs
              BY <1>1, <1>3, <1>4, <3>2
        <5> QED
            BY <1>1, <5>1 DEF Ascending
      <4>2. stub.target_nid = stubs[at + 1].target_nid
            BY <3>2, <4>1
      <4>3. m < at + 1 => stubs[m].target_nid <= stubs[at + 1].target_nid
            BY <3>1, <4>1 DEF Ascending
      <4>4. m > at + 1 => stubs[at + 1].target_nid <= stubs[m].target_nid
            BY <3>1, <4>1 DEF Ascending
      <4>5. m < at + 1 \/ m = at + 1 \/ m > at + 1
            BY <1>4
      <4> QED
          BY <1>4, <3>1, <4>1, <4>2, <4>3, <4>4, <4>5
    <3>3. CASE ~ (at < Len(f) /\ f[at + 1] = 0)
      <4>1. (\A k \in 1 .. at : f[k] > 0) /\ (\A k \in at + 1 .. Len(f) : f[k] < 0)
            BY <1>5, <3>3 DEF Placed
      <4>2. (m <= at => m \in 1 .. at) /\ (m > at => m \in at + 1 .. Len(f))
            BY <1>1, <1>3, <1>4
      <4>3. (m <= at => f[m] > 0) /\ (m > at => f[m] < 0)
            BY <4>1, <4>2
      <4> QED
          BY <3>1, <4>3
    <3> QED
        BY <3>2, <3>3
  <2>3. IsList(s) /\ Len(s) = Len(stubs) + 1
        /\ \A n \in 1 .. Len(stubs) + 1 : s[n] = IF n < at + 1 THEN stubs[n] ELSE IF n = at + 1 THEN stub ELSE stubs[n - 1]
        BY <1>4, <1>7, ListInsert
  <2>4. DOMAIN s = 1 .. Len(stubs) + 1
        BY <2>3, ListFacts
  <2>5. ASSUME NEW n \in DOMAIN s
        PROVE  \/ n <= at /\ n \in 1 .. Len(stubs) /\ s[n] = stubs[n]
               \/ n = at + 1 /\ s[n] = stub
               \/ n - 1 > at /\ n - 1 \in 1 .. Len(stubs) /\ s[n] = stubs[n - 1]
    <3>1. n \in 1 .. Len(stubs) + 1
          BY <2>4
    <3>2. CASE n < at + 1
      <4>1. n <= at /\ n \in 1 .. Len(stubs)
            BY <1>3, <1>4, <3>1, <3>2
      <4> QED
          BY <2>3, <3>1, <3>2, <4>1
    <3>3. CASE n = at + 1
      <4>1. ~ n < at + 1
            BY <1>4, <3>3
      <4> QED
          BY <2>3, <3>1, <3>3, <4>1
    <3>4. CASE n > at + 1
      <4>1. ~ n < at + 1 /\ n # at + 1 /\ n - 1 > at /\ n - 1 \in 1 .. Len(stubs)
            BY <1>3, <1>4, <3>1, <3>4
      <4> QED
          BY <2>3, <3>1, <4>1
    <3> QED
        BY <1>4, <3>1, <3>2, <3>3, <3>4
  <2>6. \A n \in DOMAIN s : s[n].target_nid \in Nat
        BY <1>3, <2>5 DEF Ascending
  <2>7. ASSUME NEW m \in DOMAIN s, NEW n \in DOMAIN s, m < n PROVE s[m].target_nid <= s[n].target_nid
    <3>1. m \in 1 .. Len(stubs) + 1 /\ n \in 1 .. Len(stubs) + 1
          BY <2>4
    <3>2. CASE m <= at /\ m \in 1 .. Len(stubs) /\ s[m] = stubs[m]
      <4>1. CASE n <= at /\ n \in 1 .. Len(stubs) /\ s[n] = stubs[n]
            BY <1>3, <2>7, <3>2, <4>1 DEF Ascending
      <4>2. CASE n = at + 1 /\ s[n] = stub
            BY <2>1, <3>2, <4>2
      <4>3. CASE n - 1 > at /\ n - 1 \in 1 .. Len(stubs) /\ s[n] = stubs[n - 1]
        <5>1. m < n - 1
              BY <1>4, <3>1, <3>2, <4>3
        <5> QED
            BY <1>3, <3>2, <4>3, <5>1 DEF Ascending
      <4> QED
          BY <2>5, <4>1, <4>2, <4>3
    <3>3. CASE m = at + 1 /\ s[m] = stub
      <4>1. n - 1 > at /\ n - 1 \in 1 .. Len(stubs) /\ s[n] = stubs[n - 1]
        <5>1. ~ n <= at /\ n # at + 1
              BY <1>4, <2>7, <3>1, <3>3
        <5> QED
            BY <2>5, <5>1
      <4>2. stubs[n - 1].target_nid >= stub.target_nid /\ stubs[n - 1].target_nid \in Nat
            BY <1>3, <2>1, <4>1 DEF Ascending
      <4> QED
          BY <3>3, <4>1, <4>2
    <3>4. CASE m - 1 > at /\ m - 1 \in 1 .. Len(stubs) /\ s[m] = stubs[m - 1]
      <4>1. n - 1 > at /\ n - 1 \in 1 .. Len(stubs) /\ s[n] = stubs[n - 1]
        <5>1. ~ n <= at /\ n # at + 1
              BY <1>4, <2>7, <3>1, <3>4
        <5> QED
            BY <2>5, <5>1
      <4>2. m - 1 < n - 1
            BY <2>7, <3>1
      <4> QED
          BY <1>3, <3>4, <4>1, <4>2 DEF Ascending
    <3> QED
        BY <2>5, <3>2, <3>3, <3>4
  <2>9. ASSUME NEW m \in DOMAIN stubs PROVE \E n \in DOMAIN s : s[n] = stubs[m]
    <3>1. CASE m < at + 1
      <4>1. m \in DOMAIN s /\ m \in 1 .. Len(stubs) + 1
            BY <1>3, <2>4
      <4> QED
          BY <2>3, <3>1, <4>1
    <3>2. CASE ~ m < at + 1
      <4>1. m + 1 \in DOMAIN s /\ m + 1 \in 1 .. Len(stubs) + 1 /\ ~ (m + 1 < at + 1) /\ m + 1 # at + 1 /\ (m + 1) - 1 = m
            BY <1>3, <1>4, <2>4, <3>2
      <4> QED
          BY <2>3, <4>1
    <3> QED
        BY <3>1, <3>2
  <2>10. at + 1 \in DOMAIN s /\ s[at + 1] = stub
    <3>1. at + 1 \in 1 .. Len(stubs) + 1 /\ ~ (at + 1 < at + 1)
          BY <1>4
    <3> QED
        BY <2>3, <2>4, <3>1
  <2> QED
      BY <2>6, <2>7, <2>9, <2>10 DEF Ascending, s
<1> QED
    BY <1>2, <1>6, <1>7

\* The tables of a library.
Tables == {"functions", "variables"}
\* An entry is one of the stubs inserted so far; so is each library, with sorted tables.
Seen(k, t, nid, x) == \E n \in 1 .. k : Stubs[n] = x /\ TableOf(n) = t /\ x.library_nid = nid
TablesOK ==
  \A l \in DOMAIN libs :
    /\ \E n \in 1 .. i : Stubs[n].library_nid = libs[l].nid
    /\ \A t \in Tables : Ascending(libs[l][t]) /\ \A v \in DOMAIN libs[l][t] : Seen(i, t, libs[l].nid, libs[l][t][v])
Inserted(n) ==
  \E l \in DOMAIN libs : /\ libs[l].nid = Stubs[n].library_nid
                        /\ \E v \in DOMAIN libs[l][TableOf(n)] : libs[l][TableOf(n)][v] = Stubs[n]
\* While stubs are inserted.
SortedInv ==
  stage = "imports" =>
    i <= Len(Stubs) /\ Descending(libs) /\ TablesOK /\ \A n \in 1 .. i : ~ Lost(n) => Inserted(n)
Stubbed == \A l \in DOMAIN libs : \E n \in DOMAIN Stubs : Stubs[n].library_nid = libs[l].nid

\* The stubs are those of functions, and then those of variables.
LEMMA StubsFacts ==
  ASSUME StubLists
  PROVE  /\ IsList(Stubs) /\ Len(Stubs) = Len(fstubs) + Len(vstubs) /\ DOMAIN Stubs = 1 .. Len(Stubs)
         /\ Len(fstubs) \in Nat /\ Len(vstubs) \in Nat
         /\ \A n \in 1 .. Len(Stubs) : Stubs[n] = IF n <= Len(fstubs) THEN fstubs[n] ELSE vstubs[n - Len(fstubs)]
<1>1. IsList(fstubs) /\ IsList(vstubs)
      BY DEF StubLists
<1>2. Len(fstubs) \in Nat /\ Len(vstubs) \in Nat
      BY <1>1, ListFacts
<1>3. /\ IsList(Stubs) /\ Len(Stubs) = Len(fstubs) + Len(vstubs)
      /\ \A n \in 1 .. Len(fstubs) + Len(vstubs) : Stubs[n] = IF n <= Len(fstubs) THEN fstubs[n] ELSE vstubs[n - Len(fstubs)]
      BY <1>1, ListConcat DEF Stubs
<1> QED
    BY <1>2, <1>3, ListFacts

\* Inserting a stub keeps the arrays sorted, and what is in them is one of the stubs.
LEMMA InsertSorted ==
  ASSUME LibLists, StubLists, NidsOK, SortedInv, stage = "imports", i \in Nat, i < Len(Stubs),
         Insert(Stubs[i + 1], TableOf(i + 1)), i' = i + 1, UNCHANGED <<fstubs, vstubs>>
  PROVE  SortedInv' /\ Stubbed'
<1> DEFINE stub == Stubs[i + 1]
           table == TableOf(i + 1)
           found == search_or_insert(stub.library_nid)
           at == LibraryIndex(stub.library_nid) + 1
<1>1. Len(Stubs) \in Nat /\ DOMAIN Stubs = 1 .. Len(Stubs) /\ i + 1 \in 1 .. Len(Stubs) /\ table \in Tables
      BY StubsFacts DEF TableOf, Tables
<1>2. stub.library_nid \in Nat /\ stub.target_nid \in Nat
  <2>1. CASE i + 1 <= Len(fstubs)
    <3>1. i + 1 \in DOMAIN fstubs /\ stub = fstubs[i + 1]
      <4>0. IsList(fstubs) /\ Len(fstubs) \in Nat
            BY StubsFacts DEF StubLists
      <4>1. IsList(fstubs) /\ i + 1 \in 1 .. Len(fstubs)
            BY <2>1, <4>0
      <4> QED
          BY <1>1, <2>1, <4>1, StubsFacts, ListFacts
    <3> QED
        BY <3>1 DEF NidsOK, NidsNat
  <2>2. CASE ~ i + 1 <= Len(fstubs)
    <3>1. i + 1 - Len(fstubs) \in DOMAIN vstubs /\ stub = vstubs[i + 1 - Len(fstubs)]
      <4>0. IsList(vstubs) /\ Len(fstubs) \in Nat /\ Len(vstubs) \in Nat /\ Len(Stubs) = Len(fstubs) + Len(vstubs)
            BY StubsFacts DEF StubLists
      <4>1. IsList(vstubs) /\ i + 1 - Len(fstubs) \in 1 .. Len(vstubs)
            BY <2>2, <4>0
      <4> QED
          BY <1>1, <2>2, <4>1, StubsFacts, ListFacts
    <3> QED
        BY <3>1 DEF NidsOK, NidsNat
  <2> QED
      BY <2>1, <2>2
<1>3. Descending(libs) /\ TablesOK /\ \A n \in 1 .. i : ~ Lost(n) => Inserted(n)
      BY DEF SortedInv
<1> HIDE DEF stub, table
<1>0. stub = Stubs[i + 1] /\ table = TableOf(i + 1) /\ Insert(stub, table)
      BY DEF stub, table
<1>4. /\ DOMAIN libs' = DOMAIN found
      /\ \A n \in DOMAIN found : n # at => libs'[n] = found[n]
      /\ libs'[at].nid = found[at].nid
      /\ \A t \in Tables : libs'[at][t] = IF t = table THEN sorted_insert(found[at][t], stub) ELSE found[at][t]
      BY <1>0, <1>1, InsertStep DEF Tables
<1>5. at \in DOMAIN found /\ found[at].nid = stub.library_nid
      BY SearchOrInsertFacts
<1>6. /\ Descending(found)
      /\ \A n \in DOMAIN found : (\E m \in DOMAIN libs : found[n] = libs[m])
                                 \/ (n = at /\ found[n].functions = <<>> /\ found[n].variables = <<>>)
      /\ \A m \in DOMAIN libs : \E n \in DOMAIN found : found[n] = libs[m]
      BY <1>2, <1>3, SearchSorted
<1>7. \A n \in DOMAIN found : IsList(found[n].functions) /\ IsList(found[n].variables)
      BY SearchOrInsertLists DEF LibraryOK
<1> HIDE DEF found, at
<1>8. ASSUME NEW n \in DOMAIN found, NEW t \in Tables
      PROVE  Ascending(found[n][t]) /\ \A v \in DOMAIN found[n][t] : Seen(i, t, found[n].nid, found[n][t][v])
  <2>1. CASE \E m \in DOMAIN libs : found[n] = libs[m]
        BY <1>3, <2>1 DEF TablesOK
  <2>2. CASE found[n].functions = <<>> /\ found[n].variables = <<>>
    <3>1. found[n][t] = <<>> /\ DOMAIN <<>> = {}
          BY <2>2 DEF Tables
    <3> QED
        BY <3>1 DEF Ascending
  <2> QED
      BY <1>6, <2>1, <2>2
<1>9. \A n \in DOMAIN found : libs'[n].nid = found[n].nid
      BY <1>4
<1>10. Descending(libs')
       BY <1>4, <1>6, <1>9 DEF Descending
<1> DEFINE s == sorted_insert(found[at][table], stub)
<1>11. IsList(found[at][table])
       BY <1>1, <1>5, <1>7 DEF Tables
<1>12. /\ Ascending(s)
       /\ \A m \in DOMAIN found[at][table] : \E n \in DOMAIN s : s[n] = found[at][table][m]
       /\ (\E n \in DOMAIN s : s[n] = stub) \/ (\E m \in DOMAIN found[at][table] : found[at][table][m].target_nid = stub.addr)
       BY <1>1, <1>2, <1>5, <1>8, <1>11, StubSorted
<1>13. \A n \in DOMAIN s : s[n] = stub \/ \E m \in DOMAIN found[at][table] : s[n] = found[at][table][m]
       BY <1>11, SortedInsertElements
<1> HIDE DEF s
<1>14. libs'[at][table] = s /\ \A t \in Tables : t # table => libs'[at][t] = found[at][t]
       BY <1>1, <1>4 DEF s
<1>15. \A k \in 1 .. i + 1 : k \in 1 .. i \/ k = i + 1
       OBVIOUS
<1>16. \A t, nid, x : Seen(i, t, nid, x) => Seen(i + 1, t, nid, x)
  <2>1. \A k \in 1 .. i : k \in 1 .. i + 1
        OBVIOUS
  <2> QED
      BY <2>1 DEF Seen
<1>17. Seen(i + 1, table, stub.library_nid, stub)
  <2>1. i + 1 \in 1 .. i + 1
        OBVIOUS
  <2> QED
      BY <1>0, <2>1 DEF Seen
<1>18. ASSUME NEW l \in DOMAIN libs', NEW t \in Tables
       PROVE  Ascending(libs'[l][t]) /\ \A v \in DOMAIN libs'[l][t] : Seen(i + 1, t, libs'[l].nid, libs'[l][t][v])
  <2>1. CASE l # at \/ t # table
    <3>1. libs'[l][t] = found[l][t] /\ l \in DOMAIN found
          BY <1>4, <1>14, <2>1
    <3> QED
        BY <1>8, <1>9, <1>16, <3>1
  <2>2. CASE l = at /\ t = table
    <3>1. ASSUME NEW v \in DOMAIN s PROVE Seen(i + 1, table, stub.library_nid, s[v])
      <4>1. CASE s[v] = stub
            BY <1>17, <4>1
      <4>2. CASE \E m \in DOMAIN found[at][table] : s[v] = found[at][table][m]
            BY <1>1, <1>5, <1>8, <1>16, <4>2
      <4> QED
          BY <1>13, <4>1, <4>2
    <3> QED
        BY <1>5, <1>9, <1>12, <1>14, <2>2, <3>1
  <2> QED
      BY <2>1, <2>2
<1>19. ASSUME NEW l \in DOMAIN libs' PROVE \E n \in 1 .. i + 1 : Stubs[n].library_nid = libs'[l].nid
  <2>1. CASE \E m \in DOMAIN libs : found[l] = libs[m]
    <3>1. PICK m \in DOMAIN libs : found[l] = libs[m]
          BY <2>1
    <3>2. PICK n \in 1 .. i : Stubs[n].library_nid = libs[m].nid
          BY <1>3 DEF TablesOK
    <3>3. n \in 1 .. i + 1
          OBVIOUS
    <3> QED
        BY <1>4, <1>9, <3>1, <3>2, <3>3
  <2>2. CASE l = at
    <3>1. i + 1 \in 1 .. i + 1
          OBVIOUS
    <3> QED
        BY <1>0, <1>5, <1>9, <2>2, <3>1
  <2> QED
      BY <1>4, <1>6, <2>1, <2>2
<1>20. ASSUME NEW n \in 1 .. i + 1, ~ Lost(n)
       PROVE  \E l \in DOMAIN libs' : /\ libs'[l].nid = Stubs[n].library_nid
                                      /\ \E v \in DOMAIN libs'[l][TableOf(n)] : libs'[l][TableOf(n)][v] = Stubs[n]
  <2>1. CASE n \in 1 .. i
    <3>1. PICK m \in DOMAIN libs : libs[m].nid = Stubs[n].library_nid /\ \E v \in DOMAIN libs[m][TableOf(n)] : libs[m][TableOf(n)][v] = Stubs[n]
          BY <1>3, <1>20, <2>1 DEF Inserted
    <3>2. PICK l \in DOMAIN found : found[l] = libs[m]
          BY <1>6
    <3>3. PICK t \in Tables : t = TableOf(n)
          BY DEF TableOf, Tables
    <3>4. PICK v \in DOMAIN found[l][t] : found[l][t][v] = Stubs[n]
          BY <3>1, <3>2, <3>3
    <3>5. libs'[l].nid = Stubs[n].library_nid /\ l \in DOMAIN libs'
          BY <1>4, <1>9, <3>1, <3>2
    <3>6. \E w \in DOMAIN libs'[l][t] : libs'[l][t][w] = Stubs[n]
      <4>1. CASE l # at \/ t # table
            BY <1>4, <1>14, <3>4, <4>1
      <4>2. CASE l = at /\ t = table
            BY <1>12, <1>14, <3>4, <4>2
      <4> QED
          BY <4>1, <4>2
    <3> QED
        BY <3>3, <3>5, <3>6
  <2>2. CASE n = i + 1
    <3>1. ~ \E m \in DOMAIN found[at][table] : found[at][table][m].target_nid = stub.addr
      <4> SUFFICES ASSUME NEW m \in DOMAIN found[at][table], found[at][table][m].target_nid = stub.addr PROVE FALSE
          OBVIOUS
      <4>1. Seen(i, table, found[at].nid, found[at][table][m])
            BY <1>1, <1>5, <1>8
      <4>2. PICK k \in 1 .. i : Stubs[k] = found[at][table][m] /\ TableOf(k) = table /\ found[at][table][m].library_nid = found[at].nid
            BY <4>1 DEF Seen
      <4>3. k \in DOMAIN Stubs
            BY <1>1
      <4>4. Lost(i + 1)
            BY <1>0, <1>5, <4>2, <4>3 DEF Lost
      <4> QED
          BY <1>20, <2>2, <4>4
    <3>2. PICK v \in DOMAIN s : s[v] = stub
          BY <1>12, <3>1
    <3>3. at \in DOMAIN libs' /\ libs'[at].nid = stub.library_nid /\ libs'[at][table][v] = stub /\ v \in DOMAIN libs'[at][table]
          BY <1>4, <1>5, <1>14, <3>2
    <3> QED
        BY <1>0, <2>2, <3>3
  <2> QED
      BY <1>15, <2>1, <2>2
<1>21. PICK L : L = libs'
       OBVIOUS
<1>22. Stubs' = Stubs /\ (\A n : TableOf(n)' = TableOf(n)) /\ \A n : Lost(n)' = Lost(n)
       BY DEF Stubs, TableOf, Lost
<1>23. TablesOK'
  <2>1. fstubs' = fstubs /\ vstubs' = vstubs /\ i' = i + 1
        OBVIOUS
  <2>2. ASSUME NEW l \in DOMAIN L
        PROVE  /\ \E n \in 1 .. i + 1 : Stubs[n].library_nid = L[l].nid
               /\ \A t \in Tables : Ascending(L[l][t]) /\ \A v \in DOMAIN L[l][t] : Seen(i + 1, t, L[l].nid, L[l][t][v])
        BY <1>18, <1>19, <1>21
  <2>3. \A l \in DOMAIN L :
          /\ \E n \in 1 .. i + 1 : (fstubs \o vstubs)[n].library_nid = L[l].nid
          /\ \A t \in Tables :
               /\ Ascending(L[l][t])
               /\ \A v \in DOMAIN L[l][t] :
                    \E n \in 1 .. i + 1 : /\ (fstubs \o vstubs)[n] = L[l][t][v]
                                         /\ (IF n <= Len(fstubs) THEN "functions" ELSE "variables") = t
                                         /\ L[l][t][v].library_nid = L[l].nid
        BY <2>2 DEF Seen, TableOf, Stubs
  <2>4. \A l \in DOMAIN libs' :
          /\ \E n \in 1 .. i' : (fstubs' \o vstubs')[n].library_nid = libs'[l].nid
          /\ \A t \in Tables :
               /\ Ascending(libs'[l][t])
               /\ \A v \in DOMAIN libs'[l][t] :
                    \E n \in 1 .. i' : /\ (fstubs' \o vstubs')[n] = libs'[l][t][v]
                                      /\ (IF n <= Len(fstubs') THEN "functions" ELSE "variables") = t
                                      /\ libs'[l][t][v].library_nid = libs'[l].nid
    <3> DEFINE P(F, V, k, M) ==
                 \A l \in DOMAIN M :
                   /\ \E n \in 1 .. k : (F \o V)[n].library_nid = M[l].nid
                   /\ \A t \in Tables :
                        /\ Ascending(M[l][t])
                        /\ \A v \in DOMAIN M[l][t] :
                             \E n \in 1 .. k : /\ (F \o V)[n] = M[l][t][v]
                                              /\ (IF n <= Len(F) THEN "functions" ELSE "variables") = t
                                              /\ M[l][t][v].library_nid = M[l].nid
    <3>1. P(fstubs, vstubs, i + 1, L)
          BY <2>3
    <3>2. P(fstubs', vstubs', i', libs')
      <4> HIDE DEF P
      <4> QED
          BY <1>21, <2>1, <3>1
    <3> QED
        BY <3>2
  <2> QED
      BY <2>4, Zenon DEF TablesOK, Ascending, Seen, TableOf, Stubs
<1>24. \A n \in 1 .. i' : ~ Lost(n)' => Inserted(n)'
  <2>1. \A n \in 1 .. i + 1 : ~ Lost(n) =>
          \E l \in DOMAIN L : L[l].nid = Stubs[n].library_nid /\ \E v \in DOMAIN L[l][TableOf(n)] : L[l][TableOf(n)][v] = Stubs[n]
        BY <1>20, <1>21
  <2>2. \A n \in 1 .. i + 1 : ~ Lost(n)' =>
          \E l \in DOMAIN L : L[l].nid = Stubs'[n].library_nid /\ \E v \in DOMAIN L[l][TableOf(n)'] : L[l][TableOf(n)'][v] = Stubs'[n]
        BY <1>22, <2>1
  <2> QED
      BY <1>21, <2>2 DEF Inserted
<1>25. i' <= Len(Stubs')
       BY <1>1, <1>22
<1>26. Descending(libs)'
       BY <1>10 DEF Descending
<1>27. Stubbed'
  <2>1. ASSUME NEW l \in DOMAIN L PROVE \E n \in DOMAIN Stubs : Stubs[n].library_nid = L[l].nid
    <3>1. PICK n \in 1 .. i + 1 : Stubs[n].library_nid = L[l].nid
          BY <1>19, <1>21
    <3>2. n \in DOMAIN Stubs
          BY <1>1
    <3> QED
        BY <3>1, <3>2
  <2> QED
      BY <1>21, <1>22, <2>1 DEF Stubbed
<1> QED
    BY <1>23, <1>24, <1>25, <1>26, <1>27 DEF SortedInv

\* The arrays are sorted while they are filled, and there is no library without a stub.
SortedOK == SortedInv /\ Stubbed

\* There is no library at first.
LEMMA InitSorted == ImportsInit => SortedOK
<1> SUFFICES ASSUME ImportsInit PROVE SortedOK
    OBVIOUS
<1>1. stage = "link" /\ libs = <<>> /\ DOMAIN <<>> = {}
      BY DEF ImportsInit, InitWith
<1> QED
    BY <1>1 DEF SortedOK, SortedInv, Stubbed

\* The stages are passed one way.
LEMMA CreatePhases ==
  ASSUME VitaElfCreate, i \in Nat
  PROVE  \/ stage \in Early /\ UNCHANGED libs /\ (stage' = "imports" => i' = 0)
         \/ InsertFunction \/ InsertVariable \/ ImportsDone
         \/ /\ stage \in {"size"} \cup Encoding /\ stage' \in Encoding \cup {"null", "crash", "overrun"}
            /\ UNCHANGED <<libs, fstubs, vstubs>>
<1> USE DEF To, Again, Early, Encoding
<1>1. CASE load_stubs \/ Loaded \/ vita_elf_generate_exports \/ sce_elf_module_params_create \/ set_main_module_export
      BY <1>1 DEF load_stubs, Loaded, vita_elf_generate_exports, sce_elf_module_params_create, set_main_module_export
<1>2. CASE set_module_export \/ ExportsDone
      BY <1>2 DEF set_module_export, ExportsDone
<1>3. CASE Sized \/ Place \/ EncodeInfo \/ EncodeExport \/ ExportsEncoded \/ EncodeImport \/ Encoded
      BY <1>3 DEF Sized, Place, EncodeInfo, EncodeExport, ExportsEncoded, EncodeImport, Encoded
<1> QED
    BY <1>1, <1>2, <1>3 DEF VitaElfCreate

\* The import tables have the NIDs of the libraries.
LEMMA ImportsDoneStubbed == ASSUME Stubbed, ImportsDone PROVE Stubbed'
<1>1. fstubs' = fstubs /\ vstubs' = vstubs /\ libs' = [n \in DOMAIN libs |-> set_module_import(libs[n])]
      BY DEF ImportsDone
<1>2. Stubs' = Stubs
      BY <1>1 DEF Stubs
<1>3. \A n \in DOMAIN libs : set_module_import(libs[n]).nid = libs[n].nid
      BY DEF set_module_import
<1>4. DOMAIN libs' = DOMAIN libs /\ \A n \in DOMAIN libs : libs'[n].nid = libs[n].nid
      BY <1>1, <1>3
<1> QED
    BY <1>2, <1>4 DEF Stubbed

\* Each step of vita-elf-create keeps the arrays sorted.
LEMMA CreateSorted == ASSUME Pipeline, NidsOK, SortedOK, VitaElfCreate PROVE SortedOK'
<1>1. LibLists /\ StubLists /\ i \in Nat /\ SortedInv /\ Stubbed
      BY DEF Pipeline, Shape, SortedOK
<1>2. IsList(fstubs) /\ IsList(vstubs) /\ Len(fstubs) \in Nat /\ Len(vstubs) \in Nat /\ Len(Stubs) = Len(fstubs) + Len(vstubs)
      /\ \A n \in 1 .. Len(Stubs) : Stubs[n] = IF n <= Len(fstubs) THEN fstubs[n] ELSE vstubs[n - Len(fstubs)]
      BY <1>1, StubsFacts DEF StubLists
<1>3. CASE stage \in Early /\ UNCHANGED libs /\ (stage' = "imports" => i' = 0)
  <2>1. libs' = <<>> /\ DOMAIN <<>> = {}
        BY <1>3 DEF Pipeline, VariablesFound
  <2>2. Stubbed'
        BY <2>1 DEF Stubbed
  <2>3. SortedInv'
    <3> SUFFICES ASSUME stage' = "imports"
                 PROVE (i <= Len(Stubs) /\ Descending(libs) /\ TablesOK /\ \A n \in 1 .. i : ~ Lost(n) => Inserted(n))'
        BY DEF SortedInv
    <3>1. ExportsDone
      <4> USE DEF To, Again, Early
      <4>1. CASE load_stubs \/ Loaded \/ vita_elf_generate_exports \/ sce_elf_module_params_create \/ set_main_module_export
            BY <4>1 DEF load_stubs, Loaded, vita_elf_generate_exports, sce_elf_module_params_create, set_main_module_export
      <4>2. CASE set_module_export
            BY <4>2 DEF set_module_export
      <4>3. CASE InsertFunction \/ InsertVariable \/ ImportsDone
            BY <1>3, <4>3 DEF InsertFunction, InsertVariable, ImportsDone
      <4>4. CASE Sized \/ Place \/ EncodeInfo \/ EncodeExport \/ ExportsEncoded \/ EncodeImport \/ Encoded
            BY <1>3, <4>4 DEF Sized, Place, EncodeInfo, EncodeExport, ExportsEncoded, EncodeImport, Encoded
      <4> QED
          BY <4>1, <4>2, <4>3, <4>4 DEF VitaElfCreate
    <3>2. i' = 0 /\ fstubs' = fstubs /\ vstubs' = vstubs
          BY <3>1 DEF ExportsDone, To
    <3>3. Stubs' = Stubs
          BY <3>2 DEF Stubs
    <3>4. i' <= Len(Stubs')
          BY <1>2, <3>2, <3>3
    <3>5. Descending(libs)' /\ TablesOK'
          BY <2>1 DEF Descending, TablesOK
    <3>6. \A n \in 1 .. i' : FALSE
          BY <3>2
    <3> QED
        BY <3>4, <3>5, <3>6
  <2> QED
      BY <2>2, <2>3 DEF SortedOK
<1>4. CASE InsertFunction
  <2>1. stage = "imports" /\ i < Len(fstubs) /\ Insert(fstubs[i + 1], "functions") /\ i' = i + 1 /\ UNCHANGED <<fstubs, vstubs>>
        BY <1>4 DEF InsertFunction, Again
  <2>2. i < Len(Stubs) /\ TableOf(i + 1) = "functions" /\ Stubs[i + 1] = fstubs[i + 1]
        BY <1>1, <1>2, <2>1 DEF TableOf
  <2>3. Insert(Stubs[i + 1], TableOf(i + 1))
        BY <2>1, <2>2 DEF Insert
  <2> QED
      BY <1>1, <2>1, <2>2, <2>3, InsertSorted DEF SortedOK
<1>5. CASE InsertVariable
  <2>1. stage = "imports" /\ i >= Len(fstubs) /\ i < Len(fstubs) + Len(vstubs) /\ Insert(vstubs[i - Len(fstubs) + 1], "variables")
        /\ i' = i + 1 /\ UNCHANGED <<fstubs, vstubs>>
        BY <1>5 DEF InsertVariable, Again
  <2>2. i < Len(Stubs) /\ TableOf(i + 1) = "variables" /\ Stubs[i + 1] = vstubs[i - Len(fstubs) + 1]
    <3>1. i + 1 \in 1 .. Len(Stubs) /\ ~ i + 1 <= Len(fstubs) /\ i + 1 - Len(fstubs) = i - Len(fstubs) + 1
          BY <1>1, <1>2, <2>1
    <3> QED
        BY <1>1, <1>2, <3>1 DEF TableOf
  <2>3. Insert(Stubs[i + 1], TableOf(i + 1))
        BY <2>1, <2>2 DEF Insert
  <2> QED
      BY <1>1, <2>1, <2>2, <2>3, InsertSorted DEF SortedOK
<1>6. CASE ImportsDone
  <2>1. stage' # "imports"
        BY <1>6 DEF ImportsDone, To
  <2> QED
      BY <1>1, <1>6, <2>1, ImportsDoneStubbed DEF SortedOK, SortedInv
<1>7. CASE /\ stage \in {"size"} \cup Encoding /\ stage' \in Encoding \cup {"null", "crash", "overrun"}
           /\ UNCHANGED <<libs, fstubs, vstubs>>
  <2>1. stage' # "imports" /\ libs' = libs /\ Stubs' = Stubs
        BY <1>7 DEF Encoding, Stubs
  <2> QED
      BY <1>1, <2>1 DEF SortedOK, SortedInv, Stubbed
<1> QED
    BY <1>1, <1>3, <1>4, <1>5, <1>6, <1>7, CreatePhases

\* Steps of the other programs leave the tables alone.
LEMMA NextSorted == ASSUME Pipeline, NidsOK, SortedOK, [ImportsNext]_allvars PROVE SortedOK'
<1>1. CASE Generate \/ (Terminated /\ UNCHANGED allvars) \/ UNCHANGED allvars
  <2>1. UNCHANGED <<stage, i, fstubs, vstubs, libs>>
        BY <1>1 DEF Generate, allvars, state
  <2>2. Stubs' = Stubs
        BY <2>1 DEF Stubs
  <2>3. Stubbed'
        BY <2>1, <2>2 DEF SortedOK, Stubbed
  <2>4. TablesOK' <=> TablesOK
    <3> DEFINE P(F, V, k, M) ==
                 \A l \in DOMAIN M :
                   /\ \E n \in 1 .. k : (F \o V)[n].library_nid = M[l].nid
                   /\ \A t \in Tables :
                        /\ Ascending(M[l][t])
                        /\ \A v \in DOMAIN M[l][t] :
                             \E n \in 1 .. k : /\ (F \o V)[n] = M[l][t][v]
                                              /\ (IF n <= Len(F) THEN "functions" ELSE "variables") = t
                                              /\ M[l][t][v].library_nid = M[l].nid
    <3>1. TablesOK <=> P(fstubs, vstubs, i, libs)
          BY Zenon DEF TablesOK, Seen, TableOf, Stubs
    <3>2. TablesOK' <=> P(fstubs', vstubs', i', libs')
          BY Zenon DEF TablesOK, Seen, TableOf, Stubs, Ascending
    <3>3. P(fstubs', vstubs', i', libs') <=> P(fstubs, vstubs, i, libs)
      <4> HIDE DEF P
      <4> QED
          BY <2>1
    <3> QED
        BY <3>1, <3>2, <3>3
  <2>5. (\A n \in 1 .. i : ~ Lost(n) => Inserted(n))' <=> \A n \in 1 .. i : ~ Lost(n) => Inserted(n)
        BY <2>1, ZenonT(40) DEF Lost, Inserted, TableOf, Stubs
  <2>6. SortedInv'
        BY <2>1, <2>2, <2>4, <2>5 DEF SortedOK, SortedInv, Descending
  <2> QED
      BY <2>3, <2>6 DEF SortedOK
<1>2. CASE Link
  <2>1. stage' = "load" /\ libs' = <<>> /\ DOMAIN <<>> = {}
        BY <1>2 DEF Link, Pipeline, VariablesFound, Early
  <2> QED
      BY <2>1 DEF SortedOK, SortedInv, Stubbed
<1>3. CASE Create
  <2>1. CASE VitaElfCreate
        BY <2>1, CreateSorted
  <2>2. CASE Written \/ VitaMakeFself
    <3>1. i \in Nat
          BY DEF Pipeline, Shape
    <3>2. stage' \in Writing \cup {"failure", "crash"} /\ UNCHANGED Counters
          BY <2>2, <3>1, WrittenStages
    <3>3. stage' # "imports" /\ libs' = libs /\ Stubs' = Stubs
          BY <3>2 DEF Counters, Stubs, Writing, Creating, Unpacked, Finished
    <3> QED
        BY <3>3 DEF SortedOK, SortedInv, Stubbed
  <2> QED
      BY <1>3, <2>1, <2>2 DEF Create
<1> QED
    BY <1>1, <1>2, <1>3 DEF ImportsNext

\* Two elements that follow each other are in order, and what is inserted is found.
LEMMA SortedLists == ASSUME LibLists, SortedInv PROVE ListsSorted
<1> SUFFICES ASSUME stage = "imports"
             PROVE  /\ \A l \in 1 .. Len(libs) - 1 : libs[l].nid > libs[l + 1].nid
                    /\ \A l \in DOMAIN libs : \A t \in {"functions", "variables"} :
                         \A n \in 1 .. Len(libs[l][t]) - 1 : libs[l][t][n].target_nid <= libs[l][t][n + 1].target_nid
                    /\ \A n \in 1 .. i : ~ Lost(n) =>
                         \E l \in DOMAIN libs : libs[l].nid = Stubs[n].library_nid /\ Stubs[n] \in ToSet(libs[l][TableOf(n)])
    BY DEF ListsSorted
<1>1. Descending(libs) /\ TablesOK /\ \A n \in 1 .. i : ~ Lost(n) => Inserted(n)
      BY DEF SortedInv
<1>2. DOMAIN libs = 1 .. Len(libs) /\ Len(libs) \in Nat
      BY ListFacts DEF LibLists
<1>3. ASSUME NEW l \in 1 .. Len(libs) - 1 PROVE libs[l].nid > libs[l + 1].nid
  <2>1. l \in DOMAIN libs /\ l + 1 \in DOMAIN libs /\ l < l + 1
        BY <1>2
  <2> QED
      BY <1>1, <2>1 DEF Descending
<1>4. ASSUME NEW l \in DOMAIN libs, NEW t \in {"functions", "variables"}, NEW n \in 1 .. Len(libs[l][t]) - 1
      PROVE  libs[l][t][n].target_nid <= libs[l][t][n + 1].target_nid
  <2>1. IsList(libs[l][t]) /\ Ascending(libs[l][t])
        BY <1>1 DEF LibLists, TablesOK, Tables
  <2>2. n \in DOMAIN libs[l][t] /\ n + 1 \in DOMAIN libs[l][t] /\ n < n + 1
        BY <2>1, ListFacts
  <2> QED
      BY <2>1, <2>2 DEF Ascending
<1>5. ASSUME NEW n \in 1 .. i, ~ Lost(n)
      PROVE  \E l \in DOMAIN libs : libs[l].nid = Stubs[n].library_nid /\ Stubs[n] \in ToSet(libs[l][TableOf(n)])
      BY <1>1, <1>5 DEF Inserted, ToSet
<1> QED
    BY <1>3, <1>4, <1>5

----------------------------------------------------------------------------
(* The sections of the encoded data.                                         *)

\* Where the sections start if they have the sizes z, and where the last one ends.
SizesOf(z, b) == [n \in DOMAIN b |-> z[b[n]]]
StartIn(z, s) == SumOf(SizesOf(z, Before(s)))
EndIn(z) == SumOf(SizesOf(z, Sections))

\* They follow each other.
LEMMA PrefixSums ==
  ASSUME NEW z, \A s \in SectionNames : z[s] \in Nat
  PROVE  \E h \in [0 .. 9 -> Nat] :
           /\ h[0] = 0 /\ \A n \in 1 .. 9 : h[n] = h[n - 1] + z[Sections[n]]
           /\ EndIn(z) = h[9]
           /\ \A k \in 1 .. 9 : SumOf(SizesOf(z, SubSeq(Sections, 1, k - 1))) = h[k - 1]
<1> DEFINE t == SizesOf(z, Sections)
<1>1. t = [n \in DOMAIN Sections |-> t[n]] /\ \A n \in 1 .. 9 : t[n] \in Nat /\ t[n] = z[Sections[n]]
      BY SectionFacts DEF SizesOf
<1> HIDE DEF t
<1>2. IsList(t) /\ Len(t) = 9
      BY <1>1, SectionFacts, MapList
<1>3. PICK h \in [0 .. 9 -> Nat] : h[0] = 0 /\ (\A n \in 1 .. 9 : h[n] = h[n - 1] + t[n]) /\ SumOf(t) = h[9]
  <2>1. Len(t) \in Nat /\ \A n \in 1 .. Len(t) : t[n] \in Nat
        BY <1>1, <1>2
  <2>2. \E h \in [0 .. Len(t) -> Nat] :
          h[0] = 0 /\ (\A n \in 1 .. Len(t) : h[n] = h[n - 1] + t[n]) /\ SumOf(t) = h[Len(t)]
        BY <2>1, SumFacts
  <2> QED
      BY <1>2, <2>2
<1>4. ASSUME NEW k \in 1 .. 9 PROVE SumOf(SizesOf(z, SubSeq(Sections, 1, k - 1))) = h[k - 1]
  <2> DEFINE b == SubSeq(Sections, 1, k - 1)
             f == SizesOf(z, b)
  <2>1. IsList(b) /\ Len(b) = k - 1 /\ \A n \in 1 .. k - 1 : b[n] = Sections[n]
    <3>1. IsList(Sections) /\ 1 \in Int /\ k - 1 \in Int
          BY SectionFacts
    <3>2. IsList(b) /\ Len(b) = IF 1 <= k - 1 THEN (k - 1) - 1 + 1 ELSE 0
          BY <3>1, ListSub
    <3>3. \A n \in 1 .. Len(b) : b[n] = Sections[n + 1 - 1]
          BY <3>1, ListSub
    <3>4. Len(b) = k - 1
          BY <3>2
    <3>5. \A n \in 1 .. k - 1 : n + 1 - 1 = n
          OBVIOUS
    <3> QED
        BY <3>2, <3>3, <3>4, <3>5
  <2>2. DOMAIN b = 1 .. k - 1
        BY <2>1, ListFacts
  <2> HIDE DEF b
  <2>3. f = [n \in DOMAIN b |-> f[n]] /\ \A n \in 1 .. k - 1 : f[n] = z[Sections[n]]
        BY <2>1, <2>2 DEF SizesOf
  <2> HIDE DEF f
  <2>4. IsList(f) /\ Len(f) = k - 1
        BY <2>1, <2>3, MapList
  <2>5. \A n \in 1 .. k - 1 : n \in 1 .. 9 /\ f[n] \in Nat /\ f[n] = t[n]
        BY <1>1, <2>3
  <2>6. PICK g \in [0 .. k - 1 -> Nat] : g[0] = 0 /\ (\A n \in 1 .. k - 1 : g[n] = g[n - 1] + f[n]) /\ SumOf(f) = g[k - 1]
    <3>1. PICK N \in Nat : N = k - 1
          OBVIOUS
    <3>2. Len(f) = N /\ \A n \in 1 .. N : f[n] \in Nat
          BY <2>4, <2>5, <3>1
    <3>3. \E g \in [0 .. N -> Nat] : g[0] = 0 /\ (\A n \in 1 .. N : g[n] = g[n - 1] + f[n]) /\ SumOf(f) = g[N]
          BY <3>2, SumFacts
    <3> QED
        BY <3>1, <3>3
  <2> DEFINE T == {n \in 0 .. k - 1 : g[n] # h[n]}
  <2>7. T = {}
    <3> SUFFICES ASSUME NEW x \in T PROVE FALSE
        OBVIOUS
    <3>1. PICK m \in T : \A n \in T : m <= n
      <4>1. T \in SUBSET Nat /\ x \in T
            OBVIOUS
      <4> QED
          BY <4>1, LeastNatural
    <3>2. m \in 1 .. k - 1 /\ m \in 1 .. 9 /\ m - 1 \in 0 .. k - 1 /\ m - 1 \notin T
      <4>1. g[0] = h[0] /\ m \in 0 .. k - 1 /\ m \in T
            BY <1>3, <2>6, <3>1
      <4>2. m # 0
            BY <4>1
      <4>3. m \in 1 .. k - 1 /\ m \in 1 .. 9 /\ m - 1 \in 0 .. k - 1 /\ ~ m <= m - 1
            BY <4>1, <4>2
      <4> HIDE DEF T
      <4> QED
          BY <3>1, <4>3
    <3>3. g[m] = g[m - 1] + f[m] /\ h[m] = h[m - 1] + t[m] /\ f[m] = t[m] /\ g[m - 1] = h[m - 1]
          BY <1>3, <2>5, <2>6, <3>2
    <3> QED
        BY <3>3
  <2>8. k - 1 \in 0 .. k - 1
        OBVIOUS
  <2> QED
      BY <2>6, <2>7, <2>8 DEF b, f
<1>5. \A n \in 1 .. 9 : h[n] = h[n - 1] + z[Sections[n]]
      BY <1>1, <1>3
<1>6. EndIn(z) = h[9]
      BY <1>3 DEF EndIn, t
<1> QED
    BY <1>3, <1>4, <1>5, <1>6

\* The sections before each.
LEMMA SectionNumbers ==
  \A n \in 1 .. 9 : Before(Sections[n]) = SubSeq(Sections, 1, n - 1)
<1>1. Sections[1] = "ModuleInfo" /\ Sections[2] = "Lib_ent" /\ Sections[3] = "Export" /\ Sections[4] = "Lib_stubs"
      /\ Sections[5] = "Import" /\ Sections[6] = "FNID" /\ Sections[7] = "FStub" /\ Sections[8] = "VNID" /\ Sections[9] = "VStub"
      BY DEF Sections
<1>2. ASSUME NEW n \in 1 .. 9, NEW m \in 1 .. 9, Sections[m] = Sections[n] PROVE m = n
      BY <1>1, <1>2
<1> SUFFICES ASSUME NEW n \in 1 .. 9 PROVE Before(Sections[n]) = SubSeq(Sections, 1, n - 1)
    OBVIOUS
<1> DEFINE k == CHOOSE m \in DOMAIN Sections : Sections[m] = Sections[n]
<1>3. k \in 1 .. 9 /\ Sections[k] = Sections[n]
      BY SectionFacts
<1>4. k = n
      BY <1>2, <1>3
<1> QED
    BY <1>4 DEF Before

\* Each section starts where the one before it ends.
LEMMA StartFacts ==
  ASSUME NEW z, \A s \in SectionNames : z[s] \in Nat
  PROVE  /\ StartIn(z, "ModuleInfo") = 0
         /\ StartIn(z, "Lib_ent") = z["ModuleInfo"]
         /\ StartIn(z, "Export") = StartIn(z, "Lib_ent") + z["Lib_ent"]
         /\ StartIn(z, "Lib_stubs") = StartIn(z, "Export") + z["Export"]
         /\ StartIn(z, "Import") = StartIn(z, "Lib_stubs") + z["Lib_stubs"]
         /\ StartIn(z, "FNID") = StartIn(z, "Import") + z["Import"]
         /\ StartIn(z, "FStub") = StartIn(z, "FNID") + z["FNID"]
         /\ StartIn(z, "VNID") = StartIn(z, "FStub") + z["FStub"]
         /\ StartIn(z, "VStub") = StartIn(z, "VNID") + z["VNID"]
         /\ EndIn(z) = StartIn(z, "VStub") + z["VStub"]
         /\ \A s \in SectionNames : StartIn(z, s) \in Nat
         /\ EndIn(z) \in Nat
<1>1. PICK h \in [0 .. 9 -> Nat] :
           /\ h[0] = 0 /\ \A n \in 1 .. 9 : h[n] = h[n - 1] + z[Sections[n]]
           /\ EndIn(z) = h[9]
           /\ \A k \in 1 .. 9 : SumOf(SizesOf(z, SubSeq(Sections, 1, k - 1))) = h[k - 1]
      BY PrefixSums
<1>2. \A k \in 1 .. 9 : StartIn(z, Sections[k]) = h[k - 1]
      BY <1>1, SectionNumbers DEF StartIn
<1>3. Sections[1] = "ModuleInfo" /\ Sections[2] = "Lib_ent" /\ Sections[3] = "Export" /\ Sections[4] = "Lib_stubs"
      /\ Sections[5] = "Import" /\ Sections[6] = "FNID" /\ Sections[7] = "FStub" /\ Sections[8] = "VNID" /\ Sections[9] = "VStub"
      BY DEF Sections
<1>4. /\ StartIn(z, "ModuleInfo") = h[0] /\ StartIn(z, "Lib_ent") = h[1] /\ StartIn(z, "Export") = h[2]
      /\ StartIn(z, "Lib_stubs") = h[3] /\ StartIn(z, "Import") = h[4] /\ StartIn(z, "FNID") = h[5]
      /\ StartIn(z, "FStub") = h[6] /\ StartIn(z, "VNID") = h[7] /\ StartIn(z, "VStub") = h[8]
  <2>1. \A k \in 0 .. 8 : StartIn(z, Sections[k + 1]) = h[k]
    <3>1. \A k \in 0 .. 8 : k + 1 \in 1 .. 9 /\ (k + 1) - 1 = k
          OBVIOUS
    <3> QED
        BY <1>2, <3>1
  <2>2. /\ StartIn(z, Sections[1]) = h[0] /\ StartIn(z, Sections[2]) = h[1] /\ StartIn(z, Sections[3]) = h[2]
        /\ StartIn(z, Sections[4]) = h[3] /\ StartIn(z, Sections[5]) = h[4] /\ StartIn(z, Sections[6]) = h[5]
        /\ StartIn(z, Sections[7]) = h[6] /\ StartIn(z, Sections[8]) = h[7] /\ StartIn(z, Sections[9]) = h[8]
        BY <2>1
  <2> QED
      BY <1>3, <2>2
<1>5. /\ h[1] = h[0] + z["ModuleInfo"] /\ h[2] = h[1] + z["Lib_ent"] /\ h[3] = h[2] + z["Export"]
      /\ h[4] = h[3] + z["Lib_stubs"] /\ h[5] = h[4] + z["Import"] /\ h[6] = h[5] + z["FNID"]
      /\ h[7] = h[6] + z["FStub"] /\ h[8] = h[7] + z["VNID"] /\ h[9] = h[8] + z["VStub"]
  <2>1. \A k \in 0 .. 8 : h[k + 1] = h[k] + z[Sections[k + 1]]
    <3>1. \A k \in 0 .. 8 : k + 1 \in 1 .. 9 /\ (k + 1) - 1 = k
          OBVIOUS
    <3> QED
        BY <1>1, <3>1
  <2> QED
      BY <1>3, <2>1
<1>6. \A k \in 0 .. 9 : h[k] \in Nat
      BY <1>1
<1> QED
    BY <1>1, <1>4, <1>5, <1>6 DEF SectionNames

\* This is where vita-elf-create puts them.
LEMMA PlacesStart ==
  ASSUME NEW s
  PROVE  Total(LAMBDA b : sizes[b], Before(s)) = StartIn(sizes, s)
BY DEF Total, StartIn, SizesOf

\* And this is how much it allocates.
LEMMA TotalIsEnd == total_size = EndIn(sizes)
BY DEF total_size, EndIn, SizesOf

\* Two sections have no word in common, and each is within the data.
LEMMA SectionsApart ==
  ASSUME NEW z, \A s \in SectionNames : z[s] \in Nat,
         NEW s \in SectionNames, NEW t \in SectionNames
  PROVE  /\ s # t => StartIn(z, s) + z[s] <= StartIn(z, t) \/ StartIn(z, t) + z[t] <= StartIn(z, s)
         /\ StartIn(z, s) + z[s] <= EndIn(z)
         /\ s # "ModuleInfo" => z["ModuleInfo"] <= StartIn(z, s)
<1>1. /\ StartIn(z, "ModuleInfo") = 0
      /\ StartIn(z, "Lib_ent") = z["ModuleInfo"]
      /\ StartIn(z, "Export") = StartIn(z, "Lib_ent") + z["Lib_ent"]
      /\ StartIn(z, "Lib_stubs") = StartIn(z, "Export") + z["Export"]
      /\ StartIn(z, "Import") = StartIn(z, "Lib_stubs") + z["Lib_stubs"]
      /\ StartIn(z, "FNID") = StartIn(z, "Import") + z["Import"]
      /\ StartIn(z, "FStub") = StartIn(z, "FNID") + z["FNID"]
      /\ StartIn(z, "VNID") = StartIn(z, "FStub") + z["FStub"]
      /\ StartIn(z, "VStub") = StartIn(z, "VNID") + z["VNID"]
      /\ EndIn(z) = StartIn(z, "VStub") + z["VStub"]
      BY StartFacts
<1>2. /\ StartIn(z, "ModuleInfo") \in Nat /\ StartIn(z, "Lib_ent") \in Nat /\ StartIn(z, "Export") \in Nat
      /\ StartIn(z, "Lib_stubs") \in Nat /\ StartIn(z, "Import") \in Nat /\ StartIn(z, "FNID") \in Nat
      /\ StartIn(z, "FStub") \in Nat /\ StartIn(z, "VNID") \in Nat /\ StartIn(z, "VStub") \in Nat
      /\ z["ModuleInfo"] \in Nat /\ z["Lib_ent"] \in Nat /\ z["Export"] \in Nat
      /\ z["Lib_stubs"] \in Nat /\ z["Import"] \in Nat /\ z["FNID"] \in Nat
      /\ z["FStub"] \in Nat /\ z["VNID"] \in Nat /\ z["VStub"] \in Nat
      BY StartFacts DEF SectionNames
<1> DEFINE P(a) == \A b \in SectionNames :
                     /\ a # b => StartIn(z, a) + z[a] <= StartIn(z, b) \/ StartIn(z, b) + z[b] <= StartIn(z, a)
                     /\ StartIn(z, a) + z[a] <= EndIn(z)
                     /\ a # "ModuleInfo" => z["ModuleInfo"] <= StartIn(z, a)
<1>3. P("ModuleInfo") /\ P("Lib_ent") /\ P("Export")
      BY <1>1, <1>2 DEF SectionNames
<1>4. P("Lib_stubs") /\ P("Import") /\ P("FNID")
      BY <1>1, <1>2 DEF SectionNames
<1>5. P("FStub") /\ P("VNID") /\ P("VStub")
      BY <1>1, <1>2 DEF SectionNames
<1>6. \A a \in SectionNames : P(a)
  <2> HIDE DEF P
  <2> QED
      BY <1>3, <1>4, <1>5 DEF SectionNames
<1> QED
    BY <1>6

\* The words in front of the next ones, a, of each section, and the module info.
InUse(z, a, w) == w \in 0 .. z["ModuleInfo"] - 1 \/ \E s \in SectionNames : StartIn(z, s) <= w /\ w < a[s]

\* The address of a word depends on the segments and on module_start.
LEMMA SamePlaces == ASSUME elf' = elf, top' = top PROVE \A w : VADDR(w)' = VADDR(w)
BY DEF VADDR, Base, start_offset, segment, segndx, program, SegmentsOf, InSegment

\* The relocations R are of words in W, which have the addends in the data d.
Held(R, d, W) == \A r \in R : \E w \in W : r = [at |-> VADDR(w), addend |-> d[w]]

\* What is written besides what is held, relocations with it.
LEMMA RelocWrite ==
  ASSUME NEW U, NEW V, NEW values, NEW addresses, Write(values, addresses),
         Held(relas, data, U),
         DOMAIN values \subseteq V, DOMAIN addresses \subseteq V, DOMAIN values \cap DOMAIN addresses = {},
         U \cap V = {}, U \subseteq DOMAIN data, V \subseteq DOMAIN data
  PROVE  DOMAIN data' = DOMAIN data /\ Held(relas', data', U \cup V)
<1>1. PICK f : f = values ++ addresses
      OBVIOUS
<1>2. DOMAIN f = DOMAIN values \cup DOMAIN addresses /\ \A w \in DOMAIN addresses : f[w] = addresses[w]
  <2>1. /\ DOMAIN (values ++ addresses) = DOMAIN values \cup DOMAIN addresses
        /\ \A w \in DOMAIN addresses : w \notin DOMAIN values => (values ++ addresses)[w] = addresses[w]
        BY JoinFacts
  <2> QED
      BY <1>1, <2>1
<1>3. data' = f ++ data
      BY <1>1 DEF Write
<1>4. /\ DOMAIN data' = DOMAIN f \cup DOMAIN data /\ \A w \in DOMAIN f : data'[w] = f[w]
      /\ \A w \in DOMAIN data : w \notin DOMAIN f => data'[w] = data[w]
  <2>1. PICK d : d = data
        OBVIOUS
  <2>2. /\ DOMAIN (f ++ d) = DOMAIN f \cup DOMAIN d /\ \A w \in DOMAIN f : (f ++ d)[w] = f[w]
        /\ \A w \in DOMAIN d : w \notin DOMAIN f => (f ++ d)[w] = d[w]
        BY DEF ++
  <2>3. data' = f ++ d
        BY <1>3, <2>1
  <2> QED
      BY <2>1, <2>2, <2>3
<1>6. ASSUME NEW r \in relas PROVE \E w \in U : r = [at |-> VADDR(w), addend |-> data'[w]]
      BY <1>2, <1>4 DEF Held
<1>7. ASSUME NEW r \in Relocated(addresses) PROVE \E w \in V : r = [at |-> VADDR(w), addend |-> data'[w]]
  <2>1. PICK w \in DOMAIN addresses : r = [at |-> VADDR(w), addend |-> addresses[w]]
        BY DEF Relocated
  <2>2. data'[w] = addresses[w] /\ w \in V
        BY <1>2, <1>4
  <2> QED
      BY <2>1, <2>2
<1>8. relas' = relas \cup Relocated(addresses)
      BY DEF Write
<1>10. \A r \in relas' : \E w \in U \cup V : r = [at |-> VADDR(w), addend |-> data'[w]]
       BY <1>6, <1>7, <1>8
<1> QED
    BY <1>2, <1>4, <1>10 DEF Held

\* The words that are written by each of the ways to write.
LEMMA DomFrom ==
  ASSUME NEW w \in Int, NEW words, NEW n, Len(words) = n PROVE DOMAIN From(w, words) = w .. w + n - 1
BY DEF From
LEMMA DomWord == ASSUME NEW w, NEW x PROVE DOMAIN Word(w, x) = {w}
BY DEF Word
LEMMA DomWhen == ASSUME NEW c, NEW f PROVE DOMAIN When(c, f) = IF c THEN DOMAIN f ELSE {}
<1>1. DOMAIN <<>> = {}
      OBVIOUS
<1> QED
    BY <1>1 DEF When
\* Symbols are written at the places of their names.
LEMMA DomSymbols ==
  ASSUME NEW type, NEW names, NEW at
  PROVE  DOMAIN Symbols(type, names, at) \subseteq {at + n : n \in DOMAIN names}
BY DEF Symbols

\* The stages before there are data, and those in which they are filled.
Unencoded == Early \cup {"imports", "size", "place"}
Filling == {"encode_info", "encode_exports", "encode_imports", "encoded"}

\* The parameters, once they are known, are counted in the section of the module info.
ParamsOK ==
  /\ params.process \in {0, PARAM5, PARAM6} /\ params.libc \in {0, LIBC}
  /\ params.libc # 0 => stage \notin {"link", "load", "generate", "params"} /\ have_libc
  /\ stage \in {"place"} \cup Filling => sizes["ModuleInfo"] >= INFO + params.process + params.libc
\* module_start is in a segment.
TopPlaced == "start" \in DOMAIN top /\ (top.start = NULL \/ SegmentsOf(top.start) # {})
\* No section is used beyond its size, and none is before it is written to.
UsedOK ==
  /\ DOMAIN used = SectionNames /\ \A s \in SectionNames : used[s] \in 0 .. sizes[s]
  /\ stage \in Unencoded \cup {"encode_info"} => used = NoWords
\* Each relocation is of a word that is written, which has the addend.
RelasOK == \A r \in relas : \E w \in DOMAIN data : InUse(sizes, addrs, w) /\ r = [at |-> VADDR(w), addend |-> data[w]]
\* There are data of the size counted; in each section the next word is the one behind
\* those used.
DataOK ==
  /\ DOMAIN data = {} \/ DOMAIN data = 0 .. EndIn(sizes) - 1
  /\ stage \in Unencoded => DOMAIN data = {}
  /\ stage \in Unencoded \cup {"encode_info"} => relas = {}
  /\ stage \in Filling =>
       DOMAIN data = 0 .. EndIn(sizes) - 1 /\ (\A s \in SectionNames : addrs[s] = StartIn(sizes, s) + used[s]) /\ RelasOK
DataInv == ParamsOK /\ TopPlaced /\ UsedOK /\ DataOK

\* A structure is written, with its tables, to the sections that have room for it.
LEMMA SectionsWrite ==
  ASSUME Shape, UsedOK, DataOK, stage \in {"encode_exports", "encode_imports"},
         UNCHANGED <<elf, stage, top, sizes>>,
         NEW more, DOMAIN more \subseteq SectionNames \ {"ModuleInfo"}, \A s \in DOMAIN more : more[s] \in Nat,
         Fits(more), Used(more), NEW values, NEW addresses, Write(values, addresses),
         NEW V, DOMAIN values \subseteq V, DOMAIN addresses \subseteq V, DOMAIN values \cap DOMAIN addresses = {},
         \A w \in V : w \in Int /\ \E s \in DOMAIN more : addrs[s] <= w /\ w < addrs[s] + more[s]
  PROVE  UsedOK' /\ DataOK'
<1>1. stage \in Filling /\ stage \notin Unencoded \cup {"encode_info"} /\ stage' = stage /\ sizes' = sizes
      BY DEF Filling, Unencoded, Early
<1>2. /\ \A s \in SectionNames : sizes[s] \in Nat /\ used[s] \in 0 .. sizes[s] /\ addrs[s] = StartIn(sizes, s) + used[s]
      /\ DOMAIN data = 0 .. EndIn(sizes) - 1 /\ RelasOK /\ DOMAIN used = SectionNames /\ DOMAIN addrs = SectionNames
      BY <1>1 DEF Shape, Words, UsedOK, DataOK
<1>3. \A s \in SectionNames : StartIn(sizes, s) \in Nat /\ StartIn(sizes, s) + sizes[s] <= EndIn(sizes)
      BY <1>2, StartFacts, SectionsApart
<1>4. EndIn(sizes) \in Nat
      BY <1>2, StartFacts
<1>5. \A s \in SectionNames :
        /\ used'[s] = IF s \in DOMAIN more THEN used[s] + more[s] ELSE used[s]
        /\ addrs'[s] = IF s \in DOMAIN more THEN addrs[s] + more[s] ELSE addrs[s]
      BY <1>2 DEF Used, Plus
<1>6. \A s \in DOMAIN more : s \in SectionNames /\ s # "ModuleInfo" /\ more[s] \in Nat /\ used[s] + more[s] <= sizes[s]
      BY DEF Fits
<1>7. \A s \in SectionNames : used'[s] \in 0 .. sizes[s] /\ addrs'[s] = StartIn(sizes, s) + used'[s] /\ addrs[s] <= addrs'[s]
  <2> SUFFICES ASSUME NEW s \in SectionNames
               PROVE  used'[s] \in 0 .. sizes[s] /\ addrs'[s] = StartIn(sizes, s) + used'[s] /\ addrs[s] <= addrs'[s]
      OBVIOUS
  <2>1. sizes[s] \in Nat /\ used[s] \in 0 .. sizes[s] /\ addrs[s] = StartIn(sizes, s) + used[s] /\ StartIn(sizes, s) \in Nat
        BY <1>2, <1>3
  <2>2. CASE s \in DOMAIN more
    <3>1. more[s] \in Nat /\ used[s] + more[s] <= sizes[s] /\ used'[s] = used[s] + more[s] /\ addrs'[s] = addrs[s] + more[s]
          BY <1>5, <1>6, <2>2
    <3> QED
        BY <2>1, <3>1
  <2>3. CASE s \notin DOMAIN more
    <3>1. used'[s] = used[s] /\ addrs'[s] = addrs[s]
          BY <1>5, <2>3
    <3> QED
        BY <2>1, <3>1
  <2> QED
      BY <2>2, <2>3
<1>8. DOMAIN used' = SectionNames
      BY <1>2 DEF Used, Plus
<1>9. UsedOK'
      BY <1>1, <1>7, <1>8 DEF UsedOK
<1> DEFINE U == {w \in DOMAIN data : InUse(sizes, addrs, w)}
<1>10. \A r \in relas : \E w \in U : r = [at |-> VADDR(w), addend |-> data[w]]
       BY <1>2 DEF RelasOK
<1>11. \A w \in U : w \in Int /\ (w \in 0 .. sizes["ModuleInfo"] - 1 \/ \E s \in SectionNames : StartIn(sizes, s) <= w /\ w < addrs[s])
       BY <1>2, <1>4 DEF InUse
<1>12. U \subseteq DOMAIN data
       OBVIOUS
<1> HIDE DEF U
<1>13. ASSUME NEW w \in V
       PROVE w \in DOMAIN data /\ w \notin U /\ \E s \in SectionNames : StartIn(sizes, s) <= w /\ w < addrs'[s]
  <2>1. PICK s \in DOMAIN more : addrs[s] <= w /\ w < addrs[s] + more[s]
        OBVIOUS
  <2>2. w \in Int /\ s \in SectionNames /\ s # "ModuleInfo" /\ more[s] \in Nat /\ used[s] + more[s] <= sizes[s]
        /\ addrs'[s] = addrs[s] + more[s]
        BY <1>5, <1>6
  <2>3. sizes[s] \in Nat /\ used[s] \in 0 .. sizes[s] /\ addrs[s] = StartIn(sizes, s) + used[s] /\ StartIn(sizes, s) \in Nat
        /\ StartIn(sizes, s) + sizes[s] <= EndIn(sizes)
        BY <1>2, <1>3, <2>2
  <2>4. w \in DOMAIN data
    <3>1. w \in 0 .. EndIn(sizes) - 1
          BY <1>4, <2>1, <2>2, <2>3
    <3> QED
        BY <1>2, <3>1
  <2>5. StartIn(sizes, s) <= w /\ w < addrs'[s]
        BY <2>1, <2>2, <2>3
  <2>6. w \notin U
    <3> SUFFICES ASSUME w \in U PROVE FALSE
        OBVIOUS
    <3>1. CASE w \in 0 .. sizes["ModuleInfo"] - 1
      <4>1. sizes["ModuleInfo"] <= StartIn(sizes, s) /\ sizes["ModuleInfo"] \in Nat
            BY <1>2, <2>2, SectionsApart DEF SectionNames
      <4> QED
          BY <3>1, <4>1, <2>3, <2>5
    <3>2. CASE \E t \in SectionNames : StartIn(sizes, t) <= w /\ w < addrs[t]
      <4>1. PICK t \in SectionNames : StartIn(sizes, t) <= w /\ w < addrs[t]
            BY <3>2
      <4>2. sizes[t] \in Nat /\ used[t] \in 0 .. sizes[t] /\ addrs[t] = StartIn(sizes, t) + used[t] /\ StartIn(sizes, t) \in Nat
            BY <1>2, <1>3
      <4>3. s = t \/ StartIn(sizes, s) + sizes[s] <= StartIn(sizes, t) \/ StartIn(sizes, t) + sizes[t] <= StartIn(sizes, s)
            BY <1>2, <2>2, SectionsApart
      <4> QED
          BY <2>1, <2>2, <2>3, <4>1, <4>2, <4>3
    <3> QED
        BY <1>11, <3>1, <3>2
  <2> QED
      BY <2>2, <2>4, <2>5, <2>6
<1>14. /\ DOMAIN data' = DOMAIN data
       /\ \A r \in relas' : \E w \in U \cup V : r = [at |-> VADDR(w)', addend |-> data'[w]]
  <2>1. U \cap V = {} /\ V \subseteq DOMAIN data
        BY <1>13
  <2>2. elf' = elf /\ top' = top
        OBVIOUS
  <2>3. PICK u : u = U
        OBVIOUS
  <2>4. Held(relas, data, u) /\ u \cap V = {} /\ u \subseteq DOMAIN data
        BY <1>10, <1>12, <2>1, <2>3 DEF Held
  <2>5. DOMAIN data' = DOMAIN data /\ Held(relas', data', u \cup V)
        BY <2>1, <2>4, RelocWrite
  <2> QED
      BY <2>2, <2>3, <2>5, SamePlaces DEF Held
<1>15. \A w \in U \cup V : w \in DOMAIN data' /\ InUse(sizes', addrs', w)
  <2> SUFFICES ASSUME NEW w \in U \cup V PROVE w \in DOMAIN data' /\ InUse(sizes', addrs', w)
      OBVIOUS
  <2>1. w \in DOMAIN data'
        BY <1>12, <1>13, <1>14
  <2>2. \/ w \in 0 .. sizes["ModuleInfo"] - 1
        \/ \E s \in SectionNames : StartIn(sizes, s) <= w /\ w < addrs'[s]
    <3>1. CASE w \in V
          BY <1>13, <3>1
    <3>2. CASE w \in U
      <4>1. CASE \E s \in SectionNames : StartIn(sizes, s) <= w /\ w < addrs[s]
        <5>1. PICK s \in SectionNames : StartIn(sizes, s) <= w /\ w < addrs[s]
              BY <4>1
        <5>2. addrs[s] \in Int /\ addrs'[s] \in Int /\ addrs[s] <= addrs'[s] /\ w \in Int
              BY <1>2, <1>3, <1>7, <1>11, <3>2
        <5> QED
            BY <5>1, <5>2
      <4> QED
          BY <1>11, <3>2, <4>1
    <3> QED
        BY <3>1, <3>2
  <2> QED
      BY <1>1, <2>1, <2>2 DEF InUse
<1>16. RelasOK'
  <2>1. \A r \in relas' : \E w \in DOMAIN data' : InUse(sizes', addrs', w) /\ r = [at |-> VADDR(w)', addend |-> data'[w]]
        BY <1>14, <1>15
  <2> QED
      BY <2>1, Zenon DEF RelasOK, InUse
<1>17. DataOK'
      BY <1>1, <1>2, <1>7, <1>14, <1>16 DEF DataOK
<1> QED
    BY <1>9, <1>17

----------------------------------------------------------------------------
(* Exports and imports are written in the space counted for them.            *)

\* In this stage what goes into a section is put at the place of its next words.
LEMMA NextWords ==
  ASSUME Shape, UsedOK, DataOK, stage \in {"encode_exports", "encode_imports"}
  PROVE  /\ \A s \in SectionNames : sizes[s] \in Nat /\ used[s] \in 0 .. sizes[s] /\ addrs[s] = StartIn(sizes, s) + used[s]
         /\ \A s \in SectionNames : StartIn(sizes, s) \in Nat /\ addrs[s] \in Nat
<1>1. stage \in Filling
      BY DEF Filling
<1>2. \A s \in SectionNames : sizes[s] \in Nat /\ used[s] \in 0 .. sizes[s] /\ addrs[s] = StartIn(sizes, s) + used[s]
      BY <1>1 DEF Shape, Words, UsedOK, DataOK
<1>3. \A s \in SectionNames : StartIn(sizes, s) \in Nat
      BY <1>2, StartFacts
<1> QED
    BY <1>2, <1>3

\* Next to the words of one section there are those of the next.
LEMMA RoomBefore ==
  ASSUME Shape, UsedOK, DataOK, stage \in {"encode_exports", "encode_imports"},
         NEW s \in SectionNames, NEW t \in SectionNames, StartIn(sizes, t) = StartIn(sizes, s) + sizes[s],
         NEW m \in Nat, used[s] + m <= sizes[s]
  PROVE  addrs[s] + m <= addrs[t]
<1>1. PICK a, z, u, v : a = StartIn(sizes, s) /\ z = sizes[s] /\ u = used[s] /\ v = used[t]
      OBVIOUS
<1>2. a \in Nat /\ z \in Nat /\ u \in Nat /\ v \in Nat
      BY <1>1, NextWords
<1>3. addrs[s] = a + u /\ addrs[t] = (a + z) + v
      BY <1>1, NextWords
<1>4. u + m <= z
      BY <1>1
<1>5. (a + u) + m <= (a + z) + v
      BY <1>2, <1>4
<1> QED
    BY <1>3, <1>5

\* What is joined has the words of both.
LEMMA JoinDomain == ASSUME NEW f, NEW g PROVE DOMAIN (f ++ g) = DOMAIN f \cup DOMAIN g
BY JoinFacts

\* An export is written in its section, with its name and tables in another.
LEMMA ExportData == ASSUME Shape, UsedOK, DataOK, EncodeExport, Fits([Lib_ent |-> EXPORT,
   Export |-> NameWords(top.exports[i + 1].name) + 2 * Len(top.exports[i + 1].entries)]) PROVE UsedOK' /\ DataOK'
<1> DEFINE e == top.exports[i + 1]
           n == Len(e.entries)
           raw == addrs["Lib_ent"]
           x == addrs["Export"]
           k == NameWords(e.name)
           nids == x + k
           more == [Lib_ent |-> EXPORT, Export |-> k + 2 * n]
           head == <<e.version, <<e.flags, e.functions>>, n - e.functions, 0, e.nid>>
           nidwords == Nids(e.entries)
           entries == [m \in 1 .. n |-> EntryValue(e.entries[m].entry)]
           values == From(raw, head) ++ When(e.name # NoSymbol, Word(x, e.name)) ++ From(nids, nidwords)
           addresses == When(e.name # NoSymbol, Word(raw + 5, VADDR(x))) ++
                        From(raw + 6, <<VADDR(nids), VADDR(nids + n)>>) ++ From(nids + n, entries)
<1>1. stage = "encode_exports" /\ stage' = stage /\ Write(values, addresses) /\ Used(more) /\ Fits(more) /\ UNCHANGED <<elf, top, sizes>>
      BY DEF EncodeExport, Again
<1>2. n \in Nat /\ IsList(e.entries)
  <2>1. i + 1 \in DOMAIN top.exports
    <3>1. Len(top.exports) \in Nat /\ DOMAIN top.exports = 1 .. Len(top.exports)
          BY ListFacts DEF Shape, TopLists
    <3> QED
        BY <3>1 DEF Shape, EncodeExport
  <2> QED
      BY <2>1, ListFacts DEF Shape, TopLists
<1>3. k = (IF e.name = NoSymbol THEN 0 ELSE 1)
      BY DEF NameWords
<1>4. raw \in Nat /\ x \in Nat /\ raw + EXPORT <= x
  <2>1. "Lib_ent" \in SectionNames /\ "Export" \in SectionNames
        BY DEF SectionNames
  <2>2. used["Lib_ent"] + EXPORT <= sizes["Lib_ent"] /\ EXPORT \in Nat
        BY <1>1 DEF Fits, EXPORT
  <2>3. \A s \in SectionNames : sizes[s] \in Nat
        BY DEF Shape, Words
  <2>4. StartIn(sizes, "Export") = StartIn(sizes, "Lib_ent") + sizes["Lib_ent"]
        BY <2>3, StartFacts
  <2>5. addrs["Lib_ent"] \in Nat /\ addrs["Export"] \in Nat
        BY <1>1, <2>1, NextWords
  <2>6. addrs["Lib_ent"] + EXPORT <= addrs["Export"]
        BY <1>1, <2>1, <2>2, <2>4, RoomBefore
  <2> QED
      BY <2>5, <2>6
<1>5. DOMAIN more = {"Lib_ent", "Export"} /\ more["Lib_ent"] = EXPORT /\ more["Export"] = k + 2 * n
      OBVIOUS
<1>6. Len(head) = 5 /\ Len(nidwords) = n /\ Len(entries) = n
  <2>1. Len(head) = 5
        OBVIOUS
  <2>2. nidwords = [m \in DOMAIN e.entries |-> nidwords[m]]
        BY DEF Nids
  <2>3. entries = [m \in 1 .. n |-> entries[m]]
        OBVIOUS
  <2> HIDE DEF nidwords, entries, head
  <2>4. Len(nidwords) = n
        BY <1>2, <2>2, MapList
  <2>5. Len(entries) = n
        BY <1>2, <2>3, FunctionList
  <2> QED
      BY <2>1, <2>4, <2>5
<1> DEFINE named == IF e.name = NoSymbol THEN {} ELSE {1}
<1>7. DOMAIN values = (raw .. raw + 4) \cup {x : m \in named} \cup (nids .. nids + n - 1)
  <2> DEFINE a == From(raw, head)
             b == When(e.name # NoSymbol, Word(x, e.name))
             c == From(nids, nidwords)
  <2>1. DOMAIN a = raw .. raw + 4
    <3> HIDE DEF head, raw
    <3>1. raw \in Int /\ Len(head) = 5
          BY <1>4, <1>6
    <3>2. DOMAIN From(raw, head) = raw .. raw + 5 - 1
          BY <3>1, DomFrom
    <3>3. raw + 5 - 1 = raw + 4
          BY <1>4
    <3> QED
        BY <3>2, <3>3
  <2>2. DOMAIN b = {x : m \in named}
    <3>1. DOMAIN b = IF e.name # NoSymbol THEN DOMAIN Word(x, e.name) ELSE {}
          BY DomWhen
    <3>2. DOMAIN Word(x, e.name) = {x}
          BY DomWord
    <3> HIDE DEF b
    <3> QED
        BY <3>1, <3>2
  <2>3. DOMAIN c = nids .. nids + n - 1
    <3> HIDE DEF nidwords
    <3>1. nids \in Int
          BY <1>3, <1>4
    <3> HIDE DEF nids
    <3> QED
        BY <1>6, <3>1, DomFrom
  <2>4. values = (a ++ b) ++ c
        OBVIOUS
  <2> HIDE DEF a, b, c, values
  <2>5. PICK q : q = a ++ b
        OBVIOUS
  <2>6. DOMAIN q = DOMAIN a \cup DOMAIN b
        BY <2>5, JoinDomain
  <2>7. DOMAIN values = DOMAIN q \cup DOMAIN c
        BY <2>4, <2>5, JoinDomain
  <2> QED
      BY <2>1, <2>2, <2>3, <2>6, <2>7
<1>8. DOMAIN addresses = {raw + 5 : m \in named} \cup (raw + 6 .. raw + 7) \cup (nids + n .. nids + 2 * n - 1)
  <2> DEFINE a == When(e.name # NoSymbol, Word(raw + 5, VADDR(x)))
             pair == <<VADDR(nids), VADDR(nids + n)>>
             b == From(raw + 6, pair)
             c == From(nids + n, entries)
  <2>1. DOMAIN a = {raw + 5 : m \in named}
    <3>1. DOMAIN a = IF e.name # NoSymbol THEN DOMAIN Word(raw + 5, VADDR(x)) ELSE {}
          BY DomWhen
    <3>2. DOMAIN Word(raw + 5, VADDR(x)) = {raw + 5}
          BY DomWord
    <3> HIDE DEF a
    <3> QED
        BY <3>1, <3>2
  <2>2. DOMAIN b = raw + 6 .. raw + 7
    <3>1. Len(pair) = 2
          OBVIOUS
    <3> HIDE DEF pair, raw
    <3>2. raw + 6 \in Int
          BY <1>4
    <3>3. DOMAIN b = raw + 6 .. raw + 6 + 2 - 1
          BY <3>1, <3>2, DomFrom
    <3>4. raw + 6 + 2 - 1 = raw + 7
          BY <1>4
    <3> QED
        BY <3>3, <3>4
  <2>3. DOMAIN c = nids + n .. nids + 2 * n - 1
    <3> HIDE DEF entries
    <3>1. nids \in Int
          BY <1>3, <1>4
    <3> HIDE DEF nids, n
    <3>2. nids + n \in Int
          BY <1>2, <3>1
    <3>3. DOMAIN c = nids + n .. nids + n + n - 1
          BY <1>6, <3>2, DomFrom
    <3>4. nids + n + n - 1 = nids + 2 * n - 1
          BY <1>2, <3>1
    <3> QED
        BY <3>3, <3>4
  <2>4. addresses = (a ++ b) ++ c
        OBVIOUS
  <2> HIDE DEF a, b, c, addresses
  <2>5. PICK q : q = a ++ b
        OBVIOUS
  <2>6. DOMAIN q = DOMAIN a \cup DOMAIN b
        BY <2>5, JoinDomain
  <2>7. DOMAIN addresses = DOMAIN q \cup DOMAIN c
        BY <2>4, <2>5, JoinDomain
  <2> QED
      BY <2>1, <2>2, <2>3, <2>6, <2>7
<1> HIDE DEF values, addresses, head, nidwords, entries, more
<1>9. PICK N, X, R, K : N = n /\ X = x /\ R = raw /\ K = k
      OBVIOUS
<1> DEFINE V == (R .. R + EXPORT - 1) \cup (X .. X + K + 2 * N - 1)
<1>10. N \in Nat /\ R \in Nat /\ X \in Nat /\ K \in {0, 1} /\ R + 8 <= X
       BY <1>2, <1>3, <1>4, <1>9 DEF EXPORT
<1>11. /\ DOMAIN values = (R .. R + 4) \cup {X : m \in named} \cup (X + K .. X + K + N - 1)
       /\ DOMAIN addresses = {R + 5 : m \in named} \cup (R + 6 .. R + 7) \cup (X + K + N .. X + K + 2 * N - 1)
       BY <1>7, <1>8, <1>9
<1>12. named = IF K = 0 THEN {} ELSE {1}
       BY <1>3, <1>9
<1> HIDE DEF n, x, raw, k, nids, named
<1>13. DOMAIN values \subseteq V /\ DOMAIN addresses \subseteq V /\ DOMAIN values \cap DOMAIN addresses = {}
  <2>1. CASE K = 0
    <3>1. /\ DOMAIN values = (R .. R + 4) \cup (X + K .. X + K + N - 1)
          /\ DOMAIN addresses = (R + 6 .. R + 7) \cup (X + K + N .. X + K + 2 * N - 1)
          BY <1>11, <1>12, <2>1
    <3> QED
        BY <1>10, <2>1, <3>1 DEF EXPORT
  <2>2. CASE K = 1
    <3>1. /\ DOMAIN values = (R .. R + 4) \cup {X} \cup (X + K .. X + K + N - 1)
          /\ DOMAIN addresses = {R + 5} \cup (R + 6 .. R + 7) \cup (X + K + N .. X + K + 2 * N - 1)
          BY <1>11, <1>12, <2>2
    <3> QED
        BY <1>10, <2>2, <3>1 DEF EXPORT
  <2> QED
      BY <1>10, <2>1, <2>2
<1>14. \A w \in V : w \in Int /\ \E s \in DOMAIN more : addrs[s] <= w /\ w < addrs[s] + more[s]
  <2>1. addrs["Lib_ent"] = R /\ addrs["Export"] = X /\ more["Lib_ent"] = 8 /\ more["Export"] = K + 2 * N
        BY <1>5, <1>9 DEF raw, x, EXPORT
  <2>2. ASSUME NEW w \in R .. R + EXPORT - 1 PROVE w \in Int /\ addrs["Lib_ent"] <= w /\ w < addrs["Lib_ent"] + more["Lib_ent"]
        BY <1>10, <2>1 DEF EXPORT
  <2>3. ASSUME NEW w \in X .. X + K + 2 * N - 1 PROVE w \in Int /\ addrs["Export"] <= w /\ w < addrs["Export"] + more["Export"]
        BY <1>10, <2>1
  <2> QED
      BY <1>5, <2>2, <2>3
<1>15. DOMAIN more \subseteq SectionNames \ {"ModuleInfo"} /\ \A s \in DOMAIN more : more[s] \in Nat
  <2>1. more["Lib_ent"] = 8 /\ more["Export"] = K + 2 * N /\ K + 2 * N \in Nat
        BY <1>5, <1>9, <1>10 DEF EXPORT
  <2> QED
      BY <1>5, <2>1 DEF SectionNames
<1>16. PICK M, A, B : M = more /\ A = values /\ B = addresses
       OBVIOUS
<1>17. Fits(M) /\ Used(M) /\ Write(A, B)
       BY <1>1, <1>16
<1>18. DOMAIN M \subseteq SectionNames \ {"ModuleInfo"} /\ (\A s \in DOMAIN M : M[s] \in Nat)
       /\ DOMAIN A \subseteq V /\ DOMAIN B \subseteq V /\ DOMAIN A \cap DOMAIN B = {}
       /\ \A w \in V : w \in Int /\ \E s \in DOMAIN M : addrs[s] <= w /\ w < addrs[s] + M[s]
       BY <1>13, <1>14, <1>15, <1>16
<1> HIDE DEF V
<1>19. stage \in {"encode_exports", "encode_imports"} /\ UNCHANGED <<elf, stage, top, sizes>>
       BY <1>1
<1> QED
    BY <1>17, <1>18, <1>19, SectionsWrite

\* The relocation information of the variables of a library.
Infos(lib) == [n \in 1 .. Len(lib.variables) |-> RelInfo(Stub(lib, lib.variables[n]))]

\* They are lists, since each variable has a stub.
LEMMA InfosLists ==
  ASSUME Shape, VariablesFound, EncodeImport
  PROVE  LET lib == libs[i + 1]
         IN /\ IsList(lib.functions) /\ IsList(lib.variables)
            /\ \A n \in 1 .. Len(lib.variables) : IsList(Infos(lib)[n])
            /\ IsList(FlattenSeq(Infos(lib)))
<1> DEFINE lib == libs[i + 1]
           nv == Len(lib.variables)
           infos == Infos(lib)
<1>1. i + 1 \in DOMAIN libs
  <2>1. Len(libs) \in Nat /\ DOMAIN libs = 1 .. Len(libs)
        BY ListFacts DEF Shape, LibLists
  <2> QED
      BY <2>1 DEF Shape, EncodeImport
<1>2. IsList(lib.functions) /\ IsList(lib.variables) /\ nv \in Nat /\ DOMAIN lib.variables = 1 .. nv
      BY <1>1, ListFacts DEF Shape, LibLists
<1>3. \A v \in DOMAIN lib.variables : HasStub(lib.nid, lib.variables[v].nid)
      BY <1>1 DEF VariablesFound, EncodeImport, Encoding
<1>4. ASSUME NEW n \in 1 .. nv PROVE IsList(RelInfo(Stub(lib, lib.variables[n])))
  <2> DEFINE I == {m \in DOMAIN vstubs : vstubs[m].library_nid = lib.nid /\ vstubs[m].target_nid = lib.variables[n].nid}
  <2>1. I # {}
        BY <1>2, <1>3 DEF HasStub
  <2>2. I \in SUBSET Nat /\ I \subseteq DOMAIN vstubs
    <3>1. Len(vstubs) \in Nat /\ DOMAIN vstubs = 1 .. Len(vstubs)
          BY ListFacts DEF Shape, StubLists
    <3> QED
        BY <3>1
  <2>3. Stub(lib, lib.variables[n]) = vstubs[First(I)]
        BY DEF Stub
  <2> HIDE DEF I
  <2>4. First(I) \in DOMAIN vstubs
        BY <2>1, <2>2, FirstIn
  <2>5. IsList(Stub(lib, lib.variables[n]).rel_info)
        BY <2>3, <2>4 DEF Shape, StubLists
  <2> QED
      BY <2>5, OneList, ListConcat DEF RelInfo
<1>5. infos = [n \in 1 .. nv |-> infos[n]] /\ \A n \in 1 .. nv : IsList(infos[n])
      BY <1>4 DEF Infos
<1> HIDE DEF infos, nv
<1>6. IsList(infos) /\ DOMAIN infos = 1 .. nv
  <2>1. IsList(infos) /\ Len(infos) = nv
        BY <1>2, <1>5, FunctionList
  <2> QED
      BY <2>1, ListFacts
<1>7. \A n \in DOMAIN infos : IsList(infos[n])
      BY <1>5, <1>6
<1>8. IsList(FlattenSeq(infos))
      BY <1>6, <1>7, FlattenList
<1> QED
    BY <1>2, <1>5, <1>8 DEF infos, nv

\* Each section has room for its words in front of the next one.
LEMMA ImportRoom ==
  ASSUME Shape, UsedOK, DataOK, stage = "encode_imports", NEW more,
         DOMAIN more = {"Lib_stubs", "Import", "FNID", "FStub", "VNID", "VStub"}, \A s \in DOMAIN more : more[s] \in Nat, Fits(more)
  PROVE  /\ \A s \in DOMAIN more : addrs[s] \in Nat
         /\ addrs["Lib_stubs"] + more["Lib_stubs"] <= addrs["Import"]
         /\ addrs["Import"] + more["Import"] <= addrs["FNID"]
         /\ addrs["FNID"] + more["FNID"] <= addrs["FStub"]
         /\ addrs["FStub"] + more["FStub"] <= addrs["VNID"]
         /\ addrs["VNID"] + more["VNID"] <= addrs["VStub"]
<1>1. \A s \in DOMAIN more : s \in SectionNames /\ more[s] \in Nat /\ used[s] + more[s] <= sizes[s]
      BY DEF SectionNames, Fits
<1>2. \A s \in SectionNames : sizes[s] \in Nat
      BY DEF Shape, Words
<1>3. /\ StartIn(sizes, "Import") = StartIn(sizes, "Lib_stubs") + sizes["Lib_stubs"]
      /\ StartIn(sizes, "FNID") = StartIn(sizes, "Import") + sizes["Import"]
      /\ StartIn(sizes, "FStub") = StartIn(sizes, "FNID") + sizes["FNID"]
      /\ StartIn(sizes, "VNID") = StartIn(sizes, "FStub") + sizes["FStub"]
      /\ StartIn(sizes, "VStub") = StartIn(sizes, "VNID") + sizes["VNID"]
      BY <1>2, StartFacts
<1>4. stage \in {"encode_exports", "encode_imports"}
      OBVIOUS
<1>5. \A s, t \in DOMAIN more : StartIn(sizes, t) = StartIn(sizes, s) + sizes[s] => addrs[s] + more[s] <= addrs[t]
  <2> SUFFICES ASSUME NEW s \in DOMAIN more, NEW t \in DOMAIN more, StartIn(sizes, t) = StartIn(sizes, s) + sizes[s]
               PROVE  addrs[s] + more[s] <= addrs[t]
      OBVIOUS
  <2>1. s \in SectionNames /\ t \in SectionNames /\ more[s] \in Nat /\ used[s] + more[s] <= sizes[s]
        BY <1>1
  <2> QED
      BY <1>4, <2>1, RoomBefore
<1>6. \A s \in DOMAIN more : addrs[s] \in Nat
      BY <1>1, <1>4, NextWords
<1> QED
    BY <1>3, <1>5, <1>6

\* An import has the words for itself and its tables to itself.
ImportWords(R, I, F, S, N, V, nf, nv, l) ==
  (R .. R + 12) \cup {I} \cup (F .. F + nf - 1) \cup (S .. S + nf - 1) \cup (N .. N + nv - 1) \cup (V .. V + (nv + l) - 1)
\* Of them those that hold values, and those that hold addresses.
ValueWords(R, I, F, S, N, V, nf, nv, l) ==
  (R .. R + 4) \cup {I} \cup (F .. F + nf - 1) \cup (N .. N + nv - 1) \cup (V + nv .. V + nv + l - 1)
AddressWords(R, I, F, S, N, V, nf, nv, l) ==
  {R + 5} \cup (R + 7 .. R + 8) \cup (R + 9 .. R + 10) \cup (S .. S + nf - 1) \cup (V .. V + nv - 1)
\* They are apart, and none is another import's.
LEMMA ImportApart ==
  ASSUME NEW R \in Nat, NEW I \in Nat, NEW F \in Nat, NEW S \in Nat, NEW N \in Nat, NEW V \in Nat,
         NEW nf \in Nat, NEW nv \in Nat, NEW l \in Nat,
         R + 13 <= I, I + 1 <= F, F + nf <= S, S + nf <= N, N + nv <= V
  PROVE  /\ ValueWords(R, I, F, S, N, V, nf, nv, l) \subseteq ImportWords(R, I, F, S, N, V, nf, nv, l)
         /\ AddressWords(R, I, F, S, N, V, nf, nv, l) \subseteq ImportWords(R, I, F, S, N, V, nf, nv, l)
         /\ ValueWords(R, I, F, S, N, V, nf, nv, l) \cap AddressWords(R, I, F, S, N, V, nf, nv, l) = {}
<1>1. ASSUME NEW w \in ValueWords(R, I, F, S, N, V, nf, nv, l) PROVE w \in ImportWords(R, I, F, S, N, V, nf, nv, l)
      BY DEF ImportWords, ValueWords
<1>2. ASSUME NEW w \in AddressWords(R, I, F, S, N, V, nf, nv, l) PROVE w \in ImportWords(R, I, F, S, N, V, nf, nv, l)
      BY DEF ImportWords, AddressWords
<1>3. ASSUME NEW w \in ValueWords(R, I, F, S, N, V, nf, nv, l), w \in AddressWords(R, I, F, S, N, V, nf, nv, l) PROVE FALSE
      BY <1>3 DEF ValueWords, AddressWords
<1> QED
    BY <1>1, <1>2, <1>3

\* An import is written in its section, and each of its tables in the section for it.
LEMMA ImportData == ASSUME Shape, VariablesFound, UsedOK, DataOK, EncodeImport PROVE UsedOK' /\ DataOK'
<1> DEFINE lib == libs[i + 1]
           nf == Len(lib.functions)
           nv == Len(lib.variables)
           raw == addrs["Lib_stubs"]
           infos == [n \in 1 .. nv |-> RelInfo(Stub(lib, lib.variables[n]))]
           info_at == [n \in 1 .. nv |-> addrs["VStub"] + nv + SumOf([m \in 1 .. n - 1 |-> Len(infos[m])])]
           words == FlattenSeq(infos)
           more == [Lib_stubs |-> IMPORT, Import |-> 1, FNID |-> nf, FStub |-> nf, VNID |-> nv, VStub |-> nv + Len(words)]
           head == <<lib.version, <<lib.flags, nf>>, <<nv, 0>>, 0, lib.nid>>
           fnids == Nids(lib.functions)
           vnids == Nids(lib.variables)
           functions == [n \in 1 .. nf |-> vita_elf_host_to_vaddr(lib.functions[n].entry)]
           variables == [n \in 1 .. nv |-> VADDR(info_at[n])]
           values == From(raw, head) ++ Word(addrs["Import"], lib.name) ++ From(addrs["FNID"], fnids) ++
                     From(addrs["VNID"], vnids) ++ From(addrs["VStub"] + nv, words)
           fpair == <<VADDR(addrs["FNID"]), VADDR(addrs["FStub"])>>
           vpair == <<VADDR(addrs["VNID"]), VADDR(addrs["VStub"])>>
           addresses == Word(raw + 5, VADDR(addrs["Import"])) ++ When(nf # 0, From(raw + 7, fpair)) ++
                        When(nv # 0, From(raw + 9, vpair)) ++ From(addrs["FStub"], functions) ++ From(addrs["VStub"], variables)
<1>1. CASE UNCHANGED <<data, used, addrs, relas>> /\ stage' = "overrun"
  <2>1. UNCHANGED <<elf, sizes, top>>
        BY DEF EncodeImport
  <2>2. stage = "encode_imports"
        BY DEF EncodeImport
  <2> QED
      BY <1>1, <2>1, <2>2 DEF UsedOK, DataOK, Unencoded, Filling, Early
<1>2. CASE ~ (UNCHANGED <<data, used, addrs, relas>> /\ stage' = "overrun")
  <2>1. stage = "encode_imports" /\ stage' = stage /\ Write(values, addresses) /\ Used(more) /\ Fits(more) /\ UNCHANGED <<elf, top, sizes>>
        BY <1>2 DEF EncodeImport, Again, To
  <2>2. nf \in Nat /\ nv \in Nat /\ IsList(lib.functions) /\ IsList(lib.variables) /\ Len(words) \in Nat /\ IsList(words)
    <3>1. IsList(lib.functions) /\ IsList(lib.variables) /\ IsList(words)
          BY InfosLists DEF Infos
    <3> HIDE DEF words
    <3> QED
        BY <3>1, ListFacts
  <2>3. Len(head) = 5 /\ Len(fpair) = 2 /\ Len(vpair) = 2
        OBVIOUS
  <2>4. fnids = [n \in DOMAIN lib.functions |-> fnids[n]] /\ vnids = [n \in DOMAIN lib.variables |-> vnids[n]]
        BY DEF Nids
  <2>5. functions = [n \in 1 .. nf |-> functions[n]] /\ variables = [n \in 1 .. nv |-> variables[n]]
        OBVIOUS
  <2>6. /\ DOMAIN more = {"Lib_stubs", "Import", "FNID", "FStub", "VNID", "VStub"}
        /\ more["Lib_stubs"] = 13 /\ more["Import"] = 1 /\ more["FNID"] = nf /\ more["FStub"] = nf /\ more["VNID"] = nv
        /\ more["VStub"] = nv + Len(words)
        BY DEF IMPORT
  <2> HIDE DEF words, head, fnids, vnids, functions, variables, fpair, vpair, infos, info_at
  <2>7. Len(fnids) = nf /\ Len(vnids) = nv /\ Len(functions) = nf /\ Len(variables) = nv
        BY <2>2, <2>4, <2>5, MapList, FunctionList
  <2>8. PICK R, I, F, S, N, V, f, v, l :
          /\ R = raw /\ I = addrs["Import"] /\ F = addrs["FNID"] /\ S = addrs["FStub"] /\ N = addrs["VNID"] /\ V = addrs["VStub"]
          /\ f = nf /\ v = nv /\ l = Len(words)
        OBVIOUS
  <2>9. f \in Nat /\ v \in Nat /\ l \in Nat
        BY <2>2, <2>8
  <2> DEFINE a1 == From(R, head)
             a2 == Word(I, lib.name)
             a3 == From(F, fnids)
             a4 == From(N, vnids)
             a5 == From(V + v, words)
             b1 == Word(R + 5, VADDR(I))
             b2 == When(nf # 0, From(R + 7, fpair))
             b3 == When(nv # 0, From(R + 9, vpair))
             b4 == From(S, functions)
             b5 == From(V, variables)
  <2>10. values = (((a1 ++ a2) ++ a3) ++ a4) ++ a5 /\ addresses = (((b1 ++ b2) ++ b3) ++ b4) ++ b5
         BY <2>8
  <2> HIDE DEF more, values, addresses
  <2>11. PICK M : M = more
         OBVIOUS
  <2>12. /\ DOMAIN M = {"Lib_stubs", "Import", "FNID", "FStub", "VNID", "VStub"}
         /\ M["Lib_stubs"] = 13 /\ M["Import"] = 1 /\ M["FNID"] = f /\ M["FStub"] = f /\ M["VNID"] = v /\ M["VStub"] = v + l
         BY <2>6, <2>8, <2>11
  <2>13. (\A s \in DOMAIN M : M[s] \in Nat) /\ Fits(M) /\ Used(M)
    <3>1. v + l \in Nat
          BY <2>9
    <3>2. \A s \in DOMAIN M : M[s] \in Nat
          BY <2>9, <2>12, <3>1
    <3> QED
        BY <2>1, <2>11, <3>2
  <2>14. /\ R \in Nat /\ I \in Nat /\ F \in Nat /\ S \in Nat /\ N \in Nat /\ V \in Nat
         /\ R + 13 <= I /\ I + 1 <= F /\ F + f <= S /\ S + f <= N /\ N + v <= V
    <3>1. /\ \A s \in DOMAIN M : addrs[s] \in Nat
          /\ addrs["Lib_stubs"] + M["Lib_stubs"] <= addrs["Import"]
          /\ addrs["Import"] + M["Import"] <= addrs["FNID"]
          /\ addrs["FNID"] + M["FNID"] <= addrs["FStub"]
          /\ addrs["FStub"] + M["FStub"] <= addrs["VNID"]
          /\ addrs["VNID"] + M["VNID"] <= addrs["VStub"]
          BY <2>1, <2>12, <2>13, ImportRoom
    <3> QED
        BY <2>8, <2>12, <3>1
  <2> HIDE DEF nf, nv, raw, lib
  <2>15. /\ DOMAIN a1 = R .. R + 4 /\ DOMAIN a2 = {I} /\ DOMAIN a3 = F .. F + f - 1 /\ DOMAIN a4 = N .. N + v - 1
         /\ DOMAIN a5 = V + v .. V + v + l - 1
    <3>1. DOMAIN a1 = R .. R + 4
      <4>1. R \in Int /\ Len(head) = 5
            BY <2>3, <2>14
      <4>2. DOMAIN From(R, head) = R .. R + 5 - 1
            BY <4>1, DomFrom
      <4>3. R + 5 - 1 = R + 4
            BY <2>14
      <4> QED
          BY <4>2, <4>3
    <3>2. DOMAIN a2 = {I}
          BY DomWord
    <3>3. DOMAIN a3 = F .. F + f - 1
      <4>1. F \in Int /\ Len(fnids) = f
            BY <2>7, <2>8, <2>14
      <4> QED
          BY <4>1, DomFrom
    <3>4. DOMAIN a4 = N .. N + v - 1
      <4>1. N \in Int /\ Len(vnids) = v
            BY <2>7, <2>8, <2>14
      <4> QED
          BY <4>1, DomFrom
    <3>5. DOMAIN a5 = V + v .. V + v + l - 1
      <4>1. V + v \in Int /\ Len(words) = l
            BY <2>8, <2>9, <2>14
      <4> QED
          BY <4>1, DomFrom
    <3> QED
        BY <3>1, <3>2, <3>3, <3>4, <3>5
  <2>16. /\ DOMAIN b1 = {R + 5} /\ DOMAIN b2 \subseteq R + 7 .. R + 8 /\ DOMAIN b3 \subseteq R + 9 .. R + 10
         /\ DOMAIN b4 = S .. S + f - 1 /\ DOMAIN b5 = V .. V + v - 1
    <3>1. DOMAIN b1 = {R + 5}
          BY DomWord
    <3>2. DOMAIN b2 \subseteq R + 7 .. R + 8
      <4>0. R + 7 \in Int /\ Len(fpair) = 2
            BY <2>3, <2>14
      <4>1. R + 7 + 2 - 1 = R + 8
            BY <2>14
      <4>2. DOMAIN From(R + 7, fpair) = R + 7 .. R + 7 + 2 - 1
            BY <4>0, DomFrom
      <4>3. DOMAIN b2 = IF nf # 0 THEN DOMAIN From(R + 7, fpair) ELSE {}
            BY DomWhen
      <4> HIDE DEF b2
      <4> QED
          BY <4>1, <4>2, <4>3
    <3>3. DOMAIN b3 \subseteq R + 9 .. R + 10
      <4>0. R + 9 \in Int /\ Len(vpair) = 2
            BY <2>3, <2>14
      <4>1. R + 9 + 2 - 1 = R + 10
            BY <2>14
      <4>2. DOMAIN From(R + 9, vpair) = R + 9 .. R + 9 + 2 - 1
            BY <4>0, DomFrom
      <4>3. DOMAIN b3 = IF nv # 0 THEN DOMAIN From(R + 9, vpair) ELSE {}
            BY DomWhen
      <4> HIDE DEF b3
      <4> QED
          BY <4>1, <4>2, <4>3
    <3>4. DOMAIN b4 = S .. S + f - 1
      <4>1. S \in Int /\ Len(functions) = f
            BY <2>7, <2>8, <2>14
      <4> QED
          BY <4>1, DomFrom
    <3>5. DOMAIN b5 = V .. V + v - 1
      <4>1. V \in Int /\ Len(variables) = v
            BY <2>7, <2>8, <2>14
      <4> QED
          BY <4>1, DomFrom
    <3> QED
        BY <3>1, <3>2, <3>3, <3>4, <3>5
  <2> HIDE DEF a1, a2, a3, a4, a5, b1, b2, b3, b4, b5
  <2>17. PICK A, B : A = values /\ B = addresses
         OBVIOUS
  <2>18. DOMAIN A = ValueWords(R, I, F, S, N, V, f, v, l)
    <3>1. A = (((a1 ++ a2) ++ a3) ++ a4) ++ a5
          BY <2>10, <2>17
    <3>2. PICK q : q = a1 ++ a2
          OBVIOUS
    <3>3. PICK r : r = q ++ a3
          OBVIOUS
    <3>4. PICK t : t = r ++ a4
          OBVIOUS
    <3>5. A = t ++ a5
          BY <3>1, <3>2, <3>3, <3>4
    <3>6. DOMAIN q = DOMAIN a1 \cup DOMAIN a2
          BY <3>2, JoinDomain
    <3>7. DOMAIN r = DOMAIN q \cup DOMAIN a3
          BY <3>3, JoinDomain
    <3>8. DOMAIN t = DOMAIN r \cup DOMAIN a4
          BY <3>4, JoinDomain
    <3>9. DOMAIN A = DOMAIN t \cup DOMAIN a5
          BY <3>5, JoinDomain
    <3> QED
        BY <2>15, <3>6, <3>7, <3>8, <3>9 DEF ValueWords
  <2>19. DOMAIN B \subseteq AddressWords(R, I, F, S, N, V, f, v, l)
    <3>1. B = (((b1 ++ b2) ++ b3) ++ b4) ++ b5
          BY <2>10, <2>17
    <3>2. PICK q : q = b1 ++ b2
          OBVIOUS
    <3>3. PICK r : r = q ++ b3
          OBVIOUS
    <3>4. PICK t : t = r ++ b4
          OBVIOUS
    <3>5. B = t ++ b5
          BY <3>1, <3>2, <3>3, <3>4
    <3>6. DOMAIN q = DOMAIN b1 \cup DOMAIN b2
          BY <3>2, JoinDomain
    <3>7. DOMAIN r = DOMAIN q \cup DOMAIN b3
          BY <3>3, JoinDomain
    <3>8. DOMAIN t = DOMAIN r \cup DOMAIN b4
          BY <3>4, JoinDomain
    <3>9. DOMAIN B = DOMAIN t \cup DOMAIN b5
          BY <3>5, JoinDomain
    <3> QED
        BY <2>16, <3>6, <3>7, <3>8, <3>9 DEF AddressWords
  <2>20. PICK W : W = ImportWords(R, I, F, S, N, V, f, v, l)
         OBVIOUS
  <2>21. DOMAIN A \subseteq W /\ DOMAIN B \subseteq W /\ DOMAIN A \cap DOMAIN B = {}
         BY <2>9, <2>14, <2>18, <2>19, <2>20, ImportApart
  <2>22. \A w \in W : w \in Int /\ \E s \in DOMAIN M : addrs[s] <= w /\ w < addrs[s] + M[s]
    <3>0. /\ addrs["Lib_stubs"] = R /\ addrs["Import"] = I /\ addrs["FNID"] = F /\ addrs["FStub"] = S
          /\ addrs["VNID"] = N /\ addrs["VStub"] = V
          BY <2>8 DEF raw
    <3>1. ASSUME NEW w \in R .. R + 12 PROVE w \in Int /\ addrs["Lib_stubs"] <= w /\ w < addrs["Lib_stubs"] + M["Lib_stubs"]
          BY <2>12, <2>14, <3>0
    <3>2. I \in Int /\ addrs["Import"] <= I /\ I < addrs["Import"] + M["Import"]
          BY <2>12, <2>14, <3>0
    <3>3. ASSUME NEW w \in F .. F + f - 1 PROVE w \in Int /\ addrs["FNID"] <= w /\ w < addrs["FNID"] + M["FNID"]
          BY <2>9, <2>12, <2>14, <3>0
    <3>4. ASSUME NEW w \in S .. S + f - 1 PROVE w \in Int /\ addrs["FStub"] <= w /\ w < addrs["FStub"] + M["FStub"]
          BY <2>9, <2>12, <2>14, <3>0
    <3>5. ASSUME NEW w \in N .. N + v - 1 PROVE w \in Int /\ addrs["VNID"] <= w /\ w < addrs["VNID"] + M["VNID"]
          BY <2>9, <2>12, <2>14, <3>0
    <3>6. ASSUME NEW w \in V .. V + (v + l) - 1 PROVE w \in Int /\ addrs["VStub"] <= w /\ w < addrs["VStub"] + M["VStub"]
          BY <2>9, <2>12, <2>14, <3>0
    <3> SUFFICES ASSUME NEW w \in W PROVE w \in Int /\ \E s \in DOMAIN M : addrs[s] <= w /\ w < addrs[s] + M[s]
        OBVIOUS
    <3>7. w \in (R .. R + 12) \cup {I} \cup (F .. F + f - 1) \cup (S .. S + f - 1) \cup (N .. N + v - 1) \cup (V .. V + (v + l) - 1)
          BY <2>20 DEF ImportWords
    <3>8. \E s \in {"Lib_stubs", "Import", "FNID", "FStub", "VNID", "VStub"} : addrs[s] <= w /\ w < addrs[s] + M[s]
          BY <3>1, <3>2, <3>3, <3>4, <3>5, <3>6, <3>7
    <3>9. w \in Int
          BY <3>1, <3>2, <3>3, <3>4, <3>5, <3>6, <3>7
    <3> QED
        BY <2>12, <3>8, <3>9
  <2>23. DOMAIN M \subseteq SectionNames \ {"ModuleInfo"}
         BY <2>12 DEF SectionNames
  <2>24. Write(A, B)
         BY <2>1, <2>17
  <2>25. stage \in {"encode_exports", "encode_imports"} /\ UNCHANGED <<elf, stage, top, sizes>>
         BY <2>1
  <2> QED
      BY <2>13, <2>21, <2>22, <2>23, <2>24, <2>25, SectionsWrite
<1> QED
    BY <1>1, <1>2

----------------------------------------------------------------------------
(* The module info with its parameters, and the steps before and after.      *)

\* The words of the parameters are within them.
LEMMA ParameterWords ==
  DOMAIN ProcessVariables \subseteq 0 .. 10 /\ DOMAIN LibcVariables \subseteq 0 .. 43 /\ DOMAIN LibcFunctions \subseteq 0 .. 43
<1>1. DOMAIN ProcessVariables \subseteq 0 .. 10
  <2> DEFINE s == <<"sceUserMainThreadName", "sceUserMainThreadPriority", "sceUserMainThreadStackSize",
                    "sceUserMainThreadAttribute">>
             t == <<"sceKernelPreloadModuleInhibit", "sceUserMainThreadCpuAffinityMask">>
  <2>1. Len(s) = 4 /\ Len(t) = 2
        OBVIOUS
  <2>2. ProcessVariables = From(4, s) ++ From(9, t)
        BY DEF ProcessVariables
  <2> HIDE DEF s, t
  <2>3. DOMAIN From(4, s) = 4 .. 7 /\ DOMAIN From(9, t) = 9 .. 10
        BY <2>1 DEF From
  <2>4. DOMAIN ProcessVariables = DOMAIN From(4, s) \cup DOMAIN From(9, t)
        BY <2>2, JoinDomain
  <2> QED
      BY <2>3, <2>4
<1>2. DOMAIN LibcVariables \subseteq 0 .. 43
  <2> DEFINE s == <<"sceLibcHeapExtendedAlloc", "sceLibcHeapDelayedAlloc">>
             t == <<"sceLibcHeapInitialSize", "sceLibcHeapUnitSize1MiB", "sceLibcHeapDetectOverrun">>
             w == Word(31, "sceLibcHeapSize")
  <2>1. Len(s) = 2 /\ Len(t) = 3
        OBVIOUS
  <2>2. LibcVariables = (w ++ From(33, s)) ++ From(39, t)
        BY DEF LibcVariables
  <2>3. DOMAIN w = {31}
        BY DomWord
  <2> HIDE DEF s, t, w
  <2>4. DOMAIN From(33, s) = 33 .. 34 /\ DOMAIN From(39, t) = 39 .. 41
        BY <2>1 DEF From
  <2>5. PICK q : q = w ++ From(33, s)
        OBVIOUS
  <2>6. DOMAIN q = DOMAIN w \cup DOMAIN From(33, s)
        BY <2>5, JoinDomain
  <2>7. DOMAIN LibcVariables = DOMAIN q \cup DOMAIN From(39, t)
        BY <2>2, <2>5, JoinDomain
  <2> QED
      BY <2>3, <2>4, <2>6, <2>7
<1>3. DOMAIN LibcFunctions \subseteq 0 .. 43
  <2> DEFINE s == <<"user_malloc_init", "user_malloc_finalize", "user_malloc", "user_free", "user_calloc", "user_realloc",
                    "user_memalign", "user_reallocalign", "user_malloc_stats", "user_malloc_stats_fast",
                    "user_malloc_usable_size">>
             t == <<"_Z8user_newj", "_Z8user_newjRKSt9nothrow_t", "_Z14user_new_arrayj", "_Z14user_new_arrayjRKSt9nothrow_t",
                    "_Z11user_deletePv", "_Z11user_deletePvRKSt9nothrow_t", "_Z17user_delete_arrayPv",
                    "_Z17user_delete_arrayPvRKSt9nothrow_t">>
             u == <<"user_malloc_for_tls_init", "user_malloc_for_tls_finalize", "user_malloc_for_tls", "user_free_for_tls">>
  <2>1. Len(s) = 11 /\ Len(t) = 8 /\ Len(u) = 4
        OBVIOUS
  <2>2. LibcFunctions = (From(MallocReplace + 2, s) ++ From(NewReplace + 2, t)) ++ From(MallocForTls + 2, u)
        BY DEF LibcFunctions
  <2> HIDE DEF s, t, u
  <2>3. DOMAIN From(MallocReplace + 2, s) = 2 .. 12 /\ DOMAIN From(NewReplace + 2, t) = 15 .. 22
        /\ DOMAIN From(MallocForTls + 2, u) = 25 .. 28
        BY <2>1 DEF From, MallocReplace, NewReplace, MallocForTls
  <2>4. PICK q : q = From(MallocReplace + 2, s) ++ From(NewReplace + 2, t)
        OBVIOUS
  <2>5. DOMAIN q = DOMAIN From(MallocReplace + 2, s) \cup DOMAIN From(NewReplace + 2, t)
        BY <2>4, JoinDomain
  <2>6. DOMAIN LibcFunctions = DOMAIN q \cup DOMAIN From(MallocForTls + 2, u)
        BY <2>2, <2>4, JoinDomain
  <2> QED
      BY <2>3, <2>5, <2>6
<1> QED
    BY <1>1, <1>2, <1>3

\* What is relocated in the module info is in its parameters.
InfoAddresses == When(params.process # 0, ProcessAddresses) ++ When(params.libc # 0, LibcAddresses)
\* They are behind the words of the module info itself.
LEMMA InfoAddressWords ==
  ASSUME params.process \in {0, PARAM5, PARAM6}, params.libc \in {0, LIBC}
  PROVE  DOMAIN InfoAddresses \subseteq INFO .. INFO + params.process + params.libc - 1
<1>1. PICK p, l : p = params.process /\ l = params.libc
      OBVIOUS
<1>2. p \in {0, 12, 13} /\ l \in {0, 44} /\ LibcAt = 23 + p
      BY <1>1 DEF PARAM5, PARAM6, LIBC, LibcAt, INFO
<1>3. ASSUME p # 0 PROVE DOMAIN ProcessAddresses \subseteq 23 .. 34
  <2> DEFINE a == Symbols("variable", ProcessVariables, INFO)
             b == When(params.libc # 0, Word(INFO + 11, VADDR(LibcAt + ParamSize)))
  <2>1. DOMAIN a \subseteq {INFO + n : n \in DOMAIN ProcessVariables}
        BY DomSymbols
  <2>2. DOMAIN a \subseteq 23 .. 33
    <3> HIDE DEF a
    <3> QED
        BY <2>1, ParameterWords DEF INFO
  <2>3. DOMAIN b = IF params.libc # 0 THEN DOMAIN Word(INFO + 11, VADDR(LibcAt + ParamSize)) ELSE {}
        BY DomWhen
  <2>4. DOMAIN Word(INFO + 11, VADDR(LibcAt + ParamSize)) = {INFO + 11}
        BY DomWord
  <2>5. DOMAIN b \subseteq {34}
    <3> HIDE DEF b
    <3> QED
        BY <2>3, <2>4 DEF INFO
  <2>6. ProcessAddresses = a ++ b
        BY DEF ProcessAddresses
  <2> HIDE DEF a, b
  <2>7. DOMAIN ProcessAddresses = DOMAIN a \cup DOMAIN b
        BY <2>6, JoinDomain
  <2> QED
      BY <2>2, <2>5, <2>7
<1>4. DOMAIN LibcAddresses \subseteq 23 + p .. 23 + p + 43
  <2> DEFINE a == Symbols("variable", LibcVariables, LibcAt)
             b == Symbols("function", LibcFunctions, LibcAt)
             c == Word(LibcAt + 32, VADDR(LibcAt + DefaultHeapSize))
             d == Word(LibcAt + 37, VADDR(LibcAt + MallocReplace))
             e == Word(LibcAt + 38, VADDR(LibcAt + NewReplace))
             f == Word(LibcAt + 42, VADDR(LibcAt + MallocForTls))
  <2>1. DOMAIN a \subseteq {LibcAt + n : n \in DOMAIN LibcVariables} /\ DOMAIN b \subseteq {LibcAt + n : n \in DOMAIN LibcFunctions}
        BY DomSymbols
  <2>2. DOMAIN c = {LibcAt + 32} /\ DOMAIN d = {LibcAt + 37} /\ DOMAIN e = {LibcAt + 38} /\ DOMAIN f = {LibcAt + 42}
        BY DomWord
  <2>3. LibcAddresses = ((((a ++ b) ++ c) ++ d) ++ e) ++ f
        BY DEF LibcAddresses
  <2> HIDE DEF a, b, c, d, e, f
  <2> DEFINE W == 23 + p .. 23 + p + 43
  <2>4. DOMAIN a \subseteq W /\ DOMAIN b \subseteq W
    <3>1. \A n \in 0 .. 43 : LibcAt + n \in W
          BY <1>2
    <3> HIDE DEF W
    <3> QED
        BY <2>1, <3>1, ParameterWords
  <2>5. DOMAIN c \subseteq W /\ DOMAIN d \subseteq W /\ DOMAIN e \subseteq W /\ DOMAIN f \subseteq W
        BY <1>2, <2>2
  <2> HIDE DEF W
  <2>6. PICK q : q = a ++ b
        OBVIOUS
  <2>7. PICK r : r = q ++ c
        OBVIOUS
  <2>8. PICK s : s = r ++ d
        OBVIOUS
  <2>9. PICK t : t = s ++ e
        OBVIOUS
  <2>10. LibcAddresses = t ++ f
         BY <2>3, <2>6, <2>7, <2>8, <2>9
  <2>11. DOMAIN q = DOMAIN a \cup DOMAIN b
         BY <2>6, JoinDomain
  <2>12. DOMAIN r = DOMAIN q \cup DOMAIN c
         BY <2>7, JoinDomain
  <2>13. DOMAIN s = DOMAIN r \cup DOMAIN d
         BY <2>8, JoinDomain
  <2>14. DOMAIN t = DOMAIN s \cup DOMAIN e
         BY <2>9, JoinDomain
  <2>15. DOMAIN LibcAddresses = DOMAIN t \cup DOMAIN f
         BY <2>10, JoinDomain
  <2>16. DOMAIN LibcAddresses \subseteq W
         BY <2>4, <2>5, <2>11, <2>12, <2>13, <2>14, <2>15
  <2> QED
      BY <2>16 DEF W
<1>5. DOMAIN When(params.process # 0, ProcessAddresses) = IF params.process # 0 THEN DOMAIN ProcessAddresses ELSE {}
      BY DomWhen
<1>6. DOMAIN When(params.libc # 0, LibcAddresses) = IF params.libc # 0 THEN DOMAIN LibcAddresses ELSE {}
      BY DomWhen
<1>7. DOMAIN InfoAddresses = DOMAIN When(params.process # 0, ProcessAddresses) \cup DOMAIN When(params.libc # 0, LibcAddresses)
      BY JoinDomain DEF InfoAddresses
<1>8. ASSUME NEW w \in DOMAIN InfoAddresses PROVE w \in 23 .. 23 + p + l - 1
  <2>1. CASE w \in DOMAIN When(params.process # 0, ProcessAddresses)
    <3>1. p # 0 /\ w \in DOMAIN ProcessAddresses
          BY <1>1, <1>5, <2>1
    <3>2. w \in 23 .. 34
          BY <1>3, <3>1
    <3> QED
        BY <1>2, <3>1, <3>2
  <2>2. CASE w \in DOMAIN When(params.libc # 0, LibcAddresses)
    <3>1. l # 0 /\ w \in DOMAIN LibcAddresses
          BY <1>1, <1>6, <2>2
    <3> QED
        BY <1>2, <1>4, <3>1
  <2> QED
      BY <1>7, <2>1, <2>2
<1> QED
    BY <1>1, <1>8 DEF INFO

\* The module info is written in its own section, the first.
LEMMA InfoData == ASSUME Shape, ParamsOK, UsedOK, DataOK, EncodeInfo PROVE UsedOK' /\ DataOK'
<1>1. stage = "encode_info" /\ stage' = "encode_exports" /\ UNCHANGED <<elf, params, top, libs, sizes, used, addrs>>
      BY DEF EncodeInfo, To
<1>2. stage \in Filling /\ stage' \in Filling /\ stage' \notin Unencoded \cup {"encode_info"}
      BY <1>1 DEF Filling, Unencoded, Early
<1>3. /\ DOMAIN data = 0 .. EndIn(sizes) - 1 /\ relas = {}
      /\ \A s \in SectionNames : addrs[s] = StartIn(sizes, s) + used[s]
      BY <1>1, <1>2 DEF DataOK
<1>4. UsedOK'
      BY <1>1, <1>2 DEF UsedOK
<1>5. PICK last :
        /\ last = IF top.start # NULL
                  THEN <<OFFSET("Lib_stubs"), OFFSET("Lib_stubs") + 4 * sizes["Lib_stubs"]>> ELSE <<0, 0>>
        /\ Write(From(9, <<OFFSET("Lib_ent"), OFFSET("Lib_ent") + 4 * sizes["Lib_ent"]>> \o last) ++
                  From(17, <<SegOffset(top.start), SegOffset(top.stop)>>), InfoAddresses)
      BY DEF EncodeInfo, InfoAddresses
<1>6. PICK four, two : /\ four = <<OFFSET("Lib_ent"), OFFSET("Lib_ent") + 4 * sizes["Lib_ent"]>> \o last
                       /\ two = <<SegOffset(top.start), SegOffset(top.stop)>>
      OBVIOUS
<1>7. Len(four) = 4 /\ Len(two) = 2
  <2>1. Len(two) = 2
        BY <1>6
  <2>2. IsList(last) /\ Len(last) = 2
    <3>1. PICK a, b : last = <<a, b>>
          BY <1>5
    <3> QED
        BY <3>1, List2
  <2>3. PICK out : out = <<OFFSET("Lib_ent"), OFFSET("Lib_ent") + 4 * sizes["Lib_ent"]>>
        OBVIOUS
  <2>4. IsList(out) /\ Len(out) = 2
        BY <2>3, List2
  <2>5. four = out \o last
        BY <1>6, <2>3
  <2>6. Len(four) = Len(out) + Len(last)
        BY <2>2, <2>4, <2>5, ListConcat
  <2> QED
      BY <2>1, <2>2, <2>4, <2>6
<1>8. PICK A, B : A = From(9, four) ++ From(17, two) /\ B = InfoAddresses
      OBVIOUS
<1>9. Write(A, B)
      BY <1>5, <1>6, <1>8
<1>10. DOMAIN From(9, four) = 9 .. 12 /\ DOMAIN From(17, two) = 17 .. 18
       BY <1>7 DEF From
<1>11. DOMAIN A = DOMAIN From(9, four) \cup DOMAIN From(17, two)
       BY <1>8, JoinDomain
<1> DEFINE V == 0 .. INFO + params.process + params.libc - 1
<1>12. params.process \in {0, 12, 13} /\ params.libc \in {0, 44} /\ sizes["ModuleInfo"] >= INFO + params.process + params.libc
       BY <1>2 DEF ParamsOK, PARAM5, PARAM6, LIBC
<1>13. DOMAIN A \subseteq V /\ DOMAIN B \subseteq V /\ DOMAIN A \cap DOMAIN B = {}
  <2>1. DOMAIN B \subseteq INFO .. INFO + params.process + params.libc - 1
        BY <1>8, InfoAddressWords DEF ParamsOK
  <2>2. DOMAIN A = (9 .. 12) \cup (17 .. 18)
        BY <1>10, <1>11
  <2> QED
      BY <1>12, <2>1, <2>2 DEF INFO
<1>14. /\ \A s \in SectionNames : sizes[s] \in Nat /\ used[s] \in 0 .. sizes[s]
       /\ sizes["ModuleInfo"] \in Nat
       BY DEF Shape, Words, UsedOK, SectionNames
<1>15. V \subseteq DOMAIN data /\ V \subseteq 0 .. sizes["ModuleInfo"] - 1
  <2>1. sizes["ModuleInfo"] <= EndIn(sizes) /\ EndIn(sizes) \in Nat
    <3>1. StartIn(sizes, "ModuleInfo") + sizes["ModuleInfo"] <= EndIn(sizes) /\ StartIn(sizes, "ModuleInfo") = 0
          BY <1>14, SectionsApart, StartFacts DEF SectionNames
    <3>2. EndIn(sizes) \in Nat
          BY <1>14, StartFacts
    <3> QED
        BY <1>14, <3>1, <3>2
  <2>2. PICK m, n, e : m = INFO + params.process + params.libc /\ n = sizes["ModuleInfo"] /\ e = EndIn(sizes)
        OBVIOUS
  <2>3. m \in Int /\ n \in Nat /\ e \in Nat /\ m <= n /\ n <= e
        BY <1>12, <1>14, <2>1, <2>2 DEF INFO
  <2>4. 0 .. m - 1 \subseteq 0 .. n - 1 /\ 0 .. m - 1 \subseteq 0 .. e - 1
        BY <2>3
  <2>5. V = 0 .. m - 1
        BY <1>12, <2>2, <2>3 DEF INFO
  <2>6. DOMAIN data = 0 .. e - 1 /\ 0 .. sizes["ModuleInfo"] - 1 = 0 .. n - 1
        BY <1>3, <2>2
  <2> HIDE DEF V
  <2> QED
      BY <2>4, <2>5, <2>6
<1> HIDE DEF V
<1>16. DOMAIN data' = DOMAIN data /\ Held(relas', data', {} \cup V)
  <2>1. PICK u : u = {}
        OBVIOUS
  <2>2. Held(relas, data, u) /\ u \cap V = {} /\ u \subseteq DOMAIN data
        BY <1>3, <2>1 DEF Held
  <2>3. DOMAIN data' = DOMAIN data /\ Held(relas', data', u \cup V)
        BY <1>9, <1>13, <1>15, <2>2, RelocWrite
  <2> QED
      BY <2>1, <2>3
<1>17. \A r \in relas' : \E w \in V : r = [at |-> VADDR(w)', addend |-> data'[w]]
       BY <1>1, <1>16, SamePlaces DEF Held
<1>18. \A w \in V : w \in DOMAIN data' /\ InUse(sizes', addrs', w)
       BY <1>1, <1>15, <1>16 DEF InUse
<1>19. RelasOK'
  <2>1. \A r \in relas' : \E w \in DOMAIN data' : InUse(sizes', addrs', w) /\ r = [at |-> VADDR(w)', addend |-> data'[w]]
        BY <1>17, <1>18
  <2> QED
      BY <2>1, Zenon DEF RelasOK, InUse
<1>20. DataOK'
       BY <1>1, <1>2, <1>3, <1>16, <1>19 DEF DataOK
<1> QED
    BY <1>4, <1>20

\* Before the sizes are known nothing is counted or encoded.
LEMMA EarlyData ==
  ASSUME UsedOK, DataOK, stage \in Unencoded, UNCHANGED <<sizes, data, used, addrs, relas>>,
         stage' \notin Filling
  PROVE  UsedOK' /\ DataOK'
BY DEF UsedOK, DataOK

\* When a step fails nothing more is written.
LEMMA FailedData ==
  ASSUME UsedOK, DataOK, UNCHANGED <<sizes, data, used, addrs, relas>>, stage' \notin Filling \cup Unencoded
  PROVE  UsedOK' /\ DataOK'
BY DEF UsedOK, DataOK, Filling

\* Where nothing changes but the stage, what is encoded stays.
LEMMA KeptData ==
  ASSUME UsedOK, DataOK, UNCHANGED <<elf, top, sizes, data, used, addrs, relas>>, stage \in Filling,
         stage' \in Filling \ {"encode_info"}
  PROVE  UsedOK' /\ DataOK'
<1>1. stage' \notin Unencoded \cup {"encode_info"}
      BY DEF Filling, Unencoded, Early
<1>2. RelasOK'
  <2>1. \A r \in relas : \E w \in DOMAIN data : InUse(sizes, addrs, w) /\ r = [at |-> VADDR(w), addend |-> data[w]]
        BY DEF DataOK, RelasOK
  <2>2. \A w : VADDR(w)' = VADDR(w)
        BY SamePlaces
  <2>3. \A r \in relas' : \E w \in DOMAIN data' : InUse(sizes', addrs', w) /\ r = [at |-> VADDR(w)', addend |-> data'[w]]
        BY <2>1, <2>2
  <2> QED
      BY <2>3, Zenon DEF RelasOK, InUse
<1> QED
    BY <1>1, <1>2 DEF UsedOK, DataOK

\* With the sizes there is room, and nothing is used.
LEMMA SizedData == ASSUME Shape, UsedOK, DataOK, Sized PROVE UsedOK' /\ DataOK'
<1>1. stage = "size" /\ stage' = "place" /\ sizes' = get_size /\ UNCHANGED <<data, used, addrs, relas>>
      BY DEF Sized, To
<1>2. stage \in Unencoded /\ stage' \in Unencoded /\ stage' \notin Filling
      BY <1>1 DEF Unencoded, Filling
<1>3. used = NoWords /\ DOMAIN used = SectionNames /\ DOMAIN data = {} /\ relas = {}
      BY <1>2 DEF UsedOK, DataOK
<1>4. \A s \in SectionNames : used[s] = 0
      BY <1>3, SectionFacts DEF NoWords
<1>5. \A s \in SectionNames : sizes'[s] \in Nat
      BY <1>1, SizesNat
<1> QED
    BY <1>1, <1>2, <1>3, <1>4, <1>5 DEF UsedOK, DataOK

\* The sections are placed one after the other.
LEMMA PlaceData == ASSUME Shape, UsedOK, DataOK, Place PROVE UsedOK' /\ DataOK'
<1>1. stage = "place" /\ UNCHANGED <<elf, top, sizes, used, relas>>
      BY DEF Place
<1>2. CASE (To("null") \/ To("crash")) /\ UNCHANGED <<data, addrs>>
  <2>1. stage' \notin Filling \cup Unencoded
        BY <1>2 DEF To, Filling, Unencoded, Early
  <2> QED
      BY <1>1, <1>2, <2>1, FailedData
<1>3. CASE ~ ((To("null") \/ To("crash")) /\ UNCHANGED <<data, addrs>>)
  <2>1. /\ stage' = "encode_info" /\ data' = [w \in 0 .. total_size - 1 |-> 0]
        /\ addrs' = [s \in DOMAIN addrs |-> StartIn(sizes, s)]
        BY <1>3 DEF Place, To, Total, StartIn, SizesOf
  <2>2. stage \in Unencoded /\ stage' \in Filling /\ stage' \notin Unencoded
        BY <1>1, <2>1 DEF Unencoded, Filling, Early
  <2>3. used = NoWords /\ DOMAIN used = SectionNames /\ relas = {} /\ \A s \in SectionNames : used[s] \in 0 .. sizes[s]
        BY <2>2 DEF UsedOK, DataOK
  <2>4. \A s \in SectionNames : used[s] = 0
        BY <2>3, SectionFacts DEF NoWords
  <2>5. UsedOK'
        BY <1>1, <2>3 DEF UsedOK
  <2>6. \A s \in SectionNames : addrs'[s] = StartIn(sizes, s) + used[s]
    <3>1. DOMAIN addrs = SectionNames /\ \A s \in SectionNames : sizes[s] \in Nat
          BY DEF Shape, Words
    <3>2. \A s \in SectionNames : StartIn(sizes, s) \in Nat
          BY <3>1, StartFacts
    <3>3. \A s \in SectionNames : addrs'[s] = StartIn(sizes, s)
          BY <2>1, <3>1
    <3> QED
        BY <2>4, <3>2, <3>3
  <2>7. DOMAIN data' = 0 .. EndIn(sizes) - 1
        BY <2>1, TotalIsEnd
  <2>8. RelasOK'
        BY <1>1, <2>3 DEF RelasOK
  <2> QED
      BY <1>1, <2>2, <2>3, <2>5, <2>6, <2>7, <2>8 DEF DataOK
<1> QED
    BY <1>2, <1>3

\* Every step of vita-elf-create.
LEMMA CreateData == ASSUME Pipeline, ParamsOK, UsedOK, DataOK, VitaElfCreate PROVE UsedOK' /\ DataOK'
<1>1. Shape /\ VariablesFound
      BY DEF Pipeline
<1> DEFINE Frame == UNCHANGED <<sizes, data, used, addrs, relas>>
<1>2. CASE load_stubs \/ Loaded \/ vita_elf_generate_exports \/ sce_elf_module_params_create \/ set_main_module_export
  <2>1. stage \in Unencoded /\ stage' \notin Filling /\ Frame
        BY <1>2 DEF load_stubs, Loaded, vita_elf_generate_exports, sce_elf_module_params_create, set_main_module_export, To, Again,
                    Unencoded, Early, Filling
  <2> QED
      BY <2>1, EarlyData
<1>3. CASE set_module_export \/ ExportsDone \/ InsertFunction \/ InsertVariable \/ ImportsDone
  <2>1. stage \in Unencoded /\ stage' \notin Filling /\ Frame
        BY <1>3 DEF set_module_export, ExportsDone, InsertFunction, InsertVariable, ImportsDone, To, Again, Unencoded, Early, Filling
  <2> QED
      BY <2>1, EarlyData
<1>4. CASE Sized
      BY <1>1, <1>4, SizedData
<1>5. CASE Place
      BY <1>1, <1>5, PlaceData
<1>6. CASE EncodeInfo
      BY <1>1, <1>6, InfoData
<1>7. CASE EncodeExport
  <2> DEFINE fits == Fits([Lib_ent |-> EXPORT,
                           Export |-> NameWords(top.exports[i + 1].name) + 2 * Len(top.exports[i + 1].entries)])
  <2>1. CASE fits
        BY <1>1, <1>7, <2>1, ExportData
  <2>2. CASE ~ fits
    <3>1. stage' = "null" /\ Frame
          BY <1>7, <2>2 DEF EncodeExport, To
    <3>2. stage' \notin Filling \cup Unencoded
          BY <3>1 DEF Filling, Unencoded, Early
    <3> QED
        BY <3>1, <3>2, FailedData
  <2> QED
      BY <2>1, <2>2
<1>8. CASE EncodeImport
      BY <1>1, <1>8, ImportData
<1>9. CASE ExportsEncoded \/ Encoded
  <2>1. stage \in Filling /\ stage' \in {"encode_imports", "encoded", "null"} /\ UNCHANGED <<elf, top, sizes, data, used, addrs, relas>>
        BY <1>9 DEF ExportsEncoded, Encoded, To, Filling
  <2>2. CASE stage' = "null"
    <3>1. stage' \notin Filling \cup Unencoded
          BY <2>2 DEF Filling, Unencoded, Early
    <3> QED
        BY <2>1, <3>1, FailedData
  <2>3. CASE stage' # "null"
    <3>1. stage' \in Filling \ {"encode_info"}
          BY <2>1, <2>3 DEF Filling
    <3> QED
        BY <2>1, <3>1, KeptData
  <2> QED
      BY <2>2, <2>3
<1> QED
    BY <1>2, <1>3, <1>4, <1>5, <1>6, <1>7, <1>8, <1>9 DEF VitaElfCreate

----------------------------------------------------------------------------
(* The invariant of the encoded data.                                        *)

\* The parameters are counted from when they are created.
LEMMA CreateParams == ASSUME Shape, ParamsOK, VitaElfCreate PROVE ParamsOK'
<1>1. i \in Nat /\ CreateFrame
      BY CreateFrames DEF Shape
<1> DEFINE before == {"link", "load", "generate", "params"}
           Counted == {"place"} \cup Filling
<1>2. CASE load_stubs \/ Loaded
  <2>1. stage \in before /\ stage' \notin Counted /\ params' = params
        BY <1>2 DEF load_stubs, Loaded, To, Again, Filling
  <2> QED
      BY <2>1 DEF ParamsOK
<1>3. CASE vita_elf_generate_exports
  <2>1. stage \in before /\ stage' \notin Counted /\ params' = params
        BY <1>3 DEF vita_elf_generate_exports, To, Filling
  <2> QED
      BY <2>1 DEF ParamsOK
<1>4. CASE sce_elf_module_params_create
  <2>1. stage' \in {"failure", "main_export"} /\ elf' = elf /\ exports' = exports
        BY <1>4 DEF sce_elf_module_params_create, To
  <2>2. \/ params' = params
        \/ \E p \in {PARAM6, PARAM5}, l \in {LIBC, 0} : params' = [process |-> p, libc |-> l] /\ (l # 0 => have_libc)
        BY <1>4 DEF sce_elf_module_params_create
  <2>3. have_libc' = have_libc
        BY <2>1 DEF have_libc, HasParam, Has, Named, program
  <2>4. stage' \notin before /\ stage' \notin Counted
        BY <2>1 DEF Filling
  <2>5. stage \in before
        BY <1>4 DEF sce_elf_module_params_create
  <2> QED
      BY <2>2, <2>3, <2>4, <2>5 DEF ParamsOK
<1>5. CASE Sized
  <2>1. sizes' = get_size /\ stage \notin before /\ stage' \notin before /\ UNCHANGED <<elf, exports, params>>
        BY <1>5 DEF Sized, To
  <2>2. have_libc' = have_libc
        BY <2>1 DEF have_libc, HasParam, Has, Named, program
  <2>3. sizes'["ModuleInfo"] = INFO + params.process + (IF have_libc THEN LIBC ELSE 0)
        BY <2>1 DEF get_size
  <2>4. params.libc \in {0, LIBC} /\ (params.libc # 0 => have_libc) /\ params.process \in {0, PARAM5, PARAM6}
        BY DEF ParamsOK
  <2>5. sizes'["ModuleInfo"] >= INFO + params.process + params.libc
        BY <2>3, <2>4 DEF INFO, PARAM5, PARAM6, LIBC
  <2> QED
      BY <2>1, <2>2, <2>4, <2>5 DEF ParamsOK
<1>6. CASE ~ (load_stubs \/ Loaded \/ vita_elf_generate_exports \/ sce_elf_module_params_create \/ Sized)
  <2>1. UNCHANGED <<elf, exports, params, sizes>>
        BY <1>1, <1>6 DEF CreateFrame
  <2>2. stage \notin before /\ stage' \notin before /\ (stage' \in Counted => stage \in Counted)
    <3>1. CASE set_main_module_export \/ set_module_export \/ ExportsDone \/ InsertFunction \/ InsertVariable \/ ImportsDone
          BY <3>1 DEF set_main_module_export, set_module_export, ExportsDone, InsertFunction, InsertVariable, ImportsDone, To, Again, Filling
    <3>2. CASE Place \/ EncodeInfo \/ EncodeExport \/ ExportsEncoded \/ EncodeImport \/ Encoded
          BY <3>2 DEF Place, EncodeInfo, EncodeExport, ExportsEncoded, EncodeImport, Encoded, To, Again, Filling
    <3> QED
        BY <1>6, <3>1, <3>2 DEF VitaElfCreate
  <2>3. have_libc' = have_libc
        BY <2>1 DEF have_libc, HasParam, Has, Named, program
  <2> QED
      BY <2>1, <2>2, <2>3 DEF ParamsOK
<1> QED
    BY <1>2, <1>3, <1>4, <1>5, <1>6

\* module_start is in a segment, or it is none.
LEMMA CreateTop == ASSUME Shape, TopPlaced, VitaElfCreate PROVE TopPlaced'
<1>1. i \in Nat /\ CreateFrame
      BY CreateFrames DEF Shape
<1>2. elf' = elf
      BY <1>1 DEF CreateFrame
<1>3. \A a : SegmentsOf(a)' = SegmentsOf(a)
      BY <1>2 DEF SegmentsOf, InSegment, program
<1>4. CASE UNCHANGED top
  <2>1. TopPlaced
        OBVIOUS
  <2>2. SegmentsOf(top.start)' = SegmentsOf(top.start)
        BY <1>2, <1>4 DEF SegmentsOf, InSegment, program
  <2> QED
      BY <1>4, <2>1, <2>2 DEF TopPlaced
<1>5. CASE set_main_module_export /\ ~ UNCHANGED top
  <2> DEFINE a == IF "start" \in ShownPoints THEN PointAddress("start") ELSE NULL
             b == IF "stop" \in ShownPoints THEN PointAddress("stop") ELSE NULL
  <2>1. PICK c : top' = [start |-> a, stop |-> b, exports |-> c]
        BY <1>5 DEF set_main_module_export
  <2>2. a = NULL \/ SegmentsOf(a) # {}
    <3>1. \A v : vita_elf_vaddr_to_host(v) = NULL \/ (SegmentsOf(v) # {} /\ vita_elf_vaddr_to_host(v) = v)
          BY DEF vita_elf_vaddr_to_host
    <3>2. \E v : PointAddress("start") = vita_elf_vaddr_to_host(v)
          BY DEF PointAddress
    <3> QED
        BY <3>1, <3>2
  <2>3. PICK x : x = a
        OBVIOUS
  <2> HIDE DEF a, b
  <2>4. top'.start = x /\ "start" \in DOMAIN top'
        BY <2>1, <2>3
  <2>5. x = NULL \/ SegmentsOf(x)' # {}
        BY <1>3, <2>2, <2>3
  <2>6. SegmentsOf(top.start)' = {n \in DOMAIN elf.program.segments :
                                   elf.program.segments[n].vaddr <= x /\ x < elf.program.segments[n].vaddr + elf.program.segments[n].memsz}
        BY <1>2, <2>4 DEF SegmentsOf, InSegment, program
  <2>7. SegmentsOf(x)' = SegmentsOf(top.start)'
        BY <1>2, <2>6 DEF SegmentsOf, InSegment, program
  <2> QED
      BY <2>4, <2>5, <2>7 DEF TopPlaced
<1>6. CASE set_module_export /\ ~ UNCHANGED top
  <2> DEFINE lib == exports.libs[i + 1]
             e == [name |-> lib.name, nid |-> lib.nid, version |-> lib.version,
                   flags |-> IF lib.syscall THEN 16385 ELSE 1,
                   functions |-> Len(lib.function),
                   entries |-> LibEntries(lib, "function") \o LibEntries(lib, "variable")]
  <2>1. top' = [top EXCEPT !.exports = Append(@, e)]
        BY <1>6 DEF set_module_export
  <2> HIDE DEF e
  <2>2. top'.start = top.start /\ "start" \in DOMAIN top'
        BY <2>1 DEF TopPlaced
  <2>3. SegmentsOf(top.start)' = SegmentsOf(top.start)
        BY <1>2, <2>2 DEF SegmentsOf, InSegment, program
  <2> QED
      BY <2>2, <2>3 DEF TopPlaced
<1> QED
    BY <1>1, <1>4, <1>5, <1>6 DEF CreateFrame

\* Nothing is encoded at first.
LEMMA InitData == ImportsInit => DataInv
<1> SUFFICES ASSUME ImportsInit PROVE DataInv
    OBVIOUS
<1>1. stage = "link" /\ params = [process |-> 0, libc |-> 0] /\ sizes = NoWords /\ used = NoWords /\ data = <<>> /\ relas = {}
      /\ top = [start |-> NULL, stop |-> NULL, exports |-> <<>>]
      BY DEF ImportsInit, InitWith
<1>2. stage \notin Filling /\ stage # "place" /\ DOMAIN <<>> = {}
      BY <1>1 DEF Filling
<1>3. ParamsOK
  <2>1. params.process = 0 /\ params.libc = 0
        BY <1>1
  <2> QED
      BY <1>2, <2>1 DEF ParamsOK
<1>4. TopPlaced
      BY <1>1 DEF TopPlaced
<1>5. UsedOK
      BY <1>1, SectionFacts DEF UsedOK, NoWords
<1>6. DataOK
      BY <1>1, <1>2 DEF DataOK
<1> QED
    BY <1>3, <1>4, <1>5, <1>6 DEF DataInv

\* Every step of every program keeps it.
LEMMA NextData == ASSUME Pipeline, DataInv, [ImportsNext]_allvars PROVE DataInv'
<1>1. Shape /\ ParamsOK /\ TopPlaced /\ UsedOK /\ DataOK /\ i \in Nat
      BY DEF Pipeline, Shape, DataInv
<1>2. CASE Generate \/ (Terminated /\ UNCHANGED allvars) \/ UNCHANGED allvars
  <2>1. UNCHANGED <<elf, stage, exports, params, top, sizes, data, used, addrs, relas>>
        BY <1>2 DEF Generate, allvars, state
  <2>2. ParamsOK' /\ TopPlaced'
        BY <1>1, <2>1 DEF ParamsOK, TopPlaced, have_libc, HasParam, Has, Named, program, SegmentsOf, InSegment
  <2>3. UsedOK' /\ DataOK'
    <3>1. CASE stage \in Filling \ {"encode_info"}
          BY <1>1, <2>1, <3>1, KeptData
    <3>2. CASE stage = "encode_info"
          BY <1>1, <2>1, <3>2 DEF UsedOK, DataOK, RelasOK, Unencoded, Early
    <3>3. CASE stage \notin Filling
          BY <1>1, <2>1, <3>3 DEF UsedOK, DataOK
    <3> QED
        BY <3>1, <3>2, <3>3
  <2> QED
      BY <2>2, <2>3 DEF DataInv
<1>3. CASE Link
  <2>1. stage = "link" /\ stage' = "load" /\ UNCHANGED <<exports, params, top, sizes, data, used, addrs, relas>>
        BY <1>3 DEF Link
  <2>2. program' = program
    <3>1. PICK s : elf' = [elf EXCEPT !.sections = s]
          BY <1>3 DEF Link
    <3> QED
        BY <1>1, <3>1 DEF Shape, ProgramShape, program
  <2>3. stage \in Unencoded /\ stage' \notin Filling /\ stage' # "place"
        BY <2>1 DEF Unencoded, Early, Filling
  <2>4. ParamsOK'
        BY <1>1, <2>1, <2>3 DEF ParamsOK
  <2>5. TopPlaced'
        BY <1>1, <2>1, <2>2 DEF TopPlaced, SegmentsOf, InSegment
  <2> QED
      BY <1>1, <2>1, <2>3, <2>4, <2>5, EarlyData DEF DataInv
<1>4. CASE Create
  <2>1. CASE VitaElfCreate
        BY <1>1, <2>1, CreateParams, CreateTop, CreateData DEF DataInv
  <2>2. CASE Written \/ VitaMakeFself
    <3>1. stage \in Writing \cup {"encoded", "null"} /\ stage' \in Writing \cup {"failure", "crash"} /\ UNCHANGED Counters
          BY <1>1, <2>2, WrittenStages
    <3>2. UNCHANGED <<elf, exports, params, top, sizes, data, used, addrs, relas>>
          BY <3>1 DEF Counters
    <3>3. stage' \notin Filling \cup Unencoded /\ stage' # "place" /\ stage' \notin {"link", "load", "generate", "params"}
          BY <3>1 DEF Filling, Unencoded, Early, Writing, Creating, Unpacked, Finished
    <3>4. ParamsOK' /\ TopPlaced'
          BY <1>1, <3>2, <3>3 DEF ParamsOK, TopPlaced, have_libc, HasParam, Has, Named, program, SegmentsOf, InSegment
    <3> QED
        BY <1>1, <3>2, <3>3, <3>4, FailedData DEF DataInv
  <2> QED
      BY <1>4, <2>1, <2>2 DEF Create
<1> QED
    BY <1>2, <1>3, <1>4 DEF ImportsNext

\* The words that are relocated have places of their own.
LEMMA PlacedWords == ASSUME Shape, TopPlaced, NEW w \in Int PROVE (VADDR(w) - Base) \div 4 = w
<1>1. segndx \in DOMAIN program.segments
  <2>1. 1 \in DOMAIN program.segments
        BY ProgramFacts
  <2>2. ASSUME top.start # NULL PROVE First(SegmentsOf(top.start)) \in DOMAIN program.segments
    <3>1. SegmentsOf(top.start) # {} /\ SegmentsOf(top.start) \subseteq DOMAIN program.segments
          BY <2>2 DEF TopPlaced, SegmentsOf
    <3>2. DOMAIN program.segments \subseteq Nat
          BY ProgramFacts
    <3> QED
        BY <3>1, <3>2, FirstIn
  <2> QED
      BY <2>1, <2>2 DEF segndx
<1>2. Base \in Int
  <2>1. segment.vaddr \in Nat /\ segment.memsz \in Nat
        BY <1>1, ProgramFacts DEF segment
  <2>2. start_offset \in Nat
        BY <2>1, AlignUpFacts DEF start_offset
  <2> QED
      BY <2>1, <2>2 DEF Base
<1>3. PICK b : b = Base
      OBVIOUS
<1>4. ((b + 4 * w) - b) \div 4 = w
      BY <1>2, <1>3
<1> QED
    BY <1>3, <1>4 DEF VADDR

\* The invariants have what TypeOK says.
LEMMA TypesFollow == ASSUME Pipeline, SortedOK, DataInv PROVE TypeOK
<1>1. Shape /\ TopPlaced /\ UsedOK /\ DataOK /\ SortedInv /\ Stubbed /\ LibLists /\ i \in Nat
      BY DEF Pipeline, Shape, SortedOK, DataInv
<1>2. \A s \in ToSet(Sections) : used[s] \in 0 .. sizes[s]
      BY <1>1, SectionFacts DEF UsedOK
<1>3. DOMAIN data \in {1 .. 0, 0 .. total_size - 1}
  <2>1. 1 .. 0 = {}
        OBVIOUS
  <2> QED
      BY <1>1, <2>1, TotalIsEnd DEF DataOK
<1>4. ASSUME stage = "encoded", NEW r \in relas
      PROVE  data[(r.at - Base) \div 4] = r.addend /\ r.at = VADDR((r.at - Base) \div 4)
  <2>1. stage \in Filling
        BY <1>4 DEF Filling
  <2>2. DOMAIN data = 0 .. EndIn(sizes) - 1 /\ RelasOK
        BY <1>1, <2>1 DEF DataOK
  <2>3. PICK w \in DOMAIN data : r = [at |-> VADDR(w), addend |-> data[w]]
        BY <2>2 DEF RelasOK
  <2>4. EndIn(sizes) \in Nat
        BY <1>1, StartFacts DEF Shape, Words
  <2>5. w \in Int
        BY <2>2, <2>4
  <2>6. (r.at - Base) \div 4 = w /\ r.at = VADDR(w) /\ r.addend = data[w]
        BY <1>1, <2>3, <2>5, PlacedWords
  <2> QED
      BY <2>6
<1>5. ListsSorted
      BY <1>1, SortedLists
<1>6. \A l \in DOMAIN libs : \E n \in DOMAIN Stubs : Stubs[n].library_nid = libs[l].nid
      BY <1>1 DEF Stubbed
<1> QED
    BY <1>1, <1>2, <1>3, <1>4, <1>5, <1>6 DEF TypeOK

\* From the stubs to the encoded tables every variable has its type: the sorted arrays
\* are sorted and hold what was inserted, no section is used beyond its size, and what is
\* relocated is a word of the data that has the addend.
THEOREM TablesTyped == ImportsSpec => []TypeOK
<1> DEFINE Inv == Pipeline /\ ReadOK /\ NidsOK /\ SortedOK /\ DataInv
<1>1. ImportsInit => Inv
      BY InitPipeline, InitRead, InitNids, InitSorted, InitData
<1>2. Inv /\ [ImportsNext]_allvars => Inv'
      BY NextPipeline, NextRead, NextNids, NextSorted, NextData
<1>3. Inv => TypeOK
      BY TypesFollow
<1> QED
    BY <1>1, <1>2, <1>3, PTL DEF ImportsSpec

----------------------------------------------------------------------------
(* Sums of parts of a sequence, and over some of its places.                 *)

NatList(s) == IsList(s) /\ \A n \in DOMAIN s : s[n] \in Nat
Part(s, k) == SumOf([n \in 1 .. k |-> s[n]])
SumIn(s, S) == SumOf([n \in DOMAIN s |-> IF n \in S THEN s[n] ELSE 0])
Adds(s, h) == h[0] = 0 /\ \A n \in 1 .. Len(s) : h[n] = h[n - 1] + s[n]

\* The sums of a list.
LEMMA SumRuns ==
  ASSUME NEW s, NatList(s)
  PROVE  /\ Len(s) \in Nat /\ DOMAIN s = 1 .. Len(s) /\ \A n \in 1 .. Len(s) : s[n] \in Nat
         /\ \E h \in [0 .. Len(s) -> Nat] : Adds(s, h) /\ SumOf(s) = h[Len(s)]
<1>1. Len(s) \in Nat /\ DOMAIN s = 1 .. Len(s) /\ \A n \in 1 .. Len(s) : s[n] \in Nat
      BY ListFacts DEF NatList
<1> QED
    BY <1>1, SumFacts DEF Adds

\* A function of natural numbers is such a list.
LEMMA NatListMap ==
  ASSUME NEW k \in Nat, NEW f, f = [n \in 1 .. k |-> f[n]], \A n \in 1 .. k : f[n] \in Nat
  PROVE  NatList(f) /\ Len(f) = k
<1>1. IsList(f) /\ Len(f) = k
      BY FunctionList
<1> QED
    BY <1>1 DEF NatList

\* A list that is nowhere less than another has no lesser sum.
LEMMA SumCompare ==
  ASSUME NEW s, NEW t, NatList(s), NatList(t), Len(s) = Len(t), \A n \in 1 .. Len(s) : s[n] <= t[n]
  PROVE  SumOf(s) <= SumOf(t)
<1>1. PICK g \in [0 .. Len(s) -> Nat] : Adds(s, g) /\ SumOf(s) = g[Len(s)]
      BY SumRuns
<1>2. PICK h \in [0 .. Len(s) -> Nat] : Adds(t, h) /\ SumOf(t) = h[Len(s)]
      BY SumRuns
<1> DEFINE N == Len(s)
           T == {n \in 0 .. N : ~ g[n] <= h[n]}
<1>3. N \in Nat /\ \A n \in 1 .. N : s[n] \in Nat /\ t[n] \in Nat
      BY SumRuns
<1>4. T = {}
  <2> SUFFICES ASSUME NEW x \in T PROVE FALSE
      OBVIOUS
  <2>1. PICK m \in T : \A k \in T : m <= k
    <3>1. T \in SUBSET Nat /\ x \in T
          BY <1>3
    <3> QED
        BY <3>1, LeastNatural
  <2>2. m # 0
        BY <1>1, <1>2, <2>1 DEF Adds
  <2>3. m \in 1 .. N /\ m - 1 \in 0 .. N /\ m - 1 \notin T
        BY <1>3, <2>1, <2>2
  <2>4. g[m - 1] <= h[m - 1] /\ g[m - 1] \in Nat /\ h[m - 1] \in Nat /\ s[m] <= t[m]
        BY <2>3
  <2>5. g[m] = g[m - 1] + s[m] /\ h[m] = h[m - 1] + t[m]
        BY <1>1, <1>2, <2>3 DEF Adds
  <2> QED
      BY <1>3, <2>1, <2>3, <2>4, <2>5
<1>5. N \in 0 .. N
      BY <1>3
<1> QED
    BY <1>1, <1>2, <1>4, <1>5

\* A list that is greater at one place has a sum that is.
LEMMA SumRaised ==
  ASSUME NEW s, NEW t, NatList(s), NatList(t), Len(s) = Len(t), NEW k \in 1 .. Len(s), NEW d \in Nat,
         t[k] = s[k] + d, \A n \in 1 .. Len(s) : n # k => t[n] = s[n]
  PROVE  SumOf(t) = SumOf(s) + d
<1>1. PICK g \in [0 .. Len(s) -> Nat] : Adds(s, g) /\ SumOf(s) = g[Len(s)]
      BY SumRuns
<1>2. PICK h \in [0 .. Len(s) -> Nat] : Adds(t, h) /\ SumOf(t) = h[Len(s)]
      BY SumRuns
<1> DEFINE N == Len(s)
           T == {n \in 0 .. N : h[n] # g[n] + (IF n < k THEN 0 ELSE d)}
<1>3. N \in Nat /\ \A n \in 1 .. N : s[n] \in Nat /\ t[n] \in Nat
      BY SumRuns
<1>4. T = {}
  <2> SUFFICES ASSUME NEW x \in T PROVE FALSE
      OBVIOUS
  <2>1. PICK m \in T : \A n \in T : m <= n
    <3>1. T \in SUBSET Nat /\ x \in T
          BY <1>3
    <3> QED
        BY <3>1, LeastNatural
  <2>2. m # 0
        BY <1>1, <1>2, <1>3, <2>1 DEF Adds
  <2>3. m \in 1 .. N /\ m - 1 \in 0 .. N /\ m - 1 \notin T
        BY <1>3, <2>1, <2>2
  <2>4. h[m - 1] = g[m - 1] + (IF m - 1 < k THEN 0 ELSE d) /\ g[m - 1] \in Nat /\ h[m - 1] \in Nat
        BY <2>3
  <2>5. g[m] = g[m - 1] + s[m] /\ h[m] = h[m - 1] + t[m]
        BY <1>1, <1>2, <2>3 DEF Adds
  <2>6. CASE m = k
        BY <1>3, <2>1, <2>3, <2>4, <2>5, <2>6
  <2>7. CASE m # k
    <3>1. t[m] = s[m] /\ (m - 1 < k <=> m < k)
          BY <1>3, <2>3, <2>7
    <3> QED
        BY <1>3, <2>1, <2>3, <2>4, <2>5, <3>1
  <2> QED
      BY <2>6, <2>7
<1>5. N \in 0 .. N /\ ~ N < k
      BY <1>3
<1> QED
    BY <1>1, <1>2, <1>4, <1>5

\* The sum of a part, place by place.
LEMMA PartFacts ==
  ASSUME NEW s, NatList(s)
  PROVE  /\ Part(s, 0) = 0 /\ Part(s, Len(s)) = SumOf(s)
         /\ \A k \in 1 .. Len(s) : Part(s, k) = Part(s, k - 1) + s[k]
         /\ \A k \in 0 .. Len(s) : Part(s, k) \in Nat /\ Part(s, k) <= SumOf(s)
<1> DEFINE N == Len(s)
           Padded(k) == [n \in 1 .. N |-> IF n <= k THEN s[n] ELSE 0]
<1>1. N \in Nat /\ DOMAIN s = 1 .. N /\ \A n \in 1 .. N : s[n] \in Nat
      BY SumRuns
<1>2. PICK h \in [0 .. N -> Nat] : Adds(s, h) /\ SumOf(s) = h[N]
      BY SumRuns
<1>3. ASSUME NEW k \in 0 .. N PROVE Part(s, k) = h[k]
  <2> DEFINE f == [n \in 1 .. k |-> s[n]]
  <2>1. k \in Nat /\ f = [n \in 1 .. k |-> f[n]] /\ \A n \in 1 .. k : f[n] = s[n] /\ f[n] \in Nat /\ n \in 1 .. N
        BY <1>1
  <2>2. Part(s, k) = SumOf(f)
        BY DEF Part
  <2> HIDE DEF f
  <2>3. NatList(f) /\ Len(f) = k
        BY <2>1, NatListMap
  <2>4. PICK g \in [0 .. k -> Nat] : Adds(f, g) /\ SumOf(f) = g[k]
        BY <2>3, SumRuns
  <2> DEFINE T == {n \in 0 .. k : g[n] # h[n]}
  <2>5. T = {}
    <3> SUFFICES ASSUME NEW x \in T PROVE FALSE
        OBVIOUS
    <3>1. PICK m \in T : \A n \in T : m <= n
      <4>1. T \in SUBSET Nat /\ x \in T
            BY <2>1
      <4> QED
          BY <4>1, LeastNatural
    <3>2. m # 0
          BY <1>2, <2>4, <3>1 DEF Adds
    <3>3. m \in 1 .. k /\ m - 1 \in 0 .. k /\ m - 1 \notin T
          BY <2>1, <3>1, <3>2
    <3>4. g[m] = g[m - 1] + f[m]
          BY <2>3, <2>4, <3>3 DEF Adds
    <3>5. h[m] = h[m - 1] + s[m] /\ f[m] = s[m]
          BY <1>2, <2>1, <3>3 DEF Adds
    <3> QED
        BY <3>1, <3>3, <3>4, <3>5
  <2>6. k \in 0 .. k
        BY <2>1
  <2> QED
      BY <2>2, <2>4, <2>5, <2>6
<1>4. ASSUME NEW k \in 1 .. N PROVE Part(s, k) = Part(s, k - 1) + s[k]
  <2>1. k \in 0 .. N /\ k - 1 \in 0 .. N
        BY <1>1
  <2> QED
      BY <1>2, <1>3, <2>1 DEF Adds
<1>5. 0 \in 0 .. N /\ N \in 0 .. N
      BY <1>1
<1>6. ASSUME NEW k \in 0 .. N PROVE h[k] <= h[N]
  <2> DEFINE T == {n \in Nat : n \in k .. N /\ ~ h[k] <= h[n]}
  <2>1. T = {}
    <3> SUFFICES ASSUME NEW x \in T PROVE FALSE
        OBVIOUS
    <3>1. PICK m \in T : \A n \in T : m <= n
      <4>1. T \in SUBSET Nat /\ x \in T
            OBVIOUS
      <4> QED
          BY <4>1, LeastNatural
    <3>2. h[k] \in Nat
          OBVIOUS
    <3>3. m # k
          BY <3>1, <3>2
    <3>4. m \in 1 .. N /\ m - 1 \in Nat /\ m - 1 \in k .. N /\ m - 1 \in 0 .. N /\ m - 1 \notin T
          BY <1>1, <3>1, <3>3
    <3>5. h[k] <= h[m - 1] /\ h[m - 1] \in Nat /\ h[m] = h[m - 1] + s[m] /\ s[m] \in Nat
          BY <1>1, <1>2, <3>4 DEF Adds
    <3> QED
        BY <3>1, <3>2, <3>5
  <2>2. N \in k .. N
        BY <1>1
  <2> QED
      BY <1>1, <2>1, <2>2
<1> QED
    BY <1>2, <1>3, <1>4, <1>5, <1>6 DEF Adds

\* A place that is added adds its number.
LEMMA SumInFacts ==
  ASSUME NEW s, NatList(s)
  PROVE  /\ SumIn(s, {}) = 0 /\ SumIn(s, DOMAIN s) = SumOf(s)
         /\ \A S : SumIn(s, S) \in Nat /\ SumIn(s, S) <= SumOf(s)
         /\ \A S : \A n \in DOMAIN s : n \notin S => SumIn(s, S \cup {n}) = SumIn(s, S) + s[n]
<1>1. Len(s) \in Nat /\ DOMAIN s = 1 .. Len(s) /\ s = [n \in 1 .. Len(s) |-> s[n]] /\ \A n \in 1 .. Len(s) : s[n] \in Nat
      BY SumRuns, ListFacts DEF NatList
<1> DEFINE f(S) == [n \in 1 .. Len(s) |-> IF n \in S THEN s[n] ELSE 0]
<1>2. ASSUME NEW S PROVE NatList(f(S)) /\ Len(f(S)) = Len(s) /\ SumIn(s, S) = SumOf(f(S))
  <2>1. SumIn(s, S) = SumOf(f(S))
        BY <1>1 DEF SumIn
  <2>2. f(S) = [n \in 1 .. Len(s) |-> f(S)[n]] /\ \A n \in 1 .. Len(s) : f(S)[n] \in Nat
        BY <1>1
  <2> HIDE DEF f
  <2> QED
      BY <1>1, <2>1, <2>2, NatListMap
<1>3. SumOf(s) \in Nat
      BY SumNat DEF NatList
<1>4. ASSUME NEW S PROVE SumIn(s, S) \in Nat /\ SumIn(s, S) <= SumOf(s)
  <2>1. \A n \in 1 .. Len(s) : f(S)[n] <= s[n]
        BY <1>1
  <2> HIDE DEF f
  <2>2. SumOf(f(S)) \in Nat
        BY <1>2, SumNat DEF NatList
  <2>3. SumOf(f(S)) <= SumOf(s)
        BY <1>2, <2>1, SumCompare
  <2> QED
      BY <1>2, <2>2, <2>3
<1>5. ASSUME NEW S, NEW n \in DOMAIN s, n \notin S PROVE SumIn(s, S \cup {n}) = SumIn(s, S) + s[n]
  <2> DEFINE T == S \cup {n}
  <2>1. n \in 1 .. Len(s) /\ s[n] \in Nat
        BY <1>1
  <2>2. f(T)[n] = f(S)[n] + s[n] /\ \A m \in 1 .. Len(s) : m # n => f(T)[m] = f(S)[m]
        BY <1>1, <1>5, <2>1
  <2> HIDE DEF f, T
  <2>3. NatList(f(S)) /\ NatList(f(T)) /\ Len(f(S)) = Len(s) /\ Len(f(T)) = Len(s)
        BY <1>2
  <2>4. SumOf(f(T)) = SumOf(f(S)) + s[n]
        BY <2>1, <2>2, <2>3, SumRaised
  <2> QED
      BY <1>2, <2>4 DEF T
<1>6. SumIn(s, DOMAIN s) = SumOf(s)
  <2>1. [n \in DOMAIN s |-> IF n \in DOMAIN s THEN s[n] ELSE 0] = s
        BY <1>1
  <2> QED
      BY <2>1 DEF SumIn
<1>7. SumIn(s, {}) = 0
  <2> DEFINE e == f({})
  <2>0. NatList(e) /\ Len(e) = Len(s) /\ SumIn(s, {}) = SumOf(e)
        BY <1>2
  <2>2. \A n \in 1 .. Len(s) : e[n] = 0
        OBVIOUS
  <2> HIDE DEF e
  <2>1. PICK h \in [0 .. Len(e) -> Nat] : Adds(e, h) /\ SumOf(e) = h[Len(e)]
        BY <2>0, SumRuns
  <2> DEFINE T == {n \in 0 .. Len(s) : h[n] # 0}
  <2>3. Len(e) = Len(s) /\ h[0] = 0 /\ \A n \in 1 .. Len(s) : h[n] = h[n - 1] + e[n]
        BY <2>0, <2>1 DEF Adds
  <2>4. T = {}
    <3> SUFFICES ASSUME NEW x \in T PROVE FALSE
        OBVIOUS
    <3>1. PICK m \in T : \A n \in T : m <= n
      <4>1. T \in SUBSET Nat /\ x \in T
            BY <1>1
      <4> QED
          BY <4>1, LeastNatural
    <3>2. m \in 1 .. Len(s) /\ m - 1 \in 0 .. Len(s) /\ m - 1 \notin T
          BY <1>1, <2>3, <3>1
    <3> QED
        BY <2>2, <2>3, <3>1, <3>2
  <2>5. Len(s) \in 0 .. Len(s)
        BY <1>1
  <2> QED
      BY <2>0, <2>1, <2>3, <2>4, <2>5
<1> QED
    BY <1>4, <1>5, <1>6, <1>7

\* How long sequences are that are joined.
LEMMA FlattenLength ==
  ASSUME NEW s, IsList(s), \A n \in DOMAIN s : IsList(s[n]),
         NEW l, l = [n \in 1 .. Len(s) |-> Len(s[n])]
  PROVE  NatList(l) /\ Len(l) = Len(s) /\ Len(FlattenSeq(s)) = SumOf(l)
<1>1. Len(s) \in Nat /\ DOMAIN s = 1 .. Len(s) /\ s = [n \in 1 .. Len(s) |-> s[n]]
      BY ListFacts
<1>2. \A n \in 1 .. Len(s) : Len(s[n]) \in Nat /\ l[n] = Len(s[n])
      BY <1>1, ListFacts
<1>3. l = [n \in 1 .. Len(s) |-> l[n]]
      OBVIOUS
<1>4. NatList(l) /\ Len(l) = Len(s)
      BY <1>1, <1>2, <1>3, NatListMap
<1> DEFINE S == UNION {{s[n][m] : m \in DOMAIN s[n]} : n \in DOMAIN s}
<1>5. ASSUME NEW n \in DOMAIN s PROVE s[n] \in Seq(S)
  <2>1. Len(s[n]) \in Nat /\ DOMAIN s[n] = 1 .. Len(s[n]) /\ s[n] = [m \in 1 .. Len(s[n]) |-> s[n][m]]
        BY ListFacts
  <2>2. \A m \in 1 .. Len(s[n]) : s[n][m] \in S
        BY <2>1
  <2> HIDE DEF S
  <2>3. s[n] \in [1 .. Len(s[n]) -> S]
        BY <2>1, <2>2
  <2> QED
      BY <2>1, <2>3
<1> HIDE DEF S
<1>6. s \in Seq(Seq(S))
  <2>1. s \in [1 .. Len(s) -> Seq(S)]
        BY <1>1, <1>5
  <2> QED
      BY <1>1, <2>1
<1>7. CASE Len(s) = 0
  <2>1. FlattenSeq(s) = s
        BY <1>7 DEF FlattenSeq
  <2>2. PICK h \in [0 .. Len(l) -> Nat] : Adds(l, h) /\ SumOf(l) = h[Len(l)]
        BY <1>4, SumRuns
  <2> QED
      BY <1>4, <1>7, <2>1, <2>2 DEF Adds
<1>8. CASE Len(s) # 0
  <2>1. PICK c : FlattenSeq(s) = c[Len(s)] /\ Joins(s, c) /\ \A n \in 1 .. Len(s) : c[n] \in Seq(S)
        BY <1>6, <1>8, FlattenRuns
  <2>2. PICK h \in [0 .. Len(l) -> Nat] : Adds(l, h) /\ SumOf(l) = h[Len(l)]
        BY <1>4, SumRuns
  <2>3. h[0] = 0 /\ \A n \in 1 .. Len(s) : h[n] = h[n - 1] + Len(s[n])
        BY <1>2, <1>4, <2>2 DEF Adds
  <2> DEFINE T == {n \in 1 .. Len(s) : Len(c[n]) # h[n]}
  <2>4. T = {}
    <3> SUFFICES ASSUME NEW x \in T PROVE FALSE
        OBVIOUS
    <3>1. PICK m \in T : \A n \in T : m <= n
      <4>1. T \in SUBSET Nat /\ x \in T
            BY <1>1
      <4> QED
          BY <4>1, LeastNatural
    <3>2. m \in 1 .. Len(s) /\ s[m] \in Seq(S) /\ c[m] = IF m = 1 THEN s[m] ELSE c[m - 1] \o s[m]
          BY <1>1, <1>5, <2>1 DEF Joins
    <3>3. Len(s[m]) \in Nat
          BY <1>2
    <3>4. CASE m = 1
      <4>1. h[1] = h[1 - 1] + Len(s[1]) /\ 1 - 1 = 0
            BY <2>3, <3>2, <3>4
      <4> QED
          BY <2>3, <3>1, <3>2, <3>3, <3>4, <4>1
    <3>5. CASE m # 1
      <4>1. m - 1 \in 1 .. Len(s) /\ m - 1 \notin T
            BY <1>1, <3>1, <3>5
      <4>2. c[m - 1] \in Seq(S) /\ Len(c[m - 1]) = h[m - 1]
            BY <2>1, <4>1
      <4>3. Len(c[m - 1] \o s[m]) = Len(c[m - 1]) + Len(s[m])
            BY <3>2, <4>2, ConcatProperties
      <4> QED
          BY <2>3, <3>1, <3>2, <3>5, <4>2, <4>3
    <3> QED
        BY <3>4, <3>5
  <2>5. Len(s) \in 1 .. Len(s)
        BY <1>1, <1>8
  <2> QED
      BY <1>4, <2>1, <2>2, <2>4, <2>5
<1> QED
    BY <1>7, <1>8

----------------------------------------------------------------------------
(* No variable is there twice, and none is left out.                         *)

Differ(s) == \A m, n \in DOMAIN s : m # n => s[m].target_nid # s[n].target_nid

\* A stub with another NID than those that are there is put between them.
LEMMA SortedInsertOnce ==
  ASSUME NEW stubs, IsList(stubs), Differ(stubs), NEW stub, \A m \in DOMAIN stubs : stubs[m].target_nid # stub.target_nid
  PROVE  Differ(sorted_insert(stubs, stub))
<1> DEFINE f == [m \in DOMAIN stubs |-> stub.target_nid - stubs[m].target_nid]
           at == get_sorted_insert_index(f)
           s == sorted_insert(stubs, stub)
<1>1. IsList(f) /\ Len(f) = Len(stubs)
  <2>1. f = [m \in DOMAIN stubs |-> f[m]]
        OBVIOUS
  <2> HIDE DEF f
  <2> QED
      BY <2>1, MapList
<1>2. at \in 0 .. Len(stubs)
  <2> HIDE DEF f
  <2> QED
      BY <1>1, IndexRange
<1>3. s = stubs \/ s = InsertAt(stubs, at + 1, stub)
      BY DEF sorted_insert
<1> HIDE DEF at, s
<1>4. at + 1 \in 1 .. Len(stubs) + 1 /\ Len(stubs) \in Nat /\ DOMAIN stubs = 1 .. Len(stubs) /\ at \in Nat
      BY <1>2, ListFacts
<1>5. CASE s = InsertAt(stubs, at + 1, stub)
  <2>1. IsList(s) /\ Len(s) = Len(stubs) + 1
        /\ \A k \in 1 .. Len(stubs) + 1 : s[k] = IF k < at + 1 THEN stubs[k] ELSE IF k = at + 1 THEN stub ELSE stubs[k - 1]
        BY <1>4, <1>5, ListInsert
  <2>2. DOMAIN s = 1 .. Len(stubs) + 1
        BY <2>1, ListFacts
  <2> DEFINE from(k) == IF k < at + 1 THEN k ELSE IF k = at + 1 THEN 0 ELSE k - 1
  <2>3. ASSUME NEW k \in DOMAIN s
        PROVE  k \in Nat /\ IF from(k) = 0 THEN s[k] = stub ELSE from(k) \in DOMAIN stubs /\ s[k] = stubs[from(k)]
    <3>1. k \in 1 .. Len(stubs) + 1 /\ k \in Nat
          BY <1>4, <2>2
    <3>2. CASE k < at + 1
      <4>1. k \in DOMAIN stubs /\ k # 0
            BY <1>4, <3>1, <3>2
      <4> QED
          BY <2>1, <3>1, <3>2, <4>1
    <3>3. CASE k = at + 1
      <4>1. ~ k < at + 1
            BY <1>4, <3>3
      <4> QED
          BY <2>1, <3>1, <3>3, <4>1
    <3>4. CASE ~ k < at + 1 /\ k # at + 1
      <4>1. k - 1 \in DOMAIN stubs /\ k - 1 # 0
            BY <1>4, <3>1, <3>4
      <4> QED
          BY <2>1, <3>1, <3>4, <4>1
    <3> QED
        BY <3>2, <3>3, <3>4
  <2>4. ASSUME NEW m \in DOMAIN s, NEW n \in DOMAIN s, m # n PROVE from(m) # from(n)
    <3>1. m \in Nat /\ n \in Nat /\ m # 0 /\ n # 0
          BY <2>2, <1>4
    <3> QED
        BY <1>4, <2>4, <3>1
  <2> HIDE DEF from
  <2>5. ASSUME NEW m \in DOMAIN s, NEW n \in DOMAIN s, m # n PROVE s[m].target_nid # s[n].target_nid
        BY <2>3, <2>4, <2>5 DEF Differ
  <2> QED
      BY <2>5 DEF Differ, s
<1> QED
    BY <1>3, <1>5 DEF s

\* While the arrays are filled.
VariablesDiffer == stage = "imports" /\ ~ SameVariable => \A l \in DOMAIN libs : Differ(libs[l].variables)

\* A function is not put among the variables, and of variables there is one of each NID.
LEMMA InsertDiffer ==
  ASSUME LibLists, StubLists, NidsOK, SortedInv, VariablesDiffer, stage = "imports", i \in Nat, i < Len(Stubs),
         Insert(Stubs[i + 1], TableOf(i + 1)), UNCHANGED <<fstubs, vstubs>>
  PROVE  VariablesDiffer'
<1> DEFINE stub == Stubs[i + 1]
           table == TableOf(i + 1)
           found == search_or_insert(stub.library_nid)
           at == LibraryIndex(stub.library_nid) + 1
<1>1. Len(Stubs) \in Nat /\ Len(Stubs) = Len(fstubs) + Len(vstubs) /\ Len(fstubs) \in Nat /\ Len(vstubs) \in Nat
      /\ \A n \in 1 .. Len(Stubs) : Stubs[n] = IF n <= Len(fstubs) THEN fstubs[n] ELSE vstubs[n - Len(fstubs)]
      BY StubsFacts
<1>2. DOMAIN vstubs = 1 .. Len(vstubs)
      BY ListFacts DEF StubLists
<1>3. table \in Tables
      BY DEF TableOf, Tables
<1>4. SameVariable' = SameVariable
      BY DEF SameVariable
<1> SUFFICES ASSUME ~ SameVariable PROVE \A l \in DOMAIN libs' : Differ(libs'[l].variables)
    BY <1>4 DEF VariablesDiffer, Differ
<1>5. TablesOK /\ \A l \in DOMAIN libs : Differ(libs[l].variables)
      BY DEF SortedInv, VariablesDiffer
<1> HIDE DEF stub, table
<1>6. stub = Stubs[i + 1] /\ table = TableOf(i + 1) /\ Insert(stub, table)
      BY DEF stub, table
<1>7. /\ DOMAIN libs' = DOMAIN found
      /\ \A n \in DOMAIN found : n # at => libs'[n] = found[n]
      /\ libs'[at].nid = found[at].nid
      /\ \A t \in Tables : libs'[at][t] = IF t = table THEN sorted_insert(found[at][t], stub) ELSE found[at][t]
      BY <1>3, <1>6, InsertStep DEF Tables
<1>8. /\ at \in DOMAIN found /\ found[at].nid = stub.library_nid
      /\ \A n \in DOMAIN found :
           \/ \E m \in DOMAIN libs : found[n] = libs[m]
           \/ found[n].functions = <<>> /\ found[n].variables = <<>>
      BY SearchOrInsertFacts
<1>9. \A n \in DOMAIN found : IsList(found[n].functions) /\ IsList(found[n].variables)
      BY SearchOrInsertLists DEF LibraryOK
<1> HIDE DEF found, at
<1>10. ASSUME NEW n \in DOMAIN found
       PROVE  Differ(found[n].variables) /\ \A v \in DOMAIN found[n].variables : Seen(i, "variables", found[n].nid, found[n].variables[v])
  <2>1. CASE \E m \in DOMAIN libs : found[n] = libs[m]
    <3>1. PICK m \in DOMAIN libs : found[n] = libs[m]
          BY <2>1
    <3>2. libs[m]["variables"] = libs[m].variables /\ "variables" \in Tables
          BY DEF Tables
    <3> QED
        BY <1>5, <3>1, <3>2 DEF TablesOK
  <2>2. CASE found[n].functions = <<>> /\ found[n].variables = <<>>
    <3>1. DOMAIN <<>> = {}
          OBVIOUS
    <3> QED
        BY <2>2, <3>1 DEF Differ
  <2> QED
      BY <1>8, <2>1, <2>2
<1>11. CASE table = "functions"
  <2>1. libs'[at].variables = found[at].variables
        BY <1>7, <1>11 DEF Tables
  <2>2. ASSUME NEW l \in DOMAIN libs' PROVE libs'[l].variables = found[l].variables
        BY <1>7, <2>1
  <2> QED
      BY <1>7, <1>10, <2>2
<1>12. CASE table = "variables"
  <2>1. libs'[at].variables = sorted_insert(found[at].variables, stub)
        BY <1>7, <1>12 DEF Tables
  <2>2. i + 1 > Len(fstubs) /\ i + 1 \in 1 .. Len(Stubs)
    <3>1. ~ i + 1 <= Len(fstubs)
          BY <1>6, <1>12 DEF TableOf
    <3> QED
        BY <1>1, <3>1
  <2>3. i + 1 - Len(fstubs) \in DOMAIN vstubs /\ stub = vstubs[i + 1 - Len(fstubs)]
    <3>1. i + 1 - Len(fstubs) \in 1 .. Len(vstubs) /\ ~ i + 1 <= Len(fstubs)
          BY <1>1, <2>2
    <3> QED
        BY <1>1, <1>2, <1>6, <2>2, <3>1
  <2>4. ASSUME NEW v \in DOMAIN found[at].variables PROVE found[at].variables[v].target_nid # stub.target_nid
    <3> DEFINE x == found[at].variables[v]
    <3>1. Seen(i, "variables", stub.library_nid, x)
          BY <1>8, <1>10
    <3> HIDE DEF x
    <3>2. PICK n \in 1 .. i : Stubs[n] = x /\ TableOf(n) = "variables" /\ x.library_nid = stub.library_nid
          BY <3>1 DEF Seen
    <3>3. ~ n <= Len(fstubs) /\ n \in 1 .. Len(Stubs)
      <4>1. ~ n <= Len(fstubs)
            BY <3>2 DEF TableOf
      <4> QED
          BY <1>1, <4>1
    <3>4. n - Len(fstubs) \in DOMAIN vstubs /\ x = vstubs[n - Len(fstubs)] /\ n - Len(fstubs) # i + 1 - Len(fstubs)
      <4>1. n - Len(fstubs) \in 1 .. Len(vstubs) /\ n - Len(fstubs) # i + 1 - Len(fstubs)
            BY <1>1, <3>3
      <4> QED
          BY <1>1, <1>2, <3>2, <3>3, <4>1
    <3>5. x.target_nid # stub.target_nid
          BY <2>3, <3>2, <3>4 DEF SameVariable
    <3> QED
        BY <3>5 DEF x
  <2>5. Differ(libs'[at].variables)
        BY <1>8, <1>9, <1>10, <2>1, <2>4, SortedInsertOnce
  <2>6. ASSUME NEW l \in DOMAIN libs' PROVE Differ(libs'[l].variables)
    <3>1. CASE l = at
          BY <2>5, <3>1
    <3>2. CASE l # at
          BY <1>7, <1>10, <3>2
    <3> QED
        BY <3>1, <3>2
  <2> QED
      BY <2>6
<1> QED
    BY <1>3, <1>11, <1>12 DEF Tables

\* In the import tables: the libraries, and the variables of each if no stub is there
\* twice, have different NIDs; a variable is there for each stub if none is lost.
Matches(n, l, v) == libs[l].nid = vstubs[n].library_nid /\ libs[l].variables[v].nid = vstubs[n].target_nid
TabledOnce ==
  stage \in {"size"} \cup Encoding =>
    /\ \A l, m \in DOMAIN libs : l # m => libs[l].nid # libs[m].nid
    /\ ~ SameVariable => \A l \in DOMAIN libs : \A u, v \in DOMAIN libs[l].variables :
                           u # v => libs[l].variables[u].nid # libs[l].variables[v].nid
    /\ ~ LostVariable => \A n \in DOMAIN vstubs : \E l \in DOMAIN libs : \E v \in DOMAIN libs[l].variables : Matches(n, l, v)

LEMMA ImportsDoneOnce ==
  ASSUME LibLists, StubLists, SortedInv, VariablesDiffer, ImportsDone
  PROVE  TabledOnce'
<1>1. /\ stage = "imports" /\ i = Len(fstubs) + Len(vstubs) /\ libs' = [n \in DOMAIN libs |-> set_module_import(libs[n])]
      /\ stage' = "size" /\ UNCHANGED <<fstubs, vstubs>>
      BY DEF ImportsDone, To
<1>2. Descending(libs) /\ \A n \in 1 .. i : ~ Lost(n) => Inserted(n)
      BY <1>1 DEF SortedInv
<1>3. Len(Stubs) \in Nat /\ Len(Stubs) = Len(fstubs) + Len(vstubs) /\ Len(fstubs) \in Nat /\ Len(vstubs) \in Nat
      /\ \A n \in 1 .. Len(Stubs) : Stubs[n] = IF n <= Len(fstubs) THEN fstubs[n] ELSE vstubs[n - Len(fstubs)]
      BY StubsFacts
<1>4. DOMAIN libs' = DOMAIN libs /\ \A l \in DOMAIN libs :
        /\ libs'[l].nid = libs[l].nid
        /\ DOMAIN libs'[l].variables = DOMAIN libs[l].variables
        /\ \A v \in DOMAIN libs[l].variables : libs'[l].variables[v].nid = libs[l].variables[v].target_nid
  <2>1. ASSUME NEW l \in DOMAIN libs
        PROVE  /\ libs'[l].nid = libs[l].nid
               /\ libs'[l].variables = Table(libs[l].variables)
        BY <1>1 DEF set_module_import
  <2>2. \A s : DOMAIN Table(s) = DOMAIN s /\ \A v \in DOMAIN s : Table(s)[v].nid = s[v].target_nid
        BY DEF Table
  <2> QED
      BY <1>1, <2>1, <2>2
<1>5. DOMAIN libs = 1 .. Len(libs) /\ Len(libs) \in Nat
      BY ListFacts DEF LibLists
<1>6. ASSUME NEW l \in DOMAIN libs, NEW m \in DOMAIN libs, l # m PROVE libs[l].nid # libs[m].nid
  <2>1. l < m \/ m < l
        BY <1>5, <1>6
  <2>2. libs[l].nid \in Nat /\ libs[m].nid \in Nat /\ (l < m => libs[l].nid > libs[m].nid) /\ (m < l => libs[m].nid > libs[l].nid)
        BY <1>2 DEF Descending
  <2> QED
      BY <2>1, <2>2
<1>7. SameVariable' = SameVariable /\ LostVariable' = LostVariable
      BY <1>1 DEF SameVariable, LostVariable, Lost, Stubs, TableOf
<1>8. ASSUME ~ LostVariable, NEW n \in DOMAIN vstubs
      PROVE  \E l \in DOMAIN libs : \E v \in DOMAIN libs[l].variables :
               libs[l].nid = vstubs[n].library_nid /\ libs[l].variables[v].target_nid = vstubs[n].target_nid
  <2>1. n \in 1 .. Len(vstubs)
        BY ListFacts DEF StubLists
  <2> DEFINE k == Len(fstubs) + n
  <2>2. k \in 1 .. i /\ k \in 1 .. Len(Stubs) /\ ~ k <= Len(fstubs) /\ k - Len(fstubs) = n
        BY <1>1, <1>3, <2>1
  <2>3. ~ Lost(k)
        BY <1>8 DEF LostVariable
  <2>4. Stubs[k] = vstubs[n] /\ TableOf(k) = "variables"
        BY <1>3, <2>2 DEF TableOf
  <2>5. Inserted(k)
        BY <1>2, <2>2, <2>3
  <2> HIDE DEF k
  <2>6. PICK l \in DOMAIN libs : libs[l].nid = vstubs[n].library_nid /\ \E v \in DOMAIN libs[l]["variables"] : libs[l]["variables"][v] = vstubs[n]
        BY <2>4, <2>5 DEF Inserted
  <2> QED
      BY <2>6
<1>9. ~ SameVariable => \A l \in DOMAIN libs : \A u, v \in DOMAIN libs[l].variables :
        u # v => libs[l].variables[u].target_nid # libs[l].variables[v].target_nid
      BY <1>1 DEF VariablesDiffer, Differ
<1>10. PICK L : L = libs'
       OBVIOUS
<1>11. \A l, m \in DOMAIN L : l # m => L[l].nid # L[m].nid
       BY <1>4, <1>6, <1>10
<1>12. ~ SameVariable => \A l \in DOMAIN L : \A u, v \in DOMAIN L[l].variables : u # v => L[l].variables[u].nid # L[l].variables[v].nid
       BY <1>4, <1>9, <1>10
<1>13. ~ LostVariable => \A n \in DOMAIN vstubs : \E l \in DOMAIN L : \E v \in DOMAIN L[l].variables :
         L[l].nid = vstubs[n].library_nid /\ L[l].variables[v].nid = vstubs[n].target_nid
  <2> SUFFICES ASSUME ~ LostVariable, NEW n \in DOMAIN vstubs
               PROVE  \E l \in DOMAIN L : \E v \in DOMAIN L[l].variables :
                        L[l].nid = vstubs[n].library_nid /\ L[l].variables[v].nid = vstubs[n].target_nid
      OBVIOUS
  <2>0. PICK l \in DOMAIN libs : \E v \in DOMAIN libs[l].variables :
          libs[l].nid = vstubs[n].library_nid /\ libs[l].variables[v].target_nid = vstubs[n].target_nid
        BY <1>8
  <2>1. PICK v \in DOMAIN libs[l].variables :
          libs[l].nid = vstubs[n].library_nid /\ libs[l].variables[v].target_nid = vstubs[n].target_nid
        BY <2>0
  <2>2. l \in DOMAIN L /\ v \in DOMAIN L[l].variables /\ L[l].nid = libs[l].nid /\ L[l].variables[v].nid = libs[l].variables[v].target_nid
        BY <1>4, <1>10
  <2> QED
      BY <2>1, <2>2
<1> QED
    BY <1>1, <1>7, <1>10, <1>11, <1>12, <1>13 DEF TabledOnce, Matches

OnceOK == VariablesDiffer /\ TabledOnce

\* The tables stay when nothing of them changes.
LEMMA SameOnce ==
  ASSUME OnceOK, UNCHANGED <<fstubs, vstubs, libs>>,
         stage' = "imports" => stage = "imports", stage' \in {"size"} \cup Encoding => stage \in {"size"} \cup Encoding
  PROVE  OnceOK'
<1>1. SameVariable' = SameVariable /\ LostVariable' = LostVariable
      BY DEF SameVariable, LostVariable, Lost, Stubs, TableOf
<1> QED
    BY <1>1 DEF OnceOK, VariablesDiffer, Differ, TabledOnce, Matches

\* There are none at first.
LEMMA InitOnce == ImportsInit => OnceOK
BY DEF ImportsInit, InitWith, OnceOK, VariablesDiffer, TabledOnce, Encoding

\* Each step of vita-elf-create.
LEMMA CreateOnce == ASSUME Pipeline, NidsOK, SortedOK, OnceOK, VitaElfCreate PROVE OnceOK'
<1>1. LibLists /\ StubLists /\ i \in Nat /\ SortedInv /\ VariablesDiffer
      BY DEF Pipeline, Shape, SortedOK, OnceOK
<1>2. IsList(fstubs) /\ IsList(vstubs) /\ Len(fstubs) \in Nat /\ Len(vstubs) \in Nat /\ Len(Stubs) = Len(fstubs) + Len(vstubs)
      /\ \A n \in 1 .. Len(Stubs) : Stubs[n] = IF n <= Len(fstubs) THEN fstubs[n] ELSE vstubs[n - Len(fstubs)]
      BY <1>1, StubsFacts DEF StubLists
<1>3. CASE stage \in Early /\ UNCHANGED libs
  <2>1. libs' = <<>> /\ DOMAIN <<>> = {}
        BY <1>3 DEF Pipeline, VariablesFound
  <2>2. stage' \notin {"size"} \cup Encoding
    <3> USE DEF To, Again, Early, Encoding
    <3>1. CASE load_stubs \/ Loaded \/ vita_elf_generate_exports \/ sce_elf_module_params_create \/ set_main_module_export
          BY <3>1 DEF load_stubs, Loaded, vita_elf_generate_exports, sce_elf_module_params_create, set_main_module_export
    <3>2. CASE set_module_export \/ ExportsDone
          BY <3>2 DEF set_module_export, ExportsDone
    <3>3. CASE InsertFunction \/ InsertVariable \/ ImportsDone
          BY <1>3, <3>3 DEF InsertFunction, InsertVariable, ImportsDone
    <3>4. CASE Sized \/ Place \/ EncodeInfo \/ EncodeExport \/ ExportsEncoded \/ EncodeImport \/ Encoded
          BY <1>3, <3>4 DEF Sized, Place, EncodeInfo, EncodeExport, ExportsEncoded, EncodeImport, Encoded
    <3> QED
        BY <3>1, <3>2, <3>3, <3>4 DEF VitaElfCreate
  <2>3. VariablesDiffer'
        BY <2>1 DEF VariablesDiffer
  <2> QED
      BY <2>2, <2>3 DEF OnceOK, TabledOnce
<1>4. CASE InsertFunction
  <2>1. stage = "imports" /\ i < Len(fstubs) /\ Insert(fstubs[i + 1], "functions") /\ stage' = stage /\ UNCHANGED <<fstubs, vstubs>>
        BY <1>4 DEF InsertFunction, Again
  <2>2. i < Len(Stubs) /\ TableOf(i + 1) = "functions" /\ Stubs[i + 1] = fstubs[i + 1]
        BY <1>1, <1>2, <2>1 DEF TableOf
  <2>3. Insert(Stubs[i + 1], TableOf(i + 1))
        BY <2>1, <2>2 DEF Insert
  <2>4. VariablesDiffer'
        BY <1>1, <2>1, <2>2, <2>3, InsertDiffer
  <2> QED
      BY <2>1, <2>4 DEF OnceOK, TabledOnce, Encoding
<1>5. CASE InsertVariable
  <2>1. stage = "imports" /\ i >= Len(fstubs) /\ i < Len(fstubs) + Len(vstubs) /\ Insert(vstubs[i - Len(fstubs) + 1], "variables")
        /\ stage' = stage /\ UNCHANGED <<fstubs, vstubs>>
        BY <1>5 DEF InsertVariable, Again
  <2>2. i < Len(Stubs) /\ TableOf(i + 1) = "variables" /\ Stubs[i + 1] = vstubs[i - Len(fstubs) + 1]
    <3>1. i + 1 \in 1 .. Len(Stubs) /\ ~ i + 1 <= Len(fstubs) /\ i + 1 - Len(fstubs) = i - Len(fstubs) + 1
          BY <1>1, <1>2, <2>1
    <3> QED
        BY <1>1, <1>2, <3>1 DEF TableOf
  <2>3. Insert(Stubs[i + 1], TableOf(i + 1))
        BY <2>1, <2>2 DEF Insert
  <2>4. VariablesDiffer'
        BY <1>1, <2>1, <2>2, <2>3, InsertDiffer
  <2> QED
      BY <2>1, <2>4 DEF OnceOK, TabledOnce, Encoding
<1>6. CASE ImportsDone
  <2>1. stage' # "imports"
        BY <1>6 DEF ImportsDone, To
  <2> QED
      BY <1>1, <1>6, <2>1, ImportsDoneOnce DEF OnceOK, VariablesDiffer
<1>7. CASE /\ stage \in {"size"} \cup Encoding /\ stage' \in Encoding \cup {"null", "crash", "overrun"}
           /\ UNCHANGED <<libs, fstubs, vstubs>>
  <2>1. stage' # "imports"
        BY <1>7 DEF Encoding
  <2> QED
      BY <1>7, <2>1, SameOnce
<1> QED
    BY <1>1, <1>3, <1>4, <1>5, <1>6, <1>7, CreatePhases

\* Steps of the other programs leave the tables alone.
LEMMA NextOnce == ASSUME Pipeline, NidsOK, SortedOK, OnceOK, [ImportsNext]_allvars PROVE OnceOK'
<1>1. CASE Generate \/ (Terminated /\ UNCHANGED allvars) \/ UNCHANGED allvars
  <2>1. UNCHANGED <<stage, fstubs, vstubs, libs>>
        BY <1>1 DEF Generate, allvars, state
  <2> QED
      BY <2>1, SameOnce
<1>2. CASE Link
      BY <1>2 DEF Link, OnceOK, VariablesDiffer, TabledOnce, Encoding
<1>3. CASE Create
  <2>1. CASE VitaElfCreate
        BY <2>1, CreateOnce
  <2>2. CASE Written \/ VitaMakeFself
    <3>1. stage' \in Writing \cup {"failure", "crash"}
          BY <2>2, WrittenStages DEF Pipeline, Shape
    <3> QED
        BY <3>1 DEF OnceOK, VariablesDiffer, TabledOnce, Encoding, Writing, Creating, Unpacked, Finished
  <2> QED
      BY <1>3, <2>1, <2>2 DEF Create
<1> QED
    BY <1>1, <1>2, <1>3 DEF ImportsNext

----------------------------------------------------------------------------
(* What is counted is what is written.                                       *)

\* Different places that were not there add their numbers.
LEMMA SumInRange ==
  ASSUME NEW w, NatList(w), NEW S, NEW k \in Nat, NEW c, NEW d,
         \A n \in 1 .. k : c[n] \in DOMAIN w /\ c[n] \notin S,
         \A m, n \in 1 .. k : m # n => c[m] # c[n],
         d = [n \in 1 .. k |-> w[c[n]]]
  PROVE  /\ NatList(d) /\ Len(d) = k
         /\ SumIn(w, S \cup {c[n] : n \in 1 .. k}) = SumIn(w, S) + SumOf(d)
<1>1. /\ \A n \in 1 .. k : d[n] = w[c[n]] /\ d[n] \in Nat
      /\ d = [n \in 1 .. k |-> d[n]]
      BY DEF NatList
<1>2. NatList(d) /\ Len(d) = k
      BY <1>1, NatListMap
<1>3. PICK h \in [0 .. Len(d) -> Nat] : Adds(d, h) /\ SumOf(d) = h[Len(d)]
      BY <1>2, SumRuns
<1>4. h[0] = 0 /\ \A n \in 1 .. k : h[n] = h[n - 1] + w[c[n]] /\ h[n] \in Nat /\ h[n - 1] \in Nat
  <2>1. \A n \in 1 .. k : n \in 0 .. k /\ n - 1 \in 0 .. k
        OBVIOUS
  <2> QED
      BY <1>1, <1>2, <1>3, <2>1 DEF Adds
<1> DEFINE With(n) == S \cup {c[m] : m \in 1 .. n}
           T == {n \in 0 .. k : SumIn(w, With(n)) # SumIn(w, S) + h[n]}
<1>5. \A V : SumIn(w, V) \in Nat
      BY SumInFacts
<1>6. T = {}
  <2> SUFFICES ASSUME NEW x \in T PROVE FALSE
      OBVIOUS
  <2>1. PICK m \in T : \A n \in T : m <= n
    <3>1. T \in SUBSET Nat /\ x \in T
          OBVIOUS
    <3> HIDE DEF T
    <3> QED
        BY <3>1, LeastNatural
  <2>2. m # 0
    <3>1. With(0) = S
          OBVIOUS
    <3>2. SumIn(w, With(0)) = SumIn(w, S) + h[0]
      <4>1. SumIn(w, S) \in Nat /\ h[0] = 0
            BY <1>4, <1>5
      <4>2. SumIn(w, With(0)) = SumIn(w, S)
        <5> HIDE DEF With
        <5> QED
            BY <3>1
      <4> HIDE DEF With
      <4> QED
          BY <4>1, <4>2
    <3> QED
        BY <2>1, <3>2
  <2>3. m \in 1 .. k /\ m - 1 \in 0 .. k /\ m - 1 \notin T
        BY <2>1, <2>2
  <2>4. With(m) = With(m - 1) \cup {c[m]}
    <3>1. \A j : j \in 1 .. m <=> j \in 1 .. m - 1 \/ j = m
          BY <2>3
    <3> QED
        BY <3>1
  <2>5. c[m] \notin With(m - 1) /\ c[m] \in DOMAIN w
    <3>1. \A j \in 1 .. m - 1 : j \in 1 .. k /\ j # m
          BY <2>3
    <3> QED
        BY <2>3, <3>1
  <2>6. SumIn(w, With(m - 1)) = SumIn(w, S) + h[m - 1]
        BY <2>3
  <2>7. SumIn(w, With(m)) = SumIn(w, With(m - 1)) + w[c[m]]
    <3> HIDE DEF With
    <3>1. SumIn(w, With(m - 1) \cup {c[m]}) = SumIn(w, With(m - 1)) + w[c[m]]
          BY <2>5, SumInFacts
    <3> QED
        BY <2>4, <3>1
  <2>8. SumIn(w, With(m)) # SumIn(w, S) + h[m]
        BY <2>1
  <2> HIDE DEF With, T
  <2>9. w[c[m]] \in Nat /\ SumIn(w, S) \in Nat
        BY <1>5, <2>5 DEF NatList
  <2> QED
      BY <1>4, <2>3, <2>6, <2>7, <2>8, <2>9
<1>7. SumIn(w, With(k)) = SumIn(w, S) + h[k]
  <2>1. k \in 0 .. k
        OBVIOUS
  <2> QED
      BY <1>6, <2>1
<1> QED
    BY <1>2, <1>3, <1>7

\* The words of each export, the entries of each library, the words of each variable stub.
ExportWords == [n \in DOMAIN top.exports |-> NameWords(top.exports[n].name) + 2 * Len(top.exports[n].entries)]
FunctionCounts == [n \in DOMAIN libs |-> Len(libs[n].functions)]
VariableCounts == [n \in DOMAIN libs |-> Len(libs[n].variables)]
InfoWords == [n \in DOMAIN vstubs |-> 1 + Len(vstubs[n].rel_info)]

\* They are lists of numbers.
LEMMA CountLists ==
  ASSUME Shape
  PROVE  /\ NatList(ExportWords) /\ Len(ExportWords) = Len(top.exports) /\ DOMAIN ExportWords = 1 .. Len(top.exports)
         /\ NatList(FunctionCounts) /\ Len(FunctionCounts) = Len(libs)
         /\ NatList(VariableCounts) /\ Len(VariableCounts) = Len(libs)
         /\ NatList(InfoWords) /\ DOMAIN InfoWords = DOMAIN vstubs
         /\ Len(top.exports) \in Nat /\ Len(libs) \in Nat
<1> USE DEF Shape
<1>1. /\ Len(top.exports) \in Nat /\ DOMAIN top.exports = 1 .. Len(top.exports)
      /\ Len(libs) \in Nat /\ DOMAIN libs = 1 .. Len(libs)
      /\ Len(vstubs) \in Nat /\ DOMAIN vstubs = 1 .. Len(vstubs)
      BY ListFacts DEF TopLists, LibLists, StubLists
<1>2. NatList(ExportWords) /\ Len(ExportWords) = Len(top.exports)
  <2>1. ASSUME NEW n \in 1 .. Len(top.exports) PROVE ExportWords[n] \in Nat
    <3>1. Len(top.exports[n].entries) \in Nat
          BY <1>1, ListFacts DEF TopLists
    <3>2. NameWords(top.exports[n].name) \in Nat
          BY DEF NameWords
    <3> QED
        BY <1>1, <3>1, <3>2 DEF ExportWords
  <2>2. ExportWords = [n \in 1 .. Len(top.exports) |-> ExportWords[n]]
        BY <1>1 DEF ExportWords
  <2> QED
      BY <1>1, <2>1, <2>2, NatListMap
<1>3. NatList(FunctionCounts) /\ Len(FunctionCounts) = Len(libs)
  <2>1. \A n \in 1 .. Len(libs) : FunctionCounts[n] \in Nat
        BY <1>1, ListFacts DEF LibLists, FunctionCounts
  <2>2. FunctionCounts = [n \in 1 .. Len(libs) |-> FunctionCounts[n]]
        BY <1>1 DEF FunctionCounts
  <2> QED
      BY <1>1, <2>1, <2>2, NatListMap
<1>4. NatList(VariableCounts) /\ Len(VariableCounts) = Len(libs)
  <2>1. \A n \in 1 .. Len(libs) : VariableCounts[n] \in Nat
        BY <1>1, ListFacts DEF LibLists, VariableCounts
  <2>2. VariableCounts = [n \in 1 .. Len(libs) |-> VariableCounts[n]]
        BY <1>1 DEF VariableCounts
  <2> QED
      BY <1>1, <2>1, <2>2, NatListMap
<1>5. NatList(InfoWords)
  <2>1. ASSUME NEW n \in 1 .. Len(vstubs) PROVE InfoWords[n] \in Nat
    <3>1. Len(vstubs[n].rel_info) \in Nat
          BY <1>1, ListFacts DEF StubLists
    <3> QED
        BY <1>1, <3>1 DEF InfoWords
  <2>2. InfoWords = [n \in 1 .. Len(vstubs) |-> InfoWords[n]]
        BY <1>1 DEF InfoWords
  <2> QED
      BY <1>1, <2>1, <2>2, NatListMap
<1> QED
    BY <1>1, <1>2, <1>3, <1>4, <1>5 DEF ExportWords, InfoWords

\* The sizes of the sections.
LEMMA SizesAre ==
  /\ DOMAIN get_size = SectionNames
  /\ get_size["ModuleInfo"] = INFO + params.process + (IF have_libc THEN LIBC ELSE 0)
  /\ get_size["Lib_ent"] = EXPORT * Len(top.exports) /\ get_size["Export"] = SumOf(ExportWords)
  /\ get_size["Lib_stubs"] = IMPORT * Len(libs) /\ get_size["Import"] = Len(libs)
  /\ get_size["FNID"] = SumOf(FunctionCounts) /\ get_size["FStub"] = SumOf(FunctionCounts)
  /\ get_size["VNID"] = SumOf(VariableCounts) /\ get_size["VStub"] = SumOf(VariableCounts) + SumOf(InfoWords)
<1>1. Total(LAMBDA e : NameWords(e.name) + 2 * Len(e.entries), top.exports) = SumOf(ExportWords)
      BY DEF Total, ExportWords
<1>2. Total(LAMBDA lib : Len(lib.functions), libs) = SumOf(FunctionCounts)
      BY DEF Total, FunctionCounts
<1>3. Total(LAMBDA lib : Len(lib.variables), libs) = SumOf(VariableCounts)
      BY DEF Total, VariableCounts
<1>4. Total(LAMBDA v : 1 + Len(v.rel_info), vstubs) = SumOf(InfoWords)
      BY DEF Total, InfoWords
<1>5. get_size["Export"] = SumOf(ExportWords)
      BY <1>1 DEF get_size
<1>6. get_size["FNID"] = SumOf(FunctionCounts) /\ get_size["FStub"] = SumOf(FunctionCounts)
      BY <1>2 DEF get_size
<1>7. get_size["VNID"] = SumOf(VariableCounts)
      BY <1>3 DEF get_size
<1>8. get_size["VStub"] = SumOf(VariableCounts) + SumOf(InfoWords)
  <2>1. get_size["VStub"] = VStubWords
        BY DEF get_size
  <2> QED
      BY <1>3, <1>4, <2>1 DEF VStubWords
<1>9. DOMAIN get_size = SectionNames
      BY DEF get_size, SectionNames
<1>10. /\ get_size["ModuleInfo"] = INFO + params.process + (IF have_libc THEN LIBC ELSE 0)
       /\ get_size["Lib_ent"] = EXPORT * Len(top.exports)
       /\ get_size["Lib_stubs"] = IMPORT * Len(libs) /\ get_size["Import"] = Len(libs)
      BY DEF get_size
<1> QED
    BY <1>5, <1>6, <1>7, <1>8, <1>9, <1>10

\* The variable stubs that the first k libraries have.
MatchedBy(k) == {n \in DOMAIN vstubs : \E l \in 1 .. k : \E v \in DOMAIN libs[l].variables : Matches(n, l, v)}

\* The relocation information of a library's variables is that of stubs that no library
\* before it has.
LEMMA InfosWords ==
  ASSUME Shape, VariablesFound, TabledOnce, ~ SameVariable, EncodeImport
  PROVE  SumIn(InfoWords, MatchedBy(i + 1)) = SumIn(InfoWords, MatchedBy(i)) + Len(FlattenSeq(Infos(libs[i + 1])))
<1> DEFINE k == i + 1
           lib == libs[k]
           nv == Len(lib.variables)
           infos == Infos(lib)
           at(n) == {m \in DOMAIN vstubs : vstubs[m].library_nid = lib.nid /\ vstubs[m].target_nid = lib.variables[n].nid}
           c == [n \in 1 .. nv |-> First(at(n))]
           d == [n \in 1 .. nv |-> InfoWords[c[n]]]
<1>1. stage = "encode_imports" /\ i < Len(libs) /\ i \in Nat /\ stage \in {"size"} \cup Encoding
      BY DEF EncodeImport, Shape, Encoding
<1>2. k \in DOMAIN libs /\ DOMAIN libs = 1 .. Len(libs) /\ Len(libs) \in Nat
  <2>1. Len(libs) \in Nat /\ DOMAIN libs = 1 .. Len(libs)
        BY ListFacts DEF Shape, LibLists
  <2> QED
      BY <1>1, <2>1
<1>3. IsList(lib.variables) /\ nv \in Nat /\ DOMAIN lib.variables = 1 .. nv
      BY <1>2, ListFacts DEF Shape, LibLists
<1>4. DOMAIN vstubs = 1 .. Len(vstubs) /\ Len(vstubs) \in Nat
      BY ListFacts DEF Shape, StubLists
<1>5. ASSUME NEW n \in 1 .. nv
      PROVE  c[n] \in DOMAIN vstubs /\ vstubs[c[n]].library_nid = lib.nid /\ vstubs[c[n]].target_nid = lib.variables[n].nid
  <2>1. HasStub(lib.nid, lib.variables[n].nid)
        BY <1>1, <1>2, <1>3 DEF VariablesFound
  <2>2. at(n) # {} /\ at(n) \in SUBSET Nat
        BY <1>4, <2>1 DEF HasStub
  <2>3. c[n] = First(at(n))
        OBVIOUS
  <2> HIDE DEF c
  <2>4. c[n] \in at(n)
    <3> HIDE DEF at
    <3> QED
        BY <2>2, <2>3, FirstIn
  <2> QED
      BY <2>4
<1>6. \A l, m \in DOMAIN libs : l # m => libs[l].nid # libs[m].nid
      BY <1>1 DEF TabledOnce
<1>7. \A u, v \in DOMAIN lib.variables : u # v => lib.variables[u].nid # lib.variables[v].nid
      BY <1>1, <1>2 DEF TabledOnce
<1> HIDE DEF c, infos
<1>8. \A m, n \in 1 .. nv : m # n => c[m] # c[n]
      BY <1>3, <1>5, <1>7
<1>9. \A n \in 1 .. nv : c[n] \notin MatchedBy(i)
  <2> SUFFICES ASSUME NEW n \in 1 .. nv, c[n] \in MatchedBy(i) PROVE FALSE
      OBVIOUS
  <2>1. PICK l \in 1 .. i : libs[l].nid = vstubs[c[n]].library_nid
        BY DEF MatchedBy, Matches
  <2>2. l \in DOMAIN libs /\ l # k
        BY <1>1, <1>2
  <2>3. libs[l].nid = lib.nid
        BY <1>5, <2>1
  <2> QED
      BY <1>2, <1>6, <2>2, <2>3
<1>10. MatchedBy(k) = MatchedBy(i) \cup {c[n] : n \in 1 .. nv}
  <2>1. \A l : l \in 1 .. k <=> l \in 1 .. i \/ l = k
        BY <1>1
  <2>2. ASSUME NEW m \in MatchedBy(k) PROVE m \in MatchedBy(i) \/ \E n \in 1 .. nv : m = c[n]
    <3>1. PICK l \in 1 .. k : \E v \in DOMAIN libs[l].variables : Matches(m, l, v)
          BY DEF MatchedBy
    <3>2. m \in DOMAIN vstubs
          BY DEF MatchedBy
    <3>3. CASE l \in 1 .. i
          BY <3>1, <3>2, <3>3 DEF MatchedBy
    <3>4. CASE l = k
      <4>1. PICK v \in 1 .. nv : Matches(m, k, v)
            BY <1>3, <3>1, <3>4
      <4>2. vstubs[m].library_nid = lib.nid /\ vstubs[m].target_nid = lib.variables[v].nid
            BY <4>1 DEF Matches
      <4>3. m = c[v]
            BY <1>5, <3>2, <4>2 DEF SameVariable
      <4> QED
          BY <4>3
    <3> QED
        BY <2>1, <3>3, <3>4
  <2>3. ASSUME NEW n \in 1 .. nv PROVE c[n] \in MatchedBy(k)
    <3>1. Matches(c[n], k, n)
          BY <1>5 DEF Matches
    <3>2. k \in 1 .. k
          BY <1>1
    <3> QED
        BY <1>3, <1>5, <3>1, <3>2 DEF MatchedBy
  <2>4. MatchedBy(i) \subseteq MatchedBy(k)
        BY <2>1 DEF MatchedBy
  <2> HIDE DEF k
  <2> QED
      BY <2>2, <2>3, <2>4
<1>11. NatList(InfoWords) /\ DOMAIN InfoWords = DOMAIN vstubs
       BY CountLists
<1>12. SumIn(InfoWords, MatchedBy(k)) = SumIn(InfoWords, MatchedBy(i)) + SumOf(d)
  <2>1. \A n \in 1 .. nv : c[n] \in DOMAIN InfoWords /\ c[n] \notin MatchedBy(i)
        BY <1>5, <1>9, <1>11
  <2>2. d = [n \in 1 .. nv |-> InfoWords[c[n]]]
        OBVIOUS
  <2> HIDE DEF d, nv, k
  <2>3. SumIn(InfoWords, MatchedBy(i) \cup {c[n] : n \in 1 .. nv}) = SumIn(InfoWords, MatchedBy(i)) + SumOf(d)
        BY <1>3, <1>8, <1>11, <2>1, <2>2, SumInRange
  <2> QED
      BY <1>10, <2>3
<1>13. ASSUME NEW n \in 1 .. nv PROVE IsList(infos[n]) /\ Len(infos[n]) = d[n]
  <2>1. infos[n] = RelInfo(vstubs[c[n]])
    <3>1. infos[n] = RelInfo(Stub(lib, lib.variables[n]))
          BY DEF infos, Infos
    <3>2. Stub(lib, lib.variables[n]) = vstubs[c[n]]
          BY DEF Stub, c
    <3> QED
        BY <3>1, <3>2
  <2> DEFINE r == vstubs[c[n]].rel_info
             head == <<64 * (1 + Len(r))>>
  <2>2. IsList(r)
        BY <1>5 DEF Shape, StubLists
  <2>3. infos[n] = head \o r
        BY <2>1 DEF RelInfo
  <2>4. IsList(head) /\ Len(head) = 1
        BY OneList
  <2>5. InfoWords[c[n]] = 1 + Len(r)
        BY <1>5 DEF InfoWords
  <2> HIDE DEF head, r
  <2>6. IsList(head \o r) /\ Len(head \o r) = Len(head) + Len(r)
        BY <2>2, <2>4, ListConcat
  <2> QED
      BY <2>3, <2>4, <2>5, <2>6
<1>14. IsList(infos) /\ Len(infos) = nv /\ DOMAIN infos = 1 .. nv
  <2>1. infos = [n \in 1 .. nv |-> infos[n]]
        BY DEF infos, Infos
  <2> HIDE DEF nv
  <2>2. IsList(infos) /\ Len(infos) = nv
        BY <1>3, <2>1, FunctionList
  <2> QED
      BY <2>2, ListFacts
<1>15. Len(FlattenSeq(infos)) = SumOf(d)
  <2>1. d = [n \in 1 .. Len(infos) |-> Len(infos[n])]
    <3>1. \A n \in 1 .. nv : d[n] = Len(infos[n])
          BY <1>13
    <3> QED
        BY <1>14, <3>1
  <2> HIDE DEF d
  <2> QED
      BY <1>13, <1>14, <2>1, FlattenLength
<1> QED
    BY <1>12, <1>15 DEF infos

\* How much of each section the exports and imports encoded so far have used.
ExportsUsed ==
  /\ i <= Len(top.exports)
  /\ used["Lib_ent"] = EXPORT * i /\ used["Export"] = Part(ExportWords, i)
  /\ \A s \in SectionNames \ {"Lib_ent", "Export"} : used[s] = 0
ImportsUsed ==
  /\ i <= Len(libs)
  /\ used["Lib_ent"] = sizes["Lib_ent"] /\ used["Export"] = sizes["Export"]
  /\ used["Lib_stubs"] = IMPORT * i /\ used["Import"] = i
  /\ used["FNID"] = Part(FunctionCounts, i) /\ used["FStub"] = Part(FunctionCounts, i)
  /\ used["VNID"] = Part(VariableCounts, i)
  /\ ~ SameVariable => used["VStub"] = Part(VariableCounts, i) + SumIn(InfoWords, MatchedBy(i))
UsedCounted ==
  /\ stage = "encode_exports" => ExportsUsed
  /\ stage = "encode_imports" => ImportsUsed

\* The sizes, and what they are counted from.
Counted == <<elf, fstubs, vstubs, exports, params, top, libs, sizes>>
\* Where nothing that is counted changes, the numbers stay.
LEMMA SameCounted ==
  ASSUME UNCHANGED <<elf, fstubs, vstubs, exports, params, top, libs>>
  PROVE  /\ have_libc' = have_libc /\ get_size' = get_size
         /\ ExportWords' = ExportWords /\ FunctionCounts' = FunctionCounts
         /\ VariableCounts' = VariableCounts /\ InfoWords' = InfoWords
         /\ SameVariable' = SameVariable /\ LostVariable' = LostVariable
         /\ \A k : MatchedBy(k)' = MatchedBy(k)
<1>1. have_libc' = have_libc
      BY DEF have_libc, HasParam, Has, Named, program
<1>2. ExportWords' = ExportWords /\ FunctionCounts' = FunctionCounts /\ VariableCounts' = VariableCounts /\ InfoWords' = InfoWords
      BY DEF ExportWords, FunctionCounts, VariableCounts, InfoWords
<1>3. SameVariable' = SameVariable /\ LostVariable' = LostVariable
      BY DEF SameVariable, LostVariable, Lost, Stubs, TableOf
<1>4. \A k : MatchedBy(k)' = MatchedBy(k)
      BY DEF MatchedBy, Matches
<1>5. get_size' = get_size
      BY <1>1 DEF get_size, VStubWords, Total
<1> QED
    BY <1>1, <1>2, <1>3, <1>4, <1>5

\* An export has room, and one more is counted.
LEMMA ExportCounts ==
  ASSUME Shape, UsedOK, sizes = get_size, UsedCounted, EncodeExport
  PROVE  stage' = "encode_exports" /\ ExportsUsed' /\ UNCHANGED Counted
<1> DEFINE e == top.exports[i + 1]
           more == [Lib_ent |-> EXPORT, Export |-> NameWords(e.name) + 2 * Len(e.entries)]
           x == ExportWords[i + 1]
<1>1. stage = "encode_exports" /\ i < Len(top.exports) /\ i \in Nat /\ UNCHANGED Counted
      BY DEF EncodeExport, Shape, Counted
<1>2. ExportsUsed /\ DOMAIN used = SectionNames
      BY <1>1 DEF UsedCounted, UsedOK
<1>3. NatList(ExportWords) /\ Len(ExportWords) = Len(top.exports) /\ DOMAIN ExportWords = 1 .. Len(top.exports) /\ Len(top.exports) \in Nat
      BY CountLists
<1>4. i + 1 \in 1 .. Len(top.exports) /\ i + 1 \in 0 .. Len(top.exports) /\ i \in 0 .. Len(top.exports) /\ (i + 1) - 1 = i
      BY <1>1, <1>3
<1>5. x = NameWords(e.name) + 2 * Len(e.entries)
  <2>1. i + 1 \in DOMAIN top.exports
        BY <1>3, <1>4 DEF ExportWords
  <2> QED
      BY <2>1 DEF ExportWords
<1>6. more = [Lib_ent |-> EXPORT, Export |-> x] /\ DOMAIN more = {"Lib_ent", "Export"} /\ more["Lib_ent"] = EXPORT /\ more["Export"] = x
      BY <1>5
<1> HIDE DEF x
<1>7. /\ Part(ExportWords, i + 1) = Part(ExportWords, i) + x
      /\ Part(ExportWords, i + 1) <= SumOf(ExportWords)
  <2>1. /\ \A k \in 1 .. Len(ExportWords) : Part(ExportWords, k) = Part(ExportWords, k - 1) + ExportWords[k]
        /\ \A k \in 0 .. Len(ExportWords) : Part(ExportWords, k) <= SumOf(ExportWords)
        BY <1>3, PartFacts
  <2> QED
      BY <1>3, <1>4, <2>1 DEF x
<1>8. /\ sizes["Lib_ent"] = EXPORT * Len(top.exports) /\ sizes["Export"] = SumOf(ExportWords)
      BY SizesAre
<1>9. used["Lib_ent"] = EXPORT * i /\ used["Export"] = Part(ExportWords, i)
      BY <1>2 DEF ExportsUsed
<1>10. used["Lib_ent"] + EXPORT = EXPORT * (i + 1) /\ EXPORT * (i + 1) <= EXPORT * Len(top.exports)
       BY <1>1, <1>3, <1>9 DEF EXPORT
<1> HIDE DEF more
<1>11. Fits(more)
  <2>1. used["Lib_ent"] + more["Lib_ent"] <= sizes["Lib_ent"]
        BY <1>6, <1>8, <1>10
  <2>2. used["Export"] + more["Export"] <= sizes["Export"]
        BY <1>6, <1>7, <1>8, <1>9
  <2> QED
      BY <1>6, <2>1, <2>2 DEF Fits
<1>12. Used(more) /\ Again
       BY <1>11 DEF EncodeExport, more
<1>13. used' = [s \in SectionNames |-> IF s \in DOMAIN more THEN used[s] + more[s] ELSE used[s]]
       BY <1>2, <1>12 DEF Used, Plus
<1>14. used'["Lib_ent"] = EXPORT * (i + 1) /\ used'["Export"] = Part(ExportWords, i + 1)
  <2>1. used'["Lib_ent"] = used["Lib_ent"] + EXPORT /\ used'["Export"] = used["Export"] + x
        BY <1>6, <1>13 DEF SectionNames
  <2> QED
      BY <1>7, <1>9, <1>10, <2>1
<1>15. \A s \in SectionNames \ {"Lib_ent", "Export"} : used'[s] = 0
       BY <1>2, <1>6, <1>13 DEF ExportsUsed
<1>16. stage' = "encode_exports" /\ i' = i + 1
       BY <1>1, <1>12 DEF Again
<1>17. ExportWords' = ExportWords /\ top' = top
       BY <1>1, SameCounted DEF Counted
<1>18. i' <= Len(top'.exports)
       BY <1>4, <1>16, <1>17
<1> QED
    BY <1>1, <1>14, <1>15, <1>16, <1>17, <1>18 DEF ExportsUsed

\* An import has room unless a variable is there twice, and one more is counted.
LEMMA ImportCounts ==
  ASSUME Shape, VariablesFound, TabledOnce, UsedOK, sizes = get_size, UsedCounted, EncodeImport
  PROVE  /\ UNCHANGED Counted
         /\ \/ stage' = "overrun" /\ SameVariable
            \/ stage' = "encode_imports" /\ ImportsUsed'
<1> DEFINE lib == libs[i + 1]
           nf == Len(lib.functions)
           nv == Len(lib.variables)
           fl == Len(FlattenSeq(Infos(lib)))
           more == [Lib_stubs |-> IMPORT, Import |-> 1, FNID |-> nf, FStub |-> nf, VNID |-> nv, VStub |-> nv + fl]
<1>1. stage = "encode_imports" /\ i < Len(libs) /\ i \in Nat /\ UNCHANGED Counted
      BY DEF EncodeImport, Shape, Counted
<1>2. ImportsUsed /\ DOMAIN used = SectionNames
      BY <1>1 DEF UsedCounted, UsedOK
<1>3. /\ NatList(FunctionCounts) /\ Len(FunctionCounts) = Len(libs)
      /\ NatList(VariableCounts) /\ Len(VariableCounts) = Len(libs)
      /\ NatList(InfoWords) /\ Len(libs) \in Nat
      BY CountLists
<1>4. i + 1 \in 1 .. Len(libs) /\ i + 1 \in 0 .. Len(libs) /\ i \in 0 .. Len(libs) /\ (i + 1) - 1 = i
      BY <1>1, <1>3
<1>5. FunctionCounts[i + 1] = nf /\ VariableCounts[i + 1] = nv /\ nf \in Nat /\ nv \in Nat
  <2>1. i + 1 \in DOMAIN libs
        BY <1>4, ListFacts DEF Shape, LibLists
  <2> QED
      BY <2>1, ListFacts DEF FunctionCounts, VariableCounts, Shape, LibLists
<1>6. /\ Part(FunctionCounts, i + 1) = Part(FunctionCounts, i) + nf
      /\ Part(FunctionCounts, i + 1) <= SumOf(FunctionCounts) /\ Part(FunctionCounts, i) \in Nat
  <2>1. /\ \A k \in 1 .. Len(FunctionCounts) : Part(FunctionCounts, k) = Part(FunctionCounts, k - 1) + FunctionCounts[k]
        /\ \A k \in 0 .. Len(FunctionCounts) : Part(FunctionCounts, k) \in Nat /\ Part(FunctionCounts, k) <= SumOf(FunctionCounts)
        BY <1>3, PartFacts
  <2> QED
      BY <1>3, <1>4, <1>5, <2>1
<1>7. /\ Part(VariableCounts, i + 1) = Part(VariableCounts, i) + nv
      /\ Part(VariableCounts, i + 1) <= SumOf(VariableCounts) /\ Part(VariableCounts, i) \in Nat /\ SumOf(VariableCounts) \in Nat
  <2>1. /\ \A k \in 1 .. Len(VariableCounts) : Part(VariableCounts, k) = Part(VariableCounts, k - 1) + VariableCounts[k]
        /\ \A k \in 0 .. Len(VariableCounts) : Part(VariableCounts, k) \in Nat /\ Part(VariableCounts, k) <= SumOf(VariableCounts)
        /\ Part(VariableCounts, Len(VariableCounts)) = SumOf(VariableCounts)
        BY <1>3, PartFacts
  <2>2. Len(VariableCounts) \in 0 .. Len(VariableCounts)
        BY <1>3
  <2> QED
      BY <1>3, <1>4, <1>5, <2>1, <2>2
<1>8. \A S : SumIn(InfoWords, S) \in Nat /\ SumIn(InfoWords, S) <= SumOf(InfoWords)
      BY <1>3, SumInFacts
<1>9. SumOf(InfoWords) \in Nat
      BY <1>3, SumNat DEF NatList
<1>10. /\ sizes["Lib_stubs"] = IMPORT * Len(libs) /\ sizes["Import"] = Len(libs)
       /\ sizes["FNID"] = SumOf(FunctionCounts) /\ sizes["FStub"] = SumOf(FunctionCounts)
       /\ sizes["VNID"] = SumOf(VariableCounts) /\ sizes["VStub"] = SumOf(VariableCounts) + SumOf(InfoWords)
       BY SizesAre
<1>11. fl \in Nat
       BY InfosLists, ListFacts
<1>12. ~ SameVariable => SumIn(InfoWords, MatchedBy(i + 1)) = SumIn(InfoWords, MatchedBy(i)) + fl
       BY InfosWords
<1>13. /\ DOMAIN more = {"Lib_stubs", "Import", "FNID", "FStub", "VNID", "VStub"}
       /\ more["Lib_stubs"] = IMPORT /\ more["Import"] = 1 /\ more["FNID"] = nf /\ more["FStub"] = nf
       /\ more["VNID"] = nv /\ more["VStub"] = nv + fl
       OBVIOUS
<1>14. IF Fits(more) THEN Used(more) /\ Again ELSE To("overrun")
       BY DEF EncodeImport, Infos
<1> HIDE DEF more, nf, nv, fl
<1>15. /\ used["Lib_ent"] = sizes["Lib_ent"] /\ used["Export"] = sizes["Export"]
       /\ used["Lib_stubs"] = IMPORT * i /\ used["Import"] = i
       /\ used["FNID"] = Part(FunctionCounts, i) /\ used["FStub"] = Part(FunctionCounts, i)
       /\ used["VNID"] = Part(VariableCounts, i)
       /\ ~ SameVariable => used["VStub"] = Part(VariableCounts, i) + SumIn(InfoWords, MatchedBy(i))
       BY <1>2 DEF ImportsUsed
<1>16. used["Lib_stubs"] + IMPORT = IMPORT * (i + 1) /\ IMPORT * (i + 1) <= IMPORT * Len(libs)
       BY <1>1, <1>3, <1>15 DEF IMPORT
<1>17. ~ SameVariable => used["VStub"] + (nv + fl) = Part(VariableCounts, i + 1) + SumIn(InfoWords, MatchedBy(i + 1))
  <2> SUFFICES ASSUME ~ SameVariable
               PROVE used["VStub"] + (nv + fl) = Part(VariableCounts, i + 1) + SumIn(InfoWords, MatchedBy(i + 1))
      OBVIOUS
  <2>1. PICK a, b, p : a = SumIn(InfoWords, MatchedBy(i)) /\ b = SumIn(InfoWords, MatchedBy(i + 1)) /\ p = Part(VariableCounts, i)
        OBVIOUS
  <2>2. a \in Nat /\ p \in Nat /\ b = a + fl /\ used["VStub"] = p + a /\ Part(VariableCounts, i + 1) = p + nv
        BY <1>7, <1>8, <1>12, <1>15, <2>1
  <2>3. (p + a) + (nv + fl) = (p + nv) + (a + fl)
        BY <1>5, <1>11, <2>2
  <2> QED
      BY <2>1, <2>2, <2>3
<1>18. ~ SameVariable => Fits(more)
  <2> SUFFICES ASSUME ~ SameVariable PROVE Fits(more)
      OBVIOUS
  <2>1. used["Lib_stubs"] + more["Lib_stubs"] <= sizes["Lib_stubs"]
        BY <1>10, <1>13, <1>16
  <2>2. used["Import"] + more["Import"] <= sizes["Import"]
        BY <1>1, <1>3, <1>10, <1>13, <1>15
  <2>3. used["FNID"] + more["FNID"] <= sizes["FNID"] /\ used["FStub"] + more["FStub"] <= sizes["FStub"]
        BY <1>6, <1>10, <1>13, <1>15
  <2>4. used["VNID"] + more["VNID"] <= sizes["VNID"]
        BY <1>7, <1>10, <1>13, <1>15
  <2>5. used["VStub"] + more["VStub"] <= sizes["VStub"]
    <3>1. PICK b, q : b = SumIn(InfoWords, MatchedBy(i + 1)) /\ q = Part(VariableCounts, i + 1)
          OBVIOUS
    <3>2. b \in Nat /\ b <= SumOf(InfoWords) /\ q <= SumOf(VariableCounts)
          BY <1>7, <1>8, <3>1
    <3>3. q \in Nat
          BY <1>5, <1>7, <3>1
    <3>4. q + b <= SumOf(VariableCounts) + SumOf(InfoWords)
          BY <1>7, <1>9, <3>2, <3>3
    <3> QED
        BY <1>10, <1>13, <1>17, <3>1, <3>4
  <2> QED
      BY <1>13, <2>1, <2>2, <2>3, <2>4, <2>5 DEF Fits
<1>19. CASE ~ Fits(more)
       BY <1>1, <1>14, <1>18, <1>19 DEF To
<1>20. CASE Fits(more)
  <2>1. Used(more) /\ Again
        BY <1>14, <1>20
  <2>2. used' = [s \in SectionNames |-> IF s \in DOMAIN more THEN used[s] + more[s] ELSE used[s]]
        BY <1>2, <2>1 DEF Used, Plus
  <2>3. used'["Lib_ent"] = used["Lib_ent"] /\ used'["Export"] = used["Export"]
        /\ used'["Lib_stubs"] = used["Lib_stubs"] + IMPORT /\ used'["Import"] = used["Import"] + 1
        /\ used'["FNID"] = used["FNID"] + nf /\ used'["FStub"] = used["FStub"] + nf
        /\ used'["VNID"] = used["VNID"] + nv /\ used'["VStub"] = used["VStub"] + (nv + fl)
        BY <1>13, <2>2 DEF SectionNames
  <2>4. stage' = "encode_imports" /\ i' = i + 1 /\ i' <= Len(libs)
        BY <1>1, <1>3, <2>1 DEF Again
  <2>5. /\ libs' = libs /\ sizes' = sizes /\ FunctionCounts' = FunctionCounts /\ VariableCounts' = VariableCounts
        /\ InfoWords' = InfoWords /\ SameVariable' = SameVariable /\ \A k : MatchedBy(k)' = MatchedBy(k)
        BY <1>1, SameCounted DEF Counted
  <2>6. MatchedBy(i)' = MatchedBy(i + 1)
    <3>1. MatchedBy(i)' = {n \in DOMAIN vstubs' : \E l \in 1 .. i' : \E v \in DOMAIN libs'[l].variables :
                             libs'[l].nid = vstubs'[n].library_nid /\ libs'[l].variables[v].nid = vstubs'[n].target_nid}
          BY DEF MatchedBy, Matches
    <3>2. vstubs' = vstubs
          BY <1>1 DEF Counted
    <3> QED
        BY <2>4, <2>5, <3>1, <3>2 DEF MatchedBy, Matches
  <2>7. /\ used'["Lib_stubs"] = IMPORT * (i + 1) /\ used'["Import"] = i + 1
        /\ used'["FNID"] = Part(FunctionCounts, i + 1) /\ used'["FStub"] = Part(FunctionCounts, i + 1)
        /\ used'["VNID"] = Part(VariableCounts, i + 1)
        /\ ~ SameVariable => used'["VStub"] = Part(VariableCounts, i + 1) + SumIn(InfoWords, MatchedBy(i + 1))
        BY <1>6, <1>7, <1>15, <1>16, <1>17, <2>3
  <2>8. ImportsUsed'
        BY <1>15, <2>3, <2>4, <2>5, <2>6, <2>7 DEF ImportsUsed
  <2> QED
      BY <1>1, <2>4, <2>8
<1> QED
    BY <1>19, <1>20

\* Why encoding may fail.
Blocked == \E n \in DOMAIN program.segments \ {segndx} : Overlaps(program.segments[n])
Cause == (sizes # NoWords /\ Blocked) \/ SameVariable \/ LostVariable \/ (program.output /\ exports.libs = <<>>)
FailsForCause == /\ stage \in {"null", "overrun", "crash"} => Cause
                 /\ stage = "overrun" => SameVariable

\* Until the exports are generated they are those of the configuration.
ExportsKept ==
  /\ stage \in {"link", "load", "generate"} => exports = program.exports
  /\ stage = "generate" => program.output
\* What is counted is counted with the parameters of libc there will be.
LibcCounted ==
  stage \in {"main_export", "lib_exports", "imports", "size"} \cup Encoding => params.libc = IF have_libc THEN LIBC ELSE 0
SizesCounted == stage \in Encoding => sizes = get_size
CountOK == ExportsKept /\ LibcCounted /\ SizesCounted /\ UsedCounted /\ FailsForCause

\* What is not counted is no cause.
LEMMA SameCause ==
  ASSUME UNCHANGED Counted
  PROVE  Cause' = Cause /\ SameVariable' = SameVariable /\ get_size' = get_size /\ have_libc' = have_libc
<1>1. UNCHANGED <<elf, fstubs, vstubs, exports, params, top, libs>> /\ UNCHANGED <<elf, top, sizes, exports>>
      BY DEF Counted
<1>2. SameVariable' = SameVariable /\ LostVariable' = LostVariable /\ get_size' = get_size /\ have_libc' = have_libc
      BY <1>1, SameCounted
<1>3. Base' = Base /\ total_size' = total_size /\ program' = program /\ segndx' = segndx
      BY <1>1 DEF Base, segment, start_offset, segndx, SegmentsOf, InSegment, program, total_size
<1>4. Blocked' = Blocked
      BY <1>3 DEF Blocked, Overlaps
<1> QED
    BY <1>1, <1>2, <1>3, <1>4 DEF Cause

\* A program that is loaded has no export but by its symbols, if it has no configuration.
LEMMA NothingExported ==
  ASSUME Shape, CountOK, vita_elf_generate_exports, stage' \in {"null", "overrun", "crash"}
  PROVE  stage' = "crash" /\ program'.output /\ exports'.libs = <<>>
<1>1. stage = "generate" /\ elf' = elf /\ stage' = "crash" /\ Others = {}
      BY DEF vita_elf_generate_exports, To
<1>2. program.output /\ exports = program.exports /\ ProgramOK(program)
      BY <1>1 DEF CountOK, ExportsKept, Shape, ProgramShape, program
<1>3. exports.libs = <<>> /\ "libs" \in DOMAIN exports
      BY <1>2 DEF ProgramOK
<1>4. WithLibc.libs = <<>> /\ "libs" \in DOMAIN WithLibc
      BY <1>3 DEF WithLibc
<1>5. "libs" \notin FoundPoints
      BY DEF FoundPoints, Own
<1>6. exports'.libs = WithLibc.libs
      BY <1>1, <1>3, <1>5 DEF vita_elf_generate_exports
<1> QED
    BY <1>1, <1>2, <1>4, <1>6 DEF program

\* At the end of the libraries each section is used up, unless a variable is there
\* twice or lost.
LEMMA EncodedCounts ==
  ASSUME Shape, ParamsOK, TabledOnce, UsedOK, CountOK, Encoded
  PROVE  stage' = "encoded" \/ (stage' = "null" /\ (SameVariable \/ LostVariable))
<1> DEFINE all == [used EXCEPT !["ModuleInfo"] = INFO + params.process + params.libc]
<1>1. /\ stage = "encode_imports" /\ i = Len(libs) /\ stage' = (IF all = sizes THEN "encoded" ELSE "null")
      BY DEF Encoded, To
<1>2. ImportsUsed /\ sizes = get_size /\ params.libc = (IF have_libc THEN LIBC ELSE 0)
      BY <1>1 DEF CountOK, UsedCounted, SizesCounted, LibcCounted, Encoding
<1> SUFFICES ASSUME ~ SameVariable, ~ LostVariable PROVE all = sizes
    BY <1>1
<1>3. /\ NatList(FunctionCounts) /\ Len(FunctionCounts) = Len(libs)
      /\ NatList(VariableCounts) /\ Len(VariableCounts) = Len(libs)
      /\ NatList(InfoWords) /\ DOMAIN InfoWords = DOMAIN vstubs
      BY CountLists
<1>4. MatchedBy(Len(libs)) = DOMAIN vstubs
  <2>1. \A n \in DOMAIN vstubs : \E l \in DOMAIN libs : \E v \in DOMAIN libs[l].variables : Matches(n, l, v)
        BY <1>1 DEF TabledOnce, Encoding
  <2>2. DOMAIN libs = 1 .. Len(libs)
        BY ListFacts DEF Shape, LibLists
  <2> QED
      BY <2>1, <2>2 DEF MatchedBy
<1>5. /\ Part(FunctionCounts, i) = SumOf(FunctionCounts) /\ Part(VariableCounts, i) = SumOf(VariableCounts)
      /\ SumIn(InfoWords, MatchedBy(i)) = SumOf(InfoWords)
  <2>1. Part(FunctionCounts, Len(FunctionCounts)) = SumOf(FunctionCounts) /\ Part(VariableCounts, Len(VariableCounts)) = SumOf(VariableCounts)
        BY <1>3, PartFacts
  <2>2. SumIn(InfoWords, DOMAIN InfoWords) = SumOf(InfoWords)
        BY <1>3, SumInFacts
  <2>3. MatchedBy(i) = DOMAIN InfoWords
        BY <1>1, <1>3, <1>4
  <2> QED
      BY <1>1, <1>3, <2>1, <2>2, <2>3
<1>6. DOMAIN used = SectionNames /\ DOMAIN get_size = SectionNames
      BY SizesAre DEF UsedOK
<1>7. /\ get_size["ModuleInfo"] = INFO + params.process + params.libc
      /\ get_size["Lib_stubs"] = IMPORT * Len(libs) /\ get_size["Import"] = Len(libs)
      /\ get_size["FNID"] = SumOf(FunctionCounts) /\ get_size["FStub"] = SumOf(FunctionCounts)
      /\ get_size["VNID"] = SumOf(VariableCounts) /\ get_size["VStub"] = SumOf(VariableCounts) + SumOf(InfoWords)
      BY <1>2, SizesAre
<1>8. /\ used["Lib_ent"] = sizes["Lib_ent"] /\ used["Export"] = sizes["Export"]
      /\ used["Lib_stubs"] = IMPORT * Len(libs) /\ used["Import"] = Len(libs)
      /\ used["FNID"] = SumOf(FunctionCounts) /\ used["FStub"] = SumOf(FunctionCounts)
      /\ used["VNID"] = SumOf(VariableCounts) /\ used["VStub"] = SumOf(VariableCounts) + SumOf(InfoWords)
      BY <1>1, <1>2, <1>5 DEF ImportsUsed
<1>9. DOMAIN all = SectionNames /\ all["ModuleInfo"] = INFO + params.process + params.libc
      /\ \A s \in SectionNames \ {"ModuleInfo"} : all[s] = used[s]
      BY <1>6 DEF SectionNames
<1>10. PICK g : g = get_size
       OBVIOUS
<1> HIDE DEF all
<1>11. \A s \in SectionNames : all[s] = g[s]
       BY <1>2, <1>7, <1>8, <1>9, <1>10 DEF SectionNames
<1>12. all = [s \in SectionNames |-> all[s]] /\ g = [s \in SectionNames |-> g[s]]
  <2>1. all = [s \in DOMAIN all |-> all[s]]
        BY DEF all
  <2>2. get_size = [s \in DOMAIN get_size |-> get_size[s]]
        BY DEF get_size
  <2> QED
      BY <1>6, <1>9, <1>10, <2>1, <2>2
<1> QED
    BY <1>2, <1>10, <1>11, <1>12

\* Where the exports end, nothing of the imports is used.
LEMMA ExportsCounted ==
  ASSUME Shape, UsedOK, CountOK, ExportsEncoded
  PROVE  ImportsUsed' /\ UNCHANGED Counted /\ stage' = "encode_imports"
<1>1. stage = "encode_exports" /\ i = Len(top.exports) /\ stage' = "encode_imports" /\ i' = 0 /\ used' = used /\ UNCHANGED Counted
      BY DEF ExportsEncoded, To, Counted
<1>2. ExportsUsed /\ sizes = get_size
      BY <1>1 DEF CountOK, UsedCounted, SizesCounted, Encoding
<1>3. /\ NatList(ExportWords) /\ Len(ExportWords) = Len(top.exports) /\ NatList(FunctionCounts) /\ NatList(VariableCounts)
      /\ NatList(InfoWords) /\ Len(libs) \in Nat
      BY CountLists
<1>4. Part(ExportWords, i) = SumOf(ExportWords)
      BY <1>1, <1>3, PartFacts
<1>5. Part(FunctionCounts, 0) = 0 /\ Part(VariableCounts, 0) = 0
      BY <1>3, PartFacts
<1>6. MatchedBy(0) = {} /\ SumIn(InfoWords, {}) = 0
      BY <1>3, SumInFacts DEF MatchedBy
<1>7. used["Lib_ent"] = sizes["Lib_ent"] /\ used["Export"] = sizes["Export"]
      BY <1>1, <1>2, <1>4, SizesAre DEF ExportsUsed
<1>8. \A s \in {"Lib_stubs", "Import", "FNID", "FStub", "VNID", "VStub"} : used[s] = 0
      BY <1>2 DEF ExportsUsed, SectionNames
<1>9. /\ libs' = libs /\ sizes' = sizes /\ FunctionCounts' = FunctionCounts /\ VariableCounts' = VariableCounts
      /\ InfoWords' = InfoWords
      BY <1>1, SameCounted DEF Counted
<1>10. MatchedBy(i)' = {}
       BY <1>1 DEF MatchedBy
<1>11. SumIn(InfoWords, MatchedBy(i))' = 0
       BY <1>6, <1>9, <1>10 DEF SumIn
<1>12. Part(FunctionCounts, i)' = 0 /\ Part(VariableCounts, i)' = 0
       BY <1>1, <1>5, <1>9
<1>13. i' <= Len(libs') /\ IMPORT * i' = 0
       BY <1>1, <1>3, <1>9 DEF IMPORT
<1>14. /\ used'["Lib_stubs"] = 0 /\ used'["Import"] = 0 /\ used'["FNID"] = 0 /\ used'["FStub"] = 0 /\ used'["VNID"] = 0 /\ used'["VStub"] = 0
       BY <1>1, <1>8
<1>15. used'["VStub"] = Part(VariableCounts', i') + SumIn(InfoWords', MatchedBy(i)')
       BY <1>11, <1>12, <1>14
<1> QED
    BY <1>1, <1>7, <1>9, <1>12, <1>13, <1>14, <1>15 DEF ImportsUsed

\* There are none at first.
LEMMA InitCounts == ImportsInit => CountOK
<1> SUFFICES ASSUME ImportsInit PROVE CountOK
    OBVIOUS
<1>1. PICK c \in Cases : InitWith(c.program, <<>>)
      BY DEF ImportsInit
<1>2. stage = "link" /\ exports = program.exports
  <2>1. elf.program = c.program
        BY <1>1 DEF InitWith
  <2> QED
      BY <1>1, <2>1 DEF InitWith, program
<1> QED
    BY <1>2 DEF CountOK, ExportsKept, LibcCounted, SizesCounted, UsedCounted, FailsForCause, Encoding

\* Each step of vita-elf-create.
LEMMA CreateCounts == ASSUME Pipeline, DataInv, OnceOK, CountOK, VitaElfCreate PROVE CountOK'
<1>1. /\ Shape /\ VariablesFound /\ ParamsOK /\ UsedOK /\ TabledOnce /\ i \in Nat
      /\ ExportsKept /\ LibcCounted /\ SizesCounted /\ UsedCounted /\ FailsForCause
      BY DEF Pipeline, Shape, DataInv, OnceOK, CountOK
<1> DEFINE Failing == {"null", "overrun", "crash"}
           First3 == {"link", "load", "generate"}
           Tabling == {"main_export", "lib_exports", "imports", "size"}
<1>2. CASE load_stubs \/ Loaded
  <2>1. stage = "load" /\ UNCHANGED <<elf, exports>> /\ stage' \in {"load", "generate", "params"}
        /\ (stage' = "generate" => program.output)
        BY <1>2 DEF load_stubs, Loaded, To, Again
  <2>2. exports' = program'.exports /\ (stage' = "generate" => program'.output)
        BY <1>1, <2>1 DEF ExportsKept, program
  <2>3. stage' \notin Failing /\ stage' \notin Tabling \cup Encoding
        BY <2>1 DEF Encoding
  <2> QED
      BY <2>2, <2>3 DEF CountOK, ExportsKept, LibcCounted, SizesCounted, UsedCounted, FailsForCause, Encoding
<1>3. CASE vita_elf_generate_exports
  <2>1. stage' \in {"crash", "params"}
        BY <1>3 DEF vita_elf_generate_exports, To
  <2>2. stage' \in Failing => program'.output /\ exports'.libs = <<>>
        BY <1>1, <1>3, NothingExported
  <2>3. FailsForCause'
        BY <2>1, <2>2 DEF FailsForCause, Cause
  <2> QED
      BY <2>1, <2>3 DEF CountOK, ExportsKept, LibcCounted, SizesCounted, UsedCounted, Encoding
<1>4. CASE sce_elf_module_params_create
  <2>1. stage = "params" /\ stage' \in {"failure", "main_export"} /\ UNCHANGED <<elf, exports>>
        BY <1>4 DEF sce_elf_module_params_create, To
  <2>2. have_libc' = have_libc
        BY <2>1 DEF have_libc, HasParam, Has, Named, program
  <2>3. stage' = "main_export" => params'.libc = IF have_libc THEN LIBC ELSE 0
    <3> SUFFICES ASSUME stage' = "main_export" PROVE params'.libc = IF have_libc THEN LIBC ELSE 0
        OBVIOUS
    <3>1. CASE HasParam
      <4>1. PICK p : params' = [process |-> p, libc |-> IF have_libc THEN LIBC ELSE 0]
            BY <1>4, <3>1 DEF sce_elf_module_params_create, To
      <4> QED
          BY <4>1
    <3>2. CASE ~ HasParam
      <4>1. params' = params
            BY <1>4, <3>2 DEF sce_elf_module_params_create, To
      <4>2. params.libc = 0
            BY <1>1, <2>1 DEF ParamsOK
      <4>3. ~ have_libc
            BY <3>2 DEF have_libc
      <4> QED
          BY <4>1, <4>2, <4>3
    <3> QED
        BY <3>1, <3>2
  <2>4. LibcCounted'
        BY <2>1, <2>2, <2>3 DEF LibcCounted, Encoding
  <2> QED
      BY <2>1, <2>4 DEF CountOK, ExportsKept, SizesCounted, UsedCounted, FailsForCause, Encoding
<1>5. CASE set_main_module_export \/ set_module_export \/ ExportsDone \/ InsertFunction \/ InsertVariable \/ ImportsDone
  <2>1. stage \in Tabling /\ stage' \in Tabling \cup {"failure"} /\ UNCHANGED <<elf, exports, params>>
    <3>1. CASE set_main_module_export \/ set_module_export \/ ExportsDone
          BY <3>1 DEF set_main_module_export, set_module_export, ExportsDone, To, Again
    <3>2. CASE InsertFunction \/ InsertVariable \/ ImportsDone
          BY <3>2 DEF InsertFunction, InsertVariable, ImportsDone, To, Again
    <3> QED
        BY <1>5, <3>1, <3>2
  <2>2. have_libc' = have_libc
        BY <2>1 DEF have_libc, HasParam, Has, Named, program
  <2>3. LibcCounted'
        BY <1>1, <2>1, <2>2 DEF LibcCounted, Encoding
  <2> QED
      BY <2>1, <2>3 DEF CountOK, ExportsKept, SizesCounted, UsedCounted, FailsForCause, Encoding
<1>6. CASE Sized
  <2>1. stage = "size" /\ stage' = "place" /\ sizes' = get_size /\ UNCHANGED <<elf, fstubs, vstubs, exports, params, top, libs>>
        BY <1>6 DEF Sized, To
  <2>2. have_libc' = have_libc /\ get_size' = get_size
        BY <2>1, SameCounted
  <2> QED
      BY <1>1, <2>1, <2>2 DEF CountOK, ExportsKept, LibcCounted, SizesCounted, UsedCounted, FailsForCause, Encoding
<1>7. CASE Place
  <2>1. stage = "place" /\ UNCHANGED Counted /\ stage' \in {"null", "crash", "encode_info"} /\ (stage' \in Failing => Blocked)
    <3>1. stage = "place" /\ UNCHANGED Counted
          BY <1>7 DEF Place, Counted
    <3>2. CASE Blocked
      <4>1. To("null") \/ To("crash")
            BY <1>7, <3>2 DEF Place, Blocked
      <4> QED
          BY <3>1, <3>2, <4>1 DEF To
    <3>3. CASE ~ Blocked
      <4>1. To("encode_info")
            BY <1>7, <3>3 DEF Place, Blocked
      <4> QED
          BY <3>1, <4>1 DEF To
    <3> QED
        BY <3>2, <3>3
  <2>2. Cause' = Cause /\ get_size' = get_size /\ have_libc' = have_libc /\ UNCHANGED <<params, sizes, exports>>
        BY <2>1, SameCause DEF Counted
  <2>3. sizes # NoWords
    <3>1. sizes["ModuleInfo"] >= INFO /\ NoWords["ModuleInfo"] = 0
          BY <1>1, <2>1, SectionFacts DEF Shape, InfoCounted, Encoding, NoWords, SectionNames
    <3> QED
        BY <3>1 DEF INFO
  <2>4. stage' \in Failing => Cause'
        BY <2>1, <2>2, <2>3 DEF Cause
  <2> QED
      BY <1>1, <2>1, <2>2, <2>4 DEF CountOK, ExportsKept, LibcCounted, SizesCounted, UsedCounted, FailsForCause, Encoding
<1>8. CASE EncodeInfo
  <2>1. stage = "encode_info" /\ stage' = "encode_exports" /\ i' = 0 /\ used' = used /\ UNCHANGED Counted
        BY <1>8 DEF EncodeInfo, To, Counted
  <2>2. get_size' = get_size /\ have_libc' = have_libc /\ UNCHANGED <<params, sizes, top>>
        BY <2>1, SameCause DEF Counted
  <2>3. used = NoWords
        BY <1>1, <2>1 DEF UsedOK
  <2>4. \A s \in SectionNames : used[s] = 0
        BY <2>3, SectionFacts DEF NoWords
  <2>5. NatList(ExportWords) /\ Len(top.exports) \in Nat
        BY <1>1, CountLists
  <2>6. Part(ExportWords, 0) = 0
        BY <2>5, PartFacts
  <2>7. ExportWords' = ExportWords
        BY <2>1, SameCounted DEF Counted
  <2>8. Part(ExportWords', i') = 0
        BY <2>1, <2>6, <2>7
  <2>9. used'["Lib_ent"] = 0 /\ used'["Export"] = 0 /\ \A s \in SectionNames \ {"Lib_ent", "Export"} : used'[s] = 0
        BY <2>1, <2>4 DEF SectionNames
  <2>10. i' <= Len(top'.exports) /\ EXPORT * i' = 0
        BY <2>1, <2>2, <2>5 DEF EXPORT
  <2>11. ExportsUsed'
        BY <2>8, <2>9, <2>10 DEF ExportsUsed
  <2> QED
      BY <1>1, <2>1, <2>2, <2>11 DEF CountOK, ExportsKept, LibcCounted, SizesCounted, UsedCounted, FailsForCause, Encoding
<1>9. CASE EncodeExport
  <2>1. stage = "encode_exports"
        BY <1>9 DEF EncodeExport
  <2>2. sizes = get_size
        BY <1>1, <2>1 DEF SizesCounted, Encoding
  <2>3. stage' = "encode_exports" /\ ExportsUsed' /\ UNCHANGED Counted
        BY <1>1, <1>9, <2>2, ExportCounts
  <2>4. get_size' = get_size /\ have_libc' = have_libc /\ UNCHANGED <<params, sizes>>
        BY <2>3, SameCause DEF Counted
  <2> QED
      BY <1>1, <2>1, <2>3, <2>4 DEF CountOK, ExportsKept, LibcCounted, SizesCounted, UsedCounted, FailsForCause, Encoding
<1>10. CASE ExportsEncoded
  <2>1. stage = "encode_exports"
        BY <1>10 DEF ExportsEncoded
  <2>2. ImportsUsed' /\ UNCHANGED Counted /\ stage' = "encode_imports"
        BY <1>1, <1>10, ExportsCounted
  <2>3. get_size' = get_size /\ have_libc' = have_libc /\ UNCHANGED <<params, sizes>>
        BY <2>2, SameCause DEF Counted
  <2> QED
      BY <1>1, <2>1, <2>2, <2>3 DEF CountOK, ExportsKept, LibcCounted, SizesCounted, UsedCounted, FailsForCause, Encoding
<1>11. CASE EncodeImport
  <2>1. stage = "encode_imports"
        BY <1>11 DEF EncodeImport
  <2>2. sizes = get_size
        BY <1>1, <2>1 DEF SizesCounted, Encoding
  <2>3. UNCHANGED Counted /\ ((stage' = "overrun" /\ SameVariable) \/ (stage' = "encode_imports" /\ ImportsUsed'))
        BY <1>1, <1>11, <2>2, ImportCounts
  <2>4. Cause' = Cause /\ SameVariable' = SameVariable /\ get_size' = get_size /\ have_libc' = have_libc /\ UNCHANGED <<params, sizes>>
        BY <2>3, SameCause DEF Counted
  <2>5. CASE stage' = "overrun" /\ SameVariable
    <3>1. Cause' /\ SameVariable'
          BY <2>4, <2>5 DEF Cause
    <3> QED
        BY <2>5, <3>1 DEF CountOK, ExportsKept, LibcCounted, SizesCounted, UsedCounted, FailsForCause, Encoding
  <2>6. CASE stage' = "encode_imports" /\ ImportsUsed'
        BY <1>1, <2>1, <2>4, <2>6 DEF CountOK, ExportsKept, LibcCounted, SizesCounted, UsedCounted, FailsForCause, Encoding
  <2> QED
      BY <2>3, <2>5, <2>6
<1>12. CASE Encoded
  <2>1. stage = "encode_imports" /\ UNCHANGED Counted
        BY <1>12 DEF Encoded, Counted
  <2>2. stage' = "encoded" \/ (stage' = "null" /\ (SameVariable \/ LostVariable))
        BY <1>1, <1>12, EncodedCounts
  <2>3. Cause' = Cause /\ get_size' = get_size /\ have_libc' = have_libc /\ UNCHANGED <<params, sizes>>
        BY <2>1, SameCause DEF Counted
  <2>4. stage' \in Failing => stage' = "null" /\ Cause'
        BY <2>2, <2>3 DEF Cause
  <2> QED
      BY <1>1, <2>1, <2>2, <2>3, <2>4 DEF CountOK, ExportsKept, LibcCounted, SizesCounted, UsedCounted, FailsForCause, Encoding
<1> QED
    BY <1>2, <1>3, <1>4, <1>5, <1>6, <1>7, <1>8, <1>9, <1>10, <1>11, <1>12 DEF VitaElfCreate

\* Every step of every program keeps it.
LEMMA NextCounts == ASSUME Pipeline, DataInv, OnceOK, CountOK, [ImportsNext]_allvars PROVE CountOK'
<1>1. ExportsKept /\ LibcCounted /\ SizesCounted /\ UsedCounted /\ FailsForCause /\ Shape /\ i \in Nat
      BY DEF CountOK, Pipeline, Shape
<1>2. CASE Generate \/ (Terminated /\ UNCHANGED allvars) \/ UNCHANGED allvars
  <2>1. UNCHANGED <<stage, i, used>> /\ UNCHANGED Counted
        BY <1>2 DEF Generate, allvars, state, Counted
  <2>2. Cause' = Cause /\ SameVariable' = SameVariable /\ get_size' = get_size /\ have_libc' = have_libc
        /\ UNCHANGED <<elf, exports, params, sizes, top, libs>>
        BY <2>1, SameCause DEF Counted
  <2>3. /\ ExportWords' = ExportWords /\ FunctionCounts' = FunctionCounts
        /\ VariableCounts' = VariableCounts /\ InfoWords' = InfoWords /\ MatchedBy(i)' = MatchedBy(i)
    <3>1. UNCHANGED <<elf, fstubs, vstubs, exports, params, top, libs>> /\ UNCHANGED <<i, libs, vstubs>>
          BY <2>1 DEF Counted
    <3> QED
        BY <3>1, SameCounted DEF MatchedBy, Matches
  <2>4. UsedCounted'
        BY <1>1, <2>1, <2>2, <2>3 DEF UsedCounted, ExportsUsed, ImportsUsed
  <2> QED
      BY <1>1, <2>1, <2>2, <2>4 DEF CountOK, ExportsKept, LibcCounted, SizesCounted, FailsForCause, program
<1>3. CASE Link
  <2>1. stage = "link" /\ stage' = "load" /\ exports' = exports
        BY <1>3 DEF Link
  <2>2. program' = program
    <3>1. PICK s : elf' = [elf EXCEPT !.sections = s]
          BY <1>3 DEF Link
    <3> QED
        BY <1>1, <3>1 DEF Shape, ProgramShape, program
  <2> QED
      BY <1>1, <2>1, <2>2 DEF CountOK, ExportsKept, LibcCounted, SizesCounted, UsedCounted, FailsForCause, Encoding
<1>4. CASE Create
  <2>1. CASE VitaElfCreate
        BY <2>1, CreateCounts
  <2>2. CASE Written \/ VitaMakeFself
    <3>1. /\ stage' \in Writing \cup {"failure", "crash"} /\ UNCHANGED Counters /\ (stage' = "crash" => stage = "null")
          BY <1>1, <2>2, WrittenStages
    <3>2. UNCHANGED Counted
          BY <3>1 DEF Counters, Counted
    <3>3. Cause' = Cause
          BY <3>2, SameCause
    <3>4. stage' \notin {"link", "load", "generate", "main_export", "lib_exports", "imports", "size", "null", "overrun"} \cup Encoding
          BY <3>1 DEF Encoding, Writing, Creating, Unpacked, Finished
    <3>5. FailsForCause'
          BY <1>1, <3>1, <3>3, <3>4 DEF FailsForCause
    <3> QED
        BY <3>4, <3>5 DEF CountOK, ExportsKept, LibcCounted, SizesCounted, UsedCounted, Encoding
  <2> QED
      BY <1>4, <2>1, <2>2 DEF Create
<1> QED
    BY <1>2, <1>3, <1>4 DEF ImportsNext

\* The encoding of the module info fails, or writes behind its data, only if a segment is
\* in the way, a variable is imported twice or lost, or there is nothing to export: what
\* sce_elf_module_info_get_size() counts is what is encoded.
THEOREM EncodingCounted == ImportsSpec => []EncodingFailsForCause
<1> DEFINE Inv == Pipeline /\ ReadOK /\ NidsOK /\ SortedOK /\ DataInv /\ OnceOK /\ CountOK
<1>1. ImportsInit => Inv
      BY InitPipeline, InitRead, InitNids, InitSorted, InitData, InitOnce, InitCounts
<1>2. Inv /\ [ImportsNext]_allvars => Inv'
      BY NextPipeline, NextRead, NextNids, NextSorted, NextData, NextOnce, NextCounts
<1>3. Inv => EncodingFailsForCause
      BY DEF CountOK, FailsForCause, Cause, Blocked, EncodingFailsForCause
<1> QED
    BY <1>1, <1>2, <1>3, PTL DEF ImportsSpec
=============================================================================
