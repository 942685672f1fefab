------------------------------- MODULE Output -------------------------------
(***************************************************************************)
(* vita-elf-create, from the encoded module info to the file on the disk:  *)
(* copying the ELF, making room in it and adding sections (elf-utils.c,    *)
(* the layout part of sce-elf.c), writing it, and packing it through a     *)
(* temporary file (vita-elf-create.c).                                     *)
(*                                                                         *)
(* A file is its headers: where each section and segment is in it.  What a *)
(* section holds is its id: <<"elf", n>> and <<"vstub", n>> are sections   *)
(* of the linked ELF, <<"info", n>> is the n-th of the module info.        *)
(***************************************************************************)
EXTENDS ModuleInfo

VARIABLES dest,    \* headers of the ELF being written: sections, segments, shoff, entry
          disk,    \* what there is in the output file, in the temporary one and in the SELF:
                   \* "none", "partial" when it is not closed yet, "lost" when it was closed
                   \* without the end of what was written, or whole "elf", "packed", "self"
          packed   \* p_offset of the segments packed so far, and where to go on

output_vars == <<dest, disk, packed>>

\* Sizes of the ELF header, a program header, a section header and a Elf32_Rela.
EHDR == 52
PHDR == 32
SHDR == 40
RELA == 12

\* The linked ELF as a file: its segments in the order of the program headers (those
\* that are loaded), the sections in them or in none (0), in the order of the file,
\* the number of relocations that are written, and the options: vita-elf-create's -s,
\* whether vita-make-fself is run as well and its -c and --self_type 0xB.
Options == {"packed", "self", "compressed", "security"}
FileOK(p) ==
  /\ p.file.segments \in [DOMAIN p.segments -> [offset : Nat, filesz : Nat, align : Nat]]
  /\ Len(p.segments) <= 4
  /\ p.file.sections \in Seq([segment : 0 .. Len(p.segments), offset : Nat, size : Nat, nobits : BOOLEAN])
  /\ p.file.sections # <<>> /\ p.file.relas \in Nat /\ p.file.options \subseteq Options
  /\ \A n \in DOMAIN p.file.sections :
       LET s == p.file.sections[n]
       IN /\ s.offset >= EHDR + PHDR * Len(p.segments)
          /\ \A m \in 1 .. n - 1 : p.file.sections[m].nobits \/ p.file.sections[m].offset + p.file.sections[m].size <= s.offset
          /\ s.segment # 0 /\ ~ s.nobits =>
               /\ p.file.segments[s.segment].offset <= s.offset
               /\ s.offset + s.size <= p.file.segments[s.segment].offset + p.file.segments[s.segment].filesz
  /\ \A n \in DOMAIN p.segments : p.file.segments[n].filesz <= p.segments[n].memsz

OutputInit ==
  /\ dest = <<>>
  /\ disk = [name \in {"velf", "tmp", "self"} |-> "none"]
  /\ packed = [offsets |-> <<>>, next |-> 0]

----------------------------------------------------------------------------
(* elf-utils.c                                                              *)

InFile(s) == IF s.nobits THEN 0 ELSE s.size
Bottom(sections) == Max({s.offset + InFile(s) : s \in ToSet(sections)})

NewSection(id, offset, size) == [segment |-> 0, offset |-> offset, size |-> size, nobits |-> FALSE, id |-> id]

\* The linker puts the sections of variable stubs, .shstrtab and the header table
\* behind everything else.
LinkedSections ==
  LET vstubs_in == Select(elf.sections, {n \in DOMAIN elf.sections : elf.sections[n].type = "variable"})
      size == [n \in DOMAIN vstubs_in |-> 16 * Len(vstubs_in[n].stubs)]
      at(n) == AlignUp(Bottom(program.file.sections)) + SumOf(SubSeq(size, 1, n - 1))
  IN [n \in DOMAIN program.file.sections |-> program.file.sections[n] ++ [id |-> <<"elf", n>>]] \o
     [n \in DOMAIN size |-> NewSection(<<"vstub", n>>, at(n), size[n])] \o
     <<NewSection(<<"shstrtab", 0>>, at(Len(size) + 1), 60)>>

\* elf_utils_copy() and elf_utils_copy_to_file(): the file is empty from here on.
\* When encoding has failed main() goes on, but there is nothing to be written.
elf_utils_copy_to_file ==
  /\ stage \in {"encoded", "null"}
  /\ \/ /\ disk' = [disk EXCEPT !["velf"] = "partial"]
        /\ dest' = [sections |-> LinkedSections,
                    segments |-> [n \in DOMAIN program.segments |-> program.segments[n] ++ program.file.segments[n]],
                    shoff |-> AlignUp(Last(LinkedSections).offset + Last(LinkedSections).size), entry |-> <<>>]
        /\ IF stage = "encoded" THEN To("write_info") ELSE To("failure") \/ To("crash")
     \/ To("failure") /\ UNCHANGED <<dest, disk>>
  /\ UNCHANGED packed

\* Mutant: what is right at the start stays.
Shifted_Behind(offset, start, amount) == IF offset > start THEN offset + amount ELSE offset

Shifted(offset, start, amount) == IF offset >= start THEN offset + amount ELSE offset

\* The header table is raised to the end of the sections if it was not moved as well.
elf_utils_shift_contents(d, start, amount) ==
  LET at(s) == Shifted(s.offset, start, amount)
      ends == {at(s) + InFile(s) : s \in ToSet(d.sections)}
      shoff == Shifted(d.shoff, start, amount)
  IN [d EXCEPT !.sections = [n \in DOMAIN @ |-> [@[n] EXCEPT !.offset = at(d.sections[n])]],
               !.segments = [n \in DOMAIN @ |-> [@[n] EXCEPT !.offset = at(d.segments[n])]],
               !.shoff = IF \A end \in ends : end <= shoff THEN shoff ELSE Max(ends)]

\* The name of a section is put at the end of .shstrtab; the caller says where it is.
elf_utils_new_scn_with_name(d, namelen, section) ==
  LET n == CHOOSE n \in DOMAIN d.sections : d.sections[n].id[1] = "shstrtab"
      shifted == elf_utils_shift_contents(d, d.sections[n].offset + d.sections[n].size, namelen)
      size == d.sections[n].size + namelen
  IN [shifted EXCEPT !.sections = Append([shifted.sections EXCEPT ![n].size = size], section)]

\* The rest of elf_utils_new_scn_with_data(), for the section added last: its data are
\* put where the header table was, which moves behind them.
DataOffset(d) == ((d.shoff + 16) \div 16) * 16
WithData(d, size) ==
  [elf_utils_shift_contents(d, d.shoff, size + 16) EXCEPT
     !.sections[Len(d.sections)].offset = DataOffset(d), !.sections[Len(d.sections)].size = size]

----------------------------------------------------------------------------
(* sce-elf.c                                                                *)

\* Lengths of the names of the sections, ".sceModuleInfo.rodata" and so on.
NameLength == <<22, 12, 18, 14, 18, 16, 17, 16, 17>>
RelNameLength == 9

\* The data follow the segment that has the entry point, in memory and in the file;
\* e_entry says which and where.
EntrySegments == SegmentsOf(program.entry)
EntryOffset == AlignUp(program.segments[First(EntrySegments)].memsz)
start_foffset == program.file.segments[First(EntrySegments)].offset + EntryOffset
sce_elf_write_module_info ==
  /\ stage = "write_info"
  /\ IF EntrySegments = {} THEN To("failure") /\ UNCHANGED dest
     ELSE LET g == First(EntrySegments)
              total == 4 * total_size + EntryOffset - program.segments[g].memsz
          IN /\ dest' = [elf_utils_shift_contents(dest, start_foffset, total) EXCEPT
                           !.segments[g].filesz = @ + total, !.segments[g].memsz = @ + total,
                           !.entry = [segment |-> (g - 1) % 4, offset |-> EntryOffset]]
             /\ To("write_sections")
  /\ UNCHANGED <<disk, packed>>

\* The sections, but not the empty ones.
OffsetIn(n) == 4 * Total(LAMBDA b : sizes[b], Before(Sections[n]))
WriteSection ==
  /\ stage = "write_sections" /\ i < Len(Sections)
  /\ LET n == i + 1
         size == 4 * sizes[Sections[n]]
     IN dest' = IF size = 0 THEN dest
                ELSE elf_utils_new_scn_with_name(dest, NameLength[n], NewSection(<<"info", n>>, start_foffset + OffsetIn(n), size))
  /\ IF i + 1 < Len(Sections) THEN Again ELSE To("write_relas")
  /\ UNCHANGED <<disk, packed>>

\* Of what the module info has to be relocated, what points into a segment: those of
\* the ELF, and the module info.
InSegments(a) == \E n \in DOMAIN dest.segments : dest.segments[n].vaddr <= a /\ a < dest.segments[n].vaddr + dest.segments[n].memsz
RelaSize == RELA * (program.file.relas + Cardinality({r \in relas : InSegments(r.addend)}))

\* The section .sce.rel is named, and filled, with a segment for it.
AddRelaSection ==
  /\ stage = "write_relas"
  /\ dest' = elf_utils_new_scn_with_name(dest, RelNameLength, NewSection(<<"rel", 0>>, 0, 0))
  /\ To("fill_relas")
  /\ UNCHANGED <<disk, packed>>

sce_elf_write_rela_sections ==
  /\ stage = "fill_relas"
  /\ dest' = [WithData(dest, RelaSize) EXCEPT
                !.segments = Append(@, [vaddr |-> 0, memsz |-> 0, offset |-> DataOffset(dest), filesz |-> RelaSize, align |-> 16])]
  /\ To("rewrite")
  /\ UNCHANGED <<disk, packed>>

\* The sections of variable stubs go, and leave a hole.
sce_elf_rewrite_stubs ==
  /\ stage = "rewrite"
  /\ dest' = [dest EXCEPT !.sections = Select(@, {n \in DOMAIN @ : @[n].id[1] # "vstub"})]
  /\ To("update")
  /\ UNCHANGED <<disk, packed>>

\* elf_update() and sce_elf_set_headers(), which fail with the file half written, and
\* fclose(): only now is it of the type the system takes.  Nobody looks at what fclose()
\* returns, and when the buffer of the stream cannot be written, that type is lost.
elf_update ==
  /\ stage = "update"
  /\ \/ \E left \in {"elf", "lost"} : disk' = [disk EXCEPT !["velf"] = left]
        /\ To(IF "packed" \in program.file.options THEN "pack" ELSE "done")
     \/ To("failure") /\ UNCHANGED disk
  /\ UNCHANGED <<dest, packed>>

----------------------------------------------------------------------------
(* vita_elf_packing()                                                       *)

\* Mutant: the output is packed where it is.
Temporary_None == "velf"

Temporary == "tmp"

HeaderSize == EHDR + PHDR * Len(dest.segments)

\* The temporary file is opened, and the headers written with the old offsets.  What is
\* made of an ELF without its type has none either.
vita_elf_packing ==
  /\ stage = "pack"
  /\ disk' = [disk EXCEPT ![Temporary] = IF disk["velf"] = "lost" THEN "lost" ELSE "partial"]
  /\ packed' = [offsets |-> <<>>, next |-> HeaderSize]
  /\ To("pack_segments")
  /\ UNCHANGED dest

\* An alignment above 0x1000 becomes 0x10; without alignment everything is at 0.
Align(align) == IF align > 4096 THEN 16 ELSE align
Aligned(offset, align) == IF align = 0 THEN 0 ELSE ((offset + align - 1) \div align) * align

\* Mutant: the next segment is put over this one.
Behind_Nothing(offset, filesz) == offset

Behind(offset, filesz) == offset + filesz

PackSegment ==
  /\ stage = "pack_segments" /\ i < Len(dest.segments)
  /\ LET phdr == dest.segments[i + 1]
         offset == Aligned(packed.next, Align(phdr.align))
     IN packed' = [offsets |-> Append(packed.offsets, offset), next |-> Behind(offset, phdr.filesz)]
  /\ Again
  /\ UNCHANGED <<dest, disk>>

\* The headers are written once more, and stay in the buffer of the stream.
PackHeaders ==
  /\ stage = "pack_segments" /\ i = Len(dest.segments)
  /\ To("remove")
  /\ UNCHANGED output_vars

\* Opening, reading and writing may fail, which main() does not look at.
PackingFails ==
  /\ stage \in {"pack", "pack_segments"}
  /\ To("done")
  /\ UNCHANGED output_vars

\* Nobody looks at what these return either.  A file that could not be removed is
\* replaced, on systems where rename() does that; without rename() the packed file keeps
\* its temporary name.
remove ==
  /\ stage = "remove"
  /\ disk' \in {disk, [disk EXCEPT !["velf"] = "none"]}
  /\ To("rename")
  /\ UNCHANGED <<dest, packed>>

rename ==
  /\ stage = "rename"
  /\ disk' \in {disk, [disk EXCEPT !["velf"] = disk[Temporary], !["tmp"] = "none"]}
  /\ To("fclose")
  /\ UNCHANGED <<dest, packed>>

\* The stream of the packed file, under whichever name, is closed.  What its buffer had
\* is lost if that cannot be written, here or in one of the fseek() before.
fclose ==
  /\ stage = "fclose"
  /\ LET name == IF disk["tmp"] = "none" THEN "velf" ELSE "tmp"
     IN \E left \in {"packed", "lost"} :
          disk' = [disk EXCEPT ![name] = IF @ = "lost" THEN "lost" ELSE left]
  /\ To("done")
  /\ UNCHANGED <<dest, packed>>

Written ==
  /\ \/ elf_utils_copy_to_file \/ sce_elf_write_module_info \/ WriteSection \/ AddRelaSection \/ sce_elf_write_rela_sections
     \/ sce_elf_rewrite_stubs \/ elf_update
     \/ vita_elf_packing \/ PackSegment \/ PackHeaders \/ PackingFails \/ remove \/ rename \/ fclose
  /\ UNCHANGED <<elf, fstubs, vstubs, exports, params, top, libs, sizes, data, used, addrs, relas>>

Failed == stage \in {"overrun", "crash", "failure"}
----------------------------------------------------------------------------
(* Properties.                                                              *)

\* What is written where: the headers, and the sections.
Ranges ==
  <<<<0, EHDR>>, <<EHDR, HeaderSize>>, <<dest.shoff, dest.shoff + SHDR * (Len(dest.sections) + 1)>>>> \o
  [n \in DOMAIN dest.sections |-> <<dest.sections[n].offset, dest.sections[n].offset + InFile(dest.sections[n])>>]
Overwritten(r, s) == r[1] < r[2] /\ s[1] < s[2] /\ r[1] < s[2] /\ s[1] < r[2]

\* The segment the info is encoded for has the entry point, is whole in the file, and
\* no contents start in its padding; there is room for one more program header.
Regular ==
  LET phdr == program.file.segments[segndx]
      end == phdr.offset + phdr.filesz
  IN /\ EntrySegments # {} /\ segndx = First(EntrySegments)
     /\ phdr.filesz = program.segments[segndx].memsz
     /\ \A s \in ToSet(LinkedSections) :
          InFile(s) # 0 => s.offset \notin end .. phdr.offset + AlignUp(phdr.filesz) - 1
     /\ \A n \in DOMAIN program.file.sections : program.file.sections[n].offset >= EHDR + PHDR * (Len(program.segments) + 1)

\* That segment ends with a section, as linkers leave it, and no other one, which would
\* not be moved with what is in it, lies across its end.
EndsWithSection ==
  LET phdr == program.file.segments[segndx]
      end == phdr.offset + phdr.filesz
  IN /\ \E s \in ToSet(program.file.sections) : s.segment = segndx /\ InFile(s) # 0 /\ s.offset + s.size = end
     /\ \A n \in DOMAIN program.segments \ {segndx} :
          LET other == program.file.segments[n]
          IN other.offset < phdr.offset + AlignUp(phdr.filesz) => other.offset + other.filesz <= end

\* There is a section of an id at an offset of a segment, and the segment has it all.
Holds(g, id, at) ==
  \E s \in ToSet(dest.sections) :
    s.id = id /\ s.offset = dest.segments[g].offset + at /\ at + InFile(s) <= dest.segments[g].filesz

\* From the ELF that is written the system loads what each section has to its address, finds
\* the module info where the entry point says it is and at the address for which
\* it was encoded, and the relocations; nothing in the file is written over, nor do
\* the segments meet in memory (elf-utils.c:136-257, sce-elf.c:1083-1140, 1297-1311).
FileLoads ==
  disk["velf"] = "elf" /\ Regular /\ EndsWithSection =>
    /\ \A m, n \in DOMAIN Ranges : m # n => ~ Overwritten(Ranges[m], Ranges[n])
    /\ \A n \in DOMAIN program.file.sections :
         LET s == program.file.sections[n]
         IN s.segment # 0 /\ InFile(s) # 0 => Holds(s.segment, <<"elf", n>>, s.offset - program.file.segments[s.segment].offset)
    /\ LET g == dest.entry.segment + 1
       IN /\ dest.segments[g].vaddr + dest.entry.offset = Base
          /\ \A n \in DOMAIN Sections : sizes[Sections[n]] # 0 =>
               Holds(g, <<"info", n>>, dest.entry.offset + OffsetIn(n))
    /\ Holds(Len(dest.segments), <<"rel", 0>>, 0)
    /\ Apart => \A m, n \in DOMAIN program.segments :
         m # n => ~ Meets(dest.segments[m], dest.segments[n].vaddr, dest.segments[n].vaddr + dest.segments[n].memsz)

\* The packed file has each segment where its header says, aligned, and none is
\* written over by another or by the headers, which are written last; unless a
\* segment has no alignment (vita-elf-create.c:209-250).
PackedLoads ==
  "packed" \in {disk["velf"], disk["tmp"]} /\ (\A n \in DOMAIN dest.segments : dest.segments[n].align # 0) =>
    LET range(n) == <<packed.offsets[n], packed.offsets[n] + dest.segments[n].filesz>>
    IN \A n \in DOMAIN dest.segments :
         /\ packed.offsets[n] % Align(dest.segments[n].align) = 0
         /\ ~ Overwritten(range(n), <<0, HeaderSize>>)
         /\ \A m \in DOMAIN dest.segments \ {n} : ~ Overwritten(range(n), range(m))

\* The program, whole, under the name of the output or the temporary one; or what it was
\* closed with is lost.
Remains == disk["velf"] \in {"elf", "packed"} \/ (disk["velf"] = "none" /\ disk["tmp"] = "packed")
DataLost == "lost" \in {disk["velf"], disk["tmp"]}

\* main() ends with status 0 also without a whole file under the name of the output, but
\* only when fclose() has lost the end of it, or rename() has failed and it is there under
\* the temporary name.  While packing, whatever call fails and wherever the program is
\* stopped, the ELF is there as it was written; but not between removing it and closing
\* what takes its place (vita-elf-create.c:206-264, 665-676).
ElfSurvives ==
  /\ stage = "done" => Remains \/ DataLost
  /\ packed.next # 0 /\ ~ Remains /\ ~ DataLost => stage \in {"rename", "fclose"}
  /\ "packed" \in {disk["velf"], disk["tmp"]} => Len(packed.offsets) = Len(dest.segments)
  /\ disk["velf"] = "packed" => disk["tmp"] = "none"
=============================================================================
