----------------------------- MODULE MakeFself ------------------------------
(***************************************************************************)
(* vita-make-fself (vita-make-fself.c), run on what vita-elf-create has    *)
(* left: the ELF, packed or not, is read as a whole, its module info gets  *)
(* a NID, and its segments are put behind a header area of a fixed size.   *)
(***************************************************************************)
EXTENDS Output

VARIABLE self  \* where the NID was written to, ftell(fout) and the segment infos

fself_vars == <<output_vars, self>>

FselfInit == self = [nid |-> 0, at |-> 0, infos |-> <<>>]

Selected(option) == option \in program.file.options

\* The program headers that are read, those of the packed file if there is one.
InputOffset(n) == IF disk["velf"] = "packed" THEN packed.offsets[n] ELSE dest.segments[n].offset

\* An error is reported as such, with the output as far as it was written.
Error == To("error") /\ UNCHANGED self

\* The ELF is read, and hashed, and the NID is put where e_entry has the module info.
ReadInput ==
  /\ stage = "done" /\ Selected("self")
  /\ \/ disk["velf"] \in {"elf", "packed"}
        /\ self' = [self EXCEPT !.nid = InputOffset(dest.entry.segment + 1) + dest.entry.offset] /\ To("headers")
     \/ Error
  /\ UNCHANGED output_vars

\* An ELF that has lost something is not checked: a SELF is made of what its headers say,
\* behind the end of the file too, up to whatever step of that fails or ends the program.
ReadLost ==
  /\ stage = "done" /\ Selected("self") /\ disk["velf"] = "lost"
  /\ \/ disk' = [disk EXCEPT !["self"] = "lost"] /\ To("fself")
     \/ disk' \in {disk, [disk EXCEPT !["self"] = "partial"]} /\ (To("error") \/ To("killed"))
  /\ UNCHANGED <<dest, packed, self>>

\* Sizes of SCE_header, SCE_appinfo, segment_info, SCE_version, and of all the control
\* infos; a module of the security processor has less of them and a smaller area.
SCE_HEADER == 128
SCE_APPINFO == 32
SEGMENT_INFO == 32
SCE_VERSION == 16
SCE_CONTROLINFO == IF Selected("security") THEN 432 ELSE 704
HEADER_LEN == IF Selected("security") THEN 2048 ELSE 4096

phnum == Len(dest.segments)
elf_offset == SCE_HEADER + SCE_APPINFO
phdr_offset == ((elf_offset + EHDR + 15) \div 16) * 16
section_info_offset == phdr_offset + PHDR * phnum
sceversion_offset == section_info_offset + SEGMENT_INFO * phnum
controlinfo_offset == sceversion_offset + SCE_VERSION

\* Everything in front of the segments, but for SCE_header; the infos are zero.
WriteHeaders ==
  /\ stage = "headers"
  /\ \/ disk' = [disk EXCEPT !["self"] = "partial"] /\ self' = [self EXCEPT !.at = HEADER_LEN] /\ To("segments")
     \/ disk' \in {disk, [disk EXCEPT !["self"] = "partial"]} /\ Error
  /\ UNCHANGED <<dest, packed>>

\* Mutant: the padding is not made up for.
BehindInfo_Unpadded(offset, length) == offset + length

\* Where the next segment is put, SEGMENT_ALIGNMENT.
BehindInfo(offset, length) == ((offset + length + 15) \div 16) * 16

\* A segment takes what it has in the file, or compressed another size, at most
\* 2 * p_filesz + 12 and never 0.  Writing 0 bytes is an error.
Lengths(filesz) == IF Selected("compressed") THEN {filesz \div 2 + 9, filesz + 11} ELSE {filesz}

WriteSegment ==
  /\ stage = "segments" /\ i < phnum
  /\ \/ \E length \in Lengths(dest.segments[i + 1].filesz) :
          LET padded == AlignUp(length)
          IN /\ length # 0
             /\ self' = [self EXCEPT !.infos = Append(@, [offset |-> self.at, length |-> padded]),
                                     !.at = IF i + 1 = phnum THEN @ + padded ELSE BehindInfo(@, padded)]
             /\ Again
     \/ Error
  /\ UNCHANGED output_vars

\* SCE_header goes in front at last, and the file is closed.  Nobody looks at what fclose()
\* returns, nor fseek(), nor fwrite() for the ELF header and the control infos.
WriteHeader ==
  /\ stage = "segments" /\ i = phnum
  /\ \/ \E left \in {"self", "lost"} : disk' = [disk EXCEPT !["self"] = left]
        /\ To("fself") /\ UNCHANGED self
     \/ UNCHANGED disk /\ Error
  /\ UNCHANGED <<dest, packed>>

VitaMakeFself ==
  /\ ReadInput \/ ReadLost \/ WriteHeaders \/ WriteSegment \/ WriteHeader
  /\ UNCHANGED <<elf, fstubs, vstubs, exports, params, top, libs, sizes, data, used, addrs, relas>>

FselfEnded == stage \in {"error", "killed", "fself"} \/ (stage = "done" /\ ~ Selected("self"))
----------------------------------------------------------------------------
(* Properties.                                                              *)

HeaderTables ==
  <<<<0, SCE_HEADER>>, <<SCE_HEADER, elf_offset>>, <<elf_offset, elf_offset + EHDR>>,
    <<phdr_offset, section_info_offset>>, <<section_info_offset, sceversion_offset>>,
    <<sceversion_offset, controlinfo_offset>>, <<controlinfo_offset, controlinfo_offset + SCE_CONTROLINFO>>>>

\* A SELF has each segment whole where its info says, on a multiple of 16, and nothing
\* is written over anything else; the NID is in the module info, where it was
\* encoded, and that in a segment (vita-make-fself.c:134-145, 161-179, 309-370).
SelfLoads ==
  disk["self"] = "self" =>
    LET info(n) == <<self.infos[n].offset, self.infos[n].offset + self.infos[n].length>>
        ranges == HeaderTables \o [n \in 1 .. phnum |-> info(n)]
    IN /\ Len(self.infos) = phnum
       /\ \A m, n \in DOMAIN ranges : m # n => ~ Overwritten(ranges[m], ranges[n])
       /\ \A n \in 1 .. phnum :
            /\ self.infos[n].offset % 16 = 0 /\ info(n)[2] <= self.at
            /\ ~ Selected("compressed") => self.infos[n].length - dest.segments[n].filesz \in 0 .. 3
       /\ Regular => \E n \in 1 .. phnum :
            LET at == self.nid - InputOffset(n)
            IN 0 <= at /\ at + 4 * INFO <= dest.segments[n].filesz /\ dest.segments[n].vaddr + at = Base

\* What is made of the ELF, the packed file and the SELF, loads as it does.
CopiesLoad == PackedLoads /\ SelfLoads

\* vita-make-fself never takes what vita-elf-create has left away, and never makes a whole
\* SELF of less than a whole ELF; with status 0 the SELF is whole, unless a call whose result
\* is ignored has lost some of it or of the ELF (vita-make-fself.c:100-145, 262-385; for
\* vita-elf-create see ElfSurvives).
OutputSurvives ==
  /\ ElfSurvives
  /\ stage \in {"headers", "segments", "error", "killed", "fself"} => Remains \/ DataLost
  /\ disk["self"] = "self" => disk["velf"] \in {"elf", "packed"}
  /\ stage = "fself" => disk["self"] \in {"self", "lost"}
=============================================================================
