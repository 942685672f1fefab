------------------------------ MODULE Relocs ------------------------------
(***************************************************************************)
(* The life of a relocation in vita-elf-create.  vita_elf_load() decodes   *)
(* the REL tables of the linked ELF (vita-elf.c); relocations against      *)
(* variable stubs move into the stubs' own tables; the rest are filtered   *)
(* by sce_elf_discard_invalid_relocs(), and, once the entry segment has    *)
(* been extended with the SCE module info, encoded by                      *)
(* sce_elf_write_rela_sections() for the loader of the console (sce-elf.c).*)
(*                                                                         *)
(* Addresses are words modulo M, and a word has two halves of H values.    *)
(* An input relocation carries ref, the address S + A that the static      *)
(* linker resolved it to; the code sees only the field that ref left in    *)
(* the image.  Emitted records carry src, the relocation they come from.   *)
(***************************************************************************)
EXTENDS Integers, Sequences, FiniteSets

CONSTANTS Elfs,        \* the inputs considered
          H,           \* values of a half word (2^16)
          ShortMax,    \* the short form holds addends -ShortMax .. ShortMax - 1
          Align,       \* sce_module_info_alignment_value
          Junk,        \* words that may lie in front of ve->segments
          Deltas       \* displacements of a segment that the properties try

VARIABLES elf,       \* the input; never changes
          pc,        \* the step main() is at, or how it ended
          relas,     \* ve->rela_tables: <<table, entry>> -> vita_elf_rela_t
          image,     \* <<section, address>> -> the field stored there
          v,         \* next variable stub
          rel_info,  \* stub -> its relocation records
          encoded,   \* sce_elf_module_info_encode() has returned data
          modrels,   \* relocations of the encoded module info
          memsz,     \* segment -> ve->segments[].memsz
          out        \* the records of .sce.rel

vars == <<elf, pc, relas, image, v, rel_info, encoded, modrels, memsz, out>>

M == H * H

\* Words have 32 bits, the addends of the short form 16; a segment moves by
\* whole pages.
ASSUME ConstantsAssumption ==
  /\ H \in Nat \ {0} /\ H % 2 = 0
  /\ Align \in Nat \ {0}
  /\ ShortMax \in Nat \ {0} /\ M % (2 * ShortMax) = 0
  /\ Junk \subseteq Nat /\ Junk # {}
  /\ Deltas \subseteq Nat /\ \A d \in Deltas : d % 2 = 0

Word == 0 .. M - 1
Plus(x, y) == (x + y) % M
Sub(x, y) == (x - y) % M
lo(x) == x % H
hi(x) == x - (x % H)
AlignUp(x) == x + ((0 - x) % Align)

----------------------------------------------------------------------------
(* Relocation types.  TARGET1 is handled as ABS32, TARGET2 as REL32, the    *)
(* THM_ forms of MOVW and MOVT as the ARM ones.                             *)
Data    == {"ABS32", "REL32", "MOVW", "MOVT"}
Normal  == Data \cup {"PREL31", "CALL", "THM_CALL"}
Ignored == {"NONE", "V4BX", "PC11"}
Types   == Normal \cup Ignored \cup {"THM_JUMP24", "BAD"}

\* What a relocation of this type stores at address p to refer to ref, by the
\* ELF ABI of the ARM architecture: the static linker has done so, and the
\* loader does it again with the addresses it chooses.
FieldOf(type, ref, p) ==
  CASE type = "ABS32" -> ref
    [] type \in {"REL32", "CALL"} -> Sub(ref, p)
    [] type = "PREL31" -> Sub(ref, p) % (M \div 2)
    [] type \in {"THM_CALL", "THM_JUMP24"} -> Sub(ref, p) - (Sub(ref, p) % 2)
    [] type = "MOVW" -> lo(ref)
    [] type = "MOVT" -> hi(ref)
    [] OTHER -> 0

InScn(scn, a) == a >= scn.addr /\ a < scn.addr + scn.size

\* vita_elf_vaddr_to_segndx(), with the sizes ve->segments has at the time;
\* 0 stands for the code's -1, as its segments 0, 1, .. are 1, 2, .. here.
NoSeg == 0
Segs == DOMAIN elf.segs
InSeg(s, size, a) == a >= elf.segs[s].vaddr /\ a < elf.segs[s].vaddr + size[s]
vaddr_to_segndx(size, a) ==
  IF \E s \in Segs : InSeg(s, size, a)
  THEN CHOOSE s \in Segs : InSeg(s, size, a) /\ \A t \in 1 .. s - 1 : ~ InSeg(t, size, a)
  ELSE NoSeg

\* Segment -1 is read from in front of the array.
vaddr_to_segoffset(a, s, junk) ==
  IF a = 0 THEN 0 ELSE Sub(a, IF s = NoSeg THEN junk ELSE elf.segs[s].vaddr)

\* The sizes in the input file.
OrigSize == [s \in Segs |-> elf.segs[s].memsz]

----------------------------------------------------------------------------
(* load_rel_table(): a table whose section is not in a segment is skipped.  *)

RelIds == UNION {{<<t, i>> : i \in DOMAIN elf.tables[t].rels} : t \in {u \in DOMAIN elf.tables : elf.tables[u].mapped}}
RelOf(id) == elf.tables[id[1]].rels[id[2]]
ScnOf(id) == elf.tables[id[1]].scn
InRange(id) == InScn(elf.scns[ScnOf(id)], RelOf(id).offset)
Site(id) == <<ScnOf(id), RelOf(id).offset>>

\* The relocations whose field load reads.
Fields == {id \in RelIds : InRange(id) /\ RelOf(id).type \notin Ignored}

\* symbol 0 is NULL.
Zeroed == [type |-> "NONE", symbol |-> 0, offset |-> 0, addend |-> 0]

decode_rel_target(type, field, p) ==
  IF type \in {"ABS32", "MOVW", "MOVT"} THEN field ELSE Plus(field, p)

\* Mutants: a difference that does not wrap; MOVT without its mask.
AddendOf_NoWrap(type, target, value) == target - value
AddendOf_MovtUnmasked(type, target, value) ==
  CASE type = "MOVW" -> Sub(target, lo(value))
    [] type = "THM_CALL" -> Sub(target, value - (value % 2))
    [] OTHER -> Sub(target, value)

AddendOf(type, target, value) ==
  CASE type = "MOVT" -> Sub(target, hi(value))
    [] type = "MOVW" -> Sub(target, lo(value))
    [] type = "THM_CALL" -> Sub(target, value - (value % 2))
    [] OTHER -> Sub(target, value)

\* field is what the image holds at the place.
LoadRel(id, field) ==
  LET rel  == RelOf(id)
      type == IF rel.type = "THM_JUMP24" THEN "THM_CALL" ELSE rel.type
  IN CASE ~ InRange(id) -> Zeroed
       [] InRange(id) /\ type = "PC11" -> [Zeroed EXCEPT !.type = type]
       [] InRange(id) /\ type \in {"NONE", "V4BX"} -> [Zeroed EXCEPT !.type = type, !.offset = rel.offset]
       [] OTHER -> [type   |-> type,
                    symbol |-> rel.sym,
                    offset |-> rel.offset,
                    addend |-> AddendOf(type, decode_rel_target(type, field, rel.offset),
                                        elf.syms[rel.sym].value)]

\* "Invalid relocation type", "REL entry tried to access symbol".
BadRel(id) ==
  /\ InRange(id)
  /\ RelOf(id).type \notin Ignored
  /\ RelOf(id).type = "BAD" \/ RelOf(id).sym \notin DOMAIN elf.syms

(* The inputs.  A linked ELF has a segment.  Each section lies in one       *)
(* segment or in none, as load assumes, and so do its addresses; no segment *)
(* maps the lowest addresses, which vita_elf_vaddr_to_segoffset() takes for *)
(* null pointers.                                                           *)
RelRecords == [type : Types, offset : Word, sym : Nat, ref : Word]

ElfTyped(e) ==
  /\ e.segs \in Seq([vaddr : H .. M - 1, memsz : Nat]) /\ e.segs # <<>>
  /\ e.scns \in Seq([addr : Word, size : Nat])
  /\ e.syms \in Seq([value : Word, shndx : {"UND", "ABS", "COMMON", "DEF"}])
  /\ e.tables \in Seq([mapped : BOOLEAN, scn : DOMAIN e.scns, rels : Seq(RelRecords)])
  /\ e.vstubs \in Seq({0} \cup DOMAIN e.syms)
  /\ e.modsize \in Nat
  /\ e.modptrs \in SUBSET [at : 0 .. e.modsize - 1, self : BOOLEAN, to : Word]
  /\ e.start \in Word /\ e.entry \in Word

Disjoint(p, q) == p.vaddr + p.memsz <= q.vaddr \/ q.vaddr + q.memsz <= p.vaddr

SegsOK(e) ==
  \A s \in DOMAIN e.segs :
    /\ e.segs[s].vaddr % Align = 0
    /\ e.segs[s].vaddr + AlignUp(e.segs[s].memsz) + e.modsize < M
    /\ \A q \in DOMAIN e.segs : q # s => Disjoint(e.segs[s], e.segs[q])

\* One relocation as the static linker leaves it.
RelOK(e, r) ==
  \* the linker has encoded the branches it could encode
  /\ r.type \in {"THM_CALL", "THM_JUMP24"} => r.ref % 2 = 0 /\ r.offset % 2 = 0
  /\ r.sym \in DOMAIN e.syms =>
       \* "the added for MOVT/MOVW should actually always be 0" (vita-elf.c:425)
       /\ r.type = "MOVT" => r.ref = e.syms[r.sym].value
       \* what refers to a symbol of the module does not come to address 0
       /\ e.syms[r.sym].shndx = "DEF" /\ e.syms[r.sym].value # 0 =>
            r.ref # 0 /\ (r.type = "PREL31" => r.ref # M \div 2)

\* The place of a relocation is in no other section, and only one relocation
\* has its addend there.
PlacesOK(e) ==
  \A t \in DOMAIN e.tables : \A i \in DOMAIN e.tables[t].rels :
    LET r == e.tables[t].rels[i]
    IN e.tables[t].mapped /\ InScn(e.scns[e.tables[t].scn], r.offset) =>
         /\ \A n \in DOMAIN e.scns : InScn(e.scns[n], r.offset) => n = e.tables[t].scn
         /\ r.type \notin Ignored =>
              \A u \in DOMAIN e.tables : \A j \in DOMAIN e.tables[u].rels :
                e.tables[u].mapped /\ e.tables[u].rels[j].offset = r.offset
                  /\ e.tables[u].rels[j].type \notin Ignored => u = t /\ j = i

ElfOK(e) ==
  /\ ElfTyped(e) /\ SegsOK(e) /\ PlacesOK(e)
  /\ \A t \in DOMAIN e.tables : \A i \in DOMAIN e.tables[t].rels : RelOK(e, e.tables[t].rels[i])
  \* symbols of variable stubs are in sections no segment holds
  /\ \A s \in DOMAIN e.vstubs : e.vstubs[s] # 0 =>
       /\ e.syms[e.vstubs[s]].shndx = "DEF"
       /\ \A g \in DOMAIN e.segs : e.syms[e.vstubs[s]].value < e.segs[g].vaddr
  \* the module info points into itself or to what a segment holds
  /\ \A p \in e.modptrs :
       IF p.self THEN p.to < e.modsize
       ELSE p.to = 0 \/ \E g \in DOMAIN e.segs : p.to >= e.segs[g].vaddr /\ p.to < e.segs[g].vaddr + e.segs[g].memsz

ASSUME ElfsAssumption == \A e \in Elfs : ElfOK(e)

Init ==
  /\ elf \in Elfs
  /\ pc = "load"
  /\ relas = <<>>
  /\ image = [site \in {Site(id) : id \in Fields} |->
                LET id == CHOOSE x \in Fields : Site(x) = site
                IN FieldOf(RelOf(id).type, RelOf(id).ref, RelOf(id).offset)]
  /\ v = 1
  /\ rel_info = [s \in DOMAIN elf.vstubs |-> {}]
  /\ encoded = FALSE
  /\ modrels = {}
  /\ memsz = OrigSize
  /\ out = {}

LoadRelTables ==
  /\ pc = "load"
  /\ IF \E id \in RelIds : BadRel(id)
     THEN pc' = "failure" /\ UNCHANGED relas
     ELSE pc' = "vstubs" /\ relas' = [id \in RelIds |-> LoadRel(id, image[Site(id)])]
  /\ UNCHANGED <<elf, image, v, rel_info, encoded, modrels, memsz, out>>
----------------------------------------------------------------------------
(* lookup_vstub_relas(), one stub at a time.  A stub that no global symbol  *)
(* names has symbol NULL, and so do the relocations that were not decoded.  *)

Hits(s) == {id \in DOMAIN relas : relas[id].symbol = elf.vstubs[s]}

\* create_vstub_short_rel() and create_vstub_long_rel(); the addend of the
\* short form is a field of 2 * ShortMax values.
\* Mutant: the largest addend of the short form is off by one.
IsShort_OffByOne(addend) == addend <= ShortMax \/ addend >= M - ShortMax
IsShort(addend) == addend < ShortMax \/ addend >= M - ShortMax

VstubRel(id, junk) ==
  LET rela == relas[id]
      seg  == vaddr_to_segndx(memsz, rela.offset)
  IN [src    |-> id,
      short  |-> IsShort(rela.addend),
      code   |-> rela.type,
      datseg |-> seg,
      offset |-> vaddr_to_segoffset(rela.offset, seg, junk),
      addend |-> IF IsShort(rela.addend) THEN rela.addend % (2 * ShortMax) ELSE rela.addend]

\* fixup_vstub_rela() writes to the first section that holds the address.
ScnAt(a) == {n \in DOMAIN elf.scns : InScn(elf.scns[n], a)}
Patched(site, s) ==
  {id \in Hits(s) :
     /\ relas[id].type \in Data
     /\ site = <<CHOOSE n \in ScnAt(relas[id].offset) : \A m \in ScnAt(relas[id].offset) : n <= m,
                 relas[id].offset>>}

LookupVstubRelas ==
  /\ pc = "vstubs"
  /\ v <= Len(elf.vstubs)
  /\ IF \E id \in Hits(v) : ScnAt(relas[id].offset) = {}
     THEN pc' = "failure" /\ UNCHANGED <<relas, image, v, rel_info>>
     ELSE /\ \E junk \in Junk : rel_info' = [rel_info EXCEPT ![v] = {VstubRel(id, junk) : id \in Hits(v)}]
          /\ image' = [site \in DOMAIN image |->
                         IF Patched(site, v) = {} THEN image[site]
                         ELSE LET rela == relas[CHOOSE id \in Patched(site, v) : TRUE]
                              IN FieldOf(rela.type, 0, rela.offset)]
          /\ relas' = [id \in DOMAIN relas |->
                         IF id \in Hits(v) /\ relas[id].type \in Data
                         THEN [relas[id] EXCEPT !.type = "NONE"] ELSE relas[id]]
          /\ v' = v + 1
          /\ UNCHANGED pc
  /\ UNCHANGED <<elf, encoded, modrels, memsz, out>>

\* vita_elf_load() returns.
Loaded ==
  /\ pc = "vstubs"
  /\ v > Len(elf.vstubs)
  /\ pc' = "encode"
  /\ UNCHANGED <<elf, relas, image, v, rel_info, encoded, modrels, memsz, out>>

----------------------------------------------------------------------------
(* Where the module info goes.  sce_elf_module_info_encode() takes the      *)
(* segment of module_start, or the first one without a module_start;        *)
(* sce_elf_write_module_info() that of e_entry.                             *)

EncodeSeg == IF vaddr_to_segndx(memsz, elf.start) = NoSeg THEN 1 ELSE vaddr_to_segndx(memsz, elf.start)
EncodeBase == elf.segs[EncodeSeg].vaddr + AlignUp(memsz[EncodeSeg])

\* Mutant: a segment that starts right where the module info does is missed.
NoRoom_OffByOne ==
  \E s \in Segs \ {EncodeSeg} :
    elf.segs[s].vaddr > EncodeBase /\ elf.segs[s].vaddr < EncodeBase + elf.modsize

\* "Cannot allocate %d bytes for SCE data at end of segment".
NoRoom ==
  \E s \in Segs \ {EncodeSeg} :
    elf.segs[s].vaddr >= EncodeBase /\ elf.segs[s].vaddr < EncodeBase + elf.modsize

\* What a pointer of the module info points to: a place in the module info, or
\* an address of the module, 0 when the module has not what it is for.
PointsTo(p) == IF p.self THEN EncodeBase + p.to ELSE p.to

\* main() does not look at the result and goes on with a null pointer.
EncodeModuleInfo ==
  /\ pc = "encode"
  /\ pc' = "discard"
  /\ encoded' = ~ NoRoom
  /\ modrels' =
       IF NoRoom THEN {}
       ELSE {[type |-> "ABS32", symbol |-> 0, offset |-> EncodeBase + p.at, addend |-> PointsTo(p)] :
               p \in {q \in elf.modptrs : PointsTo(q) # 0}}
  /\ UNCHANGED <<elf, relas, image, v, rel_info, memsz, out>>

\* Mutant: the discard sees the entry segment as it is after the extension.
Invalid_AfterExtend(rela) ==
  LET seg == vaddr_to_segndx(memsz, elf.entry)
  IN \/ rela.type = "NONE"
     \/ rela.symbol # 0 /\ elf.syms[rela.symbol].shndx \in {"UND", "ABS", "COMMON"}
     \/ vaddr_to_segndx([memsz EXCEPT ![seg] = AlignUp(@) + elf.modsize], rela.offset) = NoSeg

\* sce_elf_discard_invalid_relocs()
Invalid(rela) ==
  \/ rela.type = "NONE"
  \/ rela.symbol # 0 /\ elf.syms[rela.symbol].shndx \in {"UND", "ABS", "COMMON"}
  \/ vaddr_to_segndx(memsz, rela.offset) = NoSeg

DiscardInvalidRelocs ==
  /\ pc = "discard"
  /\ pc' = "extend"
  /\ relas' = [id \in DOMAIN relas |->
                 IF Invalid(relas[id]) THEN [relas[id] EXCEPT !.type = "NONE"] ELSE relas[id]]
  /\ UNCHANGED <<elf, image, v, rel_info, encoded, modrels, memsz, out>>

\* Mutant: "our copy of phdrs" is not extended.
WriteModuleInfo_CopyKept ==
  /\ pc = "extend"
  /\ pc' = IF vaddr_to_segndx(memsz, elf.entry) = NoSeg THEN "failure" ELSE "write"
  /\ UNCHANGED <<elf, relas, image, v, rel_info, encoded, modrels, memsz, out>>

\* sce_elf_write_module_info(): what it does to ve->segments.
WriteModuleInfo ==
  /\ pc = "extend"
  /\ LET seg == vaddr_to_segndx(memsz, elf.entry)
     IN IF seg = NoSeg
        THEN pc' = "failure" /\ UNCHANGED memsz
        ELSE pc' = "write" /\ memsz' = [memsz EXCEPT ![seg] = AlignUp(@) + elf.modsize]
  /\ UNCHANGED <<elf, relas, image, v, rel_info, encoded, modrels, out>>

----------------------------------------------------------------------------
(* sce_elf_write_rela_sections(): the module info's table, then the ELF's.  *)

ModInfo == <<0, 0>>   \* src of the records of the module info

SymValue(rela) == IF rela.symbol = 0 THEN rela.addend ELSE elf.syms[rela.symbol].value
SymVaddr(rela) == IF rela.symbol = 0 THEN rela.addend ELSE Plus(elf.syms[rela.symbol].value, rela.addend)

Written(rela) == rela.type # "NONE" /\ vaddr_to_segndx(memsz, SymValue(rela)) # NoSeg

SceRel(src, rela, junk) ==
  LET symseg == vaddr_to_segndx(memsz, SymValue(rela))
      datseg == vaddr_to_segndx(memsz, rela.offset)
  IN [src    |-> src,
      code   |-> rela.type,
      symseg |-> symseg,
      symoff |-> vaddr_to_segoffset(SymVaddr(rela), symseg, junk),
      datseg |-> datseg,
      datoff |-> vaddr_to_segoffset(rela.offset, datseg, junk)]

\* After this step elf_update() writes the file: it cannot, if the data of the
\* module info sections are not there.
WriteRelaSections ==
  /\ pc = "write"
  /\ pc' = IF encoded THEN "done" ELSE "failure"
  /\ \E junk \in Junk :
       out' = {SceRel(ModInfo, rela, junk) : rela \in {r \in modrels : Written(r)}}
              \cup {SceRel(id, relas[id], junk) : id \in {x \in DOMAIN relas : Written(relas[x])}}
  /\ UNCHANGED <<elf, relas, image, v, rel_info, encoded, modrels, memsz>>

Terminated ==
  /\ pc \in {"done", "failure"}
  /\ UNCHANGED vars

Next ==
  \/ LoadRelTables \/ LookupVstubRelas \/ Loaded \/ EncodeModuleInfo
  \/ DiscardInvalidRelocs \/ WriteModuleInfo \/ WriteRelaSections \/ Terminated

Spec == Init /\ [][Next]_vars
----------------------------------------------------------------------------
(* Properties.                                                              *)

SceRels == [src : Seq(Nat), code : Types, symseg : Nat, symoff : Word, datseg : Nat, datoff : Word]
Relas == [type : Types, symbol : Nat, offset : Word, addend : Word]

\* Every variable has its type.
TypeOK ==
  /\ pc \in {"load", "vstubs", "encode", "discard", "extend", "write", "done", "failure"}
  /\ pc \notin {"load", "failure"} => relas \in [RelIds -> Relas]
  /\ \A site \in DOMAIN image : image[site] \in Word
  /\ v \in 1 .. Len(elf.vstubs) + 1
  /\ \A s \in DOMAIN elf.vstubs : \A r \in rel_info[s] : r.addend \in Word /\ r.offset \in Word
  /\ encoded \in BOOLEAN
  /\ modrels \subseteq Relas
  /\ memsz \in [Segs -> Nat]
  /\ out \subseteq SceRels

\* No relocation of the ELF's own tables patches anything but bytes that a
\* segment of the input held: not the module info, which stands where an
\* unmapped address of the input may have pointed ("otherwise the invalid
\* addresses may become valid", sce-elf.c:1205).
OnlyMappedPatched ==
  \A e \in out : e.src # ModInfo =>
     /\ e.datseg \in Segs
     /\ vaddr_to_segndx(OrigSize, elf.segs[e.datseg].vaddr + e.datoff) # NoSeg

IsStubSym(sym) == \E s \in DOMAIN elf.vstubs : elf.vstubs[s] = sym

\* The relocations the loader has to apply.
Relocatable(id) ==
  LET rel == RelOf(id) IN
  /\ InRange(id)
  /\ rel.type \notin Ignored
  /\ elf.syms[rel.sym].shndx = "DEF"
  /\ vaddr_to_segndx(OrigSize, rel.offset) # NoSeg
  /\ vaddr_to_segndx(memsz, elf.syms[rel.sym].value) # NoSeg

\* The loader adds delta[s] to the address of segment s and patches the image.
LoaderSite(e, delta) == Plus(elf.segs[e.datseg].vaddr + e.datoff, delta[e.datseg])
LoaderField(e, delta) ==
  FieldOf(e.code, Plus(elf.segs[e.symseg].vaddr + e.symoff, delta[e.symseg]), LoaderSite(e, delta))

\* Wherever the loader puts the segments, the image refers to what it referred
\* to when it was linked, moved along with the segment of the symbol; and no
\* other byte is patched.
LoadedRight ==
  pc = "done" =>
    /\ \A e \in out : e.src # ModInfo => Relocatable(e.src)
    /\ \A id \in {x \in RelIds : Relocatable(x)} : \A delta \in [Segs -> Deltas] :
         LET rel == RelOf(id)
             P   == Plus(rel.offset, delta[vaddr_to_segndx(OrigSize, rel.offset)])
             ref == Plus(rel.ref, delta[vaddr_to_segndx(memsz, elf.syms[rel.sym].value)])
         IN \E e \in out :
              e.src = id /\ LoaderSite(e, delta) = P /\ LoaderField(e, delta) = FieldOf(rel.type, ref, P)

\* The addend the loader reads from a record of a variable stub.
StubAddend(r) ==
  IF r.short /\ r.addend >= ShortMax THEN Sub(r.addend, 2 * ShortMax) ELSE r.addend

\* A variable stub lists every reference to its variable, each with its site
\* and its addend; what is stored at a data reference meanwhile is a null
\* pointer, and the reference is not relocated twice.
VstubsRecorded ==
  pc = "done" =>
    \A s \in DOMAIN elf.vstubs : elf.vstubs[s] # 0 =>
      LET refs == {id \in RelIds : InRange(id) /\ RelOf(id).type \notin Ignored /\ RelOf(id).sym = elf.vstubs[s]}
      IN /\ {r.src : r \in rel_info[s]} = refs
         /\ \A r \in rel_info[s] :
              LET rel == RelOf(r.src)
                  A   == Sub(rel.ref, elf.syms[rel.sym].value)
              IN /\ vaddr_to_segndx(OrigSize, rel.offset) # NoSeg =>
                      Plus(elf.segs[r.datseg].vaddr, r.offset) = rel.offset
                 /\ rel.type \in {"ABS32", "REL32"} => StubAddend(r) = A
                 /\ rel.type \in Data => image[Site(r.src)] = FieldOf(rel.type, 0, rel.offset)
                 /\ \A e \in out : e.src # r.src

\* Every pointer of the module info is relocated, at its place and to what it
\* points to: "Extend in our copy of phdrs so that vita_elf_vaddr_to_segndx can
\* match it" (sce-elf.c:1106).
ModuleInfoRelocated ==
  pc = "done" =>
    \A r \in modrels : \E e \in out :
      /\ e.src = ModInfo
      /\ e.datseg # NoSeg /\ elf.segs[e.datseg].vaddr + e.datoff = r.offset
      /\ e.symseg # NoSeg /\ elf.segs[e.symseg].vaddr + e.symoff = r.addend

\* The module info never grows into another segment of the output.
SegmentsDisjoint ==
  pc = "done" =>
    \A s, t \in Segs : s # t =>
      \/ elf.segs[s].vaddr + memsz[s] <= elf.segs[t].vaddr
      \/ elf.segs[t].vaddr + memsz[t] <= elf.segs[s].vaddr

\* A THM_PC11 relocation, which load decides to ignore ("Should be safe to
\* ignore", vita-elf.c:401), is neither in .sce.rel nor in a stub's table.
IgnoredRelocsIgnored ==
  \A id \in RelIds : RelOf(id).type = "PC11" =>
    /\ \A e \in out : e.src # id
    /\ \A s \in DOMAIN elf.vstubs : \A r \in rel_info[s] : r.src # id
============================================================================
