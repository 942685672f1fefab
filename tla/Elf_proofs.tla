---------------------------- MODULE Elf_proofs ----------------------------
(***************************************************************************)
(* For every input ELF: what vita-elf-create makes of its relocations      *)
(* (Relocs), and that through the removal of stub sections every index     *)
(* keeps naming the section it named (StubSections).                       *)
(***************************************************************************)
EXTENDS Relocs, StubSections, ProofLemmas

----------------------------------------------------------------------------
(* The inductive invariant.  It says what every variable holds as a         *)
(* function of the input and of the step main() is at.                      *)

\* What load decodes from the field that the static linker left.
FieldAt(id) == FieldOf(RelOf(id).type, RelOf(id).ref, RelOf(id).offset)
Read(id) == LoadRel(id, FieldAt(id))

\* The relocations whose type the stubs done so far, and the filter, erase.
StubRefs(s) == {id \in RelIds : Read(id).symbol = elf.vstubs[s]}
Struck(id) == \E s \in 1 .. v - 1 : id \in StubRefs(s) /\ Read(id).type \in Data
Dropped(id) ==
  \/ Read(id).symbol # 0 /\ elf.syms[Read(id).symbol].shndx \in {"UND", "ABS", "COMMON"}
  \/ vaddr_to_segndx(OrigSize, Read(id).offset) = NoSeg
Filtered == pc \in {"extend", "write", "done"}
Erased(id) == Struck(id) \/ (Filtered /\ Dropped(id))

\* The segments once the module info is behind the one that holds the entry.
EntrySeg == vaddr_to_segndx(OrigSize, elf.entry)
Extended == [OrigSize EXCEPT ![EntrySeg] = AlignUp(@) + elf.modsize]

\* Where the module info is encoded, in terms of the input.
HostSeg == IF vaddr_to_segndx(OrigSize, elf.start) = NoSeg THEN 1 ELSE vaddr_to_segndx(OrigSize, elf.start)
HostBase == elf.segs[HostSeg].vaddr + AlignUp(OrigSize[HostSeg])
HostPointsTo(p) == IF p.self THEN HostBase + p.to ELSE p.to
HostFree ==
  ~ \E s \in Segs \ {HostSeg} : elf.segs[s].vaddr >= HostBase /\ elf.segs[s].vaddr < HostBase + elf.modsize
HostRels ==
  {[type |-> "ABS32", symbol |-> 0, offset |-> HostBase + p.at, addend |-> HostPointsTo(p)] :
     p \in {q \in elf.modptrs : HostPointsTo(q) # 0}}

Control ==
  /\ ElfOK(elf)
  /\ pc \in {"load", "vstubs", "encode", "discard", "extend", "write", "done", "failure"}
  /\ v \in 1 .. Len(elf.vstubs) + 1
  /\ pc = "load" => v = 1
  /\ pc \in {"encode", "discard", "extend", "write", "done"} => v = Len(elf.vstubs) + 1
  /\ pc \notin {"write", "done", "failure"} => memsz = OrigSize
  /\ pc \in {"write", "done"} => EntrySeg # NoSeg /\ memsz = Extended
  /\ memsz \in [Segs -> Nat]

\* What relas holds for a relocation.
Now(id) == [Read(id) EXCEPT !.type = IF Erased(id) THEN "NONE" ELSE @]

RelasInv ==
  pc \notin {"load", "failure"} =>
    /\ \A id \in RelIds : ~ BadRel(id)
    /\ relas = [id \in RelIds |-> Now(id)]

ImageInv ==
  /\ DOMAIN image = {Site(id) : id \in Fields}
  /\ \A id \in Fields :
       image[Site(id)] = IF Struck(id) THEN FieldOf(RelOf(id).type, 0, RelOf(id).offset) ELSE FieldAt(id)

StubRecord(r, s) ==
  LET rela == Read(r.src)
      seg  == vaddr_to_segndx(OrigSize, rela.offset)
  IN /\ r.src \in StubRefs(s)
     /\ r.short = IsShort(rela.addend)
     /\ r.datseg = seg
     /\ \E junk \in Junk : r.offset = vaddr_to_segoffset(rela.offset, seg, junk)
     /\ r.addend = IF IsShort(rela.addend) THEN rela.addend % (2 * ShortMax) ELSE rela.addend

StubsInv ==
  /\ v > 1 => \A id \in RelIds : ~ BadRel(id)
  /\ DOMAIN rel_info = DOMAIN elf.vstubs
  /\ \A s \in DOMAIN elf.vstubs : s >= v => rel_info[s] = {}
  /\ \A s \in DOMAIN elf.vstubs : s < v =>
       {r.src : r \in rel_info[s]} = StubRefs(s) /\ \A r \in rel_info[s] : StubRecord(r, s)

ModInv ==
  /\ encoded \in BOOLEAN
  /\ pc \in {"load", "vstubs", "encode"} => ~ encoded
  /\ encoded => HostFree /\ modrels = HostRels
  /\ ~ encoded => modrels = {}
  /\ pc = "done" => encoded

Emitted(junk) ==
  {SceRel(ModInfo, rela, junk) : rela \in {r \in modrels : Written(r)}}
  \cup {SceRel(id, relas[id], junk) : id \in {x \in DOMAIN relas : Written(relas[x])}}

OutInv ==
  /\ pc \notin {"done", "failure"} => out = {}
  /\ pc = "done" => \E junk \in Junk : out = Emitted(junk)
  /\ out \subseteq SceRels
  /\ OnlyMappedPatched

IInv == Control /\ RelasInv /\ ImageInv /\ StubsInv /\ ModInv /\ OutInv

----------------------------------------------------------------------------
(* Words.                                                                   *)

LEMMA WordFacts ==
  /\ H \in Nat \ {0} /\ M \in Nat \ {0} /\ H <= M
  /\ M % 2 = 0 /\ M % H = 0
  /\ M \div 2 \in Nat \ {0} /\ M = 2 * (M \div 2)
<1>1. H \in Nat \ {0} /\ H % 2 = 0
      BY ConstantsAssumption
<1>2. M \in Nat \ {0} /\ H <= M
  <2>1. H * H >= H
        BY <1>1, PositiveMultiple
  <2> QED
      BY <1>1, <2>1 DEF M
<1>3. M % H = 0
  <2>1. PICK m, z, h \in Int : m = z + h * H /\ z = 0 /\ h = H
    <3>1. H * H \in Int /\ H \in Int /\ H * H = 0 + H * H
          BY <1>1
    <3> QED
        BY <3>1
  <2>2. m % H = z % H
    <3>1. m \in Int /\ z \in Int /\ h \in Int /\ m = z + h * H
          BY <2>1
    <3> QED
        BY <1>1, <3>1, ModShift, ZenonT(40)
  <2>3. m = M
        BY <1>1, <2>1 DEF M
  <2> QED
      BY <1>1, <2>1, <2>2, <2>3, ModSmall
<1>4. M % 2 = 0
  <2>1. PICK h \in Int : H = 0 + h * 2
        BY <1>1, ModDifference, ModSmall
  <2>2. H * H = 0 + (h * H) * 2 /\ h * H \in Int /\ H * H \in Int
        BY <1>1, <2>1
  <2>3. (H * H) % 2 = 0 % 2
        BY <2>2, ModShift
  <2> QED
      BY <2>3 DEF M
<1>5. M \div 2 \in Nat \ {0} /\ M = 2 * (M \div 2)
      BY <1>2, <1>4
<1> QED
    BY <1>1, <1>2, <1>3, <1>4, <1>5

LEMMA WordOps ==
  ASSUME NEW x \in Int, NEW y \in Int
  PROVE  Plus(x, y) \in Word /\ Sub(x, y) \in Word
BY WordFacts, ModRange DEF Plus, Sub, Word

LEMMA Halves ==
  ASSUME NEW x \in Word
  PROVE  lo(x) \in Word /\ lo(x) < H /\ hi(x) \in Word /\ hi(x) <= x
<1>1. x % H \in 0 .. H - 1
      BY WordFacts, ModRange DEF Word
<1>2. x % H <= x
  <2>1. CASE x < H
        BY <2>1, WordFacts, ModSmall DEF Word
  <2>2. CASE x >= H
        BY <1>1, <2>2, WordFacts DEF Word
  <2> QED
      BY <2>1, <2>2, WordFacts DEF Word
<1> QED
    BY <1>1, <1>2, WordFacts DEF lo, hi, Word

LEMMA EvenPart ==
  ASSUME NEW x \in Word
  PROVE  x - (x % 2) \in Word
BY WordFacts DEF Word

LEMMA FieldTyped ==
  ASSUME NEW type, NEW ref \in Word, NEW p \in Word
  PROVE  FieldOf(type, ref, p) \in Word
<1>1. Sub(ref, p) \in Word /\ lo(ref) \in Word /\ hi(ref) \in Word
      BY WordOps, Halves, WordFacts DEF Word
<1>2. Sub(ref, p) - (Sub(ref, p) % 2) \in Word
      BY <1>1, EvenPart
<1>3. Sub(ref, p) % (M \div 2) \in Word
  <2>1. PICK x \in Int, h \in Nat \ {0} : x = Sub(ref, p) /\ h = M \div 2
        BY <1>1, WordFacts DEF Word
  <2>2. x % h \in 0 .. h - 1
        BY <2>1, ModRange
  <2> QED
      BY <2>1, <2>2, WordFacts DEF Word
<1>4. 0 \in Word
      BY WordFacts DEF Word
<1> QED
    BY <1>1, <1>2, <1>3, <1>4 DEF FieldOf

----------------------------------------------------------------------------
(* Segments.                                                                *)

LEMMA SegFacts ==
  ASSUME ElfOK(elf)
  PROVE  /\ Segs = 1 .. Len(elf.segs) /\ Len(elf.segs) \in Nat
         /\ \A s \in Segs : /\ elf.segs[s].vaddr \in H .. M - 1
                            /\ elf.segs[s].memsz \in Nat
                            /\ elf.segs[s].vaddr % Align = 0
                            /\ AlignUp(elf.segs[s].memsz) \in Nat
                            /\ AlignUp(elf.segs[s].memsz) >= elf.segs[s].memsz
                            /\ AlignUp(elf.segs[s].memsz) % Align = 0
                            /\ elf.segs[s].vaddr + AlignUp(elf.segs[s].memsz) + elf.modsize < M
         /\ \A s, t \in Segs : s # t => Disjoint(elf.segs[s], elf.segs[t])
         /\ elf.modsize \in Nat
         /\ OrigSize \in [Segs -> Nat]
<1>1. elf.segs \in Seq([vaddr : H .. M - 1, memsz : Nat]) /\ elf.modsize \in Nat
      BY DEF ElfOK, ElfTyped
<1>2. Segs = 1 .. Len(elf.segs) /\ Len(elf.segs) \in Nat
      BY <1>1 DEF Segs
<1>3. \A s \in Segs : elf.segs[s] \in [vaddr : H .. M - 1, memsz : Nat]
      BY <1>1, <1>2, ElementOfSeq, Zenon
<1>4. \A s \in Segs : elf.segs[s].vaddr \in H .. M - 1 /\ elf.segs[s].memsz \in Nat
      BY <1>3
<1>5. /\ \A s \in Segs : /\ elf.segs[s].vaddr % Align = 0
                         /\ elf.segs[s].vaddr + AlignUp(elf.segs[s].memsz) + elf.modsize < M
      /\ \A s, t \in Segs : s # t => Disjoint(elf.segs[s], elf.segs[t])
      BY DEF ElfOK, SegsOK, Segs
<1>6. ASSUME NEW x \in Nat
      PROVE  AlignUp(x) \in Nat /\ AlignUp(x) >= x /\ AlignUp(x) % Align = 0
  <2>1. PICK a \in Nat \ {0} : a = Align
        BY ConstantsAssumption
  <2>2. x \in Int /\ a \in Nat \ {0}
        BY <2>1
  <2>3. /\ x + ((0 - x) % a) \in Int /\ x + ((0 - x) % a) >= x
        /\ (x + ((0 - x) % a)) % a = 0
        BY <2>2, RoundedUp, Zenon
  <2>4. AlignUp(x) = x + ((0 - x) % a)
        BY <2>1 DEF AlignUp
  <2> QED
      BY <2>1, <2>3, <2>4
<1>7. OrigSize \in [Segs -> Nat]
      BY <1>4 DEF OrigSize
<1> QED
    BY <1>1, <1>2, <1>4, <1>5, <1>6, <1>7

\* vaddr_to_segndx() finds a segment that holds the address, if one does.
LEMMA SegFound ==
  ASSUME ElfOK(elf), NEW size \in [Segs -> Nat], NEW a \in Int
  PROVE  LET s == vaddr_to_segndx(size, a)
         IN \/ s \in Segs /\ s # NoSeg /\ InSeg(s, size, a)
            \/ s = NoSeg /\ \A t \in Segs : ~ InSeg(t, size, a)
<1>1. Segs = 1 .. Len(elf.segs) /\ Len(elf.segs) \in Nat
      BY SegFacts
<1>2. CASE \E s \in Segs : InSeg(s, size, a)
  <2> DEFINE T == {s \in Segs : InSeg(s, size, a)}
  <2>1. T \in SUBSET Nat /\ T # {}
        BY <1>1, <1>2
  <2> HIDE DEF T
  <2>2. PICK m \in T : \A t \in T : m <= t
        BY <2>1, LeastNatural
  <2>3. m \in Segs /\ InSeg(m, size, a)
        BY <2>2 DEF T
  <2>4. \A t \in 1 .. m - 1 : ~ InSeg(t, size, a)
    <3> SUFFICES ASSUME NEW t \in 1 .. m - 1, InSeg(t, size, a)
                 PROVE  FALSE
        OBVIOUS
    <3>1. t \in Segs
          BY <1>1, <2>3
    <3> QED
        BY <1>1, <2>2, <2>3, <3>1 DEF T
  <2> DEFINE Q(s) == InSeg(s, size, a) /\ \A t \in 1 .. s - 1 : ~ InSeg(t, size, a)
  <2>5. Q(m)
        BY <2>3, <2>4
  <2>6. vaddr_to_segndx(size, a) = CHOOSE s \in Segs : Q(s)
        BY <1>2 DEF vaddr_to_segndx
  <2>7. vaddr_to_segndx(size, a) \in Segs /\ Q(vaddr_to_segndx(size, a))
    <3> HIDE DEF Q
    <3> QED
        BY <2>3, <2>5, <2>6
  <2> QED
      BY <1>1, <2>7 DEF NoSeg
<1>3. CASE ~ \E s \in Segs : InSeg(s, size, a)
      BY <1>3 DEF vaddr_to_segndx
<1> QED
    BY <1>2, <1>3

\* Among segments that do not overlap it is the only one.
Apart(size) ==
  \A s, t \in Segs : s # t =>
    \/ elf.segs[s].vaddr + size[s] <= elf.segs[t].vaddr
    \/ elf.segs[t].vaddr + size[t] <= elf.segs[s].vaddr

LEMMA SegUnique ==
  ASSUME ElfOK(elf), NEW size \in [Segs -> Nat], Apart(size), NEW a \in Int, NEW s \in Segs, InSeg(s, size, a)
  PROVE  vaddr_to_segndx(size, a) = s
<1>1. PICK t : t = vaddr_to_segndx(size, a)
      OBVIOUS
<1>2. t \in Segs /\ InSeg(t, size, a)
      BY <1>1, SegFound
<1>3. /\ elf.segs[s].vaddr \in Int /\ elf.segs[t].vaddr \in Int
      /\ size[s] \in Nat /\ size[t] \in Nat
  <2>1. elf.segs[s].vaddr \in H .. M - 1 /\ elf.segs[t].vaddr \in H .. M - 1
        BY <1>2, SegFacts
  <2> QED
      BY <1>2, <2>1, WordFacts
<1>4. s = t
      BY <1>2, <1>3 DEF Apart, InSeg
<1> QED
    BY <1>1, <1>4

\* Address 0 is in no segment, however far the segments reach.
LEMMA NullUnmapped ==
  ASSUME ElfOK(elf), NEW size \in [Segs -> Nat], NEW a \in Int, a < H
  PROVE  vaddr_to_segndx(size, a) = NoSeg
<1>1. ASSUME NEW s \in Segs
      PROVE  ~ InSeg(s, size, a)
      BY SegFacts, WordFacts DEF InSeg
<1> QED
    BY <1>1, SegFound

\* The input's segments do not overlap.
LEMMA OrigApart ==
  ASSUME ElfOK(elf)
  PROVE  OrigSize \in [Segs -> Nat] /\ Apart(OrigSize)
BY SegFacts DEF Apart, OrigSize, Disjoint

\* The extended segment keeps what it had.
LEMMA ExtendedFacts ==
  ASSUME ElfOK(elf)
  PROVE  /\ Extended \in [Segs -> Nat]
         /\ \A s \in Segs : OrigSize[s] <= Extended[s]
         /\ \A s \in Segs : elf.segs[s].vaddr + Extended[s] < M
         /\ \A s \in Segs : s # EntrySeg => Extended[s] = OrigSize[s]
         /\ EntrySeg \in Segs => Extended[EntrySeg] = AlignUp(OrigSize[EntrySeg]) + elf.modsize
<1>1. /\ OrigSize \in [Segs -> Nat] /\ elf.modsize \in Nat
      /\ \A s \in Segs : /\ OrigSize[s] = elf.segs[s].memsz
                         /\ elf.segs[s].vaddr \in H .. M - 1
                         /\ elf.segs[s].memsz \in Nat
                         /\ AlignUp(OrigSize[s]) \in Nat /\ AlignUp(OrigSize[s]) >= OrigSize[s]
                         /\ elf.segs[s].vaddr + AlignUp(OrigSize[s]) + elf.modsize < M
      BY SegFacts DEF OrigSize
<1>2. Extended = [s \in Segs |-> IF s = EntrySeg THEN AlignUp(OrigSize[s]) + elf.modsize ELSE OrigSize[s]]
      BY <1>1 DEF Extended
<1> QED
    BY <1>1, <1>2, WordFacts

----------------------------------------------------------------------------
(* Relocations.                                                             *)

LEMMA RelFacts ==
  ASSUME ElfOK(elf), NEW id \in RelIds
  PROVE  /\ id \in Seq(Nat) /\ id # ModInfo
         /\ RelOf(id) \in RelRecords
         /\ ScnOf(id) \in DOMAIN elf.scns
         /\ RelOK(elf, RelOf(id))
<1>1. PICK t \in DOMAIN elf.tables : elf.tables[t].mapped /\ \E i \in DOMAIN elf.tables[t].rels : id = <<t, i>>
      BY DEF RelIds
<1>2. PICK i \in DOMAIN elf.tables[t].rels : id = <<t, i>>
      BY <1>1
<1>3. elf.tables \in Seq([mapped : BOOLEAN, scn : DOMAIN elf.scns, rels : Seq(RelRecords)])
      BY DEF ElfOK, ElfTyped
<1>4. t \in Nat \ {0} /\ elf.tables[t] \in [mapped : BOOLEAN, scn : DOMAIN elf.scns, rels : Seq(RelRecords)]
  <2>1. t \in 1 .. Len(elf.tables) /\ Len(elf.tables) \in Nat
        BY <1>1, <1>3
  <2>2. elf.tables[t] \in [mapped : BOOLEAN, scn : DOMAIN elf.scns, rels : Seq(RelRecords)]
        BY <1>3, <2>1, ElementOfSeq, Zenon
  <2> QED
      BY <2>1, <2>2
<1>5. elf.tables[t].rels \in Seq(RelRecords) /\ elf.tables[t].scn \in DOMAIN elf.scns
      BY <1>4
<1>6. i \in Nat \ {0} /\ elf.tables[t].rels[i] \in RelRecords
  <2>1. i \in 1 .. Len(elf.tables[t].rels) /\ Len(elf.tables[t].rels) \in Nat
        BY <1>2, <1>5
  <2>2. elf.tables[t].rels[i] \in RelRecords
        BY <1>5, <2>1, ElementOfSeq, Zenon
  <2> QED
      BY <2>1, <2>2
<1>7. id[1] = t /\ id[2] = i
      BY <1>2
<1>8. id \in Seq(Nat) /\ id # ModInfo
      BY <1>2, <1>4, <1>6 DEF ModInfo
<1>9. RelOf(id) \in RelRecords /\ ScnOf(id) \in DOMAIN elf.scns
      BY <1>5, <1>6, <1>7 DEF RelOf, ScnOf
<1>10. RelOK(elf, RelOf(id))
       BY <1>7 DEF ElfOK, RelOf
<1> QED
    BY <1>8, <1>9, <1>10

\* No other section holds the place of a relocation, and no other relocation
\* has its field there.
LEMMA OwnPlace ==
  ASSUME ElfOK(elf), NEW id \in RelIds, InRange(id)
  PROVE  /\ ScnAt(RelOf(id).offset) = {ScnOf(id)}
         /\ id \in Fields => \A x \in Fields : RelOf(x).offset = RelOf(id).offset => x = id
<1>0. PICK t \in DOMAIN elf.tables : elf.tables[t].mapped /\ \E i \in DOMAIN elf.tables[t].rels : id = <<t, i>>
      BY DEF RelIds
<1>1. PICK i \in DOMAIN elf.tables[t].rels : id = <<t, i>>
      BY <1>0
<1>2. id[1] = t /\ id[2] = i
      BY <1>1
<1>3. InScn(elf.scns[elf.tables[t].scn], elf.tables[t].rels[i].offset)
      BY <1>2 DEF InRange, ScnOf, RelOf
<1>4. /\ \A n \in DOMAIN elf.scns : InScn(elf.scns[n], elf.tables[t].rels[i].offset) => n = elf.tables[t].scn
      /\ elf.tables[t].rels[i].type \notin Ignored =>
           \A u \in DOMAIN elf.tables : \A j \in DOMAIN elf.tables[u].rels :
             elf.tables[u].mapped /\ elf.tables[u].rels[j].offset = elf.tables[t].rels[i].offset
               /\ elf.tables[u].rels[j].type \notin Ignored => u = t /\ j = i
      BY <1>0, <1>3 DEF ElfOK, PlacesOK
<1>5. ScnAt(RelOf(id).offset) = {ScnOf(id)}
  <2>1. ScnOf(id) \in DOMAIN elf.scns
        BY RelFacts
  <2> QED
      BY <1>2, <1>3, <1>4, <2>1 DEF ScnAt, ScnOf, RelOf
<1>6. ASSUME id \in Fields, NEW x \in Fields, RelOf(x).offset = RelOf(id).offset
      PROVE  x = id
  <2>1. PICK u \in DOMAIN elf.tables : elf.tables[u].mapped /\ \E j \in DOMAIN elf.tables[u].rels : x = <<u, j>>
        BY DEF Fields, RelIds
  <2>2. PICK j \in DOMAIN elf.tables[u].rels : x = <<u, j>>
        BY <2>1
  <2>3. x[1] = u /\ x[2] = j
        BY <2>2
  <2> QED
      BY <1>1, <1>2, <1>4, <1>6, <2>1, <2>2, <2>3 DEF Fields, RelOf
<1> QED
    BY <1>5, <1>6

LEMMA SitesApart ==
  ASSUME ElfOK(elf), NEW x \in Fields, NEW y \in Fields, Site(x) = Site(y)
  PROVE  x = y
<1>1. RelOf(x).offset = RelOf(y).offset
      BY DEF Site
<1> QED
    BY <1>1, OwnPlace DEF Fields

----------------------------------------------------------------------------
(* What load decodes.                                                       *)

Kind(id) == IF RelOf(id).type = "THM_JUMP24" THEN "THM_CALL" ELSE RelOf(id).type
SymOf(id) == elf.syms[RelOf(id).sym].value
Target(id) == decode_rel_target(Kind(id), FieldAt(id), RelOf(id).offset)

LEMMA SymFacts ==
  ASSUME ElfOK(elf), NEW s \in DOMAIN elf.syms
  PROVE  /\ s \in Nat \ {0} /\ elf.syms[s].value \in Word
         /\ elf.syms[s].shndx \in {"UND", "ABS", "COMMON", "DEF"}
<1>1. elf.syms \in Seq([value : Word, shndx : {"UND", "ABS", "COMMON", "DEF"}])
      BY DEF ElfOK, ElfTyped
<1>2. s \in 1 .. Len(elf.syms) /\ Len(elf.syms) \in Nat
      BY <1>1
<1>3. elf.syms[s] \in [value : Word, shndx : {"UND", "ABS", "COMMON", "DEF"}]
      BY <1>1, <1>2, ElementOfSeq
<1> QED
    BY <1>2, <1>3

LEMMA FieldFacts ==
  ASSUME ElfOK(elf), NEW id \in Fields, ~ BadRel(id)
  PROVE  /\ RelOf(id).sym \in DOMAIN elf.syms /\ SymOf(id) \in Word
         /\ Kind(id) \in Normal
         /\ RelOf(id).offset \in Word /\ RelOf(id).ref \in Word
         /\ FieldAt(id) \in Word /\ Target(id) \in Word
         /\ Read(id) = [type |-> Kind(id), symbol |-> RelOf(id).sym, offset |-> RelOf(id).offset,
                        addend |-> AddendOf(Kind(id), Target(id), SymOf(id))]
         /\ AddendOf(Kind(id), Target(id), SymOf(id)) \in Word
         /\ Read(id) \in Relas
<1>1. id \in RelIds /\ InRange(id) /\ RelOf(id).type \notin Ignored
      BY DEF Fields
<1>2. RelOf(id).sym \in DOMAIN elf.syms /\ RelOf(id).type # "BAD"
      BY <1>1 DEF BadRel
<1>3. SymOf(id) \in Word
      BY <1>2, SymFacts DEF SymOf
<1>4. /\ RelOf(id).type \in Types /\ RelOf(id).offset \in Word /\ RelOf(id).ref \in Word
      /\ RelOf(id).sym \in Nat
      BY <1>1, RelFacts DEF RelRecords
<1>5. Kind(id) \in Normal
      BY <1>1, <1>2, <1>4 DEF Kind, Types, Normal, Data
<1>6. FieldAt(id) \in Word
      BY <1>4, FieldTyped DEF FieldAt
<1>7. Target(id) \in Word
  <2>1. FieldAt(id) \in Int /\ RelOf(id).offset \in Int
        BY <1>4, <1>6, WordFacts DEF Word
  <2>2. Plus(FieldAt(id), RelOf(id).offset) \in Word
        BY <2>1, WordOps
  <2> QED
      BY <1>6, <2>2 DEF Target, decode_rel_target
<1>8. Read(id) = [type |-> Kind(id), symbol |-> RelOf(id).sym, offset |-> RelOf(id).offset,
                  addend |-> AddendOf(Kind(id), Target(id), SymOf(id))]
      BY <1>1, <1>5 DEF Read, LoadRel, Kind, Target, SymOf, Normal, Data, Ignored
<1>9. AddendOf(Kind(id), Target(id), SymOf(id)) \in Word
  <2>1. /\ Target(id) \in Int /\ SymOf(id) \in Int /\ hi(SymOf(id)) \in Int /\ lo(SymOf(id)) \in Int
        /\ SymOf(id) - (SymOf(id) % 2) \in Int
        BY <1>3, <1>7, Halves, EvenPart, WordFacts DEF Word
  <2> QED
      BY <2>1, WordOps DEF AddendOf
<1>10. Read(id) \in Relas
       BY <1>4, <1>5, <1>8, <1>9 DEF Relas, Types
<1> QED
    BY <1>2, <1>3, <1>4, <1>5, <1>6, <1>7, <1>8, <1>9, <1>10

\* The relocations that load does not decode have no symbol and no addend.
LEMMA OtherFacts ==
  ASSUME ElfOK(elf), NEW id \in RelIds, id \notin Fields
  PROVE  /\ Read(id) \in Relas
         /\ Read(id).symbol = 0 /\ Read(id).addend = 0 /\ Read(id).type \in Ignored
<1>1. RelOf(id).offset \in Word
      BY RelFacts DEF RelRecords
<1>2. ~ InRange(id) \/ RelOf(id).type \in Ignored
      BY DEF Fields
<1>3. 0 \in Word
      BY WordFacts DEF Word
<1>4. Read(id) = Zeroed \/ Read(id) = [Zeroed EXCEPT !.type = "PC11"]
      \/ \E t \in {"NONE", "V4BX"} : Read(id) = [Zeroed EXCEPT !.type = t, !.offset = RelOf(id).offset]
      BY <1>2 DEF Read, LoadRel, Ignored
<1>5. ASSUME NEW t \in Ignored, NEW p \in Word, Read(id) = [type |-> t, symbol |-> 0, offset |-> p, addend |-> 0]
      PROVE  /\ Read(id) \in Relas
             /\ Read(id).symbol = 0 /\ Read(id).addend = 0 /\ Read(id).type \in Ignored
      BY <1>3, <1>5 DEF Relas, Types
<1>6. CASE Read(id) = Zeroed
      BY <1>3, <1>5, <1>6 DEF Zeroed, Ignored
<1>7. CASE Read(id) = [Zeroed EXCEPT !.type = "PC11"]
      BY <1>3, <1>5, <1>7 DEF Zeroed, Ignored
<1>8. CASE \E t \in {"NONE", "V4BX"} : Read(id) = [Zeroed EXCEPT !.type = t, !.offset = RelOf(id).offset]
      BY <1>1, <1>5, <1>8 DEF Zeroed, Ignored
<1> QED
    BY <1>4, <1>6, <1>7, <1>8

----------------------------------------------------------------------------
(* What depends on the input only stays as it is.                           *)

LEMMA SameInput ==
  ASSUME elf' = elf
  PROVE  /\ RelIds' = RelIds /\ Fields' = Fields /\ Segs' = Segs /\ OrigSize' = OrigSize
         /\ \A id : RelOf(id)' = RelOf(id) /\ Site(id)' = Site(id) /\ FieldAt(id)' = FieldAt(id)
         /\ \A id : Read(id)' = Read(id) /\ (BadRel(id)' <=> BadRel(id))
         /\ \A s, a : vaddr_to_segndx(s, a)' = vaddr_to_segndx(s, a)
         /\ \A a, s, junk : vaddr_to_segoffset(a, s, junk)' = vaddr_to_segoffset(a, s, junk)
         /\ \A s, size, a : InSeg(s, size, a)' <=> InSeg(s, size, a)
         /\ \A s : StubRefs(s)' = StubRefs(s)
         /\ \A r, s : StubRecord(r, s)' <=> StubRecord(r, s)
         /\ \A id : Dropped(id)' <=> Dropped(id)
         /\ EntrySeg' = EntrySeg /\ Extended' = Extended /\ HostRels' = HostRels
         /\ HostFree' <=> HostFree
<1>1. RelIds' = RelIds /\ Segs' = Segs
      BY DEF RelIds, Segs
<1>2. \A id : RelOf(id)' = RelOf(id) /\ ScnOf(id)' = ScnOf(id) /\ Site(id)' = Site(id)
      BY DEF RelOf, ScnOf, Site
<1>3. \A id : InRange(id)' <=> InRange(id)
      BY <1>2 DEF InRange, InScn
<1>4. \A id : FieldAt(id)' = FieldAt(id)
      BY <1>2 DEF FieldAt
<1>5. Fields' = Fields
      BY <1>1, <1>2, <1>3 DEF Fields
<1>6. \A id : BadRel(id)' <=> BadRel(id)
      BY <1>2, <1>3 DEF BadRel
<1>7. \A id : Read(id)' = Read(id)
      BY <1>2, <1>3, <1>4 DEF Read, LoadRel
<1>8. OrigSize' = OrigSize
      BY <1>1 DEF OrigSize
<1>9. \A s, size, a : InSeg(s, size, a)' <=> InSeg(s, size, a)
      BY DEF InSeg
<1>10. \A s, a : vaddr_to_segndx(s, a)' = vaddr_to_segndx(s, a)
       BY DEF vaddr_to_segndx, InSeg, Segs
<1>11. \A a, s, junk : vaddr_to_segoffset(a, s, junk)' = vaddr_to_segoffset(a, s, junk)
       BY DEF vaddr_to_segoffset
<1>12. \A s : StubRefs(s)' = StubRefs(s)
       BY <1>1, <1>7 DEF StubRefs
<1>13. \A id : Dropped(id)' <=> Dropped(id)
       BY <1>7, <1>8, <1>10 DEF Dropped
<1>14. EntrySeg' = EntrySeg /\ HostSeg' = HostSeg
       BY <1>8, <1>10 DEF EntrySeg, HostSeg
<1>15. Extended' = Extended
       BY <1>8, <1>14 DEF Extended
<1>16. HostBase' = HostBase
       BY <1>8, <1>14 DEF HostBase
<1>18. \A r, s : StubRecord(r, s)' <=> StubRecord(r, s)
       BY <1>7, <1>8, <1>10, <1>11, <1>12 DEF StubRecord
<1>17. HostRels' = HostRels /\ (HostFree' <=> HostFree)
       BY <1>1, <1>14, <1>16 DEF HostRels, HostFree, HostPointsTo
<1> QED
    BY <1>1, <1>2, <1>4, <1>5, <1>6, <1>7, <1>8, <1>9, <1>10, <1>11, <1>12, <1>13, <1>14, <1>15, <1>17, <1>18

\* The same for a relocation as relas holds it.
LEMMA ReadTyped ==
  ASSUME ElfOK(elf), NEW id \in RelIds, ~ BadRel(id)
  PROVE  /\ Read(id) \in Relas /\ Now(id) \in Relas
         /\ Now(id).symbol = Read(id).symbol /\ Now(id).offset = Read(id).offset
         /\ Now(id).addend = Read(id).addend
         /\ Now(id).type = IF Erased(id) THEN "NONE" ELSE Read(id).type
         /\ ~ Erased(id) => Now(id) = Read(id)
<1>1. Read(id) \in Relas
      BY FieldFacts, OtherFacts
<1>2. "NONE" \in Types
      BY DEF Types, Ignored
<1>3. PICK r \in Relas : r = Read(id)
      BY <1>1
<1>4. CASE Erased(id)
  <2>1. Now(id) = [r EXCEPT !.type = "NONE"]
        BY <1>3, <1>4 DEF Now
  <2>2. Now(id) \in Relas
        BY <1>2, <1>3, <2>1 DEF Relas
  <2> QED
      BY <1>1, <1>3, <1>4, <2>1, <2>2 DEF Relas
<1>5. CASE ~ Erased(id)
  <2>1. Now(id) = [r EXCEPT !.type = r.type]
        BY <1>3, <1>5 DEF Now
  <2>2. Now(id) = r
        BY <1>3, <2>1 DEF Relas
  <2>3. Now(id) = Read(id)
        BY <1>3, <2>2
  <2>4. (IF Erased(id) THEN "NONE" ELSE Read(id).type) = Read(id).type
        BY <1>5
  <2> QED
      BY <1>1, <1>3, <2>3, <2>4
<1> QED
    BY <1>4, <1>5

----------------------------------------------------------------------------
(* The invariant holds when main() starts and is kept by every step.        *)

LEMMA InitIInv ==
  Init => IInv
<1> SUFFICES ASSUME Init
             PROVE  IInv
    OBVIOUS
<1>1. ElfOK(elf)
      BY ElfsAssumption DEF Init
<1>2. pc = "load" /\ v = 1 /\ memsz = OrigSize /\ out = {} /\ modrels = {} /\ encoded = FALSE
      BY DEF Init
<1>3. elf.vstubs \in Seq({0} \cup DOMAIN elf.syms)
      BY <1>1 DEF ElfOK, ElfTyped
<1>4. \A id : ~ Struck(id)
      BY <1>2 DEF Struck
<1>5. Control
      BY <1>1, <1>2, <1>3, SegFacts DEF Control
<1>6. RelasInv
      BY <1>2 DEF RelasInv
<1>7. ImageInv
  <2>1. image = [site \in {Site(id) : id \in Fields} |->
                   LET id == CHOOSE x \in Fields : Site(x) = site IN FieldAt(id)]
        BY DEF Init, FieldAt
  <2>2. ASSUME NEW id \in Fields
        PROVE  image[Site(id)] = FieldAt(id)
    <3>1. (CHOOSE x \in Fields : Site(x) = Site(id)) = id
          BY <1>1, SitesApart
    <3> QED
        BY <2>1, <3>1
  <2> QED
      BY <1>4, <2>1, <2>2 DEF ImageInv
<1>8. StubsInv
      BY <1>2, <1>3 DEF Init, StubsInv
<1>9. ModInv
      BY <1>2 DEF ModInv
<1>10. OutInv
       BY <1>2 DEF OutInv, OnlyMappedPatched
<1> QED
    BY <1>5, <1>6, <1>7, <1>8, <1>9, <1>10 DEF IInv

LEMMA StubsTyped ==
  ASSUME ElfOK(elf)
  PROVE  /\ Len(elf.vstubs) \in Nat /\ DOMAIN elf.vstubs = 1 .. Len(elf.vstubs)
         /\ \A s \in DOMAIN elf.vstubs : elf.vstubs[s] \in {0} \cup DOMAIN elf.syms
<1>1. elf.vstubs \in Seq({0} \cup DOMAIN elf.syms)
      BY DEF ElfOK, ElfTyped
<1>2. Len(elf.vstubs) \in Nat /\ DOMAIN elf.vstubs = 1 .. Len(elf.vstubs)
      BY <1>1
<1>3. \A s \in DOMAIN elf.vstubs : elf.vstubs[s] \in {0} \cup DOMAIN elf.syms
      BY <1>1, <1>2, ElementOfSeq, Zenon
<1> QED
    BY <1>2, <1>3

\* What a step that leaves the variables of a part alone keeps of it.
LEMMA Kept ==
  ASSUME elf' = elf
  PROVE  /\ v' = v => \A id : Struck(id)' <=> Struck(id)
         /\ v' = v /\ image' = image /\ ImageInv => ImageInv'
         /\ v' = v /\ rel_info' = rel_info /\ StubsInv => StubsInv'
         /\ v' = v /\ relas' = relas /\ RelasInv /\ pc \notin {"load", "failure"} /\ (Filtered' <=> Filtered)
              => RelasInv'
         /\ out' = out /\ OutInv /\ pc' # "done" /\ (pc' = "failure" \/ pc # "failure") /\ pc # "done" => OutInv'
<1>1. ASSUME v' = v
      PROVE  \A id : Struck(id)' <=> Struck(id)
      BY <1>1, SameInput DEF Struck
<1>2. ASSUME v' = v, image' = image, ImageInv
      PROVE  ImageInv'
  <2>1. \A id : Struck(id)' <=> Struck(id)
        BY <1>1, <1>2
  <2> QED
      BY <1>2, <2>1, SameInput DEF ImageInv
<1>3. ASSUME v' = v, rel_info' = rel_info, StubsInv
      PROVE  StubsInv'
      BY <1>3, SameInput DEF StubsInv
<1>4. ASSUME v' = v, relas' = relas, RelasInv, pc \notin {"load", "failure"}, Filtered' <=> Filtered
      PROVE  RelasInv'
  <2>1. \A id : Erased(id)' <=> Erased(id)
        BY <1>1, <1>4, SameInput DEF Erased
  <2>2. \A id : Now(id)' = Now(id)
        BY <2>1, SameInput DEF Now
  <2> QED
      BY <1>4, <2>2, SameInput DEF RelasInv
<1>5. ASSUME out' = out, OutInv, pc' # "done", pc' = "failure" \/ pc # "failure", pc # "done"
      PROVE  OutInv'
      BY <1>5, SameInput DEF OutInv, OnlyMappedPatched
<1> QED
    BY <1>1, <1>2, <1>3, <1>4, <1>5

LEMMA LoadKeeps ==
  IInv /\ LoadRelTables => IInv'
<1> SUFFICES ASSUME IInv, LoadRelTables
             PROVE  IInv'
    OBVIOUS
<1> USE DEF LoadRelTables
<1>1. ElfOK(elf) /\ elf' = elf /\ v = 1 /\ v' = v /\ pc = "load" /\ pc' \in {"failure", "vstubs"}
      BY DEF IInv, Control
<1>2. Control'
      BY <1>1, SameInput DEF IInv, Control
<1>3. RelasInv'
  <2>1. CASE pc' = "failure"
        BY <2>1 DEF RelasInv
  <2>2. CASE pc' = "vstubs"
    <3>1. /\ \A id \in RelIds : ~ BadRel(id)
          /\ relas' = [id \in RelIds |-> LoadRel(id, image[Site(id)])]
          BY <2>2
    <3>2. ASSUME NEW id \in RelIds
          PROVE  LoadRel(id, image[Site(id)]) = Read(id)
      <4>1. CASE id \in Fields
        <5>1. ~ Struck(id)
              BY <1>1 DEF Struck
        <5> QED
            BY <4>1, <5>1 DEF IInv, ImageInv, Read
      <4>2. CASE id \notin Fields
            BY <4>2 DEF Fields, LoadRel, Read, Ignored
      <4> QED
          BY <4>1, <4>2
    <3>3. ASSUME NEW id \in RelIds
          PROVE  Now(id)' = Read(id)
      <4>1. ~ Erased(id)'
            BY <1>1, <2>2 DEF Erased, Struck, Filtered
      <4>2. Read(id) \in Relas
            BY <1>1, <3>1, ReadTyped
      <4>3. Now(id)' = [Read(id) EXCEPT !.type = Read(id).type]
            BY <1>1, <4>1, SameInput DEF Now
      <4> QED
          BY <4>2, <4>3 DEF Relas
    <3> QED
        BY <1>1, <3>1, <3>2, <3>3, SameInput DEF RelasInv
  <2> QED
      BY <1>1, <2>1, <2>2
<1>4. ImageInv' /\ StubsInv' /\ OutInv'
      BY <1>1, Kept DEF IInv
<1>5. ModInv'
      BY <1>1 DEF IInv, ModInv
<1> QED
    BY <1>2, <1>3, <1>4, <1>5 DEF IInv

LEMMA LoadedKeeps ==
  IInv /\ Loaded => IInv'
<1> SUFFICES ASSUME IInv, Loaded
             PROVE  IInv'
    OBVIOUS
<1> USE DEF Loaded
<1>1. ElfOK(elf) /\ elf' = elf /\ v' = v /\ v > Len(elf.vstubs) /\ pc = "vstubs" /\ pc' = "encode"
      BY DEF IInv, Control
<1>2. Control'
      BY <1>1, SameInput, StubsTyped DEF IInv, Control
<1>3. Filtered' <=> Filtered
      BY <1>1 DEF Filtered
<1>4. RelasInv' /\ ImageInv' /\ StubsInv' /\ OutInv'
      BY <1>1, <1>3, Kept DEF IInv
<1>5. ModInv'
      BY <1>1 DEF IInv, ModInv
<1> QED
    BY <1>2, <1>4, <1>5 DEF IInv

LEMMA EncodeKeeps ==
  IInv /\ EncodeModuleInfo => IInv'
<1> SUFFICES ASSUME IInv, EncodeModuleInfo
             PROVE  IInv'
    OBVIOUS
<1> USE DEF EncodeModuleInfo
<1>1. ElfOK(elf) /\ elf' = elf /\ v' = v /\ pc = "encode" /\ pc' = "discard" /\ memsz = OrigSize
      BY DEF IInv, Control
<1>2. Control'
      BY <1>1, SameInput DEF IInv, Control
<1>3. Filtered' <=> Filtered
      BY <1>1 DEF Filtered
<1>4. RelasInv' /\ ImageInv' /\ StubsInv' /\ OutInv'
      BY <1>1, <1>3, Kept DEF IInv
<1>5. ModInv'
  <2>1. EncodeSeg = HostSeg /\ EncodeBase = HostBase
        BY <1>1 DEF EncodeSeg, EncodeBase, HostSeg, HostBase
  <2>2. NoRoom <=> ~ HostFree
        BY <2>1 DEF NoRoom, HostFree
  <2>3. \A p : PointsTo(p) = HostPointsTo(p)
        BY <2>1 DEF PointsTo, HostPointsTo
  <2>4. CASE NoRoom
        BY <1>1, <2>4 DEF ModInv
  <2>5. CASE ~ NoRoom
    <3>1. modrels' = HostRels
          BY <2>1, <2>3, <2>5 DEF HostRels
    <3> QED
        BY <1>1, <2>2, <2>5, <3>1, SameInput DEF ModInv
  <2> QED
      BY <2>4, <2>5
<1> QED
    BY <1>2, <1>4, <1>5 DEF IInv

LEMMA DiscardKeeps ==
  IInv /\ DiscardInvalidRelocs => IInv'
<1> SUFFICES ASSUME IInv, DiscardInvalidRelocs
             PROVE  IInv'
    OBVIOUS
<1> USE DEF DiscardInvalidRelocs
<1>1. ElfOK(elf) /\ elf' = elf /\ v' = v /\ pc = "discard" /\ pc' = "extend" /\ memsz = OrigSize
      BY DEF IInv, Control
<1>2. Control'
      BY <1>1, SameInput DEF IInv, Control
<1>3. ImageInv' /\ StubsInv' /\ OutInv'
      BY <1>1, Kept DEF IInv
<1>4. RelasInv'
  <2>1. /\ \A id \in RelIds : ~ BadRel(id)
        /\ relas = [id \in RelIds |-> Now(id)]
        BY <1>1 DEF IInv, RelasInv
  <2>2. relas' = [id \in RelIds |-> IF Invalid(Now(id)) THEN [Now(id) EXCEPT !.type = "NONE"] ELSE Now(id)]
        BY <2>1
  <2>3. ASSUME NEW id \in RelIds
        PROVE  Now(id)' = IF Invalid(Now(id)) THEN [Now(id) EXCEPT !.type = "NONE"] ELSE Now(id)
    <3>1. /\ Read(id) \in Relas /\ Now(id) \in Relas
          /\ Now(id).symbol = Read(id).symbol /\ Now(id).offset = Read(id).offset
          /\ Now(id).type = IF Erased(id) THEN "NONE" ELSE Read(id).type
          BY <1>1, <2>1, ReadTyped
    <3>2. Erased(id) <=> Struck(id)
          BY <1>1 DEF Erased, Filtered
    <3>3. Erased(id)' <=> Struck(id) \/ Dropped(id)
          BY <1>1, SameInput, Kept DEF Erased, Filtered
    <3>4. Invalid(Now(id)) <=> Now(id).type = "NONE" \/ Dropped(id)
          BY <1>1, <3>1 DEF Invalid, Dropped
    <3>5. Now(id)' = [Read(id) EXCEPT !.type = IF Struck(id) \/ Dropped(id) THEN "NONE" ELSE @]
          BY <1>1, <3>3, SameInput DEF Now
    <3>6. Now(id) = [Read(id) EXCEPT !.type = IF Struck(id) THEN "NONE" ELSE @]
          BY <3>2 DEF Now
    <3>7. PICK r \in Relas : r = Read(id)
          BY <3>1
    <3>8. CASE Struck(id) \/ Dropped(id)
      <4>1. Invalid(Now(id))
            BY <3>1, <3>2, <3>4, <3>8
      <4>2. Now(id)' = [r EXCEPT !.type = "NONE"]
            BY <3>5, <3>7, <3>8
      <4>3. Now(id) = [r EXCEPT !.type = "NONE"] \/ Now(id) = [r EXCEPT !.type = r.type]
            BY <3>6, <3>7
      <4>4. [Now(id) EXCEPT !.type = "NONE"] = [r EXCEPT !.type = "NONE"]
            BY <3>7, <4>3 DEF Relas
      <4> QED
          BY <4>1, <4>2, <4>4
    <3>9. CASE ~ (Struck(id) \/ Dropped(id))
      <4>1. Now(id)' = [r EXCEPT !.type = r.type] /\ Now(id) = [r EXCEPT !.type = r.type]
            BY <3>5, <3>6, <3>7, <3>9
      <4>2. r = [r EXCEPT !.type = r.type]
            BY <3>7 DEF Relas
      <4>3. Invalid(Now(id)) => Now(id).type = "NONE"
            BY <3>4, <3>9
      <4>4. Now(id).type = "NONE" => [Now(id) EXCEPT !.type = "NONE"] = Now(id)
            BY <3>7, <4>1, <4>2 DEF Relas
      <4> QED
          BY <4>1, <4>3, <4>4
    <3> QED
        BY <3>8, <3>9
  <2>4. RelIds' = RelIds /\ \A id \in RelIds : ~ BadRel(id)'
        BY <1>1, <2>1, SameInput
  <2>5. relas' = [id \in RelIds |-> Now(id)']
        BY <2>2, <2>3
  <2> QED
      BY <2>4, <2>5 DEF RelasInv
<1>5. ModInv'
      BY <1>1, SameInput DEF IInv, ModInv
<1> QED
    BY <1>2, <1>3, <1>4, <1>5 DEF IInv

LEMMA WriteModuleInfoKeeps ==
  IInv /\ WriteModuleInfo => IInv'
<1> SUFFICES ASSUME IInv, WriteModuleInfo
             PROVE  IInv'
    OBVIOUS
<1> USE DEF WriteModuleInfo
<1>1. ElfOK(elf) /\ elf' = elf /\ v' = v /\ pc = "extend" /\ memsz = OrigSize
      BY DEF IInv, Control
<1>2. \/ EntrySeg = NoSeg /\ pc' = "failure" /\ memsz' = memsz
      \/ EntrySeg # NoSeg /\ pc' = "write" /\ memsz' = Extended
      BY <1>1 DEF EntrySeg, Extended
<1>3. Control'
  <2>1. memsz' \in [Segs -> Nat]
        BY <1>1, <1>2, ExtendedFacts DEF IInv, Control
  <2> QED
      BY <1>1, <1>2, <2>1, SameInput DEF IInv, Control
<1>4. ImageInv' /\ StubsInv' /\ OutInv'
      BY <1>1, <1>2, Kept DEF IInv
<1>5. RelasInv'
  <2>1. CASE pc' = "failure"
        BY <2>1 DEF RelasInv
  <2>2. CASE pc' = "write"
    <3>1. Filtered' <=> Filtered
          BY <1>1, <2>2 DEF Filtered
    <3> QED
        BY <1>1, <3>1, Kept DEF IInv
  <2> QED
      BY <1>2, <2>1, <2>2
<1>6. ModInv'
      BY <1>1, <1>2, SameInput DEF IInv, ModInv
<1> QED
    BY <1>3, <1>4, <1>5, <1>6 DEF IInv

----------------------------------------------------------------------------
(* What the records of .sce.rel say.                                        *)

LEMMA OffsetTyped ==
  ASSUME ElfOK(elf), NEW a \in Word, NEW s \in Segs \cup {NoSeg}, NEW junk \in Junk
  PROVE  vaddr_to_segoffset(a, s, junk) \in Word
<1>1. 0 \in Word /\ a \in Int /\ junk \in Int
      BY WordFacts, ConstantsAssumption DEF Word
<1>2. s \in Segs => elf.segs[s].vaddr \in Int
  <2>1. s \in Segs => elf.segs[s].vaddr \in H .. M - 1
        BY SegFacts
  <2> QED
      BY <2>1, WordFacts
<1>3. Sub(a, junk) \in Word
      BY <1>1, WordOps
<1>4. s \in Segs => Sub(a, elf.segs[s].vaddr) \in Word
      BY <1>1, <1>2, WordOps
<1> QED
    BY <1>1, <1>3, <1>4 DEF vaddr_to_segoffset

\* The offset of an address in its segment leads back to the address.
LEMMA OffsetBack ==
  ASSUME ElfOK(elf), NEW a \in Word, NEW s \in Segs, a >= elf.segs[s].vaddr, NEW junk
  PROVE  /\ vaddr_to_segoffset(a, s, junk) = a - elf.segs[s].vaddr
         /\ elf.segs[s].vaddr + vaddr_to_segoffset(a, s, junk) = a
<1>1. elf.segs[s].vaddr \in H .. M - 1 /\ s # NoSeg
      BY SegFacts DEF NoSeg
<1>2. a # 0 /\ a - elf.segs[s].vaddr \in 0 .. M - 1
      BY <1>1, WordFacts DEF Word
<1>3. (a - elf.segs[s].vaddr) % M = a - elf.segs[s].vaddr
      BY <1>2, WordFacts, ModSmall, Zenon
<1>4. vaddr_to_segoffset(a, s, junk) = a - elf.segs[s].vaddr
      BY <1>1, <1>2, <1>3 DEF vaddr_to_segoffset, Sub
<1> QED
    BY <1>1, <1>2, <1>4, WordFacts DEF Word

\* The module info lies in the address space.
LEMMA HostFacts ==
  ASSUME ElfOK(elf)
  PROVE  /\ HostSeg \in Segs /\ HostBase \in Nat /\ HostBase + elf.modsize < M
         /\ HostBase >= elf.segs[HostSeg].vaddr
         /\ \A p \in elf.modptrs : /\ p.at \in 0 .. elf.modsize - 1
                                   /\ HostBase + p.at \in Word /\ HostPointsTo(p) \in Word
         /\ HostRels \subseteq Relas
<1>1. elf.segs # <<>> /\ elf.modptrs \in SUBSET [at : 0 .. elf.modsize - 1, self : BOOLEAN, to : Word]
      BY DEF ElfOK, ElfTyped
<1>2. 1 \in Segs
  <2>1. elf.segs \in Seq([vaddr : H .. M - 1, memsz : Nat])
        BY DEF ElfOK, ElfTyped
  <2>2. Len(elf.segs) # 0
        BY <1>1, <2>1, EmptySeq
  <2> QED
      BY <2>2, SegFacts
<1>3. HostSeg \in Segs
  <2>1. elf.start \in Word
        BY DEF ElfOK, ElfTyped
  <2>2. elf.start \in Int /\ OrigSize \in [Segs -> Nat]
        BY <2>1, SegFacts, WordFacts DEF Word
  <2> QED
      BY <1>2, <2>2, SegFound DEF HostSeg
<1>4. HostBase \in Nat /\ HostBase + elf.modsize < M /\ HostBase >= elf.segs[HostSeg].vaddr /\ elf.modsize \in Nat
  <2>1. /\ elf.segs[HostSeg].vaddr \in H .. M - 1
        /\ AlignUp(elf.segs[HostSeg].memsz) \in Nat
        /\ elf.segs[HostSeg].vaddr + AlignUp(elf.segs[HostSeg].memsz) + elf.modsize < M
        /\ elf.modsize \in Nat
        BY <1>3, SegFacts
  <2>2. HostBase = elf.segs[HostSeg].vaddr + AlignUp(elf.segs[HostSeg].memsz)
        BY <1>3 DEF HostBase, OrigSize
  <2> QED
      BY <2>1, <2>2, WordFacts
<1>5. ASSUME NEW p \in elf.modptrs
      PROVE  /\ p.at \in 0 .. elf.modsize - 1
             /\ HostBase + p.at \in Word /\ HostPointsTo(p) \in Word
  <2>1. p.at \in 0 .. elf.modsize - 1 /\ p.self \in BOOLEAN /\ p.to \in Word
        BY <1>1
  <2>2. p.self => p.to < elf.modsize
        BY DEF ElfOK
  <2>3. HostBase + p.at \in Word
        BY <1>4, <2>1, WordFacts DEF Word
  <2>4. HostPointsTo(p) \in Word
        BY <1>4, <2>1, <2>2, WordFacts DEF Word, HostPointsTo
  <2> QED
      BY <2>1, <2>3, <2>4
<1>6. HostRels \subseteq Relas
      BY <1>5 DEF HostRels, Relas, Types, Normal, Data
<1> QED
    BY <1>3, <1>4, <1>5, <1>6

LEMMA SceRelTyped ==
  ASSUME ElfOK(elf), memsz \in [Segs -> Nat], NEW src \in Seq(Nat), NEW rela \in Relas, NEW junk \in Junk,
         rela.symbol \in {0} \cup DOMAIN elf.syms
  PROVE  SceRel(src, rela, junk) \in SceRels
<1>1. /\ rela.type \in Types /\ rela.symbol \in Nat /\ rela.offset \in Word /\ rela.addend \in Word
      BY DEF Relas
<1>2. SymValue(rela) \in Word
      BY <1>1, SymFacts DEF SymValue
<1>3. SymVaddr(rela) \in Word
  <2>1. rela.symbol # 0 => elf.syms[rela.symbol].value \in Word
        BY SymFacts
  <2>2. rela.symbol # 0 => elf.syms[rela.symbol].value \in Int
        BY <2>1, WordFacts DEF Word
  <2>3. rela.addend \in Int
        BY <1>1, WordFacts DEF Word
  <2>4. rela.symbol # 0 => Plus(elf.syms[rela.symbol].value, rela.addend) \in Word
        BY <2>2, <2>3, WordOps
  <2> QED
      BY <1>1, <2>4 DEF SymVaddr
<1>4. ASSUME NEW a \in Word
      PROVE  vaddr_to_segndx(memsz, a) \in Segs \cup {NoSeg}
  <2>1. a \in Int
        BY WordFacts DEF Word
  <2> QED
      BY <2>1, SegFound
<1>5. Segs \cup {NoSeg} \subseteq Nat
      BY SegFacts DEF NoSeg
<1>6. \A s \in Segs \cup {NoSeg} : \A a \in Word : vaddr_to_segoffset(a, s, junk) \in Word
      BY OffsetTyped
<1> QED
    BY <1>1, <1>2, <1>3, <1>4, <1>5, <1>6 DEF SceRel, SceRels

\* A relocation of the input that is written has kept its type.
LEMMA WrittenFacts ==
  ASSUME IInv, pc \in {"write", "done"}, NEW id \in RelIds, Written(relas[id])
  PROVE  /\ ~ BadRel(id) /\ relas[id] = Read(id) /\ relas[id] \in Relas
         /\ Read(id).symbol \in {0} \cup DOMAIN elf.syms
         /\ ~ Struck(id) /\ ~ Dropped(id)
<1>1. ElfOK(elf) /\ ~ BadRel(id) /\ relas[id] = Now(id)
      BY DEF IInv, Control, RelasInv
<1>2. Now(id).type # "NONE"
      BY <1>1 DEF Written
<1>3. ~ Erased(id) /\ Now(id) = Read(id) /\ Read(id) \in Relas
      BY <1>1, <1>2, ReadTyped
<1>4. ~ Struck(id) /\ ~ Dropped(id)
      BY <1>3 DEF Erased, Filtered
<1>5. Read(id).symbol \in {0} \cup DOMAIN elf.syms
      BY <1>1, FieldFacts, OtherFacts
<1> QED
    BY <1>1, <1>3, <1>4, <1>5

LEMMA WriteRelaKeeps ==
  IInv /\ WriteRelaSections => IInv'
<1> SUFFICES ASSUME IInv, WriteRelaSections
             PROVE  IInv'
    OBVIOUS
<1> USE DEF WriteRelaSections
<1>1. /\ ElfOK(elf) /\ elf' = elf /\ v' = v /\ pc = "write" /\ memsz' = memsz /\ modrels' = modrels
      /\ relas' = relas /\ encoded' = encoded
      /\ memsz = Extended /\ memsz \in [Segs -> Nat]
      /\ pc' = IF encoded THEN "done" ELSE "failure"
      BY DEF IInv, Control
<1>2. Control'
      BY <1>1, SameInput DEF IInv, Control
<1>3. ImageInv' /\ StubsInv'
      BY <1>1, Kept DEF IInv
<1>4. RelasInv'
  <2>1. CASE pc' = "failure"
        BY <2>1 DEF RelasInv
  <2>2. CASE pc' = "done"
    <3>1. Filtered' <=> Filtered
          BY <1>1, <2>2 DEF Filtered
    <3> QED
        BY <1>1, <3>1, Kept DEF IInv
  <2> QED
      BY <1>1, <2>1, <2>2
<1>5. ModInv'
      BY <1>1, SameInput DEF IInv, ModInv
<1>6. OutInv'
  <2>1. PICK junk \in Junk : out' = Emitted(junk)
        BY DEF Emitted
  <2>2. DOMAIN relas = RelIds
        BY <1>1 DEF IInv, RelasInv
  <2>3. ASSUME NEW rela \in modrels
        PROVE  SceRel(ModInfo, rela, junk) \in SceRels
    <3>1. rela \in HostRels
          BY <1>1 DEF IInv, ModInv
    <3>2. rela \in Relas /\ rela.symbol = 0
          BY <1>1, <3>1, HostFacts DEF HostRels
    <3>3. ModInfo \in Seq(Nat)
          BY DEF ModInfo
    <3> QED
        BY <1>1, <3>2, <3>3, SceRelTyped
  <2>4. ASSUME NEW id \in RelIds, Written(relas[id])
        PROVE  SceRel(id, relas[id], junk) \in SceRels
    <3>1. relas[id] \in Relas /\ relas[id].symbol \in {0} \cup DOMAIN elf.syms
          BY <1>1, <2>4, WrittenFacts
    <3>2. id \in Seq(Nat)
          BY <1>1, RelFacts
    <3> QED
        BY <1>1, <3>1, <3>2, SceRelTyped
  <2>5. out' \subseteq SceRels
        BY <2>1, <2>2, <2>3, <2>4 DEF Emitted
  <2>6. ASSUME NEW id \in RelIds, Written(relas[id]), NEW e, e = SceRel(id, relas[id], junk)
        PROVE  /\ e.datseg \in Segs
               /\ vaddr_to_segndx(OrigSize, elf.segs[e.datseg].vaddr + e.datoff) # NoSeg
    <3> DEFINE a == relas[id].offset
    <3>1. a \in Word /\ vaddr_to_segndx(OrigSize, a) # NoSeg
          BY <1>1, <2>6, WrittenFacts DEF Dropped, Relas
    <3>2. PICK s \in Segs : InSeg(s, OrigSize, a)
      <4>1. a \in Int /\ OrigSize \in [Segs -> Nat]
            BY <1>1, <3>1, WordFacts, SegFacts DEF Word
      <4> QED
          BY <1>1, <3>1, <4>1, SegFound
    <3>3. InSeg(s, memsz, a)
      <4>1. OrigSize[s] <= memsz[s] /\ OrigSize[s] \in Nat /\ memsz[s] \in Nat /\ elf.segs[s].vaddr \in H .. M - 1
            BY <1>1, <3>2, ExtendedFacts, SegFacts
      <4> QED
          BY <3>1, <3>2, <4>1, WordFacts DEF InSeg, Word
    <3>4. PICK t : t = vaddr_to_segndx(memsz, a)
          OBVIOUS
    <3>5. t \in Segs /\ InSeg(t, memsz, a)
      <4>1. a \in Int
            BY <3>1, WordFacts DEF Word
      <4> QED
          BY <1>1, <3>2, <3>3, <3>4, <4>1, SegFound
    <3>6. elf.segs[t].vaddr + vaddr_to_segoffset(a, t, junk) = a
          BY <1>1, <3>1, <3>5, OffsetBack DEF InSeg
    <3>7. e.datseg = t /\ e.datoff = vaddr_to_segoffset(a, t, junk)
          BY <2>6, <3>4 DEF SceRel
    <3> QED
        BY <3>1, <3>5, <3>6, <3>7
  <2>7. ASSUME NEW e \in out', e.src # ModInfo
        PROVE  /\ e.datseg \in Segs
               /\ vaddr_to_segndx(OrigSize, elf.segs[e.datseg].vaddr + e.datoff) # NoSeg
    <3>1. \A rela : SceRel(ModInfo, rela, junk).src = ModInfo
          BY DEF SceRel
    <3>2. PICK id \in RelIds : Written(relas[id]) /\ e = SceRel(id, relas[id], junk)
          BY <2>1, <2>2, <2>7, <3>1 DEF Emitted
    <3> QED
        BY <2>6, <3>2
  <2>8. OnlyMappedPatched'
        BY <1>1, <2>7, SameInput DEF OnlyMappedPatched
  <2>9. Emitted(junk)' = Emitted(junk)
    <3>1. \A src, rela : SceRel(src, rela, junk)' = SceRel(src, rela, junk) /\ (Written(rela)' <=> Written(rela))
          BY <1>1, SameInput DEF SceRel, Written, SymValue, SymVaddr
    <3> QED
        BY <1>1, <3>1 DEF Emitted
  <2> QED
      BY <1>1, <2>1, <2>5, <2>8, <2>9 DEF OutInv
<1> QED
    BY <1>2, <1>3, <1>4, <1>5, <1>6 DEF IInv

\* A field that the code patches for a variable stub is the relocation's own.
LEMMA PatchedOwn ==
  ASSUME ElfOK(elf), NEW id \in Fields, ~ BadRel(id),
         \A x \in RelIds : ~ BadRel(x) /\ relas[x] = Now(x), DOMAIN relas = RelIds, NEW s \in DOMAIN elf.vstubs
  PROVE  Patched(Site(id), s) = IF id \in StubRefs(s) /\ relas[id].type \in Data THEN {id} ELSE {}
<1>1. Hits(s) = StubRefs(s)
  <2>1. \A x \in RelIds : relas[x].symbol = Read(x).symbol
        BY ReadTyped
  <2> QED
      BY <2>1 DEF Hits, StubRefs
<1>2. id \in RelIds /\ InRange(id) /\ relas[id].offset = RelOf(id).offset
  <2>1. id \in RelIds /\ InRange(id)
        BY DEF Fields
  <2>2. relas[id].offset = Read(id).offset
        BY <2>1, ReadTyped
  <2> QED
      BY <2>1, <2>2, FieldFacts
<1>3. ASSUME NEW x \in Patched(Site(id), s)
      PROVE  x = id /\ id \in StubRefs(s) /\ relas[id].type \in Data
  <2>1. x \in RelIds /\ x \in StubRefs(s) /\ relas[x].type \in Data
        BY <1>1 DEF Patched, StubRefs
  <2>2. relas[x].offset = RelOf(id).offset
        BY DEF Patched, Site
  <2>3. relas[x].offset = Read(x).offset /\ (relas[x].type = Read(x).type \/ relas[x].type = "NONE")
        BY <2>1, ReadTyped
  <2>4. x \in Fields
    <3>1. Read(x).type \in Data
          BY <2>1, <2>3 DEF Data
    <3> QED
        BY <2>1, <3>1, OtherFacts DEF Data, Ignored
  <2>5. RelOf(x).offset = RelOf(id).offset
        BY <2>1, <2>2, <2>3, <2>4, FieldFacts
  <2>6. x = id
        BY <1>2, <2>4, <2>5, OwnPlace
  <2> QED
      BY <2>1, <2>6
<1>4. ASSUME id \in StubRefs(s), relas[id].type \in Data
      PROVE  id \in Patched(Site(id), s)
  <2>1. ScnAt(relas[id].offset) = {ScnOf(id)}
        BY <1>2, OwnPlace
  <2>2. ScnOf(id) \in Int
    <3>1. ScnOf(id) \in DOMAIN elf.scns /\ elf.scns \in Seq([addr : Word, size : Nat])
          BY <1>2, RelFacts DEF ElfOK, ElfTyped
    <3> QED
        BY <3>1
  <2>3. (CHOOSE n \in ScnAt(relas[id].offset) : \A m \in ScnAt(relas[id].offset) : n <= m) = ScnOf(id)
        BY <2>1, <2>2
  <2> QED
      BY <1>1, <1>2, <1>4, <2>3 DEF Patched, Site
<1> QED
    BY <1>3, <1>4

LEMMA LookupKeeps ==
  IInv /\ LookupVstubRelas => IInv'
<1> SUFFICES ASSUME IInv, LookupVstubRelas
             PROVE  IInv'
    OBVIOUS
<1>1. /\ ElfOK(elf) /\ elf' = elf /\ memsz = OrigSize /\ memsz' = memsz /\ pc = "vstubs" /\ v \in DOMAIN elf.vstubs
      /\ encoded' = encoded /\ modrels' = modrels /\ out' = out
      BY StubsTyped DEF LookupVstubRelas, IInv, Control
<1>2. CASE \E id \in Hits(v) : ScnAt(relas[id].offset) = {}
  <2>1. pc' = "failure" /\ UNCHANGED <<relas, image, v, rel_info>>
        BY <1>2 DEF LookupVstubRelas
  <2>2. Control'
        BY <1>1, <2>1, SameInput DEF IInv, Control
  <2>3. RelasInv'
        BY <2>1 DEF RelasInv
  <2>4. ImageInv' /\ StubsInv' /\ OutInv'
        BY <1>1, <2>1, Kept DEF IInv
  <2>5. ModInv'
        BY <1>1, <2>1 DEF IInv, ModInv
  <2> QED
      BY <2>2, <2>3, <2>4, <2>5 DEF IInv
<1>3. CASE ~ \E id \in Hits(v) : ScnAt(relas[id].offset) = {}
  <2>1. PICK junk \in Junk : rel_info' = [rel_info EXCEPT ![v] = {VstubRel(id, junk) : id \in Hits(v)}]
        BY <1>3 DEF LookupVstubRelas
  <2>2. /\ image' = [site \in DOMAIN image |->
                       IF Patched(site, v) = {} THEN image[site]
                       ELSE LET rela == relas[CHOOSE id \in Patched(site, v) : TRUE]
                            IN FieldOf(rela.type, 0, rela.offset)]
        /\ relas' = [id \in DOMAIN relas |->
                       IF id \in Hits(v) /\ relas[id].type \in Data
                       THEN [relas[id] EXCEPT !.type = "NONE"] ELSE relas[id]]
        /\ v' = v + 1 /\ pc' = pc
        BY <1>3 DEF LookupVstubRelas
  <2>3. /\ \A id \in RelIds : ~ BadRel(id) /\ relas[id] = Now(id)
        /\ DOMAIN relas = RelIds
        BY <1>1 DEF IInv, RelasInv
  <2>4. ASSUME NEW id \in RelIds
        PROVE  /\ Read(id) \in Relas /\ Now(id) \in Relas
               /\ relas[id].symbol = Read(id).symbol /\ relas[id].offset = Read(id).offset
               /\ relas[id].addend = Read(id).addend
               /\ relas[id].type = IF Struck(id) THEN "NONE" ELSE Read(id).type
    <3>1. Erased(id) <=> Struck(id)
          BY <1>1 DEF Erased, Filtered
    <3> QED
        BY <1>1, <2>3, <3>1, ReadTyped
  <2>5. Hits(v) = StubRefs(v)
        BY <2>3, <2>4 DEF Hits, StubRefs
  <2>6. ASSUME NEW id
        PROVE  Struck(id)' <=> Struck(id) \/ (id \in StubRefs(v) /\ Read(id).type \in Data)
    <3>1. v \in Nat /\ \A s : s \in 1 .. v' - 1 <=> s \in 1 .. v - 1 \/ s = v
          BY <1>1, <2>2, StubsTyped
    <3> QED
        BY <1>1, <3>1, SameInput DEF Struck
  <2>7. Control'
    <3>1. v' \in 1 .. Len(elf.vstubs) + 1
          BY <1>1, <2>2, StubsTyped
    <3> QED
        BY <1>1, <2>2, <3>1, SameInput DEF IInv, Control
  <2>8. RelasInv'
    <3>1. ASSUME NEW id \in RelIds
          PROVE  relas'[id] = Now(id)'
      <4>1. Erased(id)' <=> Struck(id) \/ (id \in StubRefs(v) /\ Read(id).type \in Data)
            BY <1>1, <2>2, <2>6 DEF Erased, Filtered
      <4>2. Erased(id) <=> Struck(id)
            BY <1>1 DEF Erased, Filtered
      <4>3. PICK r \in Relas : r = Read(id)
            BY <2>4
      <4>4. Now(id)' = [r EXCEPT !.type = IF Struck(id) \/ (id \in StubRefs(v) /\ r.type \in Data) THEN "NONE" ELSE r.type]
            BY <1>1, <4>1, <4>3, SameInput DEF Now
      <4>5. relas[id] = [r EXCEPT !.type = IF Struck(id) THEN "NONE" ELSE r.type]
            BY <2>3, <4>2, <4>3 DEF Now
      <4>6. relas'[id] = IF id \in StubRefs(v) /\ relas[id].type \in Data
                         THEN [relas[id] EXCEPT !.type = "NONE"] ELSE relas[id]
            BY <2>2, <2>3, <2>5
      <4>7. "NONE" \notin Data
            BY DEF Data
      <4>8. CASE Struck(id)
        <5>1. relas[id] = [r EXCEPT !.type = "NONE"]
              BY <4>5, <4>8
        <5>2. relas[id].type = "NONE"
              BY <4>3, <5>1 DEF Relas
        <5> QED
            BY <4>4, <4>6, <4>7, <4>8, <5>1, <5>2
      <4>9. CASE ~ Struck(id)
        <5>1. relas[id] = r
              BY <4>3, <4>5, <4>9 DEF Relas
        <5>2. r = [r EXCEPT !.type = r.type]
              BY <4>3 DEF Relas
        <5> QED
            BY <4>4, <4>6, <4>9, <5>1, <5>2
      <4> QED
          BY <4>8, <4>9
    <3>2. relas' = [id \in RelIds |-> Now(id)']
      <4>1. relas' = [id \in RelIds |-> relas'[id]]
            BY <2>2, <2>3
      <4> QED
          BY <3>1, <4>1
    <3>3. RelIds' = RelIds /\ \A id \in RelIds : ~ BadRel(id)'
          BY <1>1, <2>3, SameInput
    <3> QED
        BY <3>2, <3>3 DEF RelasInv
  <2>9. ImageInv'
    <3>1. DOMAIN image = {Site(id) : id \in Fields} /\ DOMAIN image' = DOMAIN image
          BY <2>2 DEF IInv, ImageInv
    <3>2. ASSUME NEW id \in Fields
          PROVE  image'[Site(id)] = IF Struck(id)' THEN FieldOf(RelOf(id).type, 0, RelOf(id).offset) ELSE FieldAt(id)
      <4>1. id \in RelIds /\ ~ BadRel(id)
            BY <2>3 DEF Fields
      <4>2. Patched(Site(id), v) = IF id \in StubRefs(v) /\ relas[id].type \in Data THEN {id} ELSE {}
            BY <1>1, <2>3, <4>1, PatchedOwn
      <4>3. Read(id).type = Kind(id) /\ Read(id).offset = RelOf(id).offset
            BY <1>1, <4>1, FieldFacts
      <4>4. CASE id \in StubRefs(v) /\ relas[id].type \in Data
        <5>1. ~ Struck(id)
              BY <2>4, <4>1, <4>4 DEF Data
        <5>2. relas[id].type = RelOf(id).type /\ relas[id].offset = RelOf(id).offset /\ Read(id).type \in Data
              BY <2>4, <4>1, <4>3, <4>4, <5>1 DEF Kind, Data
        <5>3. (CHOOSE x \in Patched(Site(id), v) : TRUE) = id /\ Patched(Site(id), v) # {}
              BY <4>2, <4>4
        <5>4. image'[Site(id)] = FieldOf(relas[id].type, 0, relas[id].offset)
              BY <2>2, <3>1, <5>3
        <5> QED
            BY <2>6, <4>4, <5>2, <5>4
      <4>5. CASE ~ (id \in StubRefs(v) /\ relas[id].type \in Data)
        <5>1. image'[Site(id)] = image[Site(id)]
              BY <2>2, <3>1, <4>2, <4>5
        <5>2. Struck(id)' <=> Struck(id)
              BY <2>4, <2>6, <4>1, <4>5
        <5> QED
            BY <5>1, <5>2 DEF IInv, ImageInv
      <4> QED
          BY <4>4, <4>5
    <3> QED
        BY <1>1, <3>1, <3>2, SameInput DEF ImageInv
  <2>10. StubsInv'
    <3>1. /\ DOMAIN rel_info = DOMAIN elf.vstubs
          /\ \A s \in DOMAIN elf.vstubs : s >= v => rel_info[s] = {}
          /\ \A s \in DOMAIN elf.vstubs : s < v =>
               {r.src : r \in rel_info[s]} = StubRefs(s) /\ \A r \in rel_info[s] : StubRecord(r, s)
          BY DEF IInv, StubsInv
    <3>2. /\ DOMAIN rel_info' = DOMAIN elf.vstubs
          /\ \A s \in DOMAIN elf.vstubs : s # v => rel_info'[s] = rel_info[s]
          /\ rel_info'[v] = {VstubRel(id, junk) : id \in StubRefs(v)}
          BY <1>1, <2>1, <2>5, <3>1
    <3>3. \A id : VstubRel(id, junk).src = id
          BY DEF VstubRel
    <3>4. {r.src : r \in rel_info'[v]} = StubRefs(v)
          BY <3>2, <3>3
    <3>5. ASSUME NEW id \in StubRefs(v)
          PROVE  StubRecord(VstubRel(id, junk), v)
      <4>1. relas[id].addend = Read(id).addend /\ relas[id].offset = Read(id).offset
            BY <2>4 DEF StubRefs
      <4> QED
          BY <1>1, <4>1 DEF StubRecord, VstubRel
    <3>6. \A r \in rel_info'[v] : StubRecord(r, v)
          BY <3>2, <3>5
    <3>7. v \in Nat /\ \A s \in DOMAIN elf.vstubs : s \in Nat
          BY <1>1, StubsTyped
    <3>8. ASSUME NEW s \in DOMAIN elf.vstubs
          PROVE  /\ s >= v' => rel_info'[s] = {}
                 /\ s < v' => {r.src : r \in rel_info'[s]} = StubRefs(s) /\ \A r \in rel_info'[s] : StubRecord(r, s)
      <4>1. CASE s = v
            BY <2>2, <3>4, <3>6, <3>7, <4>1
      <4>2. CASE s # v
            BY <2>2, <3>1, <3>2, <3>7, <4>2
      <4> QED
          BY <4>1, <4>2
    <3> QED
        BY <1>1, <2>3, <3>2, <3>8, SameInput DEF StubsInv
  <2>11. ModInv' /\ OutInv'
    <3>1. OutInv'
          BY <1>1, <2>2, Kept DEF IInv
    <3> QED
        BY <1>1, <2>2, <3>1, SameInput DEF IInv, ModInv
  <2> QED
      BY <2>7, <2>8, <2>9, <2>10, <2>11 DEF IInv
<1> QED
    BY <1>2, <1>3

LEMMA StepIInv ==
  IInv /\ [Next]_vars => IInv'
<1> SUFFICES ASSUME IInv, [Next]_vars
             PROVE  IInv'
    OBVIOUS
<1>1. CASE LoadRelTables
      BY <1>1, LoadKeeps
<1>2. CASE LookupVstubRelas
      BY <1>2, LookupKeeps
<1>3. CASE Loaded
      BY <1>3, LoadedKeeps
<1>4. CASE EncodeModuleInfo
      BY <1>4, EncodeKeeps
<1>5. CASE DiscardInvalidRelocs
      BY <1>5, DiscardKeeps
<1>6. CASE WriteModuleInfo
      BY <1>6, WriteModuleInfoKeeps
<1>7. CASE WriteRelaSections
      BY <1>7, WriteRelaKeeps
<1>8. CASE UNCHANGED vars
  <2>1. /\ elf' = elf /\ v' = v /\ pc' = pc /\ relas' = relas /\ image' = image /\ rel_info' = rel_info
        /\ encoded' = encoded /\ modrels' = modrels /\ memsz' = memsz /\ out' = out
        BY <1>8 DEF vars
  <2>2. (Filtered' <=> Filtered) /\ \A id : Struck(id)' <=> Struck(id)
        BY <2>1, Kept DEF Filtered
  <2>3. \A id : Now(id)' = Now(id)
        BY <2>1, <2>2, SameInput DEF Now, Erased
  <2>4. Control' /\ RelasInv'
        BY <2>1, <2>3, SameInput DEF IInv, Control, RelasInv
  <2>5. ImageInv' /\ StubsInv' /\ ModInv'
        BY <2>1, Kept, SameInput DEF IInv, ModInv
  <2>6. \A junk : Emitted(junk)' = Emitted(junk)
    <3>1. \A src, rela, junk : SceRel(src, rela, junk)' = SceRel(src, rela, junk) /\ (Written(rela)' <=> Written(rela))
          BY <2>1, SameInput DEF SceRel, Written, SymValue, SymVaddr
    <3> QED
        BY <2>1, <3>1 DEF Emitted
  <2>7. OutInv'
        BY <2>1, <2>6, SameInput DEF IInv, OutInv, OnlyMappedPatched
  <2> QED
      BY <2>4, <2>5, <2>7 DEF IInv
<1>9. CASE Terminated
      BY <1>8, <1>9 DEF Terminated
<1> QED
    BY <1>1, <1>2, <1>3, <1>4, <1>5, <1>6, <1>7, <1>8, <1>9 DEF Next

\* The inductive invariant holds in every state that the program reaches.
LEMMA Invariance ==
  Spec => []IInv
<1>1. Init => IInv
      BY InitIInv
<1>2. IInv /\ [Next]_vars => IInv'
      BY StepIInv
<1> QED
    BY <1>1, <1>2, PTL DEF Spec

----------------------------------------------------------------------------
(* What follows from it.                                                    *)

\* The field of the short form.
LEMMA ShortRange ==
  ASSUME NEW x \in Word
  PROVE  x % (2 * ShortMax) \in Word
<1>1. 2 * ShortMax \in Nat \ {0} /\ x \in Nat
      BY ConstantsAssumption, WordFacts DEF Word
<1>2. PICK m \in Nat \ {0} : m = 2 * ShortMax
      BY <1>1
<1>3. x % m \in 0 .. m - 1
      BY <1>1, ModRange
<1>4. m <= M
  <2>1. M % m = 0
        BY <1>2, ConstantsAssumption
  <2>2. M \in Nat \ {0}
        BY WordFacts
  <2>3. M < m => M % m = M
        BY <2>2, ModSmall
  <2> QED
      BY <2>1, <2>2, <2>3
<1>5. x % m \in Word
      BY <1>3, <1>4, WordFacts DEF Word
<1> QED
    BY <1>2, <1>5

LEMMA TypesFollow ==
  IInv => TypeOK
<1> SUFFICES ASSUME IInv
             PROVE  TypeOK
    OBVIOUS
<1>1. ElfOK(elf) /\ Control
      BY DEF IInv, Control
<1>2. pc \notin {"load", "failure"} => relas \in [RelIds -> Relas]
  <2>1. ASSUME pc \notin {"load", "failure"}
        PROVE  /\ relas = [id \in RelIds |-> Now(id)]
               /\ \A id \in RelIds : Now(id) \in Relas
        BY <1>1, <2>1, ReadTyped DEF IInv, RelasInv
  <2> QED
      BY <2>1
<1>3. \A site \in DOMAIN image : image[site] \in Word
  <2>1. ASSUME NEW id \in Fields
        PROVE  image[Site(id)] \in Word
    <3>1. RelOf(id).offset \in Word /\ RelOf(id).ref \in Word /\ 0 \in Word
          BY <1>1, RelFacts, WordFacts DEF Fields, RelRecords, Word
    <3> QED
        BY <3>1, FieldTyped DEF IInv, ImageInv, FieldAt
  <2> QED
      BY <2>1 DEF IInv, ImageInv
<1>4. ASSUME NEW s \in DOMAIN elf.vstubs, NEW r \in rel_info[s]
      PROVE  r.addend \in Word /\ r.offset \in Word
  <2>1. s < v /\ StubRecord(r, s)
    <3>1. s \in Int /\ v \in Int
          BY <1>1, StubsTyped DEF Control
    <3> QED
        BY <3>1 DEF IInv, StubsInv
  <2>2. r.src \in RelIds /\ ~ BadRel(r.src)
    <3>1. v > 1
          BY <1>1, <2>1, StubsTyped DEF Control
    <3> QED
        BY <2>1, <3>1 DEF StubRecord, StubRefs, IInv, StubsInv
  <2>3. Read(r.src) \in Relas
        BY <1>1, <2>2, ReadTyped
  <2>4. Read(r.src).offset \in Word /\ Read(r.src).addend \in Word
        BY <2>3 DEF Relas
  <2>5. vaddr_to_segndx(OrigSize, Read(r.src).offset) \in Segs \cup {NoSeg}
    <3>1. Read(r.src).offset \in Int /\ OrigSize \in [Segs -> Nat]
          BY <1>1, <2>4, SegFacts, WordFacts DEF Word
    <3> QED
        BY <1>1, <3>1, SegFound
  <2>6. r.offset \in Word
        BY <1>1, <2>1, <2>4, <2>5, OffsetTyped DEF StubRecord
  <2>7. Read(r.src).addend % (2 * ShortMax) \in Word
        BY <2>4, ShortRange
  <2> QED
      BY <2>1, <2>4, <2>6, <2>7 DEF StubRecord
<1>5. modrels \subseteq Relas
      BY <1>1, HostFacts DEF IInv, ModInv
<1>6. encoded \in BOOLEAN /\ out \subseteq SceRels
      BY DEF IInv, ModInv, OutInv
<1>7. v \in 1 .. Len(elf.vstubs) + 1 /\ memsz \in [Segs -> Nat]
      BY <1>1 DEF Control
<1> QED
    BY <1>1, <1>2, <1>3, <1>4, <1>5, <1>6, <1>7 DEF TypeOK, Control

----------------------------------------------------------------------------
(* Sums and differences of addresses.                                       *)

LEMMA Residues ==
  /\ \A x \in Int : (x % M) % 2 = x % 2
  /\ \A x \in Int : (x % M) % H = x % H
  /\ \A x \in Int : (x % M) % (M \div 2) = x % (M \div 2)
<1>1. PICK h \in Nat \ {0}, n \in Nat \ {0}, m \in Nat \ {0} :
        h = H /\ n = M \div 2 /\ m = M /\ m = n * 2 /\ m = 2 * n
      BY WordFacts
<1>2. m = h * h
      BY <1>1 DEF M
<1>3. 2 \in Nat \ {0} /\ h \in Nat \ {0} /\ n \in Nat \ {0}
      BY <1>1
<1>4. \A x \in Int : (x % (n * 2)) % 2 = x % 2
      BY <1>3, ModOfMod, Zenon
<1>5. \A x \in Int : (x % (h * h)) % h = x % h
      BY <1>3, ModOfMod, Zenon
<1>6. \A x \in Int : (x % (2 * n)) % n = x % n
      BY <1>3, ModOfMod, Zenon
<1>7. M = n * 2 /\ M = h * h /\ M = 2 * n
      BY <1>1, <1>2
<1>8. \A x \in Int : (x % M) % 2 = x % 2
      BY <1>4, <1>7, Zenon
<1>9. \A x \in Int : (x % M) % H = x % H
      BY <1>1, <1>5, <1>7, Zenon
<1>10. \A x \in Int : (x % M) % (M \div 2) = x % (M \div 2)
      BY <1>1, <1>6, <1>7, Zenon
<1> QED
    BY <1>8, <1>9, <1>10

\* What is subtracted can be added again.
LEMMA PlusSub ==
  ASSUME NEW x \in Word, NEW y \in Int
  PROVE  Plus(y, Sub(x, y)) = x /\ Plus(Sub(x, y), y) = x
<1>1. x \in Int /\ x - y \in Int /\ M \in Nat \ {0}
      BY WordFacts DEF Word
<1>2. (y + ((x - y) % M)) % M = (y + (x - y)) % M
      BY <1>1, ModOperands, Zenon
<1>3. (((x - y) % M) + y) % M = ((x - y) + y) % M
      BY <1>1, ModOperands, Zenon
<1>4. y + (x - y) = x /\ (x - y) + y = x
      BY <1>1
<1>5. x % M = x
      BY <1>1, ModSmall DEF Word
<1> QED
    BY <1>2, <1>3, <1>4, <1>5 DEF Plus, Sub

\* Adding a displacement before or after a wrap is the same.
LEMMA PlusPlus ==
  ASSUME NEW x \in Int, NEW y \in Int, NEW z \in Int
  PROVE  Plus(y + Sub(x, y), z) = Plus(x, z)
<1>1. M \in Nat \ {0} /\ x - y \in Int /\ y + z \in Int
      BY WordFacts
<1>2. (((x - y) % M) + (y + z)) % M = ((x - y) + (y + z)) % M
      BY <1>1, ModOperands, Zenon
<1>3. (x - y) % M \in Int
      BY <1>1, ModRange
<1>4. ((x - y) % M) + (y + z) = (y + ((x - y) % M)) + z /\ (x - y) + (y + z) = x + z
      BY <1>3
<1> QED
    BY <1>2, <1>4 DEF Plus, Sub

\* The addends of the short form are recovered from their field.
LEMMA ShortRecovered ==
  ASSUME NEW a \in Word, IsShort(a)
  PROVE  (IF a % (2 * ShortMax) >= ShortMax THEN Sub(a % (2 * ShortMax), 2 * ShortMax) ELSE a % (2 * ShortMax)) = a
<1>1. ShortMax \in Nat \ {0} /\ M \in Nat \ {0} /\ a \in Nat /\ a < M /\ 2 * ShortMax \in Nat \ {0}
      BY ConstantsAssumption, WordFacts DEF Word
<1>2. PICK n \in Nat \ {0} : n = 2 * ShortMax
      BY <1>1
<1>3. CASE a < ShortMax
  <2>1. a % n = a
        BY <1>1, <1>2, <1>3, ModSmall
  <2> QED
      BY <1>1, <1>2, <1>3, <2>1
<1>4. CASE a >= ShortMax
  <2>1. a >= M - ShortMax
        BY <1>1, <1>4 DEF IsShort
  <2> DEFINE d == M - a
  <2>2. d \in 1 .. ShortMax /\ n - d \in 0 .. n - 1 /\ n - d >= ShortMax
        BY <1>1, <1>2, <2>1
  <2>3. a % n = n - d
    <3>1. M % n = 0 % n
      <4>1. M % n = 0
            BY <1>2, ConstantsAssumption
      <4> QED
          BY <4>1, <1>2, ModSmall
    <3>2. M \in Int /\ 0 \in Int /\ d \in Int
          BY <1>1
    <3>3. (M - d) % n = (0 - d) % n
          BY <1>2, <3>1, <3>2, ModSubtractLeft, Zenon
    <3>4. n - d \in Int /\ 0 - d \in Int /\ 1 \in Int /\ n - d = (0 - d) + 1 * n
          BY <1>2, <3>2
    <3>5. (n - d) % n = (0 - d) % n
          BY <3>4, ModShift, Zenon
    <3>6. (n - d) % n = n - d
          BY <2>2, ModSmall
    <3> QED
        BY <1>1, <3>3, <3>5, <3>6
  <2>4. Sub(n - d, n) = a
    <3>1. M - d \in Int /\ 0 - d \in Int /\ 1 \in Int /\ M - d = (0 - d) + 1 * M
          BY <1>1
    <3>2. (M - d) % M = (0 - d) % M
          BY <1>1, <3>1, ModShift, Zenon
    <3>3. M - d = a /\ (n - d) - n = 0 - d
          BY <1>1, <1>2
    <3>4. a % M = a
          BY <1>1, ModSmall
    <3> QED
        BY <3>2, <3>3, <3>4 DEF Sub
  <2> QED
      BY <1>2, <2>2, <2>3, <2>4
<1> QED
    BY <1>1, <1>3, <1>4

\* The addend of an absolute or a relative relocation is what the static
\* linker added to the symbol.
LEMMA PlainAddend ==
  ASSUME ElfOK(elf), NEW id \in Fields, ~ BadRel(id), RelOf(id).type \in {"ABS32", "REL32"}
  PROVE  Read(id).addend = Sub(RelOf(id).ref, SymOf(id))
<1>1. RelOf(id).ref \in Word /\ RelOf(id).offset \in Int /\ Kind(id) = RelOf(id).type
  <2>1. RelOf(id).ref \in Word /\ RelOf(id).offset \in Word
        BY FieldFacts
  <2> QED
      BY <2>1, WordFacts DEF Word, Kind
<1>2. Plus(Sub(RelOf(id).ref, RelOf(id).offset), RelOf(id).offset) = RelOf(id).ref
      BY <1>1, PlusSub
<1>3. Target(id) = RelOf(id).ref
      BY <1>1, <1>2 DEF Target, decode_rel_target, FieldAt, FieldOf
<1>4. Read(id).addend = AddendOf(Kind(id), Target(id), SymOf(id))
      BY FieldFacts
<1> QED
    BY <1>1, <1>3, <1>4 DEF AddendOf

LEMMA StubsFollow ==
  IInv => VstubsRecorded
<1> SUFFICES ASSUME IInv, pc = "done", NEW s \in DOMAIN elf.vstubs, elf.vstubs[s] # 0
             PROVE  LET refs == {id \in RelIds : InRange(id) /\ RelOf(id).type \notin Ignored /\ RelOf(id).sym = elf.vstubs[s]}
                    IN /\ {r.src : r \in rel_info[s]} = refs
                       /\ \A r \in rel_info[s] :
                            LET rel == RelOf(r.src)
                                A   == Sub(rel.ref, elf.syms[rel.sym].value)
                            IN /\ vaddr_to_segndx(OrigSize, rel.offset) # NoSeg =>
                                    Plus(elf.segs[r.datseg].vaddr, r.offset) = rel.offset
                               /\ rel.type \in {"ABS32", "REL32"} => StubAddend(r) = A
                               /\ rel.type \in Data => image[Site(r.src)] = FieldOf(rel.type, 0, rel.offset)
                               /\ \A e \in out : e.src # r.src
    BY DEF VstubsRecorded
<1>1. /\ ElfOK(elf) /\ v = Len(elf.vstubs) + 1 /\ memsz = Extended /\ memsz \in [Segs -> Nat]
      /\ \A id \in RelIds : ~ BadRel(id)
      /\ DOMAIN relas = RelIds
      BY DEF IInv, Control, RelasInv
<1>2. s < v /\ s \in 1 .. v - 1
      BY <1>1, StubsTyped
<1>3. /\ {r.src : r \in rel_info[s]} = StubRefs(s)
      /\ \A r \in rel_info[s] : StubRecord(r, s)
      BY <1>2 DEF IInv, StubsInv
<1>4. ASSUME NEW id \in StubRefs(s)
      PROVE  id \in Fields /\ RelOf(id).sym = elf.vstubs[s] /\ Read(id).symbol = elf.vstubs[s]
  <2>1. id \in RelIds /\ Read(id).symbol = elf.vstubs[s]
        BY DEF StubRefs
  <2>2. id \in Fields
        BY <1>1, <2>1, OtherFacts
  <2>3. Read(id).symbol = RelOf(id).sym
        BY <1>1, <2>1, <2>2, FieldFacts
  <2> QED
      BY <2>1, <2>2, <2>3
<1>5. ASSUME NEW id \in Fields, RelOf(id).sym = elf.vstubs[s]
      PROVE  id \in StubRefs(s)
  <2>1. id \in RelIds
        BY DEF Fields
  <2>2. Read(id).symbol = RelOf(id).sym
        BY <1>1, <2>1, FieldFacts
  <2> QED
      BY <1>5, <2>1, <2>2 DEF StubRefs
<1>6. StubRefs(s) = {id \in RelIds : InRange(id) /\ RelOf(id).type \notin Ignored /\ RelOf(id).sym = elf.vstubs[s]}
      BY <1>4, <1>5 DEF Fields
<1>7. ASSUME NEW r \in rel_info[s], NEW id, id = r.src
      PROVE  /\ vaddr_to_segndx(OrigSize, RelOf(id).offset) # NoSeg =>
                  Plus(elf.segs[r.datseg].vaddr, r.offset) = RelOf(id).offset
             /\ RelOf(id).type \in {"ABS32", "REL32"} => StubAddend(r) = Sub(RelOf(id).ref, elf.syms[RelOf(id).sym].value)
             /\ RelOf(id).type \in Data => image[Site(id)] = FieldOf(RelOf(id).type, 0, RelOf(id).offset)
             /\ \A e \in out : e.src # id
  <2>1. StubRecord(r, s) /\ id \in StubRefs(s) /\ id \in Fields /\ id \in RelIds
        BY <1>3, <1>4, <1>7 DEF Fields
  <2>2. RelOf(id).offset \in Word /\ Read(id).offset = RelOf(id).offset /\ Read(id).type = Kind(id)
        BY <1>1, <2>1, FieldFacts
  <2>3. ASSUME vaddr_to_segndx(OrigSize, RelOf(id).offset) # NoSeg
        PROVE  Plus(elf.segs[r.datseg].vaddr, r.offset) = RelOf(id).offset
    <3>1. PICK g : g = vaddr_to_segndx(OrigSize, RelOf(id).offset)
          OBVIOUS
    <3>2. g \in Segs /\ InSeg(g, OrigSize, RelOf(id).offset)
      <4>1. RelOf(id).offset \in Int /\ OrigSize \in [Segs -> Nat]
            BY <1>1, <2>2, SegFacts, WordFacts DEF Word
      <4> QED
          BY <1>1, <2>3, <3>1, <4>1, SegFound
    <3>3. r.datseg = g /\ \E junk \in Junk : r.offset = vaddr_to_segoffset(RelOf(id).offset, g, junk)
          BY <1>7, <2>1, <2>2, <3>1 DEF StubRecord
    <3>4. elf.segs[g].vaddr + r.offset = RelOf(id).offset
          BY <1>1, <2>2, <3>2, <3>3, OffsetBack DEF InSeg
    <3> QED
        BY <2>2, <3>3, <3>4, WordFacts, ModSmall DEF Plus, Word
  <2>4. ASSUME RelOf(id).type \in {"ABS32", "REL32"}
        PROVE  StubAddend(r) = Sub(RelOf(id).ref, elf.syms[RelOf(id).sym].value)
    <3>1. Read(id).addend = Sub(RelOf(id).ref, elf.syms[RelOf(id).sym].value) /\ Read(id).addend \in Word
      <4>1. ~ BadRel(id)
            BY <1>1, <2>1
      <4>2. Read(id) \in Relas
            BY <1>1, <2>1, <4>1, FieldFacts
      <4> QED
          BY <1>1, <2>1, <2>4, <4>1, <4>2, PlainAddend DEF SymOf, Relas
    <3>2. /\ r.short = IsShort(Read(id).addend)
          /\ r.addend = IF IsShort(Read(id).addend) THEN Read(id).addend % (2 * ShortMax) ELSE Read(id).addend
          BY <1>7, <2>1 DEF StubRecord
    <3>3. CASE IsShort(Read(id).addend)
          BY <3>1, <3>2, <3>3, ShortRecovered DEF StubAddend
    <3>4. CASE ~ IsShort(Read(id).addend)
          BY <3>1, <3>2, <3>4 DEF StubAddend
    <3> QED
        BY <3>3, <3>4
  <2>5. ASSUME RelOf(id).type \in Data
        PROVE  image[Site(id)] = FieldOf(RelOf(id).type, 0, RelOf(id).offset) /\ Struck(id)
    <3>1. Read(id).type \in Data
          BY <2>2, <2>5 DEF Kind, Data
    <3>2. Struck(id)
          BY <1>2, <2>1, <3>1 DEF Struck
    <3> QED
        BY <2>1, <3>2 DEF IInv, ImageInv
  <2>6. ~ Written(relas[id])
    <3> SUFFICES ASSUME Written(relas[id])
                 PROVE  FALSE
        OBVIOUS
    <3>1. relas[id] = Read(id)
          BY <2>1, WrittenFacts
    <3>2. SymValue(Read(id)) = elf.syms[elf.vstubs[s]].value
          BY <1>4, <2>1 DEF SymValue
    <3>3. vaddr_to_segndx(memsz, elf.syms[elf.vstubs[s]].value) # NoSeg
          BY <3>1, <3>2 DEF Written
    <3>4. \A g \in Segs : elf.syms[elf.vstubs[s]].value < elf.segs[g].vaddr
          BY <1>1 DEF ElfOK, Segs
    <3>5. elf.syms[elf.vstubs[s]].value \in Int
      <4>1. elf.vstubs[s] \in DOMAIN elf.syms
            BY <1>1, StubsTyped
      <4> QED
          BY <1>1, <4>1, SymFacts, WordFacts DEF Word
    <3>6. \A g \in Segs : elf.segs[g].vaddr \in Int
      <4>1. \A g \in Segs : elf.segs[g].vaddr \in H .. M - 1
            BY <1>1, SegFacts
      <4> QED
          BY <4>1, WordFacts
    <3> QED
        BY <1>1, <3>3, <3>4, <3>5, <3>6, SegFound DEF InSeg
  <2>7. \A e \in out : e.src # id
    <3>1. PICK junk \in Junk : out = Emitted(junk)
          BY DEF IInv, OutInv
    <3>2. \A x, rela : SceRel(x, rela, junk).src = x
          BY DEF SceRel
    <3>3. id # ModInfo
          BY <1>1, <2>1, RelFacts
    <3> QED
        BY <2>6, <3>1, <3>2, <3>3 DEF Emitted
  <2> QED
      BY <2>3, <2>4, <2>5, <2>7
<1> QED
    BY <1>3, <1>6, <1>7

----------------------------------------------------------------------------
(* With the module info in one segment.                                     *)

\* sce_elf_module_info_encode() and sce_elf_write_module_info() mean the same
\* segment: the entry point is in the segment that the module info is encoded
\* for, or in none, and then the program stops.
EntryAgrees == EntrySeg \in {NoSeg, HostSeg}

LEMMA EntryStays ==
  EntryAgrees /\ IInv /\ [Next]_vars => EntryAgrees'
<1> SUFFICES ASSUME EntryAgrees, [Next]_vars
             PROVE  EntryAgrees'
    OBVIOUS
<1>1. elf' = elf
      BY DEF Next, vars, LoadRelTables, LookupVstubRelas, Loaded, EncodeModuleInfo, DiscardInvalidRelocs,
             WriteModuleInfo, WriteRelaSections, Terminated
<1>2. EntrySeg' = EntrySeg /\ HostSeg' = HostSeg
      BY <1>1, SameInput DEF HostSeg
<1> QED
    BY <1>2 DEF EntryAgrees

\* An aligned address that is not below n is not below n rounded up.
LEMMA AlignedAbove ==
  ASSUME NEW n \in Nat, NEW x \in Int, x % Align = 0, x >= n
  PROVE  x >= AlignUp(n)
<1>1. PICK a \in Nat \ {0}, y \in Int : a = Align /\ y = AlignUp(n) /\ y < n + a /\ y % a = 0
  <2>1. PICK a \in Nat \ {0} : a = Align
        BY ConstantsAssumption
  <2>2. n \in Int
        OBVIOUS
  <2>3. /\ n + ((0 - n) % a) \in Int /\ n + ((0 - n) % a) < n + a
        /\ (n + ((0 - n) % a)) % a = 0
        BY <2>2, RoundedUp, Zenon
  <2>4. AlignUp(n) = n + ((0 - n) % a)
        BY <2>1 DEF AlignUp
  <2> QED
      BY <2>1, <2>3, <2>4
<1>2. x % a = y % a
      BY <1>1
<1>3. PICK q \in Int : x = y + q * a
      BY <1>2, ModDifference
<1>4. CASE q >= 0
  <2>1. q * a >= 0
        BY <1>4, SMT
  <2> QED
      BY <1>1, <1>3, <2>1
<1>5. CASE q < 0
  <2>1. (-q) * a >= a
    <3>1. -q \in Int /\ -q >= 1
          BY <1>5
    <3> QED
        BY <3>1, PositiveMultiple
  <2>2. q * a <= 0 - a
        BY <2>1
  <2> QED
      BY <1>1, <1>3, <2>2
<1> QED
    BY <1>4, <1>5

\* The segments once the file is written.
LEMMA FinalSegments ==
  ASSUME IInv, EntryAgrees, pc = "done"
  PROVE  /\ EntrySeg = HostSeg /\ HostSeg \in Segs /\ memsz = Extended /\ memsz \in [Segs -> Nat]
         /\ elf.segs[HostSeg].vaddr + memsz[HostSeg] = HostBase + elf.modsize
         /\ Apart(memsz)
<1>1. ElfOK(elf) /\ EntrySeg # NoSeg /\ memsz = Extended /\ memsz \in [Segs -> Nat] /\ encoded
      BY DEF IInv, Control, ModInv
<1>2. EntrySeg = HostSeg /\ HostSeg \in Segs /\ HostFree
      BY <1>1, HostFacts DEF EntryAgrees, IInv, ModInv
<1>3. ASSUME NEW s \in Segs
      PROVE  /\ elf.segs[s].vaddr \in Int /\ elf.segs[s].vaddr % Align = 0
             /\ OrigSize[s] = elf.segs[s].memsz /\ elf.segs[s].memsz \in Nat
             /\ s # HostSeg => memsz[s] = elf.segs[s].memsz
  <2>1. elf.segs[s].vaddr \in H .. M - 1 /\ elf.segs[s].vaddr % Align = 0 /\ elf.segs[s].memsz \in Nat
        BY <1>1, SegFacts
  <2>2. elf.segs[s].vaddr \in Int
        BY <2>1, WordFacts
  <2>3. s # HostSeg => Extended[s] = OrigSize[s]
        BY <1>1, <1>2, ExtendedFacts
  <2> QED
      BY <1>1, <2>1, <2>2, <2>3 DEF OrigSize
<1>4. /\ memsz[HostSeg] = AlignUp(elf.segs[HostSeg].memsz) + elf.modsize
      /\ AlignUp(elf.segs[HostSeg].memsz) \in Nat /\ elf.modsize \in Nat
      /\ HostBase = elf.segs[HostSeg].vaddr + AlignUp(elf.segs[HostSeg].memsz)
      BY <1>1, <1>2, <1>3, ExtendedFacts, SegFacts DEF HostBase
<1>5. ASSUME NEW t \in Segs, t # HostSeg
      PROVE  \/ elf.segs[HostSeg].vaddr + memsz[HostSeg] <= elf.segs[t].vaddr
             \/ elf.segs[t].vaddr + memsz[t] <= elf.segs[HostSeg].vaddr
  <2>1. /\ elf.segs[t].vaddr \in Int /\ elf.segs[HostSeg].vaddr \in Int
        /\ elf.segs[t].vaddr % Align = 0 /\ elf.segs[HostSeg].vaddr % Align = 0
        /\ elf.segs[HostSeg].memsz \in Nat /\ elf.segs[t].memsz \in Nat
        /\ memsz[t] = elf.segs[t].memsz
        BY <1>2, <1>3, <1>5
  <2>2. Disjoint(elf.segs[HostSeg], elf.segs[t])
        BY <1>1, <1>2, <1>5, SegFacts
  <2>3. CASE elf.segs[HostSeg].vaddr + elf.segs[HostSeg].memsz <= elf.segs[t].vaddr
    <3> DEFINE x == elf.segs[t].vaddr - elf.segs[HostSeg].vaddr
    <3>1. x \in Int /\ x >= elf.segs[HostSeg].memsz
          BY <2>1, <2>3
    <3>2. x % Align = 0
      <4>1. PICK a \in Nat \ {0}, y \in Int, z \in Int :
              a = Align /\ y = elf.segs[t].vaddr /\ z = elf.segs[HostSeg].vaddr
            BY <2>1, ConstantsAssumption
      <4>2. y % a = z % a
            BY <2>1, <4>1
      <4>3. (y - z) % a = (z - z) % a
            BY <4>2, ModSubtractLeft, Zenon
      <4>4. z - z = 0 /\ 0 % a = 0
            BY ModSmall
      <4> QED
          BY <4>1, <4>3, <4>4
    <3>3. x >= AlignUp(elf.segs[HostSeg].memsz)
      <4> HIDE DEF x
      <4> QED
          BY <2>1, <3>1, <3>2, AlignedAbove
    <3>4. elf.segs[t].vaddr >= HostBase
          BY <1>4, <2>1, <3>3
    <3>5. ~ (elf.segs[t].vaddr < HostBase + elf.modsize)
          BY <1>2, <1>5, <3>4 DEF HostFree
    <3> QED
        BY <1>4, <2>1, <3>5
  <2> QED
      BY <2>1, <2>2, <2>3 DEF Disjoint
<1>6. Apart(memsz)
  <2> SUFFICES ASSUME NEW s \in Segs, NEW t \in Segs, s # t
               PROVE  \/ elf.segs[s].vaddr + memsz[s] <= elf.segs[t].vaddr
                      \/ elf.segs[t].vaddr + memsz[t] <= elf.segs[s].vaddr
      BY DEF Apart
  <2>1. CASE s # HostSeg /\ t # HostSeg
    <3>1. Disjoint(elf.segs[s], elf.segs[t])
          BY <1>1, SegFacts
    <3> QED
        BY <1>3, <2>1, <3>1 DEF Disjoint
  <2>2. CASE s = HostSeg
        BY <1>5, <2>2
  <2>3. CASE t = HostSeg
        BY <1>5, <2>3
  <2> QED
      BY <2>1, <2>2, <2>3
<1>7. elf.segs[HostSeg].vaddr + memsz[HostSeg] = HostBase + elf.modsize
      BY <1>2, <1>3, <1>4
<1> QED
    BY <1>1, <1>2, <1>6, <1>7

LEMMA DisjointFollows ==
  IInv /\ EntryAgrees => SegmentsDisjoint
BY FinalSegments DEF SegmentsDisjoint, Apart

\* A segment of the input only grows.
LEMMA StillMapped ==
  ASSUME IInv, pc = "done", NEW a \in Int, vaddr_to_segndx(OrigSize, a) # NoSeg
  PROVE  vaddr_to_segndx(memsz, a) # NoSeg
<1>1. ElfOK(elf) /\ memsz = Extended /\ memsz \in [Segs -> Nat] /\ OrigSize \in [Segs -> Nat]
      BY OrigApart DEF IInv, Control
<1>2. PICK s \in Segs : InSeg(s, OrigSize, a)
      BY <1>1, SegFound
<1>3. OrigSize[s] <= memsz[s] /\ OrigSize[s] \in Nat /\ memsz[s] \in Nat /\ elf.segs[s].vaddr \in H .. M - 1
      BY <1>1, <1>2, ExtendedFacts, SegFacts
<1>4. InSeg(s, memsz, a)
      BY <1>2, <1>3, WordFacts DEF InSeg
<1> QED
    BY <1>1, <1>2, <1>4, SegFound

LEMMA ModuleInfoFollows ==
  IInv /\ EntryAgrees => ModuleInfoRelocated
<1> SUFFICES ASSUME IInv, EntryAgrees, pc = "done", NEW r \in modrels
             PROVE  \E e \in out :
                      /\ e.src = ModInfo
                      /\ e.datseg # NoSeg /\ elf.segs[e.datseg].vaddr + e.datoff = r.offset
                      /\ e.symseg # NoSeg /\ elf.segs[e.symseg].vaddr + e.symoff = r.addend
    BY DEF ModuleInfoRelocated
<1>1. /\ ElfOK(elf) /\ memsz \in [Segs -> Nat] /\ HostSeg \in Segs
      /\ elf.segs[HostSeg].vaddr + memsz[HostSeg] = HostBase + elf.modsize
      BY FinalSegments DEF IInv, Control
<1>2. PICK p \in elf.modptrs :
        HostPointsTo(p) # 0
        /\ r = [type |-> "ABS32", symbol |-> 0, offset |-> HostBase + p.at, addend |-> HostPointsTo(p)]
      BY DEF IInv, ModInv, HostRels
<1>3. /\ r.offset = HostBase + p.at /\ r.offset \in Word
      /\ r.addend = HostPointsTo(p) /\ r.addend \in Word
      /\ r.symbol = 0 /\ r.type = "ABS32"
      BY <1>1, <1>2, HostFacts
<1>4. /\ elf.segs[HostSeg].vaddr \in Int /\ HostBase \in Nat /\ elf.modsize \in Nat
      /\ HostBase >= elf.segs[HostSeg].vaddr
  <2>1. elf.segs[HostSeg].vaddr \in H .. M - 1
        BY <1>1, SegFacts
  <2> QED
      BY <1>1, <2>1, HostFacts, SegFacts, WordFacts
<1>5. ASSUME NEW k \in Nat, k < elf.modsize
      PROVE  vaddr_to_segndx(memsz, HostBase + k) # NoSeg
  <2>1. InSeg(HostSeg, memsz, HostBase + k)
        BY <1>1, <1>4, <1>5 DEF InSeg
  <2>2. HostBase + k \in Int
        BY <1>4
  <2> QED
      BY <1>1, <2>1, <2>2, SegFound
<1>6. vaddr_to_segndx(memsz, r.offset) # NoSeg
  <2>1. p.at \in Nat /\ p.at < elf.modsize
    <3>1. p.at \in 0 .. elf.modsize - 1
          BY <1>1, HostFacts
    <3> QED
        BY <1>4, <3>1
  <2> QED
      BY <1>3, <1>5, <2>1
<1>7. vaddr_to_segndx(memsz, r.addend) # NoSeg
  <2>1. p.to \in Word
        BY <1>1 DEF ElfOK, ElfTyped
  <2>2. p.to \in Nat
        BY <2>1, WordFacts DEF Word
  <2>3. CASE p.self
    <3>1. p.to < elf.modsize
          BY <1>1, <2>3 DEF ElfOK
    <3> QED
        BY <1>3, <1>5, <2>2, <2>3, <3>1 DEF HostPointsTo
  <2>4. CASE ~ p.self
    <3>1. p.to # 0 /\ r.addend = p.to
          BY <1>2, <1>3, <2>4 DEF HostPointsTo
    <3>2. PICK g \in DOMAIN elf.segs : p.to >= elf.segs[g].vaddr /\ p.to < elf.segs[g].vaddr + elf.segs[g].memsz
          BY <1>1, <2>4, <3>1 DEF ElfOK
    <3>3. g \in Segs /\ InSeg(g, OrigSize, p.to)
          BY <3>2 DEF Segs, InSeg, OrigSize
    <3>4. vaddr_to_segndx(OrigSize, p.to) # NoSeg
      <4>1. OrigSize \in [Segs -> Nat] /\ p.to \in Int
            BY <1>1, <2>2, OrigApart
      <4> QED
          BY <1>1, <3>3, <4>1, SegFound
    <3>5. p.to \in Int
          BY <2>2
    <3> QED
        BY <3>1, <3>4, <3>5, StillMapped
  <2> QED
      BY <2>3, <2>4
<1>8. Written(r) /\ SymVaddr(r) = r.addend /\ SymValue(r) = r.addend
      BY <1>3, <1>7 DEF Written, SymValue, SymVaddr
<1>9. PICK junk \in Junk : out = Emitted(junk)
      BY DEF IInv, OutInv
<1>10. ASSUME NEW a \in Word, vaddr_to_segndx(memsz, a) # NoSeg
       PROVE  LET s == vaddr_to_segndx(memsz, a)
              IN s # NoSeg /\ elf.segs[s].vaddr + vaddr_to_segoffset(a, s, junk) = a
  <2>1. PICK s : s = vaddr_to_segndx(memsz, a)
        OBVIOUS
  <2>2. s \in Segs /\ s # NoSeg /\ InSeg(s, memsz, a)
    <3>1. a \in Int
          BY WordFacts DEF Word
    <3> QED
        BY <1>1, <1>10, <2>1, <3>1, SegFound
  <2> QED
      BY <1>1, <2>1, <2>2, OffsetBack DEF InSeg
<1>11. SceRel(ModInfo, r, junk) \in out
       BY <1>8, <1>9 DEF Emitted
<1>12. PICK e : e = SceRel(ModInfo, r, junk)
       OBVIOUS
<1>13. /\ e.src = ModInfo
       /\ e.datseg = vaddr_to_segndx(memsz, r.offset) /\ e.symseg = vaddr_to_segndx(memsz, r.addend)
       /\ e.datoff = vaddr_to_segoffset(r.offset, e.datseg, junk)
       /\ e.symoff = vaddr_to_segoffset(r.addend, e.symseg, junk)
       BY <1>8, <1>12 DEF SceRel
<1> QED
    BY <1>3, <1>6, <1>7, <1>10, <1>11, <1>12, <1>13

----------------------------------------------------------------------------
(* The address that a decoded relocation refers to.                         *)

Reach(id) == Plus(SymOf(id), Read(id).addend)

LEMMA ReachPlain ==
  ASSUME ElfOK(elf), NEW id \in Fields, ~ BadRel(id), RelOf(id).type \in {"ABS32", "REL32", "CALL"}
  PROVE  Reach(id) = RelOf(id).ref
<1>1. RelOf(id).ref \in Word /\ RelOf(id).offset \in Int /\ SymOf(id) \in Int /\ Kind(id) = RelOf(id).type
  <2>1. RelOf(id).ref \in Word /\ RelOf(id).offset \in Word /\ SymOf(id) \in Word
        BY FieldFacts
  <2> QED
      BY <2>1, WordFacts DEF Word, Kind
<1>2. Target(id) = RelOf(id).ref
      BY <1>1, PlusSub DEF Target, decode_rel_target, FieldAt, FieldOf
<1>3. Read(id).addend = Sub(RelOf(id).ref, SymOf(id))
  <2>1. Read(id).addend = AddendOf(Kind(id), Target(id), SymOf(id))
        BY FieldFacts
  <2> QED
      BY <1>1, <1>2, <2>1 DEF AddendOf
<1> QED
    BY <1>1, <1>3, PlusSub DEF Reach

LEMMA ReachPrel31 ==
  ASSUME ElfOK(elf), NEW id \in Fields, ~ BadRel(id), RelOf(id).type = "PREL31"
  PROVE  Reach(id) \in Word /\ Reach(id) % (M \div 2) = RelOf(id).ref % (M \div 2)
<1>1. /\ RelOf(id).ref \in Word /\ RelOf(id).offset \in Word /\ SymOf(id) \in Word /\ Target(id) \in Word
      /\ Kind(id) = "PREL31"
      BY FieldFacts DEF Kind
<1>2. PICK h \in Nat \ {0}, r \in Int, p \in Int, s \in Int :
        h = M \div 2 /\ r = RelOf(id).ref /\ p = RelOf(id).offset /\ s = SymOf(id)
      BY <1>1, WordFacts DEF Word
<1>3. Reach(id) = Target(id)
  <2>1. Read(id).addend = AddendOf(Kind(id), Target(id), SymOf(id))
        BY FieldFacts
  <2>2. Read(id).addend = Sub(Target(id), s)
        BY <1>1, <1>2, <2>1 DEF AddendOf
  <2> QED
      BY <1>1, <1>2, <2>2, PlusSub DEF Reach
<1>4. Target(id) = Plus(Sub(r, p) % h, p)
      BY <1>1, <1>2 DEF Target, decode_rel_target, FieldAt, FieldOf
<1>5. Plus(Sub(r, p) % h, p) % h = r % h
  <2>1. r - p \in Int /\ Sub(r, p) \in Int /\ Sub(r, p) % h \in Int
    <3>1. r - p \in Int /\ Sub(r, p) \in Word
          BY <1>2, WordOps
    <3>2. Sub(r, p) \in Int
          BY <3>1, WordFacts DEF Word
    <3> QED
        BY <1>2, <3>1, <3>2, ModRange
  <2>2. (Sub(r, p) % h) + p \in Int /\ Sub(r, p) + p \in Int
        BY <1>2, <2>1
  <2>3. (((Sub(r, p) % h) + p) % M) % h = ((Sub(r, p) % h) + p) % h
        BY <1>2, <2>2, Residues
  <2>4. ((Sub(r, p) % h) + p) % h = (Sub(r, p) + p) % h
    <3>1. h \in Nat \ {0} /\ Sub(r, p) \in Int /\ p \in Int
          BY <1>2, <2>1
    <3> QED
        BY <3>1, ModOperands, Zenon
  <2>5. ((Sub(r, p) + p) % M) % h = (Sub(r, p) + p) % h
        BY <1>2, <2>2, Residues
  <2>6. (Sub(r, p) + p) % M = r
        BY <1>1, <1>2, PlusSub DEF Plus
  <2> QED
      BY <2>3, <2>4, <2>5, <2>6 DEF Plus
<1> QED
    BY <1>1, <1>2, <1>3, <1>4, <1>5

\* Even addresses have even sums and differences.
LEMMA EvenOps ==
  ASSUME NEW x \in Int, NEW y \in Int, x % 2 = 0, y % 2 = 0
  PROVE  Plus(x, y) % 2 = 0 /\ Sub(x, y) % 2 = 0
<1>1. (x + y) % 2 = 0 /\ (x - y) % 2 = 0
      BY SMT
<1> QED
    BY <1>1, Residues DEF Plus, Sub

\* An even word and its successor are words.
LEMMA EvenNext ==
  ASSUME NEW x \in Word, x % 2 = 0, NEW b \in 0 .. 1
  PROVE  x + b \in Word /\ (x + b) - ((x + b) % 2) = x
<1>1. M \in Nat \ {0} /\ M % 2 = 0 /\ x \in Nat /\ x < M
      BY WordFacts DEF Word
<1>2. x + b < M
      BY <1>1, SMT
<1>3. (x + b) % 2 = b
      BY <1>1, SMT
<1> QED
    BY <1>1, <1>2, <1>3 DEF Word

LEMMA ReachBranch ==
  ASSUME ElfOK(elf), NEW id \in Fields, ~ BadRel(id), RelOf(id).type \in {"THM_CALL", "THM_JUMP24"}
  PROVE  /\ RelOf(id).ref % 2 = 0 /\ RelOf(id).offset % 2 = 0
         /\ \E b \in 0 .. 1 : Reach(id) = RelOf(id).ref + b
<1>1. /\ RelOf(id).ref \in Word /\ RelOf(id).offset \in Word /\ SymOf(id) \in Word
      /\ Kind(id) = "THM_CALL"
      BY FieldFacts DEF Kind
<1>2. RelOf(id).ref % 2 = 0 /\ RelOf(id).offset % 2 = 0
      BY RelFacts DEF Fields, RelOK
<1>3. PICK r \in Word, p \in Int, s \in Int :
        r = RelOf(id).ref /\ p = RelOf(id).offset /\ s = SymOf(id) /\ r \in Int
      BY <1>1, WordFacts DEF Word
<1>4. Target(id) = r
  <2>1. Sub(r, p) % 2 = 0
        BY <1>2, <1>3, EvenOps
  <2>2. Sub(r, p) \in Word
        BY <1>3, WordOps
  <2>3. FieldAt(id) = Sub(r, p)
    <3>1. FieldAt(id) = Sub(r, p) - (Sub(r, p) % 2)
          BY <1>3 DEF FieldAt, FieldOf
    <3> QED
        BY <2>1, <2>2, <3>1, WordFacts DEF Word
  <2>4. Target(id) = Plus(FieldAt(id), p)
        BY <1>1, <1>3 DEF Target, decode_rel_target
  <2> QED
      BY <1>3, <2>3, <2>4, PlusSub
<1>5. PICK b \in 0 .. 1 : b = s % 2
      BY <1>3, SMT
<1>6. Read(id).addend = Sub(r, s - b)
  <2>1. Read(id).addend = AddendOf(Kind(id), Target(id), SymOf(id))
        BY FieldFacts
  <2> QED
      BY <1>1, <1>3, <1>4, <1>5, <2>1 DEF AddendOf
<1>7. Reach(id) = (r + b) % M
  <2>1. M \in Nat \ {0} /\ r - (s - b) \in Int /\ b \in Int
        BY <1>3, <1>5, WordFacts
  <2>2. (s + ((r - (s - b)) % M)) % M = (s + (r - (s - b))) % M
        BY <1>3, <2>1, ModOperands, ZenonT(40)
  <2>3. s + (r - (s - b)) = r + b
        BY <1>3, <2>1
  <2> QED
      BY <1>3, <1>6, <2>2, <2>3 DEF Reach, Plus, Sub
<1>8. r + b \in Word
      BY <1>2, <1>3, <1>5, EvenNext
<1>9. (r + b) % M = r + b
      BY <1>8, WordFacts, ModSmall DEF Word
<1> QED
    BY <1>2, <1>3, <1>5, <1>7, <1>9

LEMMA ReachMovw ==
  ASSUME ElfOK(elf), NEW id \in Fields, ~ BadRel(id), RelOf(id).type = "MOVW", SymOf(id) >= H
  PROVE  Reach(id) \in Word /\ Reach(id) # 0 /\ Reach(id) % H = RelOf(id).ref % H
<1>1. /\ RelOf(id).ref \in Word /\ SymOf(id) \in Word /\ Kind(id) = "MOVW"
      BY FieldFacts DEF Kind
<1>2. PICK h \in Nat \ {0}, r \in Int, s \in Int :
        h = H /\ r = RelOf(id).ref /\ s = SymOf(id) /\ s >= h /\ s < M /\ h * h = M
      BY <1>1, WordFacts DEF Word, M
<1>3. r % h \in 0 .. h - 1 /\ s % h \in 0 .. h - 1
      BY <1>2, ModRange
<1>4. Read(id).addend = Sub(r % h, s % h)
  <2>1. Read(id).addend = AddendOf(Kind(id), Target(id), SymOf(id))
        BY FieldFacts
  <2>2. Target(id) = r % h
        BY <1>1, <1>2 DEF Target, decode_rel_target, FieldAt, FieldOf, lo
  <2> QED
      BY <1>1, <1>2, <2>1, <2>2 DEF AddendOf, lo
<1>5. PICK t \in Int : t = (s - (s % h)) + (r % h)
      BY <1>2, <1>3
<1>6. Reach(id) = t % M
  <2>1. M \in Nat \ {0} /\ (r % h) - (s % h) \in Int
        BY <1>3, WordFacts
  <2>2. (s + (((r % h) - (s % h)) % M)) % M = (s + ((r % h) - (s % h))) % M
    <3>1. s \in Int
          BY <1>2
    <3> QED
        BY <2>1, <3>1, ModOperands, Zenon
  <2>3. s + ((r % h) - (s % h)) = t
        BY <1>2, <1>3, <1>5
  <2> QED
      BY <1>2, <1>4, <2>2, <2>3 DEF Reach, Plus, Sub
<1>7. PICK q \in Int : s = q * h + (s % h) /\ q = s \div h
      BY <1>2, DivMod
<1>8. q >= 1 /\ q <= h - 1
  <2>1. CASE q <= 0
    <3>1. q * h <= 0
          BY <1>2, <2>1, SMT
    <3> QED
        BY <1>2, <1>3, <1>7, <3>1
  <2>2. CASE q >= h
    <3>1. q * h >= h * h
          BY <1>2, <2>2, SMT
    <3> QED
        BY <1>2, <1>3, <1>7, <3>1
  <2> QED
      BY <1>2, <2>1, <2>2
<1>9. t = q * h + (r % h)
      BY <1>3, <1>5, <1>7
<1>10. t >= h /\ t < M
  <2>1. q * h >= h
        BY <1>2, <1>8, PositiveMultiple
  <2>2. (h - q) * h >= h
    <3>1. h - q \in Int /\ h - q >= 1
          BY <1>2, <1>8
    <3> QED
        BY <1>2, <3>1, PositiveMultiple
  <2>3. q * h + h <= M
    <3>1. (h - q) * h = h * h - q * h
          BY <1>2, SMT
    <3> QED
        BY <1>2, <2>2, <3>1
  <2> QED
      BY <1>2, <1>3, <1>9, <2>1, <2>3
<1>11. t % h = r % h
  <2>1. r % h \in Int
        BY <1>3
  <2>2. t % h = (r % h) % h
    <3>1. t = (r % h) + q * h
          BY <1>3, <1>9, <2>1
    <3> QED
        BY <1>2, <2>1, <3>1, ModShift
  <2>3. (r % h) % h = r % h
        BY <1>2, ModIdempotent
  <2> QED
      BY <2>2, <2>3
<1>12. t % M = t
       BY <1>2, <1>10, WordFacts, ModSmall
<1> QED
    BY <1>2, <1>6, <1>10, <1>11, <1>12, WordFacts DEF Word

LEMMA ReachMovt ==
  ASSUME ElfOK(elf), NEW id \in Fields, ~ BadRel(id), RelOf(id).type = "MOVT"
  PROVE  Reach(id) = RelOf(id).ref /\ RelOf(id).ref = SymOf(id)
<1>1. /\ SymOf(id) \in Word /\ Kind(id) = "MOVT" /\ RelOf(id).sym \in DOMAIN elf.syms
      BY FieldFacts DEF Kind
<1>2. RelOf(id).ref = SymOf(id)
      BY <1>1, RelFacts DEF Fields, RelOK, SymOf
<1>3. hi(SymOf(id)) \in Int /\ SymOf(id) \in Int /\ M \in Nat \ {0}
      BY <1>1, Halves, WordFacts DEF Word
<1>4. Read(id).addend = Sub(hi(SymOf(id)), hi(SymOf(id)))
  <2>1. Read(id).addend = AddendOf(Kind(id), Target(id), SymOf(id))
        BY FieldFacts
  <2>2. Target(id) = hi(SymOf(id))
        BY <1>1, <1>2 DEF Target, decode_rel_target, FieldAt, FieldOf
  <2> QED
      BY <1>1, <2>1, <2>2 DEF AddendOf
<1>5. Read(id).addend = 0
  <2>1. hi(SymOf(id)) - hi(SymOf(id)) = 0
        BY <1>3
  <2>2. 0 % M = 0
        BY <1>3, ModSmall
  <2> QED
      BY <1>4, <2>1, <2>2 DEF Sub
<1>6. SymOf(id) % M = SymOf(id)
      BY <1>1, WordFacts, ModSmall DEF Word
<1> QED
    BY <1>2, <1>3, <1>5, <1>6 DEF Reach, Plus

\* The field that the loader computes from what a decoded relocation refers to
\* is the one that the relocation asks for.
SameField(id) ==
  /\ Reach(id) \in Word /\ Reach(id) # 0
  /\ \A d, w \in Nat : d % 2 = 0 /\ w % 2 = 0 =>
       FieldOf(Kind(id), Plus(Reach(id), d), Plus(RelOf(id).offset, w))
         = FieldOf(RelOf(id).type, Plus(RelOf(id).ref, d), Plus(RelOf(id).offset, w))

\* A successor of an even word keeps its place under even displacements.
LEMMA EvenMoved ==
  ASSUME NEW x \in Word, x % 2 = 0, NEW b \in 0 .. 1, NEW z \in Int, z % 2 = 0
  PROVE  Plus(x + b, z) = Plus(x, z) + b /\ Sub(x + b, z) = Sub(x, z) + b
<1>1. x \in Int /\ M \in Nat \ {0} /\ x + z \in Int /\ x - z \in Int /\ b \in Int
      BY WordFacts DEF Word
<1>2. Plus(x, z) \in Word /\ Plus(x, z) % 2 = 0 /\ Sub(x, z) \in Word /\ Sub(x, z) % 2 = 0
      BY <1>1, WordOps, EvenOps
<1>3. Plus(x, z) + b \in Word /\ Sub(x, z) + b \in Word
      BY <1>2, EvenNext
<1>4. (((x + z) % M) + b) % M = ((x + z) + b) % M /\ (((x - z) % M) + b) % M = ((x - z) + b) % M
  <2>1. (((x + z) % M) + b) % M = ((x + z) + b) % M
        BY <1>1, ModOperands, Zenon
  <2>2. (((x - z) % M) + b) % M = ((x - z) + b) % M
        BY <1>1, ModOperands, Zenon
  <2> QED
      BY <2>1, <2>2
<1>5. (x + z) + b = (x + b) + z /\ (x - z) + b = (x + b) - z
      BY <1>1
<1>6. (Plus(x, z) + b) % M = Plus(x, z) + b /\ (Sub(x, z) + b) % M = Sub(x, z) + b
      BY <1>1, <1>3, ModSmall DEF Word
<1> QED
    BY <1>4, <1>5, <1>6 DEF Plus, Sub

LEMMA ReachRight ==
  ASSUME ElfOK(elf), NEW id \in Fields, ~ BadRel(id), elf.syms[RelOf(id).sym].shndx = "DEF", SymOf(id) >= H
  PROVE  SameField(id)
<1>1. /\ RelOf(id).ref \in Word /\ RelOf(id).offset \in Word /\ SymOf(id) \in Word
      /\ Kind(id) \in Normal /\ RelOf(id).sym \in DOMAIN elf.syms
      BY FieldFacts
<1>2. RelOf(id).ref # 0 /\ (RelOf(id).type = "PREL31" => RelOf(id).ref # M \div 2)
  <2>1. SymOf(id) # 0
        BY <1>1, WordFacts DEF Word
  <2> QED
      BY <1>1, <2>1, RelFacts DEF Fields, RelOK, SymOf
<1>3. PICK r \in Word, p \in Word, n \in Nat \ {0} :
        r = RelOf(id).ref /\ p = RelOf(id).offset /\ n = M \div 2 /\ r \in Int /\ p \in Int
      BY <1>1, WordFacts DEF Word
<1>4. CASE RelOf(id).type \in {"ABS32", "REL32", "CALL", "MOVT"}
  <2>1. Reach(id) = RelOf(id).ref /\ Kind(id) = RelOf(id).type
        BY <1>4, ReachPlain, ReachMovt DEF Kind
  <2> QED
      BY <1>1, <1>2, <2>1 DEF SameField
<1>5. CASE RelOf(id).type \in {"THM_CALL", "THM_JUMP24"}
  <2>1. r % 2 = 0 /\ p % 2 = 0 /\ \E b \in 0 .. 1 : Reach(id) = r + b
        BY <1>3, <1>5, ReachBranch
  <2>2. PICK b \in 0 .. 1 : Reach(id) = r + b
        BY <2>1
  <2>3. Reach(id) \in Word
        BY <1>3, <2>1, <2>2, EvenNext
  <2>4. Reach(id) # 0
        BY <1>2, <1>3, <2>2, WordFacts DEF Word
  <2>5. ASSUME NEW d \in Nat, NEW w \in Nat, d % 2 = 0, w % 2 = 0
        PROVE  FieldOf("THM_CALL", Plus(r + b, d), Plus(p, w)) = FieldOf("THM_CALL", Plus(r, d), Plus(p, w))
    <3>1. PICK x \in Word, z \in Word : x = Plus(r, d) /\ z = Plus(p, w) /\ x % 2 = 0 /\ z % 2 = 0
      <4>1. d \in Int /\ w \in Int
            OBVIOUS
      <4> QED
          BY <1>3, <2>1, <2>5, <4>1, WordOps, EvenOps
    <3>2. x \in Int /\ z \in Int /\ d \in Int
          BY <3>1, WordFacts DEF Word
    <3>3. Plus(r + b, d) = x + b
      <4>1. r \in Word /\ r % 2 = 0 /\ b \in 0 .. 1 /\ d % 2 = 0
            BY <1>3, <2>1, <2>2, <2>5
      <4>2. Plus(r + b, d) = Plus(r, d) + b
            BY <3>2, <4>1, EvenMoved
      <4> QED
          BY <3>1, <4>2
    <3>4. Sub(x + b, z) = Sub(x, z) + b
          BY <2>2, <3>1, <3>2, EvenMoved
    <3>5. Sub(x, z) \in Word /\ Sub(x, z) % 2 = 0
          BY <3>1, <3>2, WordOps, EvenOps
    <3>6. (Sub(x, z) + b) - ((Sub(x, z) + b) % 2) = Sub(x, z)
          BY <3>5, EvenNext
    <3>7. Sub(x, z) - (Sub(x, z) % 2) = Sub(x, z)
          BY <3>5, WordFacts DEF Word
    <3>8. FieldOf("THM_CALL", x + b, z) = FieldOf("THM_CALL", x, z)
          BY <3>4, <3>6, <3>7 DEF FieldOf
    <3> QED
        BY <3>1, <3>3, <3>8
  <2>6. Kind(id) = "THM_CALL" /\ \A a, q : FieldOf(RelOf(id).type, a, q) = FieldOf("THM_CALL", a, q)
        BY <1>5 DEF Kind, FieldOf
  <2> QED
      BY <1>3, <2>2, <2>3, <2>4, <2>5, <2>6 DEF SameField
<1>6. CASE RelOf(id).type = "PREL31"
  <2>1. Reach(id) \in Word /\ Reach(id) % n = r % n
        BY <1>3, <1>6, ReachPrel31
  <2>2. PICK t \in Int : t = Reach(id)
        BY <2>1, WordFacts DEF Word
  <2>3. Reach(id) # 0
    <3>1. r % n # 0
      <4>1. M = 2 * n /\ r < M /\ r \in Nat /\ r # 0 /\ r # n
            BY <1>2, <1>3, <1>6, WordFacts DEF Word
      <4>2. CASE r < n
            BY <4>1, <4>2, ModSmall
      <4>3. CASE r > n
        <5>1. r - n \in 0 .. n - 1 /\ r - n # 0 /\ r - n \in Int /\ 1 \in Int /\ r = (r - n) + 1 * n
              BY <4>1, <4>3
        <5>2. r % n = (r - n) % n
          <6>1. r \in Int /\ r - n \in Int /\ 1 \in Int /\ n \in Nat \ {0}
                BY <1>3, <5>1
          <6>2. r = (r - n) + 1 * n
                BY <5>1
          <6> QED
              BY <6>1, <6>2, ModShift, ZenonT(40)
        <5>3. (r - n) % n = r - n
              BY <5>1, ModSmall
        <5> QED
            BY <5>1, <5>2, <5>3
      <4> QED
          BY <4>1, <4>2, <4>3
    <3>2. 0 % n = 0
          BY ModSmall
    <3> QED
        BY <2>1, <3>1, <3>2
  <2>4. ASSUME NEW d \in Nat, NEW w \in Nat
        PROVE  FieldOf("PREL31", Plus(t, d), Plus(p, w)) = FieldOf("PREL31", Plus(r, d), Plus(p, w))
    <3>1. PICK z \in Int : z = Plus(p, w)
      <4>1. w \in Int /\ p \in Int
            BY <1>3
      <4>2. Plus(p, w) \in Word
            BY <4>1, WordOps
      <4> QED
          BY <4>2, WordFacts DEF Word
    <3>2. ASSUME NEW x \in Int
          PROVE  Sub(Plus(x, d), z) % n = ((x + d) - z) % n
      <4>1. x + d \in Int /\ Plus(x, d) \in Int /\ Plus(x, d) - z \in Int
        <5>1. d \in Int
              OBVIOUS
        <5>2. Plus(x, d) \in Word
              BY <5>1, WordOps
        <5> QED
            BY <3>1, <5>2, WordFacts DEF Word
      <4>2. ((Plus(x, d) - z) % M) % n = (Plus(x, d) - z) % n
            BY <1>3, <4>1, Residues
      <4>3. Plus(x, d) % n = (x + d) % n
            BY <1>3, <4>1, Residues DEF Plus
      <4>4. (Plus(x, d) - z) % n = ((x + d) - z) % n
        <5>1. n \in Nat \ {0} /\ Plus(x, d) \in Int /\ x + d \in Int /\ z \in Int
              BY <1>3, <3>1, <4>1
        <5> QED
            BY <4>3, <5>1, ModSubtractLeft, Zenon
      <4> QED
          BY <4>2, <4>4 DEF Sub
    <3>3. (t + d) % n = (r + d) % n
      <4>1. t \in Int /\ r \in Int /\ d \in Int /\ n \in Nat \ {0} /\ t % n = r % n
            BY <1>3, <2>1, <2>2
      <4> QED
          BY <4>1, ModAddLeft, Zenon
    <3>4. ((t + d) - z) % n = ((r + d) - z) % n
      <4>1. t + d \in Int /\ r + d \in Int
            BY <1>3
      <4> QED
          BY <3>1, <3>3, <4>1, ModSubtractLeft, Zenon
    <3>5. Sub(Plus(t, d), z) % n = Sub(Plus(r, d), z) % n
          BY <1>3, <2>2, <3>2, <3>4
    <3> QED
        BY <1>3, <3>1, <3>5 DEF FieldOf
  <2>5. Kind(id) = "PREL31"
        BY <1>6 DEF Kind
  <2> QED
      BY <1>3, <1>6, <2>1, <2>2, <2>3, <2>4, <2>5 DEF SameField
<1>7. CASE RelOf(id).type = "MOVW"
  <2>1. Reach(id) \in Word /\ Reach(id) # 0 /\ Reach(id) % H = r % H
        BY <1>3, <1>7, ReachMovw
  <2>2. PICK t \in Int, h \in Nat \ {0} : t = Reach(id) /\ h = H
        BY <2>1, WordFacts DEF Word
  <2>3. ASSUME NEW d \in Nat
        PROVE  lo(Plus(t, d)) = lo(Plus(r, d))
    <3>1. t + d \in Int /\ r + d \in Int /\ t \in Int /\ r \in Int /\ d \in Int
          BY <1>3, <2>2
    <3>2. ((t + d) % M) % H = (t + d) % H /\ ((r + d) % M) % H = (r + d) % H
          BY <3>1, Residues
    <3>3. t % h = r % h
          BY <2>1, <2>2
    <3>4. (t + d) % h = (r + d) % h
          BY <3>1, <3>3, ModAddLeft, Zenon
    <3> QED
        BY <2>2, <3>2, <3>4 DEF lo, Plus
  <2>4. Kind(id) = "MOVW"
        BY <1>7 DEF Kind
  <2> QED
      BY <1>3, <1>7, <2>1, <2>2, <2>3, <2>4 DEF SameField, FieldOf
<1> QED
  <2>1. RelOf(id).type \in {"ABS32", "REL32", "CALL", "MOVT", "THM_CALL", "THM_JUMP24", "PREL31", "MOVW"}
        BY <1>1 DEF Kind, Normal, Data
  <2> QED
      BY <1>4, <1>5, <1>6, <1>7, <2>1

----------------------------------------------------------------------------

LEMMA WrittenRelocatable ==
  ASSUME IInv, pc = "done", NEW id \in RelIds, Written(relas[id])
  PROVE  Relocatable(id)
<1>1. /\ ElfOK(elf) /\ memsz \in [Segs -> Nat]
      /\ ~ BadRel(id) /\ relas[id] = Read(id) /\ ~ Dropped(id)
      BY WrittenFacts DEF IInv, Control
<1>2. id \in Fields
  <2> SUFFICES ASSUME id \notin Fields
               PROVE  FALSE
      OBVIOUS
  <2>1. Read(id).symbol = 0 /\ Read(id).addend = 0
        BY <1>1, OtherFacts
  <2>2. 0 \in Int /\ 0 < H
        BY WordFacts
  <2>3. vaddr_to_segndx(memsz, 0) = NoSeg
        BY <1>1, <2>2, NullUnmapped
  <2> QED
      BY <1>1, <2>1, <2>3 DEF Written, SymValue
<1>3. /\ RelOf(id).sym \in DOMAIN elf.syms /\ Read(id).symbol = RelOf(id).sym
      /\ Read(id).offset = RelOf(id).offset
      BY <1>1, <1>2, FieldFacts
<1>4. RelOf(id).sym # 0 /\ elf.syms[RelOf(id).sym].shndx \in {"UND", "ABS", "COMMON", "DEF"}
      BY <1>1, <1>3, SymFacts
<1>5. elf.syms[RelOf(id).sym].shndx = "DEF" /\ vaddr_to_segndx(OrigSize, RelOf(id).offset) # NoSeg
      BY <1>1, <1>3, <1>4 DEF Dropped
<1>6. vaddr_to_segndx(memsz, elf.syms[RelOf(id).sym].value) # NoSeg
      BY <1>1, <1>3, <1>4 DEF Written, SymValue
<1> QED
    BY <1>2, <1>5, <1>6 DEF Relocatable, Fields

LEMMA RelocatableWritten ==
  ASSUME IInv, pc = "done", NEW id \in RelIds, Relocatable(id)
  PROVE  /\ id \in Fields /\ ~ BadRel(id) /\ relas[id] = Read(id) /\ Written(relas[id])
         /\ Read(id).symbol # 0 /\ Read(id).symbol = RelOf(id).sym
<1>1. /\ ElfOK(elf) /\ memsz \in [Segs -> Nat] /\ v = Len(elf.vstubs) + 1
      /\ ~ BadRel(id) /\ relas[id] = Now(id)
      BY DEF IInv, Control, RelasInv
<1>2. id \in Fields
      BY DEF Fields, Relocatable
<1>3. /\ RelOf(id).sym \in DOMAIN elf.syms /\ Read(id).symbol = RelOf(id).sym
      /\ Read(id).offset = RelOf(id).offset /\ Read(id).type = Kind(id) /\ Kind(id) \in Normal
      BY <1>1, <1>2, FieldFacts
<1>4. RelOf(id).sym # 0 /\ elf.syms[RelOf(id).sym].value \in Int
  <2>1. RelOf(id).sym \in Nat \ {0} /\ elf.syms[RelOf(id).sym].value \in Word
        BY <1>1, <1>3, SymFacts
  <2> QED
      BY <2>1, WordFacts DEF Word
<1>5. ~ Struck(id)
  <2> SUFFICES ASSUME NEW s \in 1 .. v - 1, id \in StubRefs(s)
               PROVE  FALSE
      BY DEF Struck
  <2>1. s \in DOMAIN elf.vstubs /\ elf.vstubs[s] = RelOf(id).sym
        BY <1>1, <1>3, StubsTyped DEF StubRefs
  <2>2. \A g \in Segs : elf.syms[RelOf(id).sym].value < elf.segs[g].vaddr
        BY <1>1, <1>4, <2>1 DEF ElfOK, Segs
  <2>3. \A g \in Segs : elf.segs[g].vaddr \in Int
    <3>1. \A g \in Segs : elf.segs[g].vaddr \in H .. M - 1
          BY <1>1, SegFacts
    <3> QED
        BY <3>1, WordFacts
  <2>4. vaddr_to_segndx(memsz, elf.syms[RelOf(id).sym].value) = NoSeg
        BY <1>1, <1>4, <2>2, <2>3, SegFound DEF InSeg
  <2> QED
      BY <2>4 DEF Relocatable
<1>6. ~ Dropped(id)
      BY <1>3 DEF Dropped, Relocatable
<1>7. relas[id] = Read(id)
      BY <1>1, <1>5, <1>6, ReadTyped DEF Erased
<1>8. Written(Read(id))
      BY <1>3, <1>4 DEF Written, SymValue, Relocatable, Normal, Data
<1> QED
    BY <1>1, <1>2, <1>3, <1>4, <1>7, <1>8

LEMMA LoadedFollows ==
  IInv /\ EntryAgrees => LoadedRight
<1> SUFFICES ASSUME IInv, EntryAgrees, pc = "done"
             PROVE  /\ \A e \in out : e.src # ModInfo => Relocatable(e.src)
                    /\ \A id \in {x \in RelIds : Relocatable(x)} : \A delta \in [Segs -> Deltas] :
                         LET rel == RelOf(id)
                             P   == Plus(rel.offset, delta[vaddr_to_segndx(OrigSize, rel.offset)])
                             ref == Plus(rel.ref, delta[vaddr_to_segndx(memsz, elf.syms[rel.sym].value)])
                         IN \E e \in out :
                              e.src = id /\ LoaderSite(e, delta) = P /\ LoaderField(e, delta) = FieldOf(rel.type, ref, P)
    BY DEF LoadedRight
<1>1. /\ ElfOK(elf) /\ memsz \in [Segs -> Nat] /\ memsz = Extended /\ Apart(memsz)
      /\ OrigSize \in [Segs -> Nat] /\ DOMAIN relas = RelIds
      BY FinalSegments, OrigApart DEF IInv, Control, RelasInv
<1>2. PICK junk \in Junk : out = Emitted(junk)
      BY DEF IInv, OutInv
<1>3. ASSUME NEW e \in out, e.src # ModInfo
      PROVE  Relocatable(e.src)
  <2>1. \A x, rela : SceRel(x, rela, junk).src = x
        BY DEF SceRel
  <2>2. PICK id \in RelIds : Written(relas[id]) /\ e = SceRel(id, relas[id], junk)
        BY <1>1, <1>2, <1>3, <2>1 DEF Emitted
  <2> QED
      BY <2>1, <2>2, WrittenRelocatable
<1>4. ASSUME NEW id \in RelIds, Relocatable(id), NEW delta \in [Segs -> Deltas],
             NEW s, s = vaddr_to_segndx(OrigSize, RelOf(id).offset),
             NEW g, g = vaddr_to_segndx(memsz, elf.syms[RelOf(id).sym].value),
             NEW P, P = Plus(RelOf(id).offset, delta[s])
      PROVE  \E e \in out : /\ e.src = id /\ LoaderSite(e, delta) = P
                            /\ LoaderField(e, delta) = FieldOf(RelOf(id).type, Plus(RelOf(id).ref, delta[g]), P)
  <2>1. /\ id \in Fields /\ ~ BadRel(id) /\ relas[id] = Read(id) /\ Written(relas[id])
        /\ Read(id).symbol # 0 /\ Read(id).symbol = RelOf(id).sym
        BY <1>4, RelocatableWritten
  <2>2. /\ RelOf(id).offset \in Word /\ RelOf(id).ref \in Word /\ SymOf(id) \in Word
        /\ Read(id).offset = RelOf(id).offset /\ Read(id).type = Kind(id)
        BY <1>1, <2>1, FieldFacts
  <2>3. PICK a \in Int, x \in Int : a = RelOf(id).offset /\ x = SymOf(id)
        BY <2>2, WordFacts DEF Word
  <2>4. s \in Segs /\ InSeg(s, OrigSize, a)
        BY <1>1, <1>4, <2>3, SegFound DEF Relocatable
  <2>5. InSeg(s, memsz, a)
    <3>1. OrigSize[s] <= memsz[s] /\ OrigSize[s] \in Nat /\ memsz[s] \in Nat /\ elf.segs[s].vaddr \in H .. M - 1
          BY <1>1, <2>4, ExtendedFacts, SegFacts
    <3> QED
        BY <2>3, <2>4, <3>1, WordFacts DEF InSeg
  <2>6. vaddr_to_segndx(memsz, a) = s
        BY <1>1, <2>3, <2>4, <2>5, SegUnique
  <2>7. g \in Segs /\ InSeg(g, memsz, x)
        BY <1>1, <1>4, <2>3, SegFound DEF Relocatable, SymOf
  <2>8. elf.segs[g].vaddr \in Int /\ elf.segs[g].vaddr >= H /\ x >= H /\ g # NoSeg
    <3>1. elf.segs[g].vaddr \in H .. M - 1
          BY <1>1, <2>7, SegFacts
    <3>2. Segs = 1 .. Len(elf.segs) /\ Len(elf.segs) \in Nat
          BY <1>1, SegFacts
    <3>3. g # NoSeg
          BY <2>7, <3>2 DEF NoSeg
    <3>4. x >= elf.segs[g].vaddr
          BY <2>7 DEF InSeg
    <3> QED
        BY <2>3, <3>1, <3>3, <3>4, WordFacts
  <2>9. SameField(id)
        BY <1>1, <1>4, <2>1, <2>3, <2>8, ReachRight DEF Relocatable
  <2>10. PICK e : e = SceRel(id, Read(id), junk)
         OBVIOUS
  <2>11. e \in out
         BY <1>1, <1>2, <2>1, <2>10 DEF Emitted
  <2>12. SymValue(Read(id)) = x /\ SymVaddr(Read(id)) = Reach(id)
         BY <2>1, <2>3 DEF SymValue, SymVaddr, SymOf, Reach
  <2>13. vaddr_to_segndx(memsz, x) = g
         BY <1>4, <2>3 DEF SymOf
  <2>14. /\ e.src = id /\ e.code = Kind(id) /\ e.datseg = s /\ e.symseg = g
         /\ e.datoff = vaddr_to_segoffset(a, s, junk)
         /\ e.symoff = vaddr_to_segoffset(Reach(id), g, junk)
         BY <2>2, <2>3, <2>6, <2>10, <2>12, <2>13 DEF SceRel
  <2>15. delta[s] \in Nat /\ delta[g] \in Nat /\ delta[s] % 2 = 0 /\ delta[g] % 2 = 0
         BY <1>4, <2>4, <2>7, ConstantsAssumption
  <2>16. LoaderSite(e, delta) = P
    <3>1. elf.segs[s].vaddr + e.datoff = a
          BY <1>1, <2>2, <2>3, <2>4, <2>14, OffsetBack DEF InSeg
    <3> QED
        BY <1>4, <2>3, <2>14, <3>1 DEF LoaderSite
  <2>17. LoaderField(e, delta) = FieldOf(Kind(id), Plus(Reach(id), delta[g]), P)
    <3>1. Reach(id) \in Int /\ Reach(id) # 0
          BY <2>9, WordFacts DEF SameField, Word
    <3>2. e.symoff = Sub(Reach(id), elf.segs[g].vaddr)
          BY <2>8, <2>14, <3>1 DEF vaddr_to_segoffset
    <3>3. Plus(elf.segs[g].vaddr + Sub(Reach(id), elf.segs[g].vaddr), delta[g]) = Plus(Reach(id), delta[g])
      <4>1. delta[g] \in Int
            BY <2>15
      <4> QED
          BY <2>8, <3>1, <4>1, PlusPlus
    <3> QED
        BY <2>14, <2>16, <3>2, <3>3 DEF LoaderField
  <2>18. FieldOf(Kind(id), Plus(Reach(id), delta[g]), P) = FieldOf(RelOf(id).type, Plus(RelOf(id).ref, delta[g]), P)
         BY <1>4, <2>9, <2>15 DEF SameField
  <2> QED
      BY <2>11, <2>14, <2>16, <2>17, <2>18
<1> QED
    BY <1>3, <1>4

----------------------------------------------------------------------------
(* The theorems.                                                            *)

\* Every variable keeps its type, whatever the linked ELF.
THEOREM TypeCorrect == Spec => []TypeOK
<1>1. IInv => TypeOK
      BY TypesFollow
<1> QED
    BY <1>1, Invariance, PTL

\* The relocations that vita-elf-create writes for the ELF's own tables patch
\* nothing but bytes of the input's segments, because
\* sce_elf_discard_invalid_relocs() filters before the module info is there.
THEOREM OnlyMappedPatchedAlways == Spec => []OnlyMappedPatched
<1>1. IInv => OnlyMappedPatched
      BY DEF IInv, OutInv
<1> QED
    BY <1>1, Invariance, PTL

\* The table of each variable stub lists every reference to its variable with
\* its site and addend, the image holds null pointers there, and the loader is
\* not told of the reference twice (lookup_vstub_relas(), fixup_vstub_rela()).
THEOREM VstubsRecordedAlways == Spec => []VstubsRecorded
<1>1. IInv => VstubsRecorded
      BY StubsFollow
<1> QED
    BY <1>1, Invariance, PTL

\* What an entry point in the segment of module_start guarantees.
LEMMA AgreedInvariance ==
  Spec /\ EntryAgrees => [](IInv /\ EntryAgrees)
<1>1. Init => IInv
      BY InitIInv
<1>2. IInv /\ [Next]_vars => IInv'
      BY StepIInv
<1>3. EntryAgrees /\ IInv /\ [Next]_vars => EntryAgrees'
      BY EntryStays
<1> QED
    BY <1>1, <1>2, <1>3, PTL DEF Spec

\* Then the module info never grows into another segment.
THEOREM SegmentsDisjointAlways == Spec /\ EntryAgrees => []SegmentsDisjoint
<1>1. IInv /\ EntryAgrees => SegmentsDisjoint
      BY DisjointFollows
<1> QED
    BY <1>1, AgreedInvariance, PTL

\* Then every pointer of the module info is relocated, at its place and to what
\* it points to.
THEOREM ModuleInfoRelocatedAlways == Spec /\ EntryAgrees => []ModuleInfoRelocated
<1>1. IInv /\ EntryAgrees => ModuleInfoRelocated
      BY ModuleInfoFollows
<1> QED
    BY <1>1, AgreedInvariance, PTL

\* Then the loaded image refers to what the static linker meant, wherever the
\* loader puts the segments, and no other byte of it is patched.
THEOREM LoadedRightAlways == Spec /\ EntryAgrees => []LoadedRight
<1>1. IInv /\ EntryAgrees => LoadedRight
      BY LoadedFollows
<1> QED
    BY <1>1, AgreedInvariance, PTL

----------------------------------------------------------------------------
(* StubSections: the removal of stub sections.                              *)

\* A function on 1 .. n is a sequence of length n.
LEMMA FunctionIsSeq ==
  ASSUME NEW S, NEW n \in Nat, NEW f \in [1 .. n -> S]
  PROVE  f \in Seq(S) /\ Len(f) = n
<1>1. f \in Seq(S)
      BY SeqDef
<1> QED
    BY <1>1

\* A sequence is one over any set that holds its elements.
LEMMA SeqOfElements ==
  ASSUME NEW S, NEW T, NEW q \in Seq(S), \A i \in DOMAIN q : q[i] \in T
  PROVE  q \in Seq(T)
<1>1. Len(q) \in Nat /\ q \in [1 .. Len(q) -> T]
      OBVIOUS
<1> QED
    BY <1>1, FunctionIsSeq

\* An element of a sequence of section headers is a header.
LEMMA HeaderTyped ==
  ASSUME NEW T, NEW q \in Seq(T), NEW i \in DOMAIN q
  PROVE  q[i] \in T
<1>1. i \in 1 .. Len(q)
      OBVIOUS
<1> QED
    BY <1>1, ElementOfSeq, Zenon

\* An index of a section that stays is none of the indices to remove.
LEMMA KeptIsNoVstub ==
  ASSUME NEW e, NEW n \in KeptOrNone(e), NEW i \in DOMAIN e.vstubs
  PROVE  e.vstubs[i] # n /\ n \in 0 .. Len(e.scns)
BY DEF KeptOrNone

\* The invariant holds of an ELF as it was loaded.
LEMMA InitStubsIInv == StubsInit => StubsIInv
<1> SUFFICES ASSUME StubsInit PROVE StubsIInv
    OBVIOUS
<1>1. StubElfOK(input)
      BY StubElfsAssumption DEF StubsInit
<1>2. /\ input.scns \in Seq([id : Nat, type : ScnTypes, name : Nat, link : Nat, info : Nat])
      /\ \A i \in DOMAIN input.scns :
            /\ input.scns[i].id = i
            /\ input.scns[i].link \in KeptOrNone(input)
            /\ input.scns[i].type = "REL" => input.scns[i].info \in KeptOrNone(input)
      BY <1>1 DEF StubElfOK
<1>3. /\ input.vstubs \in Seq(DOMAIN input.scns)
      /\ input.fstubs \in Seq(DOMAIN input.scns)
      /\ input.syms \in Seq(Nat)
      /\ \A s \in DOMAIN input.syms : input.syms[s] <= Len(input.scns) \/ input.syms[s] >= SHN_LORESERVE
      /\ input.strings \in [DOMAIN input.strings -> Names]
      /\ input.shstrndx \in KeptOrNone(input) \ {0}
      /\ input.symtab_ndx \in KeptOrNone(input) \ {0}
      BY <1>1 DEF StubElfOK
<1>4. StubsTypeOK
  <2>1. shdrs \in Seq([id : DOMAIN input.scns, type : ScnTypes, name : Nat, link : Nat, info : Nat])
    <3>1. ASSUME NEW i \in DOMAIN input.scns
          PROVE  input.scns[i] \in [id : DOMAIN input.scns, type : ScnTypes, name : Nat, link : Nat, info : Nat]
      <4>1. input.scns[i] \in [id : Nat, type : ScnTypes, name : Nat, link : Nat, info : Nat]
        <5>1. input.scns \in Seq([id : Nat, type : ScnTypes, name : Nat, link : Nat, info : Nat])
              BY <1>2
        <5>2. i \in 1 .. Len(input.scns)
              BY <5>1, SMTT(40)
        <5> QED
            BY <5>1, <5>2, ElementOfSeq, Zenon
      <4>2. input.scns[i].id \in DOMAIN input.scns
            BY <1>2
      <4> QED
          BY <4>1, <4>2
    <3> QED
        BY <1>2, <3>1, SeqOfElements DEF StubsInit
  <2>2. symtab \in [DOMAIN input.syms -> Nat]
        BY <1>3 DEF StubsInit
  <2>3. shstrndx \in Nat /\ symtab_ndx \in Nat
        BY <1>2, <1>3 DEF StubsInit, KeptOrNone
  <2>4. nth \in 1 .. Len(input.fstubs) + 1
        BY <1>3 DEF StubsInit
  <2> QED
      BY <1>1, <1>3, <2>1, <2>2, <2>3, <2>4 DEF StubsInit, StubsTypeOK
<1>5. PrefixKept /\ SectionsKept
  <2>1. PrefixKept
        BY <1>3 DEF StubsInit, PrefixKept
  <2>2. SectionsKept
    <3>1. \A i \in DOMAIN input.scns : input.scns[i].id = i
          BY <1>2
    <3> QED
        BY <3>1 DEF StubsInit, SectionsKept
  <2> QED
      BY <2>1, <2>2
<1>6. Removed = {}
      BY <1>3 DEF StubsInit, Removed
<1>7. ASSUME NEW o \in 0 .. Len(input.scns)
      PROVE  Denotes(o, o)
      BY <1>2, SMTT(40) DEF StubsInit, Denotes
<1>8. IndexFidelity
  <2>1. SymbolsDenote
    <3>1. SUFFICES ASSUME NEW s \in DOMAIN input.syms, input.syms[s] < SHN_LORESERVE
                   PROVE  Denotes(symtab[s], input.syms[s])
          BY <1>6 DEF SymbolsDenote
    <3>2. input.syms[s] \in Nat /\ input.syms[s] <= Len(input.scns)
          BY <1>3, <3>1, ReserveAssumption
    <3> QED
        BY <1>2, <1>7, <3>2 DEF StubsInit
  <2>2. HeadersDenote
        BY <1>2, <1>7, KeptIsNoVstub DEF StubsInit, HeadersDenote, KeptOrNone
  <2> QED
      BY <1>2, <1>3, <1>7, <2>1, <2>2 DEF StubsInit, IndexFidelity, KeptOrNone
<1> QED
    BY <1>4, <1>5, <1>8 DEF StubsIInv

\* The first loop, and stuttering, leave every index of the file alone.
LEMMA FrameIInv ==
  ASSUME StubsIInv, UNCHANGED <<input, shdrs, symtab, vstubs, shstrndx, symtab_ndx>>
  PROVE  IndexFidelity' /\ SectionsKept'
<1>1. SymbolsDenote' /\ HeadersDenote'
      BY DEF StubsIInv, IndexFidelity, SymbolsDenote, HeadersDenote, Denotes, Removed
<1>2. SectionsKept'
      BY DEF StubsIInv, SectionsKept
<1> QED
    BY <1>1, <1>2 DEF StubsIInv, IndexFidelity, Denotes

LEMMA RewriteFstubIInv ==
  ASSUME StubsIInv, RewriteFstub
  PROVE  StubsIInv'
<1>1. nth' \in 1 .. Len(input.fstubs) + 1 /\ nth \in DOMAIN input.fstubs
  <2>1. input.fstubs \in Seq(DOMAIN input.scns)
        BY DEF StubsIInv, StubsTypeOK, StubElfOK
  <2> QED
      BY <2>1 DEF StubsIInv, StubsTypeOK, RewriteFstub
<1>2. strings' \in [DOMAIN input.strings -> Names]
      BY DEF StubsIInv, StubsTypeOK, RewriteFstub, Names
<1>3. body' \in [DOMAIN input.scns -> {"input", "mvn_bx"}]
      BY DEF StubsIInv, StubsTypeOK, RewriteFstub
<1>4. StubsTypeOK'
      BY <1>1, <1>2, <1>3 DEF StubsIInv, StubsTypeOK, RewriteFstub
<1>5. PrefixKept'
      BY DEF StubsIInv, PrefixKept, RewriteFstub
<1> QED
    BY <1>4, <1>5, FrameIInv DEF StubsIInv, RewriteFstub

LEMMA LoopEndIInv ==
  ASSUME StubsIInv, MalformedFstub \/ FstubsDone \/ UNCHANGED stubs_vars
  PROVE  StubsIInv'
<1>1. StubsTypeOK' /\ PrefixKept'
      BY DEF StubsIInv, StubsTypeOK, PrefixKept, MalformedFstub, FstubsDone, stubs_vars
<1> QED
    BY <1>1, FrameIInv DEF StubsIInv, MalformedFstub, FstubsDone, stubs_vars

----------------------------------------------------------------------------
\* One removal: c is the index of the section that goes.
LEMMA RemoveVstubIInv ==
  ASSUME StubsIInv, RemoveVstub, NEW c, c = vstubs[Len(vstubs)]
  PROVE  StubsIInv'
<1> DEFINE n == Len(vstubs)
           rem == elfx_remscn(shdrs, c)
           T == [id : DOMAIN input.scns, type : ScnTypes, name : Nat, link : Nat, info : Nat]
<1>1. /\ input.vstubs \in Seq(DOMAIN input.scns)
      /\ Ascending(input.vstubs)
      /\ input.syms \in Seq(Nat)
      /\ DOMAIN input.scns = 1 .. Len(input.scns)
      BY DEF StubsIInv, StubsTypeOK, StubElfOK
<1>2. /\ vstubs \in Seq(DOMAIN input.scns)
      /\ n \in Nat \ {0}
      /\ n \in DOMAIN vstubs
      /\ n \in DOMAIN input.vstubs
      /\ c = input.vstubs[n]
      BY <1>1, SMTT(40) DEF StubsIInv, StubsTypeOK, PrefixKept, RemoveVstub
<1>3. /\ c \in DOMAIN shdrs
      /\ shdrs[c].id = c
      /\ c # 0
  <2>1. c # 0
        BY <1>1, <1>2
  <2>2. Denotes(c, c)
        BY <1>2 DEF StubsIInv, IndexFidelity
  <2> QED
      BY <2>1, <2>2 DEF Denotes
<1>4. /\ shdrs \in Seq(T)
      /\ Len(shdrs) \in Nat \ {0}
      /\ DOMAIN shdrs = 1 .. Len(shdrs)
      /\ c \in 1 .. Len(shdrs)
      BY <1>3 DEF StubsIInv, StubsTypeOK
\* Where the sections are afterwards: the one at index i was at index at(i).
<1> DEFINE at(i) == IF i < c THEN i ELSE i + 1
<1>5. /\ DOMAIN rem = 1 .. Len(shdrs) - 1
      /\ \A i \in 1 .. Len(shdrs) - 1 : at(i) \in DOMAIN shdrs /\ rem[i] = shdrs[at(i)] /\ rem[i] \in T
  <2>1. /\ DOMAIN rem = 1 .. Len(shdrs) - 1
        /\ \A i \in 1 .. Len(shdrs) - 1 : rem[i] = shdrs[at(i)]
        BY DEF elfx_remscn
  <2>2. ASSUME NEW i \in 1 .. Len(shdrs) - 1
        PROVE  at(i) \in 1 .. Len(shdrs)
        BY <1>4
  <2>3. ASSUME NEW i \in 1 .. Len(shdrs)
        PROVE  shdrs[i] \in T
    <3> HIDE DEF T
    <3> QED
        BY <1>4, ElementOfSeq, Zenon
  <2> HIDE DEF T, rem, at
  <2> QED
      BY <1>4, <2>1, <2>2, <2>3
<1>6. /\ DOMAIN shdrs' = 1 .. Len(shdrs) - 1
      /\ \A i \in DOMAIN shdrs' :
           /\ at(i) \in DOMAIN shdrs
           /\ shdrs'[i].id = shdrs[at(i)].id
           /\ shdrs'[i].type = shdrs[at(i)].type
           /\ shdrs'[i].link = Renumber(shdrs[at(i)].link, c)
           /\ shdrs'[i].info = Renumber(shdrs[at(i)].info, c)
           /\ shdrs'[i] \in T
  <2>1. shdrs' = [i \in DOMAIN rem |-> FixupHeader(rem[i], c)]
        BY DEF RemoveVstub
  <2>2. ASSUME NEW x \in Nat PROVE Renumber(x, c) \in Nat
        BY <1>4 DEF Renumber
  <2>3. ASSUME NEW h \in T
        PROVE  /\ FixupHeader(h, c).id = h.id
               /\ FixupHeader(h, c).type = h.type
               /\ FixupHeader(h, c).link = Renumber(h.link, c)
               /\ FixupHeader(h, c).info = Renumber(h.info, c)
               /\ FixupHeader(h, c) \in T
        BY <2>2 DEF FixupHeader
  <2> HIDE DEF T, rem, at
  <2> QED
      BY <1>5, <2>1, <2>3
<1> HIDE DEF T, rem
<1>7. input' = input
      BY DEF RemoveVstub
\* An index that does not name the section that goes is renumbered so that it
\* still names its own.
<1>8. ASSUME NEW x, NEW o, o # c, Denotes(x, o)
      PROVE  Denotes(Renumber(x, c), o)'
  <2>1. CASE o = 0
        BY <1>4, <1>8, <2>1 DEF Denotes, Renumber
  <2>2. CASE o # 0
    <3>1. x \in 1 .. Len(shdrs) /\ shdrs[x].id = o /\ x # c
          BY <1>3, <1>4, <1>8, <2>2 DEF Denotes
    <3>2. CASE x < c
          BY <1>4, <1>6, <2>2, <3>1, <3>2 DEF Denotes, Renumber
    <3>3. CASE x > c
          BY <1>4, <1>6, <2>2, <3>1, <3>3 DEF Denotes, Renumber
    <3> QED
        BY <1>4, <3>1, <3>2, <3>3
  <2> QED
      BY <2>1, <2>2
\* The sections to remove come in ascending order, so the rest of vstubs_va
\* needs no renumbering.
<1>9. /\ vstubs' \in Seq(DOMAIN input.scns)
      /\ Len(vstubs') = n - 1
      /\ DOMAIN vstubs' = 1 .. n - 1
      /\ \A i \in DOMAIN vstubs' : vstubs'[i] = vstubs[i] /\ vstubs[i] < c /\ i \in DOMAIN vstubs
  <2>1. vstubs' = [i \in 1 .. n - 1 |-> vstubs[i]]
        BY DEF RemoveVstub
  <2>2. ASSUME NEW i \in 1 .. n - 1
        PROVE  vstubs[i] < c /\ i \in DOMAIN vstubs /\ vstubs[i] \in DOMAIN input.scns
    <3>1. i \in DOMAIN vstubs /\ i \in DOMAIN input.vstubs /\ i < n /\ vstubs[i] = input.vstubs[i]
          BY <1>1, <1>2 DEF StubsIInv, PrefixKept
    <3> QED
        BY <1>1, <1>2, <3>1, SMTT(40) DEF Ascending
  <2>3. vstubs' \in [1 .. n - 1 -> DOMAIN input.scns]
        BY <2>1, <2>2
  <2>4. n - 1 \in Nat
        BY <1>2
  <2> QED
      BY <2>1, <2>2, <2>3, <2>4, FunctionIsSeq
<1>10. Removed' = Removed \cup {c}
       BY <1>1, <1>2, <1>7, <1>9, SMTT(40) DEF Removed, StubsIInv, PrefixKept
<1>11. StubsTypeOK'
  <2>1. shdrs' \in Seq(T)
    <3>1. shdrs' \in [1 .. Len(shdrs) - 1 -> T]
          BY <1>6 DEF RemoveVstub
    <3>2. Len(shdrs) - 1 \in Nat
          BY <1>4
    <3> QED
        BY <3>1, <3>2, FunctionIsSeq
  <2>2. symtab' \in [DOMAIN input.syms -> Nat]
    <3>1. \A x \in Nat : Renumber(x, c) \in Nat
          BY <1>4 DEF Renumber
    <3>2. symtab' = [s \in DOMAIN symtab |-> IF symtab[s] = c THEN 0 ELSE Renumber(symtab[s], c)]
          BY DEF RemoveVstub, update_symtab_entries
    <3>3. symtab \in [DOMAIN input.syms -> Nat]
          BY DEF StubsIInv, StubsTypeOK
    <3> QED
        BY <3>1, <3>2, <3>3
  <2>3. shstrndx' \in Nat /\ symtab_ndx' \in Nat
    <3>1. ASSUME NEW x \in Nat PROVE Renumber(x, c) \in Nat
          BY <1>4 DEF Renumber
    <3>2. shstrndx' = Renumber(shstrndx, c) /\ symtab_ndx' = Renumber(symtab_ndx, c)
          BY DEF RemoveVstub
    <3>3. shstrndx \in Nat /\ symtab_ndx \in Nat
          BY DEF StubsIInv, StubsTypeOK
    <3> QED
        BY <3>1, <3>2, <3>3
  <2>4. loop' \in {"fstubs", "vstubs", "done", "errx"}
        BY DEF RemoveVstub
  <2> QED
      BY <1>7, <1>9, <2>1, <2>2, <2>3, <2>4 DEF StubsIInv, StubsTypeOK, RemoveVstub, T
<1>12. PrefixKept'
  <2>1. ASSUME loop' = "vstubs" PROVE vstubs' # <<>>
    <3>1. n # 1
          BY <2>1 DEF RemoveVstub
    <3> QED
        BY <1>2, <1>9, <3>1
  <2>2. Len(vstubs') <= Len(input.vstubs)
        BY <1>1, <1>2, <1>9
  <2>3. \A i \in DOMAIN vstubs' : vstubs'[i] = input.vstubs[i]
        BY <1>9 DEF StubsIInv, PrefixKept
  <2> QED
      BY <1>7, <2>1, <2>2, <2>3 DEF PrefixKept
<1>13. SectionsKept'
  <2>1. ASSUME NEW i \in DOMAIN shdrs', NEW j \in DOMAIN shdrs', shdrs'[i].id = shdrs'[j].id
        PROVE  i = j
    <3>1. at(i) = at(j)
          BY <1>6, <2>1 DEF StubsIInv, SectionsKept
    <3> QED
        BY <1>4, <1>6, <3>1
  <2>2. ASSUME NEW i \in DOMAIN shdrs'
        PROVE  shdrs'[i].type = input.scns[shdrs'[i].id].type
        BY <1>6 DEF StubsIInv, SectionsKept
  <2> QED
      BY <1>7, <2>1, <2>2 DEF SectionsKept
<1>14. SymbolsDenote'
  <2> SUFFICES ASSUME NEW s \in DOMAIN input.syms, input.syms[s] < SHN_LORESERVE
               PROVE  Denotes(symtab[s], IF input.syms[s] \in Removed THEN 0 ELSE input.syms[s])'
      BY <1>7 DEF SymbolsDenote
  <2> DEFINE o == IF input.syms[s] \in Removed THEN 0 ELSE input.syms[s]
  <2>1. Denotes(symtab[s], o)
        BY DEF StubsIInv, IndexFidelity, SymbolsDenote
  <2>2. symtab'[s] = IF symtab[s] = c THEN 0 ELSE Renumber(symtab[s], c)
        BY DEF StubsIInv, StubsTypeOK, RemoveVstub, update_symtab_entries
\* A symbol of the section that goes is recognised by its index.
  <2>3. o = c <=> symtab[s] = c
        BY <1>3, <2>1 DEF Denotes, StubsIInv, SectionsKept
  <2>4. CASE o = c
        BY <1>3, <1>7, <1>10, <2>2, <2>3, <2>4 DEF Denotes
  <2>5. CASE o # c
    <3>1. (IF input.syms[s] \in Removed THEN 0 ELSE input.syms[s])' = o
          BY <1>7, <1>10, <2>5
    <3> QED
        BY <1>8, <2>1, <2>2, <2>3, <2>5, <3>1 DEF Denotes
  <2> QED
      BY <2>4, <2>5
<1>15. HeadersDenote'
  <2> SUFFICES ASSUME NEW i \in DOMAIN shdrs'
               PROVE  /\ Denotes(shdrs[i].link, input.scns[shdrs[i].id].link)'
                      /\ shdrs'[i].type = "REL" =>
                           Denotes(shdrs[i].info, input.scns[shdrs[i].id].info)'
      BY DEF HeadersDenote
  <2>1. PICK j \in DOMAIN shdrs : j = at(i)
        BY <1>6
  <2> DEFINE h == input.scns[shdrs[j].id]
  <2>2. shdrs[j].type = h.type
        BY DEF StubsIInv, SectionsKept
  <2>3. shdrs[j].id \in DOMAIN input.scns
    <3>1. shdrs[j] \in T
          BY <1>4, ElementOfSeq, Zenon
    <3> QED
        BY <3>1 DEF T
  <2>4. h.link # c /\ (h.type = "REL" => h.info # c)
    <3>1. h.link \in KeptOrNone(input) /\ (h.type = "REL" => h.info \in KeptOrNone(input))
          BY <2>3 DEF StubsIInv, StubsTypeOK, StubElfOK
    <3> QED
        BY <1>2, <3>1, KeptIsNoVstub
  <2>5. Denotes(shdrs[j].link, h.link) /\ (shdrs[j].type = "REL" => Denotes(shdrs[j].info, h.info))
        BY DEF StubsIInv, IndexFidelity, HeadersDenote
  <2> QED
    <3>1. /\ shdrs'[i].link = Renumber(shdrs[j].link, c)
          /\ shdrs'[i].info = Renumber(shdrs[j].info, c)
          /\ input'.scns[shdrs'[i].id] = h
          /\ shdrs'[i].type = h.type
          BY <1>6, <1>7, <2>1, <2>2
    <3> HIDE DEF h
    <3>2. Denotes(shdrs[i].link, input.scns[shdrs[i].id].link)'
      <4>1. PICK x, o : x = shdrs[j].link /\ o = h.link
            OBVIOUS
      <4>2. Denotes(Renumber(x, c), o)'
            BY <1>8, <2>4, <2>5, <4>1
      <4> QED
          BY <3>1, <4>1, <4>2 DEF Denotes
    <3>3. ASSUME shdrs'[i].type = "REL"
          PROVE  Denotes(shdrs[i].info, input.scns[shdrs[i].id].info)'
      <4>1. PICK x, o : x = shdrs[j].info /\ o = h.info
            OBVIOUS
      <4>2. Denotes(Renumber(x, c), o)'
            BY <1>8, <2>2, <2>4, <2>5, <3>1, <3>3, <4>1
      <4> QED
          BY <3>1, <4>1, <4>2 DEF Denotes
    <3> QED
        BY <3>2, <3>3
<1>16. IndexFidelity'
  <2>1. input.shstrndx # c /\ input.symtab_ndx # c
    <3>1. input.shstrndx \in KeptOrNone(input) /\ input.symtab_ndx \in KeptOrNone(input)
          BY DEF StubsIInv, StubsTypeOK, StubElfOK
    <3> QED
        BY <1>2, <3>1, KeptIsNoVstub
  <2>2. Denotes(shstrndx, input.shstrndx)' /\ Denotes(symtab_ndx, input.symtab_ndx)'
        BY <1>7, <1>8, <2>1, ZenonT(40) DEF StubsIInv, IndexFidelity, RemoveVstub, Denotes
  <2>3. ASSUME NEW i \in DOMAIN vstubs'
        PROVE  Denotes(vstubs[i], input.vstubs[i])'
    <3>1. i \in DOMAIN vstubs /\ vstubs[i] < c /\ vstubs[i] = input.vstubs[i] /\ vstubs'[i] = vstubs[i]
          BY <1>9 DEF StubsIInv, PrefixKept
    <3>2. vstubs[i] \in Nat
          BY <1>1, <1>2, <3>1
    <3>3. input.vstubs[i] # c /\ Renumber(vstubs[i], c) = vstubs[i]
          BY <1>4, <3>1, <3>2 DEF Renumber
    <3>4. Denotes(vstubs[i], input.vstubs[i])
          BY <3>1 DEF StubsIInv, IndexFidelity
    <3> QED
        BY <1>7, <1>8, <3>1, <3>3, <3>4, ZenonT(40) DEF Denotes
  <2> QED
      BY <1>14, <1>15, <2>2, <2>3 DEF IndexFidelity
<1> QED
    BY <1>11, <1>12, <1>13, <1>16 DEF StubsIInv

----------------------------------------------------------------------------
LEMMA StepStubsIInv == StubsIInv /\ [StubsNext]_stubs_vars => StubsIInv'
<1> SUFFICES ASSUME StubsIInv, [StubsNext]_stubs_vars PROVE StubsIInv'
    OBVIOUS
<1>1. CASE RewriteFstub
      BY <1>1, RewriteFstubIInv
<1>2. CASE MalformedFstub \/ FstubsDone \/ UNCHANGED stubs_vars
      BY <1>2, LoopEndIInv
<1>3. CASE RemoveVstub
      BY <1>3, RemoveVstubIInv
<1>4. CASE StubsTerminated
      BY <1>4, LoopEndIInv DEF StubsTerminated
<1> QED
    BY <1>1, <1>2, <1>3, <1>4 DEF StubsNext

\* Every reachable state of sce_elf_rewrite_stubs() is well typed.
THEOREM StubsTypeCorrect == StubsSpec => []StubsTypeOK
<1>1. StubsIInv => StubsTypeOK
      BY DEF StubsIInv
<1> QED
    BY <1>1, InitStubsIInv, StepStubsIInv, PTL DEF StubsSpec

\* Whatever the ELF, no index of the file ever comes to name another section
\* while sce_elf_rewrite_stubs() removes the variable-stub sections.
THEOREM IndicesFaithful == StubsSpec => []IndexFidelity
<1>1. StubsIInv => IndexFidelity
      BY DEF StubsIInv
<1> QED
    BY <1>1, InitStubsIInv, StepStubsIInv, PTL DEF StubsSpec

----------------------------------------------------------------------------
(* The function stubs.                                                      *)

LEMMA InitProgress == StubsInit => RewriteProgress
<1> SUFFICES ASSUME StubsInit PROVE RewriteProgress
    OBVIOUS
<1>1. /\ \A i \in DOMAIN input.scns : input.scns[i].id = i
      /\ shdrs = input.scns /\ nth = 1 /\ loop = "fstubs"
      /\ body = [i \in DOMAIN input.scns |-> "input"]
      BY StubElfsAssumption DEF StubsInit, StubElfOK
<1> QED
    BY <1>1 DEF RewriteProgress

\* One function stub: its header is still where load found it.
LEMMA RewriteFstubProgress ==
  ASSUME StubsIInv, RewriteProgress, RewriteFstub
  PROVE  RewriteProgress'
<1> DEFINE c == input.fstubs[nth]
<1>1. /\ shdrs = input.scns /\ shdrs' = shdrs /\ input' = input /\ loop' = "fstubs"
      /\ nth \in Nat \ {0} /\ nth' = nth + 1 /\ nth \in DOMAIN input.fstubs
      /\ c \in DOMAIN input.scns
      /\ input.scns[c].name \in DOMAIN input.strings
      /\ strings \in [DOMAIN input.strings -> Names]
      /\ body \in [DOMAIN input.scns -> {"input", "mvn_bx"}]
  <2>1. input.fstubs \in Seq(DOMAIN input.scns) /\ nth \in 1 .. Len(input.fstubs) + 1
        BY DEF StubsIInv, StubsTypeOK, StubElfOK
  <2>2. \A i \in DOMAIN input.scns : input.scns[i].name \in DOMAIN input.strings
        BY DEF StubsIInv, StubsTypeOK, StubElfOK
  <2>3. nth \in DOMAIN input.fstubs
        BY <2>1 DEF RewriteFstub
  <2>4. c \in DOMAIN input.scns
        BY <2>1, <2>3
  <2>5. shdrs = input.scns
        BY DEF RewriteFstub, RewriteProgress
  <2>6. strings \in [DOMAIN input.strings -> Names] /\ body \in [DOMAIN input.scns -> {"input", "mvn_bx"}]
        BY DEF StubsIInv, StubsTypeOK
  <2> QED
      BY <2>1, <2>2, <2>3, <2>4, <2>5, <2>6 DEF RewriteFstub
<1>2. strings' = [strings EXCEPT ![input.scns[c].name] = ".text.fstubs."] /\ body' = [body EXCEPT ![c] = "mvn_bx"]
      BY <1>1 DEF RewriteFstub
<1>3. 1 .. nth' - 1 = (1 .. nth - 1) \cup {nth}
      BY <1>1
<1>4. \A n \in DOMAIN input.scns : body'[n] = "mvn_bx" <=> \E f \in 1 .. nth' - 1 : input.fstubs[f] = n
      BY <1>1, <1>2, <1>3 DEF RewriteProgress
<1>5. \A f \in 1 .. nth' - 1 : strings'[input.scns[input.fstubs[f]].name] = ".text.fstubs."
  <2> SUFFICES ASSUME NEW f \in 1 .. nth' - 1
               PROVE  strings'[input.scns[input.fstubs[f]].name] = ".text.fstubs."
      OBVIOUS
  <2>1. input.scns[input.fstubs[f]].name \in DOMAIN strings
    <3>1. input.fstubs \in Seq(DOMAIN input.scns) /\ \A i \in DOMAIN input.scns : input.scns[i].name \in DOMAIN input.strings
          BY DEF StubsIInv, StubsTypeOK, StubElfOK
    <3>2. f \in DOMAIN input.fstubs
          BY <1>1, <1>3, <3>1
    <3> QED
        BY <1>1, <3>1, <3>2
  <2> QED
      BY <1>1, <1>2, <1>3, <2>1 DEF RewriteProgress
<1> QED
    BY <1>1, <1>4, <1>5 DEF RewriteProgress

\* One removal: every header that stays keeps its id and its name.
LEMMA RemoveVstubProgress ==
  ASSUME StubsIInv, RewriteProgress, RemoveVstub
  PROVE  RewriteProgress'
<1> DEFINE c == vstubs[Len(vstubs)]
<1>1. /\ DOMAIN shdrs' = 1 .. Len(shdrs) - 1
      /\ \A i \in DOMAIN shdrs' : \E j \in DOMAIN shdrs : shdrs'[i].id = shdrs[j].id /\ shdrs'[i].name = shdrs[j].name
  <2>1. shdrs \in Seq([id : DOMAIN input.scns, type : ScnTypes, name : Nat, link : Nat, info : Nat])
        BY DEF StubsIInv, StubsTypeOK
  <2>2. /\ DOMAIN shdrs' = 1 .. Len(shdrs) - 1
        /\ \A i \in DOMAIN shdrs' : shdrs'[i] = FixupHeader(IF i < c THEN shdrs[i] ELSE shdrs[i + 1], c)
        BY DEF RemoveVstub, elfx_remscn
  <2>3. ASSUME NEW i \in DOMAIN shdrs'
        PROVE  \E j \in DOMAIN shdrs : shdrs'[i] = FixupHeader(shdrs[j], c)
    <3>1. i \in 1 .. Len(shdrs) - 1 /\ DOMAIN shdrs = 1 .. Len(shdrs) /\ Len(shdrs) \in Nat
          BY <2>1, <2>2
    <3>2. i \in DOMAIN shdrs /\ i + 1 \in DOMAIN shdrs
          BY <3>1
    <3>3. shdrs'[i] = FixupHeader(IF i < c THEN shdrs[i] ELSE shdrs[i + 1], c)
          BY <2>2
    <3> QED
      <4>1. CASE i < c
            BY <3>2, <3>3, <4>1
      <4>2. CASE ~ (i < c)
            BY <3>2, <3>3, <4>2
      <4> QED
          BY <4>1, <4>2
  <2>4. ASSUME NEW j \in DOMAIN shdrs
        PROVE  FixupHeader(shdrs[j], c).id = shdrs[j].id /\ FixupHeader(shdrs[j], c).name = shdrs[j].name
    <3>1. shdrs[j] \in [id : DOMAIN input.scns, type : ScnTypes, name : Nat, link : Nat, info : Nat]
          BY <2>1, HeaderTyped
    <3> QED
        BY <3>1 DEF FixupHeader
  <2> QED
      BY <2>2, <2>3, <2>4
<1>2. \A i \in DOMAIN shdrs' : shdrs'[i].name = input.scns[shdrs'[i].id].name
      BY <1>1 DEF RewriteProgress
<1> QED
    BY <1>2 DEF RewriteProgress, RemoveVstub

LEMMA StepProgress == StubsIInv /\ RewriteProgress /\ [StubsNext]_stubs_vars => RewriteProgress'
<1> SUFFICES ASSUME StubsIInv, RewriteProgress, [StubsNext]_stubs_vars PROVE RewriteProgress'
    OBVIOUS
<1>1. CASE RewriteFstub
      BY <1>1, RewriteFstubProgress
<1>2. CASE MalformedFstub
      BY <1>2 DEF RewriteProgress, MalformedFstub
<1>3. CASE FstubsDone
  <2>1. nth = Len(input.fstubs) + 1
    <3>1. input.fstubs \in Seq(DOMAIN input.scns) /\ nth \in 1 .. Len(input.fstubs) + 1
          BY DEF StubsIInv, StubsTypeOK, StubElfOK
    <3> QED
        BY <1>3, <3>1 DEF FstubsDone
  <2> QED
      BY <1>3, <2>1 DEF RewriteProgress, FstubsDone
<1>4. CASE RemoveVstub
      BY <1>4, RemoveVstubProgress
<1>5. CASE UNCHANGED stubs_vars
      BY <1>5 DEF RewriteProgress, stubs_vars
<1> QED
    BY <1>1, <1>2, <1>3, <1>4, <1>5 DEF StubsNext, StubsTerminated

\* When sce_elf_rewrite_stubs() returns, the function-stub sections of the
\* input, and no others, have the stub body and the new name, wherever the
\* removals have moved their headers.
THEOREM FstubsRewrittenAlways == StubsSpec => []FstubsRewritten
<1>1. StubsIInv /\ RewriteProgress => FstubsRewritten
  <2> SUFFICES ASSUME StubsIInv, RewriteProgress, loop = "done", NEW i \in DOMAIN shdrs
               PROVE  LET fstub == \E f \in DOMAIN input.fstubs : input.fstubs[f] = shdrs[i].id
                      IN /\ (body[shdrs[i].id] = "mvn_bx") <=> fstub
                         /\ fstub => NameOf(i) = ".text.fstubs."
      BY DEF FstubsRewritten
  <2>1. shdrs[i].id \in DOMAIN input.scns
    <3>1. shdrs[i] \in [id : DOMAIN input.scns, type : ScnTypes, name : Nat, link : Nat, info : Nat]
          BY HeaderTyped DEF StubsIInv, StubsTypeOK
    <3> QED
        BY <3>1
  <2>2. nth - 1 = Len(input.fstubs) /\ DOMAIN input.fstubs = 1 .. nth - 1
    <3>1. input.fstubs \in Seq(DOMAIN input.scns)
          BY DEF StubsIInv, StubsTypeOK, StubElfOK
    <3> QED
        BY <3>1 DEF RewriteProgress
  <2> QED
      BY <2>1, <2>2 DEF RewriteProgress, NameOf
<1> QED
    BY <1>1, InitStubsIInv, StepStubsIInv, InitProgress, StepProgress, PTL DEF StubsSpec

----------------------------------------------------------------------------
(* The refinement.  In every state the invariant allows, the identities     *)
(* that the indices stand for are those of the input, minus what is gone.   *)

OrdinarySyms == {t \in DOMAIN input.syms : input.syms[t] < SHN_LORESERVE}

Mapped ==
  /\ doomed = {input.vstubs[i] : i \in DOMAIN vstubs}
  /\ symOf = [s \in OrdinarySyms |-> IF input.syms[s] \in Removed THEN 0 ELSE input.syms[s]]
  /\ linkOf = [n \in live |-> input.scns[n].link]
  /\ targetOf = [n \in {m \in live : input.scns[m].type = "REL"} |-> input.scns[n].info]
  /\ IdAt(shstrndx) = input.shstrndx
  /\ IdAt(symtab_ndx) = input.symtab_ndx

LEMMA MappedInv == StubsIInv => Mapped
<1> SUFFICES ASSUME StubsIInv PROVE Mapped
    OBVIOUS
<1> DEFINE T == [id : DOMAIN input.scns, type : ScnTypes, name : Nat, link : Nat, info : Nat]
<1>1. shdrs \in Seq(T) /\ DOMAIN shdrs = 1 .. Len(shdrs) /\ Len(shdrs) \in Nat
      BY DEF StubsIInv, StubsTypeOK
<1>2. ASSUME NEW x, NEW o, Denotes(x, o)
      PROVE  IdAt(x) = o
      BY <1>1, <1>2 DEF Denotes, IdAt
<1>3. ASSUME NEW i \in DOMAIN shdrs
      PROVE  HeaderOf(shdrs[i].id) = shdrs[i]
  <2>1. \A h \in {shdrs[j] : j \in DOMAIN shdrs} : h.id = shdrs[i].id => h = shdrs[i]
        BY DEF StubsIInv, SectionsKept
  <2> QED
      BY <2>1 DEF HeaderOf
<1>4. doomed = {input.vstubs[i] : i \in DOMAIN vstubs}
  <2>1. \A i \in DOMAIN vstubs : IdAt(vstubs[i]) = input.vstubs[i]
        BY <1>2 DEF StubsIInv, IndexFidelity
  <2> QED
      BY <2>1 DEF doomed
<1>5. symOf = [s \in OrdinarySyms |-> IF input.syms[s] \in Removed THEN 0 ELSE input.syms[s]]
  <2>1. ASSUME NEW s \in OrdinarySyms
        PROVE  IdAt(symtab[s]) = IF input.syms[s] \in Removed THEN 0 ELSE input.syms[s]
    <3>1. Denotes(symtab[s], IF input.syms[s] \in Removed THEN 0 ELSE input.syms[s])
          BY DEF StubsIInv, IndexFidelity, SymbolsDenote, OrdinarySyms
    <3> QED
        BY <1>2, <3>1
  <2> QED
      BY <2>1 DEF symOf, OrdinarySyms
<1>6. ASSUME NEW n \in live
      PROVE  /\ IdAt(HeaderOf(n).link) = input.scns[n].link
             /\ HeaderOf(n).type = input.scns[n].type
             /\ input.scns[n].type = "REL" => IdAt(HeaderOf(n).info) = input.scns[n].info
  <2>1. PICK i \in DOMAIN shdrs : n = shdrs[i].id
        BY DEF live
  <2>2. HeaderOf(n) = shdrs[i] /\ shdrs[i].type = input.scns[n].type
        BY <1>3, <2>1 DEF StubsIInv, SectionsKept
  <2>3. /\ Denotes(shdrs[i].link, input.scns[n].link)
        /\ shdrs[i].type = "REL" => Denotes(shdrs[i].info, input.scns[n].info)
        BY <2>1 DEF StubsIInv, IndexFidelity, HeadersDenote
  <2>4. IdAt(shdrs[i].link) = input.scns[n].link
        BY <1>2, <2>3
  <2>5. input.scns[n].type = "REL" => IdAt(shdrs[i].info) = input.scns[n].info
        BY <1>2, <2>2, <2>3
  <2> QED
      BY <2>2, <2>4, <2>5
<1>7. linkOf = [n \in live |-> input.scns[n].link]
      BY <1>6 DEF linkOf
<1>8. targetOf = [n \in {m \in live : input.scns[m].type = "REL"} |-> input.scns[n].info]
  <2>1. {m \in live : HeaderOf(m).type = "REL"} = {m \in live : input.scns[m].type = "REL"}
        BY <1>6
  <2> QED
      BY <1>6, <2>1 DEF targetOf
<1>9. IdAt(shstrndx) = input.shstrndx /\ IdAt(symtab_ndx) = input.symtab_ndx
      BY <1>2 DEF StubsIInv, IndexFidelity
<1> QED
    BY <1>4, <1>5, <1>7, <1>8, <1>9 DEF Mapped

\* An ELF as loaded is an initial state of the specification by identity.
LEMMA InitMaps == StubsInit => SG!Init
<1> SUFFICES ASSUME StubsInit PROVE SG!Init
    OBVIOUS
<1>1. StubsIInv /\ Mapped /\ StubElfOK(input)
      BY InitStubsIInv, MappedInv, StubElfsAssumption DEF StubsInit
<1>2. /\ \A i \in DOMAIN input.scns : input.scns[i].id = i /\ input.scns[i].link \in KeptOrNone(input)
      /\ \A i \in DOMAIN input.scns : input.scns[i].type = "REL" => input.scns[i].info \in KeptOrNone(input)
      /\ input.scns \in Seq([id : Nat, type : ScnTypes, name : Nat, link : Nat, info : Nat])
      BY <1>1 DEF StubElfOK
<1>3. /\ input.vstubs \in Seq(DOMAIN input.scns)
      /\ input.syms \in Seq(Nat)
      /\ \A s \in DOMAIN input.syms : input.syms[s] <= Len(input.scns) \/ input.syms[s] >= SHN_LORESERVE
      /\ input.shstrndx \in KeptOrNone(input) \ {0} /\ input.symtab_ndx \in KeptOrNone(input) \ {0}
      BY <1>1 DEF StubElfOK
<1>4. live = DOMAIN input.scns
      BY <1>2 DEF StubsInit, live
<1>5. doomed = {input.vstubs[i] : i \in DOMAIN input.vstubs} /\ doomed \subseteq live
  <2>1. doomed = {input.vstubs[i] : i \in DOMAIN input.vstubs}
        BY <1>1 DEF Mapped, StubsInit
  <2>2. \A i \in DOMAIN input.vstubs : input.vstubs[i] \in DOMAIN input.scns
        BY <1>3
  <2> QED
      BY <1>4, <2>1, <2>2
<1>6. ASSUME NEW n \in KeptOrNone(input) PROVE n \in (live \ doomed) \cup {0}
      BY <1>2, <1>4, <1>5 DEF KeptOrNone
<1>7. \A s \in DOMAIN symOf : symOf[s] \in live \cup {0}
  <2>1. ASSUME NEW s \in OrdinarySyms PROVE input.syms[s] \in live \cup {0}
    <3>1. input.syms[s] \in Nat /\ input.syms[s] <= Len(input.scns)
          BY <1>3, ReserveAssumption DEF OrdinarySyms
    <3> QED
        BY <1>2, <1>4, <3>1
  <2> QED
      BY <1>1, <2>1 DEF Mapped
<1>8. \A i \in live : linkOf[i] \in (live \ doomed) \cup {0}
      BY <1>1, <1>2, <1>4, <1>6 DEF Mapped
<1>9. \A r \in DOMAIN targetOf : targetOf[r] \in (live \ doomed) \cup {0}
      BY <1>1, <1>2, <1>4, <1>6 DEF Mapped
<1>10. {IdAt(shstrndx), IdAt(symtab_ndx)} \subseteq live \ doomed
       BY <1>1, <1>3, <1>6 DEF Mapped
<1> QED
    BY <1>5, <1>7, <1>8, <1>9, <1>10 DEF SG!Init

\* One removal takes exactly the section at c out of the file.
LEMMA RemovalByIdentity ==
  ASSUME StubsIInv, RemoveVstub, NEW c, c = vstubs[Len(vstubs)]
  PROVE  /\ c \in doomed /\ c # 0
         /\ input.scns[c].type = "PROGBITS"
         /\ live' = live \ {c}
         /\ {input.vstubs[i] : i \in DOMAIN vstubs'} = {input.vstubs[i] : i \in DOMAIN vstubs} \ {c}
         /\ Removed' = Removed \cup {c}
<1> DEFINE n == Len(vstubs)
<1>1. /\ input.vstubs \in Seq(DOMAIN input.scns)
      /\ Ascending(input.vstubs)
      /\ DOMAIN input.scns = 1 .. Len(input.scns)
      /\ \A i \in DOMAIN input.vstubs : input.scns[input.vstubs[i]].type = "PROGBITS"
      BY DEF StubsIInv, StubsTypeOK, StubElfOK
<1>2. /\ vstubs \in Seq(DOMAIN input.scns)
      /\ n \in Nat \ {0}
      /\ n \in DOMAIN vstubs
      /\ n <= Len(input.vstubs) /\ n \in DOMAIN input.vstubs
      /\ c = input.vstubs[n]
      BY <1>1, SMTT(40) DEF StubsIInv, StubsTypeOK, PrefixKept, RemoveVstub
<1>3. c \in DOMAIN shdrs /\ shdrs[c].id = c /\ c # 0
  <2>1. c # 0
        BY <1>1, <1>2
  <2>2. Denotes(c, c)
        BY <1>2 DEF StubsIInv, IndexFidelity
  <2> QED
      BY <2>1, <2>2 DEF Denotes
<1>4. c \in doomed
  <2>1. doomed = {input.vstubs[i] : i \in DOMAIN vstubs}
        BY MappedInv DEF Mapped
  <2> QED
      BY <1>2, <2>1
<1>5. live' = live \ {c}
  <2>1. shdrs \in Seq([id : DOMAIN input.scns, type : ScnTypes, name : Nat, link : Nat, info : Nat])
        BY DEF StubsIInv, StubsTypeOK
  <2>2. DOMAIN shdrs = 1 .. Len(shdrs) /\ Len(shdrs) \in Nat /\ c \in 1 .. Len(shdrs)
        BY <1>3, <2>1
  <2>3. /\ DOMAIN shdrs' = 1 .. Len(shdrs) - 1
        /\ \A i \in DOMAIN shdrs' : shdrs'[i] = FixupHeader(IF i < c THEN shdrs[i] ELSE shdrs[i + 1], c)
        BY DEF RemoveVstub, elfx_remscn
  <2>4. ASSUME NEW j \in DOMAIN shdrs PROVE FixupHeader(shdrs[j], c).id = shdrs[j].id
    <3>1. shdrs[j] \in [id : DOMAIN input.scns, type : ScnTypes, name : Nat, link : Nat, info : Nat]
          BY <2>1, HeaderTyped
    <3> QED
        BY <3>1 DEF FixupHeader
  <2>5. ASSUME NEW i \in DOMAIN shdrs'
        PROVE  shdrs'[i].id \in live \ {c}
    <3>1. PICK j \in DOMAIN shdrs : j = (IF i < c THEN i ELSE i + 1) /\ j # c
          BY <2>2, <2>3
    <3>2. shdrs'[i].id = shdrs[j].id
      <4>1. shdrs'[i] = FixupHeader(shdrs[j], c)
        <5>1. CASE i < c
              BY <2>3, <3>1, <5>1
        <5>2. CASE ~ (i < c)
              BY <2>3, <3>1, <5>2
        <5> QED
            BY <5>1, <5>2
      <4> QED
          BY <2>4, <4>1
    <3>3. shdrs[j].id # c
          BY <1>3, <3>1 DEF StubsIInv, SectionsKept
    <3> QED
        BY <3>2, <3>3 DEF live
  <2>6. ASSUME NEW m \in live \ {c}
        PROVE  \E i \in DOMAIN shdrs' : shdrs'[i].id = m
    <3>1. PICK j \in DOMAIN shdrs : shdrs[j].id = m /\ j # c
          BY <1>3 DEF live
    <3>2. CASE j < c
      <4>1. j \in DOMAIN shdrs'
            BY <2>2, <2>3, <3>2
      <4>2. shdrs'[j] = FixupHeader(shdrs[j], c)
            BY <2>3, <3>2, <4>1
      <4> QED
          BY <2>4, <3>1, <4>1, <4>2
    <3>3. CASE j > c
      <4>1. j - 1 \in DOMAIN shdrs' /\ ~ (j - 1 < c) /\ (j - 1) + 1 = j
            BY <2>2, <2>3, <3>3
      <4>2. shdrs'[j - 1] = FixupHeader(shdrs[j], c)
            BY <2>3, <4>1
      <4> QED
          BY <2>4, <3>1, <4>1, <4>2
    <3> QED
        BY <2>2, <3>1, <3>2, <3>3
  <2> QED
      BY <2>5, <2>6, SMTT(40) DEF live
<1>6. vstubs' = [i \in 1 .. n - 1 |-> vstubs[i]]
      BY DEF RemoveVstub
<1>7. {input.vstubs[i] : i \in DOMAIN vstubs'} = {input.vstubs[i] : i \in DOMAIN vstubs} \ {c}
  <2>3. DOMAIN vstubs = 1 .. n
        BY <1>2
  <2>1. DOMAIN vstubs = (1 .. n - 1) \cup {n} /\ DOMAIN vstubs' = 1 .. n - 1
        BY <1>2, <1>6, <2>3
  <2>2. ASSUME NEW i \in 1 .. n - 1 PROVE input.vstubs[i] # c
    <3>1. i \in DOMAIN input.vstubs /\ i < n
          BY <1>1, <1>2
    <3>2. input.vstubs[i] < input.vstubs[n] /\ input.vstubs[n] \in Nat
          BY <1>1, <1>2, <3>1, SMTT(40) DEF Ascending
    <3> QED
        BY <1>2, <3>2
  <2> QED
      BY <1>2, <2>1, <2>2
<1>8. Removed' = Removed \cup {c}
  <2>1. Len(vstubs') = n - 1
    <3>1. n - 1 \in Nat
          BY <1>2
    <3> QED
        BY <1>6, <3>1
  <2>2. input' = input
        BY DEF RemoveVstub
  <2>3. Len(vstubs') + 1 .. Len(input.vstubs) = (Len(vstubs) + 1 .. Len(input.vstubs)) \cup {n}
        BY <1>1, <1>2, <2>1
  <2> QED
      BY <1>2, <2>2, <2>3 DEF Removed
<1>9. input.scns[c].type = "PROGBITS"
      BY <1>1, <1>2
<1> QED
    BY <1>3, <1>4, <1>5, <1>7, <1>8, <1>9

\* A removal is a Drop of the identity-level specification.
LEMMA RemoveVstubMaps ==
  ASSUME StubsIInv, RemoveVstub, Mapped, Mapped'
  PROVE  SG!Next
<1> DEFINE c == vstubs[Len(vstubs)]
<1>1. /\ c \in doomed /\ c # 0
      /\ input.scns[c].type = "PROGBITS"
      /\ live' = live \ {c}
      /\ {input.vstubs[i] : i \in DOMAIN vstubs'} = {input.vstubs[i] : i \in DOMAIN vstubs} \ {c}
      /\ Removed' = Removed \cup {c}
      BY RemovalByIdentity
<1> HIDE DEF c
<1>2. input' = input
      BY DEF RemoveVstub
<1>3. doomed' = doomed \ {c}
      BY <1>1, <1>2 DEF Mapped
<1>4. OrdinarySyms' = OrdinarySyms
      BY <1>2 DEF OrdinarySyms
<1>5. symOf' = [s \in DOMAIN symOf |-> IF symOf[s] = c THEN 0 ELSE symOf[s]]
      BY <1>1, <1>2, <1>4 DEF Mapped
<1>6. linkOf' = [i \in live \ {c} |-> linkOf[i]]
      BY <1>1, <1>2 DEF Mapped
<1>7. targetOf' = targetOf
  <2>1. {m \in live' : input'.scns[m].type = "REL"} = {m \in live : input.scns[m].type = "REL"}
        BY <1>1, <1>2
  <2> QED
      BY <1>2, <2>1 DEF Mapped
<1>8. IdAt(shstrndx)' = IdAt(shstrndx) /\ IdAt(symtab_ndx)' = IdAt(symtab_ndx)
      BY <1>2 DEF Mapped
<1>9. SG!Drop(c)
      BY <1>1, <1>3, <1>5, <1>6, <1>7, <1>8 DEF SG!Drop
<1> QED
    BY <1>1, <1>9 DEF SG!Next

\* The first loop renames and rewrites, and nothing that has an identity moves.
LEMMA StepMaps == StubsIInv /\ Mapped /\ Mapped' /\ [StubsNext]_stubs_vars => [SG!Next]_(SG!vars)
<1> SUFFICES ASSUME StubsIInv, Mapped, Mapped', [StubsNext]_stubs_vars
             PROVE  SG!Next \/ UNCHANGED SG!vars
    OBVIOUS
<1>1. CASE RemoveVstub
      BY <1>1, RemoveVstubMaps
<1>2. CASE UNCHANGED <<input, shdrs, symtab, vstubs, shstrndx, symtab_ndx>>
  <2>1. live' = live /\ IdAt(shstrndx)' = IdAt(shstrndx) /\ IdAt(symtab_ndx)' = IdAt(symtab_ndx)
        BY <1>2 DEF live, IdAt
  <2>2. doomed' = doomed
        BY <1>2 DEF Mapped
  <2>3. Removed' = Removed /\ OrdinarySyms' = OrdinarySyms
        BY <1>2 DEF Removed, OrdinarySyms
  <2>4. symOf' = symOf /\ linkOf' = linkOf /\ targetOf' = targetOf
        BY <1>2, <2>1, <2>3 DEF Mapped
  <2> QED
      BY <2>1, <2>2, <2>4 DEF SG!vars
<1> QED
    BY <1>1, <1>2 DEF StubsNext, RewriteFstub, MalformedFstub, FstubsDone, StubsTerminated, stubs_vars

\* Renumbering by hand is removal by identity: whatever the ELF, every step of
\* sce_elf_rewrite_stubs() either drops one variable-stub section, undefines
\* exactly the symbols it defined and leaves every other name in the file with
\* the meaning it had, or changes no such name at all.
THEOREM ImplementsIdentity == StubsSpec => ImplementsSectionGraph
<1>1. StubsInit => SG!Init
      BY InitMaps
<1>2. StubsIInv /\ Mapped /\ Mapped' /\ [StubsNext]_stubs_vars => [SG!Next]_(SG!vars)
      BY StepMaps
<1>3. StubsIInv => Mapped
      BY MappedInv
<1> QED
    BY <1>1, <1>2, <1>3, InitStubsIInv, StepStubsIInv, PTL DEF StubsSpec, ImplementsSectionGraph, SG!Spec
============================================================================
