----------------------------- MODULE MCRelocs -----------------------------
(***************************************************************************)
(* Relocs on ELFs of two segments, text at 16 and data at 32, with one     *)
(* fixed relocation and one of every kind: every type, inside and outside  *)
(* its section, in a mapped section, in one that no segment maps, and in a *)
(* table load skips; to every kind of symbol, with addends -2, 0 and 2.    *)
(***************************************************************************)
EXTENDS Relocs

\* text, data, a section whose addresses the module info will take, and the
\* section of a variable stub.
MCScns == <<[addr |-> 16, size |-> 7], [addr |-> 32, size |-> 8], [addr |-> 24, size |-> 4], [addr |-> 0, size |-> 4]>>

Sym(value, shndx) == [value |-> value, shndx |-> shndx]
MCSyms == <<Sym(0, "UND"),
            Sym(18, "DEF"),     \* a function in ARM code
            Sym(21, "DEF"),     \* one in Thumb code
            Sym(36, "DEF"),     \* a variable
            Sym(23, "DEF"),     \* the end of the text, as a linker symbol
            Sym(40, "DEF"),     \* the end of the data
            Sym(20, "ABS"),
            Sym(2, "COMMON"),
            Sym(0, "DEF")>>     \* an imported variable: symbol of a stub
StubSym == 9

Rel(type, offset, sym, ref) == [type |-> type, offset |-> offset, sym |-> sym, ref |-> ref]

Places == {[scn |-> 1, at |-> 20, mapped |-> TRUE], [scn |-> 1, at |-> 40, mapped |-> TRUE],
           [scn |-> 2, at |-> 34, mapped |-> TRUE], [scn |-> 3, at |-> 24, mapped |-> TRUE],
           [scn |-> 3, at |-> 26, mapped |-> FALSE]}

\* The relocations the linker can have left at a place.
RelsAt(place) ==
  {Rel(type, place.at, sym, Plus(MCSyms[sym].value, A)) :
     type \in Types \ {"MOVT", "THM_CALL", "THM_JUMP24"}, sym \in DOMAIN MCSyms, A \in {0, 2, M - 2}}
  \cup {Rel("MOVT", place.at, sym, MCSyms[sym].value) : sym \in DOMAIN MCSyms}
  \cup {Rel(type, place.at, sym, Plus(MCSyms[sym].value - (MCSyms[sym].value % 2), A)) :
          type \in {"THM_CALL", "THM_JUMP24"}, sym \in DOMAIN MCSyms, A \in {0, 2, M - 4}}
  \cup {Rel("ABS32", place.at, 11, 0)}
  \* addends at the limits of the short form
  \cup {Rel("ABS32", place.at, StubSym, A) : A \in {7, 8, M - 8, M - 9}}

\* Module info: pointers into itself, to a function, to a variable, and a null one.
ModPtrs == {[at |-> 0, self |-> TRUE, to |-> 4], [at |-> 2, self |-> FALSE, to |-> 18], [at |-> 4, self |-> FALSE, to |-> 36],
            [at |-> 5, self |-> FALSE, to |-> 0]}

MkElf(fixed, place, rel, vstubs, textsz, start, entry) ==
  [segs    |-> <<[vaddr |-> 16, memsz |-> textsz], [vaddr |-> 32, memsz |-> 8]>>,
   scns    |-> MCScns,
   tables  |-> <<[mapped |-> TRUE, scn |-> 1, rels |-> <<fixed>>],
                 [mapped |-> place.mapped, scn |-> place.scn, rels |-> <<rel>>]>>,
   syms    |-> MCSyms,
   vstubs  |-> vstubs,
   modsize |-> 6,
   modptrs |-> ModPtrs,
   start   |-> start,      \* address of module_start; 0: there is none
   entry   |-> entry]

Fixed == {Rel("ABS32", 16, 4, 36), Rel("REL32", 16, StubSym, 2)}
Stubs == {<<>>, <<StubSym>>, <<0, StubSym>>}

MCElfs ==
  UNION {{MkElf(f, p, rel, st, 7, 18, 20) : f \in Fixed, rel \in RelsAt(p), st \in Stubs} : p \in Places}
  \* no room for the module info, no module_start, an entry point in no segment
  \cup {MkElf(f, p, Rel("ABS32", p.at, 4, 36), st, sz, 18, 20) : f \in Fixed, p \in Places, st \in Stubs, sz \in {12, 16}}
  \cup {MkElf(f, p, Rel("ABS32", p.at, 4, 36), st, 10, start, 20) : f \in Fixed, p \in Places, st \in Stubs, start \in {0, 18}}
  \cup {MkElf(f, p, Rel("ABS32", p.at, 4, 36), st, 7, 18, 90) : f \in Fixed, p \in Places, st \in Stubs}

\* module_start and the entry point of the ELF in different segments.
SplitElfs == {MkElf(f, p, Rel("ABS32", p.at, 4, 36), st, 7, start, 34) : f \in Fixed, p \in Places, st \in Stubs, start \in {0, 18}}
============================================================================
