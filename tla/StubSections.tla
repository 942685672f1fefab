--------------------------- MODULE StubSections ---------------------------
(***************************************************************************)
(* sce_elf_rewrite_stubs() of vita-elf-create (sce-elf.c): in the output   *)
(* ELF, function-stub sections are renamed and their entries overwritten   *)
(* with a real stub body; variable-stub sections are removed one at a      *)
(* time, last first, and after each removal every section index in the     *)
(* file is renumbered by hand.                                             *)
(*                                                                         *)
(* Section headers carry a field of our own, id: the index the section     *)
(* had in the input.  The code has no such field; it lets the properties   *)
(* speak of "the same section" across renumberings.                        *)
(***************************************************************************)
EXTENDS Naturals, Sequences, FiniteSets

CONSTANTS StubElfs,       \* the input ELFs considered (see StubElfOK)
          SHN_LORESERVE   \* first reserved section index, 0xff00 in ELF

VARIABLES input,      \* the input, for reference: never changes
          loop,       \* which loop the function is in, or how it ended
          nth,        \* next element of fstubs_va
          shdrs,      \* section headers of dest; index 0 is ELF's null section
          symtab,     \* st_shndx of every symbol
          strings,    \* what .shstrtab holds at each offset
          body,       \* id -> what the section's data are
          vstubs,     \* vstubs_va: indices of the sections still to remove
          shstrndx,   \* e_shstrndx of dest
          symtab_ndx  \* ve->symtab_ndx

stubs_vars == <<input, loop, nth, shdrs, symtab, strings, body, vstubs, shstrndx, symtab_ndx>>

----------------------------------------------------------------------------
(* Inputs.  vita_elf_load() pushes a stub section's index while it walks    *)
(* the sections in order, so fstubs and vstubs are ascending and disjoint;  *)
(* it takes sections of type SHT_PROGBITS only.                             *)

\* Class of a section name: the prefix load tests with strncmp, with and
\* without the dot that the rewrite insists on, its replacement, or another.
Names == {".vitalink.fstubs.", ".vitalink.fstubs", ".text.fstubs.", "other"}
ScnTypes == {"PROGBITS", "REL", "SYMTAB", "STRTAB"}

Ascending(s) == \A i, j \in DOMAIN s : i < j => s[i] < s[j]

\* A section index of a section that is not about to be removed, or none.
KeptOrNone(e) == {n \in 0 .. Len(e.scns) : \A i \in DOMAIN e.vstubs : e.vstubs[i] # n}

StubElfOK(e) ==
  /\ Len(e.scns) < SHN_LORESERVE
  /\ e.scns \in Seq([id : Nat, type : ScnTypes, name : Nat, link : Nat, info : Nat])
  /\ \A i \in DOMAIN e.scns :
        /\ e.scns[i].id = i
        /\ e.scns[i].name \in DOMAIN e.strings
        /\ e.scns[i].link \in KeptOrNone(e)
        /\ e.scns[i].type = "REL" => e.scns[i].info \in KeptOrNone(e)
  /\ e.strings \in [DOMAIN e.strings -> Names]
  /\ e.syms \in Seq(Nat)
  /\ \A s \in DOMAIN e.syms : e.syms[s] <= Len(e.scns) \/ e.syms[s] >= SHN_LORESERVE
  /\ e.fstubs \in Seq(DOMAIN e.scns) /\ Ascending(e.fstubs)
  /\ e.vstubs \in Seq(DOMAIN e.scns) /\ Ascending(e.vstubs)
  /\ \A i \in DOMAIN e.fstubs : e.fstubs[i] \in KeptOrNone(e) /\ e.scns[e.fstubs[i]].type = "PROGBITS"
  /\ \A i \in DOMAIN e.vstubs : e.scns[e.vstubs[i]].type = "PROGBITS"
  /\ e.shstrndx \in KeptOrNone(e) \ {0}
  /\ e.symtab_ndx \in KeptOrNone(e) \ {0}

ASSUME ReserveAssumption == SHN_LORESERVE \in Nat
ASSUME StubElfsAssumption == \A e \in StubElfs : StubElfOK(e)

StubsInit ==
  /\ input \in StubElfs
  /\ loop = "fstubs"
  /\ nth = 1
  /\ shdrs = input.scns
  /\ symtab = input.syms
  /\ strings = input.strings
  /\ body = [i \in DOMAIN input.scns |-> "input"]
  /\ vstubs = input.vstubs
  /\ shstrndx = input.shstrndx
  /\ symtab_ndx = input.symtab_ndx

----------------------------------------------------------------------------
(* Function stubs: rename in place in .shstrtab, overwrite the entries.     *)

NameOf(scn) == strings[shdrs[scn].name]

\* Mutant: the loop counter is taken for a section index.
RewriteFstub_CounterAsIndex ==
  /\ loop = "fstubs"
  /\ nth <= Len(input.fstubs)
  /\ NameOf(input.fstubs[nth]) = ".vitalink.fstubs."
  /\ strings' = [strings EXCEPT ![shdrs[input.fstubs[nth]].name] = ".text.fstubs."]
  /\ body' = [body EXCEPT ![nth] = "mvn_bx"]
  /\ nth' = nth + 1
  /\ UNCHANGED <<input, loop, shdrs, symtab, vstubs, shstrndx, symtab_ndx>>

RewriteFstub ==
  /\ loop = "fstubs"
  /\ nth <= Len(input.fstubs)
  /\ NameOf(input.fstubs[nth]) = ".vitalink.fstubs."
  /\ strings' = [strings EXCEPT ![shdrs[input.fstubs[nth]].name] = ".text.fstubs."]
  /\ body' = [body EXCEPT ![input.fstubs[nth]] = "mvn_bx"]
  /\ nth' = nth + 1
  /\ UNCHANGED <<input, loop, shdrs, symtab, vstubs, shstrndx, symtab_ndx>>

\* errx(EXIT_FAILURE, "... malformed .vitalink.fstubs section ...")
MalformedFstub ==
  /\ loop = "fstubs"
  /\ nth <= Len(input.fstubs)
  /\ NameOf(input.fstubs[nth]) # ".vitalink.fstubs."
  /\ loop' = "errx"
  /\ UNCHANGED <<input, nth, shdrs, symtab, strings, body, vstubs, shstrndx, symtab_ndx>>

FstubsDone ==
  /\ loop = "fstubs"
  /\ nth > Len(input.fstubs)
  /\ loop' = IF vstubs = <<>> THEN "done" ELSE "vstubs"
  /\ UNCHANGED <<input, nth, shdrs, symtab, strings, body, vstubs, shstrndx, symtab_ndx>>

----------------------------------------------------------------------------
(* Variable stubs.  The loop index is always the last element of vstubs_va, *)
(* which varray_remove() then drops; the code's inner loop over the         *)
(* elements after it finds none.                                            *)

\* elfx_remscn(): the section at index c goes, those after it move down.
elfx_remscn(s, c) == [i \in 1 .. Len(s) - 1 |-> IF i < c THEN s[i] ELSE s[i + 1]]

\* Mutants: every index moves down; the section after the removed one does not.
Renumber_Unguarded(x, c) == x - 1
Renumber_OffByOne(x, c) == IF x > c + 1 THEN x - 1 ELSE x

\* An index of the file when section c goes.
Renumber(x, c) == IF x > c THEN x - 1 ELSE x

\* The same for sh_link and sh_info, of every section whatever its type.
FixupHeader(h, c) == [h EXCEPT !.link = Renumber(@, c), !.info = Renumber(@, c)]

\* Mutant: symbols of the deleted section stay.
update_symtab_entries_Dangling(syms, c) == [s \in DOMAIN syms |-> Renumber(syms[s], c)]

\* A symbol of the deleted section becomes undefined.
update_symtab_entries(syms, c) ==
  [s \in DOMAIN syms |-> IF syms[s] = c THEN 0 ELSE Renumber(syms[s], c)]

RemoveVstub ==
  /\ loop = "vstubs"
  /\ LET c   == vstubs[Len(vstubs)]
         rem == elfx_remscn(shdrs, c)
     IN /\ shdrs' = [i \in DOMAIN rem |-> FixupHeader(rem[i], c)]
        /\ symtab' = update_symtab_entries(symtab, c)
        /\ shstrndx' = Renumber(shstrndx, c)
        /\ symtab_ndx' = Renumber(symtab_ndx, c)
        /\ vstubs' = [i \in 1 .. Len(vstubs) - 1 |-> vstubs[i]]
  /\ loop' = IF Len(vstubs) = 1 THEN "done" ELSE "vstubs"
  /\ UNCHANGED <<input, nth, strings, body>>

StubsTerminated ==
  /\ loop \in {"done", "errx"}
  /\ UNCHANGED stubs_vars

StubsNext == RewriteFstub \/ MalformedFstub \/ FstubsDone \/ RemoveVstub \/ StubsTerminated

StubsSpec == StubsInit /\ [][StubsNext]_stubs_vars

----------------------------------------------------------------------------
(* Properties.                                                              *)

\* The indices in the input of the sections already removed.
Removed == {input.vstubs[i] : i \in Len(vstubs) + 1 .. Len(input.vstubs)}

\* Index x of the output names what index o named in the input.
Denotes(x, o) ==
  IF o = 0 THEN x = 0 ELSE x \in DOMAIN shdrs /\ shdrs[x].id = o

\* Every variable has its type.
StubsTypeOK ==
  /\ StubElfOK(input)
  /\ loop \in {"fstubs", "vstubs", "done", "errx"}
  /\ nth \in 1 .. Len(input.fstubs) + 1
  /\ shdrs \in Seq([id : DOMAIN input.scns, type : ScnTypes, name : Nat, link : Nat, info : Nat])
  /\ symtab \in [DOMAIN input.syms -> Nat]
  /\ strings \in [DOMAIN input.strings -> Names]
  /\ body \in [DOMAIN input.scns -> {"input", "mvn_bx"}]
  /\ vstubs \in Seq(DOMAIN input.scns)
  /\ shstrndx \in Nat /\ symtab_ndx \in Nat

\* A symbol with an ordinary section index names the section it named in the
\* input, or none once that section is removed.
SymbolsDenote ==
  \A s \in DOMAIN input.syms : input.syms[s] < SHN_LORESERVE =>
     Denotes(symtab[s], IF input.syms[s] \in Removed THEN 0 ELSE input.syms[s])

\* The link of every remaining header, and the target of every remaining
\* relocation section, name the section they named in the input.
HeadersDenote ==
  \A i \in DOMAIN shdrs :
     /\ Denotes(shdrs[i].link, input.scns[shdrs[i].id].link)
     /\ shdrs[i].type = "REL" => Denotes(shdrs[i].info, input.scns[shdrs[i].id].info)

\* Through the whole removal loop of sce_elf_rewrite_stubs(), no index of the
\* file comes to name another section: not in the symbol table, the section
\* headers or e_shstrndx, nor in the indices the loop itself still uses.
IndexFidelity ==
  /\ SymbolsDenote
  /\ HeadersDenote
  /\ Denotes(shstrndx, input.shstrndx)
  /\ Denotes(symtab_ndx, input.symtab_ndx)
  /\ \A i \in DOMAIN vstubs : Denotes(vstubs[i], input.vstubs[i])

\* What the loop keeps besides: vstubs_va is a prefix of what load pushed, and
\* no section is duplicated or changes its type.  With StubsTypeOK and IndexFidelity
\* this is inductive: a symbol of the section being removed can be told by its
\* index only because ids are unique, and vstubs_va needs no renumbering only
\* because load pushed it in ascending order.
PrefixKept ==
  /\ Len(vstubs) <= Len(input.vstubs)
  /\ \A i \in DOMAIN vstubs : vstubs[i] = input.vstubs[i]
  /\ loop = "vstubs" => vstubs # <<>>

SectionsKept ==
  /\ \A i, j \in DOMAIN shdrs : shdrs[i].id = shdrs[j].id => i = j
  /\ \A i \in DOMAIN shdrs : shdrs[i].type = input.scns[shdrs[i].id].type

StubsIInv == StubsTypeOK /\ PrefixKept /\ SectionsKept /\ IndexFidelity

\* How far the first loop is: exactly the sections it has been through have the
\* stub body and the new name.  The removals that follow take the headers to
\* other indices and leave the names and the data where they are.
RewriteProgress ==
  /\ loop = "fstubs" => shdrs = input.scns
  /\ loop \in {"vstubs", "done"} => nth = Len(input.fstubs) + 1
  /\ \A i \in DOMAIN shdrs : shdrs[i].name = input.scns[shdrs[i].id].name
  /\ \A n \in DOMAIN input.scns : body[n] = "mvn_bx" <=> \E f \in 1 .. nth - 1 : input.fstubs[f] = n
  /\ \A f \in 1 .. nth - 1 : strings[input.scns[input.fstubs[f]].name] = ".text.fstubs."

\* When the function returns, the function-stub sections, and no others, have
\* the stub body and the new name, wherever the removals have moved them.
FstubsRewritten ==
  loop = "done" =>
    \A i \in DOMAIN shdrs :
      LET fstub == \E f \in DOMAIN input.fstubs : input.fstubs[f] = shdrs[i].id
      IN /\ (body[shdrs[i].id] = "mvn_bx") <=> fstub
         /\ fstub => NameOf(i) = ".text.fstubs."

\* "Fixup symbol table section indices" (sce-elf.c:1439): a reserved st_shndx
\* such as SHN_ABS is not a section index, so the fixup leaves it alone.
ReservedIndicesKept ==
  \A s \in DOMAIN input.syms : input.syms[s] >= SHN_LORESERVE => symtab[s] = input.syms[s]

\* "Fixup section index references" (sce-elf.c:1425): the sh_info of a symbol
\* table counts its local symbols; it is no section index, so it is kept.
LocalSymbolCountKept ==
  \A i \in DOMAIN shdrs :
     shdrs[i].type = "SYMTAB" => shdrs[i].info = input.scns[shdrs[i].id].info

----------------------------------------------------------------------------
(* The renumbering implements removal by identity.                          *)

live == {shdrs[i].id : i \in DOMAIN shdrs}
HeaderOf(n) == CHOOSE h \in {shdrs[i] : i \in DOMAIN shdrs} : h.id = n
IdAt(x) == IF x \in DOMAIN shdrs THEN shdrs[x].id ELSE 0

doomed   == {IdAt(vstubs[i]) : i \in DOMAIN vstubs}
symOf    == [s \in {t \in DOMAIN input.syms : input.syms[t] < SHN_LORESERVE} |-> IdAt(symtab[s])]
linkOf   == [n \in live |-> IdAt(HeaderOf(n).link)]
targetOf == [n \in {m \in live : HeaderOf(m).type = "REL"} |-> IdAt(HeaderOf(n).info)]

SG == INSTANCE SectionGraph WITH shstr <- IdAt(shstrndx), symtab <- IdAt(symtab_ndx)

\* Each removal of sce_elf_rewrite_stubs() drops one variable-stub section of
\* the identity-level specification and changes nothing else that has a name.
ImplementsSectionGraph == SG!Spec
============================================================================
