-------------------------- MODULE MCStubSections --------------------------
(***************************************************************************)
(* StubSections on every ELF of MCLen sections with one symbol table, one  *)
(* name table and any arrangement of text, function-stub, variable-stub    *)
(* and relocation sections around them.  There is a symbol in every        *)
(* section, an undefined one, an absolute one and a common one.            *)
(***************************************************************************)
EXTENDS StubSections

CONSTANT MCLen

Kinds == {"text", "fstub", "vstub", "rel", "symtab", "shstrtab"}

\* The arrangements, with exactly one symbol table and one name table.
Layouts ==
  {l \in [1 .. MCLen -> Kinds] :
     /\ Cardinality({i \in 1 .. MCLen : l[i] = "symtab"}) = 1
     /\ Cardinality({i \in 1 .. MCLen : l[i] = "shstrtab"}) = 1}

Where(l, kind) == CHOOSE i \in 1 .. MCLen : l[i] = kind
Indices(l, kind) == {i \in 1 .. MCLen : l[i] = kind}

\* The elements of a set of numbers, ascending.
InOrder(S) == CHOOSE s \in [1 .. Cardinality(S) -> S] : Ascending(s)

\* "own": every section has its name at an offset of its own.  "shared": the
\* function stubs share one.  "nodot": names without the final dot, which
\* vita_elf_load() takes for stub sections and the rewrite does not.
NameModes == {"own", "shared", "nodot"}

Header(l, i, tgt, mode) ==
  [id   |-> i,
   type |-> CASE l[i] = "rel" -> "REL"
              [] l[i] = "symtab" -> "SYMTAB"
              [] l[i] = "shstrtab" -> "STRTAB"
              [] OTHER -> "PROGBITS",
   name |-> IF mode = "shared" /\ l[i] = "fstub" THEN MCLen + 1 ELSE i,
   link |-> CASE l[i] = "rel" -> Where(l, "symtab")
              [] l[i] = "symtab" -> Where(l, "shstrtab")
              [] OTHER -> 0,
   info |-> CASE l[i] = "rel" -> tgt
              [] l[i] = "symtab" -> 3          \* three local symbols
              [] OTHER -> 0]

MkElf(l, tgt, mode) ==
  [scns       |-> [i \in 1 .. MCLen |-> Header(l, i, tgt, mode)],
   strings    |-> [n \in 1 .. MCLen + 1 |->
                     IF n <= MCLen /\ l[n] # "fstub" THEN "other"
                     ELSE IF mode = "nodot" THEN ".vitalink.fstubs" ELSE ".vitalink.fstubs."],
   syms       |-> [s \in 1 .. MCLen + 3 |->
                     IF s <= MCLen + 1 THEN s - 1 ELSE IF s = MCLen + 2 THEN 65521 ELSE 65522],
   fstubs     |-> InOrder(Indices(l, "fstub")),
   vstubs     |-> InOrder(Indices(l, "vstub")),
   shstrndx   |-> Where(l, "shstrtab"),
   symtab_ndx |-> Where(l, "symtab")]

\* Relocation sections patch any one section that stays.
MCElfs ==
  UNION {{MkElf(l, tgt, mode) : tgt \in (1 .. MCLen) \ Indices(l, "vstub"), mode \in NameModes} : l \in Layouts}
============================================================================
