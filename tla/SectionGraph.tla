--------------------------- MODULE SectionGraph ---------------------------
(***************************************************************************)
(* What dropping the variable-stub sections of an ELF promises, said about *)
(* sections by IDENTITY: a symbol, a header link or a relocation target    *)
(* names a section, and goes on naming the same section whatever happens   *)
(* to the others.  ELF itself stores section INDICES, which all move when  *)
(* a section goes; module StubSections shows that the renumbering of       *)
(* sce_elf_rewrite_stubs() implements this specification.                  *)
(***************************************************************************)
VARIABLES live,     \* the sections the file still has
          doomed,   \* those that have to go
          symOf,    \* symbol  -> the section it is defined in, 0 when none
          linkOf,   \* section -> the section its sh_link names, 0 when none
          targetOf, \* relocation section -> the section it patches
          shstr,    \* the section-name string table
          symtab    \* the symbol table

vars == <<live, doomed, symOf, linkOf, targetOf, shstr, symtab>>

Init ==
  /\ doomed \subseteq live
  /\ \A s \in DOMAIN symOf : symOf[s] \in live \cup {0}
  /\ \A i \in live : linkOf[i] \in (live \ doomed) \cup {0}
  /\ \A r \in DOMAIN targetOf : targetOf[r] \in (live \ doomed) \cup {0}
  /\ {shstr, symtab} \subseteq live \ doomed

\* Section v goes: the symbols it defined become undefined, and every other
\* name in the file keeps its meaning.
Drop(v) ==
  /\ doomed' = doomed \ {v}
  /\ live' = live \ {v}
  /\ symOf' = [s \in DOMAIN symOf |-> IF symOf[s] = v THEN 0 ELSE symOf[s]]
  /\ linkOf' = [i \in live \ {v} |-> linkOf[i]]
  /\ UNCHANGED <<targetOf, shstr, symtab>>

Next == \E v \in doomed : Drop(v)

Spec == Init /\ [][Next]_vars
============================================================================
