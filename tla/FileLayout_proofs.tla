--------------------------- MODULE FileLayout_proofs ---------------------------
(***************************************************************************)
(* For every set of import files and programs: what vita-elf-create keeps  *)
(* true of the layout of the ELF while it moves its contents and adds      *)
(* sections, so that the file it leaves loads.                             *)
(***************************************************************************)
EXTENDS Imports_proofs

----------------------------------------------------------------------------
(* The sections of a file while it is written.                              *)

\* What an id says of a section, a section, and where it ends in the file; two of them
\* do not meet.
Kinds == {"elf", "vstub", "shstrtab", "info", "rel"}
Section == [segment : Nat, offset : Nat, size : Nat, nobits : BOOLEAN, id : Kinds \X Nat]
Past(s) == s.offset + InFile(s)
Clear(s, t) == InFile(s) = 0 \/ InFile(t) = 0 \/ Past(s) <= t.offset \/ Past(t) <= s.offset

\* No two of them meet, and all that is in the file is between low and high.
Layout(sections, low, high) ==
  /\ IsList(sections) /\ \A n \in DOMAIN sections : sections[n] \in Section /\ Past(sections[n]) <= high
  /\ \A n \in DOMAIN sections : InFile(sections[n]) # 0 => low <= sections[n].offset
  /\ \A m, n \in DOMAIN sections : m # n => Clear(sections[m], sections[n])

\* The names of the sections are the one of that name, behind all others.
NamesAt(sections, k) ==
  /\ k \in DOMAIN sections /\ ~ sections[k].nobits /\ sections[k].size # 0 /\ sections[k].id[1] = "shstrtab"
  /\ \A n \in DOMAIN sections \ {k} :
       sections[n].id[1] # "shstrtab" /\ (InFile(sections[n]) # 0 => Past(sections[n]) <= sections[k].offset)

\* A section of an id has contents, which are at an offset of a segment.
Carried(d, g, id, at) ==
  \E n \in DOMAIN d.sections :
    /\ d.sections[n].id = id /\ InFile(d.sections[n]) # 0
    /\ d.sections[n].offset = d.segments[g].offset + at /\ at + InFile(d.sections[n]) <= d.segments[g].filesz

\* The fields of a section.
LEMMA SectionFields ==
  ASSUME NEW s \in Section
  PROVE  /\ s.offset \in Nat /\ s.size \in Nat /\ s.nobits \in BOOLEAN /\ InFile(s) \in Nat /\ Past(s) \in Nat /\ s.segment \in Nat
         /\ Past(s) = s.offset + InFile(s)
         /\ DOMAIN s = {"segment", "offset", "size", "nobits", "id"}
BY DEF Section, InFile, Past

\* A section that is moved, or gets another size.
LEMMA SectionMoved ==
  ASSUME NEW s \in Section, NEW x \in Nat
  PROVE  /\ [s EXCEPT !.offset = x] \in Section /\ [s EXCEPT !.offset = x].offset = x
         /\ [s EXCEPT !.offset = x].size = s.size /\ [s EXCEPT !.offset = x].nobits = s.nobits
         /\ [s EXCEPT !.offset = x].id = s.id
         /\ InFile([s EXCEPT !.offset = x]) = InFile(s) /\ Past([s EXCEPT !.offset = x]) = x + InFile(s)
         /\ [s EXCEPT !.size = x] \in Section /\ [s EXCEPT !.size = x].offset = s.offset
         /\ [s EXCEPT !.size = x].size = x /\ [s EXCEPT !.size = x].nobits = s.nobits
         /\ [s EXCEPT !.size = x].id = s.id
BY DEF Section, InFile, Past

\* What lies behind a place is moved, and the header table with it.
Moved(d, e, start, amount) ==
  /\ IsHeaders(e) /\ e.shoff = d.shoff + amount
  /\ IsList(e.sections) /\ DOMAIN e.sections = DOMAIN d.sections /\ Len(e.sections) = Len(d.sections)
  /\ \A n \in DOMAIN d.sections :
       e.sections[n] = [d.sections[n] EXCEPT !.offset = Shifted(d.sections[n].offset, start, amount)]
  /\ DOMAIN e.segments = DOMAIN d.segments
  /\ \A n \in DOMAIN d.segments :
       e.segments[n] = [d.segments[n] EXCEPT !.offset = Shifted(d.segments[n].offset, start, amount)]

\* Contents are moved: as far as the sections reach, so does the header table.
LEMMA ShiftMoved ==
  ASSUME NEW d, IsHeaders(d), d.shoff \in Nat, NEW low, Layout(d.sections, low, d.shoff),
         NEW start \in Nat, NEW amount \in Nat, start <= d.shoff
  PROVE  Moved(d, elf_utils_shift_contents(d, start, amount), start, amount)
<1> DEFINE at(s) == Shifted(s.offset, start, amount)
           ends == {at(s) + InFile(s) : s \in ToSet(d.sections)}
           to == Shifted(d.shoff, start, amount)
           sections == [n \in DOMAIN d.sections |-> [d.sections[n] EXCEPT !.offset = at(d.sections[n])]]
           segments == [n \in DOMAIN d.segments |-> [d.segments[n] EXCEPT !.offset = at(d.segments[n])]]
           shoff == IF \A end \in ends : end <= to THEN to ELSE Max(ends)
           e == elf_utils_shift_contents(d, start, amount)
<1>1. e = [d EXCEPT !.sections = sections, !.segments = segments, !.shoff = shoff]
  <2>1. "sections" \in DOMAIN d /\ "segments" \in DOMAIN d /\ "shoff" \in DOMAIN d
        BY DEF IsHeaders
  <2> QED
      BY <2>1 DEF elf_utils_shift_contents
<1>2. \A end \in ends : end <= to
  <2> SUFFICES ASSUME NEW s \in ToSet(d.sections) PROVE at(s) + InFile(s) <= to
      OBVIOUS
  <2>1. s \in Section /\ Past(s) <= d.shoff
        BY DEF Layout, ToSet
  <2> QED
      BY <2>1, SectionFields DEF Shifted
<1>3. to = d.shoff + amount
      BY DEF Shifted
<1>4. sections = [n \in DOMAIN d.sections |-> sections[n]] /\ DOMAIN segments = DOMAIN d.segments
      /\ (\A n \in DOMAIN d.sections : sections[n] = [d.sections[n] EXCEPT !.offset = at(d.sections[n])])
      /\ (\A n \in DOMAIN d.segments : segments[n] = [d.segments[n] EXCEPT !.offset = at(d.segments[n])])
      /\ shoff = to
      BY <1>2
<1> HIDE DEF sections, segments, shoff, e
<1>5. IsHeaders(e) /\ e.sections = sections /\ e.segments = segments /\ e.shoff = shoff
      BY <1>1 DEF IsHeaders
<1>6. IsList(sections) /\ DOMAIN sections = DOMAIN d.sections /\ Len(sections) = Len(d.sections)
      BY <1>4, MapList DEF Layout
<1>7. Moved(d, e, start, amount)
      BY <1>3, <1>4, <1>5, <1>6 DEF Moved
<1> QED
    BY <1>7 DEF e

\* What does not lie across the place does not meet afterwards, and leaves room there.
LEMMA MovedLayout ==
  ASSUME NEW d, NEW e, NEW low \in Nat, d.shoff \in Nat, Layout(d.sections, low, d.shoff),
         NEW start \in Nat, NEW amount \in Nat, low <= start, Moved(d, e, start, amount)
  PROVE  /\ Layout(e.sections, low, e.shoff)
         /\ \A n \in DOMAIN d.sections :
              /\ e.sections[n].id = d.sections[n].id /\ e.sections[n].size = d.sections[n].size
              /\ e.sections[n].nobits = d.sections[n].nobits
              /\ InFile(e.sections[n]) = InFile(d.sections[n])
              /\ e.sections[n].offset = Shifted(d.sections[n].offset, start, amount)
<1>1. ASSUME NEW n \in DOMAIN d.sections
      PROVE  /\ e.sections[n] \in Section /\ d.sections[n] \in Section
             /\ e.sections[n].id = d.sections[n].id /\ e.sections[n].size = d.sections[n].size
             /\ e.sections[n].nobits = d.sections[n].nobits
             /\ InFile(e.sections[n]) = InFile(d.sections[n])
             /\ e.sections[n].offset = Shifted(d.sections[n].offset, start, amount)
             /\ Past(e.sections[n]) = e.sections[n].offset + InFile(d.sections[n])
             /\ Past(d.sections[n]) = d.sections[n].offset + InFile(d.sections[n])
             /\ d.sections[n].offset \in Nat /\ InFile(d.sections[n]) \in Nat
  <2>1. d.sections[n] \in Section
        BY DEF Layout
  <2>2. d.sections[n].offset \in Nat /\ InFile(d.sections[n]) \in Nat /\ Past(d.sections[n]) = d.sections[n].offset + InFile(d.sections[n])
        BY <2>1, SectionFields
  <2>3. PICK x \in Nat : x = Shifted(d.sections[n].offset, start, amount)
        BY <2>2 DEF Shifted
  <2>4. PICK s, t : s = d.sections[n] /\ t = e.sections[n]
        OBVIOUS
  <2>5. t = [s EXCEPT !.offset = x] /\ s \in Section
        BY <2>1, <2>3, <2>4 DEF Moved
  <2>6. t \in Section /\ t.offset = x /\ t.size = s.size /\ t.nobits = s.nobits /\ t.id = s.id
        /\ InFile(t) = InFile(s) /\ Past(t) = x + InFile(s)
        BY <2>5, SectionMoved
  <2> QED
      BY <2>1, <2>2, <2>3, <2>4, <2>6
<1>2. \A n \in DOMAIN e.sections : e.sections[n] \in Section /\ Past(e.sections[n]) <= e.shoff
  <2> SUFFICES ASSUME NEW n \in DOMAIN d.sections PROVE e.sections[n] \in Section /\ Past(e.sections[n]) <= e.shoff
      BY DEF Moved
  <2>1. Past(d.sections[n]) <= d.shoff /\ e.shoff = d.shoff + amount
        BY DEF Layout, Moved
  <2> QED
      BY <1>1, <2>1 DEF Shifted
<1>3. \A n \in DOMAIN e.sections : InFile(e.sections[n]) # 0 => low <= e.sections[n].offset
  <2> SUFFICES ASSUME NEW n \in DOMAIN d.sections, InFile(e.sections[n]) # 0 PROVE low <= e.sections[n].offset
      BY DEF Moved
  <2>1. low <= d.sections[n].offset
        BY <1>1 DEF Layout
  <2> QED
      BY <1>1, <2>1 DEF Shifted
<1>4. ASSUME NEW m \in DOMAIN e.sections, NEW n \in DOMAIN e.sections, m # n PROVE Clear(e.sections[m], e.sections[n])
  <2>1. m \in DOMAIN d.sections /\ n \in DOMAIN d.sections
        BY DEF Moved
  <2>2. Clear(d.sections[m], d.sections[n])
        BY <1>4, <2>1 DEF Layout
  <2> QED
      BY <1>1, <2>1, <2>2 DEF Clear, Shifted
<1>5. IsList(e.sections)
      BY DEF Moved
<1> QED
    BY <1>1, <1>2, <1>3, <1>4, <1>5 DEF Layout, Moved

----------------------------------------------------------------------------
(* A section is added (elf_utils_new_scn_with_name()).                      *)

\* A section is put where there is nothing: only the names, which get longer, and what is
\* empty are not what they were.
Added(d, e, k, section) ==
  /\ IsList(e.sections) /\ DOMAIN e.sections = DOMAIN d.sections \cup {Len(d.sections) + 1}
  /\ Len(e.sections) = Len(d.sections) + 1 /\ e.sections[Len(d.sections) + 1] = section
  /\ \A n \in DOMAIN d.sections :
       /\ e.sections[n].id = d.sections[n].id /\ (InFile(e.sections[n]) # 0 <=> InFile(d.sections[n]) # 0)
       /\ n # k /\ InFile(d.sections[n]) # 0 => e.sections[n] = d.sections[n]
  /\ e.sections[k].offset = d.sections[k].offset
  /\ \A n \in DOMAIN d.segments : d.segments[n].offset \in Int /\ d.segments[n].offset < d.sections[k].offset => e.segments[n].offset = d.segments[n].offset

\* A section is added where there is room for it: its name moves what is behind the names.
LEMMA NewSectionLayout ==
  ASSUME NEW d, IsHeaders(d), \A n \in DOMAIN d.segments : SegmentOK(d.segments[n]), d.shoff \in Nat, NEW low \in Nat, Layout(d.sections, low, d.shoff),
         NEW k, NamesAt(d.sections, k), NEW namelen \in Nat,
         NEW section \in Section, section.id[1] # "shstrtab", Past(section) <= d.shoff,
         InFile(section) # 0 => low <= section.offset /\ Past(section) <= d.sections[k].offset,
         \A n \in DOMAIN d.sections : Clear(section, d.sections[n])
  PROVE  LET e == elf_utils_new_scn_with_name(d, namelen, section)
         IN /\ Added(d, e, k, section) /\ e.shoff \in Nat /\ e.shoff >= d.shoff
            /\ Layout(e.sections, low, e.shoff) /\ NamesAt(e.sections, k)
<1> DEFINE end == d.sections[k].offset + d.sections[k].size
           f == elf_utils_shift_contents(d, end, namelen)
           size == d.sections[k].size + namelen
           sections == [f.sections EXCEPT ![k].size = size]
           e == elf_utils_new_scn_with_name(d, namelen, section)
           N == Len(d.sections)
<1>1. k = CHOOSE n \in DOMAIN d.sections : d.sections[n].id[1] = "shstrtab"
      BY DEF NamesAt
<1>2. e = [f EXCEPT !.sections = Append(sections, section)]
      BY <1>1 DEF elf_utils_new_scn_with_name
<1>3. /\ IsList(d.sections) /\ N \in Nat /\ DOMAIN d.sections = 1 .. N /\ k \in DOMAIN d.sections
      /\ \A n \in DOMAIN d.sections : d.sections[n] \in Section
      BY ListFacts DEF Layout, NamesAt
<1>4. /\ end \in Nat /\ end <= d.shoff /\ low <= end /\ Past(d.sections[k]) = end /\ d.sections[k].offset \in Nat
      /\ InFile(d.sections[k]) = d.sections[k].size /\ d.sections[k].size \in Nat /\ d.sections[k].size # 0 /\ size \in Nat /\ size # 0
  <2>1. Past(d.sections[k]) <= d.shoff /\ ~ d.sections[k].nobits /\ d.sections[k].size # 0
        BY <1>3 DEF Layout, NamesAt
  <2>2. InFile(d.sections[k]) = d.sections[k].size
        BY <2>1 DEF InFile
  <2>3. low <= d.sections[k].offset
        BY <1>3, <2>1, <2>2 DEF Layout
  <2>4. d.sections[k].offset \in Nat /\ d.sections[k].size \in Nat /\ Past(d.sections[k]) = d.sections[k].offset + InFile(d.sections[k])
        BY <1>3, SectionFields
  <2>5. end \in Nat /\ size \in Nat /\ Past(d.sections[k]) = end /\ end >= d.sections[k].offset
        BY <2>2, <2>4
  <2>6. size # 0
        BY <2>1, <2>4
  <2> HIDE DEF end, size
  <2> QED
      BY <1>3, <2>1, <2>2, <2>3, <2>4, <2>5, <2>6
<1> HIDE DEF end
<1>5. Moved(d, f, end, namelen)
      BY <1>4, ShiftMoved
<1> HIDE DEF f
<1>6. /\ Layout(f.sections, low, f.shoff)
      /\ \A n \in DOMAIN d.sections :
           /\ f.sections[n].id = d.sections[n].id /\ f.sections[n].size = d.sections[n].size
           /\ f.sections[n].nobits = d.sections[n].nobits
           /\ InFile(f.sections[n]) = InFile(d.sections[n])
           /\ f.sections[n].offset = Shifted(d.sections[n].offset, end, namelen)
      BY <1>4, <1>5, MovedLayout
<1>7. IsList(f.sections) /\ DOMAIN f.sections = 1 .. N /\ Len(f.sections) = N /\ f.shoff = d.shoff + namelen
      /\ \A n \in 1 .. N : f.sections[n] \in Section /\ Past(f.sections[n]) <= f.shoff
      BY <1>3, <1>5, <1>6 DEF Moved, Layout
<1>8. /\ IsList(sections) /\ DOMAIN sections = 1 .. N /\ Len(sections) = N
      /\ \A n \in 1 .. N : sections[n] = IF n = k THEN [f.sections[k] EXCEPT !.size = size] ELSE f.sections[n]
  <2>1. sections = [f.sections EXCEPT ![k] = [f.sections[k] EXCEPT !.size = size]]
        BY <1>3, <1>7
  <2>2. PICK x : x = [f.sections[k] EXCEPT !.size = size]
        OBVIOUS
  <2>3. sections = [f.sections EXCEPT ![k] = x]
        BY <2>1, <2>2
  <2> HIDE DEF sections, size
  <2>4. IsList(sections) /\ DOMAIN sections = DOMAIN f.sections /\ Len(sections) = Len(f.sections)
        /\ \A n \in DOMAIN f.sections : sections[n] = IF n = k THEN x ELSE f.sections[n]
        BY <1>7, <2>3, ListReplace
  <2> QED
      BY <1>7, <2>2, <2>4
<1> HIDE DEF sections, size
<1>9. e.sections = Append(sections, section) /\ e.segments = f.segments /\ e.shoff = f.shoff
      BY <1>2, <1>5 DEF Moved, IsHeaders
<1> HIDE DEF e
<1>10. /\ IsList(e.sections) /\ Len(e.sections) = N + 1 /\ DOMAIN e.sections = 1 .. N + 1
       /\ e.sections[N + 1] = section /\ \A n \in 1 .. N : e.sections[n] = sections[n]
  <2>1. IsList(e.sections) /\ Len(e.sections) = N + 1 /\ e.sections[N + 1] = section /\ \A n \in 1 .. N : e.sections[n] = sections[n]
        BY <1>8, <1>9, ListAppend
  <2> QED
      BY <2>1, ListFacts
\* The names.
<1>11. /\ e.sections[k] \in Section /\ e.sections[k].offset = d.sections[k].offset /\ e.sections[k].size = size
       /\ ~ e.sections[k].nobits /\ e.sections[k].id = d.sections[k].id /\ InFile(e.sections[k]) = size
       /\ Past(e.sections[k]) = end + namelen
  <2>1. f.sections[k] \in Section /\ f.sections[k].offset = d.sections[k].offset /\ f.sections[k].nobits = d.sections[k].nobits
        /\ f.sections[k].id = d.sections[k].id
    <3>1. d.sections[k].offset < end
          BY <1>4 DEF end
    <3> QED
        BY <1>3, <1>4, <1>6, <1>7, <3>1 DEF Shifted
  <2>2. PICK s, t : s = f.sections[k] /\ t = e.sections[k]
        OBVIOUS
  <2>3. t = [s EXCEPT !.size = size] /\ s \in Section /\ size \in Nat
        BY <1>3, <1>4, <1>8, <1>10, <2>1, <2>2
  <2>4. t \in Section /\ t.offset = s.offset /\ t.size = size /\ t.nobits = s.nobits /\ t.id = s.id
        BY <2>3, SectionMoved
  <2>5. ~ t.nobits /\ Past(t) = t.offset + size /\ InFile(t) = size
        BY <2>1, <2>2, <2>4, <1>3 DEF NamesAt, Past, InFile
  <2>6. d.sections[k].offset + size = end + namelen
        BY <1>4 DEF size, end
  <2> QED
      BY <2>1, <2>2, <2>4, <2>5, <2>6
\* The others.
<1>12. ASSUME NEW n \in 1 .. N, n # k
       PROVE  /\ e.sections[n] \in Section /\ Past(e.sections[n]) <= e.shoff /\ e.sections[n].id = d.sections[n].id
              /\ InFile(e.sections[n]) = InFile(d.sections[n]) /\ InFile(d.sections[n]) \in Nat /\ e.sections[n].offset \in Nat
              /\ InFile(d.sections[n]) # 0 =>
                   /\ e.sections[n] = d.sections[n]
                   /\ low <= d.sections[n].offset /\ Past(d.sections[n]) <= d.sections[k].offset
  <2>1. e.sections[n] = f.sections[n] /\ n \in DOMAIN d.sections
        BY <1>3, <1>8, <1>10, <1>12
  <2>2. d.sections[n] \in Section /\ d.sections[n].offset \in Nat /\ InFile(d.sections[n]) \in Nat
        /\ Past(d.sections[n]) = d.sections[n].offset + InFile(d.sections[n])
        BY <1>3, <2>1, SectionFields
  <2>3. ASSUME InFile(d.sections[n]) # 0
        PROVE  e.sections[n] = d.sections[n] /\ low <= d.sections[n].offset /\ Past(d.sections[n]) <= d.sections[k].offset
    <3>1. low <= d.sections[n].offset /\ Past(d.sections[n]) <= d.sections[k].offset
          BY <1>12, <2>1, <2>3 DEF Layout, NamesAt
    <3>2. d.sections[n].offset < end
      <4>1. d.sections[n].offset < Past(d.sections[n])
            BY <2>2, <2>3
      <4>2. d.sections[k].offset <= end
            BY <1>4 DEF end
      <4> QED
          BY <1>4, <2>2, <3>1, <4>1, <4>2
    <3>3. f.sections[n] = [d.sections[n] EXCEPT !.offset = d.sections[n].offset]
      <4>1. Shifted(d.sections[n].offset, end, namelen) = d.sections[n].offset
            BY <1>4, <2>2, <3>2 DEF Shifted
      <4> QED
          BY <1>5, <2>1, <4>1 DEF Moved
    <3>4. PICK s : s = d.sections[n]
          OBVIOUS
    <3>5. s = [segment |-> s.segment, offset |-> s.offset, size |-> s.size, nobits |-> s.nobits, id |-> s.id]
          BY <2>2, <3>4 DEF Section
    <3>6. f.sections[n] = d.sections[n]
          BY <3>3, <3>4, <3>5
    <3> QED
        BY <2>1, <3>1, <3>6
  <2>4. e.sections[n] \in Section /\ e.sections[n].offset \in Nat
        BY <1>7, <2>1, SectionFields
  <2> QED
      BY <1>6, <1>7, <1>9, <2>1, <2>2, <2>3, <2>4
<1>13. section.offset \in Nat /\ InFile(section) \in Nat /\ Past(section) = section.offset + InFile(section)
       BY SectionFields
<1>14. \A n \in 1 .. N + 1 : e.sections[n] \in Section /\ Past(e.sections[n]) <= e.shoff
  <2>1. Past(section) <= e.shoff /\ Past(e.sections[k]) <= e.shoff
    <3>1. PICK p \in Nat : p = Past(section)
          BY <1>13
    <3>2. p <= d.shoff /\ d.shoff <= e.shoff /\ e.shoff \in Nat /\ d.shoff \in Nat
      <4>1. d.shoff \in Nat /\ e.shoff = d.shoff + namelen
            BY <1>7, <1>9
      <4> QED
          BY <3>1, <4>1
    <3>3. Past(e.sections[k]) = end + namelen /\ end \in Nat /\ end <= d.shoff /\ e.shoff = d.shoff + namelen
          BY <1>4, <1>7, <1>9, <1>11
    <3> QED
        BY <3>1, <3>2, <3>3
  <2>2. \A n \in 1 .. N + 1 : n = N + 1 \/ n = k \/ (n \in 1 .. N /\ n # k)
        BY <1>3
  <2> QED
      BY <2>1, <2>2, <1>10, <1>11, <1>12
<1>15. \A n \in 1 .. N + 1 : InFile(e.sections[n]) # 0 => low <= e.sections[n].offset
  <2>1. low <= e.sections[k].offset
        BY <1>3, <1>4, <1>11 DEF Layout
  <2>2. \A n \in 1 .. N + 1 : n = N + 1 \/ n = k \/ (n \in 1 .. N /\ n # k)
        BY <1>3
  <2> QED
      BY <2>1, <2>2, <1>10, <1>12
<1>16. ASSUME NEW n \in 1 .. N + 1, n # k PROVE Clear(e.sections[n], e.sections[k])
  <2>1. CASE n = N + 1
        BY <1>10, <1>11, <2>1 DEF Clear
  <2>2. CASE n # N + 1
    <3>1. n \in 1 .. N
          BY <1>3, <2>2
    <3> QED
        BY <1>11, <1>12, <1>16, <3>1 DEF Clear
  <2> QED
      BY <2>1, <2>2
<1>17. ASSUME NEW n \in 1 .. N, n # k PROVE Clear(e.sections[n], e.sections[N + 1])
  <2>1. Clear(section, d.sections[n])
        BY <1>3
  <2> QED
      BY <1>10, <1>12, <1>17, <2>1 DEF Clear
<1>18. ASSUME NEW m \in 1 .. N, NEW n \in 1 .. N, m # k, n # k, m # n PROVE Clear(e.sections[m], e.sections[n])
  <2>1. Clear(d.sections[m], d.sections[n])
        BY <1>3, <1>18 DEF Layout
  <2> QED
      BY <1>12, <1>18, <2>1 DEF Clear
<1>19. ASSUME NEW m \in 1 .. N + 1, NEW n \in 1 .. N + 1, m # n PROVE Clear(e.sections[m], e.sections[n])
  <2>1. \A x, y : Clear(x, y) => Clear(y, x)
        BY DEF Clear
  <2>2. \A j \in 1 .. N + 1 : j = N + 1 \/ j \in 1 .. N
        BY <1>3
  <2> QED
      BY <1>16, <1>17, <1>18, <1>19, <2>1, <2>2
<1>20. Layout(e.sections, low, e.shoff)
       BY <1>10, <1>14, <1>15, <1>19 DEF Layout
<1>21. NamesAt(e.sections, k)
  <2>1. \A n \in 1 .. N : n # k => d.sections[n].id[1] # "shstrtab"
        BY <1>3 DEF NamesAt
  <2>2. ASSUME NEW n \in 1 .. N + 1, n # k
        PROVE  e.sections[n].id[1] # "shstrtab" /\ (InFile(e.sections[n]) # 0 => Past(e.sections[n]) <= e.sections[k].offset)
    <3>1. CASE n = N + 1
          BY <1>10, <1>11, <3>1
    <3>2. CASE n # N + 1
      <4>1. n \in 1 .. N
            BY <1>3, <3>2
      <4> QED
          BY <1>11, <1>12, <2>1, <2>2, <4>1
    <3> QED
        BY <3>1, <3>2
  <2>3. k \in 1 .. N + 1 /\ e.sections[k].id[1] = "shstrtab" /\ e.sections[k].size # 0
        BY <1>3, <1>4, <1>11 DEF NamesAt
  <2> QED
      BY <1>10, <1>11, <2>2, <2>3 DEF NamesAt
<1>22. ASSUME NEW n \in DOMAIN d.segments, d.segments[n].offset \in Int, d.segments[n].offset < d.sections[k].offset
       PROVE  e.segments[n].offset = d.segments[n].offset
  <2>1. d.segments[n].offset < end
        BY <1>4, <1>22 DEF end
  <2>2. e.segments[n] = [d.segments[n] EXCEPT !.offset = d.segments[n].offset]
    <3>1. Shifted(d.segments[n].offset, end, namelen) = d.segments[n].offset
          BY <1>4, <1>22, <2>1 DEF Shifted
    <3> QED
        BY <1>5, <1>9, <1>22, <3>1 DEF Moved
  <2>3. PICK s : s = d.segments[n] /\ "offset" \in DOMAIN s
        BY <1>22 DEF SegmentOK, Fields
  <2> QED
      BY <2>2, <2>3
<1>23. Added(d, e, k, section)
  <2>1. 1 .. N + 1 = DOMAIN d.sections \cup {N + 1}
        BY <1>3
  <2>2. ASSUME NEW n \in DOMAIN d.sections
        PROVE  /\ e.sections[n].id = d.sections[n].id /\ (InFile(e.sections[n]) # 0 <=> InFile(d.sections[n]) # 0)
               /\ n # k /\ InFile(d.sections[n]) # 0 => e.sections[n] = d.sections[n]
        BY <1>3, <1>4, <1>11, <1>12
  <2> QED
      BY <1>10, <1>11, <1>22, <2>1, <2>2 DEF Added
<1>24. e.shoff \in Nat /\ e.shoff >= d.shoff
       BY <1>7, <1>9
<1> QED
    BY <1>20, <1>21, <1>23, <1>24 DEF e

----------------------------------------------------------------------------
(* What a segment has stays there.                                          *)

\* What a segment has is still there, and the segment where it was.
Retains(d, e) ==
  \A n \in DOMAIN d.sections : InFile(d.sections[n]) # 0 /\ d.sections[n].id[1] \notin {"shstrtab", "vstub"} =>
    /\ \E m \in DOMAIN e.sections : e.sections[m] = d.sections[n]
    /\ \A g \in DOMAIN d.segments : d.segments[g].offset \in Int /\ d.segments[g].offset <= d.sections[n].offset =>
         e.segments[g].offset = d.segments[g].offset /\ e.segments[g].filesz = d.segments[g].filesz

\* What a segment has it keeps, but for the sections that go or are named anew.
LEMMA CarriedRetained ==
  ASSUME NEW d, NEW e, Retains(d, e), \A n \in DOMAIN d.sections : d.sections[n] \in Section,
         NEW g \in DOMAIN d.segments, d.segments[g].offset \in Int,
         NEW id, id[1] \notin {"shstrtab", "vstub"}, NEW at \in Nat, Carried(d, g, id, at)
  PROVE  Carried(e, g, id, at)
<1>1. PICK n \in DOMAIN d.sections :
        /\ d.sections[n].id = id /\ InFile(d.sections[n]) # 0
        /\ d.sections[n].offset = d.segments[g].offset + at /\ at + InFile(d.sections[n]) <= d.segments[g].filesz
      BY DEF Carried
<1>2. d.segments[g].offset <= d.sections[n].offset
      BY <1>1
<1>3. PICK m \in DOMAIN e.sections : e.sections[m] = d.sections[n]
      BY <1>1 DEF Retains
<1>4. e.segments[g].offset = d.segments[g].offset /\ e.segments[g].filesz = d.segments[g].filesz
      BY <1>1, <1>2 DEF Retains
<1> QED
    BY <1>1, <1>3, <1>4 DEF Carried

\* The segments keep what they have when a section is added.
LEMMA NewSectionRetains ==
  ASSUME NEW d, IsHeaders(d), IsList(d.segments), \A n \in 1 .. Len(d.segments) : SegmentOK(d.segments[n]),
         d.shoff \in Nat, NEW low \in Nat, Layout(d.sections, low, d.shoff),
         NEW k, NamesAt(d.sections, k), NEW namelen \in Nat,
         NEW section \in Section, section.id[1] # "shstrtab", Past(section) <= d.shoff,
         InFile(section) # 0 => low <= section.offset /\ Past(section) <= d.sections[k].offset,
         \A n \in DOMAIN d.sections : Clear(section, d.sections[n])
  PROVE  Retains(d, elf_utils_new_scn_with_name(d, namelen, section))
<1> DEFINE e == elf_utils_new_scn_with_name(d, namelen, section)
<1>1. SameSegments(d, e)
      BY NewSectionSegments
<1>2. DOMAIN d.segments = 1 .. Len(d.segments)
      BY ListFacts
<1>3. Added(d, e, k, section)
      BY <1>2, NewSectionLayout
<1> HIDE DEF e
<1>4. SUFFICES ASSUME NEW n \in DOMAIN d.sections, InFile(d.sections[n]) # 0, d.sections[n].id[1] \notin {"shstrtab", "vstub"}
               PROVE  /\ \E m \in DOMAIN e.sections : e.sections[m] = d.sections[n]
                      /\ \A g \in DOMAIN d.segments : d.segments[g].offset \in Int /\ d.segments[g].offset <= d.sections[n].offset =>
                           e.segments[g].offset = d.segments[g].offset /\ e.segments[g].filesz = d.segments[g].filesz
      BY DEF Retains, e
<1>5. n # k /\ k \in DOMAIN d.sections /\ Past(d.sections[n]) <= d.sections[k].offset
      BY <1>4 DEF NamesAt
<1>6. n \in DOMAIN e.sections /\ e.sections[n] = d.sections[n]
      BY <1>3, <1>4, <1>5 DEF Added
<1>7. d.sections[n].offset \in Nat /\ InFile(d.sections[n]) \in Nat /\ d.sections[k].offset \in Nat
      /\ Past(d.sections[n]) = d.sections[n].offset + InFile(d.sections[n])
      BY <1>5, SectionFields DEF Layout
<1>8. ASSUME NEW g \in DOMAIN d.segments, d.segments[g].offset \in Int, d.segments[g].offset <= d.sections[n].offset
      PROVE  e.segments[g].offset = d.segments[g].offset /\ e.segments[g].filesz = d.segments[g].filesz
  <2>1. d.segments[g].offset < d.sections[k].offset
        BY <1>4, <1>5, <1>7, <1>8
  <2> QED
      BY <1>1, <1>2, <1>3, <1>8, <2>1 DEF Added, SameSegments
<1> QED
    BY <1>6, <1>8

\* The contents of the last section are aligned behind the old end.
LEMMA DataOffsetFacts ==
  ASSUME NEW d, d.shoff \in Nat
  PROVE  DataOffset(d) \in Nat /\ d.shoff < DataOffset(d) /\ DataOffset(d) <= d.shoff + 16
BY DEF DataOffset

\* The last section gets its contents where the header table was.
LEMMA WithDataLayout ==
  ASSUME NEW d, IsHeaders(d), IsList(d.segments), \A n \in 1 .. Len(d.segments) : SegmentOK(d.segments[n]),
         d.shoff \in Nat, NEW low \in Nat, low <= d.shoff, Layout(d.sections, low, d.shoff),
         Len(d.sections) # 0, NEW id, d.sections[Len(d.sections)] = NewSection(id, 0, 0), NEW size \in Nat
  PROVE  LET e == WithData(d, size)
         IN /\ e.shoff = d.shoff + (size + 16) /\ Layout(e.sections, low, e.shoff) /\ Retains(d, e)
            /\ DOMAIN e.sections = DOMAIN d.sections
            /\ LET s == e.sections[Len(d.sections)]
               IN s.offset = DataOffset(d) /\ s.id = id /\ InFile(s) = size
<1> DEFINE N == Len(d.sections)
           f == elf_utils_shift_contents(d, d.shoff, size + 16)
           e == WithData(d, size)
           at == DataOffset(d)
           x == [[f.sections[N] EXCEPT !.offset = at] EXCEPT !.size = size]
<1>1. size + 16 \in Nat
      OBVIOUS
<1>2. Moved(d, f, d.shoff, size + 16)
  <2>1. d.shoff <= d.shoff
        OBVIOUS
  <2> HIDE DEF N
  <2> QED
      BY <1>1, <2>1, ShiftMoved
<1>3. at \in Nat /\ d.shoff < at /\ at <= d.shoff + 16
      BY DataOffsetFacts
<1>4. SameSegments(d, e)
      BY WithDataSegments
<1>5. e = [f EXCEPT !.sections[N].offset = at, !.sections[N].size = size]
      BY DEF WithData
<1>6. N # 0 /\ InFile(d.sections[N]) = 0 /\ d.sections[N].nobits = FALSE /\ d.sections[N].id = id
      BY DEF NewSection, InFile
<1> HIDE DEF f, at, N
<1>7. /\ Layout(f.sections, low, f.shoff)
      /\ \A n \in DOMAIN d.sections :
           /\ f.sections[n].id = d.sections[n].id /\ f.sections[n].nobits = d.sections[n].nobits
           /\ InFile(f.sections[n]) = InFile(d.sections[n])
           /\ f.sections[n].offset = Shifted(d.sections[n].offset, d.shoff, size + 16)
  <2>1. d.shoff \in Nat /\ low <= d.shoff
        OBVIOUS
  <2> QED
      BY ONLY <1>1, <1>2, <2>1, low \in Nat, Layout(d.sections, low, d.shoff), MovedLayout
<1>8. /\ IsList(f.sections) /\ IsList(d.sections) /\ N \in Nat \ {0} /\ DOMAIN d.sections = 1 .. N
      /\ DOMAIN f.sections = 1 .. N /\ Len(f.sections) = N
      /\ f.shoff = d.shoff + (size + 16)
      /\ \A n \in 1 .. N : f.sections[n] \in Section /\ d.sections[n] \in Section
      BY <1>2, <1>6, <1>7, ListFacts DEF Moved, Layout, N
<1>9. PICK y : y = x
      OBVIOUS
<1>10. /\ y \in Section /\ y.offset = at /\ y.id = d.sections[N].id /\ InFile(y) = size /\ Past(y) = at + size
  <2>1. PICK s : s = f.sections[N]
        OBVIOUS
  <2>2. s \in Section /\ s.id = d.sections[N].id /\ s.nobits = FALSE
    <3>1. N \in DOMAIN d.sections /\ N \in 1 .. N
          BY <1>8
    <3>2. s.nobits = d.sections[N].nobits /\ s.id = d.sections[N].id /\ s \in Section
          BY <1>7, <1>8, <2>1, <3>1
    <3>3. s.nobits \in BOOLEAN
          BY <3>2, SectionFields
    <3> QED
        BY <1>6, <3>2, <3>3
  <2>3. PICK t : t = [s EXCEPT !.offset = at]
        OBVIOUS
  <2>4. t \in Section /\ t.offset = at /\ t.nobits = FALSE /\ t.id = s.id
        BY <1>3, <2>2, <2>3, SectionMoved
  <2>5. y = [t EXCEPT !.size = size]
        BY <1>9, <2>1, <2>3
  <2>6. y \in Section /\ y.offset = at /\ y.size = size /\ y.nobits = FALSE /\ y.id = s.id
        BY <2>4, <2>5, SectionMoved
  <2> QED
      BY <2>2, <2>6 DEF InFile, Past
<1>11. /\ e.sections = [f.sections EXCEPT ![N] = y] /\ e.segments = f.segments /\ e.shoff = f.shoff
  <2>1. f = [sections |-> f.sections, segments |-> f.segments, shoff |-> f.shoff, entry |-> f.entry]
        BY <1>2 DEF Moved, IsHeaders
  <2>2. PICK a, b, c, h : a = f.sections /\ b = f.segments /\ c = f.shoff /\ h = f.entry
        OBVIOUS
  <2>3. f = [sections |-> a, segments |-> b, shoff |-> c, entry |-> h]
        BY <2>1, <2>2
  <2>4. e = [sections |-> [[a EXCEPT ![N].offset = at] EXCEPT ![N].size = size], segments |-> b, shoff |-> c, entry |-> h]
    <3>1. [f EXCEPT !.sections[N].offset = at] = [sections |-> [a EXCEPT ![N].offset = at], segments |-> b, shoff |-> c, entry |-> h]
          BY <2>3
    <3>2. e = [[f EXCEPT !.sections[N].offset = at] EXCEPT !.sections[N].size = size]
          BY <1>5
    <3> HIDE DEF e
    <3> QED
        BY <3>1, <3>2
  <2>5. N \in DOMAIN a
        BY <1>8, <2>2
  <2>6. [[a EXCEPT ![N].offset = at] EXCEPT ![N].size = size] = [a EXCEPT ![N] = [[a[N] EXCEPT !.offset = at] EXCEPT !.size = size]]
        BY <2>5
  <2> QED
      BY <1>9, <2>2, <2>4, <2>6
<1> HIDE DEF e, x
<1>12. IsList(e.sections) /\ DOMAIN e.sections = 1 .. N /\ \A n \in 1 .. N : e.sections[n] = IF n = N THEN y ELSE f.sections[n]
  <2>1. PICK a : a = f.sections
        OBVIOUS
  <2>2. IsList(a) /\ DOMAIN a = 1 .. N /\ e.sections = [a EXCEPT ![N] = y]
        BY <1>8, <1>11, <2>1
  <2>3. IsList([a EXCEPT ![N] = y]) /\ DOMAIN [a EXCEPT ![N] = y] = DOMAIN a
        /\ \A n \in DOMAIN a : [a EXCEPT ![N] = y][n] = IF n = N THEN y ELSE a[n]
    <3>1. IsList(a)
          BY <2>2
    <3> QED
        BY ONLY <3>1, ListReplace
  <2> QED
      BY <2>1, <2>2, <2>3
<1>13. at + size <= e.shoff /\ e.shoff = d.shoff + (size + 16) /\ low <= at
       BY <1>3, <1>8, <1>11
<1>14. e.sections[N] = y
       BY <1>8, <1>12
\* What has contents is where it was, before the others.
<1>15. ASSUME NEW n \in 1 .. N, n # N, InFile(e.sections[n]) # 0
       PROVE  e.sections[n] = d.sections[n] /\ Past(e.sections[n]) <= d.shoff
  <2>1. InFile(d.sections[n]) # 0
        BY <1>6, <1>7, <1>8, <1>12, <1>15
  <2>2. d.sections[n].offset \in Nat /\ InFile(d.sections[n]) \in Nat /\ Past(d.sections[n]) = d.sections[n].offset + InFile(d.sections[n])
        BY <1>8, SectionFields
  <2>3. Past(d.sections[n]) <= d.shoff
        BY <1>8 DEF Layout
  <2>4. d.sections[n].offset < d.shoff
        BY <2>1, <2>2, <2>3
  <2>5. Shifted(d.sections[n].offset, d.shoff, size + 16) = d.sections[n].offset
        BY <2>2, <2>4 DEF Shifted
  <2>6. f.sections[n] = [d.sections[n] EXCEPT !.offset = d.sections[n].offset]
        BY <1>2, <1>8, <2>5 DEF Moved
  <2>7. PICK s : s = d.sections[n]
        OBVIOUS
  <2>8. s = [segment |-> s.segment, offset |-> s.offset, size |-> s.size, nobits |-> s.nobits, id |-> s.id]
        BY <1>8, <2>7 DEF Section
  <2>9. f.sections[n] = d.sections[n]
        BY <2>6, <2>7, <2>8
  <2> QED
      BY <1>12, <1>15, <2>3, <2>9
<1>16. \A n \in 1 .. N : e.sections[n] \in Section /\ Past(e.sections[n]) <= e.shoff
       BY <1>7, <1>8, <1>10, <1>11, <1>12, <1>13 DEF Layout
<1>17. \A n \in 1 .. N : InFile(e.sections[n]) # 0 => low <= e.sections[n].offset
       BY <1>7, <1>8, <1>10, <1>12, <1>13 DEF Layout
<1>18. ASSUME NEW n \in 1 .. N, n # N PROVE Clear(e.sections[n], e.sections[N])
  <2>1. CASE InFile(e.sections[n]) = 0
        BY <2>1 DEF Clear
  <2>2. CASE InFile(e.sections[n]) # 0
    <3>1. Past(e.sections[n]) <= d.shoff /\ Past(e.sections[n]) \in Nat
          BY <1>15, <1>16, <1>18, <2>2, SectionFields
    <3>2. e.sections[N].offset = at
          BY <1>10, <1>14
    <3> QED
        BY <1>3, <3>1, <3>2 DEF Clear
  <2> QED
      BY <2>1, <2>2
<1>19. ASSUME NEW m \in 1 .. N, NEW n \in 1 .. N, m # n PROVE Clear(e.sections[m], e.sections[n])
  <2>1. \A s, t : Clear(s, t) => Clear(t, s)
        BY DEF Clear
  <2>2. CASE m # N /\ n # N
        BY <1>7, <1>8, <1>12, <1>19, <2>2 DEF Layout
  <2> QED
      BY <1>18, <1>19, <2>1, <2>2
<1>20. Layout(e.sections, low, e.shoff)
       BY <1>12, <1>16, <1>17, <1>19 DEF Layout
<1>21. Retains(d, e)
  <2> SUFFICES ASSUME NEW n \in DOMAIN d.sections, InFile(d.sections[n]) # 0
               PROVE  /\ \E m \in DOMAIN e.sections : e.sections[m] = d.sections[n]
                      /\ \A g \in DOMAIN d.segments : d.segments[g].offset \in Int /\ d.segments[g].offset <= d.sections[n].offset =>
                           e.segments[g].offset = d.segments[g].offset /\ e.segments[g].filesz = d.segments[g].filesz
      BY DEF Retains
  <2>1. n \in 1 .. N /\ n # N /\ InFile(e.sections[n]) # 0
        BY <1>6, <1>7, <1>8, <1>12
  <2>2. e.sections[n] = d.sections[n]
        BY <1>15, <2>1
  <2>3. d.sections[n].offset \in Nat /\ InFile(d.sections[n]) \in Nat /\ Past(d.sections[n]) <= d.shoff
        /\ Past(d.sections[n]) = d.sections[n].offset + InFile(d.sections[n])
        BY <1>8, <2>1, SectionFields DEF Layout
  <2>4. ASSUME NEW g \in DOMAIN d.segments, d.segments[g].offset \in Int, d.segments[g].offset <= d.sections[n].offset
        PROVE  e.segments[g].offset = d.segments[g].offset /\ e.segments[g].filesz = d.segments[g].filesz
    <3>1. d.segments[g].offset < d.shoff /\ g \in 1 .. Len(d.segments)
      <4>1. g \in 1 .. Len(d.segments)
            BY <2>4, ListFacts
      <4>2. d.sections[n].offset < Past(d.sections[n])
            BY <2>3
      <4>3. d.sections[n].offset < d.shoff
            BY <2>3, <4>2
      <4> QED
          BY <2>3, <2>4, <4>1, <4>3
    <3>2. Shifted(d.segments[g].offset, d.shoff, size + 16) = d.segments[g].offset
          BY <2>4, <3>1 DEF Shifted
    <3>3. e.segments[g] = [d.segments[g] EXCEPT !.offset = d.segments[g].offset]
          BY <1>2, <1>11, <3>2 DEF Moved
    <3>4. PICK s : s = d.segments[g] /\ "offset" \in DOMAIN s
          BY <3>1 DEF SegmentOK, Fields
    <3> QED
        BY <1>4, <3>1, <3>3, <3>4 DEF SameSegments
  <2> QED
      BY <1>12, <2>1, <2>2, <2>4
<1> QED
    BY <1>6, <1>8, <1>10, <1>12, <1>13, <1>14, <1>20, <1>21 DEF e, at, N

\* Sections are left out: the others are laid out as they were, and all there.
LEMMA SelectLayout ==
  ASSUME NEW s, NEW low, NEW high, Layout(s, low, high), NEW I
  PROVE  /\ Layout(Select(s, I), low, high)
         /\ \A n \in I \cap DOMAIN s : \E m \in DOMAIN Select(s, I) : Select(s, I)[m] = s[n]
<1> DEFINE c == Select(s, I)
<1>1. IsList(s)
      BY DEF Layout
<1>2. PICK p : /\ \A j \in I \cap DOMAIN s : p[j] \in DOMAIN c /\ c[p[j]] = s[j]
               /\ \A n \in DOMAIN c : \E j \in I \cap DOMAIN s : p[j] = n
      BY <1>1, SelectPlaces
<1>3. IsList(c)
      BY <1>1, SelectList
<1> HIDE DEF c
<1>4. ASSUME NEW m \in DOMAIN c, NEW n \in DOMAIN c, m # n PROVE Clear(c[m], c[n])
  <2>1. PICK j \in I \cap DOMAIN s : p[j] = m
        BY <1>2
  <2>2. PICK k \in I \cap DOMAIN s : p[k] = n
        BY <1>2
  <2> QED
      BY <1>2, <1>4, <2>1, <2>2 DEF Layout
<1>5. \A n \in DOMAIN c : \E j \in DOMAIN s : c[n] = s[j]
      BY <1>2
<1>6. Layout(c, low, high)
      BY <1>3, <1>4, <1>5 DEF Layout
<1> QED
    BY <1>2, <1>6 DEF c

----------------------------------------------------------------------------
(* Sums, and where the sections of the file end.                            *)

\* Sums of the first ones.
LEMMA PartMonotone ==
  ASSUME NEW s, NatList(s), NEW j \in 0 .. Len(s), NEW k \in 0 .. Len(s), j <= k
  PROVE  Part(s, j) <= Part(s, k)
<1> DEFINE f == [n \in 1 .. k |-> s[n]]
<1>1. Len(s) \in Nat /\ \A n \in 1 .. Len(s) : s[n] \in Nat
      BY SumRuns
<1>2. f = [n \in 1 .. k |-> f[n]] /\ \A n \in 1 .. k : f[n] = s[n] /\ f[n] \in Nat
      BY <1>1
<1>3. [n \in 1 .. j |-> f[n]] = [n \in 1 .. j |-> s[n]]
      BY <1>1
<1>4. Part(f, j) = Part(s, j) /\ SumOf(f) = Part(s, k)
      BY <1>3 DEF Part
<1> HIDE DEF f
<1>5. NatList(f) /\ Len(f) = k
      BY <1>1, <1>2, NatListMap
<1> QED
    BY <1>1, <1>4, <1>5, PartFacts

\* An element of a list of numbers is at most their sum.
LEMMA ElementBelow == ASSUME NEW s, NatList(s), NEW n \in DOMAIN s PROVE s[n] <= SumOf(s)
<1>1. n \in 1 .. Len(s) /\ Len(s) \in Nat /\ s[n] \in Nat
      BY SumRuns
<1>2. Part(s, n) = Part(s, n - 1) + s[n] /\ Part(s, n) <= SumOf(s) /\ Part(s, n - 1) \in Nat /\ SumOf(s) \in Nat
  <2>1. n - 1 \in 0 .. Len(s) /\ n \in 0 .. Len(s) /\ Len(s) \in 0 .. Len(s)
        BY <1>1
  <2>2. Part(s, n) = Part(s, n - 1) + s[n] /\ Part(s, n) <= SumOf(s) /\ Part(s, n - 1) \in Nat
        BY <1>1, <2>1, PartFacts
  <2>3. SumOf(s) \in Nat
        BY <2>1, PartFacts
  <2> QED
      BY <2>2, <2>3
<1> QED
    BY <1>1, <1>2

\* The sum of the first elements, of the sequence of these.
LEMMA PrefixPart ==
  ASSUME NEW s, NatList(s), NEW k \in 1 .. Len(s) + 1
  PROVE  SumOf(SubSeq(s, 1, k - 1)) = Part(s, k - 1)
<1> DEFINE b == SubSeq(s, 1, k - 1)
<1>1. IsList(s) /\ Len(s) \in Nat /\ k - 1 \in 0 .. Len(s)
      BY SumRuns DEF NatList
<1>2. IsList(b) /\ Len(b) = (IF 1 <= k - 1 THEN (k - 1) - 1 + 1 ELSE 0) /\ \A n \in 1 .. Len(b) : b[n] = s[n + 1 - 1]
      BY <1>1, ListSub
<1> HIDE DEF b
<1>3. Len(b) = k - 1 /\ \A n \in 1 .. k - 1 : b[n] = s[n]
      BY <1>1, <1>2
<1>4. b = [n \in 1 .. k - 1 |-> s[n]]
  <2>1. b = [n \in 1 .. k - 1 |-> b[n]]
        BY <1>2, <1>3, ListFacts
  <2> QED
      BY <1>3, <2>1
<1> QED
    BY <1>4 DEF Part, b

\* The bottom is where the last one ends.
LEMMA BottomFacts ==
  ASSUME NEW s, IsList(s), Len(s) # 0, \A n \in DOMAIN s : s[n].offset + InFile(s[n]) \in Nat
  PROVE  Bottom(s) \in Nat /\ \A n \in DOMAIN s : s[n].offset + InFile(s[n]) <= Bottom(s)
<1> DEFINE f == [n \in 1 .. Len(s) |-> s[n].offset + InFile(s[n])]
           S == {t.offset + InFile(t) : t \in ToSet(s)}
<1>1. Len(s) \in Nat /\ DOMAIN s = 1 .. Len(s)
      BY ListFacts
<1>2. f = [n \in 1 .. Len(s) |-> f[n]] /\ \A n \in 1 .. Len(s) : f[n] \in Nat /\ f[n] = s[n].offset + InFile(s[n])
      BY <1>1
<1>3. S = {f[n] : n \in 1 .. Len(s)}
      BY <1>1 DEF ToSet
<1>4. Bottom(s) = Max(S)
      BY DEF Bottom
<1> HIDE DEF f, S
<1>5. NatList(f) /\ Len(f) = Len(s) /\ DOMAIN f = 1 .. Len(s)
      BY <1>1, <1>2, NatListMap
<1>6. \A n \in 1 .. Len(s) : f[n] <= SumOf(f)
      BY <1>5, ElementBelow
<1>7. SumOf(f) \in Nat
  <2>1. Len(f) \in 0 .. Len(f)
        BY <1>1, <1>5
  <2> QED
      BY <1>5, <2>1, PartFacts
<1>8. S \in SUBSET (0 .. SumOf(f)) /\ f[1] \in S
      BY <1>1, <1>2, <1>3, <1>6, <1>7
<1>9. \E x \in S : \A y \in S : y <= x
      BY <1>7, <1>8, GreatestNatural
<1>10. Max(S) \in S /\ \A y \in S : Max(S) >= y
  <2>1. \A x, y \in S : x \in Nat /\ y \in Nat
        BY <1>7, <1>8
  <2> QED
      BY <1>9, <2>1 DEF Max
<1>11. Bottom(s) \in Nat /\ \A y \in S : y \in Nat /\ y <= Bottom(s)
  <2>1. PICK b : b = Max(S)
        OBVIOUS
  <2>2. \A y \in S : y \in Nat
        BY <1>7, <1>8
  <2> QED
      BY <1>4, <1>10, <2>1, <2>2
<1> QED
    BY <1>1, <1>2, <1>3, <1>11

\* The sections of the linked file.
LEMMA FileFacts ==
  ASSUME Shape
  PROVE  /\ IsList(program.file.sections) /\ Len(program.file.sections) \in Nat \ {0}
         /\ DOMAIN program.file.sections = 1 .. Len(program.file.sections)
         /\ \A n \in DOMAIN program.file.sections :
              LET s == program.file.sections[n]
              IN /\ s \in [segment : 0 .. Len(program.segments), offset : Nat, size : Nat, nobits : BOOLEAN]
                 /\ \A m \in 1 .. n - 1 : program.file.sections[m].nobits \/ program.file.sections[m].offset + program.file.sections[m].size <= s.offset
                 /\ s.segment # 0 /\ ~ s.nobits =>
                      /\ program.file.segments[s.segment].offset <= s.offset
                      /\ s.offset + s.size <= program.file.segments[s.segment].offset + program.file.segments[s.segment].filesz
<1> DEFINE F == program.file.sections
<1>1. FileOK(program)
      BY DEF Shape, ProgramShape, program
<1>2. F \in Seq([segment : 0 .. Len(program.segments), offset : Nat, size : Nat, nobits : BOOLEAN]) /\ F # <<>>
      BY <1>1 DEF FileOK
<1>3. IsList(F)
      BY <1>2 DEF IsList
<1>4. Len(F) \in Nat /\ DOMAIN F = 1 .. Len(F)
      BY <1>3, ListFacts
<1>5. Len(F) # 0
      BY <1>2
<1>6. \A n \in DOMAIN F : F[n] \in [segment : 0 .. Len(program.segments), offset : Nat, size : Nat, nobits : BOOLEAN]
      BY <1>2, ElementIn
<1> QED
    BY <1>1, <1>3, <1>4, <1>5, <1>6 DEF FileOK

\* A section of the file with an id.
LEMMA NamedSection ==
  ASSUME NEW k \in Nat, NEW s \in [segment : 0 .. k, offset : Nat, size : Nat, nobits : BOOLEAN], NEW id \in Kinds \X Nat
  PROVE  LET t == s ++ [id |-> id]
         IN /\ t \in Section /\ t.id = id /\ t.segment = s.segment /\ t.offset = s.offset /\ t.size = s.size /\ t.nobits = s.nobits
            /\ InFile(t) = InFile(s) /\ Past(t) = s.offset + InFile(s)
<1> DEFINE t == s ++ [id |-> id]
           g == [id |-> id]
<1>1. DOMAIN s = {"segment", "offset", "size", "nobits"} /\ DOMAIN g = {"id"} /\ g["id"] = id
      OBVIOUS
<1>2. DOMAIN (s ++ g) = DOMAIN s \cup DOMAIN g /\ (\A x \in DOMAIN s : (s ++ g)[x] = s[x])
      /\ \A x \in DOMAIN g : x \notin DOMAIN s => (s ++ g)[x] = g[x]
      BY JoinFacts
<1>3. t = [x \in DOMAIN s \cup DOMAIN g |-> t[x]]
      BY DEF ++
<1> HIDE DEF t
<1>4. t = s ++ g
      BY DEF t
<1> HIDE DEF g
<1>5. t.id = id /\ t.segment = s.segment /\ t.offset = s.offset /\ t.size = s.size /\ t.nobits = s.nobits
      BY <1>1, <1>2, <1>4
<1>6. t = [segment |-> t.segment, offset |-> t.offset, size |-> t.size, nobits |-> t.nobits, id |-> t.id]
      BY <1>1, <1>3
<1>7. t \in Section
      BY <1>5, <1>6 DEF Section
<1>8. InFile(t) = InFile(s) /\ Past(t) = s.offset + InFile(s)
      BY <1>5 DEF InFile, Past
<1> QED
    BY <1>5, <1>7, <1>8 DEF t

----------------------------------------------------------------------------
(* The linked ELF as it is copied.                                          *)

\* The sections of variable stubs and their lengths.
StubSizes ==
  LET vstubs_in == Select(elf.sections, {n \in DOMAIN elf.sections : elf.sections[n].type = "variable"})
  IN [n \in DOMAIN vstubs_in |-> 16 * Len(vstubs_in[n].stubs)]
BehindFile == AlignUp(Bottom(program.file.sections))

\* These lengths are numbers.
LEMMA StubSizesFacts == ASSUME Shape PROVE NatList(StubSizes)
<1> DEFINE I == {n \in DOMAIN elf.sections : elf.sections[n].type = "variable"}
           v == Select(elf.sections, I)
<1>1. IsList(elf.sections) /\ \A n \in DOMAIN elf.sections : IsList(elf.sections[n].stubs)
      BY DEF Shape, SectionLists
<1>2. StubSizes = [n \in DOMAIN v |-> 16 * Len(v[n].stubs)]
      BY DEF StubSizes
<1> HIDE DEF I
<1>3. IsList(v) /\ \A n \in DOMAIN v : \E m \in I \cap DOMAIN elf.sections : v[n] = elf.sections[m]
  <2>1. PICK s : s = elf.sections
        OBVIOUS
  <2>2. IsList(Select(s, I)) /\ \A n \in DOMAIN Select(s, I) : \E m \in I \cap DOMAIN s : Select(s, I)[n] = s[m]
        BY <1>1, <2>1, SelectList
  <2> QED
      BY <2>1, <2>2
<1> HIDE DEF v
<1>4. \A n \in DOMAIN v : Len(v[n].stubs) \in Nat
      BY <1>1, <1>3, ListFacts
<1>5. Len(v) \in Nat /\ DOMAIN v = 1 .. Len(v)
      BY <1>3, ListFacts
<1>6. StubSizes = [n \in 1 .. Len(v) |-> StubSizes[n]] /\ \A n \in 1 .. Len(v) : StubSizes[n] \in Nat
      BY <1>2, <1>4, <1>5
<1> QED
    BY <1>5, <1>6, NatListMap

\* The sections of the linked ELF: those of the file, those of variable stubs one after
\* the other, and the names.
LEMMA LinkedFacts ==
  ASSUME Shape
  PROVE  LET F == program.file.sections
             NF == Len(F)
             V == Len(StubSizes)
         IN /\ NF \in Nat \ {0} /\ V \in Nat /\ BehindFile \in Nat
            /\ \A n \in 1 .. NF : F[n].offset + InFile(F[n]) <= BehindFile
            /\ IsList(LinkedSections) /\ Len(LinkedSections) = NF + V + 1
            /\ \A n \in 1 .. NF : LinkedSections[n] = F[n] ++ [id |-> <<"elf", n>>]
            /\ \A n \in 1 .. V : LinkedSections[NF + n] = NewSection(<<"vstub", n>>, BehindFile + Part(StubSizes, n - 1), StubSizes[n])
            /\ LinkedSections[NF + V + 1] = NewSection(<<"shstrtab", 0>>, BehindFile + SumOf(StubSizes), 60)
<1> DEFINE F == program.file.sections
           NF == Len(F)
           size == StubSizes
           V == Len(size)
           at(n) == BehindFile + SumOf(SubSeq(size, 1, n - 1))
           P == [n \in DOMAIN F |-> F[n] ++ [id |-> <<"elf", n>>]]
           Q == [n \in DOMAIN size |-> NewSection(<<"vstub", n>>, at(n), size[n])]
           r == NewSection(<<"shstrtab", 0>>, at(V + 1), 60)
<1>1. LinkedSections = P \o Q \o <<r>>
      BY DEF LinkedSections, StubSizes, BehindFile
<1>2. NatList(size) /\ IsList(size) /\ V \in Nat /\ DOMAIN size = 1 .. V
      BY StubSizesFacts, SumRuns DEF NatList
<1>3. NF \in Nat \ {0} /\ DOMAIN F = 1 .. NF /\ IsList(F)
      BY FileFacts
<1>4. \A n \in DOMAIN F : F[n].offset + InFile(F[n]) \in Nat
  <2> SUFFICES ASSUME NEW n \in DOMAIN F PROVE F[n].offset + InFile(F[n]) \in Nat
      OBVIOUS
  <2>1. F[n] \in [segment : 0 .. Len(program.segments), offset : Nat, size : Nat, nobits : BOOLEAN]
        BY FileFacts
  <2> QED
      BY <2>1 DEF InFile
<1>5. Bottom(F) \in Nat /\ \A n \in DOMAIN F : F[n].offset + InFile(F[n]) <= Bottom(F)
      BY <1>3, <1>4, BottomFacts
<1>6. BehindFile \in Nat /\ BehindFile >= Bottom(F)
  <2>1. PICK b \in Nat : b = Bottom(F)
        BY <1>5
  <2>2. AlignUp(b) \in Nat /\ AlignUp(b) - b \in 0 .. 3
        BY AlignUpFacts
  <2> QED
      BY <2>1, <2>2 DEF BehindFile
<1>7. \A n \in 1 .. NF : F[n].offset + InFile(F[n]) <= BehindFile
  <2> SUFFICES ASSUME NEW n \in 1 .. NF PROVE F[n].offset + InFile(F[n]) <= BehindFile
      OBVIOUS
  <2>1. PICK a, b : a = F[n].offset + InFile(F[n]) /\ b = Bottom(F)
        OBVIOUS
  <2> QED
      BY <1>3, <1>4, <1>5, <1>6, <2>1
<1>8. \A n \in 1 .. V + 1 : at(n) = BehindFile + Part(size, n - 1)
      BY <1>2, PrefixPart
<1>9. at(V + 1) = BehindFile + SumOf(size)
  <2>1. V + 1 \in 1 .. V + 1 /\ (V + 1) - 1 = V
        BY <1>2
  <2>2. Part(size, V) = SumOf(size)
        BY <1>2, PartFacts
  <2> QED
      BY <1>8, <2>1, <2>2
<1> HIDE DEF at
<1>10. P = [n \in 1 .. NF |-> P[n]] /\ (\A n \in 1 .. NF : P[n] = F[n] ++ [id |-> <<"elf", n>>])
       /\ Q = [n \in 1 .. V |-> Q[n]] /\ (\A n \in 1 .. V : Q[n] = NewSection(<<"vstub", n>>, at(n), size[n]))
       BY <1>2, <1>3
<1> HIDE DEF P, Q, size
<1>11. IsList(P) /\ Len(P) = NF /\ IsList(Q) /\ Len(Q) = V
       BY <1>2, <1>3, <1>10, FunctionList
<1>12. PICK x : x = r
       OBVIOUS
<1>13. IsList(<<x>>) /\ Len(<<x>>) = 1 /\ <<x>>[1] = x
       BY OneList
<1>14. PICK c : c = P \o Q
       OBVIOUS
<1>15. IsList(c) /\ Len(c) = NF + V /\ \A n \in 1 .. NF + V : c[n] = IF n <= NF THEN P[n] ELSE Q[n - NF]
   <2>1. IsList(P) /\ IsList(Q)
        BY <1>11
  <2>2. IsList(P \o Q) /\ Len(P \o Q) = Len(P) + Len(Q)
        /\ \A n \in 1 .. Len(P) + Len(Q) : (P \o Q)[n] = IF n <= Len(P) THEN P[n] ELSE Q[n - Len(P)]
        BY ONLY <2>1, ListConcat
  <2> QED
      BY <1>11, <1>14, <2>2
<1>16. LinkedSections = c \o <<x>>
       BY <1>1, <1>12, <1>14
<1> HIDE DEF r
<1>17. IsList(LinkedSections) /\ Len(LinkedSections) = NF + V + 1
       /\ \A n \in 1 .. NF + V + 1 : LinkedSections[n] = IF n <= NF + V THEN c[n] ELSE <<x>>[n - (NF + V)]
   <2>1. PICK y : y = <<x>>
        OBVIOUS
  <2>2. IsList(c) /\ IsList(y) /\ Len(y) = 1
        BY <1>13, <1>15, <2>1
  <2>3. IsList(c \o y) /\ Len(c \o y) = Len(c) + Len(y)
        /\ \A n \in 1 .. Len(c) + Len(y) : (c \o y)[n] = IF n <= Len(c) THEN c[n] ELSE y[n - Len(c)]
        BY ONLY <2>2, ListConcat
  <2> QED
      BY <1>15, <1>16, <2>1, <2>2, <2>3
<1>18. \A n \in 1 .. NF : LinkedSections[n] = P[n]
  <2> SUFFICES ASSUME NEW n \in 1 .. NF PROVE LinkedSections[n] = P[n]
      OBVIOUS
  <2>1. n \in 1 .. NF + V /\ n \in 1 .. NF + V + 1 /\ n <= NF /\ n <= NF + V
        BY <1>2, <1>3
  <2> QED
      BY <1>15, <1>17, <2>1
<1>19. \A n \in 1 .. V : LinkedSections[NF + n] = Q[n]
  <2> SUFFICES ASSUME NEW n \in 1 .. V PROVE LinkedSections[NF + n] = Q[n]
      OBVIOUS
  <2>1. NF + n \in 1 .. NF + V /\ NF + n \in 1 .. NF + V + 1 /\ ~ NF + n <= NF /\ NF + n <= NF + V /\ (NF + n) - NF = n
        BY <1>2, <1>3
  <2> QED
      BY <1>15, <1>17, <2>1
<1>20. LinkedSections[NF + V + 1] = x
  <2>1. NF + V + 1 \in 1 .. NF + V + 1 /\ ~ NF + V + 1 <= NF + V /\ (NF + V + 1) - (NF + V) = 1
        BY <1>2, <1>3
  <2> QED
      BY <1>13, <1>17, <2>1
<1>21. \A n \in 1 .. V : LinkedSections[NF + n] = NewSection(<<"vstub", n>>, BehindFile + Part(size, n - 1), size[n])
  <2> SUFFICES ASSUME NEW n \in 1 .. V
               PROVE  LinkedSections[NF + n] = NewSection(<<"vstub", n>>, BehindFile + Part(size, n - 1), size[n])
      OBVIOUS
  <2>1. n \in 1 .. V + 1
        BY <1>2
  <2> QED
      BY <1>8, <1>10, <1>19, <2>1
<1>22. LinkedSections[NF + V + 1] = NewSection(<<"shstrtab", 0>>, BehindFile + SumOf(size), 60)
       BY <1>9, <1>12, <1>20 DEF r
<1> QED
    BY <1>2, <1>3, <1>6, <1>7, <1>10, <1>17, <1>18, <1>21, <1>22 DEF size

\* Where the headers end, and the contents of the segment with the entry point.
HeadersEnd == EHDR + PHDR * (Len(program.segments) + 1)
FileEnd == program.file.segments[segndx].offset + program.file.segments[segndx].filesz

\* What a regular program is.
LEMMA RegularFacts ==
  ASSUME Shape, Regular
  PROVE  /\ EntrySegments # {} /\ segndx = First(EntrySegments) /\ segndx \in DOMAIN program.segments
         /\ program.file.segments[segndx].offset \in Nat /\ program.file.segments[segndx].filesz = program.segments[segndx].memsz
         /\ program.segments[segndx].memsz \in Nat /\ FileEnd \in Nat /\ start_foffset \in Nat /\ FileEnd <= start_foffset
         /\ EntryOffset \in Nat /\ EntryOffset = AlignUp(program.segments[segndx].memsz)
         /\ start_foffset = program.file.segments[segndx].offset + EntryOffset
         /\ \A s \in ToSet(LinkedSections) : InFile(s) # 0 => s.offset \notin FileEnd .. start_foffset - 1
         /\ \A n \in DOMAIN program.file.sections : program.file.sections[n].offset >= HeadersEnd
<1> DEFINE g == segndx
           phdr == program.file.segments[g]
<1>1. /\ EntrySegments # {} /\ g = First(EntrySegments) /\ phdr.filesz = program.segments[g].memsz
      /\ \A s \in ToSet(LinkedSections) : InFile(s) # 0 => s.offset \notin FileEnd .. phdr.offset + AlignUp(phdr.filesz) - 1
      /\ \A n \in DOMAIN program.file.sections : program.file.sections[n].offset >= HeadersEnd
      BY DEF Regular, FileEnd, HeadersEnd
<1>2. g \in DOMAIN program.segments /\ EntryOffset \in Nat /\ EntryOffset >= program.segments[g].memsz
      BY <1>1, EntryFacts
<1>3. phdr.offset \in Nat /\ phdr.filesz \in Nat /\ program.segments[g].memsz \in Nat
      BY <1>2, ProgramFacts
<1>4. EntryOffset = AlignUp(program.segments[g].memsz) /\ start_foffset = phdr.offset + EntryOffset
      BY <1>1 DEF EntryOffset, start_foffset
<1> HIDE DEF g
<1>5. FileEnd = phdr.offset + phdr.filesz
      BY DEF FileEnd, g
<1>6. phdr.offset + AlignUp(phdr.filesz) - 1 = start_foffset - 1
  <2>1. AlignUp(phdr.filesz) = EntryOffset
        BY <1>1, <1>4
  <2> QED
      BY <1>2, <1>3, <1>4, <2>1
<1> QED
    BY <1>1, <1>2, <1>3, <1>4, <1>5, <1>6 DEF g

\* The linked file: nothing in it meets, and what ends behind the segment begins
\* behind the place of the module info.
LEMMA LinkedLayout ==
  ASSUME Shape, Regular, EndsWithSection
  PROVE  LET N == Len(LinkedSections)
             shoff == AlignUp(Last(LinkedSections).offset + Last(LinkedSections).size)
         IN /\ N \in Nat \ {0} /\ shoff \in Nat
            /\ Layout(LinkedSections, HeadersEnd, shoff) /\ NamesAt(LinkedSections, N)
            /\ \A n \in DOMAIN LinkedSections :
                 InFile(LinkedSections[n]) # 0 => Past(LinkedSections[n]) <= FileEnd \/ start_foffset <= LinkedSections[n].offset
            /\ start_foffset <= LinkedSections[N].offset
            /\ \A n \in DOMAIN program.file.sections :
                 LET s == program.file.sections[n]
                     t == LinkedSections[n]
                 IN n \in DOMAIN LinkedSections /\ t.id = <<"elf", n>> /\ t.offset = s.offset /\ InFile(t) = InFile(s)
<1> DEFINE L == LinkedSections
           N == Len(L)
           F == program.file.sections
           NF == Len(F)
           size == StubSizes
           V == Len(size)
           B == BehindFile
           shoff == AlignUp(Last(L).offset + Last(L).size)
<1>1. /\ NF \in Nat \ {0} /\ V \in Nat /\ B \in Nat
      /\ \A n \in 1 .. NF : F[n].offset + InFile(F[n]) <= B
      /\ IsList(L) /\ N = NF + V + 1
      /\ \A n \in 1 .. NF : L[n] = F[n] ++ [id |-> <<"elf", n>>]
      /\ \A n \in 1 .. V : L[NF + n] = NewSection(<<"vstub", n>>, B + Part(size, n - 1), size[n])
      /\ L[NF + V + 1] = NewSection(<<"shstrtab", 0>>, B + SumOf(size), 60)
      BY LinkedFacts
<1>2. NatList(size) /\ \A n \in 1 .. V : size[n] \in Nat
      BY StubSizesFacts, SumRuns
<1> HIDE DEF B, size, N, L
<1>20. NF \in Nat \ {0} /\ V \in Nat /\ B \in Nat /\ N = NF + V + 1
       BY <1>1
<1>3. /\ SumOf(size) \in Nat /\ \A k \in 0 .. V : Part(size, k) \in Nat /\ Part(size, k) <= SumOf(size)
      /\ \A k \in 1 .. V : Part(size, k) = Part(size, k - 1) + size[k]
      /\ \A j, k \in 0 .. V : j <= k => Part(size, j) <= Part(size, k)
  <2>1. 0 \in 0 .. V /\ V \in 0 .. V
        BY <1>1
  <2>2. Part(size, V) = SumOf(size) /\ \A k \in 0 .. V : Part(size, k) \in Nat /\ Part(size, k) <= SumOf(size)
        BY <1>2, PartFacts
  <2>3. \A k \in 1 .. V : Part(size, k) = Part(size, k - 1) + size[k]
        BY <1>2, PartFacts
  <2>4. \A j, k \in 0 .. V : j <= k => Part(size, j) <= Part(size, k)
        BY <1>2, PartMonotone
  <2> QED
      BY <2>1, <2>2, <2>3, <2>4
\* Sections of the program.
<1>4. ASSUME NEW n \in 1 .. NF
      PROVE  /\ L[n] \in Section /\ L[n].id = <<"elf", n>> /\ L[n].offset = F[n].offset /\ InFile(L[n]) = InFile(F[n])
             /\ F[n].offset \in Nat /\ InFile(F[n]) \in Nat
             /\ Past(L[n]) = F[n].offset + InFile(F[n]) /\ Past(L[n]) <= B /\ HeadersEnd <= L[n].offset
             /\ \A m \in 1 .. n - 1 : InFile(F[m]) = 0 \/ F[m].offset + InFile(F[m]) <= F[n].offset
  <2>1. n \in DOMAIN F /\ n \in Nat
        BY FileFacts
  <2>2. PICK s : s = F[n]
        OBVIOUS
  <2>3. PICK k \in Nat : k = Len(program.segments)
        BY ProgramFacts
  <2>4. s \in [segment : 0 .. k, offset : Nat, size : Nat, nobits : BOOLEAN]
        BY <2>1, <2>2, <2>3, FileFacts
  <2>5. PICK id : id = <<"elf", n>> /\ id \in Kinds \X Nat
    <3>1. <<"elf", n>> \in Kinds \X Nat
          BY <2>1 DEF Kinds
    <3> QED
        BY <3>1
  <2>6. L[n] = s ++ [id |-> id]
        BY <1>1, <2>2, <2>5
  <2>7. L[n] \in Section /\ L[n].id = id /\ L[n].offset = s.offset /\ InFile(L[n]) = InFile(s) /\ Past(L[n]) = s.offset + InFile(s)
        BY <2>4, <2>5, <2>6, NamedSection
  <2>8. s.offset \in Nat /\ InFile(s) \in Nat
        BY <2>4 DEF InFile
  <2>9. \A m \in 1 .. n - 1 : InFile(F[m]) = 0 \/ F[m].offset + InFile(F[m]) <= F[n].offset
    <3>1. \A m \in 1 .. n - 1 : F[m].nobits \/ F[m].offset + F[m].size <= F[n].offset
          BY <2>1, FileFacts
    <3> QED
        BY <3>1 DEF InFile
  <2>10. HeadersEnd <= F[n].offset
    <3>1. F[n].offset >= HeadersEnd
          BY <2>1, RegularFacts
    <3> QED
        BY <3>1
  <2> QED
      BY <1>1, <2>2, <2>5, <2>7, <2>8, <2>9, <2>10
\* Those of variable stubs, and the names.
<1>5. ASSUME NEW n \in 1 .. V
      PROVE  /\ L[NF + n] \in Section /\ L[NF + n].id[1] = "vstub" /\ L[NF + n].offset = B + Part(size, n - 1)
             /\ Past(L[NF + n]) = B + Part(size, n)
             /\ Part(size, n) \in Nat /\ Part(size, n - 1) \in Nat /\ Part(size, n) <= SumOf(size)
  <2>1. n \in 0 .. V /\ n - 1 \in 0 .. V /\ n \in Nat
        BY <1>1
  <2>2. PICK id : id = <<"vstub", n>> /\ id \in Kinds \X Nat
    <3>1. <<"vstub", n>> \in Kinds \X Nat
          BY <2>1 DEF Kinds
    <3> QED
        BY <3>1
  <2>3. PICK a \in Nat : a = B + Part(size, n - 1)
    <3>1. Part(size, n - 1) \in Nat
          BY <1>3, <2>1
    <3> QED
        BY <1>20, <3>1
  <2>4. L[NF + n] = NewSection(id, a, size[n])
        BY <1>1, <2>2, <2>3
  <2>5. L[NF + n] \in Section /\ L[NF + n].id = id /\ L[NF + n].offset = a /\ Past(L[NF + n]) = a + size[n]
    <3>1. PICK z \in Nat : z = size[n]
          BY <1>2
    <3>2. id \in Kinds \X Nat
          BY <2>2
    <3>3. PICK t : t = L[NF + n]
          OBVIOUS
    <3>4. t = NewSection(id, a, z)
          BY <2>4, <3>1, <3>3
    <3>5. t \in Section /\ t.id = id /\ t.offset = a /\ Past(t) = a + z
          BY <3>2, <3>4 DEF NewSection, Section, InFile, Past
    <3> QED
        BY <3>1, <3>3, <3>5
  <2>6. Part(size, n) \in Nat /\ Part(size, n - 1) \in Nat /\ Part(size, n) <= SumOf(size)
        /\ Part(size, n) = Part(size, n - 1) + size[n] /\ size[n] \in Nat
        BY <1>2, <1>3, <2>1
  <2>7. id[1] = "vstub"
        BY <2>2
  <2> QED
      BY <1>20, <2>3, <2>5, <2>6, <2>7
<1>6. /\ L[N] \in Section /\ L[N].id[1] = "shstrtab" /\ L[N].offset = B + SumOf(size) /\ L[N].size = 60
      /\ ~ L[N].nobits /\ Past(L[N]) = B + SumOf(size) + 60
  <2>1. PICK id : id = <<"shstrtab", 0>> /\ id \in Kinds \X Nat
    <3>1. <<"shstrtab", 0>> \in Kinds \X Nat
          BY DEF Kinds
    <3> QED
        BY <3>1
  <2>2. PICK a \in Nat : a = B + SumOf(size)
        BY <1>1, <1>3
  <2>3. L[N] = NewSection(id, a, 60)
        BY <1>1, <2>1, <2>2
  <2>4. L[N] \in Section /\ L[N].id = id /\ L[N].offset = a /\ L[N].size = 60 /\ ~ L[N].nobits /\ Past(L[N]) = a + 60
        BY <2>1, <2>2, <2>3 DEF NewSection, Section, InFile, Past
  <2> QED
      BY <1>1, <1>3, <2>1, <2>2, <2>4
<1>7. N \in Nat \ {0} /\ DOMAIN L = 1 .. N
      BY <1>1, <1>20, ListFacts DEF N
<1>8. ASSUME NEW n \in DOMAIN L
      PROVE  n \in 1 .. NF \/ (\E j \in 1 .. V : n = NF + j) \/ n = N
  <2>1. n \in 1 .. NF \/ n - NF \in 1 .. V \/ n = N
        BY <1>7, <1>20, SMTT(40)
  <2>2. n = NF + (n - NF)
        BY <1>7, <1>20, SMTT(40)
  <2> QED
      BY <2>1, <2>2
\* The header table is behind them.
<1>9. shoff \in Nat /\ Past(L[N]) <= shoff
  <2>1. PICK a \in Nat : a = Past(L[N])
        BY <1>1, <1>3, <1>6
  <2>2. Last(L).offset + Last(L).size = a
        BY <1>1, <1>3, <1>6, <2>1 DEF Last, N
  <2>3. AlignUp(a) \in Nat /\ AlignUp(a) - a \in 0 .. 3
        BY AlignUpFacts
  <2> QED
      BY <2>1, <2>2, <2>3
<1> HIDE DEF shoff
<1>10. ASSUME NEW n \in DOMAIN L
       PROVE  /\ L[n] \in Section /\ Past(L[n]) <= shoff /\ HeadersEnd <= L[n].offset
              /\ n # N => L[n].id[1] # "shstrtab" /\ Past(L[n]) <= L[N].offset
  <2>1. HeadersEnd \in Nat /\ HeadersEnd <= B
    <3>1. 1 \in 1 .. NF
          BY <1>1
    <3>2. HeadersEnd \in Nat
      <4>1. PICK k \in Nat : k = Len(program.segments)
            BY ProgramFacts
      <4> QED
          BY <4>1 DEF HeadersEnd, EHDR, PHDR
    <3>3. HeadersEnd <= F[1].offset /\ F[1].offset \in Nat /\ InFile(F[1]) \in Nat /\ F[1].offset + InFile(F[1]) <= B
          BY <1>4, <3>1
    <3> QED
        BY <1>1, <3>2, <3>3
  <2>2. CASE n \in 1 .. NF
    <3>1. L[n] \in Section /\ L[n].id = <<"elf", n>> /\ Past(L[n]) <= B /\ HeadersEnd <= L[n].offset /\ Past(L[n]) \in Nat
          BY <1>4, <2>2
    <3> QED
        BY <1>1, <1>3, <1>6, <1>9, <3>1
  <2>3. CASE \E j \in 1 .. V : n = NF + j
    <3>1. PICK j \in 1 .. V : n = NF + j
          BY <2>3
    <3>2. /\ L[n] \in Section /\ L[n].id[1] = "vstub" /\ L[n].offset = B + Part(size, j - 1) /\ Past(L[n]) = B + Part(size, j)
          /\ Part(size, j) \in Nat /\ Part(size, j - 1) \in Nat /\ Part(size, j) <= SumOf(size)
          BY <1>5, <3>1
    <3> QED
        BY <1>1, <1>3, <1>6, <1>9, <2>1, <3>2, SMTT(40)
  <2>4. CASE n = N
        BY <1>1, <1>3, <1>6, <1>9, <2>1, <2>4
  <2> QED
      BY <1>8, <2>2, <2>3, <2>4
<1>11. ASSUME NEW m \in DOMAIN L, NEW n \in DOMAIN L, m < n PROVE InFile(L[m]) = 0 \/ Past(L[m]) <= L[n].offset
  <2>1. m # N /\ (n \in 1 .. NF => m \in 1 .. n - 1 /\ m \in 1 .. NF)
        BY <1>1, <1>7, <1>11
  <2>2. CASE n \in 1 .. NF
        BY <1>4, <2>1, <2>2
  <2>3. CASE n = N
        BY <1>10, <2>1, <2>3
  <2>4. ASSUME NEW j \in 1 .. V, n = NF + j PROVE Past(L[m]) <= L[n].offset
    <3>1. L[n].offset = B + Part(size, j - 1) /\ Part(size, j - 1) \in Nat
          BY <1>5, <2>4
    <3>2. CASE m \in 1 .. NF
      <4>1. Past(L[m]) <= B /\ Past(L[m]) \in Nat
            BY <1>4, <3>2
      <4> QED
          BY <1>1, <3>1, <4>1
    <3>3. ASSUME NEW k \in 1 .. V, m = NF + k PROVE Past(L[m]) <= L[n].offset
      <4>1. Past(L[m]) = B + Part(size, k) /\ Part(size, k) \in Nat
            BY <1>5, <3>3
      <4>2. k \in 0 .. V /\ j - 1 \in 0 .. V /\ k <= j - 1
        <5>1. NF \in Nat /\ V \in Nat /\ NF + k < NF + j
              BY <1>1, <1>11, <2>4, <3>3
        <5>2. k \in 1 .. V /\ j \in 1 .. V
              BY <2>4, <3>3
        <5> QED
            BY ONLY <5>1, <5>2
      <4>3. Part(size, k) <= Part(size, j - 1)
            BY <1>3, <4>2
      <4> QED
          BY <1>20, <3>1, <4>1, <4>3
    <3> QED
        BY <1>8, <2>1, <3>2, <3>3
  <2> QED
      BY <1>8, <2>2, <2>3, <2>4
<1>12. Layout(L, HeadersEnd, shoff)
  <2>1. ASSUME NEW m \in DOMAIN L, NEW n \in DOMAIN L, m # n PROVE Clear(L[m], L[n])
    <3>1. m < n \/ n < m
          BY <1>7, <2>1
    <3> QED
        BY <1>11, <3>1 DEF Clear
  <2> QED
      BY <1>1, <1>10, <2>1 DEF Layout
<1>13. NamesAt(L, N)
       BY <1>6, <1>7, <1>10 DEF NamesAt
\* The end of the segment.
<1>14. PICK k \in 1 .. NF : InFile(F[k]) # 0 /\ F[k].offset + InFile(F[k]) = FileEnd
  <2>1. PICK s \in ToSet(F) : s.segment = segndx /\ InFile(s) # 0 /\ s.offset + s.size = FileEnd
        BY DEF EndsWithSection, FileEnd
  <2>2. PICK k \in DOMAIN F : s = F[k]
        BY DEF ToSet
  <2>3. InFile(s) = s.size
        BY <2>1 DEF InFile
  <2> QED
      BY <2>1, <2>2, <2>3, FileFacts
<1>15. /\ FileEnd \in Nat /\ start_foffset \in Nat /\ FileEnd <= start_foffset
       /\ \A n \in DOMAIN L : InFile(L[n]) # 0 => L[n].offset \notin FileEnd .. start_foffset - 1
  <2>1. \A n \in DOMAIN L : L[n] \in ToSet(L)
        BY DEF ToSet
  <2> QED
      BY <2>1, RegularFacts DEF L
<1>16. ASSUME NEW n \in DOMAIN L, InFile(L[n]) # 0, FileEnd <= L[n].offset PROVE start_foffset <= L[n].offset
  <2>1. L[n].offset \in Nat
        BY <1>10, SectionFields
  <2> QED
      BY <1>15, <1>16, <2>1
<1>17. ASSUME NEW n \in DOMAIN L, InFile(L[n]) # 0
       PROVE  Past(L[n]) <= FileEnd \/ start_foffset <= L[n].offset
  <2>1. k \in DOMAIN L /\ Past(L[k]) = FileEnd /\ InFile(L[k]) # 0 /\ L[k].offset \in Nat /\ L[k].offset <= FileEnd
    <3>1. Past(L[k]) = FileEnd /\ InFile(L[k]) # 0 /\ L[k].offset \in Nat /\ InFile(L[k]) \in Nat /\ Past(L[k]) = L[k].offset + InFile(L[k])
          BY <1>4, <1>14
    <3> QED
        BY <1>1, <1>7, <3>1
  <2>2. CASE n = k
        BY <1>15, <2>1, <2>2
  <2>3. CASE k < n
    <3>1. Past(L[k]) <= L[n].offset
          BY <1>11, <2>1, <2>3
    <3> QED
        BY <1>16, <1>17, <2>1, <3>1
  <2>4. CASE n < k
    <3>1. Past(L[n]) <= L[k].offset
          BY <1>11, <1>17, <2>1, <2>4
    <3>2. Past(L[n]) \in Nat
          BY <1>10, SectionFields
    <3> QED
        BY <1>15, <2>1, <3>1, <3>2
  <2> QED
      BY <1>7, <1>14, <2>2, <2>3, <2>4
<1>18. start_foffset <= L[N].offset
  <2>1. FileEnd <= B
        BY <1>1, <1>14
  <2> QED
    <3>1. N \in DOMAIN L /\ L[N].offset = B + SumOf(size) /\ SumOf(size) \in Nat
          BY <1>3, <1>6, <1>7
    <3>2. FileEnd <= L[N].offset
          BY <1>15, <1>20, <2>1, <3>1
    <3>3. InFile(L[N]) # 0
          BY <1>6 DEF InFile
    <3> QED
        BY <1>16, <3>1, <3>2, <3>3
<1>19. \A n \in DOMAIN F : n \in DOMAIN L /\ L[n].id = <<"elf", n>> /\ L[n].offset = F[n].offset /\ InFile(L[n]) = InFile(F[n])
  <2>1. \A n \in DOMAIN F : n \in 1 .. NF
        BY FileFacts
  <2>2. \A n \in 1 .. NF : n \in 1 .. N
        BY <1>1
  <2> QED
      BY <1>4, <1>7, <2>1, <2>2
<1> QED
    BY <1>7, <1>9, <1>12, <1>13, <1>17, <1>18, <1>19 DEF L, N, shoff

----------------------------------------------------------------------------
(* The invariant of the headers that are written.                           *)

\* Where the module info ends, in the segment and in the file.
InfoEnds == EntryOffset + 4 * total_size
InfoBehind == start_foffset + 4 * total_size

\* What the file that is written has so far: the sections of the linked one, ...
FileCarried(d) ==
  \A n \in DOMAIN program.file.sections :
    LET s == program.file.sections[n]
    IN s.segment # 0 /\ InFile(s) # 0 => Carried(d, s.segment, <<"elf", n>>, s.offset - program.file.segments[s.segment].offset)
\* ... the first k sections of the module info, ...
InfoCarried(d, k) ==
  \A n \in 1 .. k : sizes[Sections[n]] # 0 => Carried(d, segndx, <<"info", n>>, EntryOffset + OffsetIn(n))
\* ... and, from low on, the room for the others.
Room(d, low) ==
  /\ d.segments[segndx].offset = program.file.segments[segndx].offset
  /\ \A n \in DOMAIN d.sections : InFile(d.sections[n]) # 0 => Past(d.sections[n]) <= low \/ InfoBehind <= d.sections[n].offset
\* The headers at a stage of the writing, j sections of the module info being written.
LaidAt(d, st, j) ==
  /\ d.shoff \in Nat /\ HeadersEnd <= d.shoff /\ Layout(d.sections, HeadersEnd, d.shoff)
  /\ \A n \in DOMAIN program.segments :
       d.segments[n].memsz = IF st # "write_info" /\ n = segndx THEN InfoEnds ELSE program.segments[n].memsz
  /\ st = "write_info" =>
       d.sections = LinkedSections /\ \A n \in DOMAIN program.segments : d.segments[n].offset = program.file.segments[n].offset
  /\ st # "write_info" => FileCarried(d)
  /\ st \in {"write_sections", "write_relas"} => \E k : NamesAt(d.sections, k) /\ InfoBehind <= d.sections[k].offset
  /\ st = "write_sections" => j \in 0 .. 8 /\ Room(d, start_foffset + OffsetIn(j + 1)) /\ InfoCarried(d, j)
  /\ st \in {"write_relas", "fill_relas", "rewrite", "update"} => InfoCarried(d, 9)
  /\ st = "fill_relas" => Len(d.sections) # 0 /\ d.sections[Len(d.sections)] = NewSection(<<"rel", 0>>, 0, 0)
  /\ st \in {"rewrite", "update"} =>
       \E n \in DOMAIN d.sections :
         /\ d.sections[n].id = <<"rel", 0>> /\ d.sections[n].offset = d.segments[Len(d.segments)].offset
         /\ InFile(d.sections[n]) <= d.segments[Len(d.segments)].filesz

\* The inductive invariant of the file that is written.
Laid == stage \in Creating /\ Regular /\ EndsWithSection => LaidAt(dest, stage, i)

\* The sections of the module info follow each other.
LEMMA InfoStarts ==
  ASSUME Shape
  PROVE  /\ total_size \in Nat /\ OffsetIn(1) = 0
         /\ \A n \in 1 .. 9 : OffsetIn(n) \in Nat /\ sizes[Sections[n]] \in Nat /\ OffsetIn(n) + 4 * sizes[Sections[n]] <= 4 * total_size
         /\ \A n \in 1 .. 8 : OffsetIn(n + 1) = OffsetIn(n) + 4 * sizes[Sections[n]]
<1>1. \A s \in SectionNames : sizes[s] \in Nat
      BY DEF Shape, Words
<1>2. PICK h \in [0 .. 9 -> Nat] :
        /\ h[0] = 0 /\ \A n \in 1 .. 9 : h[n] = h[n - 1] + sizes[Sections[n]]
        /\ EndIn(sizes) = h[9]
        /\ \A k \in 1 .. 9 : SumOf(SizesOf(sizes, SubSeq(Sections, 1, k - 1))) = h[k - 1]
      BY <1>1, PrefixSums
<1>3. total_size \in Nat /\ total_size = EndIn(sizes)
      BY TotalSizeFacts, TotalIsEnd
<1>4. ASSUME NEW n \in 1 .. 9 PROVE OffsetIn(n) = 4 * h[n - 1] /\ sizes[Sections[n]] \in Nat
  <2>1. OffsetIn(n) = 4 * StartIn(sizes, Sections[n])
        BY PlacesStart DEF OffsetIn
  <2>2. StartIn(sizes, Sections[n]) = h[n - 1]
        BY <1>2, SectionNumbers DEF StartIn
  <2> QED
      BY <1>1, <2>1, <2>2, SectionFacts
<1>5. ASSUME NEW n \in 1 .. 9 PROVE OffsetIn(n) \in Nat /\ OffsetIn(n) + 4 * sizes[Sections[n]] <= 4 * total_size
  <2>1. Sections[n] \in SectionNames
        BY SectionFacts
  <2>2. StartIn(sizes, Sections[n]) + sizes[Sections[n]] <= EndIn(sizes)
        BY <1>1, <2>1, SectionsApart
  <2>3. StartIn(sizes, Sections[n]) \in Nat /\ OffsetIn(n) = 4 * StartIn(sizes, Sections[n])
        BY <1>1, <2>1, StartFacts, PlacesStart DEF OffsetIn
  <2> QED
      BY <1>3, <1>4, <2>2, <2>3
<1>6. ASSUME NEW n \in 1 .. 8 PROVE OffsetIn(n + 1) = OffsetIn(n) + 4 * sizes[Sections[n]]
  <2>1. n \in 1 .. 9 /\ n + 1 \in 1 .. 9 /\ (n + 1) - 1 = n /\ n \in 0 .. 9 /\ n - 1 \in 0 .. 9
        OBVIOUS
  <2>2. h[n] = h[n - 1] + sizes[Sections[n]] /\ h[n] \in Nat /\ h[n - 1] \in Nat
        BY <1>2, <2>1
  <2>3. OffsetIn(n + 1) = 4 * h[n] /\ OffsetIn(n) = 4 * h[n - 1] /\ sizes[Sections[n]] \in Nat
        BY <1>4, <2>1
  <2> QED
      BY <2>2, <2>3
<1>7. OffsetIn(1) = 0
  <2>1. OffsetIn(1) = 4 * h[1 - 1]
        BY <1>4
  <2> QED
      BY <1>2, <2>1
<1> QED
    BY <1>3, <1>4, <1>5, <1>6, <1>7

\* The segment is not empty, and the others are before or behind the module info.
LEMMA SegmentEnds ==
  ASSUME Shape, Regular, EndsWithSection
  PROVE  /\ program.file.segments[segndx].offset < FileEnd
         /\ \A n \in DOMAIN program.segments \ {segndx} :
              LET other == program.file.segments[n]
              IN other.offset < start_foffset => other.offset + other.filesz <= FileEnd
<1>1. PICK s \in ToSet(program.file.sections) : s.segment = segndx /\ InFile(s) # 0 /\ s.offset + s.size = FileEnd
      BY DEF EndsWithSection, FileEnd
<1>2. PICK k \in DOMAIN program.file.sections : s = program.file.sections[k]
      BY DEF ToSet
<1>3. s \in [segment : 0 .. Len(program.segments), offset : Nat, size : Nat, nobits : BOOLEAN]
      /\ (s.segment # 0 /\ ~ s.nobits => program.file.segments[s.segment].offset <= s.offset)
      BY <1>2, FileFacts
<1>4. ~ s.nobits /\ s.size # 0
      BY <1>1 DEF InFile
<1>5. /\ segndx \in DOMAIN program.segments /\ program.file.segments[segndx].offset \in Nat
      /\ program.file.segments[segndx].filesz = program.segments[segndx].memsz
      /\ start_foffset = program.file.segments[segndx].offset + AlignUp(program.segments[segndx].memsz)
      BY RegularFacts
<1>6. segndx # 0
      BY <1>5, ProgramFacts
<1>7. program.file.segments[segndx].offset < FileEnd
      BY <1>1, <1>3, <1>4, <1>5, <1>6
<1>8. \A n \in DOMAIN program.segments \ {segndx} :
        LET other == program.file.segments[n]
        IN other.offset < start_foffset => other.offset + other.filesz <= FileEnd
      BY <1>5 DEF EndsWithSection, FileEnd
<1> QED
    BY <1>7, <1>8

\* Writing changes nothing of what it is made from.
LEMMA SamePlan ==
  ASSUME UNCHANGED <<elf, top, sizes>>
  PROVE  /\ program' = program /\ segndx' = segndx /\ (Regular' <=> Regular) /\ (EndsWithSection' <=> EndsWithSection)
         /\ total_size' = total_size /\ EntryOffset' = EntryOffset /\ start_foffset' = start_foffset
         /\ HeadersEnd' = HeadersEnd /\ LinkedSections' = LinkedSections /\ \A n : OffsetIn(n)' = OffsetIn(n)
<1>1. program' = program /\ segndx' = segndx /\ EntrySegments' = EntrySegments
      BY DEF program, segndx, EntrySegments, SegmentsOf, InSegment
<1>2. LinkedSections' = LinkedSections /\ HeadersEnd' = HeadersEnd /\ total_size' = total_size
      BY <1>1 DEF LinkedSections, HeadersEnd, total_size
<1>3. EntryOffset' = EntryOffset /\ start_foffset' = start_foffset
      BY <1>1 DEF EntryOffset, start_foffset
<1>4. (Regular' <=> Regular) /\ (EndsWithSection' <=> EndsWithSection)
      BY <1>1, <1>2 DEF Regular, EndsWithSection
<1>5. \A n : OffsetIn(n)' = OffsetIn(n)
      BY DEF OffsetIn, Total
<1> QED
    BY <1>1, <1>2, <1>3, <1>4, <1>5

\* A step that changes neither plan nor headers leaves them laid out.
LEMMA SameLaid ==
  ASSUME UNCHANGED <<elf, top, sizes>>, stage' \in Creating /\ Regular /\ EndsWithSection => LaidAt(dest', stage', i')
  PROVE  Laid'
<1>1. SUFFICES ASSUME LaidAt(dest', stage', i') PROVE LaidAt(dest, stage, i)'
      BY SamePlan DEF Laid
<1>2. InfoEnds' = InfoEnds /\ InfoBehind' = InfoBehind
      BY SamePlan DEF InfoEnds, InfoBehind
<1>3. FileCarried(dest)' <=> FileCarried(dest')
      BY SamePlan DEF FileCarried, Carried
<1>4. \A k : InfoCarried(dest, k)' <=> InfoCarried(dest', k)
      BY SamePlan DEF InfoCarried, Carried
<1>5. \A low : Room(dest, low)' <=> Room(dest', low)
      BY <1>2, SamePlan DEF Room
<1> QED
    BY <1>1, <1>2, <1>3, <1>4, <1>5, SamePlan DEF LaidAt

\* The headers are copied.
LEMMA CopyLaid ==
  ASSUME Shape, UNCHANGED <<elf, top, sizes>>, elf_utils_copy_to_file
  PROVE  Laid'
<1> SUFFICES ASSUME stage' \in Creating, Regular, EndsWithSection PROVE LaidAt(dest', stage', i')
    BY SameLaid
<1> DEFINE segments == [n \in DOMAIN program.segments |-> program.segments[n] ++ program.file.segments[n]]
           shoff == AlignUp(Last(LinkedSections).offset + Last(LinkedSections).size)
<1>1. stage' = "write_info" /\ dest' = [sections |-> LinkedSections, segments |-> segments, shoff |-> shoff, entry |-> <<>>]
      BY DEF elf_utils_copy_to_file, To, Creating
<1>2. shoff \in Nat /\ Layout(LinkedSections, HeadersEnd, shoff) /\ NamesAt(LinkedSections, Len(LinkedSections))
      BY LinkedLayout
<1>3. HeadersEnd <= shoff
  <2>1. PICK n \in DOMAIN LinkedSections : InFile(LinkedSections[n]) # 0
        BY <1>2 DEF NamesAt, InFile
  <2>2. HeadersEnd <= LinkedSections[n].offset /\ Past(LinkedSections[n]) <= shoff
        BY <1>2, <2>1 DEF Layout
  <2>3. LinkedSections[n].offset \in Nat /\ InFile(LinkedSections[n]) \in Nat
        /\ Past(LinkedSections[n]) = LinkedSections[n].offset + InFile(LinkedSections[n])
        BY <1>2, SectionFields DEF Layout
  <2>4. HeadersEnd \in Nat
    <3>1. PICK k \in Nat : k = Len(program.segments)
          BY ProgramFacts
    <3> QED
        BY <3>1 DEF HeadersEnd, EHDR, PHDR
  <2> HIDE DEF shoff
  <2> QED
      BY <1>2, <2>2, <2>3, <2>4
<1>4. ASSUME NEW n \in DOMAIN program.segments
      PROVE  segments[n].memsz = program.segments[n].memsz /\ segments[n].offset = program.file.segments[n].offset
  <2>1. PICK f, g : f = program.segments[n] /\ g = program.file.segments[n]
        OBVIOUS
  <2>2. DOMAIN f = {"vaddr", "memsz"} /\ DOMAIN g = {"offset", "filesz", "align"}
        BY <2>1, ProgramFacts
  <2>3. (\A x \in DOMAIN f : (f ++ g)[x] = f[x]) /\ \A x \in DOMAIN g : x \notin DOMAIN f => (f ++ g)[x] = g[x]
        BY JoinFacts
  <2>4. segments[n] = f ++ g
        BY <2>1
  <2> QED
      BY <2>1, <2>2, <2>3, <2>4
<1> HIDE DEF segments, shoff
<1>5. dest'.sections = LinkedSections /\ dest'.segments = segments /\ dest'.shoff = shoff
      BY <1>1
<1> QED
    BY <1>1, <1>2, <1>3, <1>4, <1>5 DEF LaidAt

\* A section of the linked ELF is moved with the segment it is in.
LEMMA WriteInfoLaid ==
  ASSUME Shape, DestOK, DestOK', Laid, UNCHANGED <<elf, top, sizes>>, sce_elf_write_module_info
  PROVE  Laid'
<1> SUFFICES ASSUME stage' \in Creating, Regular, EndsWithSection PROVE LaidAt(dest', stage', i')
    BY SameLaid
<1> DEFINE total == 4 * total_size + EntryOffset - program.segments[segndx].memsz
           f == elf_utils_shift_contents(dest, start_foffset, total)
           S == start_foffset
           L == LinkedSections
           N == Len(L)
<1>1. stage = "write_info" /\ LaidAt(dest, "write_info", i)
      BY DEF sce_elf_write_module_info, Laid, Creating
<1>2. /\ EntrySegments # {} /\ segndx = First(EntrySegments) /\ segndx \in DOMAIN program.segments
      /\ program.file.segments[segndx].offset \in Nat /\ program.file.segments[segndx].filesz = program.segments[segndx].memsz
      /\ program.segments[segndx].memsz \in Nat /\ FileEnd \in Nat /\ S \in Nat /\ FileEnd <= S
      /\ EntryOffset \in Nat /\ EntryOffset = AlignUp(program.segments[segndx].memsz)
      /\ S = program.file.segments[segndx].offset + EntryOffset
      BY RegularFacts
<1>3. /\ stage' = "write_sections" /\ i' = 0
      /\ dest' = [f EXCEPT !.segments[segndx].filesz = @ + total, !.segments[segndx].memsz = @ + total,
                           !.entry = [segment |-> (segndx - 1) % 4, offset |-> EntryOffset]]
      BY <1>2 DEF sce_elf_write_module_info, To
<1>4. total \in Nat /\ total_size \in Nat /\ total >= 4 * total_size
      /\ program.segments[segndx].memsz + total = InfoEnds
  <2>1. AlignUp(program.segments[segndx].memsz) - program.segments[segndx].memsz \in 0 .. 3
        BY <1>2, AlignUpFacts
  <2>2. total_size \in Nat
        BY TotalSizeFacts
  <2> QED
      BY <1>2, <2>1, <2>2 DEF InfoEnds
<1> HIDE DEF total
<1>5. /\ IsHeaders(dest) /\ IsList(dest.segments) /\ DOMAIN dest.segments = DOMAIN program.segments
      /\ \A n \in 1 .. Len(dest.segments) : SegmentOK(dest.segments[n])
      /\ \A n \in DOMAIN program.segments : dest.segments[n].filesz = program.file.segments[n].filesz
      /\ \A n \in DOMAIN program.segments : dest.segments[n].offset = program.file.segments[n].offset
      /\ \A n \in DOMAIN program.segments : dest.segments[n].memsz = program.segments[n].memsz
  <2>1. SegmentsOK /\ \A n \in DOMAIN program.segments : dest.segments[n].filesz = program.file.segments[n].filesz
        BY <1>1 DEF DestOK, Writing, Creating
  <2>2. Len(dest.segments) = Len(program.segments)
        BY <1>1, <2>1 DEF SegmentsOK, Short
  <2>3. DOMAIN dest.segments = DOMAIN program.segments
        BY <2>1, <2>2, ListFacts, ProgramFacts DEF SegmentsOK
  <2> QED
      BY <1>1, <2>1, <2>3 DEF SegmentsOK, LaidAt
<1>6. /\ dest.shoff \in Nat /\ HeadersEnd <= dest.shoff /\ Layout(dest.sections, HeadersEnd, dest.shoff) /\ dest.sections = L
      BY <1>1 DEF LaidAt
<1>7. /\ N \in Nat \ {0} /\ NamesAt(L, N)
      /\ \A n \in DOMAIN L : InFile(L[n]) # 0 => Past(L[n]) <= FileEnd \/ S <= L[n].offset
      /\ S <= L[N].offset
      /\ \A n \in DOMAIN program.file.sections :
           LET s == program.file.sections[n]
               t == L[n]
           IN n \in DOMAIN L /\ t.id = <<"elf", n>> /\ t.offset = s.offset /\ InFile(t) = InFile(s)
      BY LinkedLayout
<1>8. program.file.segments[segndx].offset < FileEnd
      /\ \A n \in DOMAIN program.segments \ {segndx} :
           LET other == program.file.segments[n]
           IN other.offset < S => other.offset + other.filesz <= FileEnd
      BY SegmentEnds
<1>9. HeadersEnd \in Nat /\ HeadersEnd <= S /\ S <= dest.shoff
  <2>1. N \in DOMAIN L /\ Past(L[N]) <= dest.shoff /\ L[N] \in Section
        BY <1>6, <1>7 DEF NamesAt, Layout
  <2>2. L[N].offset \in Nat /\ InFile(L[N]) \in Nat /\ Past(L[N]) = L[N].offset + InFile(L[N])
        BY <2>1, SectionFields
  <2>3. HeadersEnd \in Nat
    <3>1. PICK k \in Nat : k = Len(program.segments)
          BY ProgramFacts
    <3> QED
        BY <3>1 DEF HeadersEnd, EHDR, PHDR
  <2>4. HeadersEnd <= S
    <3>1. PICK s \in ToSet(program.file.sections) : s.segment = segndx /\ InFile(s) # 0 /\ s.offset + s.size = FileEnd
          BY DEF EndsWithSection, FileEnd
    <3>2. PICK k \in DOMAIN program.file.sections : s = program.file.sections[k]
          BY <3>1 DEF ToSet
    <3>3. s.offset >= HeadersEnd /\ s.offset \in Nat /\ s.size \in Nat
          BY <3>2, FileFacts, RegularFacts
    <3> QED
        BY <1>2, <2>3, <3>1, <3>3
  <2> QED
      BY <1>2, <1>6, <1>7, <2>1, <2>2, <2>3, <2>4
<1> HIDE DEF S
<1>10. Moved(dest, f, S, total)
       BY <1>2, <1>4, <1>5, <1>6, <1>9, ShiftMoved DEF S
<1>11. SameSegments(dest, f)
  <2>1. total \in Int
        BY <1>4
  <2> QED
      BY <1>5, <2>1, ShiftSegments
<1> HIDE DEF f
<1>12. /\ Layout(f.sections, HeadersEnd, f.shoff) /\ f.shoff = dest.shoff + total
       /\ \A n \in DOMAIN L :
            /\ f.sections[n].id = L[n].id /\ f.sections[n].size = L[n].size /\ f.sections[n].nobits = L[n].nobits
            /\ InFile(f.sections[n]) = InFile(L[n])
            /\ f.sections[n].offset = Shifted(L[n].offset, S, total)
  <2>1. HeadersEnd \in Nat /\ HeadersEnd <= S /\ S \in Nat /\ total \in Nat
        BY <1>2, <1>4, <1>9
  <2>2. Layout(f.sections, HeadersEnd, f.shoff) /\ \A n \in DOMAIN dest.sections :
            /\ f.sections[n].id = dest.sections[n].id /\ f.sections[n].size = dest.sections[n].size
            /\ f.sections[n].nobits = dest.sections[n].nobits
            /\ InFile(f.sections[n]) = InFile(dest.sections[n])
            /\ f.sections[n].offset = Shifted(dest.sections[n].offset, S, total)
    <3>1. dest.shoff \in Nat /\ Layout(dest.sections, HeadersEnd, dest.shoff)
          BY <1>6
    <3>2. PICK d : d = dest
          OBVIOUS
    <3>3. PICK low : low = HeadersEnd
          OBVIOUS
    <3>4. Moved(d, f, S, total) /\ d.shoff \in Nat /\ Layout(d.sections, low, d.shoff) /\ low \in Nat /\ low <= S
          BY <1>10, <2>1, <3>1, <3>2, <3>3
    <3>5. Layout(f.sections, low, f.shoff) /\ \A n \in DOMAIN d.sections :
            /\ f.sections[n].id = d.sections[n].id /\ f.sections[n].size = d.sections[n].size
            /\ f.sections[n].nobits = d.sections[n].nobits
            /\ InFile(f.sections[n]) = InFile(d.sections[n])
            /\ f.sections[n].offset = Shifted(d.sections[n].offset, S, total)
          BY ONLY <2>1, <3>4, MovedLayout
    <3> QED
        BY <3>2, <3>3, <3>5
  <2> QED
      BY <1>6, <1>10, <2>2 DEF Moved
<1>13. DOMAIN f.sections = DOMAIN L /\ DOMAIN f.segments = DOMAIN program.segments
       BY <1>5, <1>6, <1>10 DEF Moved
\* The headers.
<1>14. /\ dest'.sections = f.sections /\ dest'.shoff = f.shoff
       /\ \A n \in DOMAIN program.segments :
            /\ dest'.segments[n].offset = f.segments[n].offset
            /\ dest'.segments[n].memsz = IF n = segndx THEN f.segments[n].memsz + total ELSE f.segments[n].memsz
            /\ dest'.segments[n].filesz = IF n = segndx THEN f.segments[n].filesz + total ELSE f.segments[n].filesz
  <2>1. PICK a, b, c, h : f = [sections |-> a, segments |-> b, shoff |-> c, entry |-> h] /\ a = f.sections /\ b = f.segments /\ c = f.shoff
        BY <1>10 DEF Moved, IsHeaders
  <2> DEFINE grown == [[b[segndx] EXCEPT !.filesz = @ + total] EXCEPT !.memsz = @ + total]
             segments == [[b EXCEPT ![segndx].filesz = @ + total] EXCEPT ![segndx].memsz = @ + total]
  <2>2. segments = [n \in DOMAIN program.segments |-> IF n = segndx THEN grown ELSE b[n]]
        BY <1>2, <1>13, <2>1
  <2>3. dest' = [sections |-> a, segments |-> segments, shoff |-> c, entry |-> [segment |-> (segndx - 1) % 4, offset |-> EntryOffset]]
    <3>1. [f EXCEPT !.segments[segndx].filesz = @ + total] =
            [sections |-> a, segments |-> [b EXCEPT ![segndx].filesz = @ + total], shoff |-> c, entry |-> h]
          BY <2>1
    <3>2. PICK e : e = [f EXCEPT !.segments[segndx].filesz = @ + total]
          OBVIOUS
    <3>3. dest' = [[e EXCEPT !.segments[segndx].memsz = @ + total] EXCEPT !.entry = [segment |-> (segndx - 1) % 4, offset |-> EntryOffset]]
          BY <1>3, <3>2
    <3>4. [e EXCEPT !.segments[segndx].memsz = @ + total] = [sections |-> a, segments |-> segments, shoff |-> c, entry |-> h]
      <4>1. PICK t : t = [b EXCEPT ![segndx].filesz = @ + total]
            OBVIOUS
      <4>2. e = [sections |-> a, segments |-> t, shoff |-> c, entry |-> h]
            BY <3>1, <3>2, <4>1
      <4>3. [e EXCEPT !.segments[segndx].memsz = @ + total] =
              [sections |-> a, segments |-> [t EXCEPT ![segndx].memsz = @ + total], shoff |-> c, entry |-> h]
            BY <4>2
      <4> QED
          BY <4>1, <4>3
    <3> QED
        BY <3>3, <3>4
  <2>4. PICK s : s = b[segndx] /\ {"offset", "filesz", "memsz"} \subseteq DOMAIN s
    <3>1. segndx \in 1 .. Len(dest.segments)
          BY <1>2, <1>5, ListFacts
    <3> QED
        BY <1>5, <1>11, <2>1, <3>1 DEF SameSegments, SegmentOK, Fields
  <2>5. grown.offset = s.offset /\ grown.memsz = s.memsz + total /\ grown.filesz = s.filesz + total
        BY <2>4
  <2> HIDE DEF segments, grown
  <2>6. dest'.segments = segments /\ dest'.sections = a /\ dest'.shoff = c
        BY <2>3
  <2> QED
      BY <2>1, <2>2, <2>4, <2>5, <2>6
<1>15. ASSUME NEW n \in DOMAIN program.segments
       PROVE  /\ dest'.segments[n].offset = Shifted(program.file.segments[n].offset, S, total)
              /\ dest'.segments[n].memsz = IF n = segndx THEN InfoEnds ELSE program.segments[n].memsz
              /\ dest'.segments[n].filesz = program.file.segments[n].filesz + IF n = segndx THEN total ELSE 0
              /\ program.file.segments[n].filesz \in Nat /\ program.file.segments[n].offset \in Nat
  <2>1. n \in 1 .. Len(dest.segments)
        BY <1>5, ListFacts
  <2>2. f.segments[n].memsz = program.segments[n].memsz /\ f.segments[n].filesz = program.file.segments[n].filesz
        BY <1>5, <1>11, <2>1 DEF SameSegments
  <2>3. f.segments[n].offset = Shifted(program.file.segments[n].offset, S, total)
    <3>1. f.segments[n] = [dest.segments[n] EXCEPT !.offset = Shifted(dest.segments[n].offset, S, total)]
          BY <1>5, <1>10 DEF Moved
    <3>2. PICK s : s = dest.segments[n] /\ "offset" \in DOMAIN s
          BY <1>5, <2>1 DEF SegmentOK, Fields
    <3> QED
        BY <1>5, <3>1, <3>2
  <2>4. program.file.segments[n].filesz \in Nat /\ program.file.segments[n].offset \in Nat
        BY ProgramFacts
  <2> QED
      BY <1>4, <1>14, <2>2, <2>3, <2>4
\* What is in a segment is moved with it.
<1>16. FileCarried(dest')
  <2> SUFFICES ASSUME NEW n \in DOMAIN program.file.sections, NEW s, s = program.file.sections[n], s.segment # 0, InFile(s) # 0
               PROVE  Carried(dest', s.segment, <<"elf", n>>, s.offset - program.file.segments[s.segment].offset)
      BY DEF FileCarried
  <2>1. s \in [segment : 0 .. Len(program.segments), offset : Nat, size : Nat, nobits : BOOLEAN]
        /\ (s.segment # 0 /\ ~ s.nobits =>
                      /\ program.file.segments[s.segment].offset <= s.offset
                      /\ s.offset + s.size <= program.file.segments[s.segment].offset + program.file.segments[s.segment].filesz)
        BY FileFacts
  <2>2. PICK h : h = s.segment
        OBVIOUS
  <2>3. h \in DOMAIN program.segments
        BY <2>1, <2>2, ProgramFacts
  <2>4. PICK x, z : x = program.file.segments[h].offset /\ z = program.file.segments[h].filesz
        OBVIOUS
  <2>5. x \in Nat /\ z \in Nat /\ s.offset \in Nat /\ InFile(s) \in Nat /\ x <= s.offset /\ s.offset + InFile(s) <= x + z
    <3>1. ~ s.nobits /\ InFile(s) = s.size
          BY DEF InFile
    <3> QED
        BY <1>15, <2>1, <2>2, <2>3, <2>4, <3>1
  <2>6. n \in DOMAIN L /\ f.sections[n].id = <<"elf", n>> /\ InFile(f.sections[n]) = InFile(s)
        /\ f.sections[n].offset = Shifted(s.offset, S, total)
        /\ L[n].offset = s.offset /\ InFile(L[n]) = InFile(s)
        BY <1>7, <1>12
  <2>7. Past(L[n]) = s.offset + InFile(s)
        BY <2>6 DEF Past
  <2>8. s.offset + InFile(s) <= FileEnd \/ S <= s.offset
        BY <1>7, <2>6, <2>7
  <2>9. CASE h = segndx
    <3>1. s.offset + InFile(s) <= FileEnd
          BY <2>4, <2>5, <2>9 DEF FileEnd
    <3>2. s.offset < S /\ x < S
          BY <1>2, <1>8, <2>4, <2>5, <2>9, <3>1
    <3>3. f.sections[n].offset = s.offset /\ dest'.segments[h].offset = x /\ dest'.segments[h].filesz = z + total
          BY <1>15, <2>3, <2>4, <2>5, <2>6, <2>9, <3>2, <1>2 DEF Shifted
    <3>4. (s.offset - x) + InFile(s) <= z + total /\ s.offset = x + (s.offset - x)
          BY <1>4, <2>5
    <3> QED
        BY <1>13, <1>14, <2>2, <2>4, <2>6, <3>3, <3>4 DEF Carried
  <2>10. CASE h # segndx
    <3>1. dest'.segments[h].offset = Shifted(x, S, total) /\ dest'.segments[h].filesz = z
          BY <1>15, <2>3, <2>4, <2>5, <2>10
    <3>2. Shifted(s.offset, S, total) - Shifted(x, S, total) = s.offset - x
      <4>1. CASE x < S
        <5>1. x + z <= FileEnd
              BY <1>8, <2>3, <2>4, <2>10, <4>1
        <5>2. s.offset < S
              BY <1>2, <2>5, <5>1
        <5> QED
            BY <1>2, <2>5, <4>1, <5>2 DEF Shifted
      <4>2. CASE ~ x < S
            BY <1>2, <1>4, <2>5, <4>2 DEF Shifted
      <4> QED
          BY <4>1, <4>2
    <3>3. Shifted(x, S, total) \in Nat /\ Shifted(s.offset, S, total) \in Nat
          BY <1>4, <2>5 DEF Shifted
    <3>4. (s.offset - x) + InFile(s) <= z /\ f.sections[n].offset = dest'.segments[h].offset + (s.offset - x)
          BY <2>5, <2>6, <3>1, <3>2, <3>3
    <3> QED
        BY <1>13, <1>14, <2>2, <2>4, <2>6, <3>1, <3>4 DEF Carried
  <2> QED
      BY <2>9, <2>10
\* There is room for the module info.
<1>17. \E k : NamesAt(dest'.sections, k) /\ InfoBehind <= dest'.sections[k].offset
  <2>1. NamesAt(f.sections, N)
    <3>1. N \in DOMAIN L /\ ~ L[N].nobits /\ L[N].size # 0 /\ L[N].id[1] = "shstrtab"
          BY <1>7 DEF NamesAt
    <3>2. ASSUME NEW n \in DOMAIN L \ {N}
          PROVE  L[n].id[1] # "shstrtab" /\ (InFile(f.sections[n]) # 0 => Past(f.sections[n]) <= f.sections[N].offset)
      <4>1. L[n].id[1] # "shstrtab" /\ (InFile(L[n]) # 0 => Past(L[n]) <= L[N].offset)
            BY <1>7 DEF NamesAt
      <4>2. L[n].offset \in Nat /\ InFile(L[n]) \in Nat /\ Past(L[n]) = L[n].offset + InFile(L[n]) /\ L[N].offset \in Nat
            BY <1>6, <3>1, SectionFields DEF Layout
      <4>3. Past(f.sections[n]) = Shifted(L[n].offset, S, total) + InFile(L[n]) /\ f.sections[N].offset = Shifted(L[N].offset, S, total)
            BY <1>12, <3>1 DEF Past
      <4> QED
          BY <1>2, <1>4, <1>12, <4>1, <4>2, <4>3, SMTT(40) DEF Shifted
    <3> QED
        BY <1>12, <1>13, <3>1, <3>2 DEF NamesAt
  <2>2. InfoBehind <= f.sections[N].offset
    <3>1. N \in DOMAIN L /\ L[N].offset \in Nat
          BY <1>6, <1>7, SectionFields DEF NamesAt, Layout
    <3>2. f.sections[N].offset = L[N].offset + total
          BY <1>7, <1>12, <3>1 DEF Shifted
    <3> QED
        BY <1>2, <1>4, <1>7, <3>1, <3>2 DEF InfoBehind, S
  <2> QED
      BY <1>14, <2>1, <2>2
<1>18. Room(dest', S)
  <2>1. dest'.segments[segndx].offset = program.file.segments[segndx].offset
    <3>1. program.file.segments[segndx].offset < S
          BY <1>2, <1>8
    <3> QED
        BY <1>2, <1>15, <3>1 DEF Shifted
  <2>2. ASSUME NEW n \in DOMAIN L, InFile(f.sections[n]) # 0
        PROVE  Past(f.sections[n]) <= S \/ InfoBehind <= f.sections[n].offset
    <3>1. L[n].offset \in Nat /\ InFile(L[n]) \in Nat /\ Past(L[n]) = L[n].offset + InFile(L[n])
          BY <1>6, SectionFields DEF Layout
    <3>2. InFile(L[n]) # 0 /\ Past(f.sections[n]) = Shifted(L[n].offset, S, total) + InFile(L[n]) /\ f.sections[n].offset = Shifted(L[n].offset, S, total)
          BY <1>12, <2>2 DEF Past
    <3>3. CASE S <= L[n].offset
      <4>1. f.sections[n].offset = L[n].offset + total
            BY <3>2, <3>3 DEF Shifted
      <4> QED
          BY <1>2, <1>4, <3>1, <3>3, <4>1 DEF InfoBehind, S
    <3>4. CASE ~ S <= L[n].offset
      <4>1. f.sections[n].offset = L[n].offset /\ Past(f.sections[n]) = Past(L[n])
            BY <3>1, <3>2, <3>4 DEF Shifted
      <4> QED
          BY <1>2, <1>7, <3>1, <3>2, <3>4, <4>1
    <3> QED
        BY <3>3, <3>4
  <2> QED
      BY <1>13, <1>14, <2>1, <2>2 DEF Room
<1>19. S + OffsetIn(0 + 1) = S
       BY <1>2, InfoStarts
<1>20. dest'.shoff \in Nat /\ HeadersEnd <= dest'.shoff
       BY <1>4, <1>6, <1>9, <1>12, <1>14
<1>21. InfoCarried(dest', 0)
       BY DEF InfoCarried
<1>22. dest'.shoff \in Nat /\ HeadersEnd <= dest'.shoff /\ Layout(dest'.sections, HeadersEnd, dest'.shoff)
       BY <1>12, <1>14, <1>20
<1>23. \A n \in DOMAIN program.segments : dest'.segments[n].memsz = IF n = segndx THEN InfoEnds ELSE program.segments[n].memsz
       BY <1>15
<1>24. Room(dest', start_foffset + OffsetIn(0 + 1))
       BY <1>18, <1>19 DEF S
<1>25. LaidAt(dest', "write_sections", 0)
       BY <1>16, <1>17, <1>21, <1>22, <1>23, <1>24 DEF LaidAt
<1> QED
    BY <1>3, <1>25

----------------------------------------------------------------------------
(* Writing the module info, the relocations and the stubs.                  *)

\* The headers are before the place of the module info.
LEMMA HeadersBefore ==
  ASSUME Shape, Regular, EndsWithSection
  PROVE  HeadersEnd \in Nat /\ HeadersEnd <= start_foffset
<1>1. HeadersEnd \in Nat
  <2>1. PICK k \in Nat : k = Len(program.segments)
        BY ProgramFacts
  <2> QED
      BY <2>1 DEF HeadersEnd, EHDR, PHDR
<1>2. PICK s \in ToSet(program.file.sections) : s.segment = segndx /\ InFile(s) # 0 /\ s.offset + s.size = FileEnd
      BY DEF EndsWithSection, FileEnd
<1>3. PICK k \in DOMAIN program.file.sections : s = program.file.sections[k]
      BY <1>2 DEF ToSet
<1>4. s.offset >= HeadersEnd /\ s.offset \in Nat /\ s.size \in Nat /\ FileEnd <= start_foffset /\ FileEnd \in Nat /\ start_foffset \in Nat
      BY <1>3, FileFacts, RegularFacts
<1> QED
    BY <1>1, <1>2, <1>4

\* What is carried by segments stays so.
LEMMA RetainedCarried ==
  ASSUME Shape, Regular, SegmentsOK, NEW e, Retains(dest, e), \A n \in DOMAIN dest.sections : dest.sections[n] \in Section
  PROVE  /\ FileCarried(dest) => FileCarried(e)
         /\ \A k \in 0 .. 9 : InfoCarried(dest, k) => InfoCarried(e, k)
<1>1. \A g \in DOMAIN program.segments : g \in DOMAIN dest.segments /\ dest.segments[g].offset \in Int
  <2>1. PICK k \in Nat : k = Len(program.segments) /\ DOMAIN program.segments = 1 .. k
        BY ProgramFacts
  <2>2. DOMAIN dest.segments = 1 .. Len(dest.segments) /\ Len(dest.segments) \in {k, k + 1}
        BY <2>1, ListFacts DEF SegmentsOK
  <2>3. \A g \in DOMAIN program.segments : dest.segments[g].offset \in Int
        BY DEF SegmentsOK
  <2> QED
      BY <2>1, <2>2, <2>3
<1>2. ASSUME FileCarried(dest) PROVE FileCarried(e)
  <2> SUFFICES ASSUME NEW n \in DOMAIN program.file.sections, NEW s, s = program.file.sections[n], s.segment # 0, InFile(s) # 0
               PROVE  Carried(e, s.segment, <<"elf", n>>, s.offset - program.file.segments[s.segment].offset)
      BY DEF FileCarried
  <2>1. s.segment \in DOMAIN program.segments /\ ~ s.nobits /\ s.offset \in Nat /\ program.file.segments[s.segment].offset <= s.offset
    <3>1. s \in [segment : 0 .. Len(program.segments), offset : Nat, size : Nat, nobits : BOOLEAN]
          /\ (s.segment # 0 /\ ~ s.nobits => program.file.segments[s.segment].offset <= s.offset)
          BY FileFacts
    <3>2. Len(program.segments) \in Nat /\ DOMAIN program.segments = 1 .. Len(program.segments)
          BY ProgramFacts
    <3> QED
        BY <3>1, <3>2 DEF InFile
  <2>2. program.file.segments[s.segment].offset \in Nat
        BY <2>1, ProgramFacts
  <2>3. PICK at \in Nat : at = s.offset - program.file.segments[s.segment].offset
        BY <2>1, <2>2
  <2>4. Carried(dest, s.segment, <<"elf", n>>, at)
        BY <1>2, <2>3 DEF FileCarried
  <2>5. PICK id : id = <<"elf", n>> /\ id[1] \notin {"shstrtab", "vstub"}
    <3>1. <<"elf", n>>[1] = "elf"
          OBVIOUS
    <3> QED
        BY <3>1
  <2>6. Carried(e, s.segment, id, at)
        BY <1>1, <2>1, <2>4, <2>5, CarriedRetained
  <2> QED
      BY <2>3, <2>5, <2>6
<1>3. ASSUME NEW k \in 0 .. 9, InfoCarried(dest, k) PROVE InfoCarried(e, k)
  <2> SUFFICES ASSUME NEW n \in 1 .. k, sizes[Sections[n]] # 0 PROVE Carried(e, segndx, <<"info", n>>, EntryOffset + OffsetIn(n))
      BY DEF InfoCarried
  <2>1. segndx \in DOMAIN program.segments /\ EntryOffset \in Nat
        BY RegularFacts
  <2>2. n \in 1 .. 9
        OBVIOUS
  <2>3. OffsetIn(n) \in Nat
        BY <2>2, InfoStarts
  <2>4. PICK at \in Nat : at = EntryOffset + OffsetIn(n)
        BY <2>1, <2>3
  <2>5. Carried(dest, segndx, <<"info", n>>, at)
        BY <1>3, <2>4 DEF InfoCarried
  <2>6. PICK id : id = <<"info", n>> /\ id[1] \notin {"shstrtab", "vstub"}
    <3>1. <<"info", n>>[1] = "info"
          OBVIOUS
    <3> QED
        BY <3>1
  <2>7. Carried(e, segndx, id, at)
        BY <1>1, <2>1, <2>5, <2>6, CarriedRetained
  <2> QED
      BY <2>4, <2>6, <2>7
<1> QED
    BY <1>2, <1>3

\* A section is named and added.
LEMMA NewSectionLaid ==
  ASSUME Shape, Regular, SegmentsOK, HeadersEnd \in Nat, dest.shoff \in Nat, HeadersEnd <= dest.shoff, Layout(dest.sections, HeadersEnd, dest.shoff),
         FileCarried(dest), NEW k, NamesAt(dest.sections, k), NEW namelen \in Nat,
         NEW section \in Section, section.id[1] # "shstrtab", Past(section) <= dest.shoff,
         InFile(section) # 0 => HeadersEnd <= section.offset /\ Past(section) <= dest.sections[k].offset,
         \A n \in DOMAIN dest.sections : Clear(section, dest.sections[n]),
         NEW e, e = elf_utils_new_scn_with_name(dest, namelen, section)
  PROVE  /\ Added(dest, e, k, section) /\ e.shoff \in Nat /\ HeadersEnd <= e.shoff
         /\ Layout(e.sections, HeadersEnd, e.shoff) /\ NamesAt(e.sections, k)
         /\ \A n \in DOMAIN program.segments : e.segments[n].memsz = dest.segments[n].memsz /\ n \in DOMAIN dest.segments
         /\ FileCarried(e) /\ \A j \in 0 .. 9 : InfoCarried(dest, j) => InfoCarried(e, j)
<1>1. /\ IsHeaders(dest) /\ IsList(dest.segments) /\ \A n \in 1 .. Len(dest.segments) : SegmentOK(dest.segments[n])
      /\ Len(dest.segments) \in {Len(program.segments), Len(program.segments) + 1}
      BY DEF SegmentsOK
<1>2. DOMAIN dest.segments = 1 .. Len(dest.segments)
      BY <1>1, ListFacts
<1>3. \A n \in DOMAIN program.segments : n \in 1 .. Len(dest.segments)
  <2>1. PICK m \in Nat : m = Len(program.segments) /\ DOMAIN program.segments = 1 .. m
        BY ProgramFacts
  <2> QED
      BY <1>1, <2>1
<1>4. \A n \in DOMAIN dest.sections : dest.sections[n] \in Section
      BY DEF Layout
<1>5. Added(dest, e, k, section) /\ e.shoff \in Nat /\ e.shoff >= dest.shoff /\ Layout(e.sections, HeadersEnd, e.shoff) /\ NamesAt(e.sections, k)
      BY <1>1, <1>2, NewSectionLayout
<1>6. Retains(dest, e)
      BY <1>1, NewSectionRetains
<1>7. SameSegments(dest, e)
  <2>1. namelen \in Int
        OBVIOUS
  <2> QED
      BY <1>1, <2>1, NewSectionSegments
<1>8. FileCarried(e) /\ \A j \in 0 .. 9 : InfoCarried(dest, j) => InfoCarried(e, j)
      BY <1>4, <1>6, RetainedCarried
<1>9. \A n \in DOMAIN program.segments : e.segments[n].memsz = dest.segments[n].memsz
      BY <1>3, <1>7 DEF SameSegments
<1> QED
    BY <1>2, <1>3, <1>5, <1>8, <1>9

\* A section of the module info is written into the room there is for it.
LEMMA WriteSectionLaid ==
  ASSUME Shape, DestOK, DestOK', Laid, UNCHANGED <<elf, top, sizes>>, WriteSection
  PROVE  Laid'
<1> SUFFICES ASSUME stage' \in Creating, Regular, EndsWithSection PROVE LaidAt(dest', stage', i')
    BY SameLaid
<1> DEFINE n == i + 1
           size == 4 * sizes[Sections[n]]
           at == start_foffset + OffsetIn(n)
           section == NewSection(<<"info", n>>, at, size)
           D == dest
           E == dest'
<1>1. stage = "write_sections" /\ LaidAt(D, "write_sections", i) /\ n \in 1 .. 9 /\ i \in 0 .. 8
  <2>1. stage = "write_sections"
        BY DEF WriteSection
  <2>2. LaidAt(D, "write_sections", i)
        BY <2>1 DEF Laid, Creating
  <2>3. i \in 0 .. 8
        BY <2>2 DEF LaidAt
  <2> QED
      BY <2>1, <2>2, <2>3
<1>2. /\ D.shoff \in Nat /\ HeadersEnd <= D.shoff /\ Layout(D.sections, HeadersEnd, D.shoff)
      /\ \A m \in DOMAIN program.segments : D.segments[m].memsz = IF m = segndx THEN InfoEnds ELSE program.segments[m].memsz
      /\ FileCarried(D) /\ Room(D, at) /\ InfoCarried(D, i)
      BY <1>1 DEF LaidAt
<1>3. PICK k : NamesAt(D.sections, k) /\ InfoBehind <= D.sections[k].offset
      BY <1>1 DEF LaidAt
<1>4. SegmentsOK /\ InfoPlaced
      BY <1>1 DEF DestOK, Writing, Creating
<1>5. /\ OffsetIn(n) \in Nat /\ size \in Nat /\ OffsetIn(n) + size <= 4 * total_size /\ total_size \in Nat
      /\ n \in 1 .. 8 => OffsetIn(n + 1) = OffsetIn(n) + size
      BY <1>1, InfoStarts
<1>6. /\ segndx \in DOMAIN program.segments /\ start_foffset \in Nat /\ EntryOffset \in Nat
      /\ program.file.segments[segndx].offset \in Nat /\ program.segments[segndx].memsz \in Nat
      /\ program.file.segments[segndx].filesz = program.segments[segndx].memsz
      /\ start_foffset = program.file.segments[segndx].offset + EntryOffset
      /\ FileEnd <= start_foffset /\ FileEnd \in Nat /\ segndx = First(EntrySegments)
      BY RegularFacts
<1>7. HeadersEnd \in Nat /\ HeadersEnd <= start_foffset
      BY HeadersBefore
<1>8. at \in Nat /\ at + size <= InfoBehind /\ InfoBehind \in Nat /\ HeadersEnd <= at /\ start_foffset <= at
      BY <1>5, <1>6, <1>7 DEF InfoBehind
<1>9. stage' = (IF n < 9 THEN "write_sections" ELSE "write_relas") /\ (n < 9 => i' = n)
      /\ (size = 0 => E = D) /\ (size # 0 => E = elf_utils_new_scn_with_name(D, NameLength[n], section))
  <2>1. i + 1 < Len(Sections) <=> n < 9
        BY SectionFacts
  <2>2. Len(Sections) = 9 /\ (IF i + 1 < Len(Sections) THEN Again ELSE To("write_relas"))
        /\ E = (IF size = 0 THEN D ELSE elf_utils_new_scn_with_name(D, NameLength[n], section))
    <3> HIDE DEF elf_utils_new_scn_with_name, NewSection
    <3> QED
        BY SectionFacts DEF WriteSection
  <2>3. stage' = IF n < 9 THEN "write_sections" ELSE "write_relas"
        BY <1>1, <2>1, <2>2 DEF To, Again
  <2>4. n < 9 => i' = n
        BY <1>1, <2>1, <2>2 DEF Again
  <2> QED
      BY <2>2, <2>3, <2>4
<1> HIDE DEF section, size, at, n
<1>10. n \in 1 .. 9 /\ i \in 0 .. 9 /\ i = n - 1 /\ n \in 0 .. 9
       BY <1>1 DEF n
\* What has to be shown of the headers.
<1>11. SUFFICES /\ E.shoff \in Nat /\ HeadersEnd <= E.shoff /\ Layout(E.sections, HeadersEnd, E.shoff)
                /\ \A m \in DOMAIN program.segments : E.segments[m].memsz = D.segments[m].memsz
                /\ FileCarried(E) /\ InfoCarried(E, n)
                /\ \E m : NamesAt(E.sections, m) /\ InfoBehind <= E.sections[m].offset
                /\ Room(E, at + size)
  <2>1. CASE n < 9
    <3>1. n \in 1 .. 8 /\ n \in 0 .. 8 /\ stage' = "write_sections" /\ i' = n
          BY <1>10, <1>9, <2>1
    <3>2. start_foffset + OffsetIn(n + 1) = at + size
          BY <1>5, <1>6, <3>1 DEF at
    <3> QED
        BY <1>2, <1>11, <3>1, <3>2 DEF LaidAt
  <2>2. CASE ~ n < 9
    <3>1. n = 9 /\ stage' = "write_relas"
          BY <1>10, <1>9, <2>2
    <3> QED
        BY <1>2, <1>11, <3>1 DEF LaidAt
  <2> QED
      BY <2>1, <2>2
<1>12. InfoCarried(E, n) <=> InfoCarried(E, i) /\ (sizes[Sections[n]] # 0 => Carried(E, segndx, <<"info", n>>, EntryOffset + OffsetIn(n)))
  <2>1. 1 .. n = 1 .. i \cup {n}
        BY <1>10
  <2> QED
      BY <2>1 DEF InfoCarried
<1>13. size = 0 <=> sizes[Sections[n]] = 0
  <2>1. sizes[Sections[n]] \in Nat
        BY <1>10, InfoStarts
  <2> QED
      BY <2>1 DEF size
<1>14. CASE size = 0
  <2>1. E = D /\ at + size = at
        BY <1>8, <1>9, <1>14
  <2> QED
      BY <1>2, <1>3, <1>12, <1>13, <1>14, <2>1
<1>15. CASE size # 0
  <2>1. section \in Section /\ section.id = <<"info", n>> /\ section.id[1] # "shstrtab" /\ section.offset = at
        /\ InFile(section) = size /\ Past(section) = at + size
    <3>1. PICK id : id = <<"info", n>>
          OBVIOUS
    <3>2. id \in Kinds \X Nat /\ id[1] # "shstrtab"
          BY <1>10, <3>1 DEF Kinds
    <3>3. PICK t : t = section
          OBVIOUS
    <3>4. PICK x \in Nat : x = at
          BY <1>8
    <3>5. PICK z \in Nat : z = size
          BY <1>5
    <3>6. t = NewSection(id, x, z)
          BY <3>1, <3>3, <3>4, <3>5 DEF section
    <3>7. t \in Section /\ t.id = id /\ t.offset = x /\ InFile(t) = z /\ Past(t) = x + z
          BY <3>2, <3>6 DEF NewSection, Section, InFile, Past
    <3> QED
        BY <3>1, <3>2, <3>3, <3>4, <3>5, <3>7
  <2>2. PICK namelen \in Nat : namelen = NameLength[n]
        BY <1>10, LengthsOfNames
  <2>3. E = elf_utils_new_scn_with_name(D, namelen, section)
        BY <1>9, <1>15, <2>2
  <2>4. D.sections[k] \in Section /\ D.sections[k].offset \in Nat /\ InFile(D.sections[k]) \in Nat
        /\ Past(D.sections[k]) = D.sections[k].offset + InFile(D.sections[k]) /\ Past(D.sections[k]) <= D.shoff
        BY <1>2, <1>3, SectionFields DEF NamesAt, Layout
  <2>5. Past(section) <= D.sections[k].offset /\ Past(section) <= D.shoff /\ HeadersEnd <= section.offset
        BY <1>2, <1>3, <1>5, <1>8, <2>1, <2>4
  <2>6. ASSUME NEW m \in DOMAIN D.sections PROVE Clear(section, D.sections[m])
    <3>1. CASE InFile(D.sections[m]) = 0
          BY <3>1 DEF Clear
    <3>2. CASE Past(D.sections[m]) <= at
          BY <2>1, <3>2 DEF Clear
    <3>3. CASE InfoBehind <= D.sections[m].offset
      <4>1. D.sections[m].offset \in Nat
            BY <1>2, SectionFields DEF Layout
      <4>2. Past(section) <= D.sections[m].offset
            BY <1>5, <1>8, <2>1, <3>3, <4>1
      <4> QED
          BY <4>2 DEF Clear
    <3> QED
        BY <1>2, <3>1, <3>2, <3>3 DEF Room
  <2>7. /\ Added(D, E, k, section) /\ E.shoff \in Nat /\ HeadersEnd <= E.shoff
        /\ Layout(E.sections, HeadersEnd, E.shoff) /\ NamesAt(E.sections, k)
        /\ \A m \in DOMAIN program.segments : E.segments[m].memsz = D.segments[m].memsz /\ m \in DOMAIN D.segments
        /\ FileCarried(E) /\ \A j \in 0 .. 9 : InfoCarried(D, j) => InfoCarried(E, j)
        BY <1>2, <1>3, <1>4, <1>7, <2>1, <2>3, <2>5, <2>6, NewSectionLaid
  <2>8. E.sections[k].offset = D.sections[k].offset
        BY <2>7 DEF Added
  <2>9. E.segments[segndx].offset = program.file.segments[segndx].offset
    <3>1. D.segments[segndx].offset = program.file.segments[segndx].offset
          BY <1>2 DEF Room
    <3>2. program.file.segments[segndx].offset < D.sections[k].offset
      <4>1. program.file.segments[segndx].offset < FileEnd
            BY SegmentEnds
      <4>2. FileEnd <= start_foffset /\ start_foffset <= InfoBehind
            BY <1>5, <1>6 DEF InfoBehind
      <4> QED
          BY <1>3, <1>6, <1>8, <2>4, <4>1, <4>2
    <3>3. PICK x \in Nat : x = program.file.segments[segndx].offset
          BY <1>6
    <3>4. segndx \in DOMAIN D.segments /\ D.segments[segndx].offset \in Int /\ D.segments[segndx].offset < D.sections[k].offset
          BY <1>6, <2>7, <3>1, <3>2, <3>3
    <3>5. \A m \in DOMAIN D.segments : D.segments[m].offset \in Int /\ D.segments[m].offset < D.sections[k].offset =>
            E.segments[m].offset = D.segments[m].offset
          BY <2>7 DEF Added
    <3> QED
        BY <3>1, <3>4, <3>5
  <2>10. Carried(E, segndx, <<"info", n>>, EntryOffset + OffsetIn(n))
    <3>1. PICK m \in DOMAIN E.sections : E.sections[m] = section
          BY <2>7 DEF Added
    <3>2. E.segments[segndx].filesz = EntryOffset + 4 * total_size
      <4>1. InfoPlaced'
            BY <1>9 DEF DestOK, Writing, Creating
      <4>2. E.segments[segndx].filesz = program.file.segments[segndx].filesz + (4 * total_size + EntryOffset - program.segments[segndx].memsz)
        <5>1. program' = program /\ segndx' = segndx /\ total_size' = total_size /\ EntryOffset' = EntryOffset /\ First(EntrySegments)' = First(EntrySegments)
          <6>1. EntrySegments' = EntrySegments
                BY DEF EntrySegments, SegmentsOf, InSegment, program
          <6> QED
              BY <6>1, SamePlan
        <5> QED
            BY <1>6, <4>1, <5>1 DEF InfoPlaced
      <4>3. PICK x \in Nat, y \in Nat, z \in Nat : x = EntryOffset /\ y = total_size /\ z = program.segments[segndx].memsz
            BY <1>5, <1>6
      <4>4. program.file.segments[segndx].filesz = z
            BY <1>6, <4>3
      <4> QED
          BY <4>2, <4>3, <4>4
    <3>3. E.sections[m].offset = E.segments[segndx].offset + (EntryOffset + OffsetIn(n))
      <4>1. at = program.file.segments[segndx].offset + (EntryOffset + OffsetIn(n))
            BY <1>5, <1>6 DEF at
      <4> QED
          BY <2>1, <2>9, <3>1, <4>1
    <3>4. (EntryOffset + OffsetIn(n)) + InFile(E.sections[m]) <= E.segments[segndx].filesz
          BY <1>5, <1>6, <2>1, <3>1, <3>2
    <3> QED
        BY <1>15, <2>1, <3>1, <3>3, <3>4 DEF Carried
  <2>11. Room(E, at + size)
    <3>1. ASSUME NEW m \in DOMAIN E.sections, InFile(E.sections[m]) # 0 PROVE Past(E.sections[m]) <= at + size \/ InfoBehind <= E.sections[m].offset
      <4>1. CASE m = Len(D.sections) + 1
        <5>1. E.sections[m] = section
              BY <2>7, <4>1 DEF Added
        <5> QED
            BY <1>5, <1>8, <2>1, <5>1
      <4>2. CASE m = k
            BY <1>3, <2>8, <4>2
      <4>3. CASE m # k /\ m # Len(D.sections) + 1
        <5>1. m \in DOMAIN D.sections
              BY <2>7, <4>3 DEF Added
        <5>2. InFile(D.sections[m]) # 0 /\ E.sections[m] = D.sections[m]
              BY <2>7, <3>1, <4>3, <5>1 DEF Added
        <5>3. Past(D.sections[m]) <= at \/ InfoBehind <= D.sections[m].offset
              BY <1>2, <5>1, <5>2 DEF Room
        <5>4. Past(D.sections[m]) \in Nat
              BY <1>2, <5>1, SectionFields DEF Layout
        <5> QED
            BY <1>5, <1>8, <5>2, <5>3, <5>4
      <4> QED
          BY <4>1, <4>2, <4>3
    <3> QED
        BY <2>9, <3>1 DEF Room
  <2>12. InfoCarried(E, n)
        BY <1>2, <1>10, <1>12, <2>7, <2>10
  <2> QED
      BY <1>3, <2>7, <2>8, <2>11, <2>12
<1> QED
    BY <1>14, <1>15

\* The section of the relocations is named, and empty.
LEMMA AddRelaLaid ==
  ASSUME Shape, DestOK, Laid, UNCHANGED <<elf, top, sizes>>, AddRelaSection
  PROVE  Laid'
<1> SUFFICES ASSUME stage' \in Creating, Regular, EndsWithSection PROVE LaidAt(dest', stage', i')
    BY SameLaid
<1> DEFINE section == NewSection(<<"rel", 0>>, 0, 0)
           D == dest
           E == dest'
<1>1. stage = "write_relas" /\ LaidAt(D, "write_relas", i) /\ stage' = "fill_relas" /\ SegmentsOK
      /\ E = elf_utils_new_scn_with_name(D, RelNameLength, section)
  <2>1. stage = "write_relas" /\ stage' = "fill_relas" /\ E = elf_utils_new_scn_with_name(D, RelNameLength, section)
    <3> HIDE DEF elf_utils_new_scn_with_name, NewSection
    <3> QED
        BY DEF AddRelaSection, To
  <2> QED
      BY <2>1 DEF Laid, Creating, DestOK, Writing
<1>2. /\ D.shoff \in Nat /\ HeadersEnd <= D.shoff /\ Layout(D.sections, HeadersEnd, D.shoff)
      /\ \A m \in DOMAIN program.segments : D.segments[m].memsz = IF m = segndx THEN InfoEnds ELSE program.segments[m].memsz
      /\ FileCarried(D) /\ InfoCarried(D, 9)
      BY <1>1 DEF LaidAt
<1>3. PICK k : NamesAt(D.sections, k)
      BY <1>1 DEF LaidAt
<1>4. HeadersEnd \in Nat
      BY HeadersBefore
<1>5. PICK namelen \in Nat : namelen = RelNameLength
      BY DEF RelNameLength
<1>6. section \in Section /\ section.id[1] # "shstrtab" /\ InFile(section) = 0 /\ Past(section) = 0
  <2>1. PICK id : id = <<"rel", 0>>
        OBVIOUS
  <2>2. id \in Kinds \X Nat /\ id[1] # "shstrtab"
        BY <2>1 DEF Kinds
  <2>3. PICK t : t = NewSection(id, 0, 0)
        OBVIOUS
  <2>4. t \in Section /\ t.id = id /\ InFile(t) = 0 /\ Past(t) = 0
        BY <2>2, <2>3 DEF NewSection, Section, InFile, Past
  <2> QED
      BY <2>1, <2>2, <2>3, <2>4
<1>7. \A n \in DOMAIN D.sections : Clear(section, D.sections[n])
      BY <1>6 DEF Clear
<1> HIDE DEF section
<1>8. /\ Added(D, E, k, section) /\ E.shoff \in Nat /\ HeadersEnd <= E.shoff
      /\ Layout(E.sections, HeadersEnd, E.shoff)
      /\ \A m \in DOMAIN program.segments : E.segments[m].memsz = D.segments[m].memsz
      /\ FileCarried(E) /\ \A j \in 0 .. 9 : InfoCarried(D, j) => InfoCarried(E, j)
  <2>1. E = elf_utils_new_scn_with_name(dest, namelen, section)
        BY <1>1, <1>5
  <2>2. Past(section) <= dest.shoff
        BY <1>2, <1>6
  <2> QED
      BY <1>1, <1>2, <1>3, <1>4, <1>6, <1>7, <2>1, <2>2, NewSectionLaid
<1>9. Len(E.sections) # 0 /\ E.sections[Len(E.sections)] = section
  <2>1. Len(D.sections) \in Nat
        BY <1>2, ListFacts DEF Layout
  <2> QED
      BY <1>8, <2>1 DEF Added
<1>10. InfoCarried(E, 9)
       BY <1>2, <1>8
<1> QED
    BY <1>1, <1>2, <1>8, <1>9, <1>10 DEF LaidAt, section

\* It gets the relocations, and a segment.
LEMMA WriteRelasLaid ==
  ASSUME Shape, DestOK, Laid, UNCHANGED <<elf, top, sizes>>, sce_elf_write_rela_sections
  PROVE  Laid'
<1> SUFFICES ASSUME stage' \in Creating, Regular, EndsWithSection PROVE LaidAt(dest', stage', i')
    BY SameLaid
<1>1. PICK size \in Nat : size = RelaSize
      BY RelaSizeNat
<1> DEFINE D == dest
           E == dest'
           e == WithData(D, size)
           new == [vaddr |-> 0, memsz |-> 0, offset |-> DataOffset(D), filesz |-> size, align |-> 16]
           segments == Append(e.segments, new)
           N == Len(D.sections)
<1>2. stage = "fill_relas" /\ LaidAt(D, "fill_relas", i) /\ stage' = "rewrite" /\ SegmentsOK
  <2>1. stage = "fill_relas" /\ stage' = "rewrite"
        BY DEF sce_elf_write_rela_sections, To
  <2> QED
      BY <2>1 DEF Laid, Creating, DestOK, Writing
<1>3. /\ D.shoff \in Nat /\ HeadersEnd <= D.shoff /\ Layout(D.sections, HeadersEnd, D.shoff)
      /\ \A m \in DOMAIN program.segments : D.segments[m].memsz = IF m = segndx THEN InfoEnds ELSE program.segments[m].memsz
      /\ FileCarried(D) /\ InfoCarried(D, 9)
      /\ N # 0 /\ D.sections[N] = NewSection(<<"rel", 0>>, 0, 0)
      BY <1>2 DEF LaidAt
<1>4. HeadersEnd \in Nat
      BY HeadersBefore
<1>5. InFile(D.sections[N]) = 0 /\ ~ D.sections[N].nobits /\ D.sections[N].id = <<"rel", 0>>
      BY <1>3 DEF NewSection, InFile
<1>6. IsHeaders(D) /\ IsList(D.segments) /\ \A n \in 1 .. Len(D.segments) : SegmentOK(D.segments[n])
      BY <1>2 DEF SegmentsOK
<1>7. /\ e.shoff = D.shoff + (size + 16) /\ Layout(e.sections, HeadersEnd, e.shoff) /\ Retains(D, e)
      /\ DOMAIN e.sections = DOMAIN D.sections
      /\ e.sections[N].offset = DataOffset(D) /\ e.sections[N].id = D.sections[N].id /\ InFile(e.sections[N]) = size
  <2>1. PICK d, id : d = dest /\ id = <<"rel", 0>>
        OBVIOUS
  <2>2. PICK low \in Nat : low = HeadersEnd
        BY <1>4
  <2>3. /\ IsHeaders(d) /\ IsList(d.segments) /\ (\A n \in 1 .. Len(d.segments) : SegmentOK(d.segments[n]))
        /\ d.shoff \in Nat /\ low <= d.shoff /\ Layout(d.sections, low, d.shoff)
        /\ Len(d.sections) # 0 /\ d.sections[Len(d.sections)] = NewSection(id, 0, 0)
        BY <1>3, <1>6, <2>1, <2>2
  <2>4. LET w == WithData(d, size)
            s == w.sections[Len(d.sections)]
        IN /\ w.shoff = d.shoff + (size + 16) /\ Layout(w.sections, low, w.shoff) /\ Retains(d, w)
           /\ DOMAIN w.sections = DOMAIN d.sections
           /\ s.offset = DataOffset(d) /\ s.id = id /\ InFile(s) = size
    <3> HIDE DEF e, new, segments
    <3> QED
        BY ONLY <2>3, size \in Nat, low \in Nat, WithDataLayout
  <2> QED
      BY <1>5, <2>1, <2>2, <2>4
<1>8. SameSegments(D, e)
  <2>1. size \in Int
        OBVIOUS
  <2> QED
      BY <1>6, <2>1, WithDataSegments
<1>9. E = [e EXCEPT !.segments = segments]
      BY <1>1, <1>2, <1>8 DEF sce_elf_write_rela_sections, SameSegments, IsHeaders
<1>10. FileCarried(e) /\ InfoCarried(e, 9)
  <2>1. \A n \in DOMAIN D.sections : D.sections[n] \in Section
        BY <1>3 DEF Layout
  <2>2. 9 \in 0 .. 9
        OBVIOUS
  <2> HIDE DEF e
  <2> QED
      BY <1>2, <1>3, <1>7, <2>1, <2>2, RetainedCarried
<1>11. N \in DOMAIN D.sections
  <2>1. N \in Nat /\ DOMAIN D.sections = 1 .. N
        BY <1>3, ListFacts DEF Layout
  <2> QED
      BY <1>3, <2>1
<1> HIDE DEF e
<1>12. new.offset = DataOffset(D) /\ new.filesz = size
       OBVIOUS
<1> HIDE DEF new
<1>13. IsList(segments) /\ Len(segments) = Len(e.segments) + 1
       /\ (\A n \in 1 .. Len(e.segments) : segments[n] = e.segments[n]) /\ segments[Len(e.segments) + 1] = new
       BY <1>8, ListAppend DEF SameSegments
<1> HIDE DEF segments
<1>14. E.segments = segments /\ E.sections = e.sections /\ E.shoff = e.shoff
       BY <1>8, <1>9 DEF SameSegments, IsHeaders
<1>15. Len(D.segments) = Len(program.segments) /\ Len(e.segments) = Len(program.segments)
       /\ DOMAIN program.segments = 1 .. Len(program.segments)
       BY <1>2, <1>8, ProgramFacts DEF SegmentsOK, SameSegments, Short
<1>16. \A n \in DOMAIN program.segments : E.segments[n] = e.segments[n] /\ e.segments[n].memsz = D.segments[n].memsz
  <2>1. \A n \in DOMAIN program.segments : n \in 1 .. Len(e.segments) /\ n \in 1 .. Len(D.segments)
        BY <1>15
  <2> QED
      BY <1>8, <1>13, <1>14, <2>1 DEF SameSegments
<1>17. E.segments[Len(E.segments)] = new
       BY <1>13, <1>14
\* The segments of the program are those they were.
<1>18. ASSUME NEW g \in DOMAIN program.segments, NEW id, NEW at, Carried(e, g, id, at) PROVE Carried(E, g, id, at)
       BY <1>14, <1>16, <1>18 DEF Carried
<1>19. FileCarried(E)
  <2> SUFFICES ASSUME NEW n \in DOMAIN program.file.sections, NEW s, s = program.file.sections[n], s.segment # 0, InFile(s) # 0
               PROVE  Carried(E, s.segment, <<"elf", n>>, s.offset - program.file.segments[s.segment].offset)
      BY DEF FileCarried
  <2>1. s.segment \in DOMAIN program.segments
    <3>1. PICK h \in Nat : h = Len(program.segments) /\ DOMAIN program.segments = 1 .. h
          BY ProgramFacts
    <3>2. s.segment \in 0 .. h
          BY <3>1, FileFacts
    <3> QED
        BY <3>1, <3>2
  <2>2. Carried(e, s.segment, <<"elf", n>>, s.offset - program.file.segments[s.segment].offset)
        BY <1>10 DEF FileCarried
  <2> QED
      BY <1>18, <2>1, <2>2
<1>20. InfoCarried(E, 9)
  <2>1. segndx \in DOMAIN program.segments
        BY RegularFacts
  <2> QED
      BY <1>10, <1>18, <2>1 DEF InfoCarried
<1>21. E.shoff \in Nat /\ HeadersEnd <= E.shoff /\ Layout(E.sections, HeadersEnd, E.shoff)
       BY <1>3, <1>4, <1>7, <1>14
<1>22. /\ N \in DOMAIN E.sections /\ E.sections[N].id = <<"rel", 0>>
       /\ E.sections[N].offset = E.segments[Len(E.segments)].offset /\ InFile(E.sections[N]) <= E.segments[Len(E.segments)].filesz
       BY <1>5, <1>7, <1>11, <1>12, <1>14, <1>17
<1> QED
    BY <1>2, <1>3, <1>16, <1>19, <1>20, <1>21, <1>22 DEF LaidAt

\* The sections of variable stubs go, and no other.
LEMMA RewriteLaid ==
  ASSUME Shape, DestOK, Laid, UNCHANGED <<elf, top, sizes>>, sce_elf_rewrite_stubs
  PROVE  Laid'
<1> SUFFICES ASSUME stage' \in Creating, Regular, EndsWithSection PROVE LaidAt(dest', stage', i')
    BY SameLaid
<1> DEFINE D == dest
           E == dest'
           I == {n \in DOMAIN D.sections : D.sections[n].id[1] # "vstub"}
           sections == Select(D.sections, I)
<1>1. stage = "rewrite" /\ LaidAt(D, "rewrite", i) /\ stage' = "update" /\ SegmentsOK
  <2>1. stage = "rewrite" /\ stage' = "update"
        BY DEF sce_elf_rewrite_stubs, To
  <2> QED
      BY <2>1 DEF Laid, Creating, DestOK, Writing
<1>2. /\ D.shoff \in Nat /\ HeadersEnd <= D.shoff /\ Layout(D.sections, HeadersEnd, D.shoff)
      /\ \A m \in DOMAIN program.segments : D.segments[m].memsz = IF m = segndx THEN InfoEnds ELSE program.segments[m].memsz
      /\ FileCarried(D) /\ InfoCarried(D, 9)
      BY <1>1 DEF LaidAt
<1>3. PICK r \in DOMAIN D.sections : D.sections[r].id = <<"rel", 0>> /\ D.sections[r].offset = D.segments[Len(D.segments)].offset
                                     /\ InFile(D.sections[r]) <= D.segments[Len(D.segments)].filesz
      BY <1>1 DEF LaidAt
<1>4. E = [D EXCEPT !.sections = sections]
      BY <1>1 DEF sce_elf_rewrite_stubs, SegmentsOK, IsHeaders
<1>5. Layout(sections, HeadersEnd, D.shoff) /\ \A n \in I : \E m \in DOMAIN sections : sections[m] = D.sections[n]
  <2>1. PICK s, J : s = D.sections /\ J = I
        OBVIOUS
  <2>2. PICK low, high : low = HeadersEnd /\ high = D.shoff
        OBVIOUS
  <2>3. Layout(s, low, high)
        BY <1>2, <2>1, <2>2
  <2>4. Layout(Select(s, J), low, high) /\ \A n \in J \cap DOMAIN s : \E m \in DOMAIN Select(s, J) : Select(s, J)[m] = s[n]
        BY ONLY <2>3, SelectLayout
  <2>5. J \cap DOMAIN s = J
        BY <2>1
  <2> QED
      BY <2>1, <2>2, <2>4, <2>5
<1> HIDE DEF sections
<1>6. E.sections = sections /\ E.segments = D.segments /\ E.shoff = D.shoff
      BY <1>1, <1>4 DEF SegmentsOK, IsHeaders
<1>7. Retains(D, E)
      BY <1>5, <1>6 DEF Retains
<1>8. FileCarried(E) /\ InfoCarried(E, 9)
  <2>1. \A n \in DOMAIN D.sections : D.sections[n] \in Section
        BY <1>2 DEF Layout
  <2>2. 9 \in 0 .. 9
        OBVIOUS
  <2> QED
      BY <1>1, <1>2, <1>7, <2>1, <2>2, RetainedCarried
<1>9. \E n \in DOMAIN E.sections : E.sections[n] = D.sections[r]
  <2>1. <<"rel", 0>>[1] # "vstub"
        OBVIOUS
  <2>2. r \in I
        BY <1>3, <2>1
  <2> QED
      BY <1>5, <1>6, <2>2
<1> QED
    BY <1>1, <1>2, <1>3, <1>5, <1>6, <1>8, <1>9 DEF LaidAt

----------------------------------------------------------------------------
(* The file that is written loads.                                          *)

\* Nothing in the file is written over.
LEMMA FileApart ==
  ASSUME Shape, SegmentsOK, stage \notin Short, dest.shoff \in Nat, HeadersEnd <= dest.shoff, Layout(dest.sections, HeadersEnd, dest.shoff)
  PROVE  \A m, n \in DOMAIN Ranges : m # n => ~ Overwritten(Ranges[m], Ranges[n])
<1> DEFINE S == dest.sections
           headers == <<<<0, EHDR>>, <<EHDR, HeaderSize>>, <<dest.shoff, dest.shoff + SHDR * (Len(S) + 1)>>>>
           sections == [n \in DOMAIN S |-> <<S[n].offset, S[n].offset + InFile(S[n])>>]
           N == Len(S)
           R == Ranges
<1>1. R = headers \o sections
      BY DEF Ranges
<1>2. PICK h \in Nat : h = HeadersEnd /\ h = HeaderSize /\ 52 <= h
  <2>1. PICK k \in Nat : k = Len(program.segments)
        BY ProgramFacts
  <2>2. HeadersEnd = 52 + 32 * (k + 1) /\ HeaderSize = 52 + 32 * (k + 1)
        BY <2>1 DEF HeadersEnd, HeaderSize, EHDR, PHDR, SegmentsOK
  <2> QED
      BY <2>2
<1>3. IsList(S) /\ N \in Nat /\ DOMAIN S = 1 .. N
      BY ListFacts DEF Layout
<1>4. PICK a \in Nat, b \in Nat : a = dest.shoff /\ b = dest.shoff + SHDR * (Len(S) + 1)
      BY <1>3 DEF SHDR
<1>5. h <= a
      BY <1>2, <1>4
<1>6. ASSUME NEW n \in 1 .. N
      PROVE  sections[n][1] = S[n].offset /\ sections[n][2] = Past(S[n]) /\ S[n].offset \in Nat /\ Past(S[n]) \in Nat
             /\ Past(S[n]) = S[n].offset + InFile(S[n]) /\ InFile(S[n]) \in Nat
             /\ Past(S[n]) <= a /\ (InFile(S[n]) # 0 => h <= S[n].offset)
  <2>1. S[n] \in Section /\ Past(S[n]) <= a /\ (InFile(S[n]) # 0 => h <= S[n].offset)
        BY <1>2, <1>3, <1>4 DEF Layout
  <2>2. Past(S[n]) = S[n].offset + InFile(S[n]) /\ Past(S[n]) \in Nat /\ S[n].offset \in Nat /\ InFile(S[n]) \in Nat
        BY <2>1, SectionFields
  <2> QED
      BY <1>3, <2>1, <2>2
<1>7. IsList(headers) /\ Len(headers) = 3
      /\ headers[1][1] = 0 /\ headers[1][2] = 52 /\ headers[2][1] = 52 /\ headers[2][2] = h /\ headers[3][1] = a
  <2>1. headers = <<<<0, 52>>, <<52, h>>, <<a, b>>>>
        BY <1>2, <1>4 DEF EHDR
  <2>2. PICK x, y, z : x = <<0, 52>> /\ y = <<52, h>> /\ z = <<a, b>>
        OBVIOUS
  <2>3. headers = <<x, y, z>>
        BY <2>1, <2>2
  <2> HIDE DEF headers
  <2> QED
      BY <2>2, <2>3, List3
<1>8. sections = [n \in 1 .. N |-> sections[n]]
      BY <1>3
<1> HIDE DEF headers, sections
<1>9. IsList(sections) /\ Len(sections) = N
      BY <1>3, <1>8, FunctionList
<1> HIDE DEF N
<1>10. IsList(R) /\ DOMAIN R = 1 .. 3 + N /\ \A n \in 1 .. 3 + N : R[n] = IF n <= 3 THEN headers[n] ELSE sections[n - 3]
  <2>1. PICK x, y : x = headers /\ y = sections
        OBVIOUS
  <2>2. IsList(x) /\ IsList(y) /\ Len(x) = 3 /\ Len(y) = N
        BY <1>7, <1>9, <2>1
  <2>3. IsList(x \o y) /\ Len(x \o y) = Len(x) + Len(y)
        /\ \A n \in 1 .. Len(x) + Len(y) : (x \o y)[n] = IF n <= Len(x) THEN x[n] ELSE y[n - Len(x)]
        BY ONLY <2>2, ListConcat
  <2>4. R = x \o y /\ IsList(R) /\ DOMAIN R = 1 .. Len(R)
        BY <1>1, <2>1, <2>3, ListFacts
  <2> QED
      BY <2>1, <2>2, <2>3, <2>4
<1> HIDE DEF R
<1>11. headers[3][2] = b
  <2>1. headers = <<<<0, EHDR>>, <<EHDR, HeaderSize>>, <<a, b>>>>
        BY <1>4 DEF headers
  <2> QED
      BY <2>1
<1>12. ASSUME NEW n \in 1 .. 3 + N
       PROVE  (n \in {1, 2, 3} /\ R[n] = headers[n]) \/ (n - 3 \in 1 .. N /\ R[n] = sections[n - 3])
  <2>1. CASE n <= 3
    <3>1. n \in {1, 2, 3} /\ R[n] = headers[n]
          BY <1>3, <1>10, <2>1
    <3> QED
        BY <3>1
  <2>2. CASE ~ n <= 3
    <3>1. R[n] = sections[n - 3]
          BY <1>10, <2>2
    <3>2. n - 3 \in 1 .. N
          BY <1>3, <2>2
    <3> QED
        BY <3>1, <3>2
  <2> QED
      BY <2>1, <2>2
<1>13. \A k, l \in {1, 2, 3} : k < l => ~ Overwritten(headers[k], headers[l]) /\ ~ Overwritten(headers[l], headers[k])
  <2>1. /\ ~ Overwritten(headers[1], headers[2]) /\ ~ Overwritten(headers[2], headers[1])
        /\ ~ Overwritten(headers[1], headers[3]) /\ ~ Overwritten(headers[3], headers[1])
        /\ ~ Overwritten(headers[2], headers[3]) /\ ~ Overwritten(headers[3], headers[2])
        BY <1>2, <1>4, <1>5, <1>7, <1>11 DEF Overwritten
  <2> QED
      BY <2>1
<1>14. ASSUME NEW k \in {1, 2, 3}, NEW n \in 1 .. N
       PROVE  ~ Overwritten(headers[k], sections[n]) /\ ~ Overwritten(sections[n], headers[k])
  <2>1. sections[n][1] = S[n].offset /\ sections[n][2] = Past(S[n]) /\ S[n].offset \in Nat /\ Past(S[n]) \in Nat
        /\ Past(S[n]) = S[n].offset + InFile(S[n]) /\ InFile(S[n]) \in Nat
        /\ Past(S[n]) <= a /\ (InFile(S[n]) # 0 => h <= S[n].offset)
        BY <1>6
  <2>2. CASE k = 1 \/ k = 2
        BY <1>2, <1>7, <2>1, <2>2 DEF Overwritten
  <2>3. CASE k = 3
        BY <1>4, <1>7, <1>11, <2>1, <2>3 DEF Overwritten
  <2> QED
      BY <2>2, <2>3
<1>15. ASSUME NEW m \in 1 .. N, NEW n \in 1 .. N, m # n
       PROVE  ~ Overwritten(sections[m], sections[n])
  <2>1. Clear(S[m], S[n])
        BY <1>3, <1>15 DEF Layout
  <2>2. /\ sections[n][1] = S[n].offset /\ sections[n][2] = Past(S[n]) /\ S[n].offset \in Nat /\ Past(S[n]) \in Nat
        /\ Past(S[n]) = S[n].offset + InFile(S[n]) /\ InFile(S[n]) \in Nat
        /\ sections[m][1] = S[m].offset /\ sections[m][2] = Past(S[m]) /\ S[m].offset \in Nat /\ Past(S[m]) \in Nat
        /\ Past(S[m]) = S[m].offset + InFile(S[m]) /\ InFile(S[m]) \in Nat
        BY <1>6
  <2> QED
      BY <2>1, <2>2 DEF Overwritten, Clear
<1>16. ASSUME NEW m \in DOMAIN R, NEW n \in DOMAIN R, m # n PROVE ~ Overwritten(R[m], R[n])
  <2>1. m \in 1 .. 3 + N /\ n \in 1 .. 3 + N
        BY <1>10
  <2>2. CASE m \in {1, 2, 3} /\ R[m] = headers[m] /\ n \in {1, 2, 3} /\ R[n] = headers[n]
    <3>1. m < n \/ n < m
          BY <1>16, <2>2
    <3> QED
        BY <1>13, <2>2, <3>1
  <2>3. CASE m - 3 \in 1 .. N /\ R[m] = sections[m - 3] /\ n - 3 \in 1 .. N /\ R[n] = sections[n - 3]
    <3>1. m - 3 # n - 3
          BY <1>3, <1>16, <2>1
    <3> QED
        BY <1>15, <2>3, <3>1
  <2> QED
      BY <1>12, <1>14, <2>1, <2>2, <2>3
<1> QED
    BY <1>16 DEF R

\* The segments do not meet in memory if they did not with their padding.
LEMMA MemoryApart ==
  ASSUME Shape, Regular, SegmentsOK, ~ Blocked, Apart,
         \A n \in DOMAIN program.segments : dest.segments[n].memsz = IF n = segndx THEN InfoEnds ELSE program.segments[n].memsz
  PROVE  \A m, n \in DOMAIN program.segments :
           m # n => ~ Meets(dest.segments[m], dest.segments[n].vaddr, dest.segments[n].vaddr + dest.segments[n].memsz)
<1> SUFFICES ASSUME NEW m \in DOMAIN program.segments, NEW n \in DOMAIN program.segments, m # n
             PROVE  ~ Meets(dest.segments[m], dest.segments[n].vaddr, dest.segments[n].vaddr + dest.segments[n].memsz)
    OBVIOUS
<1>1. PICK P : P = program.segments
      OBVIOUS
<1>2. \A k \in {m, n} :
        /\ P[k].vaddr \in Nat /\ P[k].memsz \in Nat
        /\ dest.segments[k].vaddr = P[k].vaddr /\ dest.segments[k].memsz = IF k = segndx THEN InfoEnds ELSE P[k].memsz
        /\ AlignUp(P[k].memsz) \in Nat /\ P[k].memsz <= AlignUp(P[k].memsz)
  <2> SUFFICES ASSUME NEW k \in {m, n}
               PROVE  /\ P[k].vaddr \in Nat /\ P[k].memsz \in Nat
                      /\ dest.segments[k].vaddr = P[k].vaddr /\ dest.segments[k].memsz = IF k = segndx THEN InfoEnds ELSE P[k].memsz
                      /\ AlignUp(P[k].memsz) \in Nat /\ P[k].memsz <= AlignUp(P[k].memsz)
      OBVIOUS
  <2>1. P[k].vaddr \in Nat /\ P[k].memsz \in Nat
        BY <1>1, ProgramFacts
  <2>2. AlignUp(P[k].memsz) \in Nat /\ AlignUp(P[k].memsz) - P[k].memsz \in 0 .. 3
        BY <2>1, AlignUpFacts
  <2>3. dest.segments[k].vaddr = P[k].vaddr /\ dest.segments[k].memsz = IF k = segndx THEN InfoEnds ELSE P[k].memsz
        BY <1>1 DEF SegmentsOK
  <2> QED
      BY <2>1, <2>2, <2>3
<1>3. ~ Meets(P[m], P[n].vaddr, P[n].vaddr + AlignUp(P[n].memsz)) /\ ~ Meets(P[n], P[m].vaddr, P[m].vaddr + AlignUp(P[m].memsz))
      BY <1>1 DEF Apart
<1>4. \A k \in {m, n} \ {segndx} : ~ (P[k].vaddr >= Base /\ P[k].vaddr < Base + 4 * total_size)
      BY <1>1 DEF Blocked, Overlaps
<1>5. PICK T \in Nat : T = 4 * total_size
      BY TotalSizeFacts
<1>6. Base = P[segndx].vaddr + AlignUp(P[segndx].memsz) /\ InfoEnds = AlignUp(P[segndx].memsz) + T
      BY <1>1, <1>5, RegularFacts DEF Base, start_offset, segment, InfoEnds
<1>7. PICK a, b, va, vb : a = dest.segments[m] /\ b = dest.segments[n] /\ va = a.vaddr /\ vb = b.vaddr
      OBVIOUS
<1>8. CASE m = segndx
  <2>1. n # segndx
        BY <1>8
  <2>2. dest.segments[m].memsz = AlignUp(P[m].memsz) + T /\ dest.segments[n].memsz = P[n].memsz
        /\ ~ (P[n].vaddr >= P[m].vaddr + AlignUp(P[m].memsz) /\ P[n].vaddr < P[m].vaddr + AlignUp(P[m].memsz) + T)
        BY <1>2, <1>4, <1>5, <1>6, <1>8, <2>1
  <2> QED
      BY <1>2, <1>3, <1>5, <2>2 DEF Meets
<1>9. CASE n = segndx
  <2>1. m # segndx
        BY <1>9
  <2>2. dest.segments[n].memsz = AlignUp(P[n].memsz) + T /\ dest.segments[m].memsz = P[m].memsz
        /\ ~ (P[m].vaddr >= P[n].vaddr + AlignUp(P[n].memsz) /\ P[m].vaddr < P[n].vaddr + AlignUp(P[n].memsz) + T)
        BY <1>2, <1>4, <1>5, <1>6, <1>9, <2>1
  <2> QED
      BY <1>2, <1>3, <1>5, <2>2 DEF Meets
<1>10. CASE m # segndx /\ n # segndx
  <2>1. dest.segments[m].memsz = P[m].memsz /\ dest.segments[n].memsz = P[n].memsz
        BY <1>2, <1>10
  <2> QED
      BY <1>2, <1>3, <2>1 DEF Meets
<1> QED
    BY <1>8, <1>9, <1>10

\* What is carried by a segment is found there.
LEMMA CarriedHolds == ASSUME NEW g, NEW id, NEW at, Carried(dest, g, id, at) PROVE Holds(g, id, at)
BY DEF Carried, Holds, ToSet

\* The whole file loads.
LEMMA WholeLoads ==
  ASSUME Shape, SegmentsOK, InfoPlaced, stage \notin Short, ~ Blocked, Regular, EndsWithSection, LaidAt(dest, "update", 0)
  PROVE  FileLoads
<1>1. /\ dest.shoff \in Nat /\ HeadersEnd <= dest.shoff /\ Layout(dest.sections, HeadersEnd, dest.shoff)
      /\ \A n \in DOMAIN program.segments : dest.segments[n].memsz = IF n = segndx THEN InfoEnds ELSE program.segments[n].memsz
      /\ FileCarried(dest) /\ InfoCarried(dest, 9)
      BY DEF LaidAt
<1>2. PICK r \in DOMAIN dest.sections :
        /\ dest.sections[r].id = <<"rel", 0>> /\ dest.sections[r].offset = dest.segments[Len(dest.segments)].offset
        /\ InFile(dest.sections[r]) <= dest.segments[Len(dest.segments)].filesz
      BY DEF LaidAt
<1>3. \A m, n \in DOMAIN Ranges : m # n => ~ Overwritten(Ranges[m], Ranges[n])
      BY <1>1, FileApart
<1>4. \A n \in DOMAIN program.file.sections :
         LET s == program.file.sections[n]
         IN s.segment # 0 /\ InFile(s) # 0 => Holds(s.segment, <<"elf", n>>, s.offset - program.file.segments[s.segment].offset)
      BY <1>1, CarriedHolds DEF FileCarried
<1>5. dest.entry.segment + 1 = segndx /\ dest.entry.offset = EntryOffset
      /\ segndx \in DOMAIN program.segments /\ EntryOffset = AlignUp(program.segments[segndx].memsz)
  <2>1. segndx = First(EntrySegments) /\ segndx \in DOMAIN program.segments /\ EntryOffset = AlignUp(program.segments[segndx].memsz)
        BY RegularFacts
  <2>2. dest.entry = [segment |-> (segndx - 1) % 4, offset |-> EntryOffset]
        BY <2>1 DEF InfoPlaced
  <2>3. \A k \in 1 .. 4 : \A x \in 1 .. k : x \in 1 .. 4
        OBVIOUS
  <2>4. segndx \in 1 .. 4
        BY <2>1, <2>3, ProgramFacts
  <2>5. \A k \in 1 .. 4 : ((k - 1) % 4) + 1 = k
        OBVIOUS
  <2> QED
      BY <2>1, <2>2, <2>4, <2>5
<1>6. dest.segments[segndx].vaddr + EntryOffset = Base
      BY <1>5 DEF SegmentsOK, Base, start_offset, segment
<1>7. \A n \in DOMAIN Sections : sizes[Sections[n]] # 0 => Holds(segndx, <<"info", n>>, EntryOffset + OffsetIn(n))
  <2> SUFFICES ASSUME NEW n \in DOMAIN Sections, sizes[Sections[n]] # 0 PROVE Holds(segndx, <<"info", n>>, EntryOffset + OffsetIn(n))
      OBVIOUS
  <2>1. n \in 1 .. 9
        BY SectionFacts
  <2>2. Carried(dest, segndx, <<"info", n>>, EntryOffset + OffsetIn(n))
        BY <1>1, <2>1 DEF InfoCarried
  <2> QED
      BY <2>2, CarriedHolds
<1>8. Holds(Len(dest.segments), <<"rel", 0>>, 0)
  <2>1. PICK s : s = dest.sections[r]
        OBVIOUS
  <2>2. s \in ToSet(dest.sections)
        BY <1>2, <2>1 DEF ToSet
  <2>3. s.offset \in Nat /\ InFile(s) \in Nat
        BY <1>1, <1>2, <2>1, SectionFields DEF Layout
  <2>4. s.offset = dest.segments[Len(dest.segments)].offset + 0 /\ 0 + InFile(s) <= dest.segments[Len(dest.segments)].filesz
        BY <1>2, <2>1, <2>3
  <2> QED
      BY <1>2, <2>1, <2>2, <2>4 DEF Holds
<1>9. Apart => \A m, n \in DOMAIN program.segments :
        m # n => ~ Meets(dest.segments[m], dest.segments[n].vaddr, dest.segments[n].vaddr + dest.segments[n].memsz)
      BY <1>1, MemoryApart
<1> QED
    BY <1>3, <1>4, <1>5, <1>6, <1>7, <1>8, <1>9, Zenon DEF FileLoads

----------------------------------------------------------------------------
(* The invariant of all that is written.                                    *)

\* When the file is whole, it is laid out as it was updated.
LaidWhole == disk["velf"] = "elf" /\ Regular /\ EndsWithSection => LaidAt(dest, "update", 0)
\* The output is the ELF only when that is updated; it is begun only if there is room
\* for the module info.
ElfKept == (disk["velf"] = "elf" => stage \in Unpacked \cup {"rename", "fclose"} \cup Finished) /\ disk["tmp"] # "elf"
RoomFound == stage \in Filling \cup Writing => ~ Blocked
LaidOK == Laid /\ LaidWhole /\ ElfKept /\ RoomFound

\* Where the plan is the same, there is as much room.
LEMMA SameBlocked == ASSUME UNCHANGED <<elf, top, sizes>> PROVE Blocked' <=> Blocked
<1>1. program' = program /\ segndx' = segndx /\ total_size' = total_size
      BY SamePlan
<1>2. Base' = Base
      BY <1>1 DEF Base, segment, start_offset
<1> QED
    BY <1>1, <1>2 DEF Blocked, Overlaps

\* The same of the whole file.
LEMMA SameWhole ==
  ASSUME UNCHANGED <<elf, top, sizes>>, disk'["velf"] = "elf" /\ Regular /\ EndsWithSection => LaidAt(dest', "update", 0)
  PROVE  LaidWhole'
<1>1. SUFFICES ASSUME LaidAt(dest', "update", 0) PROVE LaidAt(dest, "update", 0)'
      BY SamePlan DEF LaidWhole
<1>2. InfoEnds' = InfoEnds
      BY SamePlan DEF InfoEnds
<1>3. FileCarried(dest)' <=> FileCarried(dest')
      BY SamePlan DEF FileCarried, Carried
<1>4. InfoCarried(dest, 9)' <=> InfoCarried(dest', 9)
      BY SamePlan DEF InfoCarried, Carried
<1> QED
    BY <1>1, <1>2, <1>3, <1>4, SamePlan DEF LaidAt

\* Until the encoding there is nothing of the file.
LEMMA CreateLaid ==
  ASSUME Shape, LaidOK, VitaElfCreate, UNCHANGED <<dest, disk>>
  PROVE  LaidOK'
<1>1. stage \notin Writing /\ stage' \notin Writing /\ i \in Nat
      BY CreateStages DEF Shape
<1>2. disk["velf"] # "elf" /\ Laid' /\ LaidWhole' /\ ElfKept'
      BY <1>1 DEF LaidOK, ElfKept, Laid, LaidWhole, Writing, Creating
<1>3. RoomFound'
  <2> SUFFICES ASSUME stage' \in Filling PROVE ~ Blocked'
      BY <1>1 DEF RoomFound
  <2>1. CASE Place
    <3>1. ~ Blocked
      <4> SUFFICES ASSUME Blocked PROVE FALSE
          OBVIOUS
      <4>1. stage' \in {"null", "crash"}
            BY <2>1 DEF Place, Blocked, To
      <4> QED
          BY <4>1 DEF Filling
    <3>2. UNCHANGED <<elf, top, sizes>>
          BY <2>1 DEF Place
    <3> QED
        BY <3>1, <3>2, SameBlocked
  <2>2. CASE EncodeInfo \/ EncodeExport \/ ExportsEncoded \/ EncodeImport \/ Encoded
    <3>1. stage \in Filling /\ UNCHANGED <<elf, top, sizes>>
          BY <2>2 DEF EncodeInfo, EncodeExport, ExportsEncoded, EncodeImport, Encoded, Filling
    <3> QED
        BY <3>1, SameBlocked DEF LaidOK, RoomFound
  <2>3. CASE Sized \/ load_stubs \/ Loaded \/ vita_elf_generate_exports \/ sce_elf_module_params_create
        BY <2>3 DEF Sized, load_stubs, Loaded, vita_elf_generate_exports, sce_elf_module_params_create, To, Again, Filling
  <2>4. CASE set_main_module_export \/ set_module_export \/ ExportsDone \/ InsertFunction \/ InsertVariable \/ ImportsDone
        BY <2>4 DEF set_main_module_export, set_module_export, ExportsDone, InsertFunction, InsertVariable, ImportsDone, To, Again, Filling
  <2> QED
      BY <2>1, <2>2, <2>3, <2>4 DEF VitaElfCreate
<1> QED
    BY <1>2, <1>3 DEF LaidOK

\* Where nothing of the file, nor what it is made from, changes.
LEMMA StoppedLaid ==
  ASSUME LaidOK, UNCHANGED <<dest, disk, stage, i, elf, top, sizes>>
  PROVE  LaidOK'
<1>1. Laid' /\ LaidWhole'
      BY SameLaid, SameWhole DEF LaidOK, Laid, LaidWhole
<1>2. RoomFound'
      BY SameBlocked DEF LaidOK, RoomFound
<1> QED
    BY <1>1, <1>2 DEF LaidOK, ElfKept

\* A step that writes, and what is done with the file then.
LEMMA WrittenLaid ==
  ASSUME Pipeline, DestOK, DestOK', DiskInv, LaidOK, Written \/ VitaMakeFself
  PROVE  LaidOK'
<1>1. Shape /\ i \in Nat /\ UNCHANGED <<elf, top, sizes>>
  <2>1. Shape /\ i \in Nat
        BY DEF Pipeline, Shape
  <2> QED
      BY <2>1, WrittenStages DEF Counters
<1>2. RoomFound'
  <2>1. stage' \in Filling \cup Writing => stage \in Filling \cup Writing
        BY <1>1, WrittenStages DEF Filling
  <2> QED
      BY <1>1, <2>1, SameBlocked DEF LaidOK, RoomFound
<1> USE DEF To, Again, Creating, Unpacked, Finished
<1>3. CASE elf_utils_copy_to_file
  <2>1. Laid'
        BY <1>1, <1>3, CopyLaid
  <2>2. stage \in {"encoded", "null"} /\ disk["velf"] # "elf" /\ disk["tmp"] # "elf"
        BY <1>3 DEF elf_utils_copy_to_file, LaidOK, ElfKept
  <2>3. disk' = disk \/ disk' = [disk EXCEPT !["velf"] = "partial"]
        BY <1>3 DEF elf_utils_copy_to_file
  <2>4. disk'["velf"] # "elf" /\ disk'["tmp"] # "elf"
        BY <2>2, <2>3 DEF DiskInv
  <2> QED
      BY <1>2, <2>1, <2>4 DEF LaidOK, LaidWhole, ElfKept
<1>4. ASSUME stage \in Creating, UNCHANGED disk, Laid' PROVE LaidOK'
  <2>1. disk'["velf"] # "elf" /\ disk'["tmp"] # "elf"
        BY <1>4 DEF LaidOK, ElfKept
  <2> QED
      BY <1>2, <1>4, <2>1 DEF LaidOK, LaidWhole, ElfKept
<1>5. CASE sce_elf_write_module_info
  <2>1. Laid'
        BY <1>1, <1>5, WriteInfoLaid DEF LaidOK
  <2> QED
      BY <1>4, <1>5, <2>1 DEF sce_elf_write_module_info
<1>6. CASE WriteSection
  <2>1. Laid'
        BY <1>1, <1>6, WriteSectionLaid DEF LaidOK
  <2> QED
      BY <1>4, <1>6, <2>1 DEF WriteSection
<1>7. CASE AddRelaSection
  <2>1. Laid'
        BY <1>1, <1>7, AddRelaLaid DEF LaidOK
  <2> QED
      BY <1>4, <1>7, <2>1 DEF AddRelaSection
<1>8. CASE sce_elf_write_rela_sections
  <2>1. Laid'
        BY <1>1, <1>8, WriteRelasLaid DEF LaidOK
  <2> QED
      BY <1>4, <1>8, <2>1 DEF sce_elf_write_rela_sections
<1>9. CASE sce_elf_rewrite_stubs
  <2>1. Laid'
        BY <1>1, <1>9, RewriteLaid DEF LaidOK
  <2> QED
      BY <1>4, <1>9, <2>1 DEF sce_elf_rewrite_stubs
<1>10. CASE elf_update
  <2>1. stage = "update" /\ dest' = dest /\ stage' \in {"pack", "done", "failure"}
        /\ \/ disk' = disk /\ stage' = "failure"
           \/ (\E left \in {"elf", "lost"} : disk' = [disk EXCEPT !["velf"] = left]) /\ stage' \in {"pack", "done"}
        BY <1>10, ZenonT(30) DEF elf_update, output_vars
  <2>2. Laid'
        BY <2>1 DEF Laid
  <2>3. Regular /\ EndsWithSection => LaidAt(dest, "update", 0)
        BY <2>1 DEF LaidOK, Laid, LaidAt
  <2>4. LaidWhole'
        BY <1>1, <2>1, <2>3, SameWhole
  <2>5. disk["velf"] # "elf" /\ disk["tmp"] # "elf"
        BY <2>1 DEF LaidOK, ElfKept
  <2>6. ElfKept'
        BY <2>1, <2>5 DEF ElfKept, DiskInv
  <2> QED
      BY <1>2, <2>2, <2>4, <2>6 DEF LaidOK
\* From here on the headers stay, and the ELF is not there again.
<1>11. ASSUME stage' \notin Creating, dest' = dest, disk'["velf"] = "elf" => disk["velf"] = "elf" /\ stage' \in Unpacked \cup {"rename", "fclose"} \cup Finished,
              disk'["tmp"] # "elf"
       PROVE  LaidOK'
  <2>1. Laid'
        BY <1>11 DEF Laid
  <2>2. LaidWhole'
        BY <1>1, <1>11, SameWhole DEF LaidOK, LaidWhole
  <2> QED
      BY <1>2, <1>11, <2>1, <2>2 DEF LaidOK, ElfKept
<1>12. CASE vita_elf_packing \/ PackSegment \/ PackHeaders \/ PackingFails
  <2>1. dest' = dest /\ stage' \in {"pack_segments", "remove", "done"}
        BY <1>12 DEF vita_elf_packing, PackSegment, PackHeaders, PackingFails, output_vars
  <2>2. disk' = disk \/ disk' = [disk EXCEPT !["tmp"] = IF disk["velf"] = "lost" THEN "lost" ELSE "partial"]
        BY <1>12 DEF vita_elf_packing, PackSegment, PackHeaders, PackingFails, output_vars, Temporary
  <2>3. (disk'["velf"] = "elf" => disk["velf"] = "elf") /\ disk'["tmp"] # "elf"
        BY <2>2 DEF DiskInv, LaidOK, ElfKept
  <2> QED
      BY <1>11, <2>1, <2>3
<1>13. CASE remove \/ rename \/ fclose
  <2>1. dest' = dest /\ stage' \in {"rename", "fclose", "done"}
        BY <1>13 DEF remove, rename, fclose
  <2>2. \/ disk' = disk \/ disk' = [disk EXCEPT !["velf"] = "none"]
        \/ disk' = [disk EXCEPT !["velf"] = disk["tmp"], !["tmp"] = "none"]
        \/ \E name \in {"velf", "tmp"} : \E left \in {"packed", "lost"} : disk' = [disk EXCEPT ![name] = left]
        BY <1>13 DEF remove, rename, fclose, Temporary
  <2>3. (disk'["velf"] = "elf" => disk["velf"] = "elf") /\ disk'["tmp"] # "elf"
        BY <2>2 DEF DiskInv, LaidOK, ElfKept
  <2> QED
      BY <1>11, <2>1, <2>3
<1>14. CASE VitaMakeFself
  <2>1. ReadInput \/ ReadLost \/ WriteHeaders \/ WriteSegment \/ WriteHeader
        BY <1>14 DEF VitaMakeFself
  <2>2. dest' = dest /\ stage' \in Finished
    <3>1. CASE ReadInput
          BY <3>1 DEF ReadInput, Error, output_vars
    <3>2. CASE WriteHeaders
          BY <3>2 DEF WriteHeaders, Error, output_vars
    <3>3. CASE WriteSegment
      <4>1. Again \/ Error
        <5> HIDE DEF Again
        <5> QED
            BY <3>3, Zenon DEF WriteSegment
      <4>2. stage \in Finished /\ dest' = dest
            BY <3>3 DEF WriteSegment, output_vars
      <4> QED
          BY <4>1, <4>2 DEF Error
    <3>4. CASE WriteHeader
          BY <3>4 DEF WriteHeader, Error, output_vars
    <3>5. CASE ReadLost
          BY <3>5 DEF ReadLost
    <3> QED
        BY <2>1, <3>1, <3>2, <3>3, <3>4, <3>5
  <2>3. disk' = disk \/ \E x : disk' = [disk EXCEPT !["self"] = x]
        BY <2>1 DEF ReadInput, ReadLost, WriteHeaders, WriteSegment, WriteHeader, output_vars
  <2>4. (disk'["velf"] = "elf" => disk["velf"] = "elf") /\ disk'["tmp"] # "elf"
        BY <2>3 DEF DiskInv, LaidOK, ElfKept
  <2> QED
      BY <1>11, <2>2, <2>4
<1> QED
    BY <1>3, <1>5, <1>6, <1>7, <1>8, <1>9, <1>10, <1>12, <1>13, <1>14 DEF Written

\* Every step of all the programs keeps it.
LEMMA NextLaid ==
  ASSUME Pipeline, DestOK, DestOK', DiskInv, LaidOK, [ImportsNext]_allvars
  PROVE  LaidOK'
<1>1. CASE Generate \/ (Terminated /\ UNCHANGED allvars) \/ UNCHANGED allvars
  <2>1. UNCHANGED <<dest, disk, stage, i, elf, top, sizes>>
        BY <1>1 DEF Generate, allvars, state, fself_vars, output_vars
  <2> QED
      BY <2>1, StoppedLaid
<1>2. CASE Link
  <2>1. UNCHANGED <<dest, disk>> /\ stage = "link" /\ stage' = "load"
        BY <1>2 DEF Link, fself_vars, output_vars
  <2>2. disk["velf"] # "elf" /\ disk["tmp"] # "elf"
        BY <2>1 DEF LaidOK, ElfKept, Unpacked, Finished
  <2> QED
      BY <2>1, <2>2 DEF LaidOK, Laid, LaidWhole, ElfKept, RoomFound, Creating, Filling, Writing, Unpacked, Finished
<1>3. CASE VitaElfCreate /\ UNCHANGED fself_vars
  <2>1. UNCHANGED <<dest, disk>>
        BY <1>3 DEF fself_vars, output_vars
  <2> QED
      BY <1>3, <2>1, CreateLaid DEF Pipeline
<1>4. CASE Written \/ VitaMakeFself
      BY <1>4, WrittenLaid
<1>5. CASE Create
      BY <1>3, <1>4, <1>5 DEF Create
<1> QED
    BY <1>1, <1>2, <1>5 DEF ImportsNext

\* What the system loads from the ELF that is written is what was linked, the module info
\* and the relocations, if the segment the info is put in has the entry point,
\* is whole in the file and ends with a section, and nothing starts in its padding; nothing
\* in the file is written over, nor do segments meet in memory (elf-utils.c:136-257,
\* sce-elf.c:1083-1140, 1297-1311).
THEOREM FileLoadsAlways == ImportsSpec => []FileLoads
<1> DEFINE Inv == Pipeline /\ DestOK /\ DiskInv /\ LaidOK
<1>1. ImportsInit => Inv
  <2> SUFFICES ASSUME ImportsInit PROVE Inv
      OBVIOUS
  <2>1. DestOK
        BY DEF ImportsInit, InitWith, DestOK, Writing, Creating, Unpacked, Finished
  <2>2. stage = "link" /\ disk["velf"] = "none" /\ disk["tmp"] = "none"
        BY DEF ImportsInit, InitWith, OutputInit
  <2>3. LaidOK
        BY <2>2 DEF LaidOK, Laid, LaidWhole, ElfKept, RoomFound, Creating, Filling, Writing, Unpacked, Finished
  <2> QED
      BY <2>1, <2>3, InitPipeline, InitDisk
<1>2. Inv /\ [ImportsNext]_allvars => Inv'
  <2> SUFFICES ASSUME Inv, [ImportsNext]_allvars PROVE Inv'
      OBVIOUS
  <2>1. Pipeline' /\ DestOK' /\ DiskInv'
        BY NextPipeline, NextDest, NextDisk
  <2> QED
      BY <2>1, NextLaid
<1>3. Inv => FileLoads
  <2> SUFFICES ASSUME Inv, disk["velf"] = "elf", Regular, EndsWithSection PROVE FileLoads
      BY DEF FileLoads
  <2>1. stage \in Unpacked \cup {"rename", "fclose"} \cup Finished /\ ~ Blocked /\ LaidAt(dest, "update", 0)
        BY DEF LaidOK, ElfKept, RoomFound, LaidWhole, Writing
  <2>2. SegmentsOK /\ InfoPlaced /\ stage \notin Short
        BY <2>1 DEF DestOK, Writing, Unpacked, Finished, Short
  <2> QED
      BY <2>1, <2>2, WholeLoads DEF Pipeline
<1> QED
    BY <1>1, <1>2, <1>3, PTL DEF ImportsSpec

============================================================================
