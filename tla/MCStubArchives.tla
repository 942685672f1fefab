--------------------------- MODULE MCStubArchives ---------------------------
(* Small instances of StubArchives.                                         *)
EXTENDS StubArchives

K(key, name, value) == [key |-> key, name |-> name, value |-> value]

\* 3.60, 3.60 with a patch level, 3.65, 1.692, 0.990, none; and one unreadable.
Firmwares == {56623104, 56623121, 56950784, 23666688, 10027008, 0, BAD}

\* A library, with its stub name and privilege before or after its entries.
Lib(name, stubname, privilege, late, entry) ==
  LET attrs == (IF stubname = NoName THEN <<>> ELSE <<K("stubname", stubname, 0)>>) \o
               (IF privilege = NONE THEN <<>> ELSE <<K("kernel", <<>>, privilege)>>)
      entries == <<K("nid", <<>>, 7), K("function", entry, 0), K("version", <<>>, 2), K("variable", <<9>> \o entry, 0)>>
  IN <<K("library", name, 0)>> \o (IF late THEN entries \o attrs ELSE attrs \o entries)

File(fw, module, body) ==
  (IF fw = 0 THEN <<>> ELSE <<K("firmware", <<>>, fw)>>) \o <<K("module", module, 0)>> \o body

\* The names are such that joining them can give one name twice.
Bodies ==
  {Lib(n, s, p, l, <<5>>) : n \in {<<1>>, <<2>>}, s \in {NoName, <<3>>}, p \in {NONE, KERNEL}, l \in BOOLEAN}
Empty == <<K("library", <<1>>, 0)>>
Partners == {Empty, Lib(<<4>>, NoName, USER, FALSE, <<7>>), Lib(<<1>>, NoName, USER, FALSE, <<6>>), Lib(<<2>>, NoName, KERNEL, TRUE, <<5>>), Lib(<<1>>, <<3>>, NONE, TRUE, <<2, 5>>)}

Input(files, ignore) == [files |-> files, ignore_stubname |-> ignore, cmake |-> ignore]

PairInputs ==
  {Input(<<File(fw, <<1>>, b), File(56950784, m, p)>>, i) :
     fw \in {56950784, 0}, b \in Bodies, m \in {<<1>>, <<1, 1>>}, p \in Partners, i \in BOOLEAN} \cup
  {Input(<<File(f, <<1>>, p), File(g, <<1>>, q)>>, FALSE) : f, g \in Firmwares, p, q \in Partners} \cup
  {Input(<<File(56950784, <<1>>, p \o e), File(56950784, <<2>>, q)>>, FALSE) :
     p, q \in Partners, e \in {<<K("error", <<>>, 0)>>, <<K("error", <<>>, 0)>> \o Lib(<<4>>, NoName, NONE, TRUE, <<6>>)}} \cup
  {[files |-> <<File(56950784, <<1>>, b), File(fw, <<2>>, q)>>, ignore_stubname |-> FALSE, cmake |-> c] :
     fw \in {0, 56950784}, b \in Bodies, q \in Partners, c \in BOOLEAN}

----------------------------------------------------------------------------
(* Directories.                                                             *)

CONSTANT MaxNodes

Parents(n) == {p \in [1 .. n -> 0 .. n - 1] : p[1] = 0 /\ \A i \in 2 .. n : p[i] \in 1 .. i - 1}
Tree(p, k) == [parent |-> p, kind |-> k]

Directories == {"dir", "locked"}
AllTrees(n) ==
  {t \in {Tree(p, k) : p \in Parents(n), k \in [1 .. n -> Directories \cup {"file", "gone"}]} :
     \A i \in 2 .. n : t.kind[t.parent[i]] \in Directories}
\* Without failures, and with files wherever they can be.
PlainTrees(n) ==
  {Tree(p, [i \in 1 .. n |-> IF i = 1 \/ \E j \in 1 .. n : p[j] = i THEN "dir" ELSE "file"]) : p \in Parents(n)}

Flat == Tree(<<0, 1, 1>>, <<"dir", "file", "file">>)

\* A file of its own module; all of one firmware.
SmallFile(i, bad) ==
  File(56950784, <<i>>, (IF bad THEN <<K("error", <<>>, 0)>> ELSE <<>>) \o Lib(<<i>>, NoName, NONE, FALSE, <<i>>))
SmallInput(n, bad) == Input([i \in 1 .. n |-> SmallFile(i, i = bad)], FALSE)

MCCases ==
  {[tree |-> Flat, input |-> i] : i \in PairInputs} \cup
  UNION {{[tree |-> t, input |-> SmallInput(Cardinality(Files(t)), b)] : b \in 0 .. Cardinality(Files(t))} :
           t \in UNION {AllTrees(n) : n \in 1 .. MaxNodes - 1} \cup PlainTrees(MaxNodes)}

MCTrees == {c.tree : c \in MCCases}
MCInputs == {c.input : c \in MCCases}
=============================================================================
