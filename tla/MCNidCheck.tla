----------------------------- MODULE MCNidCheck -----------------------------
(***************************************************************************)
(* Small directories for NidCheck: one or two files of one library each,   *)
(* with its privilege before or after the entries, and a few directories   *)
(* that are out of order in other ways.                                    *)
(***************************************************************************)
EXTENDS NidCheck

Key(k, v) == <<[key |-> k, value |-> v]>>

Entry1 == {Key(t, n) : t \in EntryTypes, n \in 1 .. 2}
Entries2 == {<<>>} \cup Entry1 \cup {d \o e : d, e \in Entry1}
Privilege(S) == {<<>>} \cup {Key("kernel", p) : p \in S}

File(m, l, before, entries, after) ==
  Key("firmware", 0) \o Key("module", m) \o Key("library", l)
    \o before \o entries \o Key("nid", 0) \o after

\* The first file has the first library of the first module.
FirstFiles ==
  {File(1, 1, b, es, a) : b \in Privilege({USER, KERNEL}), es \in Entries2, a \in Privilege({USER})}

\* The second has the same library, another of that module, or one of the same
\* name in another module.
SecondFiles ==
  {File(l[1], l[2], b, es, a) :
     l \in {<<1, 1>>, <<1, 2>>, <<2, 1>>},
     b \in Privilege({USER, KERNEL}),
     es \in {Key("function", 1), Key("variable", 1), Key("function", 2), Key("function", 1) \o Key("function", 2)},
     a \in Privilege({USER})}

Directory(files, bypass_list) == [files |-> files, bypass |-> bypass_list, bypass_opens |-> TRUE]

TwoFiles ==
  {Directory(<<f, g>>, b) : f \in FirstFiles, g \in SecondFiles, b \in {<<>>, <<<<1, 1>>>>}}

SomeFile == File(1, 1, <<>>, Key("function", 1), <<>>)

\* Two libraries in turn: the entries they have in common are compared before
\* their privileges are known.
Interleaved ==
  Key("firmware", 0) \o Key("module", 1)
    \o Key("library", 1) \o Key("function", 1) \o Key("library", 2) \o Key("function", 1)
    \o Key("library", 1) \o Key("kernel", USER) \o Key("library", 2) \o Key("kernel", KERNEL)

\* No file; a bypass list that cannot be opened, and one with a bad item; an
\* empty name; an error in a file; no firmware, or one too late; an empty file;
\* two libraries in turn.
Special ==
  {Directory(<<>>, <<>>),
   [files |-> <<SomeFile>>, bypass |-> <<>>, bypass_opens |-> FALSE],
   Directory(<<SomeFile>>, <<<<1, 1>>, NULL, <<1, 2>>>>),
   Directory(<<File(1, 1, <<>>, Key("function", 0), <<>>)>>, <<>>),
   Directory(<<File(1, 1, <<>>, Key("variable", 0), <<>>)>>, <<>>),
   Directory(<<SomeFile, File(1, 2, <<>>, Key("error", 0), <<>>)>>, <<>>),
   Directory(<<SomeFile, Tail(File(1, 2, <<>>, Key("function", 2), <<>>))>>, <<>>),
   Directory(<<Tail(SomeFile) \o Key("firmware", 0)>>, <<>>),
   Directory(<<<<>>>>, <<>>),
   Directory(<<Interleaved>>, <<>>)}

MCDirs == TwoFiles \cup Special
=============================================================================
