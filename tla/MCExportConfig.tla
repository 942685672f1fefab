--------------------------- MODULE MCExportConfig ---------------------------
(* Small instances of ExportConfig.                                         *)
EXTENDS ExportConfig

----------------------------------------------------------------------------
(* Configurations.                                                          *)

K(key, value) == [key |-> key, value |-> value, nid |-> NULL]
Sym(key, name, nid) == [key |-> key, value |-> name, nid |-> nid]

\* The sequences of at most n elements of S.
UpTo(S, n) == UNION {[1 .. k -> S] : k \in 0 .. n}

\* The keys of a library, in every order, some twice, and a bad one; numbers
\* below, at and beyond the limits.
LibKeys ==
  {K("version", n) : n \in {0, 1, 2, SHORT, WORD + 2}} \cup
  {K("syscall", 0), K("syscall", 1), K("libnid", WORD + 1),
   Sym("function", 7, NULL), Sym("variable", 7, NULL), Sym("function", 8, <<3>>), K("error", 0)}

LibraryKeysOf(name, body) == <<K("library", name)>> \o body \o <<K("end", 0)>>

ModKeys ==
  {K("attributes", n) : n \in {1, SHORT - 1, SHORT, WORD}} \cup
  {K("major", n) : n \in {1, BYTE}} \cup
  {K("minor", 1), K("nid", 1), K("process_image", 1), K("imagemodule", 0),
   K("start", 1), K("bootstart", 1), K("stop", 1), K("exit", 1), K("error", 0)}

More == LibraryKeysOf(2, <<K("version", 3), Sym("function", 7, NULL), Sym("variable", 9, <<2>>)>>)

Config(keys, root) ==
  [given |-> TRUE, opens |-> TRUE, parses |-> TRUE, root |-> root, hashes |-> TRUE, keys |-> keys]

----------------------------------------------------------------------------
(* Streams.                                                                 *)

Ev(type, value) == [type |-> type, value |-> value]
T(type) == <<Ev(type, 0)>>
Sc(value) == <<Ev("scalar", value)>>
Wd(word) == Sc(FirstWord - 1 + CHOOSE i \in DOMAIN Words : Words[i] = word)
Map(s) == T("mapping start") \o s \o T("mapping end")
Sq(s) == T("sequence start") \o s \o T("sequence end")
Doc(node) == T("document start") \o node \o T("document end")
Stream(s) == T("stream start") \o s \o T("stream end")

SymEvents(k) == IF k.nid = NULL THEN Sc(k.value) ELSE Map(Sc(k.value) \o Sc(k.nid[1]))

KeyEvents(k) ==
  CASE k.key \in {"attributes", "nid", "syscall", "version"} \cup Flags -> Wd(k.key) \o Sc(k.value)
    [] k.key \in {"major", "minor"} -> Wd("version") \o Map(Wd(k.key) \o Sc(k.value))
    [] k.key \in EntryPoints -> Wd("main") \o Map(Wd(k.key) \o Sc(k.value))
    [] k.key = "libnid" -> Wd("nid") \o Sc(k.value)
    [] k.key = "function" -> Wd("functions") \o Sq(SymEvents(k))
    [] k.key = "variable" -> Wd("variables") \o Sq(SymEvents(k))
    [] k.key = "library" -> Wd("libraries") \o T("mapping start") \o Sc(k.value) \o T("mapping start")
    [] k.key = "end" -> T("mapping end") \o T("mapping end")
    [] k.key = "error" -> Wd("nid") \o Sq(Sc(1))

Module(keys) == Map(FlattenSeq([i \in DOMAIN keys |-> KeyEvents(keys[i])]))
Root(c) ==
  CASE c.root = "good" -> Map(Sc(1) \o Module(c.keys))
    [] c.root = "shape" -> Map(Sc(1) \o Module(c.keys) \o Sc(2) \o Sc(1))
    [] c.root = "name" -> Map(Sc(LongName) \o Module(c.keys))
Written(c) == [config |-> c, stream |-> Stream(Doc(Root(c)))]

Sequences(S, n) == {Sq(FlattenSeq(s)) : s \in UpTo(S, n)}
Mappings(S, n) == {Map(FlattenSeq(s)) : s \in UNION {[1 .. 2 * k -> S] : k \in 0 .. n}}

\* Nodes of depth 0, 1 and 2, for the value of a key that wants a number.
Leaves == {Sc(1), Sc(2), T("alias")}
Inner == {Sc(1)} \cup Sequences({Sc(2), T("alias")}, 2) \cup Mappings({Sc(3)}, 1)
Values == Leaves \cup Sequences(Inner, 2) \cup Mappings(Inner, 1) \cup Mappings(Leaves, 2)
                 \cup Sequences(Mappings(Sequences({Sc(1)}, 1), 1), 2)
Valued(v) ==
  LET s == Stream(Doc(Map(Sc(1) \o Map(Wd("nid") \o v))))
      keys == IF Len(v) = 1 THEN <<K("nid", v[1].value)>> ELSE <<K("error", 0)>>
  IN [config |-> [Config(keys, "good") EXCEPT !.parses = \A i \in DOMAIN v : v[i].type # "alias"], stream |-> s]

Unreadable(s) == [config |-> [Config(<<>>, "good") EXCEPT !.parses = FALSE], stream |-> s]

\* libyaml may fail at any event, the first included.
Failing(s) == {Unreadable(SubSeq(s, 1, k) \o T("error")) : k \in 0 .. Len(s) - 1}

----------------------------------------------------------------------------

ValueInputs == {Valued(v) : v \in Values}
Lib1 == LibraryKeysOf(1, <<Sym("variable", 7, NULL)>>)

MCInputs ==
  {Written(Config(LibraryKeysOf(1, b) \o More, "good")) : b \in UpTo(LibKeys, 2)} \cup
  {Written(Config(LibraryKeysOf(1, b), "good")) : b \in [1 .. 3 -> LibKeys]} \cup
  {Written(Config(<<a>> \o Lib1 \o <<b>>, "good")) : a, b \in ModKeys} \cup
  {Written([Config(IF g THEN Lib1 ELSE <<>>, r) EXCEPT !.given = g, !.opens = o, !.hashes = h]) :
     g, o, h \in BOOLEAN, r \in {"good", "shape", "name"}} \cup
  ValueInputs \cup UNION {Failing(i.stream) : i \in ValueInputs \cup {Written(Config(More, "good"))}} \cup
  {[config |-> Config(<<>>, "shape"), stream |-> Stream(Doc(n))] : n \in {Sc(1), Sc(2)} \cup Sequences({Sc(1)}, 1)} \cup
  {Unreadable(Stream(d)) : d \in {<<>>} \cup {Doc(n) \o Doc(n) : n \in Leaves \cup Inner}}

MCConfigs == {i.config : i \in MCInputs}
MCStreams == {i.stream : i \in MCInputs}
=============================================================================
