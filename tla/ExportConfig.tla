---------------------------- MODULE ExportConfig ----------------------------
(***************************************************************************)
(* A configuration file on its way from libyaml's events to a              *)
(* vita_export_t: vita_exports_loads() has parse_yaml_stream() (YamlTree)  *)
(* build a tree, which the handlers of ExportParse walk.  ExportParse      *)
(* takes the keys of the document as given and whether it parses for       *)
(* granted; here both come from the stream.                                *)
(***************************************************************************)
EXTENDS ExportParse, SequencesExt

CONSTANTS Streams,  \* the streams considered
          Inputs    \* pairs of a configuration and a stream (see InputOK)

VARIABLES events, pos, stack, docs, problem, result  \* see YamlTree

parser == <<events, pos, stack, docs, problem, result>>

Y == INSTANCE YamlTree

----------------------------------------------------------------------------
(* The walk of the tree: which handler is called with what, in what order.  *)

\* The scalars that are words: one number each, in the place of its text.
Words == <<"attributes", "process_image", "imagemodule", "version", "nid", "main", "libraries", "modules",
           "start", "bootstart", "stop", "exit", "major", "minor", "syscall", "functions", "variables">>
FirstWord == 1000
WordOf(node) ==
  IF node.value - FirstWord + 1 \in DOMAIN Words THEN Words[node.value - FirstWord + 1] ELSE "unknown"

\* yaml_iterate_mapping(), yaml_iterate_sequence(): of other nodes, an error.
ErrorKey == <<[key |-> "error", value |-> 0, nid |-> NULL]>>
iterate_mapping(node, functor(_, _)) ==
  IF node.type # "mapping" THEN ErrorKey
  ELSE FlattenSeq([i \in 1 .. Len(node.nodes) \div 2 |->
         IF node.nodes[2 * i - 1].type # "scalar" THEN ErrorKey
         ELSE functor(node.nodes[2 * i - 1], node.nodes[2 * i])])
iterate_sequence(node, functor(_)) ==
  IF node.type # "sequence" THEN ErrorKey
  ELSE FlattenSeq([i \in DOMAIN node.nodes |-> functor(node.nodes[i])])

Scalar(key, node) ==
  IF node.type = "scalar" THEN <<[key |-> key, value |-> node.value, nid |-> NULL]>> ELSE ErrorKey

\* A symbol is a name, or a mapping of one name to its NID.
Symbol(key, node) ==
  IF node.type = "mapping" /\ [i \in DOMAIN node.nodes |-> node.nodes[i].type] = <<"scalar", "scalar">>
  THEN <<[key |-> key, value |-> node.nodes[1].value, nid |-> <<node.nodes[2].value>>]>>
  ELSE Scalar(key, node)

process_export(lhs, rhs) ==
  LET word == WordOf(lhs)
  IN CASE word \in {"syscall", "version"} -> Scalar(word, rhs)
       [] word = "nid" -> Scalar("libnid", rhs)
       [] word = "functions" -> iterate_sequence(rhs, LAMBDA n : Symbol("function", n))
       [] word = "variables" -> iterate_sequence(rhs, LAMBDA n : Symbol("variable", n))
       [] OTHER -> ErrorKey

Library(lhs, rhs) ==
  Scalar("library", lhs) \o iterate_mapping(rhs, process_export)
    \o <<[key |-> "end", value |-> 0, nid |-> NULL]>>

process_module_info(lhs, rhs) ==
  LET word == WordOf(lhs)
  IN CASE word \in {"attributes", "nid"} \cup Flags -> Scalar(word, rhs)
       [] word = "version" -> iterate_mapping(rhs, LAMBDA l, r :
            IF WordOf(l) \in {"major", "minor"} THEN Scalar(WordOf(l), r) ELSE ErrorKey)
       [] word = "main" -> iterate_mapping(rhs, LAMBDA l, r :
            IF WordOf(l) \in EntryPoints THEN Scalar(WordOf(l), r) ELSE ErrorKey)
       [] word \in {"libraries", "modules"} -> iterate_mapping(rhs, Library)
       [] OTHER -> ErrorKey

\* The shape of the root, as read_module_exports() checks it.
LongName == FirstWord - 1
RootOf(doc) ==
  IF doc.type # "mapping" THEN "shape"
  ELSE IF Len(doc.nodes) # 2 THEN "shape"
  ELSE IF doc.nodes[1].type # "scalar" THEN "name"
  ELSE IF doc.nodes[1].value = LongName THEN "name"
  ELSE "good"

KeysOf(doc) == iterate_mapping(doc.nodes[2], process_module_info)

----------------------------------------------------------------------------
(* The two together.                                                        *)

\* What ExportParse assumes of the stream is whether it can be read; the keys are
\* those of a stream that can.
InputOK(i) ==
  /\ ConfigOK(i.config)
  /\ Y!StreamOK(i.stream)
  /\ i.config.given /\ i.config.opens => (i.config.parses <=> Y!ReadableStream(i.stream))

ASSUME InputsAssumption == \A i \in Inputs : InputOK(i)

FileInit == \E i \in Inputs :
  /\ config = i.config /\ Init
  /\ events = i.stream /\ Y!Init

Parsing == config.given /\ config.opens /\ pc = "load" /\ result = "none"

\* parse_yaml_stream(), called by vita_exports_loads() before it looks at the ELF.
ParserStep ==
  /\ Parsing
  /\ Y!Next
  /\ UNCHANGED vars

\* vita_exports_loads() goes on when the parser has returned.
HandlerStep ==
  /\ ~ Parsing
  /\ Next
  /\ UNCHANGED parser

FileNext == ParserStep \/ HandlerStep

\* One thread that runs on.
FileSpec == FileInit /\ [][FileNext]_<<vars, parser>> /\ WF_<<vars, parser>>(FileNext)

----------------------------------------------------------------------------
(* Properties: those of ExportParse and YamlTree, and what ties them.       *)

\* Every variable has its type, the parser's as well.
TypesOK == TypeOK /\ Y!TypeOK

\* The handlers see the document that is in the file.  What the parser has taken is
\* in the tree, in order and once, whatever its lookahead; a tree is its whole
\* stream; and it has the keys of the configuration, in their order, and the shape
\* of its root (yamltree.c:139-367, vita-export-parse.c:615-643).
DocumentRead ==
  /\ Y!TreeIsInput /\ Y!TreeIsStream
  /\ result # "none" => (config.parses <=> result = "tree")
  /\ result = "tree" =>
       /\ RootOf(docs[1]) = config.root
       /\ config.root = "good" => KeysOf(docs[1]) = config.keys

\* There is no tree only if the stream cannot be read, and then a message to print
\* and free, on each of the paths an error takes (yamltree.c:123-170, 320-367).
NullForCause == Y!ReadableIsRead /\ Y!NullHasProblem

\* Whatever the stream and the configuration, loading ends.
Termination == <>(pc \in {"failed", "freed"})
=============================================================================
