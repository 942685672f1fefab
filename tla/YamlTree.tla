------------------------------ MODULE YamlTree ------------------------------
(***************************************************************************)
(* parse_yaml_stream() (utils/yamltree.c): a recursive parser of libyaml's *)
(* events with one event of lookahead builds the tree every configuration  *)
(* and database is read from.                                              *)
(*                                                                         *)
(* libyaml is what the code relies on: its events follow the grammar, up   *)
(* to an error.  The calls under way are a stack of frames, each with the  *)
(* nodes it has collected.                                                 *)
(***************************************************************************)
EXTENDS Naturals, Sequences, SequencesExt

CONSTANT Streams   \* the sequences of events considered

VARIABLES events,  \* the input; never changes
          pos,     \* ctx->next_event is the event of this number
          stack,   \* process_document(), process_sequence() and process_mapping() under way
          docs,    \* stream->docs
          problem, \* ctx->error->problem is set
          result   \* what parse_yaml_stream() returned

vars == <<events, pos, stack, docs, problem, result>>

Openers == {"sequence start", "mapping start"}
EventTypes == {"stream start", "document start", "scalar", "alias", "sequence end", "mapping end",
               "document end", "stream end"} \cup Openers

\* An event; only scalars have a value.  "error" is a failure of libyaml, after
\* which, as after the end of the stream, there is no event.
Event == [type : EventTypes \cup {"error"}, value : Nat]
NO_EVENT == [type |-> "none", value |-> 0]

StreamOK(s) ==
  /\ s \in Seq(Event) /\ s # <<>>
  /\ \A i \in DOMAIN s : s[i].type \in {"error", "stream end"} <=> i = Len(s)

Init ==
  /\ events \in Streams
  /\ pos = 0
  /\ stack = <<>>
  /\ docs = <<>>
  /\ problem = FALSE
  /\ result = "none"

EventAt(p) == IF p \in DOMAIN events THEN events[p] ELSE NO_EVENT
peek_next_event == EventAt(pos).type

\* process_event() takes the lookahead and asks libyaml for the one after it: it
\* fails when that does, whatever it has just taken.
Fails == EventAt(pos + 1).type = "error"

Node(type, value, nodes) == [type |-> type, value |-> value, nodes |-> nodes]

----------------------------------------------------------------------------
(* Frames.                                                                  *)

Running == result = "none" /\ pos > 0
Top == stack[Len(stack)]
At(types) == Running /\ stack # <<>> /\ Top.type \in types

\* The calls return NULL one after the other, down to parse_yaml_stream().
Fail(set) == problem' = (problem \/ set) /\ result' = "null" /\ UNCHANGED <<stack, docs>>

Push(type) == stack' = Append(stack, Node(type, 0, <<>>))
GoOn == UNCHANGED <<problem, result, docs>>

\* Mutant: a node is put in front of its siblings.
Add_Front(s, node) == [s EXCEPT ![Len(s)].nodes = <<node>> \o @]

\* The node becomes the last child of the innermost frame.
Add(s, node) == [s EXCEPT ![Len(s)].nodes = Append(@, node)]

\* parse_yaml_stream() up to its loop: the first event is only looked at.
Start ==
  /\ pos = 0 /\ result = "none"
  /\ pos' = 1
  /\ IF EventAt(1).type = "stream start"
     THEN UNCHANGED <<stack, problem, result, docs>>
     ELSE Fail(TRUE)
  /\ UNCHANGED events

\* Mutant: the loop does not end.
StreamEnds_Never == FALSE

StreamEnds == peek_next_event = "stream end"

\* The loop of parse_yaml_stream(): the event it takes is that of the stream's
\* start before the first document, and the one that follows a document later.
Loop ==
  /\ Running /\ stack = <<>>
  /\ pos' = pos + 1
  /\ IF Fails THEN Fail(TRUE)
     ELSE IF StreamEnds
     THEN result' = "tree" /\ UNCHANGED <<stack, docs, problem>>
     ELSE Push("document start") /\ GoOn
  /\ UNCHANGED events

\* process_document(): an unexpected event sets an error.
document_start ==
  /\ At({"document start"})
  /\ pos' = pos + 1
  /\ IF Fails \/ peek_next_event # "document start"
     THEN Fail(TRUE)
     ELSE stack' = [stack EXCEPT ![Len(stack)].type = "document"] /\ GoOn
  /\ UNCHANGED events

\* Mutant: a sequence has at most one element.
WantsNode_One ==
  \/ At({"document"}) /\ Top.nodes = <<>>
  \/ At({"sequence"}) /\ Top.nodes = <<>> /\ peek_next_event # "sequence end"
  \/ At({"mapping"}) /\ (Len(Top.nodes) % 2 = 1 \/ peek_next_event # "mapping end")

\* The innermost call is about to call process_node(): the loop of a mapping looks
\* for the end before a key only.
WantsNode ==
  \/ At({"document"}) /\ Top.nodes = <<>>
  \/ At({"sequence"}) /\ peek_next_event # "sequence end"
  \/ At({"mapping"}) /\ (Len(Top.nodes) % 2 = 1 \/ peek_next_event # "mapping end")

\* Mutants: a call of process_node() that fails sets no error; it is repeated.
NodeFails_Silently == pos' = pos + 1 /\ Fail(FALSE)
NodeFails_Repeated == UNCHANGED <<pos, stack, docs, problem, result>>

\* libyaml's error in the lookahead, or an alias.
NodeFails == pos' = pos + 1 /\ Fail(TRUE)

process_node ==
  /\ WantsNode
  /\ LET type == peek_next_event
     IN IF Fails \/ type = "alias" THEN NodeFails
        ELSE /\ pos' = pos + 1
             /\ CASE type = "scalar" -> stack' = Add(stack, Node("scalar", EventAt(pos).value, <<>>)) /\ GoOn
                  [] type = "sequence start" -> Push("sequence") /\ GoOn
                  [] type = "mapping start" -> Push("mapping") /\ GoOn
                  [] OTHER -> Fail(FALSE)   \* no node begins here: NULL, and no error of its own
  /\ UNCHANGED events

\* The end of process_sequence() and process_mapping().
EndNode ==
  /\ At({"sequence", "mapping"}) /\ ~ WantsNode
  /\ pos' = pos + 1
  /\ IF Fails THEN Fail(TRUE)
     ELSE stack' = Add(Front(stack), Top) /\ GoOn
  /\ UNCHANGED events

document_end ==
  /\ At({"document"}) /\ ~ WantsNode
  /\ pos' = pos + 1
  /\ IF Fails \/ peek_next_event # "document end"
     THEN Fail(TRUE)
     ELSE stack' = <<>> /\ docs' = Append(docs, Top.nodes[1]) /\ UNCHANGED <<problem, result>>
  /\ UNCHANGED events

\* The parser under way, until it returns.
Next == Start \/ Loop \/ document_start \/ process_node \/ EndNode \/ document_end

----------------------------------------------------------------------------
(* Properties.                                                              *)

\* Every variable has its type; nothing is deeper than the input is long.
TypeOK ==
  /\ pos \in 0 .. Len(events) + 1
  /\ Len(stack) <= Len(events)
  /\ \A i \in DOMAIN stack :
       stack[i].type \in (IF i = 1 THEN {"document start", "document"} ELSE {"sequence", "mapping"})
  /\ problem \in BOOLEAN
  /\ result \in {"none", "tree", "null"}

Type(t) == [type |-> t, value |-> 0]

\* The events a node stands for, and those of a frame that is still open.
RECURSIVE Events(_)
Inside(nodes) == FlattenSeq([i \in DOMAIN nodes |-> Events(nodes[i])])
Events(n) ==
  IF n.type = "scalar" THEN <<[type |-> "scalar", value |-> n.value]>>
  ELSE <<Type(n.type \o " start")>> \o Inside(n.nodes) \o <<Type(n.type \o " end")>>

Opened(f) ==
  IF f.type = "document start" THEN <<>> ELSE <<Type(f.type \o " start")>> \o Inside(f.nodes)
OfDocument(node) == <<Type("document start")>> \o Events(node) \o <<Type("document end")>>

\* What the events taken so far have become.
Taken ==
  FlattenSeq([i \in DOMAIN docs |-> OfDocument(docs[i])]) \o
  FlattenSeq([i \in DOMAIN stack |-> Opened(stack[i])])

\* The documents and the calls under way hold every event taken after the start of
\* the stream, in order and once: nothing is lost, moved or read twice by the
\* lookahead.  (Of a second document the start is lost, and it is refused.)
TreeIsInput ==
  result = "none" /\ (stack # <<>> <=> docs = <<>>) => Taken = SubSeq(events, 2, pos - 1)

\* The tree is the whole stream, with the one document its callers ask for
\* (vita-export-parse.c:629, vita-import-parse.c:299).
TreeIsStream ==
  result = "tree" =>
    /\ Len(docs) = 1
    /\ events = <<Type("stream start")>> \o OfDocument(docs[1]) \o <<Type("stream end")>>

\* A stream of one document without an error and without an alias gives a tree.
ReadableStream(s) ==
  /\ s[Len(s)].type = "stream end"
  /\ \A i \in DOMAIN s : s[i].type # "alias"
  /\ Len(SelectSeq(s, LAMBDA e : e.type = "document start")) = 1
ReadableIsRead == result = "null" => ~ ReadableStream(events)

\* Callers print the problem and free it when there is no tree
\* (vita-export-parse.c:622): one is always set, and never with a tree.
NullHasProblem == result # "none" => (result = "null" <=> problem)
=============================================================================
