------------------------------ MODULE MCImports -----------------------------
(* Small instances of Imports.                                              *)
EXTENDS Imports

K(key, name, value) == [key |-> key, name |-> name, value |-> value]
In(files, cmake) == [files |-> files, cmake |-> cmake, dir |-> TRUE, room |-> 20]

----------------------------------------------------------------------------
(* Import files.  Words of names are small, NIDs of libraries are 100 and     *)
(* more, NIDs of entries 200 and more.                                      *)

Fw(name) == <<K("firmware", name, 0)>>
Fw365 == <<3, Dot, 6, 5>>
Module(name, keys) == <<K("module", <<name>>, 0)>> \o keys
Lib(name, nid, keys) == <<K("library", <<name>>, 0), K("nid", <<>>, nid)>> \o keys
Kernel == <<K("kernel", <<>>, 1)>>
Ver(v) == <<K("version", <<>>, v)>>
Fun(word, nid) == <<K("function", <<word>>, nid)>>
Var(word, nid) == <<K("variable", <<word>>, nid)>>

\* A library before or after its entries' attributes, in one of three places.
Second ==
  {<<>>} \cup
  {Lib(3, nid, Fun(13, 200) \o last) :
     nid \in {90, 101, 110}, last \in {<<>>, Kernel, Ver(2), Ver(65536), Ver(1) \o Ver(2), Var(14, 230) \o Kernel}}

Both == Lib(2, 101, Fun(11, 210) \o Var(17, 220))
Bodies == {Both \o s : s \in Second}
Bodies3 == {Lib(2, 101, Fun(11, 210) \o Fun(12, 205) \o Var(16, 220) \o Var(17, v)) : v \in {219, 220, 221}} \cup
           {Lib(2, 101, Ver(3) \o Fun(11, 210)) \o Lib(4, 100, Fun(12, 205)) \o Lib(5, 102, Fun(13, f)) : f \in {201, 4112, 4128}}

OneFile == {In(<<Module(1, b)>>, c) : b \in Bodies, c \in BOOLEAN} \cup
           {In(<<fw \o Module(m, Both \o s)>>, c) :
              fw \in {<<>>, Fw(DefaultFirmware), Fw(Fw365)}, m \in {1, SceKernel},
              s \in {<<>>, Lib(3, 110, Fun(13, 200) \o Kernel)}, c \in BOOLEAN}
\* The second firmware is longer or shorter, or the default.
Firmwares == {In(<<Fw(Fw365) \o fw \o Module(1, Lib(2, 101, Fun(11, 210)))>>, TRUE) :
                fw \in {Fw(DefaultFirmware), Fw(<<2>>), Fw(<<3, Dot, 6, 5, 1>>)}}
Two == {In(<<Module(1, Lib(2, 101, Fun(11, 210))), fw \o Module(m, Lib(2, 101, key \o Fun(w, 202)))>>, c) :
          fw \in {<<>>, Fw(Fw365)}, m \in {1, 7}, key \in {<<>>, Kernel, <<K("error", <<>>, 0)>>}, w \in {11, 12}, c \in BOOLEAN}
Failing == {[files |-> <<Module(1, Lib(2, 101, Fun(11, 210) \o Fun(12, 205)))>>, cmake |-> TRUE, dir |-> d, room |-> r] :
              d \in BOOLEAN, r \in 0 .. 3} \cup {In(<<Module(1, Lib(2, 101, <<>>))>>, c) : c \in BOOLEAN}

----------------------------------------------------------------------------
(* Programs.                                                                *)

Seg(vaddr, memsz) == [vaddr |-> vaddr, memsz |-> memsz]
Sym(name, type, value) == [name |-> name, type |-> type, global |-> TRUE, visible |-> TRUE, stub |-> FALSE, value |-> value]

NoExports == [is_default |-> TRUE, is_image_module |-> FALSE, is_process_image |-> TRUE,
              start |-> NoSymbol, bootstart |-> NoSymbol, stop |-> NoSymbol, exit |-> NoSymbol, libs |-> <<>>]
Plugin == [NoExports EXCEPT !.is_default = FALSE, !.is_process_image = FALSE]

Text == Seg(4096, 258)

\* The file of a program: each segment as two sections, the first segment at an offset,
\* the others behind it with a gap, and so many bytes of the last one not in the file.
FileWith(segments, head, gap, bss, align) ==
  LET filesz == [n \in DOMAIN segments |-> segments[n].memsz - IF n = Len(segments) THEN bss ELSE 0]
      offset[n \in DOMAIN segments] == IF n = 1 THEN head ELSE AlignUp(offset[n - 1] + filesz[n - 1]) + gap
      half(n, at, size) == [segment |-> n, offset |-> offset[n] + at, size |-> size, nobits |-> FALSE]
      end == offset[Len(segments)] + filesz[Len(segments)]
  IN [segments |-> [n \in DOMAIN segments |-> [offset |-> offset[n], filesz |-> filesz[n], align |-> align]],
      sections |-> FlattenSeq([n \in DOMAIN segments |-> <<half(n, 0, filesz[n] \div 2), half(n, filesz[n] \div 2, filesz[n] - filesz[n] \div 2)>>]) \o
                   <<[segment |-> Len(segments), offset |-> end, size |-> bss, nobits |-> TRUE]>>,
      relas |-> 1, options |-> {}]
Prog(segments, symtab, e) ==
  [segments |-> segments, file |-> FileWith(segments, 256, 4, 0, 16), symtab |-> symtab, entry |-> 4100, sdk |-> NewFormat, text |-> 4112, linked |-> 1,
   given |-> ~ e.is_default, output |-> FALSE, exports |-> e]
Simple == Prog(<<Text>>, <<>>, NoExports)

Names == <<"module_start", "module_stop", "module_exit", "__module_start", "__module_stop", "__module_exit",
           "module_sdk_version", "sceLibcHeapSize", "user_malloc", "sceUserMainThreadName", "f", "v">>
MCNidOf == [n \in ToSet(Names) |-> 300 - 7 * (CHOOSE k \in DOMAIN Names : Names[k] = n)]

Symtab == <<Sym("module_stop", "function", 4108), Sym("module_start", "function", 4104),
            Sym("f", "function", 4120), Sym("v", "variable", 8196), Sym("f", "variable", 8200)>>
LibcSyms == <<Sym("sceLibcHeapSize", "variable", 8192), Sym("user_malloc", "function", 4116),
              Sym("sceUserMainThreadName", "variable", 8204)>>
Sdk(a) == <<Sym("module_sdk_version", "variable", a)>>
CrtSyms == <<Sym("__module_start", "function", 4100), Sym("__module_stop", "function", 4104),
             Sym("__module_exit", "function", 4108)>>
Hidden == {<<[Symtab[2] EXCEPT !.visible = FALSE]>>, <<[Symtab[3] EXCEPT !.visible = FALSE]>>, <<[Symtab[3] EXCEPT !.global = FALSE]>>,
           <<[Symtab[3] EXCEPT !.stub = TRUE]>>}

ExpLib(functions, variables) ==
  [name |-> "lib", nid |-> 77, version |-> 1, syscall |-> TRUE,
   function |-> [n \in DOMAIN functions |-> [name |-> functions[n], nid |-> 400 + n]],
   variable |-> [n \in DOMAIN variables |-> [name |-> variables[n], nid |-> 500 + n]]]

\* The segment behind that of module_start is clear of the data, or not; the
\* program may start in another segment, or in none.
Placed == {[Prog(<<Text, Seg(b, 64)>>, Symtab, e) EXCEPT !.entry = n] :
             b \in {4356, 4356 + 100, 4356 + 4 * (INFO + PARAM6 + EXPORT + 6 + IMPORT + 1 + 2) - 4,
                    4356 + 4 * (INFO + PARAM6 + EXPORT + 6 + IMPORT + 1 + 2), 8192},
             e \in {NoExports}, n \in {4100, 8192, 1}}
Tables == {Symtab, CrtSyms, <<>>, CrtSyms \o Symtab} \cup Hidden
Outputs == {[Prog(<<Text, Seg(8192, 64)>>, t \o l, NoExports) EXCEPT !.output = o] :
              t \in Tables, l \in {<<>>, LibcSyms}, o \in BOOLEAN} \cup
           {[Prog(<<Text, Seg(8192, 64)>>, Symtab \o s, e) EXCEPT !.sdk = k, !.output = TRUE] :
              s \in {<<>>, Sdk(8208), Sdk(16)}, k \in {NewFormat, NewFormat - 1},
              e \in {NoExports, [NoExports EXCEPT !.stop = "f"]}}
Libs == {<<>>, <<ExpLib(<<"f", "module_stop">>, <<"v", "f">>)>>, <<ExpLib(<<>>, <<>>), ExpLib(<<"v">>, <<>>)>>}
Configs ==
  {[Plugin EXCEPT !.exit = x, !.libs = ls] : x \in {NoSymbol, "f", "v"}, ls \in Libs} \cup
  {[Plugin EXCEPT !.is_process_image = p, !.is_image_module = m, !.start = s, !.bootstart = s, !.libs = <<ExpLib(<<"f">>, <<>>)>>] :
     p \in BOOLEAN, m \in BOOLEAN, s \in {NoSymbol, "module_start"}}
Configured == {[Prog(<<Text, Seg(8192, 64)>>, Symtab, [Plugin EXCEPT !.start = "module_start"]) EXCEPT !.entry = 8192]} \cup
  {Prog(<<Text, Seg(8192, 64)>>, t \o LibcSyms \o Sdk(8208), e) : t \in {Symtab, <<>>}, e \in Configs}

Small == In(<<Module(1, Lib(2, 101, Fun(11, 210) \o Var(17, 220)))>>, TRUE)
Large == {In(<<Module(1, b)>>, TRUE) : b \in Bodies3}

\* Files: tight or not, with and without room for another program header, with a
\* segment that is not all in the file, with a section in the padding of the first or
\* across its end.
Filed(p, options, head, gap, bss, align) == [p EXCEPT !.file = [FileWith(p.segments, head, gap, bss, align) EXCEPT !.options = options]]
Attributes == [segment |-> 0, offset |-> 514, size |-> 7, nobits |-> FALSE]
Across == [Attributes EXCEPT !.offset = 506, !.size = 20]
Files ==
  {[Filed(Prog(<<Text, Seg(8192, 64)>>, Symtab, NoExports), {"packed"}, head, gap, bss, align) EXCEPT !.entry = n] :
     head \in {116, 148, 256}, gap \in {0, 4000}, bss \in {0, 20}, align \in {0, 1, 16, 65536}, n \in {4100, 8192}} \cup
  {Filed(Simple, options, head, 0, bss, 4096) : head \in {84, 116, 256}, bss \in {0, 20}, options \in {{"packed"}, {"packed", "self"}, {"self"}}} \cup
  {Filed(Prog(<<Text, Seg(8192, 64), Seg(12288, 20)>>, Symtab, NoExports), options \cup {"packed", "self"}, 256, 4, bss, 65536) :
     bss \in {0, 20}, options \in SUBSET {"compressed", "security"}} \cup
  {[Filed(Simple, {"packed"}, 256, 0, 0, 4096) EXCEPT !.file.sections = Append(@, Attributes)],
   [Filed(Simple, {"packed"}, 256, 0, 0, 4096) EXCEPT !.file.sections = Append([@ EXCEPT ![2].size = @ - 8], Across)]}

Linked(p, n) == [p EXCEPT !.linked = n]

MCCases ==
  {[input |-> in, program |-> Linked(Simple, 2)] : in \in OneFile \cup Firmwares \cup Two \cup Failing} \cup
  {[input |-> in, program |-> Linked(Simple, 3)] : in \in Large} \cup
  {[input |-> Small, program |-> p] : p \in Outputs \cup Configured \cup Files} \cup
  {[input |-> Small, program |-> Linked(p, 2)] : p \in Placed}
MCInputs == {c.input : c \in MCCases}
MCPrograms == {c.program : c \in MCCases}
=============================================================================
