------------------------- MODULE ExportParse_proofs -------------------------
(***************************************************************************)
(* For every module configuration: what the handlers make of its keys.     *)
(***************************************************************************)
EXTENDS ExportParse, ProofLemmas

----------------------------------------------------------------------------
(* The inductive invariant.                                                 *)

Handling == pc \in {"keys", "loaded", "freed"}

\* The keys of a library that lie before position n.
Before(i, n) == {j \in Body(i) : j < n}

Symbols(l) == {l.functions[n] : n \in DOMAIN l.functions} \cup {l.variables[n] : n \in DOMAIN l.variables}

\* The NID of a library that has said the keys of S.
NidSoFar(i, S) ==
  IF Saying(S, "libnid") # {} THEN Given(ValueOf(S, "libnid", 0) % WORD)
  ELSE IF Saying(S, "version") # {} THEN HashOfVersion(ValueOf(S, "version", 1) % WORD, KeyAt(i).value)
  ELSE HashOf(KeyAt(i).value)

\* What holds of a library whose keys before position n are done.
SaidSoFar(l, n) ==
  LET S == Before(l.at, n)
  IN /\ l.version = ValueOf(S, "version", 1) % WORD
     /\ l.syscall = ValueOf(S, "syscall", 0) % 2
     /\ l.nid = NidSoFar(l.at, S)
     /\ \A s \in Symbols(l) : s.nid = SymbolNid(l.at, s.at)

Open(l, n) ==
  /\ l.at \in DOMAIN config.keys /\ l.at < n /\ KeyAt(l.at).key = "library"
  /\ \A k \in l.at .. n - 1 : KeyAt(k).key # "end" /\ (k > l.at => KeyAt(k).key # "library")
  /\ l.name = KeyAt(l.at).value
  /\ Ats(l.functions) = Saying(Before(l.at, n), "function")
  /\ Ats(l.variables) = Saying(Before(l.at, n), "variable")
  /\ \A s \in Symbols(l) : s.name = KeyAt(s.at).value
  /\ SaidOnce(Body(l.at)) /\ WellOrdered(l.at) => SaidSoFar(l, n)

\* Why a configuration may be refused.
Cause ==
  \/ ~ config.hashes
  \/ config.given /\ ~ (config.opens /\ config.parses /\ config.root = "good")
  \/ Positions({"error"}) # {}
  \/ \E i \in Positions({"attributes"}) : KeyAt(i).value >= SHORT
  \/ \E i \in Positions({"major", "minor"}) : KeyAt(i).value >= BYTE
  \/ \E i \in Positions({"version"}) : KeyAt(i).value >= SHORT

Control ==
  /\ ConfigOK(config)
  /\ pc = "default" => ~ config.given
  /\ pc \in {"load", "root", "keys"} => config.given
  /\ pc \in {"load", "default", "root"} => rest = 1 /\ lib = NULL
  /\ pc \in {"loaded", "freed"} => rest = Len(config.keys) + 1 /\ lib = NULL
  /\ Handling => export \in ExportType
  /\ Handling => \A i \in 1 .. rest - 1 : KeyAt(i).key # "error"
  /\ pc = "failed" => Cause

LibInv ==
  pc = "keys" =>
    /\ lib # NULL <=> InLibrary(config.keys, rest)
    /\ lib # NULL => Open(lib, rest)

ListInv ==
  Handling =>
    /\ Ats(export.libs) = {i \in Positions({"library"}) : i < rest /\ (lib # NULL => i # lib.at)}
    /\ \A l \in Libs : SaidOnce(Body(l.at)) /\ WellOrdered(l.at) => Said(l)

\* Every block is reachable, or will be when its library is added to the list, or
\* belongs to an entry point that was given again.
Blocks(l) == {l.at} \cup Ats(l.functions) \cup Ats(l.variables)
Replaced(i) == \E j \in Positions(EntryPoints) : j > i /\ KeyAt(j).key = KeyAt(i).key

HeapInv ==
  /\ Handling => \A e \in EntryPoints : export[e] # NULL =>
       \E i \in DOMAIN config.keys : export[e] = <<i>> /\ i < rest /\ KeyAt(i).key = e
  /\ pc \in {"keys", "loaded"} =>
       \A i \in heap : i \in Reachable \/ (lib # NULL /\ i \in Blocks(lib)) \/ Replaced(i)
  /\ pc = "freed" => \A i \in heap : Replaced(i)

IInv == TypeOK /\ Control /\ LibInv /\ ListInv /\ HeapInv

----------------------------------------------------------------------------
(* Words, sequences, keys.                                                  *)

LEMMA Widths ==
  /\ WORD \in Nat \ {0} /\ SHORT \in Nat \ {0} /\ BYTE \in Nat \ {0}
  /\ 1 < BYTE /\ BYTE < SHORT /\ SHORT < WORD
BY WidthAssumption

\* A 64-bit number assigned to 32 bits becomes no larger.
LEMMA Narrowed ==
  ASSUME NEW n \in Nat
  PROVE  process_32bit_integer(n) \in 0 .. WORD - 1 /\ process_32bit_integer(n) <= n
<1>1. n % WORD \in 0 .. WORD - 1
      BY Widths, ModRange
<1>2. CASE n < WORD
  <2>1. n % WORD = n
        BY <1>2, Widths, ModSmall
  <2> QED
      BY <1>1, <2>1 DEF process_32bit_integer
<1>3. CASE n >= WORD
      BY <1>1, <1>3, Widths DEF process_32bit_integer
<1> QED
    BY <1>2, <1>3, Widths

LEMMA Appended ==
  ASSUME NEW T, NEW s \in Seq(T), NEW e \in T
  PROVE  /\ Append(s, e) \in Seq(T)
         /\ {Append(s, e)[i] : i \in DOMAIN Append(s, e)} = {s[i] : i \in DOMAIN s} \cup {e}
         /\ Ats(Append(s, e)) = Ats(s) \cup {e.at}
<1>1. /\ DOMAIN s = 1 .. Len(s) /\ Len(s) \in Nat
      /\ DOMAIN Append(s, e) = 1 .. Len(s) + 1
      /\ \A i \in 1 .. Len(s) : Append(s, e)[i] = s[i]
      /\ Append(s, e)[Len(s) + 1] = e
      OBVIOUS
<1>2. \A i : i \in 1 .. Len(s) + 1 <=> i \in 1 .. Len(s) \/ i = Len(s) + 1
      BY <1>1
<1>3. {Append(s, e)[i] : i \in DOMAIN Append(s, e)} = {s[i] : i \in DOMAIN s} \cup {e}
      BY <1>1, <1>2
<1>4. Ats(Append(s, e)) = Ats(s) \cup {e.at}
      BY <1>1, <1>2 DEF Ats
<1> QED
    BY <1>3, <1>4

LEMMA KeysTyped ==
  ASSUME ConfigOK(config)
  PROVE  /\ Len(config.keys) \in Nat /\ DOMAIN config.keys = 1 .. Len(config.keys)
         /\ \A i \in DOMAIN config.keys :
              /\ KeyAt(i).key \in ModuleKeys \cup LibraryKeys \cup {"library", "end", "error"}
              /\ KeyAt(i).value \in Nat
              /\ KeyAt(i).nid \in {NULL} \cup [1 .. 1 -> Nat]
<1>1. config.keys \in Seq(Keys)
      BY DEF ConfigOK
<1>2. Len(config.keys) \in Nat /\ DOMAIN config.keys = 1 .. Len(config.keys)
      BY <1>1
<1>3. \A i \in DOMAIN config.keys : KeyAt(i) \in Keys
      BY <1>1, <1>2, ElementOfSeq, Zenon DEF KeyAt
<1> QED
    BY <1>2, <1>3 DEF Keys

\* "library" opens a library and "end" closes it.
LEMMA Nesting ==
  ASSUME ConfigOK(config), NEW n \in DOMAIN config.keys
  PROVE  InLibrary(config.keys, n + 1) <=>
           KeyAt(n).key = "library" \/ (InLibrary(config.keys, n) /\ KeyAt(n).key # "end")
<1>1. n \in Nat \ {0}
      BY KeysTyped
<1>2. ASSUME InLibrary(config.keys, n + 1)
      PROVE  KeyAt(n).key = "library" \/ (InLibrary(config.keys, n) /\ KeyAt(n).key # "end")
  <2>1. PICK j \in 1 .. n : config.keys[j].key = "library" /\ \A k \in j .. n : config.keys[k].key # "end"
        BY <1>1, <1>2 DEF InLibrary
  <2> QED
      BY <1>1, <2>1 DEF InLibrary, KeyAt
<1>3. ASSUME KeyAt(n).key = "library"
      PROVE  InLibrary(config.keys, n + 1)
  <2>1. n \in 1 .. (n + 1) - 1 /\ \A k \in n .. (n + 1) - 1 : k = n
        BY <1>1
  <2> QED
      BY <1>3, <2>1 DEF InLibrary, KeyAt
<1>4. ASSUME InLibrary(config.keys, n), KeyAt(n).key # "end"
      PROVE  InLibrary(config.keys, n + 1)
  <2>1. PICK j \in 1 .. n - 1 : config.keys[j].key = "library" /\ \A k \in j .. n - 1 : config.keys[k].key # "end"
        BY <1>4 DEF InLibrary
  <2>2. j \in 1 .. (n + 1) - 1 /\ \A k \in j .. (n + 1) - 1 : k \in j .. n - 1 \/ k = n
        BY <1>1
  <2> QED
      BY <1>4, <2>1, <2>2 DEF InLibrary, KeyAt
<1> QED
    BY <1>2, <1>3, <1>4

\* Where the keys of a module and those of a library may stand.
LEMMA Places ==
  ASSUME ConfigOK(config), NEW n \in DOMAIN config.keys
  PROVE  /\ KeyAt(n).key \in ModuleKeys \cup {"library"} => ~ InLibrary(config.keys, n)
         /\ KeyAt(n).key \in LibraryKeys \cup {"end"} => InLibrary(config.keys, n)
<1>1. KeyAt(n).key # "error" => (InLibrary(config.keys, n) <=> KeyAt(n).key \in LibraryKeys \cup {"end"})
      BY DEF ConfigOK, KeyAt
<1> QED
    BY <1>1 DEF ModuleKeys, EntryPoints, Flags, Numbers, LibraryKeys, SymbolKeys

----------------------------------------------------------------------------
(* What depends on the input only stays as it is.                           *)

LEMMA SameConfig ==
  ASSUME config' = config
  PROVE  /\ \A i : KeyAt(i)' = KeyAt(i)
         /\ \A S : Positions(S)' = Positions(S)
         /\ \A i : Body(i)' = Body(i)
         /\ \A i, n : Before(i, n)' = Before(i, n)
         /\ \A S, k : Saying(S, k)' = Saying(S, k)
         /\ \A S : SaidOnce(S)' <=> SaidOnce(S)
         /\ \A i : WellOrdered(i)' <=> WellOrdered(i)
         /\ \A l : Said(l)' <=> Said(l)
         /\ \A l, n : Open(l, n)' <=> Open(l, n)
         /\ \A i : Replaced(i)' <=> Replaced(i)
         /\ Cause' <=> Cause
<1>1. \A i : KeyAt(i)' = KeyAt(i)
      BY DEF KeyAt
<1>2. \A S : Positions(S)' = Positions(S)
      BY <1>1 DEF Positions
<1>3. \A i : Body(i)' = Body(i)
      BY <1>1 DEF Body
<1>4. \A i, n : Before(i, n)' = Before(i, n)
      BY <1>3 DEF Before
<1>5. \A S, k : Saying(S, k)' = Saying(S, k)
      BY <1>1 DEF Saying
<1>6. \A S : SaidOnce(S)' <=> SaidOnce(S)
      BY <1>1 DEF SaidOnce
<1>7. \A i : WellOrdered(i)' <=> WellOrdered(i)
      BY <1>1, <1>3 DEF WellOrdered
<1>8. \A S, k, d : ValueOf(S, k, d)' = ValueOf(S, k, d)
      BY DEF ValueOf, Saying, KeyAt
<1>9. \A i : VersionOf(i)' = VersionOf(i) /\ SyscallOf(i)' = SyscallOf(i)
      BY <1>3, <1>8 DEF VersionOf, SyscallOf
<1>10. \A i, j : SymbolNid(i, j)' = SymbolNid(i, j)
       BY <1>1, <1>9 DEF SymbolNid
<1>11. \A i : LibraryNid(i)' = LibraryNid(i)
       BY <1>1, <1>3, <1>5, <1>8, <1>9 DEF LibraryNid
<1>12. \A l : Said(l)' <=> Said(l)
       BY <1>1, <1>3, <1>5, <1>9, <1>10, <1>11 DEF Said
<1>13. \A i, S : NidSoFar(i, S)' = NidSoFar(i, S)
       BY <1>1, <1>5, <1>8 DEF NidSoFar
<1>14. \A l, n : SaidSoFar(l, n)' <=> SaidSoFar(l, n)
       BY <1>4, <1>8, <1>10, <1>13 DEF SaidSoFar
<1>15. \A l, n : Open(l, n)' <=> Open(l, n)
       BY <1>1, <1>3, <1>4, <1>5, <1>6, <1>7, <1>14 DEF Open
<1>16. \A i : Replaced(i)' <=> Replaced(i)
       BY <1>1, <1>2 DEF Replaced
<1>17. Cause' <=> Cause
       BY <1>1, <1>2 DEF Cause
<1> QED
    BY <1>1, <1>2, <1>3, <1>4, <1>5, <1>6, <1>7, <1>12, <1>15, <1>16, <1>17

----------------------------------------------------------------------------
(* A library that takes one key more.                                       *)

LEMMA BodyGrows ==
  ASSUME ConfigOK(config), NEW l, NEW n \in DOMAIN config.keys, Open(l, n), KeyAt(n).key \notin {"library", "end"}
  PROVE  /\ n \in Body(l.at) /\ Before(l.at, n + 1) = Before(l.at, n) \cup {n}
         /\ \A k \in l.at .. (n + 1) - 1 : KeyAt(k).key # "end" /\ (k > l.at => KeyAt(k).key # "library")
<1>1. l.at \in 1 .. Len(config.keys) /\ n \in 1 .. Len(config.keys) /\ Len(config.keys) \in Nat /\ l.at < n
      BY KeysTyped DEF Open
<1>2. \A k \in l.at .. n : k \in l.at .. n - 1 \/ k = n
      BY <1>1
<1>3. \A k \in l.at .. n : KeyAt(k).key # "end" /\ (k > l.at => KeyAt(k).key # "library")
      BY <1>2 DEF Open
<1>4. n \in Body(l.at)
      BY <1>1, <1>3 DEF Body
<1>5. Before(l.at, n + 1) = Before(l.at, n) \cup {n}
  <2>1. Body(l.at) \subseteq Int
        BY KeysTyped DEF Body
  <2> QED
      BY <1>1, <1>4, <2>1 DEF Before
<1> QED
    BY <1>1, <1>3, <1>4, <1>5

\* Until it is closed there is nothing more of it.
LEMMA BodyEnds ==
  ASSUME ConfigOK(config), NEW l, NEW n \in DOMAIN config.keys, Open(l, n), KeyAt(n).key = "end"
  PROVE  Before(l.at, n) = Body(l.at)
<1>1. l.at \in 1 .. Len(config.keys) /\ n \in 1 .. Len(config.keys) /\ Len(config.keys) \in Nat /\ l.at < n
      BY KeysTyped DEF Open
<1>2. ASSUME NEW j \in Body(l.at)
      PROVE  j < n
  <2>1. j \in 1 .. Len(config.keys) /\ \A k \in l.at .. j : KeyAt(k).key # "end"
        BY KeysTyped DEF Body
  <2>2. n \notin l.at .. j
        BY <2>1
  <2> QED
      BY <1>1, <2>1, <2>2
<1> QED
    BY <1>2 DEF Before

\* One key more is said.
LEMMA SayingMore ==
  ASSUME NEW S, NEW n, NEW key
  PROVE  Saying(S \cup {n}, key) = IF KeyAt(n).key = key THEN Saying(S, key) \cup {n} ELSE Saying(S, key)
BY DEF Saying

LEMMA SayingOther ==
  ASSUME NEW S, NEW n, NEW key, KeyAt(n).key # key
  PROVE  Saying(S \cup {n}, key) = Saying(S, key)
BY SayingMore

LEMMA ValueSame ==
  ASSUME NEW S, NEW T, NEW key, NEW d, Saying(S, key) = Saying(T, key)
  PROVE  ValueOf(S, key, d) = ValueOf(T, key, d)
<1> DEFINE V(A) == IF A = {} THEN d ELSE KeyAt(CHOOSE j \in A : TRUE).value
<1>1. ValueOf(S, key, d) = V(Saying(S, key)) /\ ValueOf(T, key, d) = V(Saying(T, key))
      BY DEF ValueOf
<1> HIDE DEF V
<1> QED
    BY <1>1

OfOneValue == {"version", "syscall", "libnid"}

\* A value that is given once is the last one given, whatever came before.
LEMMA ValueSaid ==
  ASSUME ConfigOK(config), NEW i, NEW n \in Body(i), SaidOnce(Body(i)), NEW key \in OfOneValue, NEW d, KeyAt(n).key = key
  PROVE  ValueOf(Before(i, n) \cup {n}, key, d) = KeyAt(n).value
<1>1. ASSUME NEW j \in Saying(Before(i, n), key)
      PROVE  FALSE
  <2>1. j \in Body(i) /\ j < n /\ KeyAt(j).key = key
        BY DEF Saying, Before
  <2>2. j = n
        BY <2>1 DEF SaidOnce, OfOneValue, SymbolKeys
  <2>3. n \in Int
        BY KeysTyped DEF Body
  <2> QED
      BY <2>1, <2>2, <2>3
<1>2. Saying(Before(i, n), key) = {}
      BY <1>1
<1>3. Saying(Before(i, n) \cup {n}, key) = {n}
      BY <1>2, SayingMore
<1>4. (CHOOSE j \in Saying(Before(i, n) \cup {n}, key) : TRUE) = n
      BY <1>3
<1> QED
    BY <1>3, <1>4 DEF ValueOf

LEMMA ValueUnsaid ==
  ASSUME NEW S, NEW n, NEW key, NEW d, KeyAt(n).key # key
  PROVE  ValueOf(S \cup {n}, key, d) = ValueOf(S, key, d)
BY SayingOther, ValueSame

\* A library that is closed has said what the document says.
LEMMA ClosedSaid ==
  ASSUME ConfigOK(config), NEW l, NEW n \in DOMAIN config.keys, Open(l, n), KeyAt(n).key = "end",
         SaidOnce(Body(l.at)), WellOrdered(l.at)
  PROVE  Said(l)
<1>1. Before(l.at, n) = Body(l.at)
      BY BodyEnds
<1>2. SaidSoFar(l, n)
      BY DEF Open
<1>3. l.version = VersionOf(l.at) /\ l.syscall = SyscallOf(l.at) /\ l.nid = NidSoFar(l.at, Body(l.at))
      BY <1>1, <1>2 DEF SaidSoFar, VersionOf, SyscallOf
<1>4. NidSoFar(l.at, Body(l.at)) = LibraryNid(l.at)
      BY DEF NidSoFar, LibraryNid, VersionOf
<1>5. \A s \in Symbols(l) : s.name = KeyAt(s.at).value /\ s.nid = SymbolNid(l.at, s.at)
      BY <1>2 DEF Open, SaidSoFar
<1> QED
    BY <1>1, <1>3, <1>4, <1>5 DEF Said, Open, Symbols

\* The NID of a symbol is that of the document, if nothing that it depends on
\* comes after it.
LEMMA SymbolAsSaid ==
  ASSUME ConfigOK(config), NEW l, NEW n \in DOMAIN config.keys, Open(l, n), KeyAt(n).key \in SymbolKeys,
         SaidOnce(Body(l.at)), WellOrdered(l.at), l.version \in Nat, l.syscall \in {0, 1}
  PROVE  SymbolNid(l.at, n) =
           IF KeyAt(n).nid # NULL THEN Given(KeyAt(n).nid[1] % WORD)
           ELSE IF l.version \in {0, 1} \/ l.syscall # 0 THEN HashOf(KeyAt(n).value)
           ELSE HashOfSymbol(l.version, l.name, KeyAt(n).value)
<1>1. n \in Body(l.at)
      BY BodyGrows DEF SymbolKeys
<1>2. ASSUME NEW key \in {"version", "syscall"}
      PROVE  Saying(Body(l.at), key) = Saying(Before(l.at, n), key)
  <2>1. ASSUME NEW k \in Saying(Body(l.at), key)
        PROVE  k < n
    <3>1. k \in Body(l.at) /\ KeyAt(k).key = key
          BY DEF Saying
    <3>2. ~ (n < k)
          BY <1>1, <3>1 DEF WellOrdered
    <3>3. k # n
          BY <3>1 DEF SymbolKeys
    <3>4. k \in Int /\ n \in Int
          BY <1>1, <3>1, KeysTyped DEF Body
    <3> QED
        BY <3>2, <3>3, <3>4
  <2> QED
      BY <2>1 DEF Saying, Before
<1>3. VersionOf(l.at) = l.version /\ SyscallOf(l.at) = l.syscall
      BY <1>2 DEF VersionOf, SyscallOf, ValueOf, Open, SaidSoFar
<1>4. (VersionOf(l.at) < 2 \/ SyscallOf(l.at) = 1) <=> (l.version \in {0, 1} \/ l.syscall # 0)
      BY <1>3
<1> QED
    BY <1>3, <1>4 DEF SymbolNid, Open

\* A library that takes a value: what it says of itself is all that changes.
LEMMA ValueTaken ==
  ASSUME ConfigOK(config), NEW l, NEW m, NEW n \in DOMAIN config.keys, Open(l, n),
         KeyAt(n).key \in {"syscall", "libnid", "version"},
         m.at = l.at, m.name = l.name, m.functions = l.functions, m.variables = l.variables,
         SaidOnce(Body(l.at)) /\ WellOrdered(l.at) /\ SaidSoFar(l, n) =>
           LET S == Before(l.at, n) \cup {n}
           IN /\ m.version = ValueOf(S, "version", 1) % WORD
              /\ m.syscall = ValueOf(S, "syscall", 0) % 2
              /\ m.nid = NidSoFar(l.at, S)
  PROVE  Open(m, n + 1)
<1>1. /\ n \in Body(l.at) /\ Before(l.at, n + 1) = Before(l.at, n) \cup {n}
      /\ \A k \in l.at .. (n + 1) - 1 : KeyAt(k).key # "end" /\ (k > l.at => KeyAt(k).key # "library")
      BY BodyGrows
<1>2. l.at \in DOMAIN config.keys /\ l.at < n + 1 /\ KeyAt(l.at).key = "library"
      BY KeysTyped DEF Open
<1>3. Symbols(m) = Symbols(l)
      BY DEF Symbols
<1>4. /\ Saying(Before(l.at, n + 1), "function") = Saying(Before(l.at, n), "function")
      /\ Saying(Before(l.at, n + 1), "variable") = Saying(Before(l.at, n), "variable")
  <2>1. KeyAt(n).key # "function" /\ KeyAt(n).key # "variable"
        OBVIOUS
  <2> QED
      BY <1>1, <2>1, SayingOther
<1>5. /\ m.name = KeyAt(l.at).value
      /\ Ats(m.functions) = Saying(Before(l.at, n + 1), "function")
      /\ Ats(m.variables) = Saying(Before(l.at, n + 1), "variable")
      /\ \A s \in Symbols(m) : s.name = KeyAt(s.at).value
      BY <1>3, <1>4 DEF Open
<1>6. ASSUME SaidOnce(Body(l.at)), WellOrdered(l.at)
      PROVE  SaidSoFar(m, n + 1)
  <2>1. SaidSoFar(l, n)
        BY <1>6 DEF Open
  <2> QED
      BY <1>1, <1>3, <1>6, <2>1 DEF SaidSoFar
<1> QED
    BY <1>1, <1>2, <1>5, <1>6 DEF Open

\* The NID of a library depends on two of its keys.
LEMMA NidSame ==
  ASSUME NEW S, NEW T, NEW i, \A key \in {"libnid", "version"} : Saying(S, key) = Saying(T, key)
  PROVE  NidSoFar(i, S) = NidSoFar(i, T)
<1>1. \A d : ValueOf(S, "libnid", d) = ValueOf(T, "libnid", d) /\ ValueOf(S, "version", d) = ValueOf(T, "version", d)
      BY ValueSame
<1> QED
    BY <1>1 DEF NidSoFar

----------------------------------------------------------------------------
(* Parts of the invariant that several handlers keep in the same way.       *)

LEMMA Handled ==
  ASSUME IInv, pc = "keys"
  PROVE  /\ ConfigOK(config) /\ config.given /\ Handling /\ export \in ExportType /\ lib \in {NULL} \cup LibraryType
         /\ rest \in 1 .. Len(config.keys) + 1 /\ Len(config.keys) \in Nat /\ heap \subseteq 0 .. Len(config.keys)
         /\ \A i \in 1 .. rest - 1 : KeyAt(i).key # "error"
         /\ rest \in DOMAIN config.keys => rest + 1 \in 1 .. Len(config.keys) + 1
<1>1. ConfigOK(config) /\ config.given /\ Handling /\ export \in ExportType /\ \A i \in 1 .. rest - 1 : KeyAt(i).key # "error"
      BY DEF IInv, Control, Handling
<1>2. lib \in {NULL} \cup LibraryType /\ rest \in 1 .. Len(config.keys) + 1 /\ heap \subseteq 0 .. Len(config.keys)
      BY DEF IInv, TypeOK
<1>3. Len(config.keys) \in Nat /\ (rest \in DOMAIN config.keys => rest + 1 \in 1 .. Len(config.keys) + 1)
      BY <1>1, KeysTyped
<1> QED
    BY <1>1, <1>2, <1>3

LEMMA KeyRead ==
  ASSUME NEW names, At(names)
  PROVE  pc = "keys" /\ rest \in DOMAIN config.keys /\ Key = KeyAt(rest) /\ KeyAt(rest).key \in names
BY DEF At, Key, KeyAt

\* A handler that gives up.
LEMMA FailKeeps ==
  ASSUME IInv, pc = "keys", pc' = "failed", UNCHANGED <<config, rest, export, lib, heap>>, Cause
  PROVE  IInv'
<1>1. TypeOK'
      BY DEF IInv, TypeOK, ExportType, LibraryType
<1>2. Control'
      BY SameConfig DEF IInv, Control, Handling
<1>3. LibInv' /\ ListInv' /\ HeapInv'
      BY DEF LibInv, ListInv, HeapInv, Handling
<1> QED
    BY <1>1, <1>2, <1>3 DEF IInv

LEMMA ControlKept ==
  ASSUME IInv, pc = "keys", pc' = "keys", config' = config, rest' = rest + 1, rest \in DOMAIN config.keys,
         KeyAt(rest).key # "error", export' \in ExportType
  PROVE  Control'
<1>1. ConfigOK(config) /\ config.given /\ rest \in 1 .. Len(config.keys) + 1 /\ Len(config.keys) \in Nat
      /\ \A i \in 1 .. rest - 1 : KeyAt(i).key # "error"
      BY Handled
<1>2. \A i \in 1 .. rest' - 1 : i \in 1 .. rest - 1 \/ i = rest
      BY <1>1
<1>3. \A i \in 1 .. rest' - 1 : KeyAt(i)'.key # "error"
      BY <1>1, <1>2, SameConfig
<1> QED
    BY <1>1, <1>3 DEF Control, Handling

\* A key outside of the libraries.
LEMMA ModuleKeyKeeps ==
  ASSUME IInv, pc = "keys", pc' = "keys", config' = config, rest' = rest + 1, rest \in DOMAIN config.keys,
         KeyAt(rest).key \in ModuleKeys, lib' = lib, export' \in ExportType, export'.libs = export.libs
  PROVE  Control' /\ LibInv' /\ ListInv' /\ lib = NULL
<1>1. /\ ConfigOK(config) /\ Handling /\ rest \in 1 .. Len(config.keys) + 1 /\ Len(config.keys) \in Nat
      BY Handled
<1>2. KeyAt(rest).key \notin {"library", "end", "error"}
      BY DEF ModuleKeys, EntryPoints, Flags, Numbers
<1>3. ~ InLibrary(config.keys, rest) /\ ~ InLibrary(config.keys, rest + 1)
      BY <1>1, <1>2, Places, Nesting
<1>4. lib = NULL
      BY <1>3 DEF IInv, LibInv
<1>5. LibInv'
      BY <1>3, <1>4 DEF LibInv
<1>6. Control'
      BY <1>2, ControlKept
<1>7. ListInv'
  <2>1. \A i \in Positions({"library"}) : i < rest + 1 <=> i < rest
    <3>1. \A i \in Positions({"library"}) : i \in Int /\ i # rest
          BY <1>1, <1>2, KeysTyped DEF Positions
    <3> QED
        BY <1>1, <3>1
  <2>2. Libs' = Libs
        BY DEF Libs
  <2>3. /\ Ats(export.libs) = {i \in Positions({"library"}) : i < rest}
        /\ \A l \in Libs : SaidOnce(Body(l.at)) /\ WellOrdered(l.at) => Said(l)
        BY <1>1, <1>4 DEF IInv, ListInv
  <2>4. Ats(export.libs)' = {i \in Positions({"library"}) : i < rest'}
        BY <2>1, <2>3 DEF Ats
  <2> QED
      BY <1>4, <2>2, <2>3, <2>4, SameConfig DEF ListInv
<1> QED
    BY <1>4, <1>5, <1>6, <1>7

\* Nothing is allocated, or a block of the library.
LEMMA HeapKept ==
  ASSUME IInv, pc = "keys", pc' = "keys", config' = config, rest' = rest + 1,
         heap' = heap \/ (heap' = heap \cup {rest} /\ lib' # NULL /\ rest \in Blocks(lib')),
         export'.libs = export.libs, \A e \in EntryPoints : export'[e] = export[e],
         lib # NULL => lib' # NULL /\ Blocks(lib) \subseteq Blocks(lib')
  PROVE  HeapInv'
<1>1. Handling /\ rest \in 1 .. Len(config.keys) + 1 /\ DOMAIN config.keys = 1 .. Len(config.keys) /\ Len(config.keys) \in Nat
      BY Handled, KeysTyped
<1>2. Reachable' = Reachable
  <2>1. Libs' = Libs /\ Ats(export.libs)' = Ats(export.libs)
        BY DEF Libs, Ats
  <2>2. \A e \in EntryPoints : {export'[e][i] : i \in DOMAIN export'[e]} = {export[e][i] : i \in DOMAIN export[e]}
        OBVIOUS
  <2> QED
      BY <2>1, <2>2 DEF Reachable
<1>3. /\ \A e \in EntryPoints : export[e] # NULL =>
           \E i \in DOMAIN config.keys : export[e] = <<i>> /\ i < rest /\ KeyAt(i).key = e
      /\ \A i \in heap : i \in Reachable \/ (lib # NULL /\ i \in Blocks(lib)) \/ Replaced(i)
      BY <1>1 DEF IInv, HeapInv
<1>4. \A i \in heap' : i \in Reachable' \/ (lib' # NULL /\ i \in Blocks(lib')) \/ Replaced(i)
      BY <1>2, <1>3
<1>5. \A e \in EntryPoints : export'[e] # NULL =>
        \E i \in DOMAIN config.keys : export'[e] = <<i>> /\ i < rest' /\ KeyAt(i).key = e
      BY <1>1, <1>3
<1>6. \A l : Blocks(l)' = Blocks(l)
      BY DEF Blocks, Ats
<1> QED
    BY <1>4, <1>5, SameConfig DEF HeapInv, Blocks

\* A record is not the null pointer.
LEMMA RecordsAreNotNull ==
  (\A l \in LibraryType : l # NULL) /\ (\A e \in ExportType : e # NULL)
<1>1. \A l \in LibraryType : "at" \in DOMAIN l
      BY DEF LibraryType
<1>2. \A e \in ExportType : "libs" \in DOMAIN e
      BY DEF ExportType
<1>3. DOMAIN NULL = {}
      BY DEF NULL
<1> QED
    BY <1>1, <1>2, <1>3

\* The library that a key belongs to.
LEMMA LibraryOpen ==
  ASSUME IInv, pc = "keys", rest \in DOMAIN config.keys, KeyAt(rest).key \in LibraryKeys \cup {"end"}
  PROVE  lib # NULL /\ lib \in LibraryType /\ Open(lib, rest)
<1>1. ConfigOK(config) /\ lib \in {NULL} \cup LibraryType
      BY Handled
<1>2. InLibrary(config.keys, rest)
      BY <1>1, Places
<1> QED
    BY <1>1, <1>2 DEF IInv, LibInv

\* A key of a library.
LEMMA LibraryKeyKeeps ==
  ASSUME IInv, pc = "keys", pc' = "keys", config' = config, rest' = rest + 1, rest \in DOMAIN config.keys,
         KeyAt(rest).key \in LibraryKeys, export' = export, lib' \in LibraryType, lib'.at = lib.at, Open(lib', rest + 1)
  PROVE  Control' /\ LibInv' /\ ListInv'
<1>1. /\ ConfigOK(config) /\ Handling /\ export \in ExportType /\ rest \in 1 .. Len(config.keys) + 1 /\ Len(config.keys) \in Nat
      BY Handled
<1>2. KeyAt(rest).key \notin {"library", "end", "error"}
      BY DEF LibraryKeys, SymbolKeys
<1>3. InLibrary(config.keys, rest + 1)
      BY <1>1, <1>2, Places, Nesting
<1>4. lib # NULL /\ lib' # NULL
      BY LibraryOpen, RecordsAreNotNull
<1>5. LibInv'
  <2>1. Open(lib, rest)'
        BY SameConfig
  <2> QED
      BY <1>3, <1>4, <2>1 DEF LibInv
<1>6. Control'
      BY <1>1, <1>2, ControlKept
<1>7. ListInv'
  <2>1. \A i \in Positions({"library"}) : i < rest + 1 <=> i < rest
    <3>1. \A i \in Positions({"library"}) : i \in Int /\ i # rest
          BY <1>1, <1>2, KeysTyped DEF Positions
    <3> QED
        BY <1>1, <3>1
  <2>2. /\ Ats(export.libs) = {i \in Positions({"library"}) : i < rest /\ i # lib.at}
        /\ \A l \in Libs : SaidOnce(Body(l.at)) /\ WellOrdered(l.at) => Said(l)
        BY <1>1, <1>4 DEF IInv, ListInv
  <2>3. Ats(export.libs)' = {i \in Positions({"library"}) : i < rest' /\ i # lib'.at} /\ Libs' = Libs
        BY <2>1, <2>2 DEF Ats, Libs
  <2> QED
      BY <1>4, <2>2, <2>3, SameConfig DEF ListInv
<1> QED
    BY <1>5, <1>6, <1>7

----------------------------------------------------------------------------
(* The handlers.                                                            *)

LEMMA NumberKeeps ==
  IInv /\ process_number => IInv'
<1> SUFFICES ASSUME IInv, process_number
             PROVE  IInv'
    OBVIOUS
<1>1. /\ pc = "keys" /\ rest \in DOMAIN config.keys /\ Key = KeyAt(rest) /\ KeyAt(rest).key \in Numbers
      /\ config' = config /\ lib' = lib /\ heap' = heap
      BY KeyRead DEF process_number
<1>2. /\ ConfigOK(config) /\ config.given /\ Handling /\ export \in ExportType
      /\ rest + 1 \in 1 .. Len(config.keys) + 1
      BY <1>1, Handled
<1>3. PICK n : n = process_32bit_integer(KeyAt(rest).value)
      OBVIOUS
<1>4. n \in 0 .. WORD - 1 /\ n <= KeyAt(rest).value /\ KeyAt(rest).value \in Nat
      BY <1>1, <1>2, <1>3, KeysTyped, Narrowed
<1>5. PICK k : k = KeyAt(rest).key
      OBVIOUS
<1>6. CASE n < Limit(k)
  <2>1. /\ export' = [export EXCEPT ![k] = IF k = "nid" THEN Given(n) ELSE n]
        /\ rest' = rest + 1 /\ pc' = "keys"
        BY <1>1, <1>3, <1>5, <1>6 DEF process_number, Continue
  <2>2. n \in Nat /\ Given(n) \in Seq(Nat)
        BY <1>4, Widths DEF Given
  <2>3. export' \in ExportType
    <3>1. CASE k = "attributes"
      <4>1. n \in 0 .. SHORT - 1
        <5>1. Limit(k) = SHORT
              BY <3>1 DEF Limit
        <5> QED
            BY <1>6, <2>2, <5>1, Widths
      <4>2. export' = [export EXCEPT !.attributes = n]
            BY <2>1, <3>1
      <4> QED
          BY <1>2, <4>1, <4>2 DEF ExportType
    <3>2. CASE k = "major"
      <4>1. n \in 0 .. BYTE - 1
        <5>1. Limit(k) = BYTE
              BY <3>2 DEF Limit
        <5> QED
            BY <1>6, <2>2, <5>1, Widths
      <4>2. export' = [export EXCEPT !.major = n]
            BY <2>1, <3>2
      <4> QED
          BY <1>2, <4>1, <4>2 DEF ExportType
    <3>3. CASE k = "minor"
      <4>1. n \in 0 .. BYTE - 1
        <5>1. Limit(k) = BYTE
              BY <3>3 DEF Limit
        <5> QED
            BY <1>6, <2>2, <5>1, Widths
      <4>2. export' = [export EXCEPT !.minor = n]
            BY <2>1, <3>3
      <4> QED
          BY <1>2, <4>1, <4>2 DEF ExportType
    <3>4. CASE k = "nid"
      <4>1. export' = [export EXCEPT !.nid = Given(n)]
            BY <2>1, <3>4
      <4> QED
          BY <1>2, <2>2, <4>1 DEF ExportType
    <3> QED
        BY <1>1, <1>5, <3>1, <3>2, <3>3, <3>4 DEF Numbers
  <2>4. export'.libs = export.libs /\ \A e \in EntryPoints : export'[e] = export[e]
        BY <1>1, <1>2, <1>5, <2>1 DEF ExportType, EntryPoints, Numbers
  <2>5. KeyAt(rest).key \in ModuleKeys
        BY <1>1 DEF ModuleKeys
  <2>6. Control' /\ LibInv' /\ ListInv'
        BY <1>1, <2>1, <2>3, <2>4, <2>5, ModuleKeyKeeps
  <2>7. HeapInv'
        BY <1>1, <2>1, <2>4, HeapKept
  <2>8. TypeOK'
        BY <1>1, <1>2, <2>1, <2>3 DEF IInv, TypeOK
  <2> QED
      BY <2>6, <2>7, <2>8 DEF IInv
<1>7. CASE ~ (n < Limit(k))
  <2>1. pc' = "failed" /\ rest' = rest /\ export' = export
        BY <1>1, <1>3, <1>5, <1>7 DEF process_number, Fail
  <2>2. Cause
    <3>1. k # "nid"
          BY <1>4, <1>7, Widths DEF Limit
    <3>2. \/ k = "attributes" /\ KeyAt(rest).value >= SHORT
          \/ k \in {"major", "minor"} /\ KeyAt(rest).value >= BYTE
          BY <1>1, <1>4, <1>5, <1>7, <3>1, Widths DEF Limit, Numbers
    <3> QED
        BY <1>1, <1>5, <3>2 DEF Cause, Positions
  <2> QED
      BY <1>1, <2>1, <2>2, FailKeeps
<1> QED
    BY <1>6, <1>7

LEMMA FlagKeeps ==
  IInv /\ process_flag => IInv'
<1> SUFFICES ASSUME IInv, process_flag
             PROVE  IInv'
    OBVIOUS
<1>1. /\ pc = "keys" /\ rest \in DOMAIN config.keys /\ Key = KeyAt(rest) /\ KeyAt(rest).key \in Flags
      /\ config' = config /\ lib' = lib /\ heap' = heap /\ rest' = rest + 1 /\ pc' = "keys"
      /\ export' = [export EXCEPT ![KeyAt(rest).key] = KeyAt(rest).value % 2]
      BY KeyRead DEF process_flag, Continue
<1>2. ConfigOK(config) /\ export \in ExportType /\ rest + 1 \in 1 .. Len(config.keys) + 1
      BY <1>1, Handled
<1>3. KeyAt(rest).value % 2 \in {0, 1}
  <2>1. KeyAt(rest).value \in Nat
        BY <1>1, <1>2, KeysTyped
  <2> QED
      BY <2>1
<1>4. export' \in ExportType
  <2>1. CASE KeyAt(rest).key = "process_image"
    <3>1. export' = [export EXCEPT !.process_image = KeyAt(rest).value % 2]
          BY <1>1, <2>1
    <3> QED
        BY <1>2, <1>3, <3>1 DEF ExportType
  <2>2. CASE KeyAt(rest).key = "imagemodule"
    <3>1. export' = [export EXCEPT !.imagemodule = KeyAt(rest).value % 2]
          BY <1>1, <2>2
    <3> QED
        BY <1>2, <1>3, <3>1 DEF ExportType
  <2> QED
      BY <1>1, <2>1, <2>2 DEF Flags
<1>5. export'.libs = export.libs /\ \A e \in EntryPoints : export'[e] = export[e]
      BY <1>1, <1>2 DEF ExportType, EntryPoints, Flags
<1>6. KeyAt(rest).key \in ModuleKeys
      BY <1>1 DEF ModuleKeys
<1>7. Control' /\ LibInv' /\ ListInv'
      BY <1>1, <1>4, <1>5, <1>6, ModuleKeyKeeps
<1>8. HeapInv'
      BY <1>1, <1>5, HeapKept
<1>9. TypeOK'
      BY <1>1, <1>2, <1>4 DEF IInv, TypeOK
<1> QED
    BY <1>7, <1>8, <1>9 DEF IInv

LEMMA EntryPointKeeps ==
  IInv /\ process_syslib_list => IInv'
<1> SUFFICES ASSUME IInv, process_syslib_list
             PROVE  IInv'
    OBVIOUS
<1>1. PICK e \in EntryPoints : e = KeyAt(rest).key
      BY KeyRead DEF process_syslib_list
<1>2. /\ pc = "keys" /\ rest \in DOMAIN config.keys
      /\ config' = config /\ lib' = lib /\ heap' = heap \cup {rest} /\ rest' = rest + 1 /\ pc' = "keys"
      /\ export' = [export EXCEPT ![e] = <<rest>>]
      BY <1>1, KeyRead DEF process_syslib_list, Continue
<1>3. /\ ConfigOK(config) /\ Handling /\ export \in ExportType /\ rest + 1 \in 1 .. Len(config.keys) + 1
      /\ heap \subseteq 0 .. Len(config.keys) /\ Len(config.keys) \in Nat /\ DOMAIN config.keys = 1 .. Len(config.keys)
      BY <1>2, Handled, KeysTyped
<1>4. <<rest>> \in EntryPointType /\ rest \in Nat
      BY <1>2, <1>3 DEF EntryPointType
<1>5. export' \in ExportType
  <2>1. CASE e = "start"
    <3>1. export' = [export EXCEPT !.start = <<rest>>]
          BY <1>2, <2>1
    <3> QED
        BY <1>3, <1>4, <3>1 DEF ExportType
  <2>2. CASE e = "bootstart"
    <3>1. export' = [export EXCEPT !.bootstart = <<rest>>]
          BY <1>2, <2>2
    <3> QED
        BY <1>3, <1>4, <3>1 DEF ExportType
  <2>3. CASE e = "stop"
    <3>1. export' = [export EXCEPT !.stop = <<rest>>]
          BY <1>2, <2>3
    <3> QED
        BY <1>3, <1>4, <3>1 DEF ExportType
  <2>4. CASE e = "exit"
    <3>1. export' = [export EXCEPT !.exit = <<rest>>]
          BY <1>2, <2>4
    <3> QED
        BY <1>3, <1>4, <3>1 DEF ExportType
  <2> QED
      BY <1>1, <2>1, <2>2, <2>3, <2>4 DEF EntryPoints
<1>6. export'.libs = export.libs
      BY <1>1, <1>2, <1>3 DEF ExportType, EntryPoints
<1>7. /\ \A f \in EntryPoints : f # e => export'[f] = export[f]
      /\ export'[e] = <<rest>>
      BY <1>1, <1>2, <1>3 DEF ExportType, EntryPoints
<1>8. KeyAt(rest).key \in ModuleKeys
      BY <1>1 DEF ModuleKeys
<1>9. Control' /\ LibInv' /\ ListInv' /\ lib = NULL
      BY <1>2, <1>5, <1>6, <1>8, ModuleKeyKeeps
<1>10. HeapInv'
  <2>1. /\ \A f \in EntryPoints : export[f] # NULL =>
             \E i \in DOMAIN config.keys : export[f] = <<i>> /\ i < rest /\ KeyAt(i).key = f
        /\ \A i \in heap : i \in Reachable \/ Replaced(i)
        BY <1>2, <1>3, <1>9 DEF IInv, HeapInv
  <2>2. \A f \in EntryPoints : export'[f] # NULL =>
          \E i \in DOMAIN config.keys : export'[f] = <<i>> /\ i < rest' /\ KeyAt(i).key = f
    <3> SUFFICES ASSUME NEW f \in EntryPoints, export'[f] # NULL
                 PROVE  \E i \in DOMAIN config.keys : export'[f] = <<i>> /\ i < rest' /\ KeyAt(i).key = f
        OBVIOUS
    <3>1. CASE f = e
          BY <1>1, <1>2, <1>4, <1>7, <3>1
    <3>2. CASE f # e
      <4>1. PICK i \in DOMAIN config.keys : export[f] = <<i>> /\ i < rest /\ KeyAt(i).key = f
            BY <1>7, <2>1, <3>2
      <4> QED
          BY <1>2, <1>3, <1>4, <1>7, <3>2, <4>1
    <3> QED
        BY <3>1, <3>2
  <2> DEFINE Points(x) == {x[i] : i \in DOMAIN x}
             Others == {0} \cup Ats(export.libs) \cup (UNION {Ats(l.functions) \cup Ats(l.variables) : l \in Libs})
             Now == UNION {Points(export[f]) : f \in EntryPoints}
             Then == UNION {Points(export'[f]) : f \in EntryPoints}
  <2>3. Reachable = Others \cup Now /\ Reachable' = Others \cup Then
    <3>1. Libs' = Libs /\ Ats(export.libs)' = Ats(export.libs)
          BY <1>6 DEF Libs, Ats
    <3> QED
        BY <3>1 DEF Reachable
  <2>4. rest \in Points(export'[e]) /\ \A i : Points(<<i>>) = {i}
        BY <1>7
  <2> HIDE DEF Points
  <2>5. rest \in Reachable'
    <3>1. rest \in Then
          BY <1>1, <2>4
    <3> HIDE DEF Then, Others
    <3> QED
        BY <2>3, <3>1
  <2>6. ASSUME NEW i \in Reachable
        PROVE  i \in Reachable' \/ Replaced(i)
    <3>1. CASE i \in Points(export[e])
      <4>1. export[e] # NULL
            BY <3>1 DEF NULL, Points
      <4>2. PICK j \in DOMAIN config.keys : export[e] = <<j>> /\ j < rest /\ KeyAt(j).key = e
            BY <1>1, <2>1, <4>1
      <4>3. i = j
            BY <2>4, <3>1, <4>2
      <4>4. rest \in Positions(EntryPoints) /\ rest > j
            BY <1>1, <1>2, <1>3, <4>2 DEF Positions
      <4> QED
          BY <1>1, <4>2, <4>3, <4>4 DEF Replaced
    <3>2. CASE i \notin Points(export[e])
      <4>1. \A f \in EntryPoints : i \in Points(export[f]) => i \in Points(export'[f])
            BY <1>7, <3>2
      <4>2. i \in Now => i \in Then
            BY <4>1
      <4> HIDE DEF Now, Then, Others
      <4> QED
          BY <2>3, <4>2
    <3> QED
        BY <3>1, <3>2
  <2>7. \A i \in heap' : i \in Reachable' \/ Replaced(i)
        BY <1>2, <2>1, <2>5, <2>6
  <2> QED
      BY <1>2, <2>2, <2>7, SameConfig DEF HeapInv
<1>11. TypeOK'
  <2>1. heap' \subseteq 0 .. Len(config'.keys)
        BY <1>2, <1>3
  <2> QED
      BY <1>2, <1>3, <1>5, <2>1 DEF IInv, TypeOK
<1> QED
    BY <1>9, <1>10, <1>11 DEF IInv

LEMMA LibraryKeeps ==
  IInv /\ process_export_list => IInv'
<1> SUFFICES ASSUME IInv, process_export_list
             PROVE  IInv'
    OBVIOUS
<1>1. /\ pc = "keys" /\ rest \in DOMAIN config.keys /\ Key = KeyAt(rest) /\ KeyAt(rest).key = "library"
      /\ config' = config /\ export' = export /\ heap' = heap \cup {rest} /\ rest' = rest + 1 /\ pc' = "keys"
      /\ lib' = [at |-> rest, name |-> KeyAt(rest).value, nid |-> HashOf(KeyAt(rest).value), syscall |-> 0, version |-> 1,
                 functions |-> <<>>, variables |-> <<>>]
  <2>1. pc = "keys" /\ rest \in DOMAIN config.keys /\ Key = KeyAt(rest) /\ KeyAt(rest).key \in {"library"}
        BY KeyRead DEF process_export_list
  <2> QED
      BY <2>1 DEF process_export_list, Continue
<1>2. /\ ConfigOK(config) /\ Handling /\ export \in ExportType /\ rest \in 1 .. Len(config.keys) + 1
      /\ rest + 1 \in 1 .. Len(config.keys) + 1 /\ heap \subseteq 0 .. Len(config.keys)
      /\ Len(config.keys) \in Nat /\ DOMAIN config.keys = 1 .. Len(config.keys) /\ KeyAt(rest).value \in Nat
      BY <1>1, Handled, KeysTyped
<1>3. lib = NULL
  <2>1. ~ InLibrary(config.keys, rest)
        BY <1>1, <1>2, Places
  <2> QED
      BY <1>1, <2>1 DEF IInv, LibInv
<1>4. lib' \in LibraryType /\ lib' # NULL
  <2>1. HashOf(KeyAt(rest).value) \in Seq(Nat) /\ <<>> \in Seq(SymbolType) /\ 1 \in 0 .. SHORT - 1
        BY <1>2, Widths DEF HashOf
  <2>2. lib' \in LibraryType
        BY <1>1, <1>2, <2>1 DEF LibraryType
  <2> QED
      BY <2>2, RecordsAreNotNull
<1>5. Open(lib', rest + 1)
  <2>1. rest \in Nat /\ rest < rest + 1 /\ \A k \in rest .. rest + 1 - 1 : k = rest
        BY <1>2
  <2>2. Before(rest, rest + 1) = {}
    <3>1. \A j \in Body(rest) : j \in Int /\ j > rest
          BY <1>2 DEF Body
    <3> QED
        BY <2>1, <3>1 DEF Before
  <2>3. \A key : Saying({}, key) = {}
        BY DEF Saying
  <2>4. \A key, d : ValueOf({}, key, d) = d
        BY <2>3 DEF ValueOf
  <2>5. 1 % WORD = 1 /\ 0 % 2 = 0
    <3>1. 1 % WORD = 1
          BY Widths, ModSmall
    <3>2. 0 % 2 = 0
          OBVIOUS
    <3> QED
        BY <3>1, <3>2
  <2>6. /\ Symbols(lib') = {} /\ Ats(lib'.functions) = {} /\ Ats(lib'.variables) = {}
        /\ lib'.at = rest /\ lib'.name = KeyAt(rest).value
        /\ lib'.version = 1 /\ lib'.syscall = 0 /\ lib'.nid = HashOf(KeyAt(rest).value)
        BY <1>1 DEF Symbols, Ats
  <2>7. NidSoFar(rest, {}) = HashOf(KeyAt(rest).value)
        BY <2>3 DEF NidSoFar
  <2>8. SaidSoFar(lib', rest + 1)
        BY <2>2, <2>4, <2>5, <2>6, <2>7 DEF SaidSoFar
  <2>9. \A k \in rest .. rest + 1 - 1 : KeyAt(k).key # "end" /\ (k > rest => KeyAt(k).key # "library")
        BY <1>1, <2>1
  <2>10. /\ Ats(lib'.functions) = Saying(Before(lib'.at, rest + 1), "function")
         /\ Ats(lib'.variables) = Saying(Before(lib'.at, rest + 1), "variable")
         BY <2>2, <2>3, <2>6
  <2>11. \A s \in Symbols(lib') : s.name = KeyAt(s.at).value
         BY <2>6
  <2> QED
      BY <1>1, <2>1, <2>6, <2>8, <2>9, <2>10, <2>11 DEF Open
<1>6. LibInv'
  <2>1. InLibrary(config.keys, rest + 1)
        BY <1>1, <1>2, Nesting
  <2>2. Open(lib, rest)'
        BY <1>1, <1>5, SameConfig
  <2> QED
      BY <1>1, <1>4, <2>1, <2>2 DEF LibInv
<1>7. Control'
      BY <1>1, <1>2, ControlKept
<1>8. ListInv'
  <2>1. \A i \in Positions({"library"}) : i < rest <=> i < rest + 1 /\ i # rest
    <3>1. \A i \in Positions({"library"}) : i \in Int
          BY <1>2 DEF Positions
    <3> QED
        BY <1>2, <3>1
  <2>2. /\ Ats(export.libs) = {i \in Positions({"library"}) : i < rest}
        /\ \A l \in Libs : SaidOnce(Body(l.at)) /\ WellOrdered(l.at) => Said(l)
        BY <1>2, <1>3 DEF IInv, ListInv
  <2>3. Ats(export.libs)' = {i \in Positions({"library"}) : i < rest' /\ i # lib'.at} /\ Libs' = Libs
        BY <1>1, <2>1, <2>2 DEF Ats, Libs
  <2> QED
      BY <1>1, <1>4, <2>2, <2>3, SameConfig DEF ListInv
<1>9. HeapInv'
  <2>1. rest \in Blocks(lib')
        BY <1>1 DEF Blocks
  <2> QED
      BY <1>1, <1>3, <1>4, <2>1, HeapKept
<1>10. TypeOK'
  <2>1. heap' \subseteq 0 .. Len(config'.keys)
        BY <1>1, <1>2
  <2> QED
      BY <1>1, <1>2, <1>4, <2>1 DEF IInv, TypeOK
<1> QED
    BY <1>6, <1>7, <1>8, <1>9, <1>10 DEF IInv

LEMMA AppendLibraryKeeps ==
  IInv /\ AppendLibrary => IInv'
<1> SUFFICES ASSUME IInv, AppendLibrary
             PROVE  IInv'
    OBVIOUS
<1>1. /\ pc = "keys" /\ rest \in DOMAIN config.keys /\ KeyAt(rest).key = "end"
      /\ config' = config /\ lib' = NULL /\ heap' = heap /\ rest' = rest + 1 /\ pc' = "keys"
      /\ export' = [export EXCEPT !.libs = Append(export.libs, lib)]
  <2>1. pc = "keys" /\ rest \in DOMAIN config.keys /\ KeyAt(rest).key \in {"end"}
        BY KeyRead DEF AppendLibrary
  <2> QED
      BY <2>1 DEF AppendLibrary, Continue
<1>2. /\ ConfigOK(config) /\ Handling /\ export \in ExportType /\ rest \in 1 .. Len(config.keys) + 1
      /\ rest + 1 \in 1 .. Len(config.keys) + 1 /\ heap \subseteq 0 .. Len(config.keys)
      /\ Len(config.keys) \in Nat /\ DOMAIN config.keys = 1 .. Len(config.keys)
      BY <1>1, Handled, KeysTyped
<1>3. lib # NULL /\ lib \in LibraryType /\ Open(lib, rest)
      BY <1>1, LibraryOpen
<1>4. export.libs \in Seq(LibraryType)
      BY <1>2 DEF ExportType
<1>5. /\ export'.libs \in Seq(LibraryType)
      /\ Libs' = Libs \cup {lib}
      /\ Ats(export'.libs) = Ats(export.libs) \cup {lib.at}
  <2>1. export'.libs = Append(export.libs, lib)
        BY <1>1, <1>2 DEF ExportType
  <2> QED
      BY <1>3, <1>4, <2>1, Appended DEF Libs
<1>6. export' \in ExportType /\ \A e \in EntryPoints : export'[e] = export[e]
      BY <1>1, <1>2, <1>5 DEF ExportType, EntryPoints
<1>7. LibInv'
  <2>1. ~ InLibrary(config.keys, rest + 1)
        BY <1>1, <1>2, Nesting
  <2> QED
      BY <1>1, <2>1 DEF LibInv
<1>8. Control'
      BY <1>1, <1>6, ControlKept
<1>9. ListInv'
  <2>1. lib.at \in Positions({"library"}) /\ lib.at < rest
        BY <1>3 DEF Open, Positions
  <2>2. \A i \in Positions({"library"}) : i < rest + 1 <=> i < rest
    <3>1. \A i \in Positions({"library"}) : i \in Int /\ i # rest
          BY <1>1, <1>2 DEF Positions
    <3> QED
        BY <1>2, <3>1
  <2>3. /\ Ats(export.libs) = {i \in Positions({"library"}) : i < rest /\ i # lib.at}
        /\ \A l \in Libs : SaidOnce(Body(l.at)) /\ WellOrdered(l.at) => Said(l)
        BY <1>2, <1>3 DEF IInv, ListInv
  <2>4. Ats(export'.libs) = {i \in Positions({"library"}) : i < rest + 1}
        BY <1>5, <2>1, <2>2, <2>3
  <2>5. \A l \in Libs' : SaidOnce(Body(l.at)) /\ WellOrdered(l.at) => Said(l)
        BY <1>1, <1>2, <1>3, <1>5, <2>3, ClosedSaid
  <2>6. Ats(export.libs)' = Ats(export'.libs)
        BY DEF Ats
  <2> QED
      BY <1>1, <2>4, <2>5, <2>6, SameConfig DEF ListInv
<1>10. HeapInv'
  <2>1. /\ \A e \in EntryPoints : export[e] # NULL =>
             \E i \in DOMAIN config.keys : export[e] = <<i>> /\ i < rest /\ KeyAt(i).key = e
        /\ \A i \in heap : i \in Reachable \/ i \in Blocks(lib) \/ Replaced(i)
        BY <1>1, <1>2 DEF IInv, HeapInv
  <2> DEFINE Held(l) == Ats(l.functions) \cup Ats(l.variables)
             Now == UNION {Held(l) : l \in Libs}
             Then == UNION {Held(l) : l \in Libs'}
             Others == UNION {{export[e][i] : i \in DOMAIN export[e]} : e \in EntryPoints}
  <2>2. /\ Reachable = {0} \cup Ats(export.libs) \cup Now \cup Others
        /\ Reachable' = {0} \cup Ats(export'.libs) \cup Then \cup Others
    <3>1. Ats(export.libs)' = Ats(export'.libs)
          BY DEF Ats
    <3>2. \A e \in EntryPoints : {export'[e][i] : i \in DOMAIN export'[e]} = {export[e][i] : i \in DOMAIN export[e]}
          BY <1>6
    <3>3. UNION {{export'[e][i] : i \in DOMAIN export'[e]} : e \in EntryPoints} = Others
          BY <3>2
    <3> QED
        BY <3>1, <3>3 DEF Reachable
  <2>3. Now \subseteq Then /\ Held(lib) \subseteq Then
        BY <1>5
  <2> HIDE DEF Now, Then, Others
  <2>4. \A i \in Reachable : i \in Reachable'
        BY <1>5, <2>2, <2>3
  <2>5. \A i \in Blocks(lib) : i \in Reachable'
        BY <1>5, <2>2, <2>3 DEF Blocks
  <2>6. \A e \in EntryPoints : export'[e] # NULL =>
          \E i \in DOMAIN config.keys : export'[e] = <<i>> /\ i < rest' /\ KeyAt(i).key = e
    <3>1. \A i \in DOMAIN config.keys : i < rest => i < rest + 1
          BY <1>1, <1>2
    <3>2. SUFFICES ASSUME NEW e \in EntryPoints, export'[e] # NULL
                   PROVE  \E i \in DOMAIN config.keys : export'[e] = <<i>> /\ i < rest' /\ KeyAt(i).key = e
          OBVIOUS
    <3>3. export'[e] = export[e]
          BY <1>6
    <3>4. PICK i \in DOMAIN config.keys : export[e] = <<i>> /\ i < rest /\ KeyAt(i).key = e
          BY <2>1, <3>2, <3>3
    <3>5. i < rest'
          BY <1>1, <3>1, <3>4
    <3> QED
        BY <3>3, <3>4, <3>5
  <2>7. (\A i : KeyAt(i)' = KeyAt(i)) /\ (\A i : Replaced(i)' <=> Replaced(i)) /\ config' = config
        BY <1>1, SameConfig
  <2>8. \A i \in heap' : i \in Reachable' \/ Replaced(i)'
        BY <1>1, <1>2, <2>1, <2>4, <2>5, <2>7
  <2>9. \A e \in EntryPoints : export'[e] # NULL =>
          \E i \in DOMAIN config'.keys : export'[e] = <<i>> /\ i < rest' /\ KeyAt(i)'.key = e
        BY <2>6, <2>7
  <2>10. pc' = "keys"
         BY <1>1, <1>2
  <2> QED
      BY <2>8, <2>9, <2>10 DEF HeapInv
<1>11. TypeOK'
      BY <1>1, <1>2, <1>6 DEF IInv, TypeOK
<1> QED
    BY <1>7, <1>8, <1>9, <1>10, <1>11 DEF IInv

LEMMA SyscallKeeps ==
  IInv /\ process_syscall => IInv'
<1> SUFFICES ASSUME IInv, process_syscall
             PROVE  IInv'
    OBVIOUS
<1>1. /\ pc = "keys" /\ rest \in DOMAIN config.keys /\ KeyAt(rest).key = "syscall"
      /\ config' = config /\ export' = export /\ heap' = heap /\ rest' = rest + 1 /\ pc' = "keys"
      /\ lib' = [lib EXCEPT !.syscall = KeyAt(rest).value % 2]
  <2>1. pc = "keys" /\ rest \in DOMAIN config.keys /\ Key = KeyAt(rest) /\ KeyAt(rest).key \in {"syscall"}
        BY KeyRead DEF process_syscall
  <2> QED
      BY <2>1 DEF process_syscall, Continue
<1>2. /\ ConfigOK(config) /\ export \in ExportType /\ rest + 1 \in 1 .. Len(config.keys) + 1
      /\ lib # NULL /\ lib \in LibraryType /\ Open(lib, rest) /\ KeyAt(rest).key \in LibraryKeys
      BY <1>1, Handled, LibraryOpen DEF LibraryKeys
<1>3. KeyAt(rest).value % 2 \in {0, 1}
  <2>1. KeyAt(rest).value \in Nat
        BY <1>1, <1>2, KeysTyped
  <2> QED
      BY <2>1
<1>4. /\ lib' \in LibraryType /\ lib'.at = lib.at /\ lib'.name = lib.name
      /\ lib'.functions = lib.functions /\ lib'.variables = lib.variables
      /\ lib'.version = lib.version /\ lib'.syscall = KeyAt(rest).value % 2 /\ lib'.nid = lib.nid
      BY <1>1, <1>2, <1>3 DEF LibraryType
<1>5. ASSUME SaidOnce(Body(lib.at)), WellOrdered(lib.at), SaidSoFar(lib, rest)
      PROVE  LET S == Before(lib.at, rest) \cup {rest}
             IN /\ lib'.version = ValueOf(S, "version", 1) % WORD
                /\ lib'.syscall = ValueOf(S, "syscall", 0) % 2
                /\ lib'.nid = NidSoFar(lib.at, S)
  <2>1. rest \in Body(lib.at)
        BY <1>1, <1>2, BodyGrows
  <2>2. /\ ValueOf(Before(lib.at, rest) \cup {rest}, "syscall", 0) = KeyAt(rest).value
        /\ ValueOf(Before(lib.at, rest) \cup {rest}, "version", 1) = ValueOf(Before(lib.at, rest), "version", 1)
    <3>1. KeyAt(rest).key # "version"
          BY <1>1
    <3>2. \A key \in OfOneValue : \A d :
            KeyAt(rest).key = key => ValueOf(Before(lib.at, rest) \cup {rest}, key, d) = KeyAt(rest).value
          BY <1>2, <1>5, <2>1, ValueSaid
    <3>3. KeyAt(rest).key \in OfOneValue
          BY <1>1 DEF OfOneValue
    <3> QED
        BY <1>1, <3>1, <3>2, <3>3, ValueUnsaid
  <2>3. NidSoFar(lib.at, Before(lib.at, rest) \cup {rest}) = NidSoFar(lib.at, Before(lib.at, rest))
    <3>1. KeyAt(rest).key # "version" /\ KeyAt(rest).key # "libnid"
          BY <1>1
    <3>2. \A key \in {"libnid", "version"} : Saying(Before(lib.at, rest) \cup {rest}, key) = Saying(Before(lib.at, rest), key)
          BY <3>1, SayingOther
    <3> QED
        BY <3>2, NidSame
  <2> QED
      BY <1>4, <1>5, <2>2, <2>3 DEF SaidSoFar
<1>6. Open(lib', rest + 1)
      BY <1>1, <1>2, <1>4, <1>5, ValueTaken
<1>7. Control' /\ LibInv' /\ ListInv'
      BY <1>1, <1>2, <1>4, <1>6, LibraryKeyKeeps
<1>8. HeapInv'
      BY <1>1, <1>2, <1>4, RecordsAreNotNull, HeapKept DEF Blocks
<1>9. TypeOK'
      BY <1>1, <1>2, <1>4 DEF IInv, TypeOK
<1> QED
    BY <1>7, <1>8, <1>9 DEF IInv

LEMMA NidKeeps ==
  IInv /\ process_nid => IInv'
<1> SUFFICES ASSUME IInv, process_nid
             PROVE  IInv'
    OBVIOUS
<1>1. /\ pc = "keys" /\ rest \in DOMAIN config.keys /\ KeyAt(rest).key = "libnid"
      /\ config' = config /\ export' = export /\ heap' = heap /\ rest' = rest + 1 /\ pc' = "keys"
      /\ lib' = [lib EXCEPT !.nid = Given(KeyAt(rest).value % WORD)]
  <2>1. pc = "keys" /\ rest \in DOMAIN config.keys /\ Key = KeyAt(rest) /\ KeyAt(rest).key \in {"libnid"}
        BY KeyRead DEF process_nid
  <2> QED
      BY <2>1 DEF process_nid, Continue, process_32bit_integer
<1>2. /\ ConfigOK(config) /\ export \in ExportType /\ rest + 1 \in 1 .. Len(config.keys) + 1
      /\ lib # NULL /\ lib \in LibraryType /\ Open(lib, rest) /\ KeyAt(rest).key \in LibraryKeys
      BY <1>1, Handled, LibraryOpen DEF LibraryKeys
<1>3. Given(KeyAt(rest).value % WORD) \in Seq(Nat)
  <2>1. KeyAt(rest).value \in Nat
        BY <1>1, <1>2, KeysTyped
  <2>2. KeyAt(rest).value % WORD \in 0 .. WORD - 1
        BY <2>1, Narrowed DEF process_32bit_integer
  <2>3. KeyAt(rest).value % WORD \in Nat
        BY <2>2, Widths
  <2> QED
      BY <2>3 DEF Given
<1>4. /\ lib' \in LibraryType /\ lib'.at = lib.at /\ lib'.name = lib.name
      /\ lib'.functions = lib.functions /\ lib'.variables = lib.variables
      /\ lib'.version = lib.version /\ lib'.syscall = lib.syscall /\ lib'.nid = Given(KeyAt(rest).value % WORD)
      BY <1>1, <1>2, <1>3 DEF LibraryType
<1>5. ASSUME SaidOnce(Body(lib.at)), WellOrdered(lib.at), SaidSoFar(lib, rest)
      PROVE  LET S == Before(lib.at, rest) \cup {rest}
             IN /\ lib'.version = ValueOf(S, "version", 1) % WORD
                /\ lib'.syscall = ValueOf(S, "syscall", 0) % 2
                /\ lib'.nid = NidSoFar(lib.at, S)
  <2>1. rest \in Body(lib.at)
        BY <1>1, <1>2, BodyGrows
  <2>2. /\ ValueOf(Before(lib.at, rest) \cup {rest}, "syscall", 0) = ValueOf(Before(lib.at, rest), "syscall", 0)
        /\ ValueOf(Before(lib.at, rest) \cup {rest}, "version", 1) = ValueOf(Before(lib.at, rest), "version", 1)
        /\ ValueOf(Before(lib.at, rest) \cup {rest}, "libnid", 0) = KeyAt(rest).value
    <3>1. KeyAt(rest).key # "version" /\ KeyAt(rest).key # "syscall"
          BY <1>1
    <3>2. /\ ValueOf(Before(lib.at, rest) \cup {rest}, "syscall", 0) = ValueOf(Before(lib.at, rest), "syscall", 0)
          /\ ValueOf(Before(lib.at, rest) \cup {rest}, "version", 1) = ValueOf(Before(lib.at, rest), "version", 1)
          BY <3>1, ValueUnsaid
    <3>3. "libnid" \in OfOneValue
          BY DEF OfOneValue
    <3>4. ValueOf(Before(lib.at, rest) \cup {rest}, "libnid", 0) = KeyAt(rest).value
          BY <1>1, <1>2, <1>5, <2>1, <3>3, ValueSaid
    <3> QED
        BY <3>2, <3>4
  <2>3. rest \in Saying(Before(lib.at, rest) \cup {rest}, "libnid")
        BY <1>1 DEF Saying
  <2>4. NidSoFar(lib.at, Before(lib.at, rest) \cup {rest}) = Given(KeyAt(rest).value % WORD)
        BY <2>2, <2>3 DEF NidSoFar
  <2> QED
      BY <1>4, <1>5, <2>2, <2>4 DEF SaidSoFar
<1>6. Open(lib', rest + 1)
      BY <1>1, <1>2, <1>4, <1>5, ValueTaken
<1>7. Control' /\ LibInv' /\ ListInv'
      BY <1>1, <1>2, <1>4, <1>6, LibraryKeyKeeps
<1>8. HeapInv'
      BY <1>1, <1>2, <1>4, RecordsAreNotNull, HeapKept DEF Blocks
<1>9. TypeOK'
      BY <1>1, <1>2, <1>4 DEF IInv, TypeOK
<1> QED
    BY <1>7, <1>8, <1>9 DEF IInv

LEMMA VersionKeeps ==
  IInv /\ process_version => IInv'
<1> SUFFICES ASSUME IInv, process_version
             PROVE  IInv'
    OBVIOUS
<1>1. PICK v : v = process_32bit_integer(KeyAt(rest).value)
      OBVIOUS
<1>2. /\ pc = "keys" /\ rest \in DOMAIN config.keys /\ KeyAt(rest).key = "version"
      /\ config' = config /\ export' = export /\ heap' = heap
      /\ IF v < SHORT
         THEN /\ lib' = [lib EXCEPT !.version = v, !.nid = HashOfVersion(v, lib.name)]
              /\ Continue
         ELSE Fail /\ UNCHANGED lib
  <2>1. pc = "keys" /\ rest \in DOMAIN config.keys /\ Key = KeyAt(rest) /\ KeyAt(rest).key \in {"version"}
        BY KeyRead DEF process_version
  <2> QED
      BY <1>1, <2>1 DEF process_version
<1>3. /\ ConfigOK(config) /\ export \in ExportType /\ rest + 1 \in 1 .. Len(config.keys) + 1
      /\ lib # NULL /\ lib \in LibraryType /\ Open(lib, rest) /\ KeyAt(rest).key \in LibraryKeys
      BY <1>2, Handled, LibraryOpen DEF LibraryKeys
<1>4. v \in Nat /\ v <= KeyAt(rest).value /\ KeyAt(rest).value \in Nat
  <2>1. KeyAt(rest).value \in Nat
        BY <1>2, <1>3, KeysTyped
  <2>2. v \in 0 .. WORD - 1 /\ v <= KeyAt(rest).value
        BY <1>1, <2>1, Narrowed
  <2> QED
      BY <2>1, <2>2, Widths
<1>5. CASE v < SHORT
  <2>1. /\ lib' = [lib EXCEPT !.version = v, !.nid = HashOfVersion(v, lib.name)]
        /\ rest' = rest + 1 /\ pc' = "keys"
        BY <1>2, <1>5 DEF Continue
  <2>2. v \in 0 .. SHORT - 1 /\ HashOfVersion(v, lib.name) \in Seq(Nat)
    <3>1. lib.name \in Nat
          BY <1>3 DEF LibraryType
    <3>2. HashOfVersion(v, lib.name) \in Seq(Nat)
          BY <1>4, <3>1 DEF HashOfVersion
    <3> QED
        BY <1>4, <1>5, <3>2, Widths
  <2>3. /\ lib' \in LibraryType /\ lib'.at = lib.at /\ lib'.name = lib.name
        /\ lib'.functions = lib.functions /\ lib'.variables = lib.variables
        /\ lib'.version = v /\ lib'.syscall = lib.syscall /\ lib'.nid = HashOfVersion(v, lib.name)
        BY <1>3, <2>1, <2>2 DEF LibraryType
  <2>4. ASSUME SaidOnce(Body(lib.at)), WellOrdered(lib.at), SaidSoFar(lib, rest)
        PROVE  LET S == Before(lib.at, rest) \cup {rest}
               IN /\ lib'.version = ValueOf(S, "version", 1) % WORD
                  /\ lib'.syscall = ValueOf(S, "syscall", 0) % 2
                  /\ lib'.nid = NidSoFar(lib.at, S)
    <3>1. rest \in Body(lib.at)
          BY <1>2, <1>3, BodyGrows
    <3>2. /\ ValueOf(Before(lib.at, rest) \cup {rest}, "syscall", 0) = ValueOf(Before(lib.at, rest), "syscall", 0)
          /\ ValueOf(Before(lib.at, rest) \cup {rest}, "version", 1) = KeyAt(rest).value
      <4>1. KeyAt(rest).key # "syscall"
            BY <1>2
      <4>2. \A key \in OfOneValue : \A d :
              KeyAt(rest).key = key => ValueOf(Before(lib.at, rest) \cup {rest}, key, d) = KeyAt(rest).value
            BY <1>3, <2>4, <3>1, ValueSaid
      <4>3. KeyAt(rest).key \in OfOneValue
            BY <1>2 DEF OfOneValue
      <4> QED
          BY <1>2, <4>1, <4>2, <4>3, ValueUnsaid
    <3>3. rest \in Saying(Before(lib.at, rest) \cup {rest}, "version")
          BY <1>2 DEF Saying
    <3>4. Saying(Before(lib.at, rest) \cup {rest}, "libnid") = {}
      <4>1. ASSUME NEW j \in Saying(Before(lib.at, rest), "libnid")
            PROVE  FALSE
        <5>1. j \in Body(lib.at) /\ j < rest /\ KeyAt(j).key = "libnid"
              BY DEF Saying, Before
        <5> QED
            BY <1>2, <2>4, <3>1, <5>1 DEF WellOrdered
      <4>2. KeyAt(rest).key # "libnid"
            BY <1>2
      <4> QED
          BY <4>1, <4>2, SayingOther
    <3>5. lib.name = KeyAt(lib.at).value /\ v = KeyAt(rest).value % WORD
          BY <1>1, <1>3 DEF Open, process_32bit_integer
    <3>6. NidSoFar(lib.at, Before(lib.at, rest) \cup {rest}) = HashOfVersion(v, lib.name)
          BY <3>2, <3>3, <3>4, <3>5 DEF NidSoFar
    <3> QED
        BY <2>3, <2>4, <3>2, <3>5, <3>6 DEF SaidSoFar
  <2>5. Open(lib', rest + 1)
        BY <1>2, <1>3, <2>3, <2>4, ValueTaken
  <2>6. Control' /\ LibInv' /\ ListInv'
        BY <1>2, <1>3, <2>1, <2>3, <2>5, LibraryKeyKeeps
  <2>7. HeapInv'
        BY <1>2, <1>3, <2>1, <2>3, RecordsAreNotNull, HeapKept DEF Blocks
  <2>8. TypeOK'
        BY <1>2, <1>3, <2>1, <2>3 DEF IInv, TypeOK
  <2> QED
      BY <2>6, <2>7, <2>8 DEF IInv
<1>6. CASE ~ (v < SHORT)
  <2>1. pc' = "failed" /\ rest' = rest /\ lib' = lib
        BY <1>2, <1>6 DEF Fail
  <2>2. rest \in Positions({"version"}) /\ KeyAt(rest).value >= SHORT
        BY <1>2, <1>4, <1>6, Widths DEF Positions
  <2>3. Cause
        BY <2>2 DEF Cause
  <2> QED
      BY <1>2, <2>1, <2>3, FailKeeps
<1> QED
    BY <1>5, <1>6

\* Functions and variables: "list" is the one that takes the symbol.
LEMMA SymbolKeeps ==
  ASSUME NEW key \in SymbolKeys, NEW list, list = IF key = "function" THEN "functions" ELSE "variables",
         IInv, process_symbol(key, list)
  PROVE  IInv'
<1> DEFINE s == [at |-> rest, name |-> KeyAt(rest).value,
                 nid |-> IF KeyAt(rest).nid = NULL THEN DefaultNid(KeyAt(rest).value) ELSE Given(KeyAt(rest).nid[1] % WORD)]
<1>0. (key = "function" /\ list = "functions") \/ (key = "variable" /\ list = "variables")
      BY DEF SymbolKeys
<1>1. /\ pc = "keys" /\ rest \in DOMAIN config.keys /\ KeyAt(rest).key = key
      /\ config' = config /\ export' = export /\ heap' = heap \cup {rest} /\ rest' = rest + 1 /\ pc' = "keys"
      /\ lib' = [lib EXCEPT ![list] = Append(lib[list], s)]
  <2>1. pc = "keys" /\ rest \in DOMAIN config.keys /\ Key = KeyAt(rest) /\ KeyAt(rest).key \in {key}
        BY KeyRead DEF process_symbol
  <2> QED
      BY <2>1 DEF process_symbol, Continue, process_32bit_integer
<1>2. KeyAt(rest).key \in SymbolKeys /\ KeyAt(rest).key \in LibraryKeys
      BY <1>1 DEF LibraryKeys, SymbolKeys
<1>3. /\ ConfigOK(config) /\ export \in ExportType /\ rest \in Nat /\ rest + 1 \in 1 .. Len(config.keys) + 1
      /\ rest \in 0 .. Len(config.keys) /\ heap \subseteq 0 .. Len(config.keys)
      /\ lib # NULL /\ lib \in LibraryType /\ Open(lib, rest)
      BY <1>1, <1>2, Handled, LibraryOpen
<1>4. s \in SymbolType
  <2>1. KeyAt(rest).value \in Nat /\ KeyAt(rest).nid \in {NULL} \cup [1 .. 1 -> Nat]
        BY <1>1, <1>3, KeysTyped
  <2>2. DefaultNid(KeyAt(rest).value) \in Seq(Nat)
    <3>1. lib.version \in Nat /\ lib.name \in Nat
          BY <1>3, Widths DEF LibraryType
    <3> QED
        BY <2>1, <3>1 DEF DefaultNid, HashOf, HashOfSymbol
  <2>3. KeyAt(rest).nid # NULL => Given(KeyAt(rest).nid[1] % WORD) \in Seq(Nat)
    <3>1. KeyAt(rest).nid # NULL => KeyAt(rest).nid[1] \in Nat
          BY <2>1
    <3>2. KeyAt(rest).nid # NULL => KeyAt(rest).nid[1] % WORD \in 0 .. WORD - 1
          BY <3>1, Narrowed DEF process_32bit_integer
    <3>3. KeyAt(rest).nid # NULL => KeyAt(rest).nid[1] % WORD \in Nat
          BY <3>2, Widths
    <3> QED
        BY <3>3 DEF Given
  <2>4. s.nid \in Seq(Nat) /\ s.at = rest /\ s.name = KeyAt(rest).value
        BY <2>2, <2>3
  <2> QED
      BY <1>3, <2>1, <2>2, <2>3 DEF SymbolType
<1>5. /\ lib.functions \in Seq(SymbolType) /\ lib.variables \in Seq(SymbolType)
      /\ lib'.at = lib.at /\ lib'.name = lib.name /\ lib'.version = lib.version /\ lib'.syscall = lib.syscall /\ lib'.nid = lib.nid
      /\ key = "function" => lib'.functions = Append(lib.functions, s) /\ lib'.variables = lib.variables
      /\ key = "variable" => lib'.functions = lib.functions /\ lib'.variables = Append(lib.variables, s)
      BY <1>1, <1>3 DEF LibraryType
<1>6. s.at = rest /\ s.name = KeyAt(rest).value
      OBVIOUS
<1>7. /\ lib' \in LibraryType
      /\ Symbols(lib') = Symbols(lib) \cup {s}
      /\ key = "function" => Ats(lib'.functions) = Ats(lib.functions) \cup {rest} /\ Ats(lib'.variables) = Ats(lib.variables)
      /\ key = "variable" => Ats(lib'.functions) = Ats(lib.functions) /\ Ats(lib'.variables) = Ats(lib.variables) \cup {rest}
  <2> HIDE DEF s
  <2>1. CASE key = "function"
    <3>1. /\ lib'.functions \in Seq(SymbolType)
          /\ {lib'.functions[i] : i \in DOMAIN lib'.functions} = {lib.functions[i] : i \in DOMAIN lib.functions} \cup {s}
          /\ Ats(lib'.functions) = Ats(lib.functions) \cup {rest}
      <4>1. lib.functions \in Seq(SymbolType) /\ lib'.functions = Append(lib.functions, s)
            BY <1>5, <2>1
      <4> QED
          BY <1>4, <1>6, <4>1, Appended
    <3>2. lib' = [lib EXCEPT !.functions = lib'.functions]
          BY <1>1, <1>3, <1>5, <2>1 DEF LibraryType
    <3>3. lib' \in LibraryType
          BY <1>3, <3>1, <3>2 DEF LibraryType
    <3>4. Symbols(lib') = Symbols(lib) \cup {s}
          BY <1>5, <2>1, <3>1 DEF Symbols
    <3> QED
        BY <1>5, <2>1, <3>1, <3>3, <3>4
  <2>2. CASE key = "variable"
    <3>1. /\ lib'.variables \in Seq(SymbolType)
          /\ {lib'.variables[i] : i \in DOMAIN lib'.variables} = {lib.variables[i] : i \in DOMAIN lib.variables} \cup {s}
          /\ Ats(lib'.variables) = Ats(lib.variables) \cup {rest}
      <4>1. lib.variables \in Seq(SymbolType) /\ lib'.variables = Append(lib.variables, s)
            BY <1>5, <2>2
      <4> QED
          BY <1>4, <1>6, <4>1, Appended
    <3>2. lib' = [lib EXCEPT !.variables = lib'.variables]
          BY <1>1, <1>3, <1>5, <2>2 DEF LibraryType
    <3>3. lib' \in LibraryType
          BY <1>3, <3>1, <3>2 DEF LibraryType
    <3>4. Symbols(lib') = Symbols(lib) \cup {s}
          BY <1>5, <2>2, <3>1 DEF Symbols
    <3> QED
        BY <1>5, <2>2, <3>1, <3>3, <3>4
  <2> QED
      BY <1>0, <2>1, <2>2
<1>8. Open(lib', rest + 1)
  <2>1. /\ rest \in Body(lib.at) /\ Before(lib.at, rest + 1) = Before(lib.at, rest) \cup {rest}
        /\ \A k \in lib.at .. (rest + 1) - 1 : KeyAt(k).key # "end" /\ (k > lib.at => KeyAt(k).key # "library")
        BY <1>1, <1>2, <1>3, BodyGrows DEF SymbolKeys
  <2>2. lib.at \in DOMAIN config.keys /\ lib.at < rest + 1 /\ KeyAt(lib.at).key = "library" /\ lib.name = KeyAt(lib.at).value
        BY <1>3, KeysTyped DEF Open
  <2>3. /\ Ats(lib'.functions) = Saying(Before(lib.at, rest) \cup {rest}, "function")
        /\ Ats(lib'.variables) = Saying(Before(lib.at, rest) \cup {rest}, "variable")
    <3>1. Ats(lib.functions) = Saying(Before(lib.at, rest), "function") /\ Ats(lib.variables) = Saying(Before(lib.at, rest), "variable")
          BY <1>3 DEF Open
    <3>2. CASE key = "function"
      <4>1. Saying(Before(lib.at, rest) \cup {rest}, "function") = Saying(Before(lib.at, rest), "function") \cup {rest}
            BY <1>1, <3>2 DEF Saying
      <4>2. KeyAt(rest).key # "variable"
            BY <1>1, <3>2
      <4>3. Saying(Before(lib.at, rest) \cup {rest}, "variable") = Saying(Before(lib.at, rest), "variable")
            BY <4>2, SayingOther
      <4> QED
          BY <1>7, <3>1, <3>2, <4>1, <4>3
    <3>3. CASE key = "variable"
      <4>1. Saying(Before(lib.at, rest) \cup {rest}, "variable") = Saying(Before(lib.at, rest), "variable") \cup {rest}
            BY <1>1, <3>3 DEF Saying
      <4>2. KeyAt(rest).key # "function"
            BY <1>1, <3>3
      <4>3. Saying(Before(lib.at, rest) \cup {rest}, "function") = Saying(Before(lib.at, rest), "function")
            BY <4>2, SayingOther
      <4> QED
          BY <1>7, <3>1, <3>3, <4>1, <4>3
    <3> QED
        BY <1>0, <3>2, <3>3
  <2>4. \A t \in Symbols(lib') : t.name = KeyAt(t.at).value
    <3>1. \A t \in Symbols(lib) : t.name = KeyAt(t.at).value
          BY <1>3 DEF Open
    <3> HIDE DEF s
    <3> QED
        BY <1>6, <1>7, <3>1
  <2>5. ASSUME SaidOnce(Body(lib.at)), WellOrdered(lib.at)
        PROVE  SaidSoFar(lib', rest + 1)
    <3>1. SaidSoFar(lib, rest)
          BY <1>3, <2>5 DEF Open
    <3>2. KeyAt(rest).key # "version" /\ KeyAt(rest).key # "syscall" /\ KeyAt(rest).key # "libnid"
          BY <1>2 DEF SymbolKeys
    <3>3. /\ ValueOf(Before(lib.at, rest) \cup {rest}, "version", 1) = ValueOf(Before(lib.at, rest), "version", 1)
          /\ ValueOf(Before(lib.at, rest) \cup {rest}, "syscall", 0) = ValueOf(Before(lib.at, rest), "syscall", 0)
          BY <3>2, ValueUnsaid
    <3>4. NidSoFar(lib.at, Before(lib.at, rest) \cup {rest}) = NidSoFar(lib.at, Before(lib.at, rest))
      <4>1. \A k \in {"libnid", "version"} : Saying(Before(lib.at, rest) \cup {rest}, k) = Saying(Before(lib.at, rest), k)
            BY <3>2, SayingOther
      <4> QED
          BY <4>1, NidSame
    <3>5. s.nid = SymbolNid(lib.at, rest)
      <4>1. lib.version \in Nat /\ lib.syscall \in {0, 1}
            BY <1>3, Widths DEF LibraryType
      <4>2. SymbolNid(lib.at, rest) =
              IF KeyAt(rest).nid # NULL THEN Given(KeyAt(rest).nid[1] % WORD)
              ELSE IF lib.version \in {0, 1} \/ lib.syscall # 0 THEN HashOf(KeyAt(rest).value)
              ELSE HashOfSymbol(lib.version, lib.name, KeyAt(rest).value)
            BY <1>1, <1>2, <1>3, <2>5, <4>1, SymbolAsSaid
      <4> QED
          BY <4>2 DEF DefaultNid
    <3>6. \A t \in Symbols(lib') : t.nid = SymbolNid(lib.at, t.at)
      <4>1. \A t \in Symbols(lib) : t.nid = SymbolNid(lib.at, t.at)
            BY <3>1 DEF SaidSoFar
      <4> HIDE DEF s
      <4> QED
          BY <1>6, <1>7, <3>5, <4>1
    <3> QED
        BY <1>5, <2>1, <3>1, <3>3, <3>4, <3>6 DEF SaidSoFar
  <2> QED
      BY <1>5, <2>1, <2>2, <2>3, <2>4, <2>5 DEF Open
<1>9. Control' /\ LibInv' /\ ListInv'
      BY <1>1, <1>2, <1>5, <1>7, <1>8, LibraryKeyKeeps
<1>10. HeapInv'
  <2>1. Blocks(lib) \subseteq Blocks(lib') /\ rest \in Blocks(lib')
        BY <1>0, <1>1, <1>5, <1>7 DEF Blocks
  <2> QED
      BY <1>1, <1>3, <1>7, <2>1, RecordsAreNotNull, HeapKept
<1>11. TypeOK'
  <2>1. heap' \subseteq 0 .. Len(config'.keys)
        BY <1>1, <1>3
  <2> QED
      BY <1>1, <1>3, <1>7, <2>1 DEF IInv, TypeOK
<1> QED
    BY <1>9, <1>10, <1>11 DEF IInv

LEMMA ErrorKeeps ==
  IInv /\ process_error => IInv'
<1> SUFFICES ASSUME IInv, process_error
             PROVE  IInv'
    OBVIOUS
<1>1. /\ pc = "keys" /\ rest \in DOMAIN config.keys /\ KeyAt(rest).key \in {"error"}
      /\ pc' = "failed" /\ UNCHANGED <<config, rest, export, lib, heap>>
      BY KeyRead DEF process_error, Fail
<1>2. Cause
  <2>1. rest \in Positions({"error"})
        BY <1>1 DEF Positions
  <2> QED
      BY <2>1 DEF Cause
<1> QED
    BY <1>1, <1>2, FailKeeps

----------------------------------------------------------------------------
(* The beginning and the end.                                               *)

LEMMA LoadKeeps ==
  IInv /\ vita_exports_loads => IInv'
<1> SUFFICES ASSUME IInv, vita_exports_loads
             PROVE  IInv'
    OBVIOUS
<1>1. /\ pc = "load" /\ UNCHANGED <<config, rest, export, lib, heap>>
      /\ pc' = IF config.opens /\ config.parses /\ config.hashes THEN "root" ELSE "failed"
      BY DEF vita_exports_loads
<1>2. /\ ConfigOK(config) /\ config.given /\ rest = 1 /\ lib = NULL
      /\ config.opens \in BOOLEAN /\ config.parses \in BOOLEAN /\ config.hashes \in BOOLEAN
      BY <1>1 DEF IInv, Control, ConfigOK
<1>3. TypeOK'
      BY <1>1 DEF IInv, TypeOK, ExportType, LibraryType
<1>4. Control'
  <2>1. pc' = "failed" => Cause'
        BY <1>1, <1>2 DEF Cause
  <2> QED
      BY <1>1, <1>2, <2>1 DEF Control, Handling
<1>5. LibInv' /\ ListInv' /\ HeapInv'
      BY <1>1 DEF LibInv, ListInv, HeapInv, Handling
<1> QED
    BY <1>3, <1>4, <1>5 DEF IInv

LEMMA EmptyExportTyped ==
  EmptyExport \in ExportType
<1>1. ElfNid \in Seq(Nat) /\ <<>> \in Seq(LibraryType) /\ NULL \in EntryPointType
      BY DEF ElfNid, EntryPointType
<1>2. 0 \in 0 .. SHORT - 1 /\ 0 \in 0 .. BYTE - 1
      BY Widths
<1> QED
    BY <1>1, <1>2 DEF EmptyExport, ExportType

LEMMA RootKeeps ==
  IInv /\ read_module_exports => IInv'
<1> SUFFICES ASSUME IInv, read_module_exports
             PROVE  IInv'
    OBVIOUS
<1>1. /\ pc = "root" /\ UNCHANGED <<config, rest, lib>>
      /\ heap' = IF config.root = "shape" THEN {} ELSE {0}
      /\ config.root = "good" => pc' = "keys" /\ export' = EmptyExport
      /\ config.root # "good" => pc' = "failed" /\ export' = export
      BY DEF read_module_exports
<1>2. /\ ConfigOK(config) /\ config.given /\ rest = 1 /\ lib = NULL
      /\ Len(config.keys) \in Nat /\ DOMAIN config.keys = 1 .. Len(config.keys)
      BY <1>1, KeysTyped DEF IInv, Control
<1>3. export \in {NULL} \cup ExportType /\ EmptyExport \in ExportType
      BY EmptyExportTyped DEF IInv, TypeOK
<1>4. TypeOK'
  <2>1. heap' \subseteq 0 .. Len(config'.keys)
        BY <1>1, <1>2
  <2> QED
      BY <1>1, <1>2, <1>3, <2>1 DEF IInv, TypeOK
<1>5. Control'
  <2>1. pc' = "failed" => Cause'
        BY <1>1, <1>2 DEF Cause
  <2>2. \A i \in 1 .. 1 - 1 : FALSE
        OBVIOUS
  <2> QED
      BY <1>1, <1>2, <1>3, <2>1, <2>2 DEF Control, Handling
<1>6. LibInv'
  <2>1. ~ InLibrary(config.keys, 1)
        BY DEF InLibrary
  <2> QED
      BY <1>1, <1>2, <2>1 DEF LibInv
<1>7. CASE config.root = "good"
  <2>1. export'.libs = <<>> /\ \A e \in EntryPoints : export'[e] = NULL
        BY <1>1, <1>7 DEF EmptyExport, EntryPoints
  <2>2. Libs' = {} /\ Ats(export.libs)' = {}
        BY <2>1 DEF Libs, Ats
  <2>3. \A i \in Positions({"library"}) : ~ (i < 1)
        BY <1>2 DEF Positions
  <2>4. ListInv'
    <3>1. {i \in Positions({"library"}) : i < 1} = {}
          BY <2>3
    <3> QED
        BY <1>1, <1>2, <2>2, <3>1, SameConfig DEF ListInv
  <2>5. \A i \in heap' : i \in Reachable'
        BY <1>1, <1>7 DEF Reachable
  <2>6. HeapInv'
        BY <1>1, <1>7, <2>1, <2>5 DEF HeapInv
  <2> QED
      BY <1>4, <1>5, <1>6, <2>4, <2>6 DEF IInv
<1>8. CASE config.root # "good"
      BY <1>1, <1>4, <1>5, <1>6, <1>8 DEF IInv, ListInv, HeapInv, Handling
<1> QED
    BY <1>7, <1>8

LEMMA DefaultKeeps ==
  IInv /\ vita_export_generate_default => IInv'
<1> SUFFICES ASSUME IInv, vita_export_generate_default
             PROVE  IInv'
    OBVIOUS
<1> DEFINE default == [EmptyExport EXCEPT !.is_default = TRUE, !.major = 1, !.minor = 1, !.process_image = 1]
<1>1. /\ pc = "default" /\ UNCHANGED <<config, rest, lib>>
      /\ config.hashes => pc' = "loaded" /\ export' = default /\ heap' = {0}
      /\ ~ config.hashes => pc' = "failed" /\ UNCHANGED <<export, heap>>
      BY DEF vita_export_generate_default
<1>2. /\ ConfigOK(config) /\ ~ config.given /\ rest = 1 /\ lib = NULL /\ config.keys = <<>> /\ config.hashes \in BOOLEAN
      BY <1>1 DEF IInv, Control, ConfigOK
<1>3. default \in ExportType /\ default.libs = <<>> /\ \A e \in EntryPoints : default[e] = NULL
  <2>1. 1 \in 0 .. BYTE - 1
        BY Widths
  <2>2. default \in ExportType
        BY <2>1, EmptyExportTyped DEF ExportType
  <2>3. default.libs = EmptyExport.libs /\ \A e \in EntryPoints : default[e] = EmptyExport[e]
        BY DEF EmptyExport, EntryPoints
  <2>4. EmptyExport.libs = <<>> /\ \A e \in EntryPoints : EmptyExport[e] = NULL
        BY DEF EmptyExport, EntryPoints
  <2> QED
      BY <2>2, <2>3, <2>4
<1> HIDE DEF default
<1>4. Len(config.keys) = 0 /\ DOMAIN config.keys = {}
      BY <1>2
<1>5. CASE config.hashes
  <2>1. TypeOK'
    <3>1. heap' \subseteq 0 .. Len(config'.keys)
          BY <1>1, <1>4, <1>5
    <3> QED
        BY <1>1, <1>2, <1>3, <1>5, <3>1 DEF IInv, TypeOK
  <2>2. Control'
    <3>1. \A i \in 1 .. 1 - 1 : FALSE
          OBVIOUS
    <3> QED
        BY <1>1, <1>2, <1>3, <1>4, <1>5, <3>1 DEF Control, Handling
  <2>3. LibInv'
        BY <1>1, <1>5 DEF LibInv
  <2>4. ListInv'
    <3>1. Libs' = {} /\ Ats(export.libs)' = {}
          BY <1>1, <1>3, <1>5 DEF Libs, Ats
    <3>2. Positions({"library"})' = {}
          BY <1>1, <1>4 DEF Positions
    <3> QED
        BY <3>1, <3>2 DEF ListInv
  <2>5. HeapInv'
    <3>1. \A i \in heap' : i \in Reachable'
          BY <1>1, <1>5 DEF Reachable
    <3> QED
        BY <1>1, <1>3, <1>5, <3>1 DEF HeapInv
  <2> QED
      BY <2>1, <2>2, <2>3, <2>4, <2>5 DEF IInv
<1>6. CASE ~ config.hashes
  <2>1. TypeOK'
        BY <1>1, <1>6 DEF IInv, TypeOK, ExportType, LibraryType
  <2>2. Control'
        BY <1>1, <1>2, <1>6 DEF Control, Handling, Cause
  <2>3. LibInv' /\ ListInv' /\ HeapInv'
        BY <1>1, <1>6 DEF LibInv, ListInv, HeapInv, Handling
  <2> QED
      BY <2>1, <2>2, <2>3 DEF IInv
<1> QED
    BY <1>5, <1>6

LEMMA LoadedKeeps ==
  IInv /\ Loaded => IInv'
<1> SUFFICES ASSUME IInv, Loaded
             PROVE  IInv'
    OBVIOUS
<1>1. pc = "keys" /\ rest > Len(config.keys) /\ pc' = "loaded" /\ UNCHANGED <<config, rest, export, lib, heap>>
      BY DEF Loaded
<1>2. /\ ConfigOK(config) /\ config.given /\ Handling /\ export \in ExportType
      /\ rest \in 1 .. Len(config.keys) + 1 /\ Len(config.keys) \in Nat
      /\ \A i \in 1 .. rest - 1 : KeyAt(i).key # "error"
      BY <1>1, Handled
<1>3. rest = Len(config.keys) + 1
      BY <1>1, <1>2
<1>4. lib = NULL
  <2>1. ~ InLibrary(config.keys, rest)
        BY <1>2, <1>3 DEF ConfigOK
  <2> QED
      BY <1>1, <2>1 DEF IInv, LibInv
<1>5. TypeOK'
      BY <1>1 DEF IInv, TypeOK, ExportType, LibraryType
<1>6. Control'
      BY <1>1, <1>2, <1>3, <1>4, SameConfig DEF Control, Handling
<1>7. LibInv'
      BY <1>1 DEF LibInv
<1>8. ListInv'
  <2>1. Libs' = Libs /\ Ats(export.libs)' = Ats(export.libs)
        BY <1>1 DEF Libs, Ats
  <2> QED
      BY <1>1, <1>2, <2>1, SameConfig DEF IInv, ListInv
<1>9. HeapInv'
  <2>1. Reachable' = Reachable
        BY <1>1 DEF Reachable, Libs, Ats
  <2>2. \A i : Blocks(i)' = Blocks(i)
        BY DEF Blocks, Ats
  <2> QED
      BY <1>1, <1>2, <1>4, <2>1, SameConfig DEF IInv, HeapInv
<1> QED
    BY <1>5, <1>6, <1>7, <1>8, <1>9 DEF IInv

LEMMA FreeKeeps ==
  IInv /\ vita_exports_free => IInv'
<1> SUFFICES ASSUME IInv, vita_exports_free
             PROVE  IInv'
    OBVIOUS
<1>1. pc = "loaded" /\ pc' = "freed" /\ heap' = heap \ Reachable /\ UNCHANGED <<config, rest, export, lib>>
      BY DEF vita_exports_free
<1>2. lib = NULL /\ Handling
      BY <1>1 DEF IInv, Control, Handling
<1>3. TypeOK'
  <2>1. heap \subseteq 0 .. Len(config.keys)
        BY DEF IInv, TypeOK
  <2>2. heap' \subseteq 0 .. Len(config.keys)
        BY <1>1, <2>1
  <2> QED
      BY <1>1, <2>2 DEF IInv, TypeOK, ExportType, LibraryType
<1>4. Control'
      BY <1>1, SameConfig DEF IInv, Control, Handling
<1>5. LibInv'
      BY <1>1 DEF LibInv
<1>6. ListInv'
  <2>1. Libs' = Libs /\ Ats(export.libs)' = Ats(export.libs)
        BY <1>1 DEF Libs, Ats
  <2> QED
      BY <1>1, <1>2, <2>1, SameConfig DEF IInv, ListInv
<1>7. HeapInv'
  <2>1. \A i \in heap' : Replaced(i)
        BY <1>1, <1>2 DEF IInv, HeapInv
  <2> QED
      BY <1>1, <1>2, <2>1, SameConfig DEF IInv, HeapInv
<1> QED
    BY <1>3, <1>4, <1>5, <1>6, <1>7 DEF IInv

----------------------------------------------------------------------------
(* The invariant, and what follows from it.                                 *)

LEMMA InitIInv ==
  Init => IInv
<1> SUFFICES ASSUME Init
             PROVE  IInv
    OBVIOUS
<1>1. /\ ConfigOK(config) /\ config.given \in BOOLEAN
      /\ pc = IF config.given THEN "load" ELSE "default"
      /\ rest = 1 /\ export = NULL /\ lib = NULL /\ heap = {}
      BY ConfigsAssumption DEF Init, ConfigOK
<1>2. TypeOK
  <2>1. Len(config.keys) \in Nat
        BY <1>1, KeysTyped
  <2> QED
      BY <1>1, <2>1 DEF TypeOK
<1>3. Control
      BY <1>1 DEF Control, Handling
<1>4. LibInv /\ ListInv /\ HeapInv
      BY <1>1 DEF LibInv, ListInv, HeapInv, Handling
<1> QED
    BY <1>2, <1>3, <1>4 DEF IInv

LEMMA StepIInv ==
  IInv /\ [Next]_vars => IInv'
<1> SUFFICES ASSUME IInv, [Next]_vars
             PROVE  IInv'
    OBVIOUS
<1>1. CASE UNCHANGED vars
  <2>1. UNCHANGED <<config, pc, rest, export, lib, heap>>
        BY <1>1 DEF vars
  <2>2. TypeOK'
        BY <2>1 DEF IInv, TypeOK, ExportType, LibraryType
  <2>3. Control'
        BY <2>1, SameConfig DEF IInv, Control, Handling
  <2>4. LibInv'
    <3>1. Open(lib, rest)' <=> Open(lib, rest)
          BY <2>1, SameConfig
    <3> QED
        BY <2>1, <3>1 DEF IInv, LibInv
  <2>5. Libs' = Libs /\ Ats(export.libs)' = Ats(export.libs) /\ Reachable' = Reachable /\ \A l : Blocks(l)' = Blocks(l)
        BY <2>1 DEF Libs, Ats, Reachable, Blocks
  <2>6. ListInv'
        BY <2>1, <2>5, SameConfig DEF IInv, ListInv, Handling
  <2>7. HeapInv'
        BY <2>1, <2>5, SameConfig DEF IInv, HeapInv, Handling
  <2> QED
      BY <2>2, <2>3, <2>4, <2>6, <2>7 DEF IInv
<1>2. CASE process_functions
  <2>1. process_symbol("function", "functions")
        BY <1>2 DEF process_functions
  <2>2. "function" \in SymbolKeys /\ "functions" = IF "function" = "function" THEN "functions" ELSE "variables"
        BY DEF SymbolKeys
  <2> QED
      BY <2>1, <2>2, SymbolKeeps
<1>3. CASE process_variables
  <2>1. process_symbol("variable", "variables")
        BY <1>3 DEF process_variables
  <2>2. "variable" \in SymbolKeys /\ "variables" = IF "variable" = "function" THEN "functions" ELSE "variables"
        BY DEF SymbolKeys
  <2> QED
      BY <2>1, <2>2, SymbolKeeps
<1>4. CASE vita_exports_loads \/ read_module_exports \/ vita_export_generate_default
      BY <1>4, LoadKeeps, RootKeeps, DefaultKeeps
<1>5. CASE process_number \/ process_flag \/ process_syslib_list
      BY <1>5, NumberKeeps, FlagKeeps, EntryPointKeeps
<1>6. CASE process_export_list \/ AppendLibrary
      BY <1>6, LibraryKeeps, AppendLibraryKeeps
<1>7. CASE process_syscall \/ process_nid \/ process_version \/ process_error
      BY <1>7, SyscallKeeps, NidKeeps, VersionKeeps, ErrorKeeps
<1>8. CASE Loaded \/ vita_exports_free
      BY <1>8, LoadedKeeps, FreeKeeps
<1>9. CASE Terminated
      BY <1>1, <1>9 DEF Terminated
<1> QED
    BY <1>1, <1>2, <1>3, <1>4, <1>5, <1>6, <1>7, <1>8, <1>9 DEF Next

THEOREM Inductive ==
  Spec => []IInv
BY InitIInv, StepIInv, PTL DEF Spec

\* Every variable has its type: no field of 8 or 16 bits is given what it cannot
\* hold, whatever numbers the document has.
THEOREM TypeCorrect ==
  Spec => []TypeOK
<1>1. IInv => TypeOK
      BY DEF IInv
<1> QED
    BY <1>1, Inductive, PTL

\* A configuration is loaded as a whole or not at all, and is refused only for a
\* reason of its own (the handlers of vita-export-parse.c).
THEOREM AllOrNothingAlways ==
  Spec => []AllOrNothing
<1>1. IInv => AllOrNothing
  <2> SUFFICES ASSUME IInv
               PROVE  AllOrNothing
      OBVIOUS
  <2>1. ASSUME pc = "loaded"
        PROVE  Positions({"error"}) = {}
    <3>1. /\ ConfigOK(config) /\ rest = Len(config.keys) + 1
          /\ \A i \in 1 .. rest - 1 : KeyAt(i).key # "error"
          BY <2>1 DEF IInv, Control, Handling
    <3>2. DOMAIN config.keys = 1 .. rest - 1
          BY <3>1, KeysTyped
    <3> QED
        BY <3>1, <3>2 DEF Positions
  <2>2. pc = "failed" => Cause
        BY DEF IInv, Control
  <2> QED
      BY <2>1, <2>2 DEF AllOrNothing, Cause
<1> QED
    BY <1>1, Inductive, PTL

\* vita_exports_free() frees every block but the entry points given twice.
THEOREM AllFreedAlways ==
  Spec => []AllFreed
<1>1. IInv => AllFreed
      BY DEF IInv, HeapInv, AllFreed, Replaced
<1> QED
    BY <1>1, Inductive, PTL

\* The NIDs computed while the keys arrive are those of the document as a whole,
\* if each library says its version and its syscall flag before what depends on them.
THEOREM NidsAsWrittenAlways ==
  Spec => []NidsAsWritten
<1>1. IInv => NidsAsWritten
  <2> SUFFICES ASSUME IInv, pc = "loaded"
               PROVE  /\ Ats(export.libs) = Positions({"library"})
                      /\ \A l \in Libs : SaidOnce(Body(l.at)) /\ WellOrdered(l.at) => Said(l)
      BY DEF NidsAsWritten
  <2>1. /\ ConfigOK(config) /\ rest = Len(config.keys) + 1 /\ lib = NULL /\ Handling
        BY DEF IInv, Control, Handling
  <2>2. \A i \in Positions({"library"}) : i < rest
        BY <2>1, KeysTyped DEF Positions
  <2> QED
      BY <2>1, <2>2 DEF IInv, ListInv
<1> QED
    BY <1>1, Inductive, PTL
============================================================================
