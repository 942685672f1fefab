---------------------------- MODULE StubArchives ----------------------------
(***************************************************************************)
(* main() of vita-libs-gen-2: the database is a file, or a directory that  *)
(* fs_list (FsList) lists and walks; its callback reads the files          *)
(* (LibsGen2), the list is freed, and the stub archives are generated from *)
(* whatever was read.                                                      *)
(*                                                                         *)
(* LibsGen2 leaves open which files are read and in what order.  Here      *)
(* fs_list says so, and its specification is what main() implements.       *)
(***************************************************************************)
EXTENDS LibsGen2, FiniteSets

CONSTANTS Trees,  \* the file systems considered
          Cases   \* pairs of a file system and an input of LibsGen2 (see CaseOK)

VARIABLES fs, phase, ent, curr, open, visited, freed  \* see FsList

list == <<fs, phase, ent, curr, open, visited, freed>>

F == INSTANCE FsList

\* The files of a tree are numbered in the order of their nodes.
Files(tree) == {n \in DOMAIN tree.kind : tree.kind[n] = "file"}
FileOfNode(tree, n) == Cardinality({m \in Files(tree) : m <= n})

CaseOK(c) ==
  /\ InputOK(c.input) /\ F!TreeOK(c.tree)
  /\ Len(c.input.files) = Cardinality(Files(c.tree))

ASSUME CasesAssumption == \A c \in Cases : CaseOK(c)

MainInit == \E c \in Cases : input = c.input /\ Init /\ fs = c.tree /\ F!Init

IsDirectory == fs.kind[F!Root] \in {"dir", "locked"}

----------------------------------------------------------------------------
(* A file.                                                                  *)

OneFile == fs.kind[F!Root] = "file" /\ UNCHANGED list

ReadOneFile ==
  /\ OneFile
  /\ \/ file = 0 /\ Open(FileOfNode(fs, F!Root))
     \/ ReadKey \/ BadKey
     \/ file # 0 /\ ReadingEnds

StatFails == fs.kind[F!Root] = "gone" /\ NoDatabase /\ UNCHANGED list

----------------------------------------------------------------------------
(* A directory.                                                             *)

List ==
  /\ IsDirectory
  /\ F!fs_list_init \/ F!ReadEntry \/ F!NoMoreEntries \/ F!fs_list_execute \/ F!Climb
  /\ UNCHANGED vars

\* db_top_list_callback(): directories are left alone.
CallsBack ==
  /\ F!Visit
  /\ IF fs.kind[curr] = "file" THEN Open(FileOfNode(fs, curr)) ELSE UNCHANGED vars

Reads == phase = "callback" /\ fs.kind[curr] = "file" /\ ReadKey /\ UNCHANGED list

\* The callback returns: 0, or the error of the file it has read.
Returns ==
  /\ F!CallbackSucceeds
  /\ fs.kind[curr] = "file" => FileDone
  /\ UNCHANGED vars
ReturnsError == F!CallbackFails /\ BadKey

FreeList ==
  /\ F!fs_list_fini \/ F!Descend \/ F!FreeAndNext \/ F!LastOfDirectory \/ F!FreeUp
  /\ UNCHANGED vars

----------------------------------------------------------------------------

\* fs_list_fini() is over, or there is nothing to free.
ListFreed == phase \in {"done", "failed"} /\ UNCHANGED list

MainNext ==
  \/ ReadOneFile \/ StatFails
  \/ List \/ CallsBack \/ Reads \/ Returns \/ ReturnsError \/ FreeList
  \/ ListFreed /\ (ReadingEnds \/ Generate)
  \/ OneFile /\ Generate
  \/ Terminated /\ UNCHANGED list

\* One thread that runs on.
MainSpec == MainInit /\ [][MainNext]_<<vars, list>> /\ WF_<<vars, list>>(MainNext)

----------------------------------------------------------------------------
(* Properties: those of LibsGen2 and FsList, and what ties them.            *)

\* main() is an implementation of LibsGen2: each file of the database is read at
\* most once, from its beginning to its end, and nothing is generated before.
ImplementsLibsGen2 == Spec

\* Every file that can be reached is read, unless a file is in error or an entry of
\* the directory cannot be looked at (fs_list.c:136).
Unreadable == All("error") # {} \/ \E n \in DOMAIN fs.kind : fs.kind[n] = "gone" /\ F!Reached[n]
EveryFileRead ==
  pc = "success" /\ ~ Unreadable =>
    todo = {FileOfNode(fs, n) : n \in {m \in Files(fs) : ~ F!Reached[m]}}

\* Every variable has its type, those of the list as well.
TypesOK == TypeOK /\ F!TypeOK

\* What is read is built whatever stopped the reading, and of a file in error only
\* what precedes the error: main() does not look at the result (vita-libs-gen-2.cpp:536).
BuiltUpToError == ReadIsBuilt /\ NothingAfterError

\* The list is what is there, with its directories closed again, and the walk calls
\* the callback once for each entry and leaves none out (fs_list.c:75-244).
ListWalked == F!Listed /\ F!OpenOnTheWay /\ F!VisitedOnce /\ F!AllVisited

\* Freeing uses nothing that was freed and frees all (fs_list.c:58-73, 191-290).
FreedOnce == F!ChildrenFreedFirst /\ F!AllFreed

\* main() returns, whatever the directory and its files.
Termination == <>(pc \in {"success", "failure"})
=============================================================================
