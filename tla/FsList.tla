------------------------------- MODULE FsList -------------------------------
(***************************************************************************)
(* utils/fs_list.c: a directory is listed into a tree of entries, with     *)
(* neither recursion nor a stack; the tree is then walked with a callback, *)
(* and freed by a second walk that frees each entry it leaves.             *)
(* vita-nid-check and vita-libs-gen-2 read their databases so.             *)
(***************************************************************************)
EXTENDS Naturals, Integers, Sequences, FiniteSets

CONSTANT Trees     \* the file systems considered (see TreeOK)

VARIABLES fs,      \* the input; never changes
          phase,   \* the function under way and where it is
          ent,     \* the entries: child, next and nChild of each
          curr,    \* "current", "curr" of the functions
          open,    \* directories that are open
          visited, \* entries the callback of fs_list_execute() was called with
          freed    \* entries freed

vars == <<fs, phase, ent, curr, open, visited, freed>>

NULL == 0
Root == 1

\* The nodes of the file system are numbered from the root on.  A "gone" node is
\* one that stat() fails for: a dangling link, or removed meanwhile; a "locked" one
\* is a directory that cannot be opened.
Kinds == {"dir", "file", "gone", "locked"}

TreeOK(i) ==
  /\ i.parent \in Seq(Nat) /\ i.parent # <<>>
  /\ i.kind \in [DOMAIN i.parent -> Kinds]
  /\ i.parent[Root] = NULL
  /\ \A n \in DOMAIN i.parent \ {Root} :
       /\ i.parent[n] \in 1 .. n - 1 /\ i.kind[i.parent[n]] \in {"dir", "locked"}

Init ==
  /\ fs \in Trees
  /\ phase = "init"
  /\ ent = <<>>
  /\ curr = NULL /\ open = {}
  /\ visited = <<>> /\ freed = {}

lists == <<visited, freed>>

NewEntry(next) == [child |-> NULL, next |-> next, nChild |-> 0]

----------------------------------------------------------------------------
(* fs_list_init_core()                                                      *)

fs_list_init ==
  /\ phase = "init"
  /\ IF fs.kind[Root] = "dir"
     THEN phase' = "list" /\ ent' = <<NewEntry(NULL)>> /\ curr' = Root /\ open' = {Root}
     ELSE phase' = "failed" /\ UNCHANGED <<ent, curr, open>>
  /\ UNCHANGED <<fs, lists>>

Unlisted(d) == {n \in DOMAIN fs.parent \ DOMAIN ent : fs.parent[n] = d}

\* fs_list_make_entry(): the entry is put before those of its directory.
WithEntry(n, d) ==
  [e \in DOMAIN ent \cup {n} |->
     IF e = n THEN NewEntry(ent[d].child)
     ELSE IF e = d THEN [ent[d] EXCEPT !.child = n, !.nChild = @ + 1]
     ELSE ent[e]]

\* readdir() returns the entries in any order.  The depth is never limited.
ReadEntry ==
  /\ phase = "list"
  /\ \E n \in Unlisted(curr) :
       /\ ent' = WithEntry(n, curr)
       /\ phase' = IF fs.kind[n] = "gone" THEN "failed" ELSE "list"
       /\ IF fs.kind[n] = "dir"
          THEN open' = open \cup {n} /\ curr' = n
          ELSE UNCHANGED <<open, curr>>
  /\ UNCHANGED <<fs, lists>>

\* Mutants: the listing ends with a directory in the root; a directory is not
\* closed; it is read again.
NoMoreEntries_Ends ==
  /\ phase = "list" /\ Unlisted(curr) = {}
  /\ open' = open \ {curr, Root}
  /\ curr' = fs.parent[curr]
  /\ phase' = IF curr' \in {NULL, Root} THEN "listed" ELSE "list"
  /\ UNCHANGED <<fs, ent, lists>>
NoMoreEntries_NotClosed ==
  /\ phase = "list" /\ Unlisted(curr) = {}
  /\ curr' = fs.parent[curr]
  /\ phase' = IF curr' = NULL THEN "listed" ELSE "list"
  /\ UNCHANGED <<fs, ent, open, lists>>
NoMoreEntries_Again == phase = "list" /\ Unlisted(curr) = {} /\ UNCHANGED vars

NoMoreEntries ==
  /\ phase = "list" /\ Unlisted(curr) = {}
  /\ open' = open \ {curr}
  /\ curr' = fs.parent[curr]
  /\ phase' = IF curr' = NULL THEN "listed" ELSE "list"
  /\ UNCHANGED <<fs, ent, lists>>

----------------------------------------------------------------------------
(* fs_list_execute() on the first entry, as the tools call it.              *)

fs_list_execute ==
  /\ phase = "listed"
  /\ phase' = IF ent[Root].child = NULL THEN "fini" ELSE "visit"
  /\ curr' = ent[Root].child
  /\ UNCHANGED <<fs, ent, open, lists>>

\* The callback is called with an entry,
Visit ==
  /\ phase = "visit"
  /\ visited' = Append(visited, curr)
  /\ phase' = "callback"
  /\ UNCHANGED <<fs, ent, curr, open, freed>>

\* and returns an error, or does not.
CallbackFails ==
  /\ phase = "callback"
  /\ phase' = "fini"
  /\ UNCHANGED <<fs, ent, curr, open, lists>>

\* Mutant: the next entry before those in the directory.
CallbackSucceeds_NextFirst ==
  /\ phase = "callback"
  /\ IF ent[curr].next # NULL THEN phase' = "visit" /\ curr' = ent[curr].next
     ELSE IF ent[curr].nChild # 0 THEN phase' = "visit" /\ curr' = ent[curr].child
     ELSE phase' = "climb" /\ UNCHANGED curr
  /\ UNCHANGED <<fs, ent, open, lists>>

CallbackSucceeds ==
  /\ phase = "callback"
  /\ IF ent[curr].nChild # 0 THEN phase' = "visit" /\ curr' = ent[curr].child
     ELSE IF ent[curr].next # NULL THEN phase' = "visit" /\ curr' = ent[curr].next
     ELSE phase' = "climb" /\ UNCHANGED curr
  /\ UNCHANGED <<fs, ent, open, lists>>

\* Mutant: after climbing the entry reached is visited.
Climb_Revisit ==
  /\ phase = "climb"
  /\ IF curr = NULL THEN phase' = "fini" /\ UNCHANGED curr
     ELSE IF ent[curr].next = NULL THEN curr' = fs.parent[curr] /\ UNCHANGED phase
     ELSE phase' = "visit" /\ UNCHANGED curr
  /\ UNCHANGED <<fs, ent, open, lists>>

\* The nearest entry above that has a next one; the end if there is none.
Climb ==
  /\ phase = "climb"
  /\ IF curr = NULL THEN phase' = "fini" /\ UNCHANGED curr
     ELSE IF ent[curr].next = NULL THEN curr' = fs.parent[curr] /\ UNCHANGED phase
     ELSE curr' = ent[curr].next /\ phase' = "visit"
  /\ UNCHANGED <<fs, ent, open, lists>>

----------------------------------------------------------------------------
(* fs_list_fini(): fs_list_execute2() with a callback that frees.           *)

fs_list_fini ==
  /\ phase = "fini"
  /\ phase' = "free" /\ curr' = Root
  /\ UNCHANGED <<fs, ent, open, lists>>

\* fs_list_fini_callback()
Free(e) ==
  /\ freed' = freed \cup {e}
  /\ ent' = IF fs.parent[e] = NULL THEN ent ELSE [ent EXCEPT ![fs.parent[e]].nChild = @ - 1]
  /\ UNCHANGED <<fs, open, visited>>

Descend ==
  /\ phase = "free" /\ curr # NULL /\ ent[curr].nChild # 0
  /\ curr' = ent[curr].child
  /\ UNCHANGED <<fs, phase, ent, open, lists>>

FreeAndNext ==
  /\ phase = "free" /\ curr # NULL /\ ent[curr].nChild = 0 /\ ent[curr].next # NULL
  /\ Free(curr)
  /\ curr' = ent[curr].next
  /\ UNCHANGED phase

\* The last one of its directory.
LastOfDirectory ==
  /\ phase = "free" /\ curr # NULL /\ ent[curr].nChild = 0 /\ ent[curr].next = NULL
  /\ phase' = "freeup"
  /\ UNCHANGED <<fs, ent, curr, open, lists>>

\* Mutants: the directory climbed to is walked from its beginning again; it is
\* passed over.
FreeUp_Again ==
  /\ phase = "freeup"
  /\ IF curr = NULL THEN phase' = "done" /\ UNCHANGED <<fs, ent, curr, open, lists>>
     ELSE /\ Free(curr)
          /\ IF ent[curr].next = NULL
             THEN curr' = fs.parent[curr] /\ UNCHANGED phase
             ELSE curr' = ent[fs.parent[curr]].child /\ phase' = "free"
FreeUp_Skip ==
  /\ phase = "freeup"
  /\ IF curr = NULL THEN phase' = "done" /\ UNCHANGED <<fs, ent, curr, open, lists>>
     ELSE IF ent[curr].next = NULL
     THEN Free(curr) /\ curr' = fs.parent[curr] /\ UNCHANGED phase
     ELSE curr' = ent[curr].next /\ phase' = "free" /\ UNCHANGED <<fs, ent, open, lists>>

\* Up to an entry that has a next one, which is freed too.
FreeUp ==
  /\ phase = "freeup"
  /\ IF curr = NULL THEN phase' = "done" /\ UNCHANGED <<fs, ent, curr, open, lists>>
     ELSE /\ Free(curr)
          /\ IF ent[curr].next = NULL
             THEN curr' = fs.parent[curr] /\ UNCHANGED phase
             ELSE curr' = ent[curr].next /\ phase' = "free"

\* The steps of the three functions, with whatever callback.
Next ==
  \/ fs_list_init \/ ReadEntry \/ NoMoreEntries
  \/ fs_list_execute \/ Visit \/ CallbackFails \/ CallbackSucceeds \/ Climb
  \/ fs_list_fini \/ Descend \/ FreeAndNext \/ LastOfDirectory \/ FreeUp

----------------------------------------------------------------------------
(* Properties.                                                              *)

\* Every variable has its type; the fields of entries name entries.
TypeOK ==
  /\ phase \in {"init", "list", "listed", "visit", "climb", "callback", "fini", "free", "freeup", "done", "failed"}
  /\ DOMAIN ent \subseteq DOMAIN fs.parent
  /\ \A e \in DOMAIN ent : /\ ent[e].child \in {NULL} \cup DOMAIN ent
                           /\ ent[e].next \in {NULL} \cup DOMAIN ent
                           /\ ent[e].nChild \in 0 .. Cardinality(DOMAIN ent)
  /\ curr \in {NULL} \cup DOMAIN ent
  /\ freed \subseteq DOMAIN ent

Nodes == DOMAIN fs.parent
\* The number of directories above a node.
DepthOf[n \in Nodes] == IF n = Root THEN 0 ELSE DepthOf[fs.parent[n]] + 1
\* The directories above a node can be opened.
Reached[n \in Nodes] == IF n = Root THEN TRUE ELSE Reached[fs.parent[n]] /\ fs.kind[fs.parent[n]] = "dir"

\* What is listed is all there is below the directory, but for what is in a
\* directory that cannot be opened.
Listed ==
  phase \in {"listed", "visit", "callback", "climb", "fini"} =>
    /\ DOMAIN ent = {n \in Nodes : Reached[n]}
    /\ \A d \in DOMAIN ent : ent[d].nChild = Cardinality({e \in DOMAIN ent : fs.parent[e] = d})

\* Of the directories only those on the way to the current one are open, and none
\* is once the listing has succeeded.
OpenOnTheWay ==
  /\ phase = "list" =>
       /\ curr \in open
       /\ \A d \in open \ {Root} : fs.parent[d] \in open
       /\ Cardinality(open) = DepthOf[curr] + 1
  /\ phase \notin {"list", "failed"} => open = {}

\* fs_list_execute() calls the callback once with each entry, directories before
\* what is in them, until it fails; if it never does, with all but the root.
VisitedOnce ==
  /\ \A i, j \in DOMAIN visited : visited[i] = visited[j] => i = j
  /\ \A i \in DOMAIN visited :
       fs.parent[visited[i]] # Root => \E j \in 1 .. i - 1 : visited[j] = fs.parent[visited[i]]
AllVisited ==
  phase = "climb" /\ curr = NULL => {visited[i] : i \in DOMAIN visited} = DOMAIN ent \ {Root}

\* "0 != pEnt->nChild" (fs_list.c:195) is never printed, and nothing freed is used:
\* an entry is freed once, after all below it.
ChildrenFreedFirst ==
  /\ \A e \in freed : \A c \in DOMAIN ent : fs.parent[c] = e => c \in freed
  /\ phase \in {"free", "freeup"} /\ curr # NULL => curr \notin freed

\* fs_list_fini() frees every entry.
AllFreed == phase = "done" => freed = DOMAIN ent
=============================================================================
