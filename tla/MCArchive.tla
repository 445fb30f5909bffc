----------------------------- MODULE MCArchive -----------------------------
(***************************************************************************)
(* Checks Archive and CopyToPath over every source tree of depth two with *)
(* the names "a" and "ab" (one a string prefix of the other, as a         *)
(* directory name and its sibling often are), every filter that excludes  *)
(* a subset of two paths, and every subPath.  The state is the input;     *)
(* nothing changes after Init.                                             *)
(***************************************************************************)
EXTENDS Archive, FiniteSets

CONSTANTS Excludable

VARIABLES tree, excluded, sub

vars == <<tree, excluded, sub>>

MCNames == <<<<"a">>, <<"a", "b">>>>

MCExcludable == {<<<<"a">>>>, <<<<"a", "b">>, <<"a">>>>}

To == <<<<"t">>>>

Level1 == {<<n>> : n \in Range(Names)}
Level2 == {<<n, m>> : n, m \in Range(Names)}
Nodes == Level1 \cup Level2

(* A tree the file system can hold: below a name there is something only  *)
(* when the name is a directory; the second level holds no directories.  *)
Trees ==
  {t \in [Nodes -> {"none", "file", "dir", "symlink"}] :
     /\ \A p \in Level2 : t[p] # "dir"
     /\ \A p \in Level2 : t[<<p[1]>>] # "dir" => t[p] = "none"}

Init ==
  /\ tree \in Trees
  /\ excluded \in SUBSET Excludable
  /\ sub \in {<<>>} \cup Nodes

Next == UNCHANGED vars

Spec == Init /\ [][Next]_vars

(* The reference: the regular files with no excluded path on the way to  *)
(* them, ordered name by name as the walk meets them.                     *)
Included == {p \in Nodes : tree[p] = "file" /\ \A k \in 1 .. Len(p) : SubSeq(p, 1, k) \notin excluded}

NameIndex(n) == CHOOSE k \in 1 .. Len(Names) : Names[k] = n

WalkBefore(p, q) ==
  \/ IsStrictPrefix(p, q)
  \/ \E i \in 1 .. Len(p) :
       /\ i <= Len(q)
       /\ SubSeq(p, 1, i - 1) = SubSeq(q, 1, i - 1)
       /\ NameIndex(p[i]) < NameIndex(q[i])

Entries == Archive(tree, excluded)

(* Section 4.3: the archive holds exactly the regular files the filter    *)
(* keeps, a directory the filter excludes taking its whole subtree with  *)
(* it, in the order of the walk, each once.                              *)
ArchiveMatchesFilter == Entries = SetToSortSeq(Included, WalkBefore)

(* CopyToPath with the name of a file as subPath writes that file, and    *)
(* only it, at toPath: the loop must stop at it, before a sibling whose   *)
(* name starts with the same letters.                                     *)
SingleFileExtraction ==
  sub \in Included => CopyToPath(Entries, sub, To) = {<<To, sub>>}

(* Section 8, property 5: Archive then CopyToPath with an empty subPath   *)
(* reproduces every included file under its relative path below toPath.  *)
RoundTrip ==
  sub = <<>> => CopyToPath(Entries, sub, To) = {<<To \o p, p>> : p \in Included}

(* CopyToPath with a directory as subPath extracts exactly the files of   *)
(* that directory, each below toPath under its path relative to subPath.  *)
SubtreeExtraction ==
  sub # <<>> /\ tree[sub] = "dir" =>
    CopyToPath(Entries, sub, To) =
      {<<To \o SubSeq(p, Len(sub) + 1, Len(p)), p>> : p \in {q \in Included : IsStrictPrefix(sub, q)}}

=============================================================================
