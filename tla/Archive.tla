------------------------------ MODULE Archive ------------------------------
(***************************************************************************)
(* The archive builder and the extractor of the S3 backend                *)
(* (S3Storage.Archive and S3Storage.CopyToPath, pkg/storage/s3.go), as    *)
(* operators over small directory trees.                                  *)
(*                                                                         *)
(* A name is a sequence of letters and a path a sequence of names, so     *)
(* that the string operations the code applies to paths (strings.HasPrefix *)
(* on "a/b", filepath.Rel, filepath.Join) are modelled by what they do.   *)
(* A tree gives every candidate path a kind: "none", "file", "dir" or     *)
(* "symlink" (standing for every non-regular file).  File contents and    *)
(* header fields are not modelled: an archive is the sequence of entry    *)
(* names, and an extraction the set of <<target, entry>> pairs written,   *)
(* where the entry names the content that ends up at the target.          *)
(***************************************************************************)
EXTENDS Integers, Sequences, SequencesExt

CONSTANTS
  Names   \* the names a directory may hold, in the order ReadDirNames sorts them

DotDot == <<".", ".">>

(* The path as a string: names joined by "/".                             *)
Str(p) == FlattenSeq([i \in 1 .. Len(p) |-> IF i = 1 THEN p[i] ELSE <<"/">> \o p[i]])

(* strings.HasPrefix(header.Name, subPath)                                *)
HasPrefix(h, sub) == IsPrefix(Str(sub), Str(h))

(* filepath.Rel(base, targ) for clean relative paths: ".." for each name  *)
(* of base after the common leading names, then the rest of targ.  Equal  *)
(* paths give "." (the empty sequence).                                   *)
Rel(base, targ) ==
  LET common == {k \in 0 .. Len(base) :
                   k <= Len(targ) /\ SubSeq(base, 1, k) = SubSeq(targ, 1, k)}
      c == CHOOSE k \in common : \A j \in common : j <= k
  IN  [i \in 1 .. Len(base) - c |-> DotDot] \o SubSeq(targ, c + 1, Len(targ))

(* filepath.Join(toPath, rel) on an absolute toPath: concatenation, then  *)
(* Clean, where ".." removes the last name and stops at the root.         *)
RECURSIVE CleanFrom(_, _)
CleanFrom(p, acc) ==
  IF p = <<>> THEN acc
  ELSE CleanFrom(Tail(p), IF Head(p) = DotDot
                            THEN IF acc = <<>> THEN <<>> ELSE Front(acc)
                            ELSE Append(acc, Head(p)))

Join(to, rel) == CleanFrom(to \o rel, <<>>)

(***************************************************************************)
(* Archive: filepath.Walk of the source directory.  Walk visits the root  *)
(* and then the names of each directory in sorted order, depth first; the *)
(* filter sees every visited path relative to the root; an excluded       *)
(* directory returns filepath.SkipDir and an excluded file is omitted;    *)
(* only regular files become entries, under their relative path.  Walk   *)
(* uses Lstat, so a symbolic link to a directory is not followed.         *)
(***************************************************************************)
RECURSIVE Visit(_, _, _), WalkChildren(_, _, _, _)

(* Mutant: an excluded directory returns nil instead of SkipDir.          *)
VisitNoSkipDir(tree, excluded, p) ==
  CASE tree[p] = "none"                          -> <<>>
    [] p \in excluded /\ tree[p] # "dir"         -> <<>>
    [] tree[p] = "file"                          -> <<p>>
    [] tree[p] = "dir"                           -> WalkChildren(tree, excluded, p, 1)
    [] OTHER                                     -> <<>>

Visit(tree, excluded, p) ==
  CASE tree[p] = "none"   -> <<>>
    [] p \in excluded     -> <<>>
    [] tree[p] = "file"   -> <<p>>
    [] tree[p] = "dir"    -> WalkChildren(tree, excluded, p, 1)
    [] OTHER              -> <<>>

WalkChildren(tree, excluded, dir, k) ==
  IF k > Len(Names) \/ Append(dir, Names[k]) \notin DOMAIN tree THEN <<>>
  ELSE Visit(tree, excluded, Append(dir, Names[k]))
         \o WalkChildren(tree, excluded, dir, k + 1)

(* The root is visited first, as ".", which is the empty path here.       *)
Archive(tree, excluded) ==
  IF <<>> \in excluded THEN <<>> ELSE WalkChildren(tree, excluded, <<>>, 1)

(***************************************************************************)
(* CopyToPath: read the entries in order; with a non-empty subPath skip   *)
(* every entry whose name does not start with it; the target is toPath    *)
(* itself when subPath is empty, and Join(toPath, Rel(subPath, name))     *)
(* otherwise; the file is created or truncated and written; an entry      *)
(* whose name equals subPath ends the loop.                               *)
(***************************************************************************)
Target(h, sub, to) == IF sub = <<>> THEN to ELSE Join(to, Rel(sub, h))

Write(out, target, h) == {w \in out : w[1] # target} \cup {<<target, h>>}

RECURSIVE CopyLoop(_, _, _, _)

(* Mutant: the loop does not stop at the entry named subPath.             *)
CopyLoopNoBreak(entries, sub, to, out) ==
  IF entries = <<>> THEN out
  ELSE LET h == Head(entries) IN
       IF sub # <<>> /\ ~HasPrefix(h, sub)
         THEN CopyLoop(Tail(entries), sub, to, out)
         ELSE CopyLoop(Tail(entries), sub, to, Write(out, Target(h, sub, to), h))

CopyLoop(entries, sub, to, out) ==
  IF entries = <<>> THEN out
  ELSE LET h == Head(entries)
           w == Write(out, Target(h, sub, to), h)
       IN  CASE sub # <<>> /\ ~HasPrefix(h, sub) -> CopyLoop(Tail(entries), sub, to, out)
             [] sub # <<>> /\ h = sub           -> w
             [] OTHER                           -> CopyLoop(Tail(entries), sub, to, w)

CopyToPath(entries, sub, to) == CopyLoop(entries, sub, to, {})

=============================================================================
