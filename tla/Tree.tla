-------------------------------- MODULE Tree ---------------------------------
(***************************************************************************)
(* What the file system promises: a tree of named files and directories.   *)
(* An entry appears below an existing directory, only a file or an empty   *)
(* directory disappears, and a file only grows.                            *)
(***************************************************************************)
EXTENDS Naturals, Sequences

CONSTANT Paths

VARIABLE tree   \* type and size of the paths that exist

Exists(path) == path \in DOMAIN tree
IsDirectory(path) == path = << >> \/ (Exists(path) /\ tree[path].type = "FT_DIRECTORY")
Above(path) == SubSeq(path, 1, Len(path) - 1)
Leaf(path) == \A other \in DOMAIN tree : other = << >> \/ Above(other) # path

Init == tree = << >>

Create(path, type) ==
  /\ ~Exists(path) /\ IsDirectory(Above(path))
  /\ tree' = [p \in DOMAIN tree \cup {path} |->
                IF p = path THEN [type |-> type, size |-> 0] ELSE tree[p]]

Delete(path) ==
  /\ Exists(path) /\ Leaf(path)
  /\ tree' = [p \in DOMAIN tree \ {path} |-> tree[p]]

Grow(path) ==
  /\ Exists(path) /\ ~IsDirectory(path)
  /\ \E count \in 1 .. tree'[path].size :
       tree' = [tree EXCEPT ![path].size = @ + count]

Next == \E path \in Paths : \/ \E type \in {"FT_REGULAR", "FT_DIRECTORY"} : Create(path, type)
                            \/ Delete(path)
                            \/ Grow(path)

Spec == Init /\ [][Next]_tree
=============================================================================
