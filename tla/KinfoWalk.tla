------------------------------ MODULE KinfoWalk ------------------------------
(***************************************************************************)
(* Finding and listing nodes of the information tree (common_kinfo.c),      *)
(* computed under kinfo_lock.  A name has length 1; a path is the sequence  *)
(* of its names, and each of them takes two characters, the separator       *)
(* included.                                                                *)
(***************************************************************************)
EXTENDS KinfoTree

CONSTANT MaxPathLen     \* KFIO_INFO_MAX_FULLPATHLEN

TypeOfNode(n) == IF n = Top THEN "dir" ELSE kt_node[n].type

\* kfio_info_find_node, on a path whose empty components have been skipped.
kfio_info_find_node(topnode, path) ==
  FoldLeft(LAMBDA n, name : IF n # NoNode /\ TypeOfNode(n) = "dir"
                            THEN kfio_info_lookup_node(n, name) ELSE NoNode,
           topnode, path)

RECURSIVE PathFrom(_, _)
PathFrom(topnode, n) ==
  IF n = topnode THEN <<>> ELSE Append(PathFrom(topnode, kt_node[n].parent), kt_node[n].name)

NoPath == <<NoNode>>      \* -EINVAL

\* kfio_info_node_pathname: every name and its separator must fit in len.
kfio_info_node_pathname(topnode, n, len) ==
  LET path == PathFrom(topnode, n) IN IF 2 * Len(path) > len THEN NoPath ELSE path

PositionIn(dir, n) == CHOOSE i \in DOMAIN kt_kids[dir] : kt_kids[dir][i] = n

\* Mutant of TrimPath: going up does not shorten the path.
WalkForgetsTrim(path) == path
TrimPath(path) == Front(path)

\* The loop of kfio_info_node_walk_tree: entry i of parent's list, whose path is
\* path.  A directory whose path would not fit is skipped with all it holds.
RECURSIVE WalkLoop(_, _, _, _, _)
WalkLoop(startnode, parent, i, path, out) ==
  IF i > Len(kt_kids[parent])
  THEN IF parent = startnode
       THEN out
       ELSE LET up == kt_node[parent].parent
            IN WalkLoop(startnode, up, PositionIn(up, parent) + 1, TrimPath(path), out)
  ELSE LET n == kt_kids[parent][i]
           longer == Append(path, kt_node[n].name)
       IN CASE TypeOfNode(n) = "leaf" ->
                  WalkLoop(startnode, parent, i + 1, path, Append(out, longer))
            [] TypeOfNode(n) = "dir" /\ 2 * Len(longer) >= MaxPathLen ->
                  WalkLoop(startnode, parent, i + 1, path, out)
            [] OTHER -> WalkLoop(startnode, n, 1, longer, out)

kfio_info_node_walk_tree(topnode, startnode) ==
  LET path == kfio_info_node_pathname(topnode, startnode, MaxPathLen - 1)
  IN IF path = NoPath THEN <<>> ELSE WalkLoop(startnode, startnode, 1, path, <<>>)
-----------------------------------------------------------------------------
RECURSIVE Below(_)
Below(d) == UNION {{n} \cup (IF n \in Dirs THEN Below(n) ELSE {}) : n \in ToSet(kt_kids[d])}

\* A leaf whose directories all fit in a path buffer.
Listable(n) == LET p == PathFrom(Top, n) IN Len(p) = 1 \/ 2 * (Len(p) - 1) < MaxPathLen

\* The iterative walk lists every leaf below its start once, but for those under
\* a directory whose path does not fit, by the path from which a lookup finds
\* exactly that leaf again (kfio_info_node_walk_tree, kfio_info_find_node,
\* kfio_info_node_pathname).
KinfoWalkExact ==
  Unlocked => \A d \in Dirs \cup {Top} :
    LET out == kfio_info_node_walk_tree(Top, d)
        leaves == {n \in Below(d) : n \notin Dirs /\ Listable(n)}
    IN /\ Len(out) = Cardinality(leaves)
       /\ {kfio_info_find_node(Top, out[i]) : i \in DOMAIN out} = leaves
=============================================================================
