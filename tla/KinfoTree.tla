------------------------------ MODULE KinfoTree ------------------------------
(***************************************************************************)
(* The tree of information nodes (common_kinfo.c) and the /proc entries     *)
(* that shadow it (the os_* half of kinfo.c).                               *)
(*                                                                          *)
(* kinfo_lock is held through a whole removal, and removing a /proc entry   *)
(* waits for the file operations that are inside it, so a removal is a      *)
(* series of steps, one per pass of its loops; every other operation is one *)
(* critical section and one step.  Readers reach a node through /proc       *)
(* without the lock.  The /proc core is external.                           *)
(***************************************************************************)
EXTENDS Integers, Sequences, FiniteSets, SequencesExt

CONSTANTS
  NodeIds,        \* the nodes that can be allocated at once
  NodeNames,
  Readers,        \* processes inside a file operation of an entry
  Top,            \* kinfo_root_node
  NoNode          \* NULL

NodeRecs == [type : {"dir", "leaf"}, name : NodeNames, parent : NodeIds \cup {Top}]
Cuts     == [top : NodeIds, at : NodeIds]

ASSUME KinfoNull == Top \notin NodeIds /\ NoNode \notin NodeIds \cup {Top} \cup NodeRecs \cup Cuts

VARIABLES
  kt_root,        \* kinfo_root_node is there, and the backend is initialized
  kt_node,        \* per id: [type, name, parent] of the allocated node, or NoNode
  kt_kids,        \* per directory: subnode_list
  kt_priv,        \* nodes whose os_priv is set
  kt_entry,       \* /proc: the entries, as [dir, name, node]
  kt_inside,      \* per reader: the node whose file operation it runs
  kt_cut          \* the removal under way: [top, at], or NoNode

ktVars == <<kt_root, kt_node, kt_kids, kt_priv, kt_entry, kt_inside, kt_cut>>

Dirs == {n \in NodeIds : kt_node[n] # NoNode /\ kt_node[n].type = "dir"}
Unlocked == kt_cut = NoNode

KinfoInit ==
  /\ kt_root = FALSE
  /\ kt_node = [n \in NodeIds |-> NoNode]
  /\ kt_kids = [n \in NodeIds \cup {Top} |-> <<>>]
  /\ kt_priv = {}
  /\ kt_entry = {}
  /\ kt_inside = [r \in Readers |-> NoNode]
  /\ kt_cut = NoNode

\* The allocation of the root, or the backend's proc_mkdir, may fail: the one
\* leaves nothing, the other is undone.
kfio_info_driver_init ==
  /\ ~kt_root
  /\ kt_root' \in BOOLEAN
  /\ UNCHANGED <<kt_node, kt_kids, kt_priv, kt_entry, kt_inside, kt_cut>>

\* Called when the driver has removed its nodes.
kfio_info_driver_fini ==
  /\ kt_root /\ Unlocked
  /\ \A n \in NodeIds : kt_node[n] = NoNode
  /\ kt_root' = FALSE
  /\ UNCHANGED <<kt_node, kt_kids, kt_priv, kt_entry, kt_inside, kt_cut>>
-----------------------------------------------------------------------------
(* Creating nodes *)

kfio_info_lookup_node(dir, name) ==
  LET found == {i \in DOMAIN kt_kids[dir] : kt_node[kt_kids[dir][i]].name = name}
  IN IF found = {} THEN NoNode ELSE kt_kids[dir][CHOOSE i \in found : \A j \in found : i <= j]

\* The /proc directory of a parent: the entries of nodes without a parent have
\* their names prefixed and are looked up from the top.
ProcDir(parent) == IF parent = NoNode THEN Top ELSE parent

\* kfio_info_os_create_node.  The fake root has no os_priv, so a node whose
\* parent is given as the root itself is refused.  External: /proc refuses a
\* name twice in a directory, and may refuse any.
kfio_info_os_create_node(parent, type, name) ==
  /\ IF parent = NoNode THEN type = "dir" ELSE parent \in kt_priv
  /\ \A e \in kt_entry : e.dir = ProcDir(parent) => e.name # name

\* kfio_info_insert_node, when it succeeds; the order is lookup, /proc, list.
kfio_info_insert_node(parent, type, name) ==
  /\ parent # NoNode => kfio_info_lookup_node(parent, name) = NoNode
  /\ kfio_info_os_create_node(parent, type, name)

AllocNode == CHOOSE n \in NodeIds : kt_node[n] = NoNode

\* What the kfio_info_create functions share.  Whatever fails, the node is freed and
\* nothing has changed.
CreateNode(parent, type, name) ==
  /\ kt_root /\ Unlocked
  /\ \E n \in NodeIds : kt_node[n] = NoNode
  /\ kfio_info_insert_node(parent, type, name)
  /\ LET n == AllocNode
         p == ProcDir(parent)
     IN /\ kt_node' = [kt_node EXCEPT ![n] = [type |-> type, name |-> name, parent |-> p]]
        /\ kt_kids' = [kt_kids EXCEPT ![p] = Append(@, n), ![n] = <<>>]
        /\ kt_priv' = kt_priv \cup {n}
        /\ kt_entry' = kt_entry \cup {[dir |-> p, name |-> name, node |-> n]}
  /\ UNCHANGED <<kt_root, kt_inside, kt_cut>>

\* Only a directory may come without a parent.
kfio_info_create_dir(parent, name) == CreateNode(parent, "dir", name)

\* kfio_info_create_type, _proc, _seqf and _text.
CreateLeaf(parent, name) == parent # NoNode /\ CreateNode(parent, "leaf", name)
-----------------------------------------------------------------------------
(* kfio_info_remove_node *)

RemoveStart(n) ==
  /\ Unlocked
  /\ kt_node[n] # NoNode
  /\ kt_cut' = [top |-> n, at |-> n]
  /\ UNCHANGED <<kt_root, kt_node, kt_kids, kt_priv, kt_entry, kt_inside>>

\* External: remove_proc_entry returns when nobody is inside the entry.
Drained(n) == \A r \in Readers : kt_inside[r] # n

\* kfio_info_os_remove_node, found in /proc by the node's name.
kfio_info_os_remove_node(n) ==
  /\ Drained(n)
  /\ kt_priv' = kt_priv \ {n}
  /\ kt_entry' = {e \in kt_entry : ~(e.dir = kt_node[n].parent /\ e.name = kt_node[n].name)}

\* Mutant of UnlinkAndFree: the node is freed before its readers have left.
FreeFirst(n) ==
  /\ kt_priv' = kt_priv \ {n}
  /\ kt_entry' = {e \in kt_entry : e.node # n}
  /\ kt_kids' = [kt_kids EXCEPT ![kt_node[n].parent] = RemoveFirst(@, n)]
  /\ kt_node' = [kt_node EXCEPT ![n] = NoNode]

\* kfio_info_unlink_node, then kfio_info_free_node.
UnlinkAndFree(n) ==
  /\ kfio_info_os_remove_node(n)
  /\ kt_kids' = [kt_kids EXCEPT ![kt_node[n].parent] = RemoveFirst(@, n)]
  /\ kt_node' = [kt_node EXCEPT ![n] = NoNode]

RemoveLeaf ==
  /\ kt_cut # NoNode
  /\ kt_node[kt_cut.top].type = "leaf"
  /\ UnlinkAndFree(kt_cut.top)
  /\ kt_cut' = NoNode
  /\ UNCHANGED <<kt_root, kt_inside>>

\* One pass of the loops: down into a directory, a leaf away, or up.
RemoveDescend ==
  /\ kt_cut # NoNode
  /\ kt_kids[kt_cut.at] # <<>>
  /\ Head(kt_kids[kt_cut.at]) \in Dirs
  /\ kt_cut' = [kt_cut EXCEPT !.at = Head(kt_kids[@])]
  /\ UNCHANGED <<kt_root, kt_node, kt_kids, kt_priv, kt_entry, kt_inside>>

RemoveChild ==
  /\ kt_cut # NoNode
  /\ kt_kids[kt_cut.at] # <<>>
  /\ Head(kt_kids[kt_cut.at]) \notin Dirs
  /\ UnlinkAndFree(Head(kt_kids[kt_cut.at]))
  /\ UNCHANGED <<kt_root, kt_inside, kt_cut>>

RemoveAscend ==
  /\ kt_cut # NoNode
  /\ kt_cut.at \in Dirs
  /\ kt_kids[kt_cut.at] = <<>>
  /\ UnlinkAndFree(kt_cut.at)
  /\ kt_cut' = IF kt_cut.at = kt_cut.top
               THEN NoNode
               ELSE [kt_cut EXCEPT !.at = kt_node[@].parent]
  /\ UNCHANGED <<kt_root, kt_inside>>
-----------------------------------------------------------------------------
(* Readers, through /proc *)

\* External: once remove_proc_entry has been called, nobody enters the entry.
Closing(n) == kt_cut # NoNode /\ (n = kt_cut.top \/ (kt_kids[kt_cut.at] # <<>> /\ n = Head(kt_kids[kt_cut.at])))

Enter(r) ==
  /\ kt_inside[r] = NoNode
  /\ \E e \in kt_entry : /\ e.node \notin Dirs /\ ~Closing(e.node)
                         /\ kt_inside' = [kt_inside EXCEPT ![r] = e.node]
  /\ UNCHANGED <<kt_root, kt_node, kt_kids, kt_priv, kt_entry, kt_cut>>

Leave(r) ==
  /\ kt_inside[r] # NoNode
  /\ kt_inside' = [kt_inside EXCEPT ![r] = NoNode]
  /\ UNCHANGED <<kt_root, kt_node, kt_kids, kt_priv, kt_entry, kt_cut>>
-----------------------------------------------------------------------------
KinfoNext ==
  \/ kfio_info_driver_init \/ kfio_info_driver_fini
  \/ \E p \in Dirs \cup {Top, NoNode}, s \in NodeNames :
       kfio_info_create_dir(p, s) \/ CreateLeaf(p, s)
  \/ \E n \in NodeIds : RemoveStart(n)
  \/ RemoveLeaf \/ RemoveDescend \/ RemoveChild \/ RemoveAscend
  \/ \E r \in Readers : Enter(r) \/ Leave(r)

KinfoSpec == KinfoInit /\ [][KinfoNext]_ktVars

KinfoTypeOK ==
  /\ kt_root \in BOOLEAN
  /\ \A n \in NodeIds : kt_node[n] # NoNode => kt_node[n] \in NodeRecs
  /\ kt_kids \in [NodeIds \cup {Top} -> Seq(NodeIds)]
  /\ kt_priv \subseteq NodeIds
  /\ kt_entry \subseteq [dir : NodeIds \cup {Top}, name : NodeNames, node : NodeIds]
  /\ kt_inside \in [Readers -> NodeIds \cup {NoNode}]
  /\ Unlocked \/ kt_cut \in Cuts

Live == {n \in NodeIds : kt_node[n] # NoNode}

\* /proc shadows the tree at every step, also in the middle of a removal: each
\* node has one entry, in its parent's directory and under its name, no entry
\* outlives its node, the lists hold every node once, under its parent, and
\* nobody runs a file operation of a node that was freed (kfio_info_insert_node,
\* kfio_info_unlink_node, kfio_info_remove_node).
KinfoTreeExact ==
  /\ kt_entry = {[dir |-> kt_node[n].parent, name |-> kt_node[n].name, node |-> n] : n \in Live}
  /\ \A n \in Live : n \in ToSet(kt_kids[kt_node[n].parent])
  /\ \A d \in NodeIds \cup {Top} : \A i, j \in DOMAIN kt_kids[d] :
        /\ kt_kids[d][i] \in Live /\ kt_node[kt_kids[d][i]].parent = d
        /\ i # j => kt_node[kt_kids[d][i]].name # kt_node[kt_kids[d][j]].name
  /\ \A r \in Readers : kt_inside[r] # NoNode => kt_inside[r] \in Live
=============================================================================
