-------------------------------- MODULE Tree --------------------------------
(* The location and category trees of the storages (internal/store/tree.go,
   locations.go, categories.go, and their handlers in internal/httpapi).

   A structural edit reads the tree and then writes it in one transaction, under
   an advisory lock of its storage; the walks it makes stop at maxTreeDepth. What
   a node holds (batches on a shelf, products in a category) changes without that
   lock and is guarded by foreign keys only.  Names are left out. *)
EXTENDS Integers, FiniteSets

CONSTANTS
    Place, CatNode,     \* ids of the rows of locations and of categories
    Home,               \* the storage of every id
    Editor,             \* requests being served
    MaxTreeDepth,
    Top, NoNode         \* parent_id NULL; no row

Node == Place \cup CatNode

ASSUME TreeAssumption ==
    /\ MaxTreeDepth \in Nat \ {0}
    /\ IsFiniteSet(Node)
    /\ DOMAIN Home = Node
    /\ Top # NoNode /\ {Top, NoNode} \cap Node = {}
    /\ Place \cap CatNode = {}

VARIABLES
    parent,     \* parent_id, or NoNode for no row
    used,       \* nodes that hold something
    tomb,       \* entities named by tombstones
    edit,
    minted,     \* history: ids whose row was once inserted
    deep        \* history: a tree has been deeper than the walks go

treeVars == <<parent, used, tomb, edit, minted, deep>>

NoEdit == [phase |-> "idle", op |-> "none", storage |-> Top, node |-> NoNode, parent |-> Top]

TreeInit ==
    /\ parent = [n \in Node |-> NoNode]
    /\ used = {}
    /\ tomb = {}
    /\ edit = [e \in Editor |-> NoEdit]
    /\ minted = {} /\ deep = FALSE

-----------------------------------------------------------------------------
LiveNodes == {n \in Node : parent[n] # NoNode}

SameTree(n, m) == {n, m} \subseteq Place \/ {n, m} \subseteq CatNode

\* The walk from n towards the root, at most d rows of it.
Upward(n, d) ==
    LET up[i \in 1..d] == IF i = 1 THEN {n}
                          ELSE (up[i - 1] \cup {parent[m] : m \in up[i - 1]}) \ {Top, NoNode}
    IN  up[d]

\* n and what is below it, at most d levels of it.
Downward(n, d) ==
    LET down[i \in 1..d] == IF i = 1 THEN {n}
                            ELSE down[i - 1] \cup {m \in Node : parent[m] \in down[i - 1]}
    IN  down[d]

\* locationSubtree, categorySubtree
Subtree(n) == Downward(n, MaxTreeDepth)

RequireSameStorage(s, n) == n \in LiveNodes /\ Home[n] = s

WouldCycle(n, p) == n = p \/ n \in Upward(p, MaxTreeDepth)

ResolveParent(e) ==
    \/ edit[e].parent = Top
    \/ /\ RequireSameStorage(edit[e].storage, edit[e].parent)
       /\ SameTree(edit[e].node, edit[e].parent)
       /\ edit[e].op = "update" => ~WouldCycle(edit[e].node, edit[e].parent)

\* The tree a full listing nests: what can be reached from a root.
Nested == UNION {Downward(n, Cardinality(Node)) : n \in {m \in LiveNodes : parent[m] = Top}}

Depth(n) == Cardinality(Upward(n, Cardinality(Node)))

-----------------------------------------------------------------------------
(* Requests, as their handlers make them of the body.  The first thing a request's
   transaction does is to wait for the lock, so it begins when it has it. *)

\* Seeded fault: nothing serialises the edits of a storage.
BugLockNothing(s) == TRUE

\* pg_advisory_xact_lock, held to the end of the transaction.
LockStorageTree(s) == \A d \in Editor : edit[d].phase # "idle" => edit[d].storage # s

\* Requests are interchangeable: the next one served is the first that is free.
FreshEditor(e) == edit[e].phase = "idle" /\ e = CHOOSE d \in Editor : edit[d].phase = "idle"

BeginEdit(e, op, s, n, p) ==
    /\ FreshEditor(e)
    /\ LockStorageTree(s)
    /\ edit' = [edit EXCEPT ![e] =
         [phase |-> "locked", op |-> op, storage |-> s, node |-> n, parent |-> p]]
    /\ UNCHANGED <<parent, used, tomb, minted, deep>>

Fresh(n) == n \notin minted \cup {edit[d].node : d \in Editor}

PostLocation(e, n, p) == Fresh(n) /\ BeginEdit(e, "create", Home[n], n, p)

PostCategory(e, n, p) == Fresh(n) /\ BeginEdit(e, "create", Home[n], n, p)

PatchLocation(e, s, n, p) == BeginEdit(e, "update", s, n, p)

PatchCategory(e, s, n, p) == BeginEdit(e, "update", s, n, p)

RemoveLocation(e, s, n) == BeginEdit(e, "delete", s, n, Top)

RemoveCategory(e, s, n) == BeginEdit(e, "delete", s, n, Top)

-----------------------------------------------------------------------------
(* Their transactions *)

\* What the transaction reads before it writes.
CheckEdit(e) ==
    /\ edit[e].phase = "locked"
    /\ edit[e].op # "create" => RequireSameStorage(edit[e].storage, edit[e].node)
    /\ edit[e].op # "delete" => ResolveParent(e)
    /\ edit[e].op = "delete" => Subtree(edit[e].node) \cap used = {}
    /\ edit' = [edit EXCEPT ![e].phase = "checked"]
    /\ UNCHANGED <<parent, used, tomb, minted, deep>>

\* The INSERT or UPDATE and the commit.
Reparent(e) ==
    /\ edit[e].phase = "checked"
    /\ parent' = [parent EXCEPT ![edit[e].node] = edit[e].parent]
    /\ edit' = [edit EXCEPT ![e] = NoEdit]
    /\ minted' = minted \cup {edit[e].node}
    /\ deep' = (deep \/ \E n \in LiveNodes' : Depth(n)' > MaxTreeDepth)
    /\ UNCHANGED <<used, tomb>>

CreateLocation(e) == edit[e].op = "create" /\ edit[e].node \in Place /\ Reparent(e)

UpdateLocation(e) == edit[e].op = "update" /\ edit[e].node \in Place /\ Reparent(e)

CreateCategory(e) == edit[e].op = "create" /\ edit[e].node \in CatNode /\ Reparent(e)

UpdateCategory(e) == edit[e].op = "update" /\ edit[e].node \in CatNode /\ Reparent(e)

\* The DELETE cascades to every descendant and restricts where one is used; the
\* tombstones are those of the rows the transaction listed.
DeleteSubtree(e) ==
    LET doomed == Downward(edit[e].node, Cardinality(Node))
    IN  /\ edit[e].phase = "checked" /\ edit[e].op = "delete"
        /\ doomed \cap used = {}
        /\ parent' = [n \in Node |-> IF n \in doomed THEN NoNode ELSE parent[n]]
        /\ tomb' = tomb \cup Subtree(edit[e].node)
        /\ edit' = [edit EXCEPT ![e] = NoEdit]
        /\ UNCHANGED <<used, minted, deep>>

DeleteLocation(e) == edit[e].node \in Place /\ DeleteSubtree(e)

DeleteCategory(e) == edit[e].node \in CatNode /\ DeleteSubtree(e)

\* Refused, failed or cancelled: the transaction rolls back.
Abandon(e) ==
    /\ edit[e].phase # "idle"
    /\ edit' = [edit EXCEPT ![e] = NoEdit]
    /\ UNCHANGED <<parent, used, tomb, minted, deep>>

\* A batch is put on the shelf, a product filed in the category: the foreign key
\* waits for a delete in progress and then finds no row.
Use(n) ==
    /\ n \in LiveNodes \ used
    /\ used' = used \cup {n}
    /\ UNCHANGED <<parent, tomb, edit, minted, deep>>

Vacate(n) ==
    /\ n \in used
    /\ used' = used \ {n}
    /\ UNCHANGED <<parent, tomb, edit, minted, deep>>

\* Of the storage of the node: a request that names another is refused by the
\* first check, and holds no lock that matters here.
AskSomething(e) ==
    \/ \E n \in Place, p \in Place \cup {Top} :
         PostLocation(e, n, p) \/ PatchLocation(e, Home[n], n, p)
    \/ \E n \in CatNode, p \in CatNode \cup {Top} :
         PostCategory(e, n, p) \/ PatchCategory(e, Home[n], n, p)
    \/ \E n \in Place : RemoveLocation(e, Home[n], n)
    \/ \E n \in CatNode : RemoveCategory(e, Home[n], n)

TreeNext ==
    \/ \E e \in Editor :
         \/ AskSomething(e) \/ CheckEdit(e) \/ Abandon(e)
         \/ CreateLocation(e) \/ UpdateLocation(e) \/ DeleteLocation(e)
         \/ CreateCategory(e) \/ UpdateCategory(e) \/ DeleteCategory(e)
    \/ \E n \in Node : Use(n) \/ Vacate(n)

TreeSpec == TreeInit /\ [][TreeNext]_treeVars

-----------------------------------------------------------------------------
TreeTypeOK ==
    /\ parent \in [Node -> Node \cup {Top, NoNode}]
    /\ used \subseteq LiveNodes
    /\ tomb \subseteq Node /\ minted \subseteq Node
    /\ edit \in [Editor ->
         [phase : {"idle", "locked", "checked"}, op : {"none", "create", "update", "delete"},
          storage : {Home[n] : n \in Node} \cup {Top}, node : Node \cup {NoNode}, parent : Node \cup {Top}]]
    /\ deep \in BOOLEAN

(* Moves, inserts and deletes of concurrent requests never detach a subtree ("the
   rootless ring wouldCycle exists to prevent"): every row can be reached from a
   root, below parents of its own storage and tree, and the rows that are gone are
   the ones with a tombstone.  It holds for as long as no tree has been deeper than maxTreeDepth:
   past it, the walks that look for a ring, for stock and for what to bury end too
   early. *)
Rooted ==
    ~deep =>
        /\ Nested = LiveNodes
        /\ \A n \in LiveNodes : parent[n] # Top => Home[parent[n]] = Home[n] /\ SameTree(n, parent[n])
        /\ LiveNodes = minted \ tomb

=============================================================================
