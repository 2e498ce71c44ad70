----------------------------- MODULE CategoryTree -----------------------------
(***************************************************************************)
(* The category tree (category.admin.service.ts, materializedPath.ts).     *)
(* Every row stores its parent and, redundantly, its path of slugs from    *)
(* the root: breadcrumbs, landings and deletions of a subtree go by the    *)
(* path, the menu and what the storefront shows by the parent. Deletions   *)
(* are soft: a deleted row keeps its parent and path, and may be restored. *)
(*                                                                         *)
(* A request checks, then writes, then rewrites the paths below. A row's   *)
(* depth is the length of its path less one. There is no category of kind  *)
(* ALL, whose deletion has one more condition.                             *)
(***************************************************************************)
EXTENDS Naturals, Sequences, FiniteSets

CONSTANTS
    Categories,     \* the rows that may be created
    Editors,        \* administrators' requests
    DepthCap,       \* MAX_CATEGORY_DEPTH
    Renamable,      \* categories that may be renamed, each between two slugs
    Stocked,        \* categories with products of their own
    Strategies,     \* the DeleteStrategy values in use
    MayRestore      \* whether deleted categories are restored

NoCategory == "none"

ASSUME TreeAssumption ==
    /\ NoCategory \notin Categories /\ IsFiniteSet(Categories)
    /\ DepthCap \in Nat
    /\ Strategies \subseteq {"BLOCK", "SOFT", "REASSIGN_CHILDREN", "CASCADE_SOFT"}
    /\ MayRestore \in BOOLEAN

VARIABLES
    node,    \* Category rows
    editor   \* what each request in progress is about to write

treeVars == <<node, editor>>

Slugs == Categories \X {"first", "second"}
Unplanted(c) == [state |-> "absent", parent |-> NoCategory, slug |-> <<c, "first">>, path |-> <<>>]
AtDesk == [step |-> "idle", of |-> NoCategory, row |-> Unplanted(NoCategory), fresh |-> TRUE,
           strategy |-> "BLOCK", todo |-> {}]

TreeTypeOK ==
    /\ \A c \in Categories :
         /\ node[c].state \in {"absent", "live", "deleted"}
         /\ node[c].parent \in Categories \cup {NoCategory}
         /\ node[c].slug \in Slugs
         /\ node[c].path \in Seq(Slugs) /\ Len(node[c].path) <= DepthCap + 1
    /\ \A e \in Editors :
         /\ editor[e].step \in {"idle", "create", "move", "rename", "delete", "restore", "below"}
         /\ editor[e].todo \subseteq Categories

TreeInit ==
    /\ node = [c \in Categories |-> Unplanted(c)]
    /\ editor = [e \in Editors |-> AtDesk]

InTree(c) == c \in Categories /\ node[c].state = "live"
Parents == {c \in Categories : InTree(c)} \cup {NoCategory}
PathOf(c) == IF c = NoCategory THEN <<>> ELSE node[c].path
WithinCap(path) == Len(path) <= DepthCap + 1

(***************************************************************************)
(* materializedPath.ts                                                     *)
(***************************************************************************)
\* loadNode: deleted rows are not found.
Loaded(c) == IF InTree(c) THEN c ELSE NoCategory

\* The rows found by climbing from c, parent by parent, until one is not found.
Climb(c) ==
    LET up[n \in 0..Cardinality(Categories)] ==
            IF n = 0 THEN Loaded(c)
            ELSE IF up[n - 1] = NoCategory THEN NoCategory
            ELSE Loaded(node[up[n - 1]].parent)
    IN  up

\* A faulty check that only asks whether the parent is the node.
IsItself(c, parent) == parent = c
\* assertNoCycle: the climb meets the node itself, or goes round.
MakesCycle(c, parent) ==
    LET up == Climb(parent)
    IN  \E n \in DOMAIN up :
            /\ up[n] # NoCategory
            /\ up[n] = c \/ \E m \in 0..(n - 1) : up[m] = up[n]

\* The path recomputeSubtree gives to d, n generations below c.
PathBelow(c, d, n) ==
    Append(PathOf(node[c].parent), node[c].slug)
        \o [k \in 1..n |-> node[Climb(d)[n - k]].slug]

\* recomputeSubtree: refused when the node or its parent is not found or they make a
\* cycle; breadth first, so that a row too deep ends it with all others rewritten.
Rewritable(c) ==
    /\ InTree(c)
    /\ node[c].parent \in Parents
    /\ ~MakesCycle(c, node[c].parent)
    /\ WithinCap(PathBelow(c, c, 0))

\* A faulty rewrite that leaves the rows below as they were.
RewrittenAlone(c) == [node EXCEPT ![c].path = PathBelow(c, c, 0)]
Rewritten(c) ==
    [d \in Categories |->
        IF \E n \in DOMAIN Climb(d) : Climb(d)[n] = c
        THEN LET n == CHOOSE n \in DOMAIN Climb(d) : Climb(d)[n] = c
             IN  IF WithinCap(PathBelow(c, d, n))
                 THEN [node[d] EXCEPT !.path = PathBelow(c, d, n)] ELSE node[d]
        ELSE node[d]]

TooDeep(c) ==
    \E d \in Categories : \E n \in DOMAIN Climb(d) :
        Climb(d)[n] = c /\ ~WithinCap(PathBelow(c, d, n))

(***************************************************************************)
(* Requests: what they check first.                                        *)
(***************************************************************************)
EditorAt(e, step) == editor[e].step = step
TakeUp(e, work) == editor' = [editor EXCEPT ![e] = work]
Leave(e) == editor' = [editor EXCEPT ![e] = AtDesk]

BeginCreate(e, c, parent) ==
    LET path == Append(PathOf(parent), node[c].slug) IN
    /\ EditorAt(e, "idle")
    /\ node[c].state = "absent"
    /\ parent \in Parents
    /\ WithinCap(path)
    /\ TakeUp(e, [AtDesk EXCEPT !.step = "create", !.of = c,
                    !.row = [node[c] EXCEPT !.state = "live", !.parent = parent, !.path = path]])
    /\ UNCHANGED node

\* findDescendants: live rows whose path starts with this one.
StartsWith(path, start) == Len(start) < Len(path) /\ \A k \in DOMAIN start : path[k] = start[k]
Under(path) == {d \in Categories : InTree(d) /\ StartsWith(node[d].path, path)}

\* The deepest row below must fit where it would come to be.
DeepestFits(c, path) ==
    \A d \in Under(node[c].path) :
        Len(node[d].path) + Len(path) - Len(node[c].path) <= DepthCap + 1

BeginMove(e, c, parent) ==
    LET path == Append(PathOf(parent), node[c].slug) IN
    /\ EditorAt(e, "idle")
    /\ InTree(c) /\ parent \in Parents \ {c}
    /\ ~MakesCycle(c, parent)
    /\ WithinCap(path) /\ DeepestFits(c, path)
    /\ TakeUp(e, [AtDesk EXCEPT !.step = "move", !.of = c,
                    !.row = [node[c] EXCEPT !.parent = parent, !.path = path]])
    /\ UNCHANGED node

OtherSlug(c) == IF node[c].slug[2] = "first" THEN <<c, "second">> ELSE <<c, "first">>

\* update() also finds deleted categories.
BeginRename(e, c) ==
    /\ EditorAt(e, "idle")
    /\ c \in Renamable
    /\ node[c].state # "absent"
    /\ TakeUp(e, [AtDesk EXCEPT !.step = "rename", !.of = c,
                    !.row = [node[c] EXCEPT !.slug = OtherSlug(c),
                                            !.path = [@ EXCEPT ![Len(@)] = OtherSlug(c)]]])
    /\ UNCHANGED node

Children(c) == {d \in Categories : InTree(d) /\ node[d].parent = c}

\* deleteImpact
Blocked(c, strategy) ==
    \/ strategy = "BLOCK" /\ (Children(c) # {} \/ c \in Stocked)
    \/ strategy = "REASSIGN_CHILDREN" /\ c \in Stocked

BeginDelete(e, c, strategy) ==
    /\ EditorAt(e, "idle")
    /\ InTree(c)
    /\ ~Blocked(c, strategy)
    /\ TakeUp(e, [AtDesk EXCEPT !.step = "delete", !.of = c, !.row = node[c],
                    !.strategy = strategy, !.todo = Children(c)])
    /\ UNCHANGED node

BeginRestore(e, c) ==
    /\ EditorAt(e, "idle")
    /\ MayRestore
    /\ node[c].state = "deleted"
    /\ node[c].parent \in Parents
    /\ TakeUp(e, [AtDesk EXCEPT !.step = "restore", !.of = c])
    /\ UNCHANGED node

(***************************************************************************)
(* Requests: what they write.                                              *)
(***************************************************************************)
InsertNode(e) ==
    /\ EditorAt(e, "create")
    /\ node[editor[e].of].state = "absent"
    /\ node' = [node EXCEPT ![editor[e].of] = editor[e].row]
    /\ Leave(e)

\* updateVersioned: only while the row has the version the request read. Requests
\* that read the row before are stale from then on.
WriteNode(e) ==
    LET c == editor[e].of IN
    /\ EditorAt(e, "move") \/ EditorAt(e, "rename")
    /\ IF editor[e].fresh
       THEN /\ node' = [node EXCEPT ![c].path = editor[e].row.path,
                                    ![c].parent = IF EditorAt(e, "move") THEN editor[e].row.parent ELSE @,
                                    ![c].slug = IF EditorAt(e, "rename") THEN editor[e].row.slug ELSE @]
            /\ editor' = [other \in Editors |->
                            IF other = e THEN [AtDesk EXCEPT !.step = "below", !.todo = {c}]
                            ELSE [editor[other] EXCEPT !.fresh = @ /\ editor[other].of # c]]
       ELSE Leave(e) /\ UNCHANGED node

\* remove(): the subtree by its paths, the children by their parent, deleted ones too.
DeleteNodes(e) ==
    LET c       == editor[e].of
        parent  == editor[e].row.parent
        gone    == IF editor[e].strategy = "CASCADE_SOFT" THEN {c} \cup Under(editor[e].row.path) ELSE {c}
        handsUp == editor[e].strategy = "REASSIGN_CHILDREN"
        moved   == {d \in Categories : handsUp /\ node[d].state # "absent" /\ node[d].parent = c}
    IN  /\ EditorAt(e, "delete")
        /\ node' = [d \in Categories |->
                      [node[d] EXCEPT !.state = IF d \in gone THEN "deleted" ELSE @,
                                      !.parent = IF d \in moved THEN parent ELSE @]]
        /\ TakeUp(e, [AtDesk EXCEPT !.step = "below",
                        !.todo = IF ~handsUp THEN {}
                                 ELSE IF parent = NoCategory THEN editor[e].todo ELSE {parent}])

RestoreNode(e) ==
    /\ EditorAt(e, "restore")
    /\ node' = [node EXCEPT ![editor[e].of].state = "live"]
    /\ Leave(e)

\* One recomputeSubtree after the other; the first that throws ends the request.
RewriteBelow(e) ==
    /\ EditorAt(e, "below")
    /\ IF editor[e].todo = {} THEN Leave(e) /\ UNCHANGED node
       ELSE \E c \in editor[e].todo :
              IF ~Rewritable(c) THEN Leave(e) /\ UNCHANGED node
              ELSE /\ node' = Rewritten(c)
                   /\ IF TooDeep(c) THEN Leave(e)
                      ELSE editor' = [editor EXCEPT ![e].todo = @ \ {c}]

TreeNext ==
    \E e \in Editors :
        \/ \E c \in Categories, parent \in Categories \cup {NoCategory} :
              BeginCreate(e, c, parent) \/ BeginMove(e, c, parent)
        \/ \E c \in Categories : BeginRename(e, c) \/ BeginRestore(e, c)
        \/ \E c \in Categories, strategy \in Strategies : BeginDelete(e, c, strategy)
        \/ InsertNode(e) \/ WriteNode(e) \/ DeleteNodes(e) \/ RestoreNode(e) \/ RewriteBelow(e)

TreeSpec == TreeInit /\ [][TreeNext]_treeVars

-------------------------------------------------------------------------------
NobodyEdits == \A e \in Editors : EditorAt(e, "idle")

\* "A category may not become a descendant of itself": no category is met again by
\* following parents from it, deleted ones included, since they may be restored.
NoCycle ==
    \A c \in Categories :
        LET up[n \in 0..Cardinality(Categories)] ==
                IF n = 0 THEN node[c].parent
                ELSE IF up[n - 1] = NoCategory THEN NoCategory ELSE node[up[n - 1]].parent
        IN  \A n \in DOMAIN up : up[n] # c

\* The catalogue is a tree, and its "materialised slug path"s say so: when no request is
\* under way, the path of every category that can be reached is its parent's path and its
\* own slug.
PathsFollowParents ==
    /\ NoCycle
    /\ NobodyEdits => \A c \in Categories :
         InTree(c) /\ node[c].parent \in Parents =>
             node[c].path = Append(PathOf(node[c].parent), node[c].slug)
===============================================================================
