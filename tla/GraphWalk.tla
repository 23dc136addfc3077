------------------------------ MODULE GraphWalk ------------------------------
(***************************************************************************)
(* graph_query (_graph_traversal.py): the breadth-first walk of a          *)
(* namespace's edges, in pages, within budgets of nodes and of edge rows,  *)
(* while rows and edges are written between two reads; and detect_clusters *)
(* (_graph_clusters.py), the greedy clusters of the whole graph.           *)
(*                                                                         *)
(* Edge types are numbers in the order of their names.  Only edges that    *)
(* are stored are walked: tag neighbours are derived elsewhere.            *)
(***************************************************************************)
EXTENDS Naturals, FiniteSets, Sequences, FiniteSetsExt, SequencesExt

CONSTANTS
    Node,              \* ids, numbers
    Graphs,            \* edges there may be at first: sets of [row, from, to, type]
    Asked,             \* [roots, depth, max, scoped, active]: max 0 is "no node cap"
    SCAN_MULTIPLIER,   \* _EDGE_SCAN_BUDGET_MULTIPLIER
    NO_CAP,            \* _MAX_TRAVERSAL_ROOTS, the basis of the edge budget without a cap
    MIN_SIZE, MIN_CONNECTIVITY,   \* of a cluster; the connectivity in percent
    MAX_GRAPH_WRITES

VARIABLES
    edges,
    status,            \* id -> "active", "retired" or "absent"
    walk,
    steady,            \* whether nothing was written since the walk began
    graphWrites

walkVars == <<edges, status, walk, steady, graphWrites>>

NoWalk == [at |-> "none"]

-----------------------------------------------------------------------------
In(step) == walk.at = step

Goes(new) == walk' = new /\ UNCHANGED <<edges, status, graphWrites>>

Budget == (IF walk.asked.max = 0 THEN NO_CAP ELSE walk.asked.max) * SCAN_MULTIPLIER

Roots(asked) == {r \in asked.roots : asked.scoped => status[r] # "absent"}

RootSeq(asked) == SetToSortSeq(Roots(asked), LAMBDA a, b : a < b)

WalkBegins(asked) ==
    /\ In("none")
    /\ Goes([at |-> "node", asked |-> asked, queue |-> [i \in DOMAIN RootSeq(asked) |-> <<RootSeq(asked)[i], 0>>],
             node |-> 0, depth |-> 0, cursor |-> <<0, 0>>, page |-> <<>>, wanted |-> 0,
             visited |-> Roots(asked), found |-> <<>>, scanned |-> 0])
    /\ steady' = TRUE

(* The next node of the queue; those at the depth asked for are not opened. *)
NextNode ==
    /\ In("node")
    /\ IF walk.queue = <<>> \/ walk.scanned >= Budget THEN Goes([walk EXCEPT !.at = "done"])
       ELSE Goes([walk EXCEPT !.at = IF Head(walk.queue)[2] >= walk.asked.depth THEN "node" ELSE "page",
                              !.queue = Tail(@), !.node = Head(walk.queue)[1], !.depth = Head(walk.queue)[2],
                              !.cursor = <<0, 0>>])
    /\ UNCHANGED steady

Before(e, f) == e.type < f.type \/ (e.type = f.type /\ e.row < f.row)

Sorted(set) == SetToSortSeq(set, Before)

(* The rest of the cursor's type, in the order of the rows.                 *)
SameType == Sorted({e \in edges : e.from = walk.node /\ e.type = walk.cursor[1] /\ e.row > walk.cursor[2]})

RestOfType == SameType

LaterTypes == Sorted({e \in edges : e.from = walk.node /\ e.type > walk.cursor[1]})

Limit == Min({Budget - walk.scanned} \cup
             (IF walk.asked.scoped \/ walk.asked.max = 0 THEN {} ELSE {walk.asked.max - Len(walk.found)}))

ReadPage ==
    LET page == SubSeq(RestOfType \o LaterTypes, 1, Min({Limit, Len(RestOfType \o LaterTypes)}))
    IN
    /\ In("page")
    /\ Goes([walk EXCEPT !.at = "targets", !.page = page, !.wanted = Limit, !.scanned = @ + Len(page)])
    /\ UNCHANGED steady

Valid(id) == walk.asked.scoped => status[id] = "active" \/ (status[id] = "retired" /\ ~walk.asked.active)

NewTarget(e, found) == Valid(e.to) /\ e.to \notin walk.visited /\ \A i \in DOMAIN found : found[i][1] # e.to

(* The page's targets, until the node cap.                                  *)
Targets ==
    LET take(found, e) ==
            IF NewTarget(e, found) /\ (walk.asked.max = 0 \/ Len(walk.found) + Len(found) < walk.asked.max)
            THEN Append(found, <<e.to, walk.depth + 1>>) ELSE found
        new == FoldLeft(take, <<>>, walk.page)
        capped == walk.asked.max # 0 /\ Len(walk.found) + Len(new) >= walk.asked.max
        ended == Len(walk.page) < walk.wanted \/ walk.scanned >= Budget
    IN
    /\ In("targets")
    /\ Goes([walk EXCEPT !.at = IF capped THEN "done" ELSE IF ended THEN "node" ELSE "page",
                         !.found = @ \o new, !.queue = @ \o new,
                         !.visited = @ \cup {new[i][1] : i \in DOMAIN new},
                         !.cursor = IF walk.page = <<>> THEN @ ELSE <<Last(walk.page).type, Last(walk.page).row>>])
    /\ UNCHANGED steady

Again == In("done") /\ Goes(NoWalk) /\ UNCHANGED steady

-----------------------------------------------------------------------------
Writes == graphWrites < MAX_GRAPH_WRITES /\ graphWrites' = graphWrites + 1 /\ steady' = FALSE /\ UNCHANGED walk

NewRow == 1 + Max({0} \cup {e.row : e \in edges})

AddEdge(from, to, type) ==
    /\ Writes /\ ~\E e \in edges : e.from = from /\ e.to = to /\ e.type = type
    /\ edges' = edges \cup {[row |-> NewRow, from |-> from, to |-> to, type |-> type]}
    /\ UNCHANGED status

(* A row goes with its edges.                                               *)
ForgetRow(id) ==
    /\ Writes /\ status[id] # "absent"
    /\ status' = [status EXCEPT ![id] = "absent"]
    /\ edges' = {e \in edges : id \notin {e.from, e.to}}

RetireRow(id) == Writes /\ status[id] = "active" /\ status' = [status EXCEPT ![id] = "retired"] /\ UNCHANGED edges

-----------------------------------------------------------------------------
(* detect_clusters                                                         *)
Neighbours(id) == {e.to : e \in {f \in edges : f.from = id}} \cup {e.from : e \in {f \in edges : f.to = id}}

Degree(id) == Cardinality(Neighbours(id))

ByDegree(set) == SetToSortSeq(set, LAMBDA a, b : Degree(a) > Degree(b) \/ (Degree(a) = Degree(b) /\ a < b))

Pairs(set) == {p \in set \X set : p[1] < p[2] /\ p[2] \in Neighbours(p[1])}

Connected(set) == 100 * 2 * Cardinality(Pairs(set)) >= MIN_CONNECTIVITY * Cardinality(set) * (Cardinality(set) - 1)

FreeNeighbours(seed, used) == Neighbours(seed) \ used

(* From a seed, the neighbours that keep the cluster connected enough.      *)
Cluster(seed, used) ==
    FoldLeft(LAMBDA cluster, c : IF Connected(cluster \cup {c}) THEN cluster \cup {c} ELSE cluster,
             {seed}, ByDegree(FreeNeighbours(seed, used)))

Clusters ==
    FoldLeft(LAMBDA clusters, seed :
                LET used == UNION clusters
                    cluster == Cluster(seed, used)
                IN  IF seed \in used \/ Cardinality(cluster) < MIN_SIZE THEN clusters ELSE clusters \cup {cluster},
             {}, ByDegree({id \in Node : Neighbours(id) # {}}))

-----------------------------------------------------------------------------
WalkInit ==
    /\ edges \in Graphs
    /\ status \in [Node -> {"active", "retired"}]
    /\ walk = NoWalk /\ steady = TRUE /\ graphWrites = 0

WalkNext ==
    \/ \E asked \in Asked : WalkBegins(asked)
    \/ NextNode \/ ReadPage \/ Targets \/ Again
    \/ \E from, to \in Node, type \in {1, 2} : AddEdge(from, to, type)
    \/ \E id \in Node : ForgetRow(id) \/ RetireRow(id)

WalkSpec == WalkInit /\ [][WalkNext]_walkVars

-----------------------------------------------------------------------------
(* Rows by distance from the roots, through rows the walk may return.       *)
Ring ==
    LET ring[d \in 0..walk.asked.depth] ==
            IF d = 0 THEN {Roots(walk.asked)}
            ELSE ring[d - 1] \cup
                 {{e.to : e \in {f \in edges : /\ \E r \in ring[d - 1] : f.from \in r
                                               /\ Valid(f.to) /\ \A r \in ring[d - 1] : f.to \notin r}}}
    IN  UNION ring[walk.asked.depth] \ Roots(walk.asked)

(* A walk returns no row twice, no root, and none beyond the depth; while   *)
(* nothing is written, and unless its edge budget is spent, it returns      *)
(* every row in reach, or as many as it was asked for.                      *)
WalkExact ==
    LET ids == {walk.found[i][1] : i \in DOMAIN walk.found}
    IN  In("done") =>
            /\ Cardinality(ids) = Len(walk.found) /\ ids \cap walk.asked.roots = {}
            /\ \A i \in DOMAIN walk.found : walk.found[i][2] <= walk.asked.depth
            /\ walk.scanned <= Budget
            /\ steady /\ walk.scanned < Budget =>
                  IF walk.asked.max = 0 \/ Cardinality(Ring) <= walk.asked.max THEN ids = Ring
                  ELSE ids \subseteq Ring /\ Cardinality(ids) = walk.asked.max

(* Nearer rows come before farther ones.                                    *)
NearestFirst ==
    In("done") => \A i, j \in DOMAIN walk.found : i < j => walk.found[i][2] <= walk.found[j][2]

(* Clusters are large and connected enough, and no row is in two.           *)
ClustersApart ==
    In("none") =>
        /\ \A c \in Clusters : Cardinality(c) >= MIN_SIZE /\ Connected(c)
        /\ \A c, d \in Clusters : c # d => c \cap d = {}

WalksSound == WalkExact /\ NearestFirst /\ ClustersApart
=============================================================================
