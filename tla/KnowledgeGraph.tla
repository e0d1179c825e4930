--------------------------- MODULE KnowledgeGraph ---------------------------
(***************************************************************************)
(* The commerce graph of app/knowledge_graph: the rows of the store, the   *)
(* traversals of engine.py, and what cluster.py, recommend.py and          *)
(* semantic.py find in it.  A graph is a sequence of nodes and one of      *)
(* edges, in the order the store returns them; an edge counts in both      *)
(* directions.  Weights, profits and scores are whole numbers, shares are  *)
(* ten-thousandths.                                                        *)
(***************************************************************************)
EXTENDS Numbers, TLC

One == 10000

NodeType ==
  {"product", "brand", "category", "supplier", "marketplace", "customer", "ai_decision", "historical_event",
   "price_change", "inventory", "seasonality", "other"}

Empty == [nodes |-> <<>>, edges |-> <<>>]

NodeIds(g) == {g.nodes[i].id : i \in DOMAIN g.nodes}
OfType(g, type) == {n \in ToSet(g.nodes) : n.type = type}

\* upsert_node: one row for a type and key; the properties are replaced.
UpsertNode(g, node) ==
  LET same == {i \in DOMAIN g.nodes : g.nodes[i].type = node.type /\ g.nodes[i].key = node.key}
  IN IF same = {} THEN [g EXCEPT !.nodes = Append(@, node)]
     ELSE LET i == Min(same) IN [g EXCEPT !.nodes[i] = [node EXCEPT !.id = g.nodes[i].id]]

\* delete_node: the edges of the node go with it.
DeleteNode(g, id) ==
  [nodes |-> SelectSeq(g.nodes, LAMBDA n : n.id # id),
   edges |-> SelectSeq(g.edges, LAMBDA e : e.source # id /\ e.target # id)]

\* add_edge: refused for an unknown end or a loop, else one row for the ends and the type.
Refused(g, edge) == ~({edge.source, edge.target} \subseteq NodeIds(g)) \/ edge.source = edge.target
AddEdge(g, edge) ==
  LET same == {i \in DOMAIN g.edges : [g.edges[i] EXCEPT !.weight = edge.weight] = edge}
  IN IF Refused(g, edge) THEN g
     ELSE IF same = {} THEN [g EXCEPT !.edges = Append(@, edge)]
     ELSE [g EXCEPT !.edges[Min(same)] = edge]

Stats(g) == [nodes |-> [t \in NodeType |-> Cardinality(OfType(g, t))], edges |-> Len(g.edges)]

\* bulk_create_nodes and bulk_create_edges: all of a batch or none, if it is larger than the
\* largest one or an edge of it is refused.
MaxBatch == 500
BulkCreateNodes(g, nodes) == IF Len(nodes) > MaxBatch THEN g ELSE FoldLeft(UpsertNode, g, nodes)
BulkCreateEdges(g, edges) ==
  IF Len(edges) > MaxBatch \/ (\E i \in DOMAIN edges : Refused(g, edges[i])) THEN g ELSE FoldLeft(AddEdge, g, edges)

-----------------------------------------------------------------------------
\* adjacency_map, undirected: the neighbours of a node in the order of the edges.
Adjacency(g, id) ==
  LET touching == SelectSeq(g.edges, LAMBDA e : id \in {e.source, e.target})
  IN [i \in DOMAIN touching |->
        [id |-> IF touching[i].source = id THEN touching[i].target ELSE touching[i].source,
         weight |-> touching[i].weight]]

Neighbours(g, id) == {Adjacency(g, id)[i].id : i \in DOMAIN Adjacency(g, id)}

Counting(n) == [i \in 1 .. n |-> i]

\* bfs: the depth of each node within max steps of the start.
Bfs(g, start, max) ==
  LET Wave(depth, d) ==
        LET new == UNION {Neighbours(g, n) : n \in DOMAIN depth} \ DOMAIN depth
        IN [n \in DOMAIN depth \cup new |-> IF n \in new THEN d ELSE depth[n]]
  IN FoldLeft(Wave, [n \in {start} |-> 0], Counting(max))

\* Mutant of Relax: nodes are settled in the order they were found in, as bfs does.
RelaxInOrder(g, s) ==
  LET open == {n \in DOMAIN s.dist : n \notin s.settled}
      u == Min(open)
      Shorter(t, edge) ==
        IF edge.id \in DOMAIN t.dist THEN t
        ELSE [t EXCEPT !.dist = (edge.id :> (s.dist[u] + edge.weight)) @@ @, !.prev = (edge.id :> u) @@ @]
  IN IF open = {} \/ s.target \in s.settled THEN s
     ELSE FoldLeft(Shorter, [s EXCEPT !.settled = @ \cup {u}], Adjacency(g, u))

\* shortest_path: settle the nearest node until the target is settled.  Weights are not
\* negative: with a negative one the code's walk back along prev may not end.
Relax(g, s) ==
  LET open == {n \in DOMAIN s.dist : n \notin s.settled}
      u == CHOOSE n \in open : \A m \in open : s.dist[n] < s.dist[m] \/ (s.dist[n] = s.dist[m] /\ n <= m)
      Shorter(t, edge) ==
        LET d == s.dist[u] + edge.weight
        IN IF edge.id \in DOMAIN t.dist /\ t.dist[edge.id] <= d THEN t
           ELSE [t EXCEPT !.dist = (edge.id :> d) @@ @, !.prev = (edge.id :> u) @@ @]
  IN IF open = {} \/ s.target \in s.settled THEN s
     ELSE IF u = s.target THEN [s EXCEPT !.settled = @ \cup {u}]
     ELSE FoldLeft(Shorter, [s EXCEPT !.settled = @ \cup {u}], Adjacency(g, u))

ShortestPath(g, start, target) ==
  LET s == FoldLeft(LAMBDA state, i : Relax(g, state),
                    [dist |-> start :> 0, prev |-> start :> start, settled |-> {}, target |-> target],
                    Counting(Cardinality(NodeIds(g)) + 1))
      Back(path, i) == IF Head(path) = start THEN path ELSE <<s.prev[Head(path)]>> \o path
  IN IF target \notin DOMAIN s.dist THEN [found |-> FALSE, path |-> <<>>, weight |-> None]
     ELSE [found |-> TRUE, weight |-> s.dist[target],
           path |-> FoldLeft(Back, <<target>>, Counting(Cardinality(NodeIds(g))))]

\* connected_components.
ConnectedComponents(g) == {DOMAIN Bfs(g, n, Cardinality(NodeIds(g))) : n \in NodeIds(g)}

\* page_rank, in millionths.
PageRank(g, iterations) ==
  LET n == Cardinality(NodeIds(g))
      Degree(id) == Len(Adjacency(g, id))
      Step(rank, i) ==
        LET dangling == Total({id \in NodeIds(g) : Degree(id) = 0}, LAMBDA id : rank[id])
        IN [id \in NodeIds(g) |->
              LET adj == Adjacency(g, id)
                  flow == SumOf([k \in DOMAIN adj |-> rank[adj[k].id] \div Greatest(1, Degree(adj[k].id))])
              IN 150000 \div n + (85 * (flow + dangling \div n)) \div 100]
  IN FoldLeft(Step, [id \in NodeIds(g) |-> 1000000 \div n], Counting(iterations))

\* label_propagation: each node takes the heaviest label around it, the first of equals.
LabelPropagation(g, iterations) ==
  LET order == SetToSortSeq(NodeIds(g), <)
      Weight(adj, labels, l) == SumOf([k \in DOMAIN adj |-> IF labels[adj[k].id] = l THEN adj[k].weight ELSE 0])
      Visit(labels, id) ==
        LET adj == Adjacency(g, id)
            heaviest == {k \in DOMAIN adj : \A j \in DOMAIN adj :
                           Weight(adj, labels, labels[adj[k].id]) >= Weight(adj, labels, labels[adj[j].id])}
        IN IF adj = <<>> THEN labels ELSE [labels EXCEPT ![id] = labels[adj[Min(heaviest)].id]]
      labels == FoldLeft(LAMBDA l, i : FoldLeft(Visit, l, order), [id \in NodeIds(g) |-> id], Counting(iterations))
  IN {{id \in NodeIds(g) : labels[id] = labels[n]} : n \in NodeIds(g)}

\* jaccard.
Jaccard(a, b) == IF a \cup b = {} THEN 0 ELSE (One * Cardinality(a \cap b)) \div Cardinality(a \cup b)

NeighbourSimilarity(g, a, b) == Jaccard(Neighbours(g, a), Neighbours(g, b))

-----------------------------------------------------------------------------
Node(g, id) == CHOOSE n \in ToSet(g.nodes) : n.id = id

\* related / _related_by.
Related(g, id, type) ==
  {e.target : e \in {e \in ToSet(g.edges) : e.type = type /\ e.source = id}}
    \cup {e.source : e \in {e \in ToSet(g.edges) : e.type = type /\ e.target = id}}

Suppliers(g, id) == Related(g, id, "supplied_by") \cap {n.id : n \in OfType(g, "supplier")}

\* profitable_clusters: the members of each community, by what they earn together.
ProfitableClusters(g, minProfit, iterations, top) ==
  LET clusters == {[members |-> c, profit |-> Total(c, LAMBDA id : Node(g, id).profit)] :
                     c \in LabelPropagation(g, iterations)}
  IN Top(Ranked(SetToSeq({c \in clusters : c.profit >= minProfit}), LAMBDA c : c.profit), top)

\* hidden_opportunities.
HiddenOpportunities(g) ==
  LET products == OfType(g, "product")
      paying == {p \in products : p.profit > 0}
      listed == {n.id : n \in OfType(g, "marketplace")}
      worth == [p \in paying |-> Least(p.profit, 100)]
  IN {[type |-> "unconnected", nodes |-> {p.id}, score |-> worth[p]] : p \in {p \in paying : Suppliers(g, p.id) = {}}}
     \cup {[type |-> "single supplier", nodes |-> {p.id} \cup Suppliers(g, p.id), score |-> worth[p]] :
             p \in {p \in paying : Cardinality(Suppliers(g, p.id)) = 1}}
     \cup {[type |-> "unlisted", nodes |-> {p.id}, score |-> worth[p]] :
             p \in {p \in paying : Related(g, p.id, "sells_on") \cap listed = {}}}
     \cup {[type |-> "underused supplier", nodes |-> {s.id},
            score |-> 1 - Cardinality({p \in paying : p.id \in Related(g, s.id, "supplied_by")})] :
             s \in {s \in OfType(g, "supplier") :
                      Cardinality({p \in paying : p.id \in Related(g, s.id, "supplied_by")}) < 2}}

RecommendWeights == [category |-> 25, brand |-> 20, buyers |-> 25, suppliers |-> 15, neighbours |-> 15]

\* The signals that two nodes of a type share.
Signals(g, t, n) ==
  [category |-> IF t.category # "" /\ t.category = n.category THEN One ELSE 0,
   brand |-> IF t.brand # "" /\ t.brand = n.brand THEN One ELSE 0,
   buyers |-> IF Related(g, t.id, "bought_by") \cap Related(g, n.id, "bought_by") # {} THEN One ELSE 0,
   suppliers |-> IF Related(g, t.id, "supplied_by") \cap Related(g, n.id, "supplied_by") # {} THEN One ELSE 0,
   neighbours |-> NeighbourSimilarity(g, t.id, n.id)]

Likeness(g, t, n) ==
  Total(DOMAIN RecommendWeights, LAMBDA s : RecommendWeights[s] * Signals(g, t, n)[s]) \div 100

\* related: recommend_related above the least score.
RecommendRelated(g, id, top) ==
  LET t == Node(g, id)
      others == SelectSeq(g.nodes, LAMBDA n : n.id # id /\ n.type = t.type /\ Likeness(g, t, n) >= 500)
  IN Top(Ranked(others, LAMBDA n : Likeness(g, t, n)), top)

\* explain: the best ones first, and of these the ones above the least score.
Explain(g, id, top) ==
  LET t == Node(g, id)
      alike == SelectSeq(g.nodes, LAMBDA n : n.id # id /\ n.type = t.type)
  IN SelectSeq(Top(Ranked(alike, LAMBDA n : Likeness(g, t, n)), top), LAMBDA n : Likeness(g, t, n) >= 500)

\* traversal: whom a node reaches, the nearest first (those as near, which the code leaves in
\* the order it found them in, by their id).
Traversal(g, id, max) ==
  LET depth == Bfs(g, id, max)
  IN SetToSortSeq(DOMAIN depth, LAMBDA m, n : depth[m] < depth[n] \/ (depth[m] = depth[n] /\ m < n))

\* SemanticIndex.search without an embedder: the cosine of word counts, here of word sets.
SemanticSearch(g, query, types, top) ==
  LET Hit(n) == IF n.words = {} THEN 0
                ELSE (100 * Cardinality(n.words \cap query) * 100) \div Root(10000 * Cardinality(n.words) * Cardinality(query))
  IN IF query = {} THEN <<>> ELSE Top(Ranked(SelectSeq(g.nodes, LAMBDA n : n.type \in types), Hit), top)

-----------------------------------------------------------------------------
\* All walks along edges without a repeated node, from one node to another.
Walks(g, from, to) ==
  {w \in UNION {[1 .. n -> NodeIds(g)] : n \in 1 .. Cardinality(NodeIds(g))} :
     /\ w[1] = from /\ w[Len(w)] = to /\ Cardinality(ToSet(w)) = Len(w)
     /\ \A i \in 1 .. Len(w) - 1 : w[i + 1] \in Neighbours(g, w[i])}

\* The weight of a walk that takes the lightest edge between its nodes.
WalkWeight(g, w) ==
  SumOf([i \in 1 .. Len(w) - 1 |->
           Min({a.weight : a \in {a \in ToSet(Adjacency(g, w[i])) : a.id = w[i + 1]}})])

\* The path found is a walk, no walk is lighter, and none is found exactly where the two
\* nodes lie in different components, as the traversal says too.
PathsShortest(g) ==
  \A a, b \in NodeIds(g) :
    LET found == ShortestPath(g, a, b)
        walks == Walks(g, a, b)
    IN /\ found.found <=> walks # {}
       /\ found.found <=> \E c \in ConnectedComponents(g) : {a, b} \subseteq c
       /\ found.found => found.path \in walks /\ found.weight = WalkWeight(g, found.path)
                           /\ \A w \in walks : found.weight <= WalkWeight(g, w)
       /\ a # b => (found.found <=> b \in ToSet(Traversal(g, a, 4)))
       /\ found.found => Bfs(g, a, 4)[b] < Len(found.path)

\* The store keeps one row for a key and no edge without its ends, and storing again what is
\* there, or a batch of which one edge is refused, changes nothing; communities lie inside
\* components and share out the nodes; an explanation is of what is recommended.
GraphSound(g) ==
  /\ \A i, j \in DOMAIN g.nodes : i # j => <<g.nodes[i].type, g.nodes[i].key>> # <<g.nodes[j].type, g.nodes[j].key>>
  /\ \A e \in ToSet(g.edges) : {e.source, e.target} \subseteq NodeIds(g)
  /\ Total(NodeType, LAMBDA t : Stats(g).nodes[t]) = Len(g.nodes)
  /\ BulkCreateEdges(BulkCreateNodes(g, g.nodes), g.edges) = g
  /\ \A bare \in {[g EXCEPT !.edges = <<>>]}, e \in ToSet(g.edges) :
       BulkCreateEdges(bare, Append(g.edges, [e EXCEPT !.target = e.source])) = bare
  /\ \A n \in ToSet(g.nodes) : n.words # {} => SemanticSearch(g, n.words, {n.type}, 1)[1].words = n.words
  /\ \A c \in LabelPropagation(g, 4) : \E component \in ConnectedComponents(g) : c \subseteq component
  /\ LET clusters == ProfitableClusters(g, 1, 4, 10)
     IN /\ IsRanking(clusters, clusters, LAMBDA c : c.profit)
        /\ \A i, j \in DOMAIN clusters : i # j => clusters[i].members \cap clusters[j].members = {}
  /\ \A h \in HiddenOpportunities(g) : h.nodes \subseteq NodeIds(g)
  /\ \A p \in OfType(g, "product") :
       p.profit > 0 => \E h \in HiddenOpportunities(g) :
                         p.id \in h.nodes /\ h.type = IF Suppliers(g, p.id) = {} THEN "unconnected" ELSE h.type
  /\ g.nodes # <<>> => Abs(1000000 - Total(NodeIds(g), LAMBDA id : PageRank(g, 3)[id])) < 50
  /\ \A id \in NodeIds(g) :
       /\ \A n \in ToSet(RecommendRelated(g, id, 10)) : Likeness(g, Node(g, id), n) <= One
       /\ \A top \in 1 .. 2 : Explain(g, id, top) = RecommendRelated(g, id, top)
=============================================================================
