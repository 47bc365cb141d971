------------------------------- MODULE KMeans -------------------------------
(***************************************************************************)
(* K-means clustering (cubic_engine/ml/unsupervised_learning): KMeans, with *)
(* what it does about empty clusters, and BisectionKMeans, which splits    *)
(* the cluster with the largest variance by a KMeans of its own.           *)
(*                                                                         *)
(* A row of the data set is one integer, in a unit so small that every     *)
(* mean of rows is one too: centroids and distances are exact.             *)
(* A distance is then zero or above every tolerance of the code, and of a  *)
(* residual only that matters.  Rows and clusters are counted from one.    *)
(***************************************************************************)
EXTENDS Integers, Sequences, FiniteSetsExt, Functions

CONSTANTS DataSets,     \* sequences of rows
          MaxK,         \* bound: the largest number of clusters
          MaxItrs,      \* max_iterations_ of the configuration
          MaxCalls      \* bound: how often cluster() is called on the object

ASSUME DataSetsAssumption == DataSets \subseteq Seq(Int) \ {<<>>}
ASSUME ExactAssumption ==
    \A d \in DataSets : \A r \in DOMAIN d, n \in 1 .. Len(d) : d[r] % n = 0
ASSUME LimitsAssumption == MaxK \in Nat /\ MaxItrs \in Nat /\ MaxCalls \in Nat

VARIABLES
    algo,           \* the class of the object: "kmeans" or "bisection"
    data, k,        \* the data set, and the number of clusters asked for
    restarts,       \* random_restart_on_empty_cluster
    continues,      \* continue_on_empty_cluster
    pc,
    set,            \* the data set that the KMeans works on
    clusters,       \* clusters_ of the KMeans
    itr, still,     \* its control_: the index, and whether the residual is zero
    parts,          \* clusters_ of the BisectionKMeans
    splits,         \* its control_: the index
    split,          \* the cluster that is split
    calls           \* history: calls of cluster()

given == <<algo, data, k, restarts, continues>>
kmeans == <<set, clusters, itr, still>>
bisection == <<parts, splits, split>>
vars == <<given, pc, kmeans, bisection, calls>>

Rows(s) == [r \in 1 .. Len(s) |-> r]

\* What a loop over s adds up, and what one collects that takes those of s for
\* which f is v.
Total(s) == LET sum[i \in 0 .. Len(s)] == IF i = 0 THEN 0 ELSE sum[i - 1] + s[i]
            IN sum[Len(s)]

Among(s, f, v) == LET kept[i \in 0 .. Len(s)] ==
                          IF i = 0 THEN <<>>
                          ELSE IF f[s[i]] = v THEN Append(kept[i - 1], s[i]) ELSE kept[i - 1]
                  IN kept[Len(s)]

Init == /\ algo \in {"kmeans", "bisection"}
        /\ data \in DataSets
        /\ k \in 1 .. Len(data) /\ k <= MaxK
        /\ restarts \in BOOLEAN /\ continues \in BOOLEAN
        /\ algo = "bisection" => restarts /\ ~continues     \* of the inner KMeans
        /\ pc = "idle"
        /\ set = data /\ clusters = <<>>
        /\ itr = 0 /\ still = FALSE
        /\ parts = <<>> /\ splits = 0 /\ split = 0
        /\ calls = 0

Returned == pc \in {"idle", "done"}

\* Neither class resets its control, and BisectionKMeans keeps its clusters,
\* which an invalid one of all the rows is added to.
Cluster == /\ Returned /\ calls < MaxCalls
           /\ calls' = calls + 1
           /\ IF algo = "kmeans"
              THEN pc' = "start" /\ UNCHANGED parts
              ELSE /\ pc' = "select"
                   /\ parts' = Append(parts, [centroid |-> 0, points |-> Rows(data), valid |-> FALSE])
           /\ UNCHANGED <<given, kmeans, splits, split>>

-----------------------------------------------------------------------------
\* KMeans.

Distance(x, y) == IF x < y THEN y - x ELSE x - y
Square(x) == x * x

\* The last one of those that are nearest.
Nearest(cs, r) ==
    Max({c \in DOMAIN cs : \A d \in DOMAIN cs : Distance(set[r], cs[c].centroid)
                                                 <= Distance(set[r], cs[d].centroid)})

Nearests(cs) == [r \in DOMAIN set |-> Nearest(cs, r)]

Comes(cs, c) ==
    Among(Rows(set),
          [r \in DOMAIN set |-> IF r \in Range(cs[c].points) THEN 0 ELSE Nearest(cs, r)], c)

\* Mutant: no point is removed from the cluster that it was in.
AddPoints(cs) == [c \in DOMAIN cs |-> [cs[c] EXCEPT !.points = @ \o Comes(cs, c)]]

\* cluster_point_ of every row: into the nearest cluster, if it is not there
\* already, and out of the one that it was in.
ClusterPoints(cs) ==
    [c \in DOMAIN cs |->
        [cs[c] EXCEPT !.points = Among(@, Nearests(cs), c) \o Comes(cs, c)]]

Assigned == ClusterPoints(clusters)

HasEmpty(cs) == \E c \in DOMAIN cs : cs[c].points = <<>>

Mean(points) == Total([i \in DOMAIN points |-> set[points[i]]]) \div Len(points)

\* calculate_new_centroids_ throws at the first cluster without points.
Recalculated(cs) ==
    [c \in DOMAIN cs |-> IF \A d \in 1 .. c : cs[d].points # <<>>
                         THEN [cs[c] EXCEPT !.centroid = Mean(cs[c].points)] ELSE cs[c]]

\* Mutant: the distance of the last centroid alone.
LastMoved(old, new) == old[Len(old)].centroid # new[Len(old)].centroid

\* detect_convergence_: the distance of the first centroid that has moved.
Moved(old, new) == \E c \in DOMAIN old : old[c].centroid # new[c].centroid

\* init of the clients: different rows at random (extract_randomly).
Start == /\ pc = "start"
         /\ \E at \in [1 .. (IF algo = "kmeans" THEN k ELSE 2) -> DOMAIN set] :
               /\ IsInjective(at)
               /\ clusters' = [c \in DOMAIN at |-> [centroid |-> set[at[c]], points |-> <<>>]]
         /\ pc' = "loop"
         /\ UNCHANGED <<given, set, itr, still, bisection, calls>>

Goes == itr < MaxItrs /\ ~still

\* One turn of the loop, as far as the test for empty clusters.
Pass == /\ pc = "loop" /\ Goes
        /\ itr' = itr + 1
        /\ UNCHANGED <<given, set, bisection, calls>>

Improve == /\ Pass /\ ~HasEmpty(Assigned)
           /\ clusters' = Recalculated(Assigned)
           /\ still' = ~Moved(clusters, clusters')
           /\ UNCHANGED pc

\* Mutant: as if for another call, with a control of its own.
RestartAnew == /\ pc = "loop" /\ Goes /\ HasEmpty(Assigned)
               /\ restarts /\ ~continues
               /\ clusters' = Assigned /\ pc' = "start" /\ itr' = 0 /\ still' = FALSE
               /\ UNCHANGED <<given, set, bisection, calls>>

\* goto random_restart: the index goes on from where it is.
Restart == /\ Pass /\ restarts /\ ~continues
           /\ HasEmpty(Assigned)
           /\ clusters' = Assigned
           /\ pc' = "start"
           /\ UNCHANGED still

Leave == IF algo = "kmeans" THEN "done" ELSE "split"

Break == /\ Pass /\ ~restarts /\ ~continues
         /\ HasEmpty(Assigned)
         /\ clusters' = Assigned
         /\ pc' = Leave
         /\ UNCHANGED still

\* It does not: there is no centroid of no points.
Continue == /\ Pass /\ continues
            /\ HasEmpty(Assigned)
            /\ clusters' = Recalculated(Assigned)
            /\ pc' = "failed"
            /\ UNCHANGED still

Finish == /\ pc = "loop" /\ ~Goes
          /\ itr' = IF itr < MaxItrs THEN itr + 1 ELSE itr
          /\ pc' = Leave
          /\ UNCHANGED <<given, set, clusters, still, bisection, calls>>

-----------------------------------------------------------------------------
\* BisectionKMeans.

\* The sum of the squared distances of rows of s.
Squares(s, p) == Total([i \in DOMAIN p.points |-> Square(s[p.points[i]] - p.centroid)])

\* The variance, without the division by the number.
Scatter(p) == Squares(data, p)
Exceeds(p, q) == Scatter(p) * Len(q.points) > Scatter(q) * Len(p.points)

\* select_cluster_to_split_: the first with the largest variance; 0 where it
\* throws: a cluster is empty or not valid, or no variance is positive.
Selected ==
    IF Len(parts) = 1 THEN 1
    ELSE IF \E c \in DOMAIN parts : parts[c].points = <<>> \/ ~parts[c].valid THEN 0
    ELSE LET best == {c \in DOMAIN parts : /\ Scatter(parts[c]) > 0
                                           /\ \A d \in DOMAIN parts : ~Exceeds(parts[d], parts[c])}
         IN IF best = {} THEN 0 ELSE Min(best)

\* copy_subset, and a new KMeans for two clusters, which one row is too few for.
Select == /\ pc = "select" /\ Len(parts) # k /\ splits < MaxItrs
          /\ splits' = splits + 1
          /\ split' = Selected
          /\ IF split' = 0 \/ Len(parts[split'].points) < 2
             THEN pc' = "failed" /\ UNCHANGED kmeans
             ELSE /\ pc' = "start"
                  /\ set' = [i \in DOMAIN parts[split'].points |-> data[parts[split'].points[i]]]
                  /\ clusters' = <<>> /\ itr' = 0 /\ still' = FALSE
          /\ UNCHANGED <<given, parts, calls>>

Valid(cluster) == [centroid |-> cluster.centroid, points |-> cluster.points, valid |-> TRUE]

\* Mutant: both halves are added, and the cluster stays.
AddBoth == parts \o <<Valid(clusters[1]), Valid(clusters[2])>>

\* The points of the halves are rows of the subset, and not of the data set.
Halved == Append([parts EXCEPT ![split] = Valid(clusters[1])], Valid(clusters[2]))

Split == /\ pc = "split"
         /\ parts' = IF Len(parts) < k THEN Halved ELSE parts
         /\ pc' = "select"
         /\ UNCHANGED <<given, kmeans, splits, split, calls>>

Stop == /\ pc = "select" /\ ~(Len(parts) # k /\ splits < MaxItrs)
        /\ pc' = "done"
        /\ UNCHANGED <<given, kmeans, bisection, calls>>

-----------------------------------------------------------------------------
Run == \/ Start \/ Improve \/ Restart \/ Break \/ Continue \/ Finish
       \/ Select \/ Split \/ Stop

Next == Cluster \/ Run

\* One thread runs the whole call.
Spec == Init /\ [][Next]_vars /\ WF_vars(Run)

-----------------------------------------------------------------------------
TypeOK == /\ pc \in {"idle", "start", "loop", "select", "split", "done", "failed"}
          /\ itr \in 0 .. MaxItrs /\ splits \in 0 .. MaxItrs /\ still \in BOOLEAN
          /\ split \in 0 .. Len(parts)

\* Every row is in one of the clusters, once.
IsPartition(cs, s) ==
    /\ \A c \in DOMAIN cs : IsInjective(cs[c].points)
    /\ \A c, d \in DOMAIN cs : c # d => Range(cs[c].points) \cap Range(cs[d].points) = {}
    /\ UNION {Range(cs[c].points) : c \in DOMAIN cs} = DOMAIN s

\* The points move between the clusters of a KMeans and are never lost or in
\* two of them; only a restart takes them all out again.
EachInOneCluster == \/ \A c \in DOMAIN clusters : clusters[c].points = <<>>
                    \/ IsPartition(clusters, set)

\* The clusters of the bisection have as many points as there are rows, as
\* long as every KMeans has found two that are not empty; the first two are a
\* partition of the rows.
SizesAddUp ==
    calls = 1 /\ ~HasEmpty(parts) =>
        /\ Total([c \in DOMAIN parts |-> Len(parts[c].points)])
              = IF algo = "bisection" THEN Len(data) ELSE 0
        /\ Len(parts) = 2 => IsPartition(parts, data)

Inv == TypeOK /\ EachInOneCluster /\ SizesAddUp

\* What is reported as converged is a fixed point: no cluster is empty, every
\* centroid is the mean of its points and every point is in the cluster that is
\* nearest, after restarts too; true of the first call on an object only.
ConvergedIsStable ==
    pc \in {"done", "split"} /\ still /\ (algo = "kmeans" => calls = 1) =>
        /\ ~HasEmpty(clusters)
        /\ \A c \in DOMAIN clusters :
              /\ clusters[c].centroid = Mean(clusters[c].points)
              /\ \A r \in Range(clusters[c].points) : Nearest(clusters, r) = c

\* No turn of the loop makes the clustering worse, and one that changes a
\* centroid makes it better.
Cost(cs) == Total([c \in DOMAIN cs |-> Squares(set, cs[c])])
CostFalls == [][Improve /\ ~HasEmpty(clusters) =>
                    IF still' THEN Cost(clusters') <= Cost(clusters)
                              ELSE Cost(clusters') < Cost(clusters)]_vars

\* cluster() returns, or throws, even where every restart ends in an empty
\* cluster again, as it does when rows are equal.
ClusterReturns == ~Returned ~> pc \in {"done", "failed"}

\* "Ids of the of the points that have been clustered in this cluster", of
\* Cluster::points: with all clusters found, every row of the data set is in one.
PartsPartition ==
    algo = "bisection" /\ pc = "done" /\ calls = 1 /\ Len(parts) = k /\ ~HasEmpty(parts) =>
        IsPartition(parts, data)
=============================================================================
