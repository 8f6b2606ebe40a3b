------------------------------ MODULE Workload ------------------------------
(***************************************************************************)
(* How the pods of a simulation come about: from the objects of the        *)
(* cluster's configuration (simulator/utils.go, utils/utils.go), in an     *)
(* order by date or by chance, as creation and deletion events             *)
(* (SortClusterPods and syncPod of simulator/simulator.go).                *)
(*                                                                         *)
(* A pod is [name, res, created, deleted, marked, time, only, valid].      *)
(* Names are numbers, in alphabetic order.  created and deleted are the    *)
(* dates in its annotations, NoDate without; marked, that it was not       *)
(* scheduled when its snapshot was taken; time, end time minus start time; *)
(* only, the nodes its host-name selector or, from a daemon set, its       *)
(* affinity admits; valid, whether ValidatePod accepts it.  A workload     *)
(* object is [name, count, pod]: its annotations are those of its pods,    *)
(* for they are taken from the object and not from its pod template.       *)
(***************************************************************************)
EXTENDS TypicalPods

CONSTANTS
  Nodes,     \* numbers
  Hashes,    \* what the random suffix of a name may be
  Now        \* the date of the simulation, after all dates of the workload

ASSUME WorkloadAssumption ==
  IsFiniteSet(Nodes) /\ Nodes \subseteq Nat /\ Hashes \subseteq Nat /\ Now \in Nat \ {0}

NoDate == 0

PodRecords ==
  [name : Nat, res : PodResources, created : 0 .. Now - 1, deleted : Nat, marked : BOOLEAN,
   time : Nat, only : SUBSET Nodes, valid : BOOLEAN]

\* The names of generated objects and of copies.
Suffixed(name, suffix) == 100 * name + suffix

\* Mutant: a copy goes by the name of its original.
ClonedSameName(pod, i) == pod

Cloned(pod, i) == [pod EXCEPT !.name = Suffixed(@, 50 + i)]
Tuned(pod, i)  == [pod EXCEPT !.name = Suffixed(@, 70 + i)]
-----------------------------------------------------------------------------
(***************************************************************************)
(* Pods from workload objects: the sequences of pods one object may give.  *)
(***************************************************************************)
MakeValidPodsByReplicaSet(w) ==
  { [i \in 1 .. w.count |-> [w.pod EXCEPT !.name = Suffixed(w.name, hash[i])]] :
      hash \in [1 .. w.count -> Hashes] }

MakeValidPodsByReplicationController(w) == MakeValidPodsByReplicaSet(w)
MakeValidPodByJob(w)                    == MakeValidPodsByReplicaSet(w)

\* A replica set or a job is made first, with a name of its own.
MakeValidPodsByDeployment(w) ==
  UNION { MakeValidPodsByReplicaSet([w EXCEPT !.name = Suffixed(@, hash)]) : hash \in Hashes }
MakeValidPodByCronJob(w) ==
  UNION { MakeValidPodByJob([w EXCEPT !.name = Suffixed(@, hash)]) : hash \in Hashes }

MakeValidPodsByStatefulSet(w) ==
  { [i \in 1 .. w.count |-> [w.pod EXCEPT !.name = Suffixed(w.name, i - 1)]] }

PodsOf(kind, w) ==
  CASE kind = "Deployments"            -> MakeValidPodsByDeployment(w)
    [] kind = "ReplicaSets"            -> MakeValidPodsByReplicaSet(w)
    [] kind = "ReplicationControllers" -> MakeValidPodsByReplicationController(w)
    [] kind = "StatefulSets"           -> MakeValidPodsByStatefulSet(w)
    [] kind = "Jobs"                   -> MakeValidPodByJob(w)
    [] kind = "CronJobs"               -> MakeValidPodByCronJob(w)

Kinds == << "Deployments", "ReplicaSets", "ReplicationControllers", "StatefulSets", "Jobs", "CronJobs" >>

Concats(As, Bs) == { a \o b : a \in As, b \in Bs }

\* The pods of the objects of one kind, after those there may be already.
OfKind(All, kind, objects) ==
  FoldLeft(LAMBDA Some, w : Concats(Some, PodsOf(kind, w)), All, objects)

\* The pods as they are, then those of each kind in turn.
GetValidPodExcludeDaemonSet(resources) ==
  FoldLeft(LAMBDA All, kind : OfKind(All, kind, resources[kind]), { resources.pods }, Kinds)

\* A configuration, and what its objects but daemon sets ask for.
Terms == [labels : SUBSET Nodes, fields : SUBSET Nodes]

IsConfiguration(r) ==
  /\ r.pods \in Seq(PodRecords)
  /\ \A i \in DOMAIN Kinds : r[Kinds[i]] \in Seq([name : Nat, count : Nat, pod : PodRecords])
  /\ r.DaemonSets \in Seq([name : Nat, affinity : SUBSET Terms, shared : BOOLEAN,
                           tolerates : SUBSET Nodes, pod : PodRecords])

Asked(r) ==
  { r.pods[i].res : i \in DOMAIN r.pods }
    \cup UNION { { r[Kinds[k]][i].pod.res : i \in DOMAIN r[Kinds[k]] } : k \in DOMAIN Kinds }

MakeValidPod(pods) == \A i \in DOMAIN pods : pods[i].valid
-----------------------------------------------------------------------------
(***************************************************************************)
(* Pods from daemon sets.  The affinity of the template is a set of terms, *)
(* any of which may match: the nodes its labels match and those its fields *)
(* name.  It is pinned to one node after the other, in place where there   *)
(* is one.                                                                 *)
(***************************************************************************)
\* Mutant: a name that is there already is kept.
SetDaemonSetPodNodeNameOnce(affinity, n) ==
  IF affinity = {} THEN { [labels |-> Nodes, fields |-> {n}] }
  ELSE { [t EXCEPT !.fields = IF @ = Nodes THEN {n} ELSE @] : t \in affinity }

SetDaemonSetPodNodeNameByNodeAffinity(affinity, n) ==
  IF affinity = {} THEN { [labels |-> Nodes, fields |-> {n}] }
  ELSE { [t EXCEPT !.fields = {n}] : t \in affinity }

NodeShouldRunPod(ds, n, pod) == n \in ds.tolerates /\ n \in pod.only

Admits(affinity) == { n \in Nodes : \E t \in affinity : n \in t.labels \cap t.fields }

\* One daemon set, [name, affinity, shared, tolerates, pod], and a choice of
\* suffixes: a pod for each node that should run one.  shared says that the
\* template has an affinity, which all its pods are made with.
MakeValidPodsByDaemonset(ds, hash) ==
  LET Make(made, n) ==
        LET affinity == SetDaemonSetPodNodeNameByNodeAffinity(made.affinity, n)
            pod == [ds.pod EXCEPT !.name = Suffixed(ds.name, hash[n]), !.only = Admits(affinity)]
        IN [affinity |-> IF ds.shared THEN affinity ELSE made.affinity,
            pods |-> IF NodeShouldRunPod(ds, n, pod) THEN Append(made.pods, pod) ELSE made.pods]
  IN FoldLeft(Make, [affinity |-> ds.affinity, pods |-> <<>>], SortBy(Nodes, <)).pods

\* Those of several, one after the other.
PodsOfDaemonSets(sets, hash) ==
  FoldLeft(\o, <<>>, [d \in DOMAIN sets |-> MakeValidPodsByDaemonset(sets[d], hash[d])])
-----------------------------------------------------------------------------
(***************************************************************************)
(* The order of pods.                                                      *)
(***************************************************************************)
\* A stable sort by keys that are pairs of numbers.
Sorted(s, key) ==
  LET Before(i, j) ==
        \/ key[i][1] < key[j][1]
        \/ key[i][1] = key[j][1] /\ key[i][2] < key[j][2]
        \/ key[i] = key[j] /\ i < j
      order == SortBy(DOMAIN s, Before)
  IN [k \in DOMAIN s |-> s[order[k]]]

\* Mutant: pods without a date are sorted by name with the others.
SortClusterPodsByName(pods, shuffle) ==
  IF shuffle THEN { [k \in DOMAIN pods |-> pods[p[k]]] : p \in SetToSeqs(DOMAIN pods) }
  ELSE { Sorted(pods, [k \in DOMAIN pods |-> << pods[k].name, 0 >>]) }

\* By date of creation, which is now for a pod without, and by name.
SortClusterPods(pods, shuffle) ==
  IF shuffle THEN { [k \in DOMAIN pods |-> pods[p[k]]] : p \in SetToSeqs(DOMAIN pods) }
  ELSE { Sorted(pods, [k \in DOMAIN pods |->
                         << IF pods[k].created = NoDate THEN Now ELSE pods[k].created,
                            pods[k].name >>]) }

Creation(pod) == [op |-> "create", pod |-> pod, at |-> pod.created]
Deletion(pod) == [op |-> "delete", pod |-> pod, at |-> pod.deleted]

EventsOf(pod) ==
  IF pod.deleted = NoDate THEN << Creation(pod) >> ELSE << Creation(pod), Deletion(pod) >>

\* syncPod: the events by date, those of a date as they are; undefined goes
\* before all.
Events(pods) ==
  LET all      == UNION { {k} \X DOMAIN EventsOf(pods[k]) : k \in DOMAIN pods }
      event(x) == EventsOf(pods[x[1]])[x[2]]
      Before(x, y) ==
        \/ event(x).at < event(y).at
        \/ /\ event(x).at = event(y).at
           /\ x[1] < y[1] \/ (x[1] = y[1] /\ x[2] < y[2])
      order == SortBy(all, Before)
  IN [k \in DOMAIN order |-> event(order[k])]

\* SchedulePods, given pods as they are, takes one with a date of deletion for
\* its deletion.
GivenEvents(pods) ==
  [k \in DOMAIN pods |-> IF pods[k].deleted = NoDate THEN Creation(pods[k]) ELSE Deletion(pods[k])]

\* The workload without where and when it ran before.
SetWorkloadPods(pods) ==
  LET fresh == [k \in DOMAIN pods |->
                  [pods[k] EXCEPT !.created = NoDate, !.deleted = NoDate, !.marked = FALSE,
                                 !.only = Nodes]]
  IN Sorted(fresh, [k \in DOMAIN fresh |-> << fresh[k].name, 0 >>])
=============================================================================
