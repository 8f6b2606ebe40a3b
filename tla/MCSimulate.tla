----------------------------- MODULE MCSimulate -----------------------------
(***************************************************************************)
(* Two nodes with a GPU each.  A configuration is one of:                  *)
(*   - three pods with dates, where one has to leave for another to fit;   *)
(*   - a workload object of some kind beside a pod;                        *)
(*   - a daemon set beside a pod;                                          *)
(*   - one with a pod that is not valid.                                   *)
(***************************************************************************)
EXTENDS Simulate

R(cpu, milli, num) == [cpu |-> cpu, milli |-> milli, num |-> num, type |-> {}]
Half == R(1, 1, 1)
Full == R(1, 2, 1)
Two  == R(1, 2, 2)
Cpu  == R(2, 0, 0)

Pod(name, res, created, deleted) ==
  [name |-> name, res |-> res, created |-> created, deleted |-> deleted, marked |-> FALSE,
   time |-> 3 - res.cpu, only |-> Nodes, valid |-> TRUE]

MCNodeRes == << [cpu |-> 3, gpu |-> 2], [cpu |-> 2, gpu |-> 2] >>

Empty == [k \in { Kinds[i] : i \in DOMAIN Kinds } \cup {"pods", "DaemonSets"} |-> <<>>]

Dated ==
  { [Empty EXCEPT !.pods = << Pod(3, Full, c1, d1), [Pod(2, Full, c2, d2) EXCEPT !.marked = m],
                              [Pod(1, Full, c3, NoDate) EXCEPT !.only = o] >>] :
      c1 \in 0 .. 2, d1 \in 0 .. 3, c2 \in {0, 2}, d2 \in {0, 2, 3}, c3 \in {2, 3},
      m \in BOOLEAN, o \in {Nodes, {1}} }

Object(n, res) == [name |-> 4, count |-> n, pod |-> Pod(0, res, NoDate, NoDate)]

Kinded ==
  { [Empty EXCEPT !.pods = << Pod(1, r1, NoDate, NoDate) >>, ![kind] = << Object(n, r2) >>] :
      r1 \in {Half, Full, Two}, n \in {1, 2}, r2 \in {Half, Cpu}, kind \in { Kinds[i] : i \in DOMAIN Kinds } }

DaemonSet(affinity, shared, tolerates, res) ==
  [name |-> 5, affinity |-> affinity, shared |-> shared, tolerates |-> tolerates,
   pod |-> Pod(0, res, NoDate, NoDate)]

Term(labels) == [labels |-> labels, fields |-> Nodes]

DaemonSets ==
  { DaemonSet(a.affinity, a.shared, t, R(1, 0, 0)) :
      a \in { [affinity |-> {}, shared |-> FALSE], [affinity |-> {}, shared |-> TRUE],
              [affinity |-> {Term({2})}, shared |-> TRUE],
              [affinity |-> {Term({1}), Term({2})}, shared |-> TRUE] },
      t \in {Nodes, {2}} }

Daemonic ==
  { [Empty EXCEPT !.pods = << Pod(1, Half, NoDate, NoDate), Pod(2, Full, c, NoDate) >>,
                  !.DaemonSets = << ds >>] : ds \in DaemonSets, c \in {0, 1} }

Invalid ==
  { [Empty EXCEPT !.pods = << [Pod(1, Half, NoDate, NoDate) EXCEPT !.valid = FALSE] >>],
    [Empty EXCEPT !.pods = << Pod(1, Half, NoDate, NoDate) >>,
                  !.DaemonSets = << [DaemonSet({}, FALSE, Nodes, Cpu) EXCEPT !.pod.valid = FALSE] >>] }

MCResources == Dated \cup Kinded \cup Daemonic \cup Invalid

\* An app with a pod that has a date of deletion, and a daemon set for one node.
MCApp ==
  [Empty EXCEPT !.pods = << Pod(6, Half, 1, 2) >>,
                !.DaemonSets = << [DaemonSet({}, FALSE, {2}, R(1, 0, 0)) EXCEPT !.name = 8] >>]
=============================================================================
