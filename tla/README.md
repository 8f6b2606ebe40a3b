# A TLA+ model of CAFGD

CAFGD simulates a Kubernetes cluster with shared GPUs. It replays a trace of
pods against the real Kubernetes scheduler, which talks to a fake API server,
and adds plugins of its own: Open-Gpu-Share, which gives a pod its GPUs, a
simulated clock, and score plugins that try to keep GPUs unfragmented. This
directory holds TLA+ modules of the parts of it that have state, TLC
configurations that check them, and TLAPS proofs.

## The system

| component | source (under `src/pkg`) | state | operations |
|---|---|---|---|
| driver | `simulator/simulator.go` | none of its own: where it is in `SchedulePods` | create, assume and delete a pod; five polling loops |
| Open-Gpu-Share plugin | `simulator/plugin/open_gpu_share.go`, `type/open-gpu-share/cache` | per GPU the pods on it (cache), and their publication as a node annotation | Filter, Reserve, Unreserve, the informer's DeleteFunc |
| scheduler, API server | vendored, `simulator/plugin/simon.go` | pods (phase, node, annotation), scheduling queue | scheduling cycle, bind, retry, events |
| simulated clock | `type/fakeTime.go`, `simulator/plugin/sim_time.go` | heap of traces, trace list per node, counters | record at Reserve, release before a creation |
| resource arithmetic | `type/resource.go`, `utils/utils.go` | values only | Sub, Add, allocation of GPUs on a value |
| prediction window | `type/predict.go` | sliding lists, counts, top kinds, memo of the weights | Add, genTopK, GetPM2, remakeTopK |
| typical pods | `utils/frag.go` | the kinds a workload is made of, with weights | GetTypicalPods, GetTypicalPodsByTime |
| fragmentation | `utils/frag.go`, `utils/predict.go` | values, and a memo in the simulator | classification and sums |
| score plugins | `simulator/plugin/*_score.go` | one shared pod name | Score, normalisation, a GPU selection |
| descheduling | `simulator/deschedule*.go` | queue of nodes, pods read at the beginning | pick victims, delete, reschedule |
| workload | `simulator/utils.go`, `utils/utils.go`, `simulator/simulator.go` (`syncPod`, inflation, tuning) | pod list, request totals | make pods from objects, order events, sample pods |
| pipeline | `simulator/core.go` | none of its own: how far it is | import, daemon sets, tuning, run, inflation, app |
| reports, CLI | `export.go`, `analysis.go`, `apply`, `cmd` | none | sum, print |

How they interact. The driver creates a pod at the API server. The scheduler
goroutine takes it from its queue, runs every plugin's Filter and Score,
reserves, and binds. Open-Gpu-Share's Filter counts what its *cache* holds; its
Reserve counts what the node's *annotation* says, then updates the cache,
publishes the node, and patches the GPU indexes into the pod. The driver calls
neither: it polls the API server until the pod is bound or failed and until the
annotation names it. A deletion goes the other way: the driver deletes, an
informer goroutine calls the DeleteFunc, which updates cache and annotation
without taking the plugin's lock, and the driver polls until the annotation has
lost the pod. So three goroutines share the annotation, two of them rewrite all
of it from an export they made earlier, and only the polling of the third keeps
them apart. That is the core of the system and what is modelled first.

What makes each component correct:

- plugin and driver: no GPU is promised beyond its capacity; what Filter
  accepted, Reserve can allocate; when the driver reports, both views show the
  pods that run; no update is lost; every polling loop ends.
- clock: a trace for each running pod and no other; no pod outlives its end; a
  trace never ends another pod; counters agree with what happened.
- arithmetic: what Sub took Add gives back; no GPU below zero or above its
  capacity; an error leaves the value alone.
- prediction window: counts equal the window's content; the memo is what would
  be computed now; no index out of range.
- typical pods: they stand for the part of the workload that is asked for.
- fragmentation: the classes partition what is left of the GPUs, however it is
  summed.
- score plugins: no score is out of range and no selection empty, though a node
  is read three times while pods end; normalisation keeps the best node best;
  the GPUs that were scored are the GPUs that are taken.
- descheduling: no more victims than asked for; a victim is deleted once and
  rescheduled once; its leaving relieves its node; the memo behind it is true.
- workload and pipeline: every pod ends up somewhere; room is freed before it
  is asked for; tuning and inflation do what their comments say.

The hazards, each at its line, are in `PROJECT.json`.

## Modules

| module | what it is |
|---|---|
| `GpuCluster` | nodes, GPUs, pods and what they ask for: the constants and their assumptions |
| `GpuLedger` | the abstract specification: a pod gets all its GPUs at once while they have room, and loses them at once |
| `GpuShare` | driver, scheduler, plugin and handler over one API server |
| `GpuShareInv` | the inductive invariants of `GpuShare` |
| `SumProofs` | lemmas on sums over finite sets, on finite orders and on folds |
| `GpuShareProofs` | proofs: types, capacity, Filter against Reserve, mutual exclusion; the exact contents of cache and annotation, the refinement of the ledger, and `RetrySpec` |
| `MCGpuShare` | a cluster and pods for TLC |
| `SimClock` | driver, simulated clock and the scheduler's CPU accounting, over `GpuLedger` |
| `SimClockProofs` | proofs: traces, releases and counters, types, CPU and utilisation |
| `MCSimClock` | pods that start and end for TLC |
| `NodeResource` | what is left of a node, what a pod asks for, Sub, Add, Flatten |
| `NodeFrag` | the seven fragmentation cases and the amounts summed from them |
| `NodeFragProofs` | lemmas on what is left of a node and on the amounts |
| `DotProduct` | the dot-product score with its virtual nodes and pods, in exact fractions |
| `ScorePolicies` | the scores, GPU selections and normalisations |
| `SchedulingCycle`, `MCSchedulingCycle` | a scheduling cycle with any of those, while pods end |
| `SchedulingCycleProofs` | proofs: selections, scores, normalisation, packing, fragmentation |
| `Deschedule`, `MCDeschedule` | the descheduling policies, the memo of amounts, the reports |
| `DescheduleProofs` | proofs: giving back, memo, queue, victims, relief, reports |
| `PredictWindow`, `MCPredictWindow` | the windows of CAFGD and FGDPP |
| `PredictWindowProofs` | proofs: counts, top pods, memo and weights |
| `TypicalPods` | typical pods by count and by running time |
| `Workload` | pods from objects, their names, their order, their events |
| `Simulate`, `MCSimulate` | the pipeline from import to the end |
| `SimulateProofs` | proofs: types, tuning, typical pods, order of events, where pods end up, inflation |

`NodeResource` is extended by `NodeFrag`, `DotProduct` and `TypicalPods`, and
those by the state machines that use them; these compose with each other by
what they abstract: `Simulate` keeps of a scheduling cycle that a pod goes where
it fits, which is what `SelectionFits` of `SchedulingCycle` states, and
`SchedulingCycle` keeps of the window whether it is full.

### GpuShare against the code

Each goroutine is a record with a `pc`; an action is what a goroutine does
between two points where another one can see or change something, which is one
call to the API server or one call of the cache. Such a call holds the lock of
the node or of the clientset's tracker, but for the export, which takes the locks
of the devices one after the other: that nobody changes them in between is what
`Handshake` shows for `Spec`, and what the model takes for granted under
`RetrySpec`.

- `api[p]` is the pod object: `pending` after Create, `failed` once its
  PodScheduled condition is false, `bound` with a node name, `absent` when
  deleted; `ids` is its gpu-index annotation. `queue[p]` is the scheduling
  queue: `active`, or `parked` in backoff after a failure.
- `devs[d]` is the podMap of device `d` in the cache; `anno[d]` the PodList of
  `d` in the node's annotation; `published` the nodes that have the annotation.
- Driver: `CreatePod`, `CreateDuplicate` and `DeleteEvent` are the calls
  SchedulePods makes, in any order and any number. `Created`, `SeenOnNode` and
  `CheckFailed` are the rest of createPod and assumePod, `GetPod`, `Delete` and
  `GoneFromNode` are deletePod. The polls are guards.
- Scheduler: `Pop` to `Fail` is scheduleOne with the plugin's methods called
  from it. `FilterReject` is always possible, for other plugins may turn down
  every node. Reserve is five steps: allocate, enter the cache, export,
  update the node, patch the pod. `Unreserve` is called on every failure after
  that; it removes what the pod of the cycle names, which is its preset
  indexes and not those Reserve chose.
- Handler: `HandlerRemove`, `HandlerExport` and `HandlerUpdateNode` are the
  DeleteFunc.
- A panic is a `pc` of its own and stops everybody (`Alive`).

Choices made on the way:

- The goroutine in which the scheduler binds is folded into the cycle. The
  driver has created no other pod by then, so the next cycle has nothing to take.
- The method that picks a GPU for a share pod is `best`, `worst` or `random`.
  The score plugins register methods of their own; all but the dot product with
  `merge`, which finds none, return some GPU with room, so `random`, which allows
  any, covers them.
- A re-created pod has a new UID in the code. The model keeps the name only,
  so `CreatePod` waits until nothing is left of the earlier life (`Fresh`).
  Under `Spec` that is always so when the driver is idle; it matters only under
  `RetrySpec`, where a leaked pod stays in the cache.
- Of the workload the events are creations of pods without a node. A GPU pod
  created with its node name set would bypass the scheduler and hang the
  driver; nothing the repository configures makes one.
- After a failure the scheduler retries a pod after a second at least; the
  driver deletes a failed pod milliseconds after it sees it. `Spec` leaves the
  retry out, as every run of the simulator relies on; `RetrySpec` allows it at
  any time.

### SimClock against the code

`SimClock` takes one creation or deletion as one step, because `GpuShare` shows
that it looks like one to the driver: a pod gets its GPUs by `Ledger!Place`.
What is left are the steps between which a pod list, a clock and two caches can
disagree.

- `Arrive` is SchedulePods up to the end of `ReleasePodBeforeTime`: the clock
  is set to the pod's start, and every trace that is due leaves the heap. The
  pods they name are then deleted one by one (`DeleteExpired`), by name, so that
  a trace of a pod deleted earlier ends whatever bears the name, or nothing.
- `CreateDuplicate`, `Schedule` and `Reject` are the three ways assumePod ends,
  with the counters SchedulePods keeps. `Schedule` contains the Reserve of the
  Sim-Time plugin (`RecordPod`). `Reject` is always possible: other filters may
  turn the pod down.
- `life[p]` numbers the creations of a name; a trace is `<<p, k>>`. The heap is
  a set, because all that is popped is all that is due; the node's list is a set
  too, sorted in the code by end.
- `snapshot` is the CPU the scheduler's cache counts. The driver waits for the
  GPU annotation after a deletion and not for that cache, so `CacheForgets`
  comes at any time later.
- `Noted` is the Filter's use of the cause flags. It runs on every node: the
  vendored framework has its early exit commented out, and the configurations
  ask for 100 % of the nodes.
- With `Shuffle` the pods arrive in any order and the clock may go back
  (`customConfig.shufflePod`); without it, in the order of their starts.
- A bind that fails after `RecordPod` is left out: it takes a retry that
  overtakes the driver (`RetrySpec` of `GpuShare`), and `FilterHonoured` shows
  that it does not happen otherwise.

### NodeResource, NodeFrag, DotProduct, ScorePolicies against the code

They hold no state: operators on the values the code passes around. A pod
resource is `[cpu, milli, num, type]`, a node resource `[cpu, cap, gpu, type]`,
with GPU `i` of the code at position `i + 1`. Memory is left out, for no plugin
of the repository looks at it.

- `Sub` and `Add` are the methods with their early returns: `Sub` returns the
  node with what it took when it runs out of GPUs, `Add` stops at the first
  index it cannot serve. The code copies the node before it changes it, so the
  operators return a node.
- A distribution gives weights to kinds of pods. The code has percentages, as
  floats; a weight here is a whole number, an amount is in milli-GPU times the
  sum of the weights, and comparisons of amounts are exact.
- The sigmoid and the hyperbolic tangent that turn amounts and products into
  scores are constants; the instances give them a table with the
  right values to within their rounding. The scores that follow are integers,
  as in the code.
- A selection that panics is `Panic`; the empty GPU id is `NoGpus`. A plugin
  that returns an error answers `Failed`.
- CAFGD scores with `GetGpuShareFragExtendScore` and selects with
  `PredictGpuShareFragExtendScore`, as in the code, which has both.

### SchedulingCycle against the code

- `Start` is scheduleOne to the end of the filters, with the snapshot the cycle
  keeps; a single feasible node is taken unscored, as `generic_scheduler.go` does.
- `ScoreNode` is one plugin's Score of one node, in any order, since the
  framework scores sixteen nodes at a time. It reads the node anew:
  `GetNodeResource` takes the CPU from the snapshot and the GPUs from the
  annotation as it is at that moment.
- `SelectHost` is NormalizeScore, the framework's check of the range, and the
  choice among the best. `Reserve` selects the GPUs with the configured method,
  reading the node once more.
- `PodEnds` is the deletion of any pod at any point between those steps. The
  driver of this repository deletes only between cycles, which `Handshake` of
  `GpuShare` shows; the plugins are checked without relying on it.
- `BecomeReady` is the window filling up, which `PredictWindow` models: CAFGD's
  between cycles, FGDPP's while nodes are scored.

### Deschedule against the code

- `Begin` is DescheduleCluster up to the loop of its policy: the number of
  victims, the nodes read once (`ds.res`, with the pods on them `ds.pods`), and
  the order. `fragOnePod` sorts by amount with a sort that is not stable, so
  that nodes with equal amounts come in any order; `cosSim` sorts by resource
  and name; `fragMultiPod` fills a binary heap. `Up`, `Down`, `Heapify` and
  `PopRest` are `container/heap`, `Push` the queue's own.
- `CosSimNode`, `FragOnePod` and `FragMultiPod` are one turn of the loops, with
  the deletion of the victim. `Read` is a node as nodeResMap has it, which
  nobody updates after a deletion. The similarity of `cosSim` is compared as a
  squared fraction; where floats could round a one down, either outcome is
  allowed.
- `PostEviction` is the analysis between the evictions and the rescheduling,
  `Reschedule` one pod of SchedulePods with the report that follows every pod.
  The scheduler may pick any placement that fits (`Places`).
- `memo` is `fragMemo`, keyed by `Flatten`; `SetTypicalPods` replaces the
  typical pods and clears it, as a second workload would.
- The loops `up` and `down` of the heap are folds of one turn of theirs, `Rise`
  and `Sink`, over as many turns as the queue has items: a turn after the item
  has found its place does nothing.
- `DescheduleAssumption` has a pod with a count of GPUs ask for a share of them:
  a pod whose `gpu-milli` is nought is one without GPUs to Filter and Reserve
  (`open_gpu_share.go:92`), and gets none, whatever its count says.

### PredictWindow against the code

- `Arrive` is SchedulePods putting the next pod into CAFGD's window before it
  creates it: `Add` with `Shifted` (list and counts), `Due` (when top pods are
  made anew), `genTopK`, and the memo set to nil.
- `ScoreCAFGD` is Score of one node: GetPM2 answers from the memo, or computes
  the weights and keeps them. `ScoreFGDPP` is a Score of FGDPP, which adds the
  pod to its window each time.
- Go iterates maps in any order and sorts kinds by count only, so `Tops` gives
  every list that may come out. It answers `Panic` when the loop would run past
  the kinds there are.
- Weights are in common units instead of floats; the plan times are those at
  which the logarithm in getTimeWeight is whole, one in each of its ranges.

### TypicalPods, Workload and Simulate against the code

- A workload object gives the pods its `MakeValidPods...` makes. Generated
  names end in five hexadecimal digits drawn at random; here in a member of
  `Hashes`, so that two pods may draw the same. `EveryPodEndsUp` leaves out
  pods that share a name: the second creation fails and deletes the first pod,
  and nothing says what should become of them.
- The affinity of a daemon set's template is pinned to node after node in
  place, if it has one (`shared`). `Make` threads it through the nodes.
- `SortClusterPods` sorts by date, where a pod without one counts as created
  now, and by name; `Events` sorts by date again, where a pod without one goes
  first, and is stable. The two rules together decide who goes first at one date:
  a pod without a date of creation, whose time is over then, is deleted after
  the pods of that date were created, and one with a date before them.
  `RoomIsFreedFirst` states just that. `GivenEvents` is what SchedulePods does with pods it
  gets outside the run: one with a date of deletion is taken for its deletion.
- `Import` to `RunCluster` are Simulate up to the run; `Marked`, `Create` and
  `Delete` are the turns of SchedulePods' loop, `Return` its end; the rest are
  tuning, inflation and apps. In `core.go` the calls of tuning, inflation and
  descheduling are commented out at this commit; the functions are there, and
  the model takes or leaves them.
- Of the scheduler `Simulate` keeps that a pod goes to a node it may go to where
  CPU and GPUs fit, in sum; of the deletion that it is by name; the clock is
  left out.

## Runs

The instance of `GpuShare`: node `n1` with two GPUs, `n2` with one; `s` and `t` ask for 600
and 700 milli of one GPU, so that no two fit one GPU, and `t` insists on the
GPU model of `n1`; `x` asks for two whole GPUs; `g` has GPU 1 preset in the
workload; `c` has no GPU. That is one pod per path through Filter and Reserve
and enough of them to fill every GPU and to have rejections on each node. The
pods come and go without bound. `MaxEvents = 2` bounds the deletions an
informer has not delivered yet; `Handshake` shows that there is never a second.

| run | question | result |
|---|---|---|
| `core` | `Spec`, five pods, random selection: types, capacity, Filter against Reserve, the truth of reports, mutual exclusion, what a pod gets, lost updates, refinement of the ledger, the inductive invariant `BooksInv`, and do the polling loops end | passes, 33,718 states; deadlock checked |
| `retry` | `RetrySpec`, worst fit: does the cache still count every GPU in use | passes, 266,913 states |
| `unreserve` | `RetrySpec`: does Unreserve undo Reserve | violated, as below |
| `clock` | sorted arrivals, no deletions: is the utilisation, in every state, one the cluster can have | passes, 2,040 states |
| `clock_any` | arrivals in any order, deletion events, names used twice: types, expired pods gone in time, traces, counters, CPU, and the inductive invariant `RunInv` | passes, 130,698 states |
| `cause` | is a failure counted under its own cause | violated, as below |
| `score` | under every policy: does a cycle succeed, does the selection fit, is the host the best-scored node, are the scored GPUs the ones taken, does packing prefer used GPUs, do the two sums of fragmentation agree | passes, 145,193 states; deadlock checked |
| `deschedule` | does Add undo a placement, is the memo true, is the queue a heap, is a victim evicted once, within the ratio and to the relief of its node, is the report true, does it end | passes, 47,816 states; deadlock checked |
| `multi` | is `fragMultiPod` through with a node only when no pod of it would relieve it | violated, as below |
| `window` | do the counts follow the window, are the top pods there and recent, are the weights those of the present pod | passes, 495,122 states; deadlock checked |
| `pipeline` | does every pod end up somewhere, is room freed in time, are the typical pods typical, does tuning hit its ratio, does inflation leave nothing behind | passes, 399,703 states; deadlock checked |
| `inflation` | does inflation stay within the capacity | violated, as below |

The instance of `SimClock`: a node with two GPUs and one without. `s`, `t` and
`x` ask for 600 milli, 700 milli and two whole GPUs, so that `s` and `t` cannot
share a GPU and `x` fits beside neither; `x` starts when `s` ends, which is the boundary of
`ReleasePodBeforeTime`; `b` asks for most of a node's CPU and ends as it starts;
`c` asks for little. `MaxArrivals` bounds the creation events: 5 in
`clock_any`, one more than there are pods, so that a name that may come twice
does. Deletion events are not bounded.

The instance of `SchedulingCycle`: two nodes of two GPUs, of four units each,
with different models and CPU, one node without GPUs, and five pods: a quarter,
a half and a whole GPU, two GPUs of one model, and CPU alone. Two nodes make a
choice for a GPU pod and three for the other; the pods fill them in every way,
and whatever can be placed is placed and ends without bound.
Fourteen policies are every score and selection, the dot product with each of
its ways to divide a node and to normalise.

The instance of `Deschedule`: a node with two GPUs and one with a single GPU, and
four pods, from every placement of them that fits (274). Two distributions of
typical pods, and two deschedulings (`MaxRuns`), with the distribution changed
in between, which is what the memo could go wrong on. A ratio of 3/4 asks for up
to three victims, more than there are nodes, so that `fragMultiPod` turns to a
node again. The run `multi` is the same with that policy alone.

The instance of `PredictWindow`: windows of 2 and 4 pods, of which a short pod
looks at the latest 1, for the code's 400, 10000 and 50 (`WindowSizes` is what
they have in common), a water mark of 3/4 for 95 %, and FGDPP's window of 2 for
400. Nine pods (`MaxPods`) fill the big window
twice over, which reaches every branch of `Due`; scoring on up to two nodes
(`MaxNodes`) makes FGDPP's window overtake five windows and remake its top pods
three times.

The instance of `Simulate`: two nodes with a GPU each, and one of 666
configurations: pods with dates, in all orders that make a pod leave before,
when or after another comes; an object of each kind beside a pod; daemon sets
with each form of affinity; pods that are not valid. Tuning goes to 0 (none),
1/4, 3/4 and 6/4 of the GPUs, by at most three pods (`MaxTuned`); inflation to
3/2 of the workload.

Deadlock checking is off under `RetrySpec`, where a panic ends the program, and
for `SimClock`, where the pod list ends.

Fairness in `core`: each of the driver's steps, the scheduler and the handler
is weakly fair as long as nothing has panicked. They are goroutines in loops
that sleep a few milliseconds at most, and the Go runtime runs each of them.
Which event the driver turns to next is not fair: the trace may end.

Fairness in `deschedule`: `FairSpec` is weak fairness of `Step`, all that
happens between the beginning of a descheduling and its return. It is one
goroutine that runs loops and nothing else, so that it does not stop in their
middle. It is written out, with `ds.pc = "idle"` for "`Step` is disabled",
because evaluating ENABLED on these steps takes TLC longer than the rest of the
run; that `Step` is enabled whenever `ds.pc` is not `"idle"` is what the absence
of a deadlock shows, there being no other action then. Descheduling itself is
not fair: nobody need ask for it.

### What `unreserve` found

`Unreserve undoes the GPU resource updated in Reserve function`, says the
comment. It is called with the scheduler's pod, and Reserve put the GPU indexes
into a copy. The cache finds the devices of a pod by the indexes it names, so
nothing is removed, and the node is published with the pod still on it. To get
there Reserve must fail after it entered the cache, or the bind must fail; both
need the pod to have been deleted in the meantime, which takes a retry that
overtakes the driver's deletion. In the usual order the case does not arise,
and `FilterHonoured` is the proof of that: `Unreserve` is never called.

### What `cause` found

A failed pod is reported as failed "by cpu lack" when the flag `CpuLacked` is
set. Every Filter sets it, for every node that lacks the CPU, and only a failure
resets it. So a pod that was scheduled on one node, having been short of CPU on
another, leaves the flag for the next pod that fails, whatever that one lacked.
In the run, a pod that finds no GPU is counted under CPU.

### What `multi` found

The other fragmentation policy takes one pod of a node and goes on to the next;
`fragMultiPod` has a queue, into which a node goes back after it lost a pod. The
code then says what it does: `update the nodeFragQueue`, `remove one pod`, `update
the nodeStatus`, and it counts the pods each node has lost. But it does not
update nodeResMap, which was read before anything was deleted, and that is
where the next victim is looked for: what the node would be without a pod is
still computed with the first victim on it, and compared with the priority the
first victim has left. The first victim was the one that relieves most, so no
other passes (`BestLeaves` in `DescheduleProofs`, with the rounding of the
division in it), and the node is popped for nothing. In the run, a node of two
pods loses one, the leaving of the other would take its fragmentation to nought,
one more victim is allowed, and the policy is through with the node. As with
the other functions of that pipeline, the call is commented out in `core.go`.

### What `inflation` found

`avoid total resource requests of pods exceeding the capacity after adding
inflation pods`, says the comment in front of the test. The test starts from the
totals the simulator recorded. Tuning adds pods to the list and takes pods off
it, and keeps the recorded GPU total up to date, but not the CPU total. In the
run, a workload is tuned up, its CPU requests still being within the cluster's,
and inflation adds a pod that takes them beyond it. Both calls are commented out
in `core.go` at this commit, so a run of the program does not come there;
whoever takes the comments away does.

## Proofs

Whatever the passing runs check is proved for every value of the constants, but
for liveness; some of it under a hypothesis, which the tables name. What is
proved, from which assumptions and along which argument:

### Sums

The provers know no induction over data, and much of what is proved is about
sums over finite sets: the shares on a GPU, the CPU on a node, the utilisation,
the counts of a window. `SumProofs` derives what is needed of them from the
definition of `MapThenSumSet`, by minimal counterexample: the sets for which an
equation fails, if any, include a minimal one (`Smallest`, from the
well-foundedness of strict inclusion on finite sets), and taking an element out
of that one contradicts its minimality. So are derived the recursion equation
itself, that the order of adding up does not matter, monotony, additivity, and
the comparison along an injection. The recursion of `GetUsedGpuMilli`, once an
assumption, is derived from it for that reason.

### GpuShare

From the assumptions of `GpuCluster` (a GPU has a positive capacity, pods and
nodes are finitely many, no pod asks for more than the whole of a GPU, a pod of
several GPUs asks for whole ones; the code panics otherwise) and of `GpuShare`
(`SelAssumption`: the selection method is one the code has; `NoPodAssumption` and
`BoundAssumption`, which are about the model only):

| theorem | states |
|---|---|
| `TypeCorrect` | `Spec => []TypeOK` |
| `Invariant` | `Spec => []IInv` |
| `GpusSuffice` | `Spec => []NoOversubscription` |
| `ReserveKeepsFiltersWord` | `Spec => []FilterHonoured` |
| `OneAtATime` | `Spec => []Handshake` |
| `BooksKept` | `Spec => []BooksInv` |
| `ReportsTrue` | `Spec => []ReportsSeeTruth` |
| `DemandMet` | `Spec => []GotWhatItAsked` |
| `NoLostUpdate` | `Spec => NeverUnlisted` |
| `ImplementsLedger` | `Spec => LedgerSpec` |
| `CacheCovers` | `RetrySpec => []CacheCoversRunning` |

`NoOversubscription` is not inductive: that a GPU has room when a pod enters the
cache was established by Filter two steps earlier, from the cache, and confirmed
by Reserve, from the annotation. What makes it stable is that nobody else moves
in between. So `IInv` has five more parts:

- `Turn`: at most one of scheduler and handler is under way, and the driver is
  waiting for exactly that one;
- `Waits`: the deletion in flight is the one the driver waits for, and the pod
  it takes out of the cache is there;
- `Hosts`: a bound pod is in cache and annotation on the GPUs its object names;
- `Cycle`: how far the pod of the cycle has got, among others that the node
  passed Filter (`reserve`) and that the chosen GPUs have room (`cache`);
- `Agree`: cache and annotation differ only on the node that is being updated,
  and what was exported for it is what the cache holds.

`IInv` bounds what is on a GPU from one side only. That a report is true, and
that the published annotation moves as the ledger does, needs both sides, and
`BooksInv` adds them:

- `Occupied`: the cache has a pod on exactly the devices `Due` to it, because it
  runs there, or Reserve has entered it on its way there, or its deletion has
  not reached the handler;
- `Published`: the annotation differs from that by at most the one pod being
  entered or removed;
- `Grants`: what a pod is given is as many GPUs as it asked for, of a node it may
  use, and its preset ones if it has any, from Reserve to its deletion.

With these every step of `GpuShare` leaves `Ledger` alone except two: the update
of the node in Reserve is a `Place`, with the room shown by `NoOversubscription`
of the cache it publishes, and the update in the handler is a `Release`.
Each proof has one lemma per action, which shows the parts the action disturbs;
`Same...` lemmas carry the others over.

Under `RetrySpec` most of this is false: `Turn`, `Agree` and `Published` are what
a retry breaks. `RetryInv` keeps what is left. A pod that runs is out of queue and
cycle (`Settled`); nobody takes the name of a pod whose deletion is still to be
delivered (`Gone`); the pod about to run is in the cache with the GPUs it will
run on (`Entered`). From these a deletion or an Unreserve never takes a
running pod out of the cache, however late it comes.

### SimClock

For every cluster, workload, order of arrivals and set of deletable pods:

| theorem | states |
|---|---|
| `ClockInvariant` | `Spec => []ClockInv` |
| `ExpiredAreGone` | `Spec => []NoOverstay` |
| `RunningAreTraced` | `Spec => []TracesCover` |
| `CountersAddUp` | `Spec => []EveryPodCounted` |
| `RunInvariant` | `Spec => []RunInv` |
| `TypesKept` | `Spec => []TypeOK` |
| `CpuNeverShort` | `Spec => []CpuSuffices` |
| `UtilNeverBeyondCapacity` | `InOrder` implies `Spec => []UtilPossible` |

`NoOverstay` speaks of pods, the code only looks at traces. What connects them
is `TracesCover`: a pod that runs has its trace in the heap unless its deletion
is under way. And `Popped`: while the driver works on a pod, the traces left in
the heap end later than now, also if the clock went back. `TracesCover` in turn
needs `Popped`, for `setPodTraceOnNode` drops from a node's list what has ended
by now. For the counters, a trace must be new when it is pushed, which is
`Begun`.

`RunInv` adds `TypeOK`, where the utilisation is a sum over traces that are
released in any number at once, and `CpuCounted`: the scheduler's late cache
counts every pod that runs, and was never told of more than a node has.

`UtilPossible` compares a sum over traces with the GPUs times the time that has
passed. It is false when the clock goes back or a trace outlives its pod, which
is why `InOrder` asks for what the run `clock` has: arrivals sorted by start, no
deletion events, and no pod whose workload file gives it fewer GPUs than it asks
for. Then `UtilInv` is inductive: no GPU is overcommitted and a pod holds the
GPUs its trace counts (`GpusHeld`); a pod has one life, which begins as it
arrives (`OneLife`); so the traces that run add at most the capacity to each
instant, and what is popped was counted up to its end. TLC has found `UtilInv`
to hold in all states of `clock`.

### PredictWindow

For all sizes of the windows, water marks, kinds of pods, and workloads:

| theorem | states |
|---|---|
| `WindowInvariant` | `Spec => []WindowInv` |
| `CountsFollowPods` | `Spec => []WindowCounts` |
| `TopsCover` | `Spec => []TopCovers` |
| `MemoIsCurrent` | `Spec => []MemoCurrent` |
| `TopKIsFresh` | `Spec => []TopKFresh` |

The assumptions: sizes are positive, the latest pods looked at are within the
small window and that within the big one, of which it is a divisor
(`WindowSizes`: true of the code's 50, 400 and 10000); kinds are finitely many;
and plan times are those at which `getTimeWeight` is a whole number of halves
(`PlansAssumption`). The last restricts what is proved of the weights: in
between the code takes a logarithm, which neither the model nor the provers
have.

`WindowInv` says of each window what its properties do not say:

- `Counts`: a kind that is in the list has been seen, so that one never seen has
  count zero and the sum of what the loops see is the length of the list;
- `Covers`: top pods were made exactly when they were last due. As `Due` changes
  its rhythm when the big window is full, this needs the big window to be a
  multiple of the small one: at the change, top pods have just been made;
- `Added` and `TopKOf`, of FGDPP's window: the counts never shrink and sum up to
  the pods ever added, so that half of them is always within reach;
- `MemoInv`: the memo is nil, or the window is ready and the memo is what
  would be computed now for the pod of this cycle.

That the loop over the kinds never runs past their end (`TopsFound`) is shown by
the least set of kinds that is closed upwards and reaches what is asked for: the
loop stops there. That the weights are not such an overrun (`WeightsFound`)
takes a sum, for when the long window weighs three halves the others weigh
negative: all kinds together weigh at least nothing, so not all weigh -1. That
FGDPP's weights sum up to at most one takes the recency weights, which add up to
`l * (2 * l - 1)`, grouped by kind (`SumFibers`). TLC has found `WindowInv` to hold
in all 495,122 states of `window`.

### SchedulingCycle

For every cluster, workload, set of policies and distribution of typical pods
that the assumptions of `NodeResource`, `DotProduct`, `ScorePolicies` and
`SchedulingCycle` admit (a GPU pod asks for one GPU at least, and for whole ones
if for several; a node with nothing on it has all of its GPUs and CPU):

| theorem | states | under |
|---|---|---|
| `CycleInvariant` | `Spec => []CycleInv` | `SigmoidIsInt` |
| `SelectionsFit` | `Spec => []SelectionFits` | `SigmoidIsInt` |
| `BestScoreWins` | `Spec => []HostScoredBest` | `SigmoidIsInt` |
| `ScoredIsSelected` | `Spec => []SelectsWhatWasScored` | `SigmoidIsInt` |
| `PackingPrefers` | `Spec => []PackingPrefersUsed` | `SigmoidIsInt`, `FewGpus` |
| `FragmentsAccountForAll` | `Spec => []FragAccountsForAll` | |
| `CyclesSucceed` | `Spec => []CycleSucceeds` | `SigmoidRange`, `FewGpus`, `WithinSpec`, `NoModelWithoutGpu`, `NoDotProduct` |

`SigmoidIsInt` says that the sigmoid of a whole number, in millionths and rounded,
is a whole number; a constant operator cannot be given that type in an
assumption that TLC could evaluate, so it is a hypothesis. The gains of the
fragmentation policies are compared, and are numbers only with it. `FewGpus` is
needed: `getPackingScore` gives an idle node `max(33 - free, free)` and one where
the pod starts a GPU at least 33, so that an idle node of 33 GPUs or more would be
preferred to it. The code writes down eight GPUs of a node at most (`Flatten`).

`CycleSucceeds` is not true of every configuration, and its hypotheses say of
which it is:

- `WithinSpec`: no node has more CPU or GPUs than `MaxSpecCpu` and `MaxSpecGpu`.
  `bestFitScore` and `GpuClusteringScore` divide by them and answer a negative
  number for a larger node, which the one means as an error and the framework
  refuses of the other. The largest nodes of `data/csv` have 128 CPU and 8 GPUs,
  just these.
- `NoModelWithoutGpu`: a pod without GPUs names no GPU model. Filter does not look
  at the model of such a pod, the Score functions do, and answer an error.
  No pod of `data/csv` is one.
- `NoDotProduct`: with `merge` it selects no GPU, and its scores are percentages
  only if no product exceeds one. The run has five configurations of it that
  never fail on the instance, and `merge` with another selection.
- `SigmoidRange`: the sigmoid lies between nought and one.

The lemmas come in three groups.

- Measures. `AmountsAddUp`: what is a fragment and what is not of a node, taken
  for each typical pod, is what is left of it; and grouping the sum by the kind
  of the fragment does not change it (`SumFibers`).
- Selections. `Selects`: whatever a method answers for a GPU pod is a panic, or
  the empty selection, or as many GPUs with room as the pod asks for. Each
  method has its lemma: whole GPUs by their rank among the idle ones
  (`RankFound`, `FirstOfOrder`), one GPU by `FirstBestFound`, and the dot product
  through its virtual nodes and pods, where `BestGroup` is a fold of which it is
  shown that it answers one of the groups. `Answers` adds, for the methods other
  than the dot product, that they do find GPUs where as many have room.
- The cycle. `CycleInv` says that every placed pod has what it asked for
  (`PlacedWell`), that no node or GPU has more on it than it holds
  (`WithinNodes`), and what a cycle knows (`InCycle`): its pod is nowhere, and
  each node it found feasible is `StillFeasible`. That last part is what makes
  `SelectionFits` inductive, which it is not: Reserve subtracts without asking
  about the CPU, and the pods that end change the GPUs under it. A feasible node
  stays one because the snapshot shows at least the pods that are there (CPU is
  counted from it), and GPUs are only given back while a cycle is under way.

`HostScoredBest` takes `ScoreInv`: the nodes scored are feasible ones, and the
scores that will be rescaled are numbers, which for Simon needs that the pod
fits the node's CPU. Then `NormalizeKeepsBest`: the rescaled score of the best is
100, and a node with 100 has at least the best score. `PackingPrefersUsed` takes
`BandInv`: every score entered is in the band of the node as it was seen.
`CycleSucceeds` takes `SuccessInv`: the scores entered and not to be rescaled are
in 0 to 100. The node of every step is one that `Hosts` the pod (`HostSeen`, from
`StillFeasible`); from that, `ScoresWell` shows of each plugin that its score is no
error and in the range, `FinalInRange` that normalisation stays in it, and
`FindsGpus` that Reserve selects GPUs.
TLC has found `CycleInv` to hold in all 145,193 states of `score`.

### Deschedule

For every cluster, set of pods, placement of them, ratio, and set of typical
pods that `ResourceAssumption` and `DescheduleAssumption` admit (nodes are empty
at first and have no more GPUs than their key has room for, a GPU pod asks for a
share, weights are positive):

| theorem | states |
|---|---|
| `DescheduleInvariant` | `Spec => []DInv(placed, typical, memo, ds)` |
| `PlacementsUndone` | `Spec => []AddUndoesPlacement` |
| `MemoNeverLies` | `Spec => []MemoSound` |
| `WorstNodeFirst` | `Spec => []HeadIsWorst` |
| `NoPodLost` | `Spec => []EvictedOnce` |
| `VictimsRelieve` | `Spec => EvictionRelieves` |
| `ReportsAddUp` | `Spec => ReportIsTrue` |

`DInv` has the state as parameters, for its parts speak of nodes as they were
read as well as of nodes as they are. Beyond types it says:

- `Held`: a pod is nowhere, or on as many of a node's GPUs as it asks for;
- `MemoFor`: what is remembered under a key is the amount of *every* node with
  that key, not only of the one it was computed for;
- `Counted`: who waits was evicted, nobody waits twice, the ratio is kept;
- `Reading`: what was read at the beginning, less the pods that wait, is what is
  there now;
- `Once`: no node still to be looked at has lost a pod;
- `Queued`: the queue is a heap, and each node in it has the priority it was read
  with and all of its pods, or a priority from which no pod of it brings relief;
- `Known`: the amounts of the nodes that were read are remembered.

The lemmas come in four groups.

- The memo. `Flatten` sorts what is left of the GPUs
  and pads it with zeros. `SameForPods` and `SameAmount`: two nodes with one key have
  the same amounts, for each typical pod counts GPUs by what is left of them and
  sums over them, and a GPU with nothing left neither counts nor adds. The
  sums are compared along the permutation that sorting is (`KeyOrder`, `KeySum`).
- Giving back. `AddGives`: Add, a fold over the index list, serves every index if
  no GPU would have more than it has. `AddUndoes`: from a node loaded with a set
  of pods that is always so, and what it gives is the node without the pod.
- The heap. `OrderedFrom(q, m, i)` says that the items of the first `m` from
  position `i` on are below their parents. `SinkOrders` and `RiseOrders` show what
  one turn does to a heap with one item out of place, `DownOrders` and `UpOrders`
  follow a whole run, by the number of turns that can be left. From these
  `HeapifyOrders`, `PopOrders` and `PushOrders`; `HeadHighest` is that a heap's
  first item is its highest.
- The reports. `MilliTotal` and `UsedTotal`: what is in use is the same counted by
  pod, by GPU and by node (`SumSwap`, `SumPairs`, `CountIs`). `ReportOf` adds that the
  nodes the report leaves out as unused have nothing in use, `AllocIs` does
  the same for the annotations, and `AllAccountedFor` sums `AmountsAddUp` of
  `NodeFragProofs` over the nodes.

`EvictionRelieves` rests on what the run `multi` found wrong: that no node loses
two pods, because the second is judged by the node as it was *before* the first
but against the priority the first has *left*, so that none qualifies. Hence the
two alternatives of `Queued`, hence `Once`, and hence every victim is judged by
its node as it is.

`DInv` quantifies over all nodes there could be, so that TLC cannot evaluate it;
its parts about the nodes there are make up the properties of the run `deschedule`.

### Simulate

For every set of configurations, nodes, ratio of tuning and of inflation, and for
everything chance decides: which pods are copied or removed, which suffixes are
drawn, where a pod is scheduled:

| theorem | states |
|---|---|
| `SimulateTypes` | `Spec => []TypeInv` |
| `Tuning` | `Spec => []TunedNear` |
| `TypicalPodsCover` | `Spec => []TypicalCover` |
| `FreedFirst` | `Spec => []RoomIsFreedFirst` |
| `PodsEndUp` | `Spec => []EveryPodEndsUp` |
| `NothingLeft` | `Spec => []InflationLeavesNothing` |

The assumptions:

- `WorkloadAssumption` and `SimulateAssumption`: a configuration is lists of pods
  and objects (`IsConfiguration`), the dates of creation are before `Now`, as
  those of a trace are before the time the program runs; ratios are fractions
  of natural numbers. `TypicalPodsConfig`: the step of the loop is positive, and
  the share to be reached is a percentage.
- `KindsApart`: kinds of pods do not differ in the GPU model alone. Less, by which
  the code breaks ties between kinds, does not look at the model, and the order of
  two such kinds is that of a map in Go.
- `NamesApart`: nobody else draws the name of a daemon set's pod.
- `CopiesApart`: no pod has a name that a copy will get. The evaluation deletes
  its copies by name, also those that were refused because the name was taken:
  it would then delete the pod that had the name before. That is how the code
  goes wrong where the assumption does not hold (hazard at `simulator.go:1035`).

Each theorem has an inductive invariant of its own:

- `TypeInv`: pods are records of the kinds that the configuration asks for, and
  the workload has no dates;
- `NearInv`: while pods are removed the total is above the target or within one
  pod of it, while they are added, below or within. What a pod puts it off by
  is not always what it asks for (`PutsOff`): the loop tests the share of one
  GPU, and a pod may name a share and no count of GPUs
  (`GetGpuMilliFromPodAnnotation` and `GetGpuCountFromPodAnnotation` read two
  annotations), and then ends the loop though it adds nothing;
- `TypicalInv`: the typical pods are those of the workload as it was imported. That
  they cover it is about the values: `KindsSorted` and `ChoppedCovers`, with sums
  over parts of a sorted list;
- `OrderInv`: the events are in the order of their dates (`Timely`), each pod that
  is there and has a date of deletion has that deletion to come (`There`), and
  of two events of one date the order is known (`Waits`), which comes from that
  of `SortClusterPods` because the second sort is stable;
- `EndsInv`: a pod with a name of its own has exactly one event of creation, and has
  failed, is there, has left, or is still to come (`Tracked`). What is there or has
  failed is from the list;
- `DaemonInv`: the pods include, as long as nothing was tuned, those of each
  daemon set, on the nodes its affinity had before it was pinned
  (`DaemonPart`);
- `LeftInv`: no name of a copy is taken before the copies come, and all that is
  there besides what was there before is a copy.

Sorting is where the lemmas are. `SortBy` counts the elements before each
(`NodeResource`), which the provers can reason about; `SortedIs` shows that it
gives a rearrangement in order and a stable one, from which `EventsWait`
follows for the pairs of pods and events. The loops over objects, kinds, sets and
nodes are folds over intervals (`FoldExists`), taken up one turn at a time.

### Only model-checked

- `DriverReturns` of `GpuShare` and `DescheduleEnds` of `Deschedule`: liveness
  under fairness is out of the prover's reach.
- `CycleSucceeds` of `SchedulingCycle` for the dot product: its scores are fractions
  of products, of which the run shows on the instance that they stay in the range.

## Plan

Done: the modules and proofs above. What is left:

1. DeviceLocks: the nesting of cache, node and device locks, with Go's
   writer-preferring read-write lock, for the hazard at `deviceinfo.go:92`.
2. `Simulate` with the clock, so that pods end in the middle of an event list.

## Not modelled

- `DeviceLocks`, as above: the models take each call that holds a node's lock
  as atomic.
- Code nothing calls: `genTopKByTime`, `GetPM`, `GetPM3` and `GetPM4` of
  `PredictPod`, the measures `...BasedOnPredict2`, `3`, `4`, `5plus`, `7` and `8`
  that use them, `NodeGpuShareFragAmountPP`, the score `ScoreTT`, the filter
  `PreFilterFragGpuRatio`, the skyline pods and their report, the greed queue,
  and what the component list names of `FakeTime`.
- The Bellman measure of fragmentation, which is computed to be logged and by
  recursion on the node.
- Memory as a resource: no plugin of the repository decides by it.
- The creation of objects that no pod depends on (services, claims, config
  maps), the reading of YAML, export, charts, scripts and the command line:
  sequential input and output.
- Preemption, which finds no victims, for all pods of the traces have one
  priority; the permit phase, for which no plugin is enabled; the score plugins
  of Kubernetes itself, which the experiments disable; and several score plugins
  at a time, which only the default of `pkg/simulator/utils.go` enables and the
  experiments do not.
