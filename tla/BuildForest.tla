---------------------------- MODULE BuildForest -----------------------------
(***************************************************************************)
(* The build forest (crate nix-build-forest) in its two lives.  The engine  *)
(* feeds one every message of nix's internal log and reads the derivations  *)
(* when the stream has ended (build_profiles_with).  A frontend feeds its   *)
(* own from build.jsonl, which keeps only what BuildLogFilter retains, and  *)
(* reads derivations on a thread while the stream goes on (EventTailer and  *)
(* ForestResolver).  ForestViews has what either shows of its forest.       *)
(*                                                                          *)
(* A derivation and an output are numbers, in the order of their names,     *)
(* which are distinct: sorting by name is sorting by number.  Left out are  *)
(* log text, hosts, endpoints, progress figures, times, and the copy-paths  *)
(* activity, which the tracker counts like one more copy.                   *)
(***************************************************************************)
EXTENDS Naturals, Sequences, FiniteSets, SequencesExt

CONSTANTS Drvs,        \* derivations
          Inputs,      \* inputDrvs of each
          Out,         \* the store path each produces
          Unreadable,  \* .drv files that are gone or do not parse
          Traffic,     \* the activities nix may start
          MaxReports,  \* results it emits
          MaxUnread,   \* records the frontend may be behind
          None

Outs == {Out[d] : d \in Drvs}
Paths == Drvs \cup Outs

ASSUME DrvsAssumption ==
  /\ IsFiniteSet(Drvs)
  /\ Drvs \subseteq Nat /\ Outs \subseteq Nat /\ Drvs \cap Outs = {}
ASSUME NoneAssumption == None \notin Drvs
ASSUME InputsAssumption == Inputs \in [Drvs -> SUBSET Drvs] /\ Unreadable \subseteq Drvs

(* An activity is named by what it does: nix uses an id once. *)
Kinds == {"build", "copy", "substitute", "query"}
Activities == [kind : Kinds, drv : Drvs]
ASSUME TrafficAssumption == Traffic \subseteq Activities

VARIABLES
  phase,     \* nix: what became of each derivation
  said,      \* nix: activities queried or reported on once
  announced, \* nix: the list of what will be built was printed
  running,   \* nix: activities started and not stopped
  stream,    \* "open", "ended" (nix closed stderr), "resolved" (engine done)
  forest,    \* the engine's forest
  tracker,   \* BuildTracker of the engine
  filter,    \* BuildLogFilter.activities
  log,       \* retained messages the frontend has not read
  observed,  \* the frontend's forest
  requests, results  \* ForestResolver's channels

nix == <<phase, said, announced, running>>
reader == <<observed, requests, results>>
bfvars == <<phase, said, announced, running, stream, forest, tracker, filter, log,
          observed, requests, results>>

----------------------------------------------------------------------------
(* BuildForest: "absent" is a path without a node. *)
EmptyForest ==
  [status |-> [p \in Paths |-> "absent"], inputs |-> [d \in Drvs |-> {}],
   output_to_drv |-> [o \in Outs |-> None], activities |-> {},
   pending_drvs |-> {}, drv_cache |-> {}]

Entry(f, p) == IF f.status[p] = "absent" THEN [f EXCEPT !.status[p] = "unknown"] ELSE f
Mark(f, p, status) == [f EXCEPT !.status[p] = status]

(* The node an activity is about: a transfer's is known once the derivation
   that makes the path has been read. *)
NodeOf(f, a) == IF a.kind = "build" THEN a.drv ELSE f.output_to_drv[Out[a.drv]]
PathOf(a) == IF a.kind = "build" THEN a.drv ELSE Out[a.drv]

StartStatus == [build |-> "building", copy |-> "downloading", substitute |-> "substituting"]

FeedStart(f, a) ==
  LET marked == IF a.kind \in DOMAIN StartStatus /\ NodeOf(f, a) # None
                  THEN Mark(f, NodeOf(f, a), StartStatus[a.kind]) ELSE f
  IN [marked EXCEPT !.activities = @ \cup {a},
                    !.pending_drvs = IF a.kind = "build" THEN @ \cup {a.drv} ELSE @]

FeedStop(f, a) ==
  LET node == NodeOf(f, a)
      ended == [f EXCEPT !.activities = @ \ {a}]
  IN CASE a \notin f.activities -> f
       [] /\ a \in f.activities /\ a.kind \in DOMAIN StartStatus
          /\ node # None /\ f.status[node] # "failed" -> Mark(ended, node, "built")
       [] OTHER -> ended

(* Log lines, phases and fetch statuses touch the node of the activity's path,
   whether that path is a derivation or not. *)
FeedResult(f, a) == IF a \in f.activities THEN Entry(f, PathOf(a)) ELSE f

FeedMsg(f, level, drvs) ==
  IF level = 0
    THEN [f EXCEPT !.status = [p \in Paths |-> IF p \in drvs THEN "failed" ELSE @[p]]]
    ELSE [f EXCEPT !.status = [p \in Paths |-> IF p \in drvs /\ @[p] \in {"absent", "unknown"}
                                                 THEN "planned" ELSE @[p]],
                   !.pending_drvs = @ \cup drvs]

Start(a) == [action |-> "start", of |-> a, level |-> None, drvs |-> {}]
Stop(a) == [action |-> "stop", of |-> a, level |-> None, drvs |-> {}]
Result(a) == [action |-> "result", of |-> a, level |-> None, drvs |-> {}]
Msg(level, drvs) == [action |-> "msg", of |-> None, level |-> level, drvs |-> drvs]

FeedMessage(f, m) ==
  CASE m.action = "start" -> FeedStart(f, m.of)
    [] m.action = "stop" -> FeedStop(f, m.of)
    [] m.action = "result" -> FeedResult(f, m.of)
    [] m.action = "msg" -> FeedMsg(f, m.level, m.drvs)

(* backfill: edges, outputs, and the inputs as nodes still to be read. *)
ApplyDerivation(f, d) ==
  LET known == [f EXCEPT !.inputs[d] = Inputs[d], !.output_to_drv[Out[d]] = d,
                         !.drv_cache = @ \cup {d},
                         !.pending_drvs = @ \cup (Inputs[d] \ f.drv_cache)]
  IN [known EXCEPT !.status = [p \in Paths |->
        IF p \in Inputs[d] \cup {d} /\ @[p] = "absent" THEN "unknown" ELSE @[p]]]

ApplyDerivationError(f, d) == [Entry(f, d) EXCEPT !.drv_cache = @ \cup {d}]

ApplyRead(f, d) == IF d \in Unreadable THEN ApplyDerivationError(f, d) ELSE ApplyDerivation(f, d)

TakePending(f) == f.pending_drvs \ f.drv_cache
Taken(f) == [f EXCEPT !.pending_drvs = {}]

----------------------------------------------------------------------------
(* BuildTracker::feed: a stop that ends no build counts as a finished fetch
   while one is outstanding, whatever it stopped. *)
NoCounts == [built |-> 0, finished |-> 0, fetched |-> 0, fetched_done |-> 0, errors |-> 0,
             running |-> {}]

(* A faulty variant of Track. *)
TrackUnremembered(t, m) ==
  CASE m.action = "start" /\ m.of.kind = "build" -> [t EXCEPT !.built = @ + 1]
    [] m.action = "start" /\ m.of.kind = "copy" -> [t EXCEPT !.fetched = @ + 1]
    [] m.action = "stop" -> [t EXCEPT !.finished = IF @ < t.built THEN @ + 1 ELSE @]
    [] OTHER -> t

Track(t, m) ==
  CASE m.action = "start" /\ m.of.kind = "build" ->
         [t EXCEPT !.built = @ + 1, !.running = @ \cup {m.of}]
    [] m.action = "start" /\ m.of.kind = "copy" -> [t EXCEPT !.fetched = @ + 1]
    [] m.action = "stop" /\ m.of \in t.running ->
         [t EXCEPT !.finished = @ + 1, !.running = @ \ {m.of}]
    [] m.action = "stop" /\ m.of \notin t.running /\ t.fetched_done < t.fetched ->
         [t EXCEPT !.fetched_done = @ + 1]
    [] m.action = "msg" /\ m.level = 0 -> [t EXCEPT !.errors = @ + 1]
    [] OTHER -> t

(* A faulty variant of Retains. *)
RetainsNoTransferStop(m) ==
  CASE m.action = "start" -> m.of.kind # "query"
    [] m.action = "stop" -> m.of \in filter /\ m.of.kind = "build"
    [] m.action = "result" -> m.of \in filter
    [] m.action = "msg" -> m.level <= 1

(* BuildLogFilter::retain: no path-info queries, of the others the stops and
   results that belong to a retained start, errors and warnings only. *)
Retains(m) ==
  CASE m.action = "start" -> m.of.kind # "query"
    [] m.action = "stop" -> m.of \in filter
    [] m.action = "result" -> m.of \in filter
    [] m.action = "msg" -> m.level <= 1

Filtered(m) ==
  CASE m.action = "start" /\ Retains(m) -> filter \cup {m.of}
    [] m.action = "stop" -> filter \ {m.of}
    [] OTHER -> filter

(* A line of nix: into the engine's forest, its tracker and the log. *)
NixLine(m) ==
  /\ stream = "open" /\ Len(log) < MaxUnread
  /\ forest' = FeedMessage(forest, m)
  /\ tracker' = Track(tracker, m)
  /\ filter' = Filtered(m)
  /\ log' = IF Retains(m) THEN Append(log, m) ELSE log
  /\ UNCHANGED <<stream, observed, requests, results>>

----------------------------------------------------------------------------
Act(kind, d) == [kind |-> kind, drv |-> d]

(* What nix has nothing to do for is in the store already. *)
Before == [d \in Drvs |-> IF \E a \in Traffic : a.drv = d THEN "wanted" ELSE "valid"]

BFInit ==
  /\ phase = Before
  /\ said = {} /\ announced = FALSE /\ running = {}
  /\ stream = "open" /\ forest = EmptyForest /\ tracker = NoCounts /\ filter = {} /\ log = <<>>
  /\ observed = EmptyForest /\ requests = <<>> /\ results = <<>>

(* nix lists what it will build, as information or in a warning, before it begins. *)
Announce ==
  /\ ~announced /\ phase = Before
  /\ \E level \in {1, 3} : NixLine(Msg(level, {a.drv : a \in {b \in Traffic : b.kind = "build"}}))
  /\ announced' = TRUE
  /\ UNCHANGED <<phase, said, running>>

StartActivity(kind, d) ==
  /\ Act(kind, d) \in Traffic /\ running' = running \cup {Act(kind, d)}
  /\ NixLine(Start(Act(kind, d)))
StopActivity(kind, d) ==
  /\ Act(kind, d) \in running
  /\ running' = running \ {Act(kind, d)}
  /\ NixLine(Stop(Act(kind, d)))

(* A phase or a fetch status. *)
Report(kind, d) ==
  /\ Cardinality({a \in said : a.kind # "query"}) < MaxReports
  /\ Act(kind, d) \in running \ said /\ said' = said \cup {Act(kind, d)}
  /\ NixLine(Result(Act(kind, d))) /\ UNCHANGED <<phase, announced, running>>

(* Path infos are queried while nix plans; the answer may be late. *)
Query(d) ==
  /\ phase = Before /\ Act("query", d) \notin said /\ said' = said \cup {Act("query", d)}
  /\ StartActivity("query", d) /\ UNCHANGED <<phase, announced>>
QueryDone(d) == StopActivity("query", d) /\ UNCHANGED <<phase, said, announced>>

(* A substitution ends with the path, or nix falls back to building. *)
Substitute(d) ==
  /\ phase[d] = "wanted" /\ phase' = [phase EXCEPT ![d] = "substituting"]
  /\ StartActivity("substitute", d) /\ UNCHANGED <<said, announced>>
SubstituteDone(d) ==
  /\ StopActivity("substitute", d)
  /\ \E next \in {"valid", "missing"} : phase' = [phase EXCEPT ![d] = next]
  /\ UNCHANGED <<said, announced>>

Build(d) ==
  /\ phase[d] \in {"wanted", "missing"}
  /\ \A i \in Inputs[d] : phase[i] \in {"valid", "copied"}
  /\ phase' = [phase EXCEPT ![d] = "building"]
  /\ StartActivity("build", d) /\ UNCHANGED <<said, announced>>
BuildLog(d) == Report("build", d)
BuildDone(d) ==
  /\ StopActivity("build", d)
  /\ \/ phase[d] = "failing" /\ phase' = [phase EXCEPT ![d] = "failed"]
     \/ /\ phase[d] = "building"
        /\ \E next \in {"valid", "broken"} : phase' = [phase EXCEPT ![d] = next]
  /\ UNCHANGED <<said, announced>>
(* The error names the derivation; it comes before or after the stop. *)
BuildError(d) ==
  /\ \/ phase[d] = "building" /\ phase' = [phase EXCEPT ![d] = "failing"]
     \/ phase[d] = "broken" /\ phase' = [phase EXCEPT ![d] = "failed"]
  /\ NixLine(Msg(0, {d})) /\ UNCHANGED <<said, announced, running>>

(* A valid path is copied to another store. *)
Copy(d) ==
  /\ phase[d] = "valid" /\ phase' = [phase EXCEPT ![d] = "copied"]
  /\ StartActivity("copy", d) /\ UNCHANGED <<said, announced>>
CopyStatus(d) == Report("copy", d)
CopyDone(d) == StopActivity("copy", d) /\ UNCHANGED <<phase, said, announced>>

(* nix exits, by itself or killed with activities running. *)
StreamEnds ==
  /\ stream = "open" /\ stream' = "ended"
  /\ UNCHANGED nix /\ UNCHANGED reader /\ UNCHANGED <<forest, tracker, filter, log>>

----------------------------------------------------------------------------
(* resolve_pending, one derivation at a time. *)
ResolvePending ==
  /\ stream = "ended"
  /\ \/ /\ TakePending(forest) # {}
        /\ \E d \in TakePending(forest) : forest' = ApplyRead(forest, d)
        /\ UNCHANGED stream
     \/ /\ TakePending(forest) = {}
        /\ stream' = "resolved" /\ forest' = Taken(forest)
  /\ UNCHANGED nix /\ UNCHANGED reader /\ UNCHANGED <<tracker, filter, log>>

(* The resolver's thread. *)
ReadDrv ==
  /\ requests # <<>>
  /\ requests' = Tail(requests) /\ results' = Append(results, Head(requests))
  /\ UNCHANGED nix /\ UNCHANGED <<stream, forest, tracker, filter, log, observed>>

(* EventTailer::poll: the reads that came back, the new records, and requests
   for what both made pending. *)
Poll ==
  LET applied == FoldLeft(ApplyRead, observed, results)
      fed == FoldLeft(FeedMessage, Taken(applied), log)
  IN /\ log # <<>> \/ results # <<>>
     /\ observed' = Taken(fed)
     /\ requests' = requests \o SetToSeq(TakePending(applied)) \o SetToSeq(TakePending(fed))
     /\ results' = <<>> /\ log' = <<>>
     /\ UNCHANGED nix /\ UNCHANGED <<stream, forest, tracker, filter>>

NixStep(d) ==
  \/ Query(d) \/ QueryDone(d) \/ Substitute(d) \/ SubstituteDone(d) \/ Build(d) \/ BuildLog(d)
  \/ BuildDone(d) \/ BuildError(d) \/ Copy(d) \/ CopyStatus(d) \/ CopyDone(d)

(* The engine has its snapshot and the frontend nothing left to read. *)
Drained == stream = "resolved" /\ log = <<>> /\ requests = <<>> /\ results = <<>>
Idle == Drained /\ UNCHANGED bfvars

BFNext == Announce \/ (\E d \in Drvs : NixStep(d)) \/ StreamEnds
        \/ ResolvePending \/ ReadDrv \/ Poll \/ Idle

BFSpec == BFInit /\ [][BFNext]_bfvars

----------------------------------------------------------------------------
(* When every activity has stopped, the counts the engine reports as final are
   exact: as many builds ended as began, as many fetches, however many queries
   and substitutions stopped in between. *)
FinalCountsTrue ==
  /\ tracker.finished <= tracker.built /\ tracker.fetched_done <= tracker.fetched
  /\ running = {} => /\ tracker.finished = tracker.built
                     /\ tracker.fetched_done = tracker.fetched
                     /\ tracker.built = Cardinality({d \in Drvs : forest.status[d] \in {"built", "failed"}})

(* The nodes of a snapshot (sort.rs). *)
Nodes(f) == {p \in Paths : f.status[p] # "absent"}

(* What a frontend that has read everything shows of what the engine saw. *)
Failed(f) == {p \in Paths : f.status[p] = "failed"}
InTransfer(f) == {f.output_to_drv[Out[a.drv]] : a \in {b \in f.activities : b.kind # "build"}}
Agreement ==
  /\ Nodes(observed) \subseteq Nodes(forest)
  /\ \A d \in Drvs \cap Nodes(observed) : observed.inputs[d] = forest.inputs[d]
  /\ Failed(observed) = Failed(forest)
  /\ observed.activities = {a \in forest.activities : a.kind # "query"}
  /\ \A d \in Drvs : /\ forest.status[d] \in {"building", "built"}
                        => observed.status[d] = forest.status[d] \/ d \in InTransfer(observed)
                     /\ observed.status[d] \in {"downloading", "substituting"}
                        => d \in InTransfer(observed)

(* The retained log is a replayable subset: a frontend that has read all of it
   shows the graph the engine resolved, the same failures, the same builds, and
   no work that has ended, in whatever order records and derivations reached
   it. *)
ObserverAgrees == Drained => Agreement
=============================================================================
