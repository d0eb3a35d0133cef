------------------------------ MODULE Explorer ------------------------------
(***************************************************************************)
(* The terminal explorers of one checkout (mandala-tui: state.rs, app.rs,  *)
(* context.rs, explorer.rs) and the tool server they read through          *)
(* (mandala-mcp: server.rs, effects.rs, context.rs) while HEAD moves,      *)
(* operators press keys, an agent calls tools and the leader dies.         *)
(*                                                                         *)
(* A contract is known by the commit it was evaluated at, 0 for none.  A   *)
(* background job is the list of steps it has left; the same list stands   *)
(* for the tool call it waits for at the leader.  The generation counter   *)
(* of AppState is the flag stale of the load it would not match.  Left     *)
(* out: rows, hints, the status line, the pending strip and dirty trees.   *)
(* Events are not lost, and every explorer is subscribed from the start.   *)
(***************************************************************************)
EXTENDS Naturals, Sequences

CONSTANTS
  Tuis,       \* explorers
  Agent,      \* an MCP client, which may lead the context itself
  Watch,      \* the leader's HEAD watcher, as a caller of tools
  Leaders,    \* who may lead at first
  Solos,      \* explorers that may have found no context to join
  MaxHead,    \* bound: commits
  MaxInputs,  \* bound: r and S pressed by operators and tool calls of the agent
  MaxFaults   \* bound: failed evaluations, lost contexts and dead leaders

ASSUME ExplorerAssumption ==
  /\ Agent \notin Tuis /\ Watch \notin Tuis \cup {Agent}
  /\ "leader" \notin Tuis \cup {Agent, Watch}
  /\ Leaders \subseteq Tuis \cup {Agent} /\ Leaders # {}
  /\ Solos \subseteq Tuis
  /\ {MaxHead, MaxInputs, MaxFaults} \subseteq Nat /\ MaxHead > 0

Revs    == 0..MaxHead
Clients == Tuis \cup {Agent, Watch}

VARIABLES
  head,      \* the checkout's HEAD
  leader,    \* the process that hosts the context
  srv,       \* its ServerState: the served inventory and the commit of the warm worker
  cache,     \* .expected.json: the rev it is keyed by and the contract it holds
  seen,      \* the last HEAD each spawn_repo_head_watch saw
  ui,        \* AppState of each explorer
  role,      \* AppState.context_role
  task,      \* the job of each explorer, the call of the agent, the watcher's reload
  inbox,     \* activity and role changes not yet handled by each explorer's loop
  alive,     \* processes still running
  landed,    \* history: the newest contract a handled reload settle announced
  disturbed, \* history: a served contract was overwritten unannounced, or a leader died
  mislabelled, \* history: an expected set was kept under a rev it was not evaluated at
  spent      \* inputs and faults used

vars == <<head, leader, srv, cache, seen, ui, role, task, inbox, alive, landed, disturbed,
          mislabelled, spent>>
world == <<head, leader, seen, alive>>
history == <<landed, disturbed, mislabelled>>

-----------------------------------------------------------------------------
(* Jobs. *)

(* lazy: a contract evaluated but not yet written to the served inventory; *)
(* got: what the reads returned; label, of: the rev and the contract of an *)
(* expected set; key: the rev the cache file was keyed by.                 *)
None == [kind |-> "none", todo |-> <<>>, lazy |-> 0, got |-> <<>>, label |-> 0, of |-> 0,
         key |-> 0, stale |-> FALSE, ok |-> TRUE]

Job(kind, todo) == [None EXCEPT !.kind = kind, !.todo = todo]

Reads == {"members", "groups", "nodes"}
All(r) == <<r, r, r>>    \* what the three reads return of one contract

(* load_over_context: reload first when the contract must be fresh, then   *)
(* three reads, then the local look at the rev and the cache.              *)
LoadOverContext(fresh) ==
  Job("load", (IF fresh THEN <<"reload">> ELSE <<>>) \o <<"members", "groups", "nodes", "inspect">>)

(* eval_expected_over_context: drift with do_eval, as the leader runs it. *)
EvalOverContext == Job("eval", <<"nodes", "rev", "eval">>)

(* load_and_inspect, with the explorer's own cold evaluator. *)
LoadLocally == Job("load", <<"aggregate", "inspect">>)

(* spawn_eval_expected: the rev is read after the evaluation. *)
EvalLocally == Job("eval", <<"toplevels", "label">>)

(* App::start_load and start_eval_expected. *)
StartLoad(t, fresh) == IF role[t] = "none" THEN LoadLocally ELSE LoadOverContext(fresh)
StartEval(t) == IF role[t] = "none" THEN EvalLocally ELSE EvalOverContext

Popped(j) == [j EXCEPT !.todo = Tail(@), !.lazy = 0]
Failed(j) == [j EXCEPT !.todo = <<>>, !.lazy = 0, !.ok = FALSE]

(* The agent and the watcher have nothing to do with an answer. *)
Settled(c, j) == IF c \notin Tuis /\ j.todo = <<>> THEN None ELSE j
Becomes(c, j) == task' = [task EXCEPT ![c] = Settled(c, j)]
At(c, steps) == alive[c] /\ task[c].todo # <<>> /\ Head(task[c].todo) \in steps
Done(t, kind) == alive[t] /\ task[t].kind = kind /\ task[t].todo = <<>>

(* Origin of a call: the hello name of a wire call, none for the leader's. *)
Origin(c) == IF c = leader THEN "leader" ELSE c

(* MandalaHandler::emit: every subscribed explorer gets the ok settle. *)
Emit(box, tool, c, rev) ==
  [t \in Tuis |-> IF alive[t] /\ role[t] # "none"
                  THEN Append(box[t], [tool |-> tool, origin |-> Origin(c), rev |-> rev])
                  ELSE box[t]]

-----------------------------------------------------------------------------
(* AppState, as functions of an explorer's state s = <<ui, task>>. *)

Fresh0 == [inv |-> <<>>, expected |-> 0, rev |-> 0, cached |-> 0, busy |-> FALSE,
           evalRunning |-> FALSE, evalPending |-> FALSE, reloadPending |-> FALSE,
           freshWanted |-> FALSE, surveying |-> FALSE]

(* request_load *)
RequestLoad(t, s) ==
  IF s[1].busy THEN <<[s[1] EXCEPT !.reloadPending = TRUE], s[2]>>
  ELSE <<[s[1] EXCEPT !.busy = TRUE, !.freshWanted = FALSE], StartLoad(t, s[1].freshWanted)>>

(* request_rebind: the generation moves, so a load in flight goes stale. *)
RequestRebind(t, s, fresh) ==
  RequestLoad(t, <<[s[1] EXCEPT !.inv = <<>>, !.expected = 0, !.freshWanted = @ \/ fresh],
                   [s[2] EXCEPT !.stale = s[2].kind = "load"]>>)

RequestReload(t, s) == RequestRebind(t, s, TRUE)

(* Mutant: an observer that adopts a swap asks for a fresh contract again. *)
RequestSwapFresh(t, s) == RequestRebind(t, s, TRUE)

RequestInventorySwap(t, s) == RequestRebind(t, s, FALSE)

(* consume_pending_reload; busy was cleared by the caller. *)
ConsumePendingReload(t, s) ==
  IF s[1].reloadPending
  THEN RequestLoad(t, <<[s[1] EXCEPT !.reloadPending = FALSE], s[2]>>)
  ELSE s

(* request_eval_expected *)
RequestEvalExpected(t, s) ==
  IF s[1].busy
  THEN <<[s[1] EXCEPT !.evalPending = @ \/ ~s[1].evalRunning], s[2]>>
  ELSE <<[s[1] EXCEPT !.busy = TRUE, !.evalRunning = TRUE], StartEval(t)>>

(* start_pending_eval_expected *)
StartPendingEval(t, s) ==
  IF s[1].busy \/ ~s[1].evalPending THEN s
  ELSE <<[s[1] EXCEPT !.evalPending = FALSE, !.busy = TRUE, !.evalRunning = TRUE], StartEval(t)>>

(* request_survey: one survey at a time. *)
RequestSurvey(s) == <<[s[1] EXCEPT !.surveying = TRUE], s[2]>>

(* refresh_drift *)
RefreshDrift(t, s) == RequestSurvey(RequestEvalExpected(t, s))

(* cache_fresh, over clean revs. *)
CacheFresh(cached, rev) == cached # 0 /\ cached = rev

(* repo_rev of a clean tree. *)
RepoRev == head

(* save_expected *)
SaveExpected(rev, of) == cache' = [label |-> rev, of |-> of]

(* fill: paint what the load brought, and reuse a fresh cache. *)
Fill(u, j) ==
  [u EXCEPT !.inv = j.got, !.rev = j.label, !.cached = j.key, !.busy = FALSE,
            !.expected = IF CacheFresh(j.key, j.label) THEN j.of ELSE @]

Get(t) == <<ui[t], task[t]>>
Put(t, s) ==
  /\ ui' = [ui EXCEPT ![t] = s[1]]
  /\ task' = [task EXCEPT ![t] = s[2]]

-----------------------------------------------------------------------------
(* join_context: a context, to lead or to observe, or none. *)
JoinContext(t, solo) == IF t = leader THEN "leader" ELSE IF t \in solo THEN "none" ELSE "observer"

(* The leader has served its own first load; the others are starting       *)
(* (App::new, start_initial_load).  Every watcher starts from the HEAD of  *)
(* its own start.  An earlier session left the cache of this commit.       *)
Init ==
  /\ head = 1
  /\ leader \in Leaders
  /\ \E solo \in SUBSET (Solos \ {leader}) :
       role = [t \in Tuis |-> JoinContext(t, solo)]
  /\ srv = [inv |-> 1, worker |-> 1]
  /\ cache = [label |-> 1, of |-> 1]
  /\ seen = [w \in Tuis \cup {Watch} |-> 1]
  /\ ui = [t \in Tuis |-> IF t = leader 
                          THEN [Fresh0 EXCEPT !.inv = All(1), !.rev = 1, !.cached = 1, !.expected = 1]
                          ELSE [Fresh0 EXCEPT !.busy = TRUE]]
  /\ task = [c \in Clients |-> IF c \in Tuis \ {leader} THEN StartLoad(c, FALSE) ELSE None]
  /\ inbox = [t \in Tuis |-> <<>>]
  /\ alive = [c \in Clients |-> TRUE]
  /\ landed = [t \in Tuis |-> 0]
  /\ disturbed = FALSE
  /\ mislabelled = FALSE
  /\ spent = [inputs |-> 0, faults |-> 0]

Input == spent.inputs < MaxInputs /\ spent' = [spent EXCEPT !.inputs = @ + 1]
Fault == spent.faults < MaxFaults /\ spent' = [spent EXCEPT !.faults = @ + 1]

(* A commit lands in the checkout. *)
MoveHead ==
  /\ head < MaxHead
  /\ head' = head + 1
  /\ UNCHANGED <<leader, srv, cache, seen, ui, role, task, inbox, alive, history, spent>>

(* The keys r (dispatch: request_reload) and S (refresh_drift). *)
Press(t) ==
  /\ alive[t] /\ Input
  /\ Put(t, RequestReload(t, Get(t))) \/ Put(t, RefreshDrift(t, Get(t)))
  /\ UNCHANGED <<world, srv, cache, role, inbox, history>>

(* ContextHandler: a read, a drift evaluation or a reload by the agent. *)
AgentCalls ==
  /\ alive[Agent] /\ task[Agent] = None /\ Input
  /\ \E todo \in {<<"members">>, <<"nodes", "rev", "eval">>, <<"reload">>} :
       Becomes(Agent, Job("call", todo))
  /\ UNCHANGED <<world, srv, cache, ui, role, inbox, history>>

(* spawn_handler_head_watch: a moved HEAD is one reload call of the leader's own. *)
LeaderSeesHead ==
  /\ task[Watch] = None /\ seen[Watch] # head
  /\ seen' = [seen EXCEPT ![Watch] = head]
  /\ Becomes(Watch, Job("call", <<"reload">>))
  /\ UNCHANGED <<head, leader, alive, srv, cache, ui, role, inbox, history, spent>>

(* start_fallback_head_watch and AppEvent::RepoHeadChanged. *)
SoloSeesHead(t) ==
  /\ alive[t] /\ role[t] = "none" /\ seen[t] # head
  /\ seen' = [seen EXCEPT ![t] = head]
  /\ Put(t, RequestReload(t, Get(t)))
  /\ UNCHANGED <<head, leader, alive, srv, cache, role, inbox, history, spent>>

-----------------------------------------------------------------------------
(* The tool server. *)

NeedsEval(c) ==
  /\ task[c].lazy = 0
  /\ At(c, {"reload"}) \/ (At(c, Reads) /\ srv.inv = 0)

(* RealEffects::fresh_inventory: re-root the worker and evaluate, under    *)
(* the evaluator lock; the write to the served inventory comes later.      *)
FreshInventory(c) ==
  /\ NeedsEval(c)
  /\ srv' = [srv EXCEPT !.worker = head]
  /\ Becomes(c, [task[c] EXCEPT !.lazy = head])
  /\ UNCHANGED <<world, cache, ui, role, inbox, history, spent>>

(* The evaluation fails, maybe with its worker: the call settles as an error, *)
(* which no one follows up.                                                  *)
FreshInventoryFails(c) ==
  /\ NeedsEval(c) /\ Fault
  /\ \E w \in {0, srv.worker, head} : srv' = [srv EXCEPT !.worker = w]
  /\ Becomes(c, Failed(task[c]))
  /\ UNCHANGED <<world, cache, ui, role, inbox, history>>

(* tool_reload, with the ok settle of call_tool_from. *)
ToolReload(c) ==
  /\ At(c, {"reload"}) /\ task[c].lazy # 0
  /\ srv' = [srv EXCEPT !.inv = task[c].lazy]
  /\ disturbed' = (disturbed \/ task[c].lazy < srv.inv)
  /\ inbox' = Emit(inbox, "reload", c, task[c].lazy)
  /\ Becomes(c, Popped(task[c]))
  /\ UNCHANGED <<world, cache, ui, role, landed, mislabelled, spent>>

(* inventory(), the lazy first read, for members, groups and drift.  The   *)
(* lock is taken for the write only: what was served meanwhile is lost.    *)
LazyInventory(c) ==
  /\ At(c, Reads) /\ task[c].lazy # 0
  /\ srv' = [srv EXCEPT !.inv = task[c].lazy]
  /\ disturbed' = (disturbed \/ srv.inv \notin {0, task[c].lazy})
  /\ Becomes(c, [Popped(task[c]) EXCEPT !.got = Append(@, task[c].lazy)])
  /\ UNCHANGED <<world, cache, ui, role, inbox, landed, mislabelled, spent>>

(* inventory(), already evaluated. *)
ToolRead(c) ==
  /\ At(c, Reads) /\ task[c].lazy = 0 /\ srv.inv # 0
  /\ Becomes(c, [Popped(task[c]) EXCEPT !.got = Append(@, srv.inv)])
  /\ UNCHANGED <<world, srv, cache, ui, role, inbox, history, spent>>

(* tool_drift reads the rev before it evaluates. *)
ToolDriftRev(c) ==
  /\ At(c, {"rev"})
  /\ Becomes(c, [Popped(task[c]) EXCEPT !.label = RepoRev])
  /\ UNCHANGED <<world, srv, cache, ui, role, inbox, history, spent>>

(* RealEffects::eval_expected: a warm worker stays at the contract it was   *)
(* re-rooted to; one spawned for the call, as none was left or it crashed   *)
(* (worker_call), takes the checkout as it is.                              *)
WarmContracts == {head} \cup ({srv.worker} \ {0})

(* tool_drift evaluates on the worker; a complete set is saved under the rev read *)
(* before.  A failed or partial evaluation settles ok all the same, and one that  *)
(* timed out leaves no worker.                                                    *)
ToolDriftEval(c) ==
  /\ At(c, {"eval"})
  /\ inbox' = Emit(inbox, "drift", c, 0)
  /\ \/ \E of \in WarmContracts :
          /\ srv' = [srv EXCEPT !.worker = of]
          /\ Becomes(c, [Popped(task[c]) EXCEPT !.of = of])
          /\ mislabelled' = (mislabelled \/ task[c].label # of)
          /\ \/ SaveExpected(task[c].label, of) /\ UNCHANGED spent
             \/ UNCHANGED cache /\ Fault                  \* some hosts failed
     \/ /\ \E w \in WarmContracts \cup {0} : srv' = [srv EXCEPT !.worker = w]
        /\ Becomes(c, Failed(task[c]))                     \* eval_error
        /\ Fault /\ UNCHANGED <<cache, mislabelled>>
  /\ UNCHANGED <<world, ui, role, landed, disturbed>>

-----------------------------------------------------------------------------
(* Local evaluation, without a context or after it is gone. *)

(* load_and_inspect: the aggregate. *)
Aggregate(t) ==
  /\ At(t, {"aggregate"})
  /\ \/ Becomes(t, [Popped(task[t]) EXCEPT !.got = All(head)]) /\ UNCHANGED spent
     \/ Becomes(t, Failed(task[t])) /\ Fault
  /\ UNCHANGED <<world, srv, cache, ui, role, inbox, history>>

(* repo_rev and load_expected, read by the explorer itself in both shapes. *)
Inspect(t) ==
  /\ At(t, {"inspect"})
  /\ Becomes(t, [Popped(task[t]) EXCEPT !.label = RepoRev, !.key = cache.label, !.of = cache.of])
  /\ UNCHANGED <<world, srv, cache, ui, role, inbox, history, spent>>

(* spawn_eval_expected: the evaluation. *)
Toplevels(t) ==
  /\ At(t, {"toplevels"})
  /\ \/ Becomes(t, [Popped(task[t]) EXCEPT !.of = head]) /\ UNCHANGED spent
     \/ Becomes(t, Failed(task[t])) /\ Fault
  /\ UNCHANGED <<world, srv, cache, ui, role, inbox, history>>

(* spawn_eval_expected: the rev, under which a complete set is saved. *)
Label(t) ==
  /\ At(t, {"label"})
  /\ Becomes(t, [Popped(task[t]) EXCEPT !.label = RepoRev])
  /\ \/ SaveExpected(RepoRev, task[t].of) /\ UNCHANGED spent
     \/ Fault /\ UNCHANGED cache                             \* some hosts failed
  /\ mislabelled' = (mislabelled \/ RepoRev # task[t].of)
  /\ UNCHANGED <<world, srv, ui, role, inbox, landed, disturbed>>

(* ReadFailure::Gone: the job starts over on the local evaluator. *)
ContextGone(t) ==
  /\ At(t, {"reload", "rev", "eval"} \cup Reads) /\ Fault
  /\ Becomes(t, [IF task[t].kind = "load" THEN LoadLocally ELSE EvalLocally
                  EXCEPT !.stale = task[t].stale])
  /\ disturbed' = TRUE
  /\ UNCHANGED <<world, srv, cache, ui, role, inbox, landed, mislabelled>>

-----------------------------------------------------------------------------
(* The event loop of an explorer. *)

(* Mutant: a load of an older generation paints. *)
LoadFinishedAnyGeneration(t) ==
  LET j == task[t]
      u == IF j.ok THEN Fill(ui[t], j) ELSE [ui[t] EXCEPT !.busy = FALSE]
  IN /\ Done(t, "load")
     /\ Put(t, StartPendingEval(t, ConsumePendingReload(t, <<u, None>>)))
     /\ UNCHANGED <<world, srv, cache, role, inbox, history, spent>>

(* on_load_finished, then the queued reload, else the queued evaluation    *)
(* (on_app_event).                                                         *)
LoadFinished(t) ==
  LET j == task[t]
      u == IF j.stale \/ ~j.ok THEN [ui[t] EXCEPT !.busy = FALSE] ELSE Fill(ui[t], j)
  IN /\ Done(t, "load")
     /\ Put(t, StartPendingEval(t, ConsumePendingReload(t, <<u, None>>)))
     /\ UNCHANGED <<world, srv, cache, role, inbox, history, spent>>

(* Mutant: a reload queued behind an expected evaluation is not run. *)
DriftEvalFinishedAlone(t) ==
  LET j == task[t]
      u == [ui[t] EXCEPT !.busy = FALSE, !.evalRunning = FALSE]
  IN /\ Done(t, "eval")
     /\ Put(t, <<IF j.ok THEN [u EXCEPT !.rev = j.label, !.cached = j.label, !.expected = j.of]
                  ELSE [u EXCEPT !.expected = 0], None>>)
     /\ UNCHANGED <<world, srv, cache, role, inbox, history, spent>>

(* on_drift_eval_finished: no generation is compared. *)
DriftEvalFinished(t) ==
  LET j == task[t]
      u == [ui[t] EXCEPT !.busy = FALSE, !.evalRunning = FALSE]
      v == IF j.ok THEN [u EXCEPT !.rev = j.label, !.cached = j.label, !.expected = j.of]
           ELSE [u EXCEPT !.expected = 0]
  IN /\ Done(t, "eval")
     /\ Put(t, ConsumePendingReload(t, <<v, None>>))
     /\ UNCHANGED <<world, srv, cache, role, inbox, history, spent>>

(* on_survey_done *)
SurveyDone(t) ==
  /\ alive[t] /\ ui[t].surveying
  /\ ui' = [ui EXCEPT ![t].surveying = FALSE]
  /\ UNCHANGED <<world, srv, cache, role, task, inbox, history, spent>>

(* is_own_call *)
IsOwnCall(t, origin) ==
  \/ role[t] = "leader" /\ origin = "leader"
  \/ role[t] = "observer" /\ origin = t

(* Mutant: the cache is looked at but not adopted. *)
DriftLandedUnadopted(u) == [u EXCEPT !.rev = head, !.cached = cache.label]

(* on_mcp_drift_landed *)
DriftLanded(u) ==
  [u EXCEPT !.rev = RepoRev, !.cached = cache.label,
            !.expected = IF CacheFresh(cache.label, RepoRev) THEN cache.of ELSE @]

(* on_mcp_activity and apply_mcp_follow_up, McpRoleChanged. *)
Handle(t) ==
  LET e == Head(inbox[t]) IN
  /\ alive[t] /\ inbox[t] # <<>>
  /\ inbox' = [inbox EXCEPT ![t] = Tail(@)]
  /\ \/ /\ e.tool = "role"
        /\ role' = [role EXCEPT ![t] = "leader"]
        /\ UNCHANGED <<ui, task, landed>>
     \/ /\ e.tool # "role" /\ IsOwnCall(t, e.origin)
        /\ UNCHANGED <<ui, task, role, landed>>
     \/ /\ e.tool = "drift" /\ ~IsOwnCall(t, e.origin)
        /\ Put(t, <<DriftLanded(ui[t]), task[t]>>)
        /\ UNCHANGED <<role, landed>>
     \/ /\ e.tool = "reload" /\ ~IsOwnCall(t, e.origin)
        /\ Put(t, RequestInventorySwap(t, Get(t)))
        /\ landed' = [landed EXCEPT ![t] = IF e.rev > @ THEN e.rev ELSE @]
        /\ UNCHANGED role
  /\ UNCHANGED <<world, srv, cache, disturbed, mislabelled, spent>>

(* spawn_role_watch: the promotion is polled for. *)
RolePoll(t) ==
  /\ alive[t] /\ leader = t /\ role[t] = "observer"
  /\ \A i \in DOMAIN inbox[t] : inbox[t][i].tool # "role"
  /\ inbox' = [inbox EXCEPT ![t] = Append(@, [tool |-> "role", origin |-> t, rev |-> 0])]
  /\ UNCHANGED <<world, srv, cache, ui, role, task, history, spent>>

(* What a call in flight becomes when its leader dies: reads are retried,  *)
(* a reload is adopted as done by load_over_context.                       *)
FailedOver(c) ==
  LET j == [task[c] EXCEPT !.lazy = 0] IN
  IF At(c, {"reload"}) THEN Settled(c, Popped(j))
  ELSE IF At(c, {"rev", "eval"}) \/ (At(c, Reads) /\ task[c].kind = "eval")
       THEN [j EXCEPT !.todo = <<"nodes", "rev", "eval">>, !.got = <<>>]
  ELSE j

(* The leader dies; a joined explorer or the agent is promoted, cold, with *)
(* a watcher of its own.                                                   *)
LeaderDies ==
  /\ Fault
  /\ \E n \in (Tuis \cup {Agent}) \ {leader} :
       /\ alive[n] /\ (n \in Tuis => role[n] # "none")
       /\ leader' = n
       /\ alive' = [alive EXCEPT ![leader] = FALSE]
       /\ task' = [c \in Clients |-> IF c \in {leader, Watch} THEN None ELSE FailedOver(c)]
  /\ ui' = [t \in Tuis |-> IF t = leader THEN Fresh0 ELSE ui[t]]
  /\ inbox' = [t \in Tuis |-> IF t = leader THEN <<>> ELSE inbox[t]]
  /\ srv' = [inv |-> 0, worker |-> 0]
  /\ seen' = [seen EXCEPT ![Watch] = head]
  /\ disturbed' = TRUE
  /\ UNCHANGED <<head, cache, role, landed, mislabelled>>

Progress ==
  \/ LeaderSeesHead
  \/ \E c \in Clients :
       \/ FreshInventory(c) \/ ToolReload(c) \/ LazyInventory(c) \/ ToolRead(c)
       \/ ToolDriftRev(c) \/ ToolDriftEval(c)
  \/ \E t \in Tuis :
       \/ SoloSeesHead(t) \/ Aggregate(t) \/ Inspect(t) \/ Toplevels(t) \/ Label(t)
       \/ LoadFinished(t) \/ DriftEvalFinished(t) \/ SurveyDone(t)
       \/ Handle(t) \/ RolePoll(t)

Environment ==
  \/ MoveHead \/ AgentCalls \/ LeaderDies
  \/ \E t \in Tuis : Press(t) \/ ContextGone(t)
  \/ \E c \in Clients : FreshInventoryFails(c)

Next == Progress \/ Environment

Spec == Init /\ [][Next]_vars

(* Jobs, calls and the loop keep running; nothing forces the environment. *)
FairSpec == Spec /\ WF_vars(Progress)

-----------------------------------------------------------------------------
Joined(t) == alive[t] /\ role[t] # "none"

Quiet ==
  /\ \A c \in Clients : task[c] = None
  /\ \A t \in Tuis : inbox[t] = <<>> /\ ~ui[t].surveying /\ (Joined(t) \/ ~alive[t] \/ seen[t] = head)
  /\ seen[Watch] = head

(* A busy flag is one job, and an explorer at rest owes nothing: no reload *)
(* or evaluation that was queued behind a job (request_load,               *)
(* request_eval_expected) is left behind when it ends.                     *)
NothingForgotten ==
  \A t \in Tuis : alive[t] =>
    /\ ui[t].busy <=> task[t].kind # "none"
    /\ ui[t].evalRunning <=> task[t].kind = "eval"
    /\ ~ui[t].busy => ~(ui[t].reloadPending \/ ui[t].evalPending \/ ui[t].freshWanted)

(* No explorer shows a contract older than one it has been told was loaded *)
(* (the generation check), and once everything is quiet every joined one   *)
(* shows exactly the served contract, members, groups and nodes alike, and *)
(* that of HEAD when nothing failed: unless a lazy first read overwrote a  *)
(* reload, a leader died or a context was lost on the way.                 *)
ViewsAgree ==
  ~disturbed =>
    \A t \in Tuis : ui[t].inv # <<>> =>
      /\ \A i \in 1..3 : ui[t].inv[i] >= landed[t]
      /\ Quiet /\ Joined(t) => ui[t].inv = All(srv.inv)
      /\ Quiet /\ spent.faults = 0 => ui[t].inv = All(head)

(* An expected set shown as current (the cache key matches the rev) is the *)
(* one of that rev, whichever of the load, the evaluation and another      *)
(* client's evaluation brought it, unless an evaluation was filed under a  *)
(* rev it did not run at.                                                  *)
CurrentExpectedUnlessMislabelled ==
  ~mislabelled =>
    \A t \in Tuis : CacheFresh(ui[t].cached, ui[t].rev) /\ ui[t].expected # 0 =>
      ui[t].expected = ui[t].rev

(* Reloads die out: the explorers adopt each other's swaps without         *)
(* answering them with reloads of their own, so after the last key, commit *)
(* and call every job ends and every event is handled.                     *)
Quiesces == <>[]Quiet

=============================================================================
