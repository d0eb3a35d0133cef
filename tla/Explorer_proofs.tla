-------------------------- MODULE Explorer_proofs ---------------------------
(***************************************************************************)
(* Proofs about Explorer for any number of explorers, commits, inputs and  *)
(* faults: nothing queued is forgotten, an expected set shown as current   *)
(* is the one of its commit, and what is shown is what is served.          *)
(***************************************************************************)
EXTENDS Explorer, SequenceTheorems, TLAPS

(* AppState, jobs and announcements as records. *)
Steps  == {"reload", "members", "groups", "nodes", "inspect", "aggregate", "toplevels",
           "label", "rev", "eval"}
UIs    == [inv : Seq(Revs), expected : Revs, rev : Revs, cached : Revs, busy : BOOLEAN,
           evalRunning : BOOLEAN, evalPending : BOOLEAN, reloadPending : BOOLEAN,
           freshWanted : BOOLEAN, surveying : BOOLEAN]
Jobs   == [kind : {"none", "load", "eval", "call"}, todo : Seq(Steps), lazy : Revs,
           got : Seq(Revs), label : Revs, of : Revs, key : Revs, stale : BOOLEAN, ok : BOOLEAN]
Events == [tool : {"reload", "drift", "role"}, origin : Clients \cup {"leader"}, rev : Revs]

(* The types of the state. *)
TypeOK ==
  /\ head \in Revs
  /\ leader \in Tuis \cup {Agent}
  /\ srv \in [inv : Revs, worker : Revs]
  /\ cache \in [label : Revs, of : Revs]
  /\ seen \in [Tuis \cup {Watch} -> Revs]
  /\ ui \in [Tuis -> UIs]
  /\ role \in [Tuis -> {"leader", "observer", "none"}]
  /\ task \in [Clients -> Jobs]
  /\ inbox \in [Tuis -> Seq(Events)]
  /\ alive \in [Clients -> BOOLEAN]
  /\ landed \in [Tuis -> Revs]
  /\ disturbed \in BOOLEAN
  /\ mislabelled \in BOOLEAN
  /\ spent \in [inputs : Nat, faults : Nat]

(* What a load (L, A) and an evaluation (E, T) may have left to do, over   *)
(* the context (L, E) or locally (A, T).                                   *)
L5 == <<"reload", "members", "groups", "nodes", "inspect">>
L4 == <<"members", "groups", "nodes", "inspect">>
L3 == <<"groups", "nodes", "inspect">>
L2 == <<"nodes", "inspect">>
L1 == <<"inspect">>
A2 == <<"aggregate", "inspect">>
E3 == <<"nodes", "rev", "eval">>
E2 == <<"rev", "eval">>
E1 == <<"eval">>
T2 == <<"toplevels", "label">>
T1 == <<"label">>

(* A load has read as many parts of the contract as it has left behind. *)
LoadShape(j) ==
  \/ j.todo \in {L5, L4, A2} /\ j.got = <<>>
  \/ j.todo = L3 /\ Len(j.got) = 1
  \/ j.todo = L2 /\ Len(j.got) = 2
  \/ j.todo \in {L1, <<>>} /\ Len(j.got) = 3
  \/ j.todo = <<>> /\ ~j.ok

Shape(j) ==
  \/ j.kind = "none" /\ j.todo = <<>>
  \/ j.kind = "load" /\ LoadShape(j)
  \/ j.kind = "eval" /\ j.todo \in {E3, E2, E1, T2, T1, <<>>}

(* The flags of AppState against its job.  A fresh contract is wanted only *)
(* by a queued reload, and no evaluation is queued behind an evaluation.   *)
Owes(u, j) ==
  /\ u.busy <=> j.kind # "none"
  /\ u.evalRunning <=> j.kind = "eval"
  /\ u.reloadPending \/ u.evalPending => u.busy
  /\ u.freshWanted => u.reloadPending
  /\ u.evalRunning => ~u.evalPending

JobInv == \A t \in Tuis : Shape(task[t]) /\ Owes(ui[t], task[t])

(* Nothing on its way to the screen is filed under another rev. *)
HonestJob(j) ==
  /\ j.kind = "load" => j.key = j.of
  /\ j.kind = "eval" /\ j.todo = <<>> /\ j.ok => j.label = j.of
HonestUI(u) == CacheFresh(u.cached, u.rev) /\ u.expected # 0 => u.expected = u.rev

LabelInv ==
  ~mislabelled =>
    /\ cache.label = cache.of
    /\ \A t \in Tuis : HonestJob(task[t]) /\ HonestUI(ui[t])

(* While nothing is disturbed the first leader leads, a contract is served *)
(* and only reloads evaluate one.                                          *)
CalmInv ==
  ~disturbed =>
    /\ \A c \in Clients : alive[c] /\ (task[c].lazy # 0 => task[c].todo # <<>> /\ Head(task[c].todo) = "reload")
    /\ \A t \in Tuis : role[t] = "leader" <=> t = leader
    /\ srv.inv # 0

(* An announced reload of somebody else is waiting to be handled. *)
Swap(t, e) == e.tool = "reload" /\ ~IsOwnCall(t, e.origin)
Pending(t) == \E i \in 1..Len(inbox[t]) : Swap(t, inbox[t][i])

(* What explorers were told is not newer than what is served. *)
ToldInv ==
  ~disturbed =>
    \A t \in Tuis :
      /\ landed[t] <= srv.inv
      /\ \A i \in 1..Len(inbox[t]) : inbox[t][i].rev <= srv.inv /\ inbox[t][i].tool # "role"
      /\ role[t] = "none" => landed[t] = 0 /\ inbox[t] = <<>> /\ seen[t] <= head

(* A contract read is the one served, or a newer one has been announced;   *)
(* one evaluated without a context is not older than the HEAD watched.     *)
Good(t, x) ==
  /\ x <= head
  /\ landed[t] <= x
  /\ IF role[t] = "none" THEN seen[t] <= x ELSE x = srv.inv \/ Pending(t)

(* A wanted reload has cleared the view, and the load it overtook is stale. *)
Cleared(u, j) ==
  /\ u.freshWanted => u.inv = <<>> /\ (j.kind = "load" => j.stale)
  /\ j.todo = L5 => u.inv = <<>>

(* The route of a load is that of the role. *)
Route(t, j) ==
  j.kind = "load" => (role[t] = "none" => j.todo \in {A2, L1, <<>>}) /\ (j.todo = A2 => role[t] = "none")

ViewOf(t, u, j) ==
  /\ u.inv # <<>> => Len(u.inv) = 3
  /\ \A i \in 1..Len(u.inv) : Good(t, u.inv[i])
  /\ j.kind = "load" /\ ~j.stale => \A i \in 1..Len(j.got) : Good(t, j.got[i])
  /\ Cleared(u, j)
  /\ Route(t, j)

ViewInv == ~disturbed => \A t \in Tuis : ViewOf(t, ui[t], task[t])

(* What is served follows HEAD: the watcher's reload is the only thing     *)
(* between the HEAD it saw and the contract served.                        *)
HeadInv ==
  ~disturbed =>
    /\ srv.inv <= head /\ seen[Watch] <= head
    /\ \A c \in Clients : task[c].lazy <= head
    /\ spent.faults = 0 =>
         \/ task[Watch] = None /\ seen[Watch] <= srv.inv
         \/ /\ task[Watch].todo = <<"reload">>
            /\ task[Watch].lazy = 0 \/ seen[Watch] <= task[Watch].lazy

(* The inductive invariant. *)
XInv == TypeOK /\ JobInv /\ LabelInv /\ CalmInv /\ ToldInv /\ ViewInv /\ HeadInv

-----------------------------------------------------------------------------
(* The lists of steps. *)

(* What each list starts with and what it leaves. *)
LEMMA Todos ==
  /\ L5 \in Seq(Steps) /\ Head(L5) = "reload" /\ Tail(L5) = L4 /\ L5 # <<>>
  /\ L4 \in Seq(Steps) /\ Head(L4) = "members" /\ Tail(L4) = L3 /\ L4 # <<>>
  /\ L3 \in Seq(Steps) /\ Head(L3) = "groups" /\ Tail(L3) = L2 /\ L3 # <<>>
  /\ L2 \in Seq(Steps) /\ Head(L2) = "nodes" /\ Tail(L2) = L1 /\ L2 # <<>>
  /\ L1 \in Seq(Steps) /\ Head(L1) = "inspect" /\ Tail(L1) = <<>> /\ L1 # <<>>
  /\ A2 \in Seq(Steps) /\ Head(A2) = "aggregate" /\ Tail(A2) = L1 /\ A2 # <<>>
  /\ E3 \in Seq(Steps) /\ Head(E3) = "nodes" /\ Tail(E3) = E2 /\ E3 # <<>>
  /\ E2 \in Seq(Steps) /\ Head(E2) = "rev" /\ Tail(E2) = E1 /\ E2 # <<>>
  /\ E1 \in Seq(Steps) /\ Head(E1) = "eval" /\ Tail(E1) = <<>> /\ E1 # <<>>
  /\ T2 \in Seq(Steps) /\ Head(T2) = "toplevels" /\ Tail(T2) = T1 /\ T2 # <<>>
  /\ T1 \in Seq(Steps) /\ Head(T1) = "label" /\ Tail(T1) = <<>> /\ T1 # <<>>
  /\ <<>> \in Seq(Steps)
<1>1. L5 \in Seq(Steps) /\ Head(L5) = "reload" /\ Tail(L5) = L4 /\ L5 # <<>>
  BY DEF L5, L4, Steps
<1>2. L4 \in Seq(Steps) /\ Head(L4) = "members" /\ Tail(L4) = L3 /\ L4 # <<>>
  BY DEF L4, L3, Steps
<1>3. L3 \in Seq(Steps) /\ Head(L3) = "groups" /\ Tail(L3) = L2 /\ L3 # <<>>
  BY DEF L3, L2, Steps
<1>4. L2 \in Seq(Steps) /\ Head(L2) = "nodes" /\ Tail(L2) = L1 /\ L2 # <<>>
  BY DEF L2, L1, Steps
<1>5. L1 \in Seq(Steps) /\ Head(L1) = "inspect" /\ Tail(L1) = <<>> /\ L1 # <<>>
  BY DEF L1, Steps
<1>6. A2 \in Seq(Steps) /\ Head(A2) = "aggregate" /\ Tail(A2) = L1 /\ A2 # <<>>
  BY DEF A2, L1, Steps
<1>7. E3 \in Seq(Steps) /\ Head(E3) = "nodes" /\ Tail(E3) = E2 /\ E3 # <<>>
  BY DEF E3, E2, Steps
<1>8. E2 \in Seq(Steps) /\ Head(E2) = "rev" /\ Tail(E2) = E1 /\ E2 # <<>>
  BY DEF E2, E1, Steps
<1>9. E1 \in Seq(Steps) /\ Head(E1) = "eval" /\ Tail(E1) = <<>> /\ E1 # <<>>
  BY DEF E1, Steps
<1>10. T2 \in Seq(Steps) /\ Head(T2) = "toplevels" /\ Tail(T2) = T1 /\ T2 # <<>>
  BY DEF T2, T1, Steps
<1>11. T1 \in Seq(Steps) /\ Head(T1) = "label" /\ Tail(T1) = <<>> /\ T1 # <<>>
  BY DEF T1, Steps
<1>12. <<>> \in Seq(Steps)
  OBVIOUS
<1> QED BY <1>1, <1>2, <1>3, <1>4, <1>5, <1>6, <1>7, <1>8, <1>9, <1>10, <1>11, <1>12

(* The lists of a load that the proofs tell apart. *)
LEMMA Apart ==
  /\ L5 # L4 /\ L5 # L3 /\ L5 # L2 /\ L5 # L1 /\ L5 # A2
  /\ A2 # L4 /\ A2 # L3 /\ A2 # L2 /\ A2 # L1
  /\ L4 # L3 /\ L4 # L2 /\ L4 # L1 /\ L3 # L2 /\ L3 # L1 /\ L2 # L1
  /\ L5 \notin {E3, E2, E1, T2, T1, <<>>}
BY Todos DEF Steps, E3, E2, E1, T2, T1, L5, L4, L3, L2, L1, A2

(* What a job leaves of its list. *)
LEMMA Rest ==
  ASSUME NEW s \in Seq(Steps), s # <<>>
  PROVE  Head(s) \in Steps /\ Tail(s) \in Seq(Steps)
OBVIOUS

-----------------------------------------------------------------------------
(* Jobs, field by field. *)

(* The job that is none, and a new one. *)
LEMMA JobFields ==
  ASSUME NEW kind \in {"none", "load", "eval", "call"}, NEW todo \in Seq(Steps)
  PROVE  LET j == Job(kind, todo) IN
         /\ j \in Jobs /\ j.kind = kind /\ j.todo = todo /\ j.lazy = 0 /\ j.got = <<>>
         /\ j.label = 0 /\ j.of = 0 /\ j.key = 0 /\ j.stale = FALSE /\ j.ok = TRUE
<1>1. 0 \in Revs /\ <<>> \in Seq(Revs)
  BY ExplorerAssumption DEF Revs
<1> QED BY <1>1 DEF Job, None, Jobs

(* The job that is none. *)
LEMMA NoneFields ==
  /\ None \in Jobs /\ None.kind = "none" /\ None.todo = <<>> /\ None.lazy = 0 /\ None.got = <<>>
  /\ None.label = 0 /\ None.of = 0 /\ None.key = 0 /\ None.stale = FALSE /\ None.ok = TRUE
<1>1. 0 \in Revs /\ <<>> \in Seq(Revs) /\ <<>> \in Seq(Steps)
  BY ExplorerAssumption DEF Revs
<1> QED BY <1>1 DEF None, Jobs

(* The jobs App starts. *)
LEMMA StartFields ==
  ASSUME NEW t, NEW fresh \in BOOLEAN
  PROVE  LET l == StartLoad(t, fresh)  e == StartEval(t) IN
         /\ l \in Jobs /\ l.kind = "load" /\ l.got = <<>> /\ l.lazy = 0 /\ l.key = 0 /\ l.of = 0
         /\ l.stale = FALSE
         /\ l.todo = IF role[t] = "none" THEN A2 ELSE IF fresh THEN L5 ELSE L4
         /\ e \in Jobs /\ e.kind = "eval" /\ e.lazy = 0
         /\ e.todo = IF role[t] = "none" THEN T2 ELSE E3
<1>a. <<"reload">> \o <<"members", "groups", "nodes", "inspect">> = L5
  <2> DEFINE a == <<"reload">>  b == <<"members", "groups", "nodes", "inspect">>
  <2>1. a \in Seq(Steps) /\ b \in Seq(Steps) /\ L5 \in Seq(Steps) /\ Len(a) = 1 /\ Len(b) = 4 /\ Len(L5) = 5
    BY DEF L5, Steps
  <2>2. a \o b \in Seq(Steps) /\ Len(a \o b) = 5
    BY <2>1
  <2>3. (a \o b)[1] = "reload" /\ (a \o b)[2] = "members" /\ (a \o b)[3] = "groups"
        /\ (a \o b)[4] = "nodes" /\ (a \o b)[5] = "inspect"
    OBVIOUS
  <2>4. \A i \in 1..5 : (a \o b)[i] = L5[i]
    BY <2>3 DEF L5
  <2> QED BY <2>1, <2>2, <2>4, SeqEqual
<1>b. <<>> \o <<"members", "groups", "nodes", "inspect">> = L4
  BY DEF L4
<1>1. LoadOverContext(fresh) = Job("load", IF fresh THEN L5 ELSE L4)
  <2>1. CASE fresh
    BY <1>a, <2>1 DEF LoadOverContext
  <2>2. CASE ~fresh
    BY <1>b, <2>2 DEF LoadOverContext
  <2> QED BY <2>1, <2>2
<1>2. LoadLocally = Job("load", A2) /\ EvalLocally = Job("eval", T2) /\ EvalOverContext = Job("eval", E3)
  BY DEF LoadLocally, EvalLocally, EvalOverContext, A2, T2, E3
<1>3. L5 \in Seq(Steps) /\ L4 \in Seq(Steps) /\ A2 \in Seq(Steps) /\ T2 \in Seq(Steps) /\ E3 \in Seq(Steps)
  BY Todos
<1>4. StartLoad(t, fresh) = Job("load", IF role[t] = "none" THEN A2 ELSE IF fresh THEN L5 ELSE L4)
  BY <1>1, <1>2 DEF StartLoad
<1>5. StartEval(t) = Job("eval", IF role[t] = "none" THEN T2 ELSE E3)
  BY <1>2 DEF StartEval
<1>6. \A d \in {L5, L4, A2} :
        /\ Job("load", d) \in Jobs /\ Job("load", d).kind = "load" /\ Job("load", d).got = <<>>
        /\ Job("load", d).lazy = 0 /\ Job("load", d).key = 0 /\ Job("load", d).of = 0
        /\ Job("load", d).stale = FALSE /\ Job("load", d).todo = d
  <2> TAKE d \in {L5, L4, A2}
  <2>1. d \in Seq(Steps)
    BY <1>3
  <2> QED BY <2>1, JobFields
<1>7. \A d \in {T2, E3} :
        /\ Job("eval", d) \in Jobs /\ Job("eval", d).kind = "eval" /\ Job("eval", d).lazy = 0
        /\ Job("eval", d).todo = d
  <2> TAKE d \in {T2, E3}
  <2>1. d \in Seq(Steps)
    BY <1>3
  <2> QED BY <2>1, JobFields
<1> QED BY <1>4, <1>5, <1>6, <1>7

(* A job one step further. *)
LEMMA PoppedFields ==
  ASSUME NEW j \in Jobs, j.todo # <<>>
  PROVE  LET p == Popped(j) IN
         /\ p \in Jobs /\ p.kind = j.kind /\ p.todo = Tail(j.todo) /\ p.lazy = 0 /\ p.got = j.got
         /\ p.label = j.label /\ p.of = j.of /\ p.key = j.key /\ p.stale = j.stale /\ p.ok = j.ok
<1>1. 0 \in Revs /\ Tail(j.todo) \in Seq(Steps)
  BY ExplorerAssumption, Rest DEF Revs, Jobs
<1> QED BY <1>1 DEF Popped, Jobs

(* A job that failed. *)
LEMMA FailedFields ==
  ASSUME NEW j \in Jobs
  PROVE  LET p == Failed(j) IN
         /\ p \in Jobs /\ p.kind = j.kind /\ p.todo = <<>> /\ p.lazy = 0 /\ p.got = j.got
         /\ p.label = j.label /\ p.of = j.of /\ p.key = j.key /\ p.stale = j.stale /\ p.ok = FALSE
<1>1. 0 \in Revs /\ <<>> \in Seq(Steps)
  BY ExplorerAssumption DEF Revs
<1> QED BY <1>1 DEF Failed, Jobs

-----------------------------------------------------------------------------
(* AppState, one method at a time.  The arguments are an explorer's state  *)
(* and job; the flags of the state may be those between two methods.       *)

Sound(u, j) ==
  /\ u.busy <=> j.kind # "none"
  /\ u.evalRunning <=> j.kind = "eval"
  /\ u.evalRunning => ~u.evalPending

(* A new load or evaluation keeps every promise about jobs. *)
LEMMA NewJobs ==
  ASSUME NEW t \in Tuis, NEW fresh \in BOOLEAN
  PROVE  /\ Shape(StartLoad(t, fresh)) /\ HonestJob(StartLoad(t, fresh))
         /\ Route(t, StartLoad(t, fresh))
         /\ Shape(StartEval(t)) /\ HonestJob(StartEval(t)) /\ Route(t, StartEval(t))
         /\ StartEval(t).lazy = 0 /\ StartEval(t).todo # <<>> /\ StartEval(t).todo # L5
         /\ StartLoad(t, fresh).lazy = 0 /\ StartLoad(t, fresh).todo # <<>>
         /\ StartLoad(t, fresh).kind = "load" /\ StartLoad(t, fresh).got = <<>>
<1> DEFINE l == StartLoad(t, fresh)  e == StartEval(t)
<1>1. /\ l.kind = "load" /\ l.got = <<>> /\ l.lazy = 0 /\ l.key = 0 /\ l.of = 0
      /\ l.todo = IF role[t] = "none" THEN A2 ELSE IF fresh THEN L5 ELSE L4
  BY StartFields
<1>2. e.kind = "eval" /\ e.lazy = 0 /\ e.todo = IF role[t] = "none" THEN T2 ELSE E3
  BY StartFields
<1> HIDE DEF l, e
<1>3. Shape(l) /\ HonestJob(l) /\ l.todo # <<>>
  BY <1>1, Todos DEF Shape, LoadShape, HonestJob
<1>4. Route(t, l)
  BY <1>1, Apart DEF Route
<1>5. Shape(e) /\ HonestJob(e) /\ e.todo # <<>> /\ e.todo # L5 /\ Route(t, e)
  BY <1>2, Todos, Apart DEF Shape, HonestJob, Route
<1> QED BY <1>1, <1>2, <1>3, <1>4, <1>5 DEF l, e

(* request_load: a job is queued or started. *)
LEMMA LoadRequested ==
  ASSUME NEW t \in Tuis, NEW u \in UIs, NEW j \in Jobs, Shape(j), Sound(u, j)
  PROVE  LET s == RequestLoad(t, <<u, j>>)  v == s[1]  k == s[2] IN
         /\ v \in UIs /\ k \in Jobs /\ Shape(k) /\ Owes(v, k)
         /\ v.inv = u.inv /\ v.expected = u.expected /\ v.rev = u.rev /\ v.cached = u.cached
         /\ k = j \/ (~u.busy /\ k = StartLoad(t, u.freshWanted))
         /\ HonestJob(j) => HonestJob(k)
         /\ HonestUI(u) => HonestUI(v)
         /\ ViewOf(t, u, j) => ViewOf(t, v, k)
<1>1. CASE u.busy
  <2> DEFINE v == [u EXCEPT !.reloadPending = TRUE]
  <2>1. RequestLoad(t, <<u, j>>) = <<v, j>>
    BY <1>1 DEF RequestLoad
  <2>2. v \in UIs /\ v.inv = u.inv /\ v.expected = u.expected /\ v.rev = u.rev /\ v.cached = u.cached
        /\ v.busy = u.busy /\ v.evalRunning = u.evalRunning /\ v.evalPending = u.evalPending
        /\ v.reloadPending = TRUE /\ v.freshWanted = u.freshWanted
    BY DEF UIs
  <2> HIDE DEF v
  <2>3. Owes(v, j)
    BY <1>1, <2>2 DEF Sound, Owes
  <2>4. HonestUI(u) => HonestUI(v)
    BY <2>2 DEF HonestUI
  <2>5. ViewOf(t, u, j) => ViewOf(t, v, j)
    BY <2>2 DEF ViewOf, Cleared
  <2> QED BY <2>1, <2>2, <2>3, <2>4, <2>5
<1>2. CASE ~u.busy
  <2> DEFINE v == [u EXCEPT !.busy = TRUE, !.freshWanted = FALSE]
             k == StartLoad(t, u.freshWanted)
  <2>1. RequestLoad(t, <<u, j>>) = <<v, k>>
    BY <1>2 DEF RequestLoad
  <2>2. v \in UIs /\ v.inv = u.inv /\ v.expected = u.expected /\ v.rev = u.rev /\ v.cached = u.cached
        /\ v.busy = TRUE /\ v.evalRunning = u.evalRunning /\ v.evalPending = u.evalPending
        /\ v.reloadPending = u.reloadPending /\ v.freshWanted = FALSE
    BY DEF UIs
  <2>3. u.freshWanted \in BOOLEAN
    BY DEF UIs
  <2>4. k \in Jobs /\ k.kind = "load" /\ k.got = <<>>
        /\ (k.todo = IF role[t] = "none" THEN A2 ELSE IF u.freshWanted THEN L5 ELSE L4)
    BY <2>3, StartFields
  <2>5. Shape(k) /\ HonestJob(k) /\ Route(t, k)
    BY <2>3, NewJobs
  <2>6. k = StartLoad(t, u.freshWanted)
    OBVIOUS
  <2> HIDE DEF v, k
  <2>7. Owes(v, k)
    BY <1>2, <2>2, <2>4 DEF Sound, Owes
  <2>8. HonestUI(u) => HonestUI(v)
    BY <2>2 DEF HonestUI
  <2>9. ViewOf(t, u, j) => ViewOf(t, v, k)
    <3>1. Len(k.got) = 0
      BY <2>4
    <3>2. Cleared(u, j) => Cleared(v, k)
      BY <2>2, <2>4, Apart DEF Cleared
    <3> QED BY <2>2, <2>5, <3>1, <3>2 DEF ViewOf
  <2> QED BY <1>2, <2>1, <2>2, <2>4, <2>5, <2>6, <2>7, <2>8, <2>9
<1> QED BY <1>1, <1>2

(* A view that shows nothing and waits for nothing read before. *)
Blank(u, j) == u.inv = <<>> /\ (j.kind = "load" /\ ~j.stale => j.got = <<>>)

(* request_rebind: the view is cleared and the load in flight goes stale. *)
LEMMA Rebound ==
  ASSUME NEW t \in Tuis, NEW u \in UIs, NEW j \in Jobs, Shape(j), Sound(u, j), NEW fresh \in BOOLEAN
  PROVE  LET s == RequestRebind(t, <<u, j>>, fresh)  v == s[1]  k == s[2] IN
         /\ v \in UIs /\ k \in Jobs /\ Shape(k) /\ Owes(v, k)
         /\ HonestJob(j) => HonestJob(k)
         /\ HonestUI(v)
         /\ k.lazy = j.lazy \/ k.lazy = 0
         /\ k.todo = j.todo \/ k.lazy = 0
         /\ Blank(v, k)
         /\ Route(t, j) => ViewOf(t, v, k)
<1> DEFINE u1 == [u EXCEPT !.inv = <<>>, !.expected = 0, !.freshWanted = @ \/ fresh]
           j1 == [j EXCEPT !.stale = j.kind = "load"]
           s  == RequestLoad(t, <<u1, j1>>)
<1>1. RequestRebind(t, <<u, j>>, fresh) = s
  BY DEF RequestRebind
<1>2. 0 \in Revs /\ <<>> \in Seq(Revs) /\ (u.freshWanted \/ fresh) \in BOOLEAN /\ (j.kind = "load") \in BOOLEAN
  BY ExplorerAssumption DEF Revs
<1>3. /\ u1 \in UIs /\ u1.inv = <<>> /\ u1.expected = 0 /\ u1.rev = u.rev /\ u1.cached = u.cached
      /\ u1.busy = u.busy /\ u1.evalRunning = u.evalRunning /\ u1.evalPending = u.evalPending
  BY <1>2 DEF UIs
<1>4. /\ j1 \in Jobs /\ j1.kind = j.kind /\ j1.todo = j.todo /\ j1.lazy = j.lazy /\ j1.got = j.got
      /\ j1.label = j.label /\ j1.of = j.of /\ j1.key = j.key /\ j1.stale = (j.kind = "load") /\ j1.ok = j.ok
  BY <1>2 DEF Jobs
<1>5. u1.freshWanted \in BOOLEAN
  BY <1>3 DEF UIs
<1> HIDE DEF u1, j1
<1>6. Shape(j1) /\ Sound(u1, j1) /\ HonestUI(u1) /\ (HonestJob(j) => HonestJob(j1))
  BY <1>3, <1>4 DEF Shape, LoadShape, Sound, HonestUI, HonestJob
<1>7. Route(t, j) => ViewOf(t, u1, j1)
  <2>1. Len(u1.inv) = 0
    BY <1>3
  <2>2. Cleared(u1, j1)
    BY <1>3, <1>4 DEF Cleared
  <2>3. Route(t, j) => Route(t, j1)
    BY <1>4 DEF Route
  <2>4. ~(j1.kind = "load" /\ ~j1.stale)
    BY <1>4
  <2>5. \A i \in 1..Len(u1.inv) : Good(t, u1.inv[i])
    BY <2>1
  <2>6. u1.inv = <<>>
    BY <1>3
  <2> QED BY <2>2, <2>3, <2>4, <2>5, <2>6 DEF ViewOf
<1>8. /\ s[1] \in UIs /\ s[2] \in Jobs /\ Shape(s[2]) /\ Owes(s[1], s[2])
      /\ s[1].inv = u1.inv
      /\ s[2] = j1 \/ s[2] = StartLoad(t, u1.freshWanted)
      /\ HonestJob(j1) => HonestJob(s[2])
      /\ HonestUI(s[1])
      /\ Route(t, j) => ViewOf(t, s[1], s[2])
  BY <1>3, <1>4, <1>6, <1>7, LoadRequested
<1>9. StartLoad(t, u1.freshWanted).lazy = 0 /\ StartLoad(t, u1.freshWanted).got = <<>>
  BY <1>5, StartFields
<1>10. Blank(s[1], s[2])
  BY <1>3, <1>4, <1>8, <1>9 DEF Blank
<1>11. (s[2].lazy = j.lazy \/ s[2].lazy = 0) /\ (s[2].todo = j.todo \/ s[2].lazy = 0)
  BY <1>4, <1>8, <1>9
<1>12. HonestJob(j) => HonestJob(s[2])
  BY <1>6, <1>8
<1> HIDE DEF s
<1> QED BY <1>1, <1>8, <1>10, <1>11, <1>12

(* request_eval_expected: an evaluation is queued or started. *)
LEMMA EvalRequested ==
  ASSUME NEW t \in Tuis, NEW u \in UIs, NEW j \in Jobs, Shape(j), Owes(u, j)
  PROVE  LET s == RequestEvalExpected(t, <<u, j>>)  v == s[1]  k == s[2] IN
         /\ v \in UIs /\ k \in Jobs /\ Shape(k) /\ Owes(v, k)
         /\ k = j \/ k = StartEval(t)
         /\ HonestJob(j) => HonestJob(k)
         /\ HonestUI(u) => HonestUI(v)
         /\ ViewOf(t, u, j) => ViewOf(t, v, k)
<1>1. CASE u.busy
  <2> DEFINE v == [u EXCEPT !.evalPending = @ \/ ~u.evalRunning]
  <2>1. RequestEvalExpected(t, <<u, j>>) = <<v, j>>
    BY <1>1 DEF RequestEvalExpected
  <2>2. (u.evalPending \/ ~u.evalRunning) \in BOOLEAN
    OBVIOUS
  <2>3. v \in UIs /\ v.inv = u.inv /\ v.expected = u.expected /\ v.rev = u.rev /\ v.cached = u.cached
        /\ v.busy = u.busy /\ v.evalRunning = u.evalRunning /\ v.reloadPending = u.reloadPending
        /\ v.freshWanted = u.freshWanted /\ v.evalPending = (u.evalPending \/ ~u.evalRunning)
    BY <2>2 DEF UIs
  <2> HIDE DEF v
  <2>4. Owes(v, j)
    BY <1>1, <2>3 DEF Owes
  <2>5. HonestUI(u) => HonestUI(v)
    BY <2>3 DEF HonestUI
  <2>6. ViewOf(t, u, j) => ViewOf(t, v, j)
    BY <2>3 DEF ViewOf, Cleared
  <2> QED BY <2>1, <2>3, <2>4, <2>5, <2>6
<1>2. CASE ~u.busy
  <2> DEFINE v == [u EXCEPT !.busy = TRUE, !.evalRunning = TRUE]
             k == StartEval(t)
  <2>1. RequestEvalExpected(t, <<u, j>>) = <<v, k>>
    BY <1>2 DEF RequestEvalExpected
  <2>2. v \in UIs /\ v.inv = u.inv /\ v.expected = u.expected /\ v.rev = u.rev /\ v.cached = u.cached
        /\ v.busy = TRUE /\ v.evalRunning = TRUE /\ v.reloadPending = u.reloadPending
        /\ v.freshWanted = u.freshWanted /\ v.evalPending = u.evalPending
    BY DEF UIs
  <2>3. k \in Jobs /\ k.kind = "eval"
    BY StartFields
  <2>4. Shape(k) /\ HonestJob(k) /\ Route(t, k) /\ k.todo # L5
    BY NewJobs
  <2>5. k = StartEval(t)
    OBVIOUS
  <2> HIDE DEF v, k
  <2>6. Owes(v, k)
    BY <1>2, <2>2, <2>3 DEF Owes
  <2>7. HonestUI(u) => HonestUI(v)
    BY <2>2 DEF HonestUI
  <2>8. ViewOf(t, u, j) => ViewOf(t, v, k)
    BY <2>2, <2>3, <2>4 DEF ViewOf, Cleared
  <2> QED BY <2>1, <2>2, <2>3, <2>4, <2>5, <2>6, <2>7, <2>8
<1> QED BY <1>1, <1>2

(* refresh_drift: the same, and a survey. *)
LEMMA DriftRefreshed ==
  ASSUME NEW t \in Tuis, NEW u \in UIs, NEW j \in Jobs, Shape(j), Owes(u, j)
  PROVE  LET s == RefreshDrift(t, <<u, j>>)  v == s[1]  k == s[2] IN
         /\ v \in UIs /\ k \in Jobs /\ Shape(k) /\ Owes(v, k)
         /\ k = j \/ k = StartEval(t)
         /\ HonestJob(j) => HonestJob(k)
         /\ HonestUI(u) => HonestUI(v)
         /\ ViewOf(t, u, j) => ViewOf(t, v, k)
<1> DEFINE s == RequestEvalExpected(t, <<u, j>>)
           v == [s[1] EXCEPT !.surveying = TRUE]
<1>1. RefreshDrift(t, <<u, j>>) = <<v, s[2]>>
  BY DEF RefreshDrift, RequestSurvey
<1>2. /\ s[1] \in UIs /\ s[2] \in Jobs /\ Shape(s[2]) /\ Owes(s[1], s[2])
      /\ s[2] = j \/ s[2] = StartEval(t)
      /\ HonestJob(j) => HonestJob(s[2])
      /\ HonestUI(u) => HonestUI(s[1])
      /\ ViewOf(t, u, j) => ViewOf(t, s[1], s[2])
  BY EvalRequested
<1> HIDE DEF s
<1>3. /\ v \in UIs /\ v.inv = s[1].inv /\ v.expected = s[1].expected /\ v.rev = s[1].rev
      /\ v.cached = s[1].cached /\ v.busy = s[1].busy /\ v.evalRunning = s[1].evalRunning
      /\ v.reloadPending = s[1].reloadPending /\ v.freshWanted = s[1].freshWanted
      /\ v.evalPending = s[1].evalPending
  BY <1>2 DEF UIs
<1> HIDE DEF v
<1>4. Owes(v, s[2]) /\ (HonestUI(s[1]) => HonestUI(v)) /\ (ViewOf(t, s[1], s[2]) => ViewOf(t, v, s[2]))
  BY <1>2, <1>3 DEF Owes, HonestUI, ViewOf, Cleared
<1> QED BY <1>1, <1>2, <1>3, <1>4

(* consume_pending_reload after a job has ended: nothing is owed then but  *)
(* an evaluation that was queued.                                          *)
LEMMA ReloadConsumed ==
  ASSUME NEW t \in Tuis, NEW u \in UIs, ~u.busy, ~u.evalRunning, u.freshWanted => u.reloadPending
  PROVE  LET s == ConsumePendingReload(t, <<u, None>>)  v == s[1]  k == s[2] IN
         /\ v \in UIs /\ k \in Jobs /\ Shape(k) /\ HonestJob(k) /\ k.lazy = 0
         /\ v.busy \/ ~v.evalPending => Owes(v, k)
         /\ ~v.busy => k = None /\ ~v.evalRunning /\ ~v.reloadPending /\ ~v.freshWanted
         /\ ~u.evalPending => Owes(v, k)
         /\ HonestUI(u) => HonestUI(v)
         /\ ViewOf(t, u, None) => ViewOf(t, v, k)
<1>a. None \in Jobs /\ None.kind = "none" /\ None.todo = <<>> /\ None.lazy = 0
  BY NoneFields
<1>b. Shape(None) /\ HonestJob(None)
  BY <1>a DEF Shape, HonestJob
<1>1. CASE u.reloadPending
  <2> DEFINE u1 == [u EXCEPT !.reloadPending = FALSE]
             s  == RequestLoad(t, <<u1, None>>)
  <2>1. ConsumePendingReload(t, <<u, None>>) = s
    BY <1>1 DEF ConsumePendingReload
  <2>2. u1 \in UIs /\ u1.inv = u.inv /\ u1.expected = u.expected /\ u1.rev = u.rev /\ u1.cached = u.cached
        /\ u1.busy = u.busy /\ u1.evalRunning = u.evalRunning /\ u1.evalPending = u.evalPending
        /\ u1.freshWanted = u.freshWanted
    BY DEF UIs
  <2> HIDE DEF u1
  <2>3. Sound(u1, None)
    BY <1>a, <2>2 DEF Sound
  <2>4. (HonestUI(u) => HonestUI(u1)) /\ (ViewOf(t, u, None) => ViewOf(t, u1, None))
    BY <2>2 DEF HonestUI, ViewOf, Cleared
  <2>5. /\ s[1] \in UIs /\ s[2] \in Jobs /\ Shape(s[2]) /\ Owes(s[1], s[2]) /\ HonestJob(s[2])
        /\ s[2] = None \/ s[2] = StartLoad(t, u1.freshWanted)
        /\ HonestUI(u1) => HonestUI(s[1])
        /\ ViewOf(t, u1, None) => ViewOf(t, s[1], s[2])
    BY <1>a, <1>b, <2>2, <2>3, LoadRequested
  <2>6. u1.freshWanted \in BOOLEAN
    BY <2>2 DEF UIs
  <2>7. s[2].lazy = 0
    BY <1>a, <2>5, <2>6, NewJobs
  <2>8. s[1].busy
    <3>1. RequestLoad(t, <<u1, None>>)[1] = [u1 EXCEPT !.busy = TRUE, !.freshWanted = FALSE]
      BY <2>2 DEF RequestLoad
    <3>2. [u1 EXCEPT !.busy = TRUE, !.freshWanted = FALSE].busy = TRUE
      BY <2>2 DEF UIs
    <3> QED BY <3>1, <3>2
  <2> HIDE DEF s
  <2> QED BY <2>1, <2>4, <2>5, <2>7, <2>8
<1>2. CASE ~u.reloadPending
  <2>1. ConsumePendingReload(t, <<u, None>>) = <<u, None>>
    BY <1>2 DEF ConsumePendingReload
  <2>2. ~u.evalPending => Owes(u, None)
    BY <1>2, <1>a DEF Owes
  <2> QED BY <1>a, <1>b, <1>2, <2>1, <2>2
<1> QED BY <1>1, <1>2

(* start_pending_eval_expected after that: nothing is owed. *)
LEMMA EvalStarted ==
  ASSUME NEW t \in Tuis, NEW u \in UIs, NEW j \in Jobs, Shape(j), HonestJob(j), j.lazy = 0,
         u.busy \/ ~u.evalPending => Owes(u, j),
         ~u.busy => j = None /\ ~u.evalRunning /\ ~u.reloadPending /\ ~u.freshWanted
  PROVE  LET s == StartPendingEval(t, <<u, j>>)  v == s[1]  k == s[2] IN
         /\ v \in UIs /\ k \in Jobs /\ Shape(k) /\ HonestJob(k) /\ k.lazy = 0 /\ Owes(v, k)
         /\ HonestUI(u) => HonestUI(v)
         /\ ViewOf(t, u, j) => ViewOf(t, v, k)
<1>1. CASE u.busy \/ ~u.evalPending
  <2>1. StartPendingEval(t, <<u, j>>) = <<u, j>>
    BY <1>1 DEF StartPendingEval
  <2> QED BY <1>1, <2>1
<1>2. CASE ~u.busy /\ u.evalPending
  <2> DEFINE v == [u EXCEPT !.evalPending = FALSE, !.busy = TRUE, !.evalRunning = TRUE]
             k == StartEval(t)
  <2>1. StartPendingEval(t, <<u, j>>) = <<v, k>>
    BY <1>2 DEF StartPendingEval
  <2>2. v \in UIs /\ v.inv = u.inv /\ v.expected = u.expected /\ v.rev = u.rev /\ v.cached = u.cached
        /\ v.busy = TRUE /\ v.evalRunning = TRUE /\ v.reloadPending = u.reloadPending
        /\ v.freshWanted = u.freshWanted /\ v.evalPending = FALSE
    BY DEF UIs
  <2>3. k \in Jobs /\ k.kind = "eval"
    BY StartFields
  <2>4. Shape(k) /\ HonestJob(k) /\ Route(t, k) /\ k.todo # L5 /\ k.lazy = 0
    BY NewJobs
  <2> HIDE DEF v, k
  <2>5. Owes(v, k)
    BY <1>2, <2>2, <2>3 DEF Owes
  <2>6. HonestUI(u) => HonestUI(v)
    BY <2>2 DEF HonestUI
  <2>7. ViewOf(t, u, j) => ViewOf(t, v, k)
    BY <2>2, <2>3, <2>4 DEF ViewOf, Cleared
  <2> QED BY <2>1, <2>2, <2>3, <2>4, <2>5, <2>6, <2>7
<1> QED BY <1>1, <1>2

-----------------------------------------------------------------------------
(* Calls and jobs, one step at a time. *)

(* c's job becomes k; the agent and the watcher forget one that is done.   *)
Taken(c, k) ==
  /\ task' \in [Clients -> Jobs]
  /\ \A d \in Clients \ {c} : task'[d] = task[d]
  /\ task'[c] = Settled(c, k)

(* Becomes moves one job and keeps the others. *)
LEMMA Became ==
  ASSUME TypeOK, NEW c \in Clients, NEW k \in Jobs, Becomes(c, k)
  PROVE  Taken(c, k)
<1>1. Settled(c, k) \in Jobs
  BY NoneFields DEF Settled
<1> QED BY <1>1 DEF Becomes, Taken, TypeOK

(* An explorer keeps its finished job until its loop takes it. *)
LEMMA SettledIs ==
  ASSUME NEW c \in Clients, NEW k \in Jobs
  PROVE  /\ c \in Tuis => Settled(c, k) = k
         /\ Settled(c, k) = k \/ (k.todo = <<>> /\ Settled(c, k) = None)
BY DEF Settled

(* The fields a step of the list leaves alone. *)
Pops(j, k) ==
  /\ j.todo # <<>> /\ k.kind = j.kind /\ k.todo = Tail(j.todo) /\ k.lazy = 0
  /\ k.stale = j.stale /\ k.ok = j.ok

Fails(j, k) ==
  /\ k.kind = j.kind /\ k.todo = <<>> /\ k.lazy = 0 /\ k.stale = j.stale /\ k.ok = FALSE
  /\ k.got = j.got /\ k.label = j.label /\ k.of = j.of /\ k.key = j.key

(* A step that answers nothing. *)
LEMMA PlainPop ==
  ASSUME NEW j \in Jobs, j.todo # <<>>
  PROVE  LET k == Popped(j) IN
         /\ k \in Jobs /\ Pops(j, k)
         /\ k.got = j.got /\ k.label = j.label /\ k.of = j.of /\ k.key = j.key
BY PoppedFields DEF Jobs, Pops

(* A step that reads contracts. *)
LEMMA GotPop ==
  ASSUME NEW j \in Jobs, j.todo # <<>>, NEW g \in Seq(Revs)
  PROVE  LET k == [Popped(j) EXCEPT !.got = g] IN
         /\ k \in Jobs /\ Pops(j, k)
         /\ k.got = g /\ k.label = j.label /\ k.of = j.of /\ k.key = j.key
BY PoppedFields DEF Jobs, Pops

(* A step that reads the rev. *)
LEMMA LabelPop ==
  ASSUME NEW j \in Jobs, j.todo # <<>>, NEW r \in Revs
  PROVE  LET k == [Popped(j) EXCEPT !.label = r] IN
         /\ k \in Jobs /\ Pops(j, k)
         /\ k.got = j.got /\ k.label = r /\ k.of = j.of /\ k.key = j.key
BY PoppedFields DEF Jobs, Pops

(* A step that evaluates the expected set. *)
LEMMA OfPop ==
  ASSUME NEW j \in Jobs, j.todo # <<>>, NEW r \in Revs
  PROVE  LET k == [Popped(j) EXCEPT !.of = r] IN
         /\ k \in Jobs /\ Pops(j, k)
         /\ k.got = j.got /\ k.label = j.label /\ k.of = r /\ k.key = j.key
BY PoppedFields DEF Jobs, Pops

(* FreshInventory evaluates, for a reload or for a first read. *)
LEMMA FreshJob ==
  ASSUME TypeOK, NEW c \in Clients, FreshInventory(c)
  PROVE  \E k \in Jobs :
           /\ Taken(c, k) /\ task[c].todo # <<>> /\ k.todo = task[c].todo
           /\ k.kind = task[c].kind /\ k.lazy = head /\ k.stale = task[c].stale /\ k.ok = task[c].ok
           /\ k.got = task[c].got /\ k.label = task[c].label /\ k.of = task[c].of /\ k.key = task[c].key
           /\ Head(k.todo) = "reload" \/ srv.inv = 0
<1> DEFINE j == task[c]  k == [j EXCEPT !.lazy = head]
<1>1. j \in Jobs /\ head \in Revs
  BY DEF TypeOK
<1>2. /\ k \in Jobs /\ k.todo = j.todo /\ k.kind = j.kind /\ k.lazy = head /\ k.stale = j.stale /\ k.ok = j.ok
      /\ k.got = j.got /\ k.label = j.label /\ k.of = j.of /\ k.key = j.key
  BY <1>1 DEF Jobs
<1>3. j.todo # <<>> /\ (Head(j.todo) = "reload" \/ srv.inv = 0)
  BY DEF FreshInventory, NeedsEval, At
<1>4. Taken(c, k)
  BY <1>2, Became DEF FreshInventory
<1> HIDE DEF k
<1> QED BY <1>2, <1>3, <1>4

(* A failed evaluation ends the job. *)
LEMMA FreshFailsJob ==
  ASSUME TypeOK, NEW c \in Clients, FreshInventoryFails(c)
  PROVE  \E k \in Jobs : Taken(c, k) /\ Fails(task[c], k) /\ task[c].todo # <<>>
<1>1. task[c] \in Jobs
  BY DEF TypeOK
<1>2. Failed(task[c]) \in Jobs /\ Fails(task[c], Failed(task[c]))
  BY <1>1, FailedFields DEF Fails
<1>3. Taken(c, Failed(task[c])) /\ task[c].todo # <<>>
  BY <1>2, Became DEF FreshInventoryFails, NeedsEval, At
<1> QED BY <1>2, <1>3

(* The fields of k but what was read and labelled are j's. *)
Keeps(j, k) == k.got = j.got /\ k.label = j.label /\ k.of = j.of /\ k.key = j.key

(* ToolReload pops its step. *)
LEMMA ReloadJob ==
  ASSUME TypeOK, NEW c \in Clients, ToolReload(c)
  PROVE  \E k \in Jobs : Taken(c, k) /\ Pops(task[c], k) /\ Head(task[c].todo) = "reload" /\ Keeps(task[c], k)
<1>1. task[c] \in Jobs /\ task[c].todo # <<>> /\ Head(task[c].todo) = "reload"
  BY DEF TypeOK, ToolReload, At
<1>2. Popped(task[c]) \in Jobs /\ Pops(task[c], Popped(task[c])) /\ Keeps(task[c], Popped(task[c]))
  BY <1>1, PlainPop DEF Keeps
<1>3. Taken(c, Popped(task[c]))
  BY <1>2, Became DEF ToolReload
<1> QED BY <1>1, <1>2, <1>3

(* LazyInventory and ToolRead answer a read. *)
ReadsInto(c, k, x) ==
  /\ Taken(c, k) /\ Pops(task[c], k) /\ Head(task[c].todo) \in Reads
  /\ k.got = Append(task[c].got, x) /\ k.label = task[c].label /\ k.of = task[c].of /\ k.key = task[c].key

(* A first read answers with what it evaluated. *)
LEMMA LazyJob ==
  ASSUME TypeOK, NEW c \in Clients, LazyInventory(c)
  PROVE  task[c].lazy # 0 /\ \E k \in Jobs : ReadsInto(c, k, task[c].lazy)
<1> DEFINE g == Append(task[c].got, task[c].lazy)  k == [Popped(task[c]) EXCEPT !.got = g]
<1>1. task[c] \in Jobs /\ task[c].todo # <<>> /\ Head(task[c].todo) \in Reads /\ task[c].lazy # 0
  BY DEF TypeOK, LazyInventory, At
<1>2. g \in Seq(Revs)
  BY <1>1 DEF Jobs
<1>3. Popped(task[c]).got = task[c].got
  BY <1>1, PlainPop
<1>4. /\ k \in Jobs /\ Pops(task[c], k) /\ k.got = g /\ k.label = task[c].label /\ k.of = task[c].of
      /\ k.key = task[c].key
  BY <1>1, <1>2, GotPop
<1>5. Becomes(c, k)
  BY <1>3 DEF LazyInventory
<1>6. Taken(c, k)
  BY <1>4, <1>5, Became
<1> QED BY <1>1, <1>4, <1>6 DEF ReadsInto

(* A later read answers with what is served. *)
LEMMA ReadJob ==
  ASSUME TypeOK, NEW c \in Clients, ToolRead(c)
  PROVE  \E k \in Jobs : ReadsInto(c, k, srv.inv)
<1> DEFINE g == Append(task[c].got, srv.inv)  k == [Popped(task[c]) EXCEPT !.got = g]
<1>1. task[c] \in Jobs /\ task[c].todo # <<>> /\ Head(task[c].todo) \in Reads /\ srv.inv \in Revs
  BY DEF TypeOK, ToolRead, At
<1>2. g \in Seq(Revs)
  BY <1>1 DEF Jobs
<1>3. Popped(task[c]).got = task[c].got
  BY <1>1, PlainPop
<1>4. /\ k \in Jobs /\ Pops(task[c], k) /\ k.got = g /\ k.label = task[c].label /\ k.of = task[c].of
      /\ k.key = task[c].key
  BY <1>1, <1>2, GotPop
<1>5. Becomes(c, k)
  BY <1>3 DEF ToolRead
<1>6. Taken(c, k)
  BY <1>4, <1>5, Became
<1> QED BY <1>1, <1>4, <1>6 DEF ReadsInto

(* ToolDriftRev and Label read the rev. *)
LabelsAs(c, k, step) ==
  /\ Taken(c, k) /\ Pops(task[c], k) /\ Head(task[c].todo) = step
  /\ k.label = head /\ k.got = task[c].got /\ k.of = task[c].of /\ k.key = task[c].key

(* tool_drift reads the rev. *)
LEMMA RevJob ==
  ASSUME TypeOK, NEW c \in Clients, ToolDriftRev(c)
  PROVE  \E k \in Jobs : LabelsAs(c, k, "rev")
<1> DEFINE k == [Popped(task[c]) EXCEPT !.label = head]
<1>1. task[c] \in Jobs /\ task[c].todo # <<>> /\ Head(task[c].todo) = "rev" /\ head \in Revs
  BY DEF TypeOK, ToolDriftRev, At
<1>2. /\ k \in Jobs /\ Pops(task[c], k) /\ k.got = task[c].got /\ k.label = head /\ k.of = task[c].of
      /\ k.key = task[c].key
  BY <1>1, LabelPop
<1>3. Taken(c, k)
  BY <1>2, Became DEF ToolDriftRev, RepoRev
<1> QED BY <1>1, <1>2, <1>3 DEF LabelsAs

(* spawn_eval_expected reads the rev. *)
LEMMA LabelJob ==
  ASSUME TypeOK, NEW t \in Tuis, Label(t)
  PROVE  \E k \in Jobs : LabelsAs(t, k, "label")
<1> DEFINE k == [Popped(task[t]) EXCEPT !.label = head]
<1>1. task[t] \in Jobs /\ task[t].todo # <<>> /\ Head(task[t].todo) = "label" /\ head \in Revs /\ t \in Clients
  BY DEF TypeOK, Label, At, Clients
<1>2. /\ k \in Jobs /\ Pops(task[t], k) /\ k.got = task[t].got /\ k.label = head /\ k.of = task[t].of
      /\ k.key = task[t].key
  BY <1>1, LabelPop
<1>3. Taken(t, k)
  BY <1>1, <1>2, Became DEF Label, RepoRev
<1> QED BY <1>1, <1>2, <1>3 DEF LabelsAs

(* ToolDriftEval and Toplevels evaluate the expected set. *)
EvaluatesTo(c, k, x) ==
  /\ Pops(task[c], k) /\ k.of = x
  /\ k.got = task[c].got /\ k.label = task[c].label /\ k.key = task[c].key

(* No contract at all is 0. *)
LEMMA ZeroRev == 0 \in Revs
<1>1. MaxHead \in Nat
  BY ExplorerAssumption
<1> QED BY <1>1 DEF Revs

(* The contract a worker evaluates is a commit. *)
LEMMA WarmType ==
  ASSUME TypeOK
  PROVE  WarmContracts \subseteq Revs
BY DEF TypeOK, WarmContracts

(* tool_drift evaluates on the worker what it reports, or fails; the set is   *)
(* filed under the commit it was evaluated at, or counted.                    *)
LEMMA EvalJob ==
  ASSUME TypeOK, NEW c \in Clients, ToolDriftEval(c)
  PROVE  /\ Head(task[c].todo) = "eval" /\ task[c].todo # <<>>
         /\ \E k \in Jobs :
              /\ Taken(c, k)
              /\ \/ Fails(task[c], k)
                 \/ \E of \in WarmContracts :
                      EvaluatesTo(c, k, of) /\ (~mislabelled' => task[c].label = of)
<1>1. task[c] \in Jobs /\ task[c].todo # <<>> /\ Head(task[c].todo) = "eval"
  BY DEF TypeOK, ToolDriftEval, At
<1>2. ASSUME NEW of \in WarmContracts, Becomes(c, [Popped(task[c]) EXCEPT !.of = of]),
             mislabelled' = (mislabelled \/ task[c].label # of)
      PROVE  \E k \in Jobs : Taken(c, k) /\ EvaluatesTo(c, k, of) /\ (~mislabelled' => task[c].label = of)
  <2> DEFINE k == [Popped(task[c]) EXCEPT !.of = of]
  <2>1. /\ k \in Jobs /\ Pops(task[c], k) /\ k.got = task[c].got /\ k.label = task[c].label /\ k.of = of
        /\ k.key = task[c].key
    BY <1>1, WarmType, OfPop
  <2>2. Taken(c, k)
    BY <1>1, <1>2, <2>1, Became
  <2>3. ~mislabelled' => task[c].label = of
    BY <1>2
  <2> QED BY <2>1, <2>2, <2>3 DEF EvaluatesTo
<1>3. Failed(task[c]) \in Jobs /\ Fails(task[c], Failed(task[c]))
  BY <1>1, FailedFields DEF Fails
<1>4. CASE Becomes(c, Failed(task[c]))
  BY <1>1, <1>3, <1>4, Became
<1>5. \/ Becomes(c, Failed(task[c]))
      \/ \E of \in WarmContracts : /\ Becomes(c, [Popped(task[c]) EXCEPT !.of = of])
                                  /\ mislabelled' = (mislabelled \/ task[c].label # of)
  BY Zenon DEF ToolDriftEval
<1> QED BY <1>1, <1>2, <1>4, <1>5

(* spawn_eval_expected evaluates at HEAD, or fails. *)
LEMMA ToplevelsJob ==
  ASSUME TypeOK, NEW t \in Tuis, Toplevels(t)
  PROVE  /\ Head(task[t].todo) = "toplevels" /\ task[t].todo # <<>>
         /\ \E k \in Jobs : Taken(t, k) /\ (EvaluatesTo(t, k, head) \/ Fails(task[t], k))
<1> DEFINE k == [Popped(task[t]) EXCEPT !.of = head]
<1>1. /\ task[t] \in Jobs /\ task[t].todo # <<>> /\ Head(task[t].todo) = "toplevels" /\ head \in Revs
      /\ t \in Clients
  BY DEF TypeOK, Toplevels, At, Clients
<1>2. /\ k \in Jobs /\ Pops(task[t], k) /\ k.got = task[t].got /\ k.label = task[t].label /\ k.of = head
      /\ k.key = task[t].key
  BY <1>1, OfPop
<1>3. Failed(task[t]) \in Jobs /\ Fails(task[t], Failed(task[t]))
  BY <1>1, FailedFields DEF Fails
<1>4. Becomes(t, k) \/ Becomes(t, Failed(task[t]))
  BY DEF Toplevels
<1>5. CASE Becomes(t, k)
  BY <1>1, <1>2, <1>5, Became DEF EvaluatesTo
<1>6. CASE Becomes(t, Failed(task[t]))
  BY <1>1, <1>3, <1>6, Became
<1> QED BY <1>4, <1>5, <1>6

(* Aggregate reads everything at once. *)
LEMMA AggregateJob ==
  ASSUME TypeOK, NEW t \in Tuis, Aggregate(t)
  PROVE  /\ Head(task[t].todo) = "aggregate" /\ task[t].todo # <<>>
         /\ \E k \in Jobs :
              /\ Taken(t, k)
              /\ \/ /\ Pops(task[t], k) /\ k.got = All(head) /\ k.label = task[t].label
                    /\ k.of = task[t].of /\ k.key = task[t].key
                 \/ Fails(task[t], k)
<1> DEFINE k == [Popped(task[t]) EXCEPT !.got = All(head)]
<1>1. /\ task[t] \in Jobs /\ task[t].todo # <<>> /\ Head(task[t].todo) = "aggregate" /\ head \in Revs
      /\ t \in Clients
  BY DEF TypeOK, Aggregate, At, Clients
<1>2. All(head) \in Seq(Revs)
  BY <1>1 DEF All
<1>3. /\ k \in Jobs /\ Pops(task[t], k) /\ k.got = All(head) /\ k.label = task[t].label /\ k.of = task[t].of
      /\ k.key = task[t].key
  BY <1>1, <1>2, GotPop
<1>4. Failed(task[t]) \in Jobs /\ Fails(task[t], Failed(task[t]))
  BY <1>1, FailedFields DEF Fails
<1>5. Becomes(t, k) \/ Becomes(t, Failed(task[t]))
  BY DEF Aggregate
<1>6. CASE Becomes(t, k)
  BY <1>1, <1>3, <1>6, Became
<1>7. CASE Becomes(t, Failed(task[t]))
  BY <1>1, <1>4, <1>7, Became
<1> QED BY <1>5, <1>6, <1>7

(* Inspect reads the rev and the cache. *)
LEMMA InspectJob ==
  ASSUME TypeOK, NEW t \in Tuis, Inspect(t)
  PROVE  \E k \in Jobs :
           /\ Taken(t, k) /\ Pops(task[t], k) /\ Head(task[t].todo) = "inspect"
           /\ k.got = task[t].got /\ k.label = head /\ k.key = cache.label /\ k.of = cache.of
<1> DEFINE k == [Popped(task[t]) EXCEPT !.label = head, !.key = cache.label, !.of = cache.of]
<1>1. /\ task[t] \in Jobs /\ task[t].todo # <<>> /\ Head(task[t].todo) = "inspect" /\ head \in Revs
      /\ t \in Clients /\ cache.label \in Revs /\ cache.of \in Revs
  BY DEF TypeOK, Inspect, At, Clients
<1>2. /\ k \in Jobs /\ Pops(task[t], k) /\ k.got = task[t].got /\ k.label = head /\ k.of = cache.of
      /\ k.key = cache.label
  BY <1>1, PoppedFields DEF Jobs, Pops
<1>3. Taken(t, k)
  BY <1>1, <1>2, Became DEF Inspect, RepoRev
<1> QED BY <1>1, <1>2, <1>3

(* ContextGone starts over on the local evaluator. *)
LEMMA GoneJob ==
  ASSUME TypeOK, NEW t \in Tuis, ContextGone(t)
  PROVE  /\ task[t].todo # <<>>
         /\ \E k \in Jobs :
              /\ Taken(t, k) /\ k.stale = task[t].stale /\ k.lazy = 0 /\ k.got = <<>> /\ k.of = 0 /\ k.key = 0
              /\ k.kind = IF task[t].kind = "load" THEN "load" ELSE "eval"
              /\ k.todo = IF task[t].kind = "load" THEN A2 ELSE T2
<1> DEFINE b == IF task[t].kind = "load" THEN LoadLocally ELSE EvalLocally
           k == [b EXCEPT !.stale = task[t].stale]
<1>1. task[t] \in Jobs /\ task[t].todo # <<>> /\ t \in Clients /\ task[t].stale \in BOOLEAN
  BY DEF TypeOK, ContextGone, At, Clients, Jobs
<1>2. /\ b \in Jobs /\ b.lazy = 0 /\ b.got = <<>> /\ b.of = 0 /\ b.key = 0
      /\ b.kind = (IF task[t].kind = "load" THEN "load" ELSE "eval")
      /\ b.todo = (IF task[t].kind = "load" THEN A2 ELSE T2)
  <2>1. A2 \in Seq(Steps) /\ T2 \in Seq(Steps)
    BY Todos
  <2>2. LoadLocally = Job("load", A2) /\ EvalLocally = Job("eval", T2)
    BY DEF LoadLocally, EvalLocally, A2, T2
  <2>3. LoadLocally \in Jobs /\ LoadLocally.lazy = 0 /\ LoadLocally.got = <<>> /\ LoadLocally.of = 0
        /\ LoadLocally.key = 0 /\ LoadLocally.kind = "load" /\ LoadLocally.todo = A2
    BY <2>1, <2>2, JobFields, ZenonT(30)
  <2>4. EvalLocally \in Jobs /\ EvalLocally.lazy = 0 /\ EvalLocally.got = <<>> /\ EvalLocally.of = 0
        /\ EvalLocally.key = 0 /\ EvalLocally.kind = "eval" /\ EvalLocally.todo = T2
    BY <2>1, <2>2, JobFields
  <2> QED BY <2>3, <2>4
<1> HIDE DEF b
<1>3. /\ k \in Jobs /\ k.stale = task[t].stale /\ k.lazy = b.lazy /\ k.got = b.got /\ k.of = b.of
      /\ k.key = b.key /\ k.kind = b.kind /\ k.todo = b.todo
  BY <1>1, <1>2 DEF Jobs
<1>4. Becomes(t, k)
  BY DEF ContextGone, b
<1>5. Taken(t, k)
  BY <1>1, <1>3, <1>4, Became
<1> HIDE DEF k
<1> QED BY <1>1, <1>2, <1>3, <1>5

-----------------------------------------------------------------------------
(* What the steps of a job keep of its shape. *)

(* A job never goes back to a reload or to another route. *)
Downhill(j, k) ==
  /\ k.kind = j.kind /\ k.stale = j.stale
  /\ k.todo = L5 => j.todo = L5
  /\ k.kind = "load" => /\ k.todo = A2 => j.todo = A2
                        /\ j.todo \in {A2, L1, <<>>} => k.todo \in {A2, L1, <<>>}

(* A step taken off the list leaves a job of the same shape. *)
LEMMA Popping ==
  ASSUME NEW j \in Jobs, NEW k \in Jobs, Shape(j), Pops(j, k),
         \/ Head(j.todo) \in Reads /\ Len(k.got) = Len(j.got) + 1
         \/ Head(j.todo) = "aggregate" /\ Len(k.got) = 3
         \/ Head(j.todo) \notin Reads \cup {"aggregate"} /\ k.got = j.got
  PROVE  Shape(k) /\ Downhill(j, k)
<1>1. CASE j.kind = "load"
  <2> USE DEF Reads
  <2>1. CASE j.todo = L5
    <3>1. k.todo = L4 /\ k.got = <<>>
      BY <1>1, <2>1, Todos, Apart DEF Pops, Shape, LoadShape
    <3> QED BY <1>1, <2>1, <3>1, Todos, Apart DEF Pops, Shape, LoadShape, Downhill
  <2>2. CASE j.todo = L4
    <3>1. k.todo = L3 /\ j.got = <<>>
      BY <1>1, <2>2, Todos, Apart DEF Pops, Shape, LoadShape
    <3>c. Head(j.todo) = "members"
      BY <2>2, Todos
    <3>2. Len(k.got) = 1
      BY <3>c, <3>1
    <3> QED BY <1>1, <2>2, <3>1, <3>2, Todos, Apart DEF Pops, Shape, LoadShape, Downhill
  <2>3. CASE j.todo = L3
    <3>a. L3 \notin {L5, L4, A2, L2, L1, <<>>}
      BY Todos, Apart
    <3>b. Len(j.got) = 1
      BY <1>1, <2>3, <3>a DEF Shape, LoadShape
    <3>1. k.todo = L2 /\ Len(j.got) = 1
      BY <2>3, <3>b, Todos DEF Pops
    <3>c. Head(j.todo) = "groups"
      BY <2>3, Todos
    <3>2. Len(k.got) = 2
      BY <3>c, <3>1
    <3> QED BY <1>1, <2>3, <3>1, <3>2, Todos, Apart DEF Pops, Shape, LoadShape, Downhill
  <2>4. CASE j.todo = L2
    <3>a. L2 \notin {L5, L4, A2, L3, L1, <<>>}
      BY Todos, Apart
    <3>b. Len(j.got) = 2
      BY <1>1, <2>4, <3>a DEF Shape, LoadShape
    <3>1. k.todo = L1 /\ Len(j.got) = 2
      BY <2>4, <3>b, Todos DEF Pops
    <3>c. Head(j.todo) = "nodes"
      BY <2>4, Todos
    <3>2. Len(k.got) = 3
      BY <3>c, <3>1
    <3> QED BY <1>1, <2>4, <3>1, <3>2, Todos, Apart DEF Pops, Shape, LoadShape, Downhill
  <2>5. CASE j.todo = L1
    <3>a. L1 \notin {L5, L4, A2, L3, L2, <<>>}
      BY Todos, Apart
    <3>b. Len(j.got) = 3
      BY <1>1, <2>5, <3>a DEF Shape, LoadShape
    <3>1. k.todo = <<>> /\ Len(j.got) = 3
      BY <2>5, <3>b, Todos DEF Pops
    <3>c. Head(j.todo) = "inspect"
      BY <2>5, Todos
    <3>2. k.got = j.got
      BY <3>c
    <3> QED BY <1>1, <2>5, <3>1, <3>2, Todos DEF Pops, Shape, LoadShape, Downhill
  <2>6. CASE j.todo = A2
    <3>1. k.todo = L1 /\ Len(k.got) = 3
      BY <2>6, Todos DEF Pops
    <3> QED BY <1>1, <2>6, <3>1, Todos, Apart DEF Pops, Shape, LoadShape, Downhill
  <2> QED BY <1>1, <2>1, <2>2, <2>3, <2>4, <2>5, <2>6 DEF Shape, LoadShape, Pops
<1>2. CASE j.kind # "load"
  <2>1. j.kind = "eval" /\ j.todo \in {E3, E2, E1, T2, T1}
    BY <1>2 DEF Shape, Pops
  <2>2. k.todo \in {E2, E1, T1, <<>>}
    BY <2>1, Todos DEF Pops
  <2>3. k.todo # L5
    BY <2>2, Apart
  <2> QED BY <2>1, <2>2, <2>3 DEF Shape, Downhill, Pops
<1> QED BY <1>1, <1>2

(* A failed job still has a shape. *)
LEMMA Failing ==
  ASSUME NEW j \in Jobs, NEW k \in Jobs, Shape(j), Fails(j, k)
  PROVE  Shape(k) /\ Downhill(j, k)
BY Todos DEF Shape, LoadShape, Fails, Downhill

(* What a first step says about the kind of job. *)
LEMMA KindOf ==
  ASSUME NEW j \in Jobs, Shape(j), j.todo # <<>>
  PROVE  /\ j.kind \in {"load", "eval"}
         /\ Head(j.todo) \in {"eval", "rev", "toplevels", "label"} => j.kind = "eval"
         /\ Head(j.todo) \in {"reload", "aggregate", "inspect"} => j.kind = "load"
         /\ Head(j.todo) = "reload" => j.todo = L5
         /\ Head(j.todo) = "aggregate" => j.todo = A2
         /\ Tail(j.todo) = <<>> => Head(j.todo) \in {"inspect", "eval", "label"}
BY Todos DEF Shape, LoadShape

(* Owing, view and route after a step of the job alone. *)
LEMMA DownhillKeeps ==
  ASSUME NEW t \in Tuis, NEW u \in UIs, NEW j \in Jobs, NEW k \in Jobs, Downhill(j, k)
  PROVE  /\ Owes(u, j) => Owes(u, k)
         /\ Cleared(u, j) => Cleared(u, k)
         /\ Route(t, j) => Route(t, k)
BY DEF Downhill, Owes, Cleared, Route

(* A call whose leader dies is retried, settled, or untouched. *)
LEMMA FailedOverFields ==
  ASSUME TypeOK, NEW c \in Clients
  PROVE  /\ FailedOver(c) \in Jobs
         /\ c \in Tuis /\ Shape(task[c]) =>
              /\ FailedOver(c).kind = task[c].kind /\ Shape(FailedOver(c))
              /\ HonestJob(task[c]) => HonestJob(FailedOver(c))
<1> DEFINE j == [task[c] EXCEPT !.lazy = 0]
           r == [j EXCEPT !.todo = <<"nodes", "rev", "eval">>, !.got = <<>>]
<1>1. task[c] \in Jobs /\ 0 \in Revs /\ <<>> \in Seq(Revs) /\ E3 \in Seq(Steps)
  BY ExplorerAssumption, Todos DEF TypeOK, Revs
<1>2. /\ j \in Jobs /\ j.kind = task[c].kind /\ j.todo = task[c].todo /\ j.got = task[c].got
      /\ j.label = task[c].label /\ j.of = task[c].of /\ j.key = task[c].key /\ j.ok = task[c].ok
      /\ j.stale = task[c].stale
  BY <1>1 DEF Jobs
<1>3. Shape(task[c]) => Shape(j) /\ (HonestJob(task[c]) => HonestJob(j))
  BY <1>2 DEF Shape, LoadShape, HonestJob
<1> HIDE DEF j
<1>4. CASE At(c, {"reload"})
  <2>1. FailedOver(c) = Settled(c, Popped(j))
    BY <1>4 DEF FailedOver, j
  <2>2. j.todo # <<>> /\ Head(j.todo) = "reload"
    BY <1>2, <1>4 DEF At
  <2>3. /\ Popped(j) \in Jobs /\ Pops(j, Popped(j))
        /\ Popped(j).got = j.got /\ Popped(j).of = j.of /\ Popped(j).key = j.key
    BY <1>2, <2>2, PlainPop
  <2>4. FailedOver(c) \in Jobs /\ (c \in Tuis => FailedOver(c) = Popped(j))
    BY <2>1, <2>3, SettledIs, NoneFields
  <2>5. ASSUME Shape(j)
        PROVE  Shape(Popped(j)) /\ j.kind = "load" /\ (HonestJob(j) => HonestJob(Popped(j)))
    <3>1. j.kind = "load"
      BY <1>2, <2>2, <2>5, KindOf
    <3>2. Shape(Popped(j))
      BY <1>2, <2>2, <2>3, <2>5, Popping DEF Reads
    <3> QED BY <2>3, <3>1, <3>2 DEF HonestJob, Pops
  <2> QED BY <1>2, <1>3, <2>3, <2>4, <2>5 DEF Pops
<1>5. CASE ~At(c, {"reload"}) /\ (At(c, {"rev", "eval"}) \/ (At(c, Reads) /\ task[c].kind = "eval"))
  <2>1. FailedOver(c) = r
    BY <1>5 DEF FailedOver, j
  <2>2. /\ r \in Jobs /\ r.kind = j.kind /\ r.todo = E3 /\ r.of = j.of /\ r.key = j.key
    BY <1>1, <1>2 DEF Jobs, E3
  <2>3. task[c].todo # <<>> /\ (Head(task[c].todo) \in {"rev", "eval"} \/ task[c].kind = "eval")
    BY <1>5 DEF At
  <2>4. ASSUME Shape(task[c]) PROVE task[c].kind = "eval"
    BY <1>1, <2>3, <2>4, KindOf
  <2>5. ASSUME Shape(task[c]) PROVE Shape(r) /\ HonestJob(r)
    BY <1>2, <2>2, <2>4, <2>5, Todos DEF Shape, HonestJob
  <2> HIDE DEF r
  <2> QED BY <1>2, <2>1, <2>2, <2>5
<1>6. CASE ~At(c, {"reload"}) /\ ~(At(c, {"rev", "eval"}) \/ (At(c, Reads) /\ task[c].kind = "eval"))
  <2>1. FailedOver(c) = j
    BY <1>6 DEF FailedOver, j
  <2> QED BY <1>2, <1>3, <2>1
<1> QED BY <1>4, <1>5, <1>6

-----------------------------------------------------------------------------
(* The event loop of one explorer. *)

(* t's state and job become new ones that owe nothing; the others stay. *)
Applied(t) ==
  /\ ui' \in [Tuis -> UIs] /\ task' \in [Clients -> Jobs]
  /\ \A d \in Tuis \ {t} : ui'[d] = ui[d]
  /\ \A d \in Clients \ {t} : task'[d] = task[d]
  /\ Shape(task'[t]) /\ Owes(ui'[t], task'[t])
  /\ HonestJob(task[t]) => HonestJob(task'[t])
  /\ HonestJob(task[t]) /\ HonestUI(ui[t]) => HonestUI(ui'[t])
  /\ task'[t].lazy = 0 \/ (task'[t].lazy = task[t].lazy /\ task'[t].todo = task[t].todo)

(* Put changes one explorer and its job. *)
LEMMA PutFields ==
  ASSUME TypeOK, NEW t \in Tuis, NEW v \in UIs, NEW k \in Jobs, NEW s, s[1] = v, s[2] = k, Put(t, s)
  PROVE  /\ ui' \in [Tuis -> UIs] /\ task' \in [Clients -> Jobs]
         /\ \A d \in Tuis \ {t} : ui'[d] = ui[d]
         /\ \A d \in Clients \ {t} : task'[d] = task[d]
         /\ ui'[t] = v /\ task'[t] = k
<1>1. t \in Clients
  BY DEF Clients
<1> QED BY <1>1 DEF Put, TypeOK

(* request_reload and request_inventory_swap. *)
LEMMA RebindApplied ==
  ASSUME TypeOK, JobInv, NEW t \in Tuis, NEW fresh \in BOOLEAN, Put(t, RequestRebind(t, Get(t), fresh))
  PROVE  /\ Applied(t) /\ Blank(ui'[t], task'[t])
         /\ Route(t, task[t]) => ViewOf(t, ui'[t], task'[t])
<1> DEFINE u == ui[t]  j == task[t]  s == RequestRebind(t, <<u, j>>, fresh)
<1>1. u \in UIs /\ j \in Jobs /\ Shape(j) /\ Owes(u, j)
  BY DEF TypeOK, Clients, JobInv
<1>2. Sound(u, j)
  BY <1>1 DEF Sound, Owes
<1>3. Put(t, s)
  BY DEF Get
<1>4. /\ s[1] \in UIs /\ s[2] \in Jobs /\ Shape(s[2]) /\ Owes(s[1], s[2])
      /\ HonestJob(j) => HonestJob(s[2])
      /\ HonestUI(s[1])
      /\ s[2].lazy = j.lazy \/ s[2].lazy = 0
      /\ s[2].todo = j.todo \/ s[2].lazy = 0
      /\ Blank(s[1], s[2])
      /\ Route(t, j) => ViewOf(t, s[1], s[2])
  BY <1>1, <1>2, Rebound
<1> HIDE DEF s
<1>5. /\ ui' \in [Tuis -> UIs] /\ task' \in [Clients -> Jobs]
      /\ \A d \in Tuis \ {t} : ui'[d] = ui[d]
      /\ \A d \in Clients \ {t} : task'[d] = task[d]
      /\ ui'[t] = s[1] /\ task'[t] = s[2]
  BY <1>3, <1>4, PutFields
<1> QED BY <1>4, <1>5 DEF Applied

(* refresh_drift *)
LEMMA RefreshApplied ==
  ASSUME TypeOK, JobInv, NEW t \in Tuis, Put(t, RefreshDrift(t, Get(t)))
  PROVE  /\ Applied(t)
         /\ ViewOf(t, ui[t], task[t]) => ViewOf(t, ui'[t], task'[t])
<1> DEFINE u == ui[t]  j == task[t]  s == RefreshDrift(t, <<u, j>>)
<1>1. u \in UIs /\ j \in Jobs /\ Shape(j) /\ Owes(u, j)
  BY DEF TypeOK, Clients, JobInv
<1>2. Put(t, s)
  BY DEF Get
<1>3. /\ s[1] \in UIs /\ s[2] \in Jobs /\ Shape(s[2]) /\ Owes(s[1], s[2])
      /\ s[2] = j \/ s[2] = StartEval(t)
      /\ HonestJob(j) => HonestJob(s[2])
      /\ HonestUI(u) => HonestUI(s[1])
      /\ ViewOf(t, u, j) => ViewOf(t, s[1], s[2])
  BY <1>1, DriftRefreshed
<1>4. s[2].lazy = 0 \/ s[2] = j
  BY <1>3, NewJobs
<1> HIDE DEF s
<1>5. /\ ui' \in [Tuis -> UIs] /\ task' \in [Clients -> Jobs]
      /\ \A d \in Tuis \ {t} : ui'[d] = ui[d]
      /\ \A d \in Clients \ {t} : task'[d] = task[d]
      /\ ui'[t] = s[1] /\ task'[t] = s[2]
  BY <1>2, <1>3, PutFields
<1> QED BY <1>3, <1>4, <1>5 DEF Applied

(* fill paints a whole load that is neither stale nor failed. *)
LEMMA Filled ==
  ASSUME NEW t \in Tuis, NEW u \in UIs, NEW j \in Jobs, j.kind = "load", j.todo = <<>>, Shape(j),
         j.ok, ~j.stale
  PROVE  LET v == Fill(u, j) IN
         /\ v \in UIs /\ ~v.busy /\ v.evalRunning = u.evalRunning /\ v.freshWanted = u.freshWanted
         /\ v.reloadPending = u.reloadPending /\ v.evalPending = u.evalPending
         /\ HonestJob(j) => HonestUI(v)
         /\ ViewOf(t, u, j) => ViewOf(t, v, None)
<1> DEFINE e == IF CacheFresh(j.key, j.label) THEN j.of ELSE u.expected
           v == [u EXCEPT !.inv = j.got, !.rev = j.label, !.cached = j.key, !.busy = FALSE, !.expected = e]
<1>1. Fill(u, j) = v
  BY DEF Fill
<1>2. e \in Revs /\ j.got \in Seq(Revs) /\ j.label \in Revs /\ j.key \in Revs
  BY DEF UIs, Jobs
<1>3. /\ v \in UIs /\ v.busy = FALSE /\ v.evalRunning = u.evalRunning /\ v.freshWanted = u.freshWanted
      /\ v.reloadPending = u.reloadPending /\ v.evalPending = u.evalPending
      /\ v.inv = j.got /\ v.rev = j.label /\ v.cached = j.key /\ v.expected = e
  BY <1>2 DEF UIs
<1>4. HonestJob(j) => HonestUI([u EXCEPT !.inv = j.got, !.rev = j.label, !.cached = j.key, !.busy = FALSE, !.expected = e])
  <2> HIDE DEF v, e
  <2>1. HonestJob(j) => HonestUI(v)
    BY <1>3 DEF HonestJob, HonestUI, CacheFresh, e
  <2> QED BY <2>1 DEF v
<1>5. ViewOf(t, u, j) => ViewOf(t, v, None)
  <2> HIDE DEF v, e
  <2>1. None.kind = "none" /\ None.todo = <<>>
    BY NoneFields
  <2>2. Len(j.got) = 3
    BY Todos DEF Shape, LoadShape
  <2>3. ASSUME ViewOf(t, u, j) PROVE ~u.freshWanted /\ \A i \in 1..Len(j.got) : Good(t, j.got[i])
    BY <2>3 DEF ViewOf, Cleared
  <2>4. ASSUME ViewOf(t, u, j) PROVE Cleared(v, None) /\ Route(t, None)
    BY <1>3, <2>1, <2>3, <2>4, Todos DEF Cleared, Route
  <2> QED BY <1>3, <2>1, <2>2, <2>3, <2>4 DEF ViewOf
<1> QED BY <1>1, <1>3, <1>4, <1>5

(* on_load_finished *)
LEMMA LoadApplied ==
  ASSUME TypeOK, JobInv, NEW t \in Tuis, LoadFinished(t)
  PROVE  /\ Applied(t)
         /\ ViewOf(t, ui[t], task[t]) => ViewOf(t, ui'[t], task'[t])
<1> DEFINE u == ui[t]
           j == task[t]
           v == IF j.stale \/ ~j.ok THEN [u EXCEPT !.busy = FALSE] ELSE Fill(u, j)
           r == ConsumePendingReload(t, <<v, None>>)
           s == StartPendingEval(t, r)
<1>1. u \in UIs /\ j \in Jobs /\ Shape(j) /\ Owes(u, j)
  BY DEF TypeOK, Clients, JobInv
<1>2. j.kind = "load" /\ j.todo = <<>> /\ Put(t, s)
  BY DEF LoadFinished, Done
<1>3. None.kind = "none" /\ None.todo = <<>>
  BY NoneFields
<1>4. /\ v \in UIs /\ ~v.busy /\ v.evalRunning = u.evalRunning /\ v.freshWanted = u.freshWanted
      /\ v.reloadPending = u.reloadPending
      /\ HonestJob(j) /\ HonestUI(u) => HonestUI(v)
      /\ ViewOf(t, u, j) => ViewOf(t, v, None)
  <2>1. CASE j.stale \/ ~j.ok
    <3> DEFINE w == [u EXCEPT !.busy = FALSE]
    <3>1. /\ w \in UIs /\ w.busy = FALSE /\ w.evalRunning = u.evalRunning /\ w.freshWanted = u.freshWanted
          /\ w.reloadPending = u.reloadPending /\ w.inv = u.inv /\ w.rev = u.rev /\ w.cached = u.cached
          /\ w.expected = u.expected
      BY <1>1 DEF UIs
    <3>2. v = w
      BY <2>1
    <3> HIDE DEF w, v
    <3>3. HonestUI(u) => HonestUI(w)
      BY <3>1 DEF HonestUI
    <3>4. ViewOf(t, u, j) => ViewOf(t, w, None)
      BY <1>3, <3>1, Todos DEF ViewOf, Cleared, Route
    <3> QED BY <3>1, <3>2, <3>3, <3>4
  <2>2. CASE ~(j.stale \/ ~j.ok)
    <3>1. v = Fill(u, j)
      BY <2>2
    <3>2. j.ok /\ ~j.stale
      BY <2>2
    <3> QED BY <1>1, <1>2, <3>1, <3>2, Filled
  <2> QED BY <2>1, <2>2
<1> HIDE DEF v
<1>5. ~v.evalRunning /\ (v.freshWanted => v.reloadPending)
  BY <1>1, <1>2, <1>4 DEF Owes
<1>6. /\ r[1] \in UIs /\ r[2] \in Jobs /\ Shape(r[2]) /\ HonestJob(r[2]) /\ r[2].lazy = 0
      /\ r[1].busy \/ ~r[1].evalPending => Owes(r[1], r[2])
      /\ ~r[1].busy => r[2] = None /\ ~r[1].evalRunning /\ ~r[1].reloadPending /\ ~r[1].freshWanted
      /\ HonestUI(v) => HonestUI(r[1])
      /\ ViewOf(t, v, None) => ViewOf(t, r[1], r[2])
  BY <1>4, <1>5, ReloadConsumed
<1>7. r = <<r[1], r[2]>>
  BY DEF ConsumePendingReload, RequestLoad
<1> HIDE DEF r
<1>8. /\ s[1] \in UIs /\ s[2] \in Jobs /\ Shape(s[2]) /\ HonestJob(s[2]) /\ s[2].lazy = 0 /\ Owes(s[1], s[2])
      /\ HonestUI(r[1]) => HonestUI(s[1])
      /\ ViewOf(t, r[1], r[2]) => ViewOf(t, s[1], s[2])
  BY <1>6, <1>7, EvalStarted
<1> HIDE DEF s
<1>9. /\ ui' \in [Tuis -> UIs] /\ task' \in [Clients -> Jobs]
      /\ \A d \in Tuis \ {t} : ui'[d] = ui[d]
      /\ \A d \in Clients \ {t} : task'[d] = task[d]
      /\ ui'[t] = s[1] /\ task'[t] = s[2]
  BY <1>2, <1>8, PutFields
<1> QED BY <1>4, <1>6, <1>8, <1>9 DEF Applied

(* on_drift_eval_finished *)
LEMMA EvalApplied ==
  ASSUME TypeOK, JobInv, NEW t \in Tuis, DriftEvalFinished(t)
  PROVE  /\ Applied(t)
         /\ ViewOf(t, ui[t], task[t]) => ViewOf(t, ui'[t], task'[t])
<1> DEFINE u == ui[t]
           j == task[t]
           w == [u EXCEPT !.busy = FALSE, !.evalRunning = FALSE]
           v == IF j.ok THEN [w EXCEPT !.rev = j.label, !.cached = j.label, !.expected = j.of]
                ELSE [w EXCEPT !.expected = 0]
           s == ConsumePendingReload(t, <<v, None>>)
<1>1. u \in UIs /\ j \in Jobs /\ Shape(j) /\ Owes(u, j)
  BY DEF TypeOK, Clients, JobInv
<1>2. j.kind = "eval" /\ j.todo = <<>> /\ Put(t, s)
  BY DEF DriftEvalFinished, Done
<1>3. None.kind = "none" /\ None.todo = <<>>
  BY NoneFields
<1>4. 0 \in Revs /\ j.label \in Revs /\ j.of \in Revs
  BY <1>1, ExplorerAssumption DEF Revs, Jobs
<1>5. /\ w \in UIs /\ w.busy = FALSE /\ w.evalRunning = FALSE /\ w.freshWanted = u.freshWanted
      /\ w.reloadPending = u.reloadPending /\ w.evalPending = u.evalPending /\ w.inv = u.inv
  BY <1>1 DEF UIs
<1> HIDE DEF w
<1>6. /\ v \in UIs /\ v.busy = FALSE /\ v.evalRunning = FALSE /\ v.freshWanted = u.freshWanted
      /\ v.reloadPending = u.reloadPending /\ v.evalPending = u.evalPending /\ v.inv = u.inv
      /\ j.ok => v.rev = j.label /\ v.cached = j.label /\ v.expected = j.of
      /\ ~j.ok => v.expected = 0
  <2>1. CASE j.ok
    BY <1>4, <1>5, <2>1 DEF UIs
  <2>2. CASE ~j.ok
    BY <1>4, <1>5, <2>2 DEF UIs
  <2> QED BY <2>1, <2>2
<1> HIDE DEF v
<1>7. ~v.busy /\ ~v.evalRunning /\ ~v.evalPending /\ (v.freshWanted => v.reloadPending)
  BY <1>1, <1>2, <1>6 DEF Owes
<1>8. HonestJob(j) => HonestUI(v)
  BY <1>2, <1>6 DEF HonestJob, HonestUI, CacheFresh
<1>9. ViewOf(t, u, j) => ViewOf(t, v, None)
  BY <1>3, <1>6, Todos DEF ViewOf, Cleared, Route
<1>10. /\ s[1] \in UIs /\ s[2] \in Jobs /\ Shape(s[2]) /\ HonestJob(s[2]) /\ s[2].lazy = 0 /\ Owes(s[1], s[2])
       /\ HonestUI(v) => HonestUI(s[1])
       /\ ViewOf(t, v, None) => ViewOf(t, s[1], s[2])
  BY <1>6, <1>7, ReloadConsumed
<1> HIDE DEF s
<1>11. /\ ui' \in [Tuis -> UIs] /\ task' \in [Clients -> Jobs]
       /\ \A d \in Tuis \ {t} : ui'[d] = ui[d]
       /\ \A d \in Clients \ {t} : task'[d] = task[d]
       /\ ui'[t] = s[1] /\ task'[t] = s[2]
  BY <1>2, <1>10, PutFields
<1> QED BY <1>8, <1>9, <1>10, <1>11 DEF Applied

(* t's flags and view stay, and all jobs. *)
Repainted(t) ==
  /\ ui' \in [Tuis -> UIs] /\ task' = task
  /\ \A d \in Tuis \ {t} : ui'[d] = ui[d]
  /\ ui'[t].inv = ui[t].inv /\ ui'[t].busy = ui[t].busy /\ ui'[t].evalRunning = ui[t].evalRunning
  /\ ui'[t].evalPending = ui[t].evalPending /\ ui'[t].reloadPending = ui[t].reloadPending
  /\ ui'[t].freshWanted = ui[t].freshWanted

(* on_mcp_drift_landed: the cache is adopted under the rev it is keyed by. *)
LEMMA DriftApplied ==
  ASSUME TypeOK, NEW t \in Tuis, Put(t, <<DriftLanded(ui[t]), task[t]>>)
  PROVE  Repainted(t) /\ (cache.label = cache.of => HonestUI(ui'[t]))
<1> DEFINE u == ui[t]
           e == IF CacheFresh(cache.label, head) THEN cache.of ELSE u.expected
           v == [u EXCEPT !.rev = head, !.cached = cache.label, !.expected = e]
<1>1. u \in UIs /\ head \in Revs /\ cache.label \in Revs /\ cache.of \in Revs /\ e \in Revs
  BY DEF TypeOK, UIs
<1>2. DriftLanded(u) = v
  BY DEF DriftLanded, RepoRev
<1>3. /\ v \in UIs /\ v.inv = u.inv /\ v.busy = u.busy /\ v.evalRunning = u.evalRunning
      /\ v.evalPending = u.evalPending /\ v.reloadPending = u.reloadPending /\ v.freshWanted = u.freshWanted
      /\ v.rev = head /\ v.cached = cache.label /\ v.expected = e
  BY <1>1 DEF UIs
<1> HIDE DEF v
<1>4. ui' = [ui EXCEPT ![t] = v] /\ task' = [task EXCEPT ![t] = task[t]]
  BY <1>2 DEF Put
<1>5. task' = task
  BY <1>4 DEF TypeOK, Clients
<1>6. ui' \in [Tuis -> UIs] /\ ui'[t] = v /\ \A d \in Tuis \ {t} : ui'[d] = ui[d]
  BY <1>3, <1>4 DEF TypeOK
<1>7. cache.label = cache.of => HonestUI(v)
  BY <1>3 DEF HonestUI, CacheFresh
<1> QED BY <1>3, <1>5, <1>6, <1>7 DEF Repainted

(* on_survey_done *)
LEMMA SurveyApplied ==
  ASSUME TypeOK, NEW t \in Tuis, SurveyDone(t)
  PROVE  Repainted(t) /\ (HonestUI(ui[t]) => HonestUI(ui'[t]))
<1> DEFINE u == ui[t]
           v == [u EXCEPT !.surveying = FALSE]
<1>1. u \in UIs
  BY DEF TypeOK
<1>2. /\ v \in UIs /\ v.inv = u.inv /\ v.busy = u.busy /\ v.evalRunning = u.evalRunning
      /\ v.evalPending = u.evalPending /\ v.reloadPending = u.reloadPending /\ v.freshWanted = u.freshWanted
      /\ v.rev = u.rev /\ v.cached = u.cached /\ v.expected = u.expected
  BY <1>1 DEF UIs
<1>3. ui' = [ui EXCEPT ![t] = v] /\ task' = task
  BY DEF SurveyDone
<1> HIDE DEF v
<1>4. ui' \in [Tuis -> UIs] /\ ui'[t] = v /\ \A d \in Tuis \ {t} : ui'[d] = ui[d]
  BY <1>2, <1>3 DEF TypeOK
<1>5. HonestUI(u) => HonestUI(v)
  BY <1>2 DEF HonestUI
<1> QED BY <1>2, <1>3, <1>4, <1>5 DEF Repainted

(* Repainting keeps what is owed and shown. *)
LEMMA RepaintKeeps ==
  ASSUME NEW t \in Tuis, Repainted(t)
  PROVE  /\ Owes(ui[t], task[t]) => Owes(ui'[t], task'[t])
         /\ ViewOf(t, ui[t], task[t]) => ViewOf(t, ui'[t], task'[t])
BY DEF Repainted, Owes, ViewOf, Cleared

-----------------------------------------------------------------------------
(* Announcements. *)

(* emit reaches the living explorers that have joined. *)
LEMMA EmitFields ==
  ASSUME TypeOK, NEW tool \in {"reload", "drift"}, NEW c \in Clients, NEW r \in Revs,
         inbox' = Emit(inbox, tool, c, r)
  PROVE  /\ inbox' \in [Tuis -> Seq(Events)]
         /\ \A t \in Tuis :
              \/ inbox'[t] = inbox[t] /\ ~(alive[t] /\ role[t] # "none")
              \/ inbox'[t] = Append(inbox[t], [tool |-> tool, origin |-> Origin(c), rev |-> r])
<1> DEFINE e == [tool |-> tool, origin |-> Origin(c), rev |-> r]
<1>1. e \in Events
  BY DEF Events, Origin
<1> HIDE DEF e
<1>2. \A t \in Tuis : Append(inbox[t], e) \in Seq(Events) /\ inbox[t] \in Seq(Events)
  BY <1>1 DEF TypeOK
<1>3. inbox' = [t \in Tuis |-> IF alive[t] /\ role[t] # "none" THEN Append(inbox[t], e) ELSE inbox[t]]
  BY DEF Emit, e
<1>4. inbox' \in [Tuis -> Seq(Events)]
  BY <1>2, <1>3
<1>5. \A t \in Tuis : \/ inbox'[t] = inbox[t] /\ ~(alive[t] /\ role[t] # "none")
                      \/ inbox'[t] = Append(inbox[t], e)
  BY <1>3
<1> QED BY <1>4, <1>5 DEF e

(* Handling an event pops it. *)
LEMMA HandleBox ==
  ASSUME TypeOK, NEW t \in Tuis, Handle(t)
  PROVE  /\ inbox' \in [Tuis -> Seq(Events)] /\ inbox[t] # <<>> /\ inbox[t] \in Seq(Events)
         /\ inbox'[t] = Tail(inbox[t]) /\ \A d \in Tuis \ {t} : inbox'[d] = inbox[d]
         /\ Head(inbox[t]) \in Events
<1>1. inbox[t] \in Seq(Events) /\ inbox[t] # <<>>
  BY DEF TypeOK, Handle
<1>2. Tail(inbox[t]) \in Seq(Events) /\ Head(inbox[t]) \in Events
  BY <1>1
<1> QED BY <1>1, <1>2 DEF TypeOK, Handle

-----------------------------------------------------------------------------
(* Types. *)

(* What an input and a fault add. *)
LEMMA SpentTypes ==
  ASSUME TypeOK
  PROVE  /\ Fault => spent' \in [inputs : Nat, faults : Nat] /\ spent'.faults = spent.faults + 1
         /\ Input => spent' \in [inputs : Nat, faults : Nat] /\ spent'.faults = spent.faults
BY DEF TypeOK, Fault, Input

(* The types hold at first. *)
LEMMA InitType ==
  Init => TypeOK
<1> SUFFICES ASSUME Init PROVE TypeOK
  OBVIOUS
<1>1. 0 \in Revs /\ 1 \in Revs /\ <<>> \in Seq(Revs) /\ All(1) \in Seq(Revs)
  BY ExplorerAssumption DEF Revs, All
<1>2. leader \in Tuis \cup {Agent}
  BY ExplorerAssumption DEF Init
<1>3. ui \in [Tuis -> UIs]
  <2>1. Fresh0 \in UIs
    BY <1>1 DEF Fresh0, UIs
  <2>2. [Fresh0 EXCEPT !.busy = TRUE] \in UIs
    BY <2>1 DEF UIs
  <2>3. [Fresh0 EXCEPT !.inv = All(1), !.rev = 1, !.cached = 1, !.expected = 1] \in UIs
    BY <1>1, <2>1 DEF UIs
  <2> QED BY <2>2, <2>3 DEF Init
<1>4. role \in [Tuis -> {"leader", "observer", "none"}]
  BY DEF Init, JoinContext
<1>5. task \in [Clients -> Jobs]
  <2>1. \A c \in Clients : StartLoad(c, FALSE) \in Jobs /\ None \in Jobs
    BY StartFields, NoneFields
  <2> QED BY <2>1 DEF Init
<1>6. inbox \in [Tuis -> Seq(Events)]
  BY DEF Init
<1> QED BY <1>1, <1>2, <1>3, <1>4, <1>5, <1>6 DEF Init, TypeOK

(* Every step keeps the types. *)
LEMMA TypeStep ==
  TypeOK /\ JobInv /\ [Next]_vars => TypeOK'
<1> SUFFICES ASSUME TypeOK, JobInv, [Next]_vars PROVE TypeOK'
  OBVIOUS
<1>a. \A c, k : Taken(c, k) => task' \in [Clients -> Jobs]
  BY DEF Taken
<1>b. \A t : Applied(t) => ui' \in [Tuis -> UIs] /\ task' \in [Clients -> Jobs]
  BY DEF Applied
<1>c. Tuis \subseteq Clients /\ Agent \in Clients /\ Watch \in Clients /\ 0 \in Revs
  BY ExplorerAssumption DEF Clients, Revs
<1>d. ASSUME NEW w \in Revs PROVE [srv EXCEPT !.worker = w] \in [inv : Revs, worker : Revs]
  BY <1>d DEF TypeOK
<1>e. ASSUME NEW w \in Revs PROVE [srv EXCEPT !.inv = w] \in [inv : Revs, worker : Revs]
  BY <1>e DEF TypeOK
<1>1. CASE MoveHead
  <2>1. head' \in Revs
    BY <1>1, ExplorerAssumption DEF MoveHead, TypeOK, Revs
  <2>2. UNCHANGED <<leader, srv, cache, seen, ui, role, task, inbox, alive, history, spent>>
    BY <1>1 DEF MoveHead
  <2> QED BY <2>1, <2>2 DEF TypeOK, history
<1>2. ASSUME NEW t \in Tuis, Press(t) PROVE TypeOK'
  <2>1. Applied(t)
    <3>1. CASE Put(t, RequestReload(t, Get(t)))
      BY <3>1, RebindApplied DEF RequestReload
    <3>2. CASE Put(t, RefreshDrift(t, Get(t)))
      BY <3>2, RefreshApplied
    <3> QED BY <1>2, <3>1, <3>2 DEF Press
  <2> QED BY <1>2, <1>b, <2>1, SpentTypes DEF Press, TypeOK, world, history
<1>3. CASE AgentCalls
  <2>1. ASSUME NEW todo \in {<<"members">>, <<"nodes", "rev", "eval">>, <<"reload">>}
        PROVE  Job("call", todo) \in Jobs
    <3>1. <<"members">> \in Seq(Steps) /\ <<"reload">> \in Seq(Steps) /\ <<"nodes", "rev", "eval">> \in Seq(Steps)
      BY DEF Steps
    <3>2. todo \in Seq(Steps)
      BY <2>1, <3>1
    <3> QED BY <3>2, JobFields
  <2>2. task' \in [Clients -> Jobs]
    BY <1>3, <1>a, <1>c, <2>1, Became DEF AgentCalls
  <2> QED BY <1>3, <2>2, SpentTypes DEF AgentCalls, TypeOK, world, history
<1>4. CASE LeaderSeesHead
  <2>1. Job("call", <<"reload">>) \in Jobs
    <3>1. <<"reload">> \in Seq(Steps)
      BY DEF Steps
    <3> QED BY <3>1, JobFields
  <2>2. task' \in [Clients -> Jobs]
    BY <1>4, <1>a, <1>c, <2>1, Became DEF LeaderSeesHead
  <2> QED BY <1>4, <2>2 DEF LeaderSeesHead, TypeOK, history
<1>5. ASSUME NEW t \in Tuis, SoloSeesHead(t) PROVE TypeOK'
  <2>1. Applied(t)
    BY <1>5, RebindApplied DEF SoloSeesHead, RequestReload
  <2> QED BY <1>5, <1>b, <2>1 DEF SoloSeesHead, TypeOK, history
<1>6. ASSUME NEW c \in Clients, FreshInventory(c) PROVE TypeOK'
  <2>1. task' \in [Clients -> Jobs]
    BY <1>6, <1>a, FreshJob
  <2>2. srv' \in [inv : Revs, worker : Revs]
    BY <1>6, <1>d DEF FreshInventory, TypeOK
  <2> QED BY <1>6, <2>1, <2>2 DEF FreshInventory, TypeOK, world, history
<1>7. ASSUME NEW c \in Clients, FreshInventoryFails(c) PROVE TypeOK'
  <2>1. task' \in [Clients -> Jobs]
    BY <1>7, <1>a, FreshFailsJob
  <2>2. srv' \in [inv : Revs, worker : Revs]
    <3>1. 0 \in Revs /\ head \in Revs /\ srv.worker \in Revs
      BY ZeroRev DEF TypeOK
    <3> QED BY <1>7, <1>d, <3>1 DEF FreshInventoryFails
  <2> QED BY <1>7, <2>1, <2>2, SpentTypes DEF FreshInventoryFails, TypeOK, world, history
<1>8. ASSUME NEW c \in Clients, ToolReload(c) PROVE TypeOK'
  <2>1. task' \in [Clients -> Jobs]
    BY <1>8, <1>a, ReloadJob
  <2>2. task[c].lazy \in Revs
    BY DEF TypeOK, Jobs
  <2>3. srv' \in [inv : Revs, worker : Revs]
    BY <1>8, <1>e, <2>2 DEF ToolReload
  <2>4. inbox' \in [Tuis -> Seq(Events)]
    BY <1>8, <2>2, EmitFields DEF ToolReload
  <2> QED BY <1>8, <2>1, <2>3, <2>4 DEF ToolReload, TypeOK, world
<1>9. ASSUME NEW c \in Clients, LazyInventory(c) PROVE TypeOK'
  <2>1. task' \in [Clients -> Jobs]
    BY <1>9, <1>a, LazyJob DEF ReadsInto
  <2>2. task[c].lazy \in Revs
    BY DEF TypeOK, Jobs
  <2>3. srv' \in [inv : Revs, worker : Revs]
    BY <1>9, <1>e, <2>2 DEF LazyInventory
  <2> QED BY <1>9, <2>1, <2>3 DEF LazyInventory, TypeOK, world
<1>10. ASSUME NEW c \in Clients, ToolRead(c) PROVE TypeOK'
  <2>1. task' \in [Clients -> Jobs]
    BY <1>10, <1>a, ReadJob DEF ReadsInto
  <2> QED BY <1>10, <2>1 DEF ToolRead, TypeOK, world, history
<1>11. ASSUME NEW c \in Clients, ToolDriftRev(c) PROVE TypeOK'
  <2>1. task' \in [Clients -> Jobs]
    BY <1>11, <1>a, RevJob DEF LabelsAs
  <2> QED BY <1>11, <2>1 DEF ToolDriftRev, TypeOK, world, history
<1>12. ASSUME NEW c \in Clients, ToolDriftEval(c) PROVE TypeOK'
  <2>1. task' \in [Clients -> Jobs]
    BY <1>12, <1>a, EvalJob
  <2>2. WarmContracts \subseteq Revs /\ 0 \in Revs /\ task[c].label \in Revs
    BY WarmType, ZeroRev DEF TypeOK, Jobs
  <2>3. srv' \in [inv : Revs, worker : Revs]
    BY <1>12, <1>d, <2>2 DEF ToolDriftEval
  <2>4. inbox' \in [Tuis -> Seq(Events)]
    BY <1>12, <1>c, EmitFields DEF ToolDriftEval
  <2>5. cache' \in [label : Revs, of : Revs] /\ spent' \in [inputs : Nat, faults : Nat]
    <3>1. CASE \E of \in WarmContracts : SaveExpected(task[c].label, of) /\ UNCHANGED spent
      BY <2>2, <3>1 DEF SaveExpected, TypeOK
    <3>2. CASE UNCHANGED cache /\ Fault
      BY <3>2, SpentTypes DEF TypeOK
    <3> QED BY <1>12, <3>1, <3>2, Zenon DEF ToolDriftEval
  <2> QED BY <1>12, <2>1, <2>3, <2>4, <2>5 DEF ToolDriftEval, TypeOK, world
<1>13. ASSUME NEW t \in Tuis, Aggregate(t) PROVE TypeOK'
  <2>1. task' \in [Clients -> Jobs]
    BY <1>13, <1>a, AggregateJob
  <2>2. spent' \in [inputs : Nat, faults : Nat]
    BY <1>13, SpentTypes DEF Aggregate, TypeOK
  <2> QED BY <1>13, <2>1, <2>2 DEF Aggregate, TypeOK, world, history
<1>14. ASSUME NEW t \in Tuis, Inspect(t) PROVE TypeOK'
  <2>1. task' \in [Clients -> Jobs]
    BY <1>14, <1>a, InspectJob
  <2> QED BY <1>14, <2>1 DEF Inspect, TypeOK, world, history
<1>15. ASSUME NEW t \in Tuis, Toplevels(t) PROVE TypeOK'
  <2>1. task' \in [Clients -> Jobs]
    BY <1>15, <1>a, ToplevelsJob
  <2>2. spent' \in [inputs : Nat, faults : Nat]
    BY <1>15, SpentTypes DEF Toplevels, TypeOK
  <2> QED BY <1>15, <2>1, <2>2 DEF Toplevels, TypeOK, world, history
<1>16. ASSUME NEW t \in Tuis, Label(t) PROVE TypeOK'
  <2>1. task' \in [Clients -> Jobs]
    BY <1>16, <1>a, LabelJob DEF LabelsAs
  <2>2. task[t].of \in Revs
    BY <1>c DEF TypeOK, Jobs
  <2>3. cache' \in [label : Revs, of : Revs] /\ spent' \in [inputs : Nat, faults : Nat]
    BY <1>16, <2>2, SpentTypes DEF Label, SaveExpected, TypeOK, RepoRev
  <2> QED BY <1>16, <2>1, <2>3 DEF Label, TypeOK, world
<1>17. ASSUME NEW t \in Tuis, ContextGone(t) PROVE TypeOK'
  <2>1. task' \in [Clients -> Jobs]
    BY <1>17, <1>a, GoneJob
  <2> QED BY <1>17, <2>1, SpentTypes DEF ContextGone, TypeOK, world
<1>18. ASSUME NEW t \in Tuis, LoadFinished(t) PROVE TypeOK'
  <2>1. Applied(t)
    BY <1>18, LoadApplied
  <2>2. UNCHANGED <<world, srv, cache, role, inbox, history, spent>>
    BY <1>18 DEF LoadFinished
  <2> QED BY <1>b, <2>1, <2>2 DEF TypeOK, world, history
<1>19. ASSUME NEW t \in Tuis, DriftEvalFinished(t) PROVE TypeOK'
  <2>1. Applied(t)
    BY <1>19, EvalApplied
  <2>2. UNCHANGED <<world, srv, cache, role, inbox, history, spent>>
    BY <1>19 DEF DriftEvalFinished
  <2> QED BY <1>b, <2>1, <2>2 DEF TypeOK, world, history
<1>20. ASSUME NEW t \in Tuis, SurveyDone(t) PROVE TypeOK'
  BY <1>20, SurveyApplied DEF SurveyDone, Repainted, TypeOK, world, history
<1>21. ASSUME NEW t \in Tuis, Handle(t) PROVE TypeOK'
  <2> DEFINE e == Head(inbox[t])
  <2>1. inbox' \in [Tuis -> Seq(Events)] /\ e \in Events
    BY <1>21, HandleBox
  <2>2. e.rev \in Revs
    BY <2>1 DEF Events
  <2> HIDE DEF e
  <2>3. ui' \in [Tuis -> UIs] /\ task' \in [Clients -> Jobs]
    <3>1. CASE UNCHANGED <<ui, task>>
      BY <3>1 DEF TypeOK
    <3>2. CASE Put(t, <<DriftLanded(ui[t]), task[t]>>)
      <4>1. Repainted(t)
        BY <3>2, DriftApplied
      <4> QED BY <4>1 DEF Repainted, TypeOK
    <3>3. CASE Put(t, RequestInventorySwap(t, Get(t)))
      BY <3>3, <1>b, RebindApplied DEF RequestInventorySwap
    <3> QED BY <1>21, <3>1, <3>2, <3>3 DEF Handle
  <2>4. role' \in [Tuis -> {"leader", "observer", "none"}]
    BY <1>21 DEF Handle, TypeOK
  <2>5. landed' \in [Tuis -> Revs]
    <3>1. CASE landed' = landed
      BY <3>1 DEF TypeOK
    <3>2. CASE landed' = [landed EXCEPT ![t] = IF e.rev > @ THEN e.rev ELSE @]
      BY <2>2, <3>2 DEF TypeOK
    <3> QED BY <1>21, <3>1, <3>2 DEF Handle, e
  <2>6. UNCHANGED <<world, srv, cache, disturbed, mislabelled, spent>>
    BY <1>21 DEF Handle
  <2> QED BY <2>1, <2>3, <2>4, <2>5, <2>6 DEF TypeOK, world
<1>22. ASSUME NEW t \in Tuis, RolePoll(t) PROVE TypeOK'
  <2>1. [tool |-> "role", origin |-> t, rev |-> 0] \in Events
    BY <1>c DEF Events
  <2>2. inbox' \in [Tuis -> Seq(Events)]
    BY <1>22, <2>1 DEF RolePoll, TypeOK
  <2> QED BY <1>22, <2>2 DEF RolePoll, TypeOK, world, history
<1>23. CASE LeaderDies
  <2>1. PICK n \in (Tuis \cup {Agent}) \ {leader} :
          /\ leader' = n
          /\ alive' = [alive EXCEPT ![leader] = FALSE]
          /\ task' = [c \in Clients |-> IF c \in {leader, Watch} THEN None ELSE FailedOver(c)]
    BY <1>23 DEF LeaderDies
  <2>2. task' \in [Clients -> Jobs]
    BY <2>1, FailedOverFields, NoneFields
  <2>3. Fresh0 \in UIs
    BY <1>c DEF Fresh0, UIs
  <2>4. ui' \in [Tuis -> UIs]
    BY <1>23, <2>3 DEF LeaderDies, TypeOK
  <2>5. inbox' \in [Tuis -> Seq(Events)]
    BY <1>23 DEF LeaderDies, TypeOK
  <2>6. spent' \in [inputs : Nat, faults : Nat]
    BY <1>23, SpentTypes DEF LeaderDies
  <2>7. leader' \in Tuis \cup {Agent} /\ alive' \in [Clients -> BOOLEAN]
    BY <2>1 DEF TypeOK
  <2> QED BY <1>23, <1>c, <2>2, <2>4, <2>5, <2>6, <2>7 DEF LeaderDies, TypeOK
<1>24. CASE UNCHANGED vars
  BY <1>24 DEF vars, TypeOK
<1> QED BY <1>1, <1>2, <1>3, <1>4, <1>5, <1>6, <1>7, <1>8, <1>9, <1>10, <1>11, <1>12, <1>13, <1>14,
           <1>15, <1>16, <1>17, <1>18, <1>19, <1>20, <1>21, <1>22, <1>23, <1>24
           DEF Next, Progress, Environment

-----------------------------------------------------------------------------
(* Nothing is forgotten. *)

(* The steps of calls and jobs that keep their route. *)
CallStep(c) ==
  \/ FreshInventory(c) \/ FreshInventoryFails(c) \/ ToolReload(c) \/ LazyInventory(c) \/ ToolRead(c)
  \/ ToolDriftRev(c) \/ ToolDriftEval(c)
  \/ c \in Tuis /\ (Aggregate(c) \/ Inspect(c) \/ Toplevels(c) \/ Label(c))

Advances(c, k) == Taken(c, k) /\ (c \in Tuis => Shape(k) /\ Downhill(task[c], k))

(* A step of a call advances one job and touches no explorer. *)
LEMMA CallAdvances ==
  ASSUME TypeOK, JobInv, NEW c \in Clients, CallStep(c)
  PROVE  ui' = ui /\ role' = role /\ \E k \in Jobs : Advances(c, k)
<1>a. task[c] \in Jobs /\ (c \in Tuis => Shape(task[c]))
  BY DEF TypeOK, JobInv
<1>b. ui' = ui /\ role' = role
  BY DEF CallStep, FreshInventory, FreshInventoryFails, ToolReload, LazyInventory, ToolRead, ToolDriftRev,
         ToolDriftEval, Aggregate, Inspect, Toplevels, Label
<1>c. ASSUME NEW x \in Revs, NEW k \in Jobs, ReadsInto(c, k, x) PROVE Advances(c, k)
  <2>1. Len(k.got) = Len(task[c].got) + 1
    BY <1>a, <1>c DEF ReadsInto, Jobs
  <2> QED BY <1>a, <1>c, <2>1, Popping DEF ReadsInto, Advances
<1>d. ASSUME NEW k \in Jobs, Fails(task[c], k), Taken(c, k) PROVE Advances(c, k)
  BY <1>a, <1>d, Failing DEF Advances
<1>e. ASSUME NEW k \in Jobs, Pops(task[c], k), Taken(c, k), k.got = task[c].got,
             Head(task[c].todo) \in {"reload", "rev", "eval", "inspect", "toplevels", "label"}
      PROVE  Advances(c, k)
  BY <1>a, <1>e, Popping DEF Advances, Reads
<1>1. CASE FreshInventory(c)
  <2>1. PICK k \in Jobs : /\ Taken(c, k) /\ task[c].todo # <<>> /\ k.todo = task[c].todo
                          /\ k.kind = task[c].kind /\ k.stale = task[c].stale /\ k.ok = task[c].ok
                          /\ k.got = task[c].got
    BY <1>1, FreshJob
  <2>2. c \in Tuis => Shape(k) /\ Downhill(task[c], k)
    BY <1>a, <2>1 DEF Shape, LoadShape, Downhill
  <2> QED BY <1>b, <2>1, <2>2 DEF Advances
<1>2. CASE FreshInventoryFails(c)
  BY <1>2, <1>b, <1>d, FreshFailsJob
<1>3. CASE ToolReload(c)
  BY <1>3, <1>b, <1>e, ReloadJob DEF Keeps
<1>4. CASE LazyInventory(c)
  <2>1. task[c].lazy \in Revs
    BY <1>a DEF Jobs
  <2> QED BY <1>4, <1>b, <1>c, <2>1, LazyJob
<1>5. CASE ToolRead(c)
  <2>1. srv.inv \in Revs
    BY DEF TypeOK
  <2> QED BY <1>5, <1>b, <1>c, <2>1, ReadJob
<1>6. CASE ToolDriftRev(c)
  BY <1>6, <1>b, <1>e, RevJob DEF LabelsAs
<1>7. CASE ToolDriftEval(c)
  BY <1>7, <1>b, <1>d, <1>e, EvalJob DEF EvaluatesTo
<1>8. CASE c \in Tuis /\ Aggregate(c)
  <2>1. PICK k \in Jobs : /\ Taken(c, k)
                          /\ (Pops(task[c], k) /\ k.got = All(head)) \/ Fails(task[c], k)
    BY <1>8, AggregateJob
  <2>2. CASE Fails(task[c], k)
    BY <1>b, <1>d, <2>1, <2>2
  <2>3. CASE Pops(task[c], k) /\ k.got = All(head)
    <3>1. Len(k.got) = 3
      BY <2>3 DEF All
    <3>2. Head(task[c].todo) = "aggregate"
      BY <1>8, AggregateJob
    <3> QED BY <1>8, <1>a, <1>b, <2>1, <2>3, <3>1, <3>2, Popping DEF Advances
  <2> QED BY <2>1, <2>2, <2>3
<1>9. CASE c \in Tuis /\ Inspect(c)
  BY <1>9, <1>b, <1>e, InspectJob
<1>10. CASE c \in Tuis /\ Toplevels(c)
  BY <1>10, <1>b, <1>d, <1>e, ToplevelsJob DEF EvaluatesTo
<1>11. CASE c \in Tuis /\ Label(c)
  BY <1>11, <1>b, <1>e, LabelJob DEF LabelsAs
<1> QED BY <1>1, <1>2, <1>3, <1>4, <1>5, <1>6, <1>7, <1>8, <1>9, <1>10, <1>11 DEF CallStep

(* A step of the loop of t, as far as jobs go. *)
LoopStep(t) ==
  Press(t) \/ SoloSeesHead(t) \/ LoadFinished(t) \/ DriftEvalFinished(t) \/ Handle(t) \/ SurveyDone(t)

(* A step of a loop changes one explorer in one of three ways. *)
LEMMA LoopApplies ==
  ASSUME TypeOK, JobInv, NEW t \in Tuis, LoopStep(t)
  PROVE  Applied(t) \/ Repainted(t) \/ UNCHANGED <<ui, task>>
<1>1. CASE Put(t, RequestRebind(t, Get(t), TRUE)) \/ Put(t, RequestRebind(t, Get(t), FALSE))
  BY <1>1, RebindApplied
<1>2. CASE Put(t, RefreshDrift(t, Get(t)))
  BY <1>2, RefreshApplied
<1>3. CASE LoadFinished(t) \/ DriftEvalFinished(t)
  BY <1>3, LoadApplied, EvalApplied
<1>4. CASE SurveyDone(t)
  BY <1>4, SurveyApplied
<1>5. CASE Put(t, <<DriftLanded(ui[t]), task[t]>>)
  BY <1>5, DriftApplied
<1>6. CASE UNCHANGED <<ui, task>>
  BY <1>6
<1> QED BY <1>1, <1>2, <1>3, <1>4, <1>5, <1>6
        DEF LoopStep, Press, SoloSeesHead, Handle, RequestReload, RequestInventorySwap

(* The other clients' steps. *)
AgentStep == AgentCalls \/ LeaderSeesHead

(* The agent and the watcher start calls of their own only. *)
LEMMA AgentJob ==
  ASSUME TypeOK, AgentStep
  PROVE  \E c \in {Agent, Watch} : \E k \in Jobs :
           /\ Taken(c, k) /\ k.lazy = 0 /\ ui' = ui /\ role' = role
           /\ \/ AgentCalls /\ c = Agent
              \/ LeaderSeesHead /\ c = Watch /\ k.todo = <<"reload">> /\ task'[Watch] = k
<1>a. Agent \in Clients /\ Watch \in Clients /\ Watch \notin Tuis
  BY ExplorerAssumption DEF Clients
<1>b. <<"members">> \in Seq(Steps) /\ <<"reload">> \in Seq(Steps) /\ <<"nodes", "rev", "eval">> \in Seq(Steps)
  BY DEF Steps
<1>1. CASE AgentCalls
  <2>1. PICK todo \in {<<"members">>, <<"nodes", "rev", "eval">>, <<"reload">>} : Becomes(Agent, Job("call", todo))
    BY <1>1 DEF AgentCalls
  <2>2. todo \in Seq(Steps)
    BY <1>b, <2>1
  <2>3. Job("call", todo) \in Jobs /\ Job("call", todo).lazy = 0
    BY <2>2, JobFields
  <2>4. Taken(Agent, Job("call", todo))
    BY <1>a, <2>1, <2>3, Became
  <2> QED BY <1>1, <2>3, <2>4 DEF AgentCalls
<1>2. CASE LeaderSeesHead
  <2> DEFINE k == Job("call", <<"reload">>)
  <2>1. k \in Jobs /\ k.lazy = 0 /\ k.todo = <<"reload">>
    BY <1>b, JobFields
  <2>2. Taken(Watch, k)
    BY <1>2, <1>a, <2>1, Became DEF LeaderSeesHead
  <2>3. <<"reload">> # <<>>
    OBVIOUS
  <2>4. task'[Watch] = k
    BY <1>a, <2>1, <2>2, <2>3, SettledIs DEF Taken
  <2> HIDE DEF k
  <2> QED BY <1>2, <2>1, <2>2, <2>4 DEF LeaderSeesHead
<1> QED BY <1>1, <1>2 DEF AgentStep

(* The steps, grouped by what they change. *)
LEMMA NextCases ==
  Next <=> \/ MoveHead \/ AgentStep \/ LeaderDies
           \/ \E c \in Clients : CallStep(c)
           \/ \E t \in Tuis : LoopStep(t) \/ ContextGone(t) \/ RolePoll(t)
BY DEF Next, Progress, Environment, AgentStep, CallStep, LoopStep, Clients

(* AppState as it starts. *)
LEMMA FreshFields ==
  /\ Fresh0 \in UIs /\ Fresh0.inv = <<>> /\ Fresh0.expected = 0 /\ Fresh0.rev = 0 /\ Fresh0.cached = 0
  /\ Fresh0.busy = FALSE /\ Fresh0.evalRunning = FALSE /\ Fresh0.evalPending = FALSE
  /\ Fresh0.reloadPending = FALSE /\ Fresh0.freshWanted = FALSE
<1>1. 0 \in Revs /\ <<>> \in Seq(Revs)
  BY ExplorerAssumption DEF Revs
<1> QED BY <1>1 DEF Fresh0, UIs

(* What the leader shows at first, and what the others do. *)
LEMMA FirstFields ==
  LET v == [Fresh0 EXCEPT !.inv = All(1), !.rev = 1, !.cached = 1, !.expected = 1]
      w == [Fresh0 EXCEPT !.busy = TRUE]
  IN /\ v.inv = All(1) /\ v.rev = 1 /\ v.expected = 1 /\ v.busy = FALSE /\ v.evalRunning = FALSE
     /\ v.evalPending = FALSE /\ v.reloadPending = FALSE /\ v.freshWanted = FALSE
     /\ w.inv = <<>> /\ w.expected = 0 /\ w.busy = TRUE /\ w.evalRunning = FALSE
     /\ w.evalPending = FALSE /\ w.reloadPending = FALSE /\ w.freshWanted = FALSE
BY DEF Fresh0

(* At first every explorer owes exactly its first load. *)
LEMMA InitJobs ==
  Init => JobInv
<1> SUFFICES ASSUME Init, NEW t \in Tuis PROVE Shape(task[t]) /\ Owes(ui[t], task[t])
  BY DEF JobInv
<1>a. t \in Clients
  BY DEF Clients
<1>1. CASE t = leader
  <2>1. task[t] = None /\ ui[t] = [Fresh0 EXCEPT !.inv = All(1), !.rev = 1, !.cached = 1, !.expected = 1]
    BY <1>1, <1>a DEF Init
  <2>2. ~ui[t].busy /\ ~ui[t].evalRunning /\ ~ui[t].evalPending /\ ~ui[t].reloadPending /\ ~ui[t].freshWanted
    BY <2>1, FirstFields
  <2> QED BY <2>1, <2>2, NoneFields DEF Shape, Owes
<1>2. CASE t # leader
  <2>1. task[t] = StartLoad(t, FALSE) /\ ui[t] = [Fresh0 EXCEPT !.busy = TRUE]
    BY <1>2, <1>a DEF Init
  <2>2. ui[t].busy /\ ~ui[t].evalRunning /\ ~ui[t].evalPending /\ ~ui[t].reloadPending /\ ~ui[t].freshWanted
    BY <2>1, FirstFields
  <2>3. task[t].kind = "load"
    BY <2>1, NewJobs
  <2> QED BY <2>1, <2>2, <2>3, NewJobs DEF Owes
<1> QED BY <1>1, <1>2

(* Every step keeps the flags true to the jobs. *)
LEMMA JobStep ==
  TypeOK /\ JobInv /\ [Next]_vars => JobInv'
<1> SUFFICES ASSUME TypeOK, JobInv, [Next]_vars, NEW d \in Tuis
             PROVE  Shape(task'[d]) /\ Owes(ui'[d], task'[d])
  BY DEF JobInv
<1>a. Shape(task[d]) /\ Owes(ui[d], task[d]) /\ ui[d] \in UIs /\ task[d] \in Jobs /\ d \in Clients
      /\ d # Agent /\ d # Watch
  BY ExplorerAssumption DEF JobInv, TypeOK, Clients
<1>b. CASE task'[d] = task[d] /\ ui'[d] = ui[d]
  BY <1>a, <1>b
<1>1. CASE MoveHead \/ UNCHANGED vars \/ \E t \in Tuis : RolePoll(t)
  BY <1>1, <1>b DEF MoveHead, vars, RolePoll
<1>2. CASE AgentStep
  BY <1>2, <1>a, <1>b, AgentJob DEF Taken
<1>3. ASSUME NEW c \in Clients, CallStep(c)
      PROVE  Shape(task'[d]) /\ Owes(ui'[d], task'[d])
  <2>1. PICK k \in Jobs : Advances(c, k)
    BY <1>3, CallAdvances
  <2>2. ui' = ui
    BY <1>3, CallAdvances
  <2>3. CASE c # d
    BY <1>a, <1>b, <2>1, <2>2, <2>3 DEF Advances, Taken
  <2>4. CASE c = d
    <3>1. task'[d] = k /\ Shape(k) /\ Downhill(task[d], k)
      BY <1>a, <2>1, <2>4, SettledIs DEF Advances, Taken
    <3> QED BY <1>a, <2>2, <3>1, DownhillKeeps
  <2> QED BY <2>3, <2>4
<1>4. ASSUME NEW t \in Tuis, LoopStep(t)
      PROVE  Shape(task'[d]) /\ Owes(ui'[d], task'[d])
  <2>1. CASE Applied(t)
    <3>1. CASE t = d
      BY <2>1, <3>1 DEF Applied
    <3>2. CASE t # d
      BY <1>a, <1>b, <2>1, <3>2 DEF Applied
    <3> QED BY <3>1, <3>2
  <2>2. CASE Repainted(t)
    <3>1. CASE t = d
      BY <1>a, <2>2, <3>1, RepaintKeeps DEF Repainted
    <3>2. CASE t # d
      BY <1>a, <1>b, <2>2, <3>2 DEF Repainted
    <3> QED BY <3>1, <3>2
  <2>3. CASE UNCHANGED <<ui, task>>
    BY <1>b, <2>3
  <2> QED BY <1>4, <2>1, <2>2, <2>3, LoopApplies
<1>5. ASSUME NEW t \in Tuis, ContextGone(t)
      PROVE  Shape(task'[d]) /\ Owes(ui'[d], task'[d])
  <2>1. PICK k \in Jobs :
          /\ Taken(t, k) /\ k.got = <<>>
          /\ k.kind = (IF task[t].kind = "load" THEN "load" ELSE "eval")
          /\ k.todo = (IF task[t].kind = "load" THEN A2 ELSE T2)
    BY <1>5, GoneJob
  <2>2. ui' = ui /\ task[t].todo # <<>> /\ t \in Clients
    BY <1>5, GoneJob DEF ContextGone, Clients
  <2>3. CASE t # d
    BY <1>a, <1>b, <2>1, <2>2, <2>3 DEF Taken
  <2>4. CASE t = d
    <3>1. task'[d] = k
      BY <2>1, <2>2, <2>4, SettledIs DEF Taken
    <3>2. task[d].kind \in {"load", "eval"}
      BY <1>a, <2>2, <2>4, KindOf
    <3>3. k.kind = task[d].kind
      BY <2>1, <2>4, <3>2
    <3>4. Shape(k)
      BY <2>1, <2>4, <3>2 DEF Shape, LoadShape
    <3>5. Owes(ui[d], k)
      BY <1>a, <3>3 DEF Owes
    <3> QED BY <2>2, <3>1, <3>4, <3>5
  <2> QED BY <2>3, <2>4
<1>6. CASE LeaderDies
  <2>1. task'[d] = (IF d = leader THEN None ELSE FailedOver(d)) /\ ui'[d] = (IF d = leader THEN Fresh0 ELSE ui[d])
    BY <1>6, <1>a DEF LeaderDies
  <2>2. CASE d = leader
    BY <2>1, <2>2, NoneFields, FreshFields DEF Shape, Owes
  <2>3. CASE d # leader
    <3>1. FailedOver(d).kind = task[d].kind /\ Shape(FailedOver(d))
      BY <1>a, FailedOverFields
    <3>2. Owes(ui[d], FailedOver(d))
      BY <1>a, <3>1 DEF Owes
    <3> QED BY <2>1, <2>3, <3>1, <3>2
  <2> QED BY <2>2, <2>3
<1> QED BY <1>1, <1>2, <1>3, <1>4, <1>5, <1>6, NextCases

-----------------------------------------------------------------------------
(* Expected sets are filed under their own rev. *)

(* At first the cache holds the set of its rev. *)
LEMMA InitLabels ==
  Init => LabelInv
<1> SUFFICES ASSUME Init, NEW t \in Tuis
             PROVE  HonestJob(task[t]) /\ HonestUI(ui[t])
  <2>1. Init => cache = [label |-> 1, of |-> 1]
    BY Zenon DEF Init
  <2> QED BY <2>1 DEF LabelInv
<1>a. t \in Clients
  BY DEF Clients
<1>1. CASE t = leader
  <2>1. task[t] = None /\ ui[t] = [Fresh0 EXCEPT !.inv = All(1), !.rev = 1, !.cached = 1, !.expected = 1]
    BY <1>1, <1>a DEF Init
  <2>2. ui[t].expected = 1 /\ ui[t].rev = 1
    BY <2>1, FirstFields
  <2> QED BY <1>a, <2>1, <2>2, NoneFields DEF HonestJob, HonestUI
<1>2. CASE t # leader
  <2>1. task[t] = StartLoad(t, FALSE) /\ ui[t] = [Fresh0 EXCEPT !.busy = TRUE]
    BY <1>2, <1>a DEF Init
  <2>2. ui[t].expected = 0
    BY <2>1, FirstFields
  <2> QED BY <1>a, <2>1, <2>2, NewJobs DEF HonestUI
<1> QED BY <1>1, <1>2

(* A call step of t files what it evaluates honestly, or is counted.  *)
LEMMA HonestCall ==
  ASSUME TypeOK, JobInv, NEW t \in Tuis, CallStep(t), ~mislabelled', cache.label = cache.of,
         HonestJob(task[t])
  PROVE  HonestJob(task'[t])
<1>a. task[t] \in Jobs /\ Shape(task[t]) /\ t \in Clients
  BY DEF TypeOK, JobInv, Clients
<1>b. \A k \in Jobs : Taken(t, k) => task'[t] = k
  BY <1>a, SettledIs DEF Taken
<1>c. ASSUME NEW k \in Jobs, Fails(task[t], k), Taken(t, k) PROVE HonestJob(task'[t])
  BY <1>b, <1>c DEF Fails, HonestJob
<1>d. ASSUME NEW k \in Jobs, Pops(task[t], k), Taken(t, k), k.of = task[t].of, k.key = task[t].key,
             Head(task[t].todo) \notin {"inspect", "eval", "label"}
      PROVE  HonestJob(task'[t])
  <2>1. k.todo # <<>>
    BY <1>a, <1>d, KindOf DEF Pops
  <2>2. k.kind = task[t].kind /\ task'[t] = k
    BY <1>b, <1>d DEF Pops
  <2> QED BY <1>d, <2>1, <2>2 DEF HonestJob
<1>1. CASE FreshInventory(t)
  <2>1. PICK k \in Jobs : /\ Taken(t, k) /\ k.todo = task[t].todo /\ task[t].todo # <<>> /\ k.kind = task[t].kind
                          /\ k.of = task[t].of /\ k.key = task[t].key
    BY <1>1, <1>a, FreshJob
  <2> QED BY <1>b, <2>1 DEF HonestJob
<1>2. CASE FreshInventoryFails(t)
  BY <1>2, <1>a, <1>c, FreshFailsJob
<1>3. CASE ToolReload(t)
  BY <1>3, <1>a, <1>d, ReloadJob DEF Keeps
<1>4. CASE LazyInventory(t)
  <2>1. PICK k \in Jobs : ReadsInto(t, k, task[t].lazy)
    BY <1>4, <1>a, LazyJob
  <2> QED BY <1>d, <2>1 DEF ReadsInto, Reads
<1>5. CASE ToolRead(t)
  <2>1. PICK k \in Jobs : ReadsInto(t, k, srv.inv)
    BY <1>5, <1>a, ReadJob
  <2> QED BY <1>d, <2>1 DEF ReadsInto, Reads
<1>6. CASE ToolDriftRev(t)
  BY <1>6, <1>a, <1>d, RevJob DEF LabelsAs
<1>7. CASE ToolDriftEval(t)
  <2>1. PICK k \in Jobs :
          /\ Taken(t, k)
          /\ \/ Fails(task[t], k)
             \/ \E of \in WarmContracts : EvaluatesTo(t, k, of) /\ (~mislabelled' => task[t].label = of)
    BY <1>7, <1>a, EvalJob
  <2>2. task[t].kind = "eval"
    BY <1>7, <1>a, EvalJob, KindOf
  <2>3. CASE \E of \in WarmContracts : EvaluatesTo(t, k, of) /\ task[t].label = of
    BY <1>b, <2>1, <2>2, <2>3 DEF EvaluatesTo, Pops, HonestJob
  <2> QED BY <1>c, <2>1, <2>3
<1>8. CASE Aggregate(t)
  <2>1. PICK k \in Jobs : /\ Taken(t, k)
                          /\ \/ Pops(task[t], k) /\ k.of = task[t].of /\ k.key = task[t].key
                             \/ Fails(task[t], k)
    BY <1>8, AggregateJob
  <2>2. Head(task[t].todo) = "aggregate"
    BY <1>8, AggregateJob
  <2> QED BY <1>c, <1>d, <2>1, <2>2
<1>9. CASE Inspect(t)
  <2>1. PICK k \in Jobs : /\ Taken(t, k) /\ Pops(task[t], k) /\ Head(task[t].todo) = "inspect"
                          /\ k.key = cache.label /\ k.of = cache.of
    BY <1>9, InspectJob
  <2>2. task[t].kind = "load"
    BY <1>a, <2>1, KindOf DEF Pops
  <2> QED BY <1>b, <2>1, <2>2 DEF Pops, HonestJob
<1>10. CASE Toplevels(t)
  <2>1. PICK k \in Jobs : Taken(t, k) /\ (EvaluatesTo(t, k, head) \/ Fails(task[t], k))
    BY <1>10, ToplevelsJob
  <2>2. task[t].kind = "eval" /\ Tail(task[t].todo) # <<>>
    BY <1>10, <1>a, ToplevelsJob, KindOf
  <2>3. CASE EvaluatesTo(t, k, head)
    BY <1>b, <2>1, <2>2, <2>3 DEF EvaluatesTo, Pops, HonestJob
  <2> QED BY <1>c, <2>1, <2>3
<1>11. CASE Label(t)
  <2>1. PICK k \in Jobs : LabelsAs(t, k, "label")
    BY <1>11, LabelJob
  <2>2. task[t].kind = "eval"
    BY <1>a, <2>1, KindOf DEF LabelsAs, Pops
  <2>3. task[t].of = head
    BY <1>11 DEF Label, RepoRev
  <2> QED BY <1>b, <2>1, <2>2, <2>3 DEF LabelsAs, Pops, HonestJob
<1> QED BY <1>1, <1>2, <1>3, <1>4, <1>5, <1>6, <1>7, <1>8, <1>9, <1>10, <1>11 DEF CallStep

(* The cache is written with the rev and the contract that were compared. *)
LEMMA CallCache ==
  ASSUME TypeOK, NEW c \in Clients, CallStep(c), ~mislabelled'
  PROVE  ~mislabelled /\ (cache.label = cache.of => cache'.label = cache'.of)
<1>1. CASE ToolDriftEval(c)
  <2>1. ASSUME NEW of \in WarmContracts, mislabelled' = (mislabelled \/ task[c].label # of),
               SaveExpected(task[c].label, of) \/ UNCHANGED cache
        PROVE  ~mislabelled /\ (cache.label = cache.of => cache'.label = cache'.of)
    <3>1. ~mislabelled /\ task[c].label = of
      BY <2>1 DEF TypeOK
    <3>2. cache' = cache \/ cache' = [label |-> task[c].label, of |-> of]
      BY <2>1 DEF SaveExpected
    <3> QED BY <3>1, <3>2
  <2>2. \/ UNCHANGED <<cache, mislabelled>>
        \/ \E of \in WarmContracts :
             /\ mislabelled' = (mislabelled \/ task[c].label # of)
             /\ \/ SaveExpected(task[c].label, of) /\ UNCHANGED spent
                \/ UNCHANGED cache /\ Fault
    BY <1>1, Zenon DEF ToolDriftEval
  <2>3. CASE UNCHANGED <<cache, mislabelled>>
    BY <2>3
  <2> QED BY <2>1, <2>2, <2>3
<1>2. CASE Label(c)
  <2>1. ~mislabelled /\ head = task[c].of
    BY <1>2 DEF Label, RepoRev
  <2>2. cache' = cache \/ cache' = [label |-> head, of |-> task[c].of]
    BY <1>2 DEF Label, SaveExpected, RepoRev
  <2> QED BY <2>1, <2>2
<1>3. CASE UNCHANGED <<cache, mislabelled>>
  BY <1>3
<1> QED BY <1>1, <1>2, <1>3 DEF CallStep, FreshInventory, FreshInventoryFails, ToolReload, LazyInventory,
           ToolRead, ToolDriftRev, Aggregate, Inspect, Toplevels, history

(* Unless a set is filed under another rev, all labels stay true. *)
LEMMA LabelStep ==
  TypeOK /\ JobInv /\ LabelInv /\ [Next]_vars => LabelInv'
<1> SUFFICES ASSUME TypeOK, JobInv, LabelInv, [Next]_vars, ~mislabelled'
             PROVE  /\ cache'.label = cache'.of
                    /\ \A d \in Tuis : HonestJob(task'[d]) /\ HonestUI(ui'[d])
  BY DEF LabelInv
<1>a. ASSUME NEW d \in Tuis
      PROVE  ui[d] \in UIs /\ task[d] \in Jobs /\ d \in Clients /\ d # Agent /\ d # Watch /\ Shape(task[d])
  BY ExplorerAssumption, <1>a DEF TypeOK, Clients, JobInv
<1>b. ~mislabelled => cache.label = cache.of /\ \A d \in Tuis : HonestJob(task[d]) /\ HonestUI(ui[d])
  BY DEF LabelInv
<1> DEFINE Goal == /\ cache'.label = cache'.of
                   /\ \A d \in Tuis : HonestJob(task'[d]) /\ HonestUI(ui'[d])
<1>c. /\ cache' = cache /\ mislabelled' = mislabelled
      /\ \A d \in Tuis : task'[d] = task[d] /\ ui'[d] = ui[d]
      => Goal
  BY <1>b
<1> SUFFICES Goal
  OBVIOUS
<1> HIDE DEF Goal
<1>1. CASE MoveHead \/ UNCHANGED vars \/ \E t \in Tuis : RolePoll(t)
  BY <1>1, <1>c DEF MoveHead, vars, RolePoll, history
<1>2. CASE AgentStep
  <2>1. UNCHANGED <<cache, mislabelled>>
    BY <1>2 DEF AgentStep, AgentCalls, LeaderSeesHead, history
  <2>2. \A d \in Tuis : task'[d] = task[d] /\ ui'[d] = ui[d]
    BY <1>2, <1>a, AgentJob DEF Taken
  <2> QED BY <1>c, <2>1, <2>2
<1>3. ASSUME NEW c \in Clients, CallStep(c) PROVE Goal
  <2>1. ~mislabelled /\ cache'.label = cache'.of /\ cache.label = cache.of
    BY <1>3, <1>b, CallCache
  <2>2. PICK k \in Jobs : Advances(c, k)
    BY <1>3, CallAdvances
  <2>3. ui' = ui
    BY <1>3, CallAdvances
  <2>4. ASSUME NEW d \in Tuis PROVE HonestJob(task'[d]) /\ HonestUI(ui'[d])
    <3>1. CASE c = d
      BY <1>3, <1>b, <2>1, <2>3, <3>1, HonestCall
    <3>2. CASE c # d
      <4>1. task'[d] = task[d]
        BY <1>a, <2>2, <3>2 DEF Advances, Taken
      <4> QED BY <1>b, <2>1, <2>3, <4>1
    <3> QED BY <3>1, <3>2
  <2> QED BY <2>1, <2>4 DEF Goal
<1>4. ASSUME NEW t \in Tuis, LoopStep(t) PROVE Goal
  <2>1. UNCHANGED <<cache, mislabelled>>
    BY <1>4 DEF LoopStep, Press, SoloSeesHead, LoadFinished, DriftEvalFinished, Handle, SurveyDone, history
  <2>2. ~mislabelled /\ cache.label = cache.of /\ cache'.label = cache'.of
    BY <1>b, <2>1
  <2>3. CASE Applied(t)
    <3>1. ASSUME NEW d \in Tuis PROVE HonestJob(task'[d]) /\ HonestUI(ui'[d])
      <4>1. CASE d = t
        BY <1>b, <2>2, <2>3, <4>1 DEF Applied
      <4>2. CASE d # t
        BY <1>a, <1>b, <2>2, <2>3, <4>2 DEF Applied
      <4> QED BY <4>1, <4>2
    <3> QED BY <2>2, <3>1 DEF Goal
  <2>4. CASE Repainted(t) /\ HonestUI(ui'[t])
    <3>1. ASSUME NEW d \in Tuis PROVE HonestJob(task'[d]) /\ HonestUI(ui'[d])
      <4>1. task'[d] = task[d] /\ (d # t => ui'[d] = ui[d])
        BY <2>4 DEF Repainted
      <4> QED BY <1>b, <2>2, <2>4, <4>1
    <3> QED BY <2>2, <3>1 DEF Goal
  <2>5. CASE SurveyDone(t)
    BY <1>b, <2>2, <2>4, <2>5, SurveyApplied
  <2>6. CASE Put(t, <<DriftLanded(ui[t]), task[t]>>)
    BY <2>2, <2>4, <2>6, DriftApplied
  <2>7. CASE UNCHANGED <<ui, task>>
    BY <1>c, <2>1, <2>7
  <2>8. CASE Put(t, RequestRebind(t, Get(t), TRUE)) \/ Put(t, RequestRebind(t, Get(t), FALSE))
    BY <2>3, <2>8, RebindApplied
  <2>9. CASE Put(t, RefreshDrift(t, Get(t)))
    BY <2>3, <2>9, RefreshApplied
  <2>10. CASE LoadFinished(t) \/ DriftEvalFinished(t)
    BY <2>3, <2>10, LoadApplied, EvalApplied
  <2> QED BY <1>4, <2>5, <2>6, <2>7, <2>8, <2>9, <2>10
          DEF LoopStep, Press, SoloSeesHead, Handle, RequestReload, RequestInventorySwap
<1>5. ASSUME NEW t \in Tuis, ContextGone(t) PROVE Goal
  <2>1. PICK k \in Jobs :
          /\ Taken(t, k) /\ k.of = 0 /\ k.key = 0
          /\ k.todo = (IF task[t].kind = "load" THEN A2 ELSE T2)
    BY <1>5, GoneJob
  <2>2. ui' = ui /\ UNCHANGED <<cache, mislabelled>>
    BY <1>5 DEF ContextGone
  <2>3. HonestJob(k)
    BY <2>1, Todos DEF HonestJob
  <2>4. ASSUME NEW d \in Tuis PROVE HonestJob(task'[d]) /\ HonestUI(ui'[d])
    <3>1. task'[d] = IF d = t THEN k ELSE task[d]
      BY <1>a, <2>1, SettledIs DEF Taken
    <3> QED BY <1>b, <2>2, <2>3, <3>1
  <2> QED BY <1>b, <2>2, <2>4 DEF Goal
<1>6. CASE LeaderDies
  <2>1. UNCHANGED <<cache, mislabelled>>
    BY <1>6 DEF LeaderDies
  <2>2. ASSUME NEW d \in Tuis PROVE HonestJob(task'[d]) /\ HonestUI(ui'[d])
    <3>1. task'[d] = (IF d = leader THEN None ELSE FailedOver(d)) /\ ui'[d] = (IF d = leader THEN Fresh0 ELSE ui[d])
      BY <1>6, <1>a DEF LeaderDies
    <3>2. HonestJob(None) /\ HonestUI(Fresh0)
      BY NoneFields, FreshFields DEF HonestJob, HonestUI
    <3>3. HonestJob(FailedOver(d))
      BY <1>a, <1>b, <2>1, FailedOverFields
    <3> QED BY <1>b, <2>1, <3>1, <3>2, <3>3
  <2> QED BY <1>b, <2>1, <2>2 DEF Goal
<1> QED BY <1>1, <1>2, <1>3, <1>4, <1>5, <1>6, NextCases

-----------------------------------------------------------------------------
(* What holds while nothing is disturbed. *)

(* Only FreshInventory leaves a contract to be written. *)
LEMMA CallLazy ==
  ASSUME TypeOK, NEW c \in Clients, CallStep(c)
  PROVE  \/ task'[c].lazy = 0
         \/ /\ task'[c].lazy = head /\ task[c].todo # <<>> /\ task'[c].todo = task[c].todo
            /\ Head(task[c].todo) = "reload" \/ srv.inv = 0
<1>a. ASSUME NEW k \in Jobs, Taken(c, k), k.lazy = 0 PROVE task'[c].lazy = 0
  BY <1>a, SettledIs, NoneFields DEF Taken
<1>b. ASSUME NEW k \in Jobs, Taken(c, k), Pops(task[c], k) \/ Fails(task[c], k) PROVE task'[c].lazy = 0
  BY <1>a, <1>b DEF Pops, Fails
<1>1. CASE FreshInventory(c)
  <2>1. PICK k \in Jobs : /\ Taken(c, k) /\ task[c].todo # <<>> /\ k.todo = task[c].todo /\ k.lazy = head
                          /\ Head(k.todo) = "reload" \/ srv.inv = 0
    BY <1>1, FreshJob
  <2>2. task'[c] = k
    BY <2>1, SettledIs DEF Taken
  <2> QED BY <2>1, <2>2
<1>2. CASE FreshInventoryFails(c)
  BY <1>2, <1>b, FreshFailsJob
<1>3. CASE ToolReload(c)
  BY <1>3, <1>b, ReloadJob
<1>4. CASE LazyInventory(c)
  BY <1>4, <1>b, LazyJob DEF ReadsInto
<1>5. CASE ToolRead(c)
  BY <1>5, <1>b, ReadJob DEF ReadsInto
<1>6. CASE ToolDriftRev(c)
  BY <1>6, <1>b, RevJob DEF LabelsAs
<1>7. CASE ToolDriftEval(c)
  BY <1>7, <1>b, EvalJob DEF EvaluatesTo
<1>8. CASE c \in Tuis /\ Aggregate(c)
  BY <1>8, <1>b, AggregateJob
<1>9. CASE c \in Tuis /\ Inspect(c)
  BY <1>9, <1>b, InspectJob
<1>10. CASE c \in Tuis /\ Toplevels(c)
  BY <1>10, <1>b, ToplevelsJob DEF EvaluatesTo
<1>11. CASE c \in Tuis /\ Label(c)
  BY <1>11, <1>b, LabelJob DEF LabelsAs
<1> QED BY <1>1, <1>2, <1>3, <1>4, <1>5, <1>6, <1>7, <1>8, <1>9, <1>10, <1>11 DEF CallStep

(* A step that ends undisturbed began so and changed no leader, role or life. *)
LEMMA CalmFrame ==
  ASSUME TypeOK, CalmInv, ToldInv, [Next]_vars, ~disturbed'
  PROVE  /\ ~disturbed /\ UNCHANGED <<leader, alive, role>>
         /\ \/ MoveHead \/ AgentStep \/ UNCHANGED vars
            \/ \E c \in Clients : CallStep(c)
            \/ \E t \in Tuis : LoopStep(t)
<1>1. ~disturbed
  BY DEF vars, Next, Progress, Environment, MoveHead, Press, AgentCalls, LeaderSeesHead, SoloSeesHead,
         FreshInventory, FreshInventoryFails, ToolReload, LazyInventory, ToolRead, ToolDriftRev, ToolDriftEval,
         Aggregate, Inspect, Toplevels, Label, ContextGone, LoadFinished, DriftEvalFinished, SurveyDone,
         Handle, RolePoll, LeaderDies, history
<1>2. ~LeaderDies /\ \A t \in Tuis : ~ContextGone(t)
  BY DEF LeaderDies, ContextGone
<1>3. \A t \in Tuis : ~RolePoll(t)
  BY <1>1 DEF RolePoll, CalmInv, TypeOK
<1>4. \A t \in Tuis : Handle(t) => Head(inbox[t]).tool # "role"
  <2> SUFFICES ASSUME NEW t \in Tuis, Handle(t) PROVE Head(inbox[t]).tool # "role"
    OBVIOUS
  <2>1. inbox[t] \in Seq(Events) /\ inbox[t] # <<>>
    BY HandleBox
  <2>2. Head(inbox[t]) = inbox[t][1] /\ 1 \in 1..Len(inbox[t])
    BY <2>1
  <2> QED BY <1>1, <2>2 DEF ToldInv
<1>5. \/ MoveHead \/ AgentStep \/ UNCHANGED vars
      \/ \E c \in Clients : CallStep(c)
      \/ \E t \in Tuis : LoopStep(t)
  BY <1>2, <1>3, NextCases
<1>6. CASE MoveHead \/ AgentStep \/ UNCHANGED vars
  BY <1>1, <1>5, <1>6 DEF MoveHead, AgentStep, AgentCalls, LeaderSeesHead, vars, world
<1>7. ASSUME NEW c \in Clients, CallStep(c) PROVE UNCHANGED <<leader, alive, role>>
  BY <1>7 DEF CallStep, FreshInventory, FreshInventoryFails, ToolReload, LazyInventory, ToolRead, ToolDriftRev,
         ToolDriftEval, Aggregate, Inspect, Toplevels, Label, world
<1>8. ASSUME NEW t \in Tuis, LoopStep(t) PROVE UNCHANGED <<leader, alive, role>>
  BY <1>4, <1>8 DEF LoopStep, Press, SoloSeesHead, LoadFinished, DriftEvalFinished, Handle, SurveyDone, world
<1> QED BY <1>1, <1>5, <1>6, <1>7, <1>8

(* What is served changes by a reload only, and to nothing older. *)
LEMMA ServedStep ==
  ASSUME TypeOK, CalmInv, ~disturbed, ~disturbed', NEW c \in Clients, CallStep(c)
  PROVE  /\ ~LazyInventory(c)
         /\ \/ srv'.inv = srv.inv /\ ~ToolReload(c)
            \/ ToolReload(c) /\ srv'.inv = task[c].lazy /\ task[c].lazy # 0 /\ srv.inv <= srv'.inv
<1>a. srv \in [inv : Revs, worker : Revs] /\ task[c] \in Jobs
  BY DEF TypeOK
<1>b. task[c].lazy \in Nat /\ srv.inv \in Nat
  BY <1>a DEF Jobs, Revs
<1>1. ~LazyInventory(c)
  <2> SUFFICES ASSUME LazyInventory(c) PROVE FALSE
    OBVIOUS
  <2>1. task[c].lazy # 0 /\ Head(task[c].todo) \in Reads
    BY DEF LazyInventory, At
  <2> QED BY <2>1 DEF CalmInv, Reads
<1>2. CASE ToolReload(c)
  <2>1. srv' = [srv EXCEPT !.inv = task[c].lazy] /\ task[c].lazy # 0 /\ ~(task[c].lazy < srv.inv)
    BY <1>2 DEF ToolReload
  <2>2. srv'.inv = task[c].lazy
    BY <1>a, <2>1
  <2> QED BY <1>1, <1>2, <1>b, <2>1, <2>2
<1>3. CASE ~ToolReload(c)
  <2>1. srv' = srv \/ \E w \in Revs : srv' = [srv EXCEPT !.worker = w]
    <3>1. head \in Revs /\ WarmContracts \subseteq Revs /\ srv.worker \in Revs /\ 0 \in Revs
      BY <1>a, WarmType, ZeroRev DEF TypeOK
    <3> QED BY <1>1, <1>3, <3>1 DEF CallStep, FreshInventory, FreshInventoryFails, ToolRead, ToolDriftRev,
               ToolDriftEval, Aggregate, Inspect, Toplevels, Label
  <2>2. srv'.inv = srv.inv
    BY <1>a, <2>1
  <2> QED BY <1>1, <1>3, <2>2
<1> QED BY <1>2, <1>3

(* The other steps serve what was served. *)
LEMMA ServedElse ==
  ASSUME \/ MoveHead \/ AgentStep \/ UNCHANGED vars \/ \E t \in Tuis : LoopStep(t)
  PROVE  srv' = srv
BY DEF MoveHead, AgentStep, AgentCalls, LeaderSeesHead, vars, LoopStep, Press, SoloSeesHead, LoadFinished,
       DriftEvalFinished, Handle, SurveyDone

(* At first nothing is disturbed. *)
LEMMA InitCalm ==
  Init => CalmInv
<1> SUFFICES ASSUME Init PROVE CalmInv
  OBVIOUS
<1>1. \A c \in Clients : alive[c]
  BY DEF Init
<1>2. ASSUME NEW c \in Clients PROVE task[c].lazy = 0
  <2>1. task[c] = IF c \in Tuis \ {leader} THEN StartLoad(c, FALSE) ELSE None
    BY DEF Init
  <2> QED BY <2>1, NewJobs, NoneFields
<1>3. \A t \in Tuis : role[t] = "leader" <=> t = leader
  <2>1. PICK solo \in SUBSET (Solos \ {leader}) : role = [t \in Tuis |-> JoinContext(t, solo)]
    BY DEF Init
  <2> QED BY <2>1 DEF JoinContext
<1>4. srv.inv # 0
  <2>1. srv = [inv |-> 1, worker |-> 1]
    BY Zenon DEF Init
  <2> QED BY <2>1
<1> QED BY <1>1, <1>2, <1>3, <1>4 DEF CalmInv

(* A step that disturbs nothing keeps the calm. *)
LEMMA CalmStep ==
  TypeOK /\ JobInv /\ CalmInv /\ ToldInv /\ [Next]_vars => CalmInv'
<1> SUFFICES ASSUME TypeOK, JobInv, CalmInv, ToldInv, [Next]_vars, ~disturbed' PROVE CalmInv'
  BY DEF CalmInv
<1>a. /\ ~disturbed /\ UNCHANGED <<leader, alive, role>>
      /\ \/ MoveHead \/ AgentStep \/ UNCHANGED vars
         \/ \E c \in Clients : CallStep(c)
         \/ \E t \in Tuis : LoopStep(t)
  BY CalmFrame
<1>b. /\ \A c \in Clients : alive[c] /\ (task[c].lazy # 0 => task[c].todo # <<>> /\ Head(task[c].todo) = "reload")
      /\ \A t \in Tuis : role[t] = "leader" <=> t = leader
      /\ srv.inv # 0
  BY <1>a DEF CalmInv
<1>c. srv'.inv # 0
  BY <1>a, <1>b, ServedStep, ServedElse
<1>d. ASSUME NEW d \in Clients PROVE task'[d].lazy # 0 => task'[d].todo # <<>> /\ Head(task'[d].todo) = "reload"
  <2>a. CASE task'[d] = task[d]
    BY <1>b, <2>a
  <2>1. CASE MoveHead \/ UNCHANGED vars
    BY <2>1, <2>a DEF MoveHead, vars
  <2>2. CASE AgentStep
    <3>1. PICK c \in {Agent, Watch}, k \in Jobs : Taken(c, k) /\ k.lazy = 0
      BY <2>2, AgentJob
    <3>2. c \in Clients
      BY DEF Clients
    <3>3. CASE d = c
      BY <3>1, <3>2, <3>3, SettledIs, NoneFields DEF Taken
    <3>4. CASE d # c
      BY <2>a, <3>1, <3>4 DEF Taken
    <3> QED BY <3>3, <3>4
  <2>3. ASSUME NEW c \in Clients, CallStep(c)
        PROVE  task'[d].lazy # 0 => task'[d].todo # <<>> /\ Head(task'[d].todo) = "reload"
    <3>1. CASE d = c
      BY <1>b, <2>3, <3>1, CallLazy
    <3>2. CASE d # c
      BY <2>3, <2>a, <3>2, CallAdvances DEF Advances, Taken
    <3> QED BY <3>1, <3>2
  <2>4. ASSUME NEW t \in Tuis, LoopStep(t)
        PROVE  task'[d].lazy # 0 => task'[d].todo # <<>> /\ Head(task'[d].todo) = "reload"
    <3>1. CASE Applied(t)
      <4>1. CASE d = t
        BY <1>b, <3>1, <4>1 DEF Applied
      <4>2. CASE d # t
        BY <2>a, <3>1, <4>2 DEF Applied
      <4> QED BY <4>1, <4>2
    <3>2. CASE Repainted(t) \/ UNCHANGED <<ui, task>>
      BY <2>a, <3>2 DEF Repainted
    <3> QED BY <2>4, <3>1, <3>2, LoopApplies
  <2> QED BY <1>a, <2>1, <2>2, <2>3, <2>4
<1> QED BY <1>a, <1>b, <1>c, <1>d DEF CalmInv

(* Lists of announcements, by index. *)
LEMMA AppendIndex ==
  ASSUME NEW S, NEW s \in Seq(S), NEW e \in S
  PROVE  /\ Append(s, e) \in Seq(S) /\ Len(Append(s, e)) = Len(s) + 1
         /\ \A i \in 1..Len(s) : Append(s, e)[i] = s[i]
         /\ Append(s, e)[Len(s) + 1] = e
OBVIOUS

(* The rest of a list, by index. *)
LEMMA TailIndex ==
  ASSUME NEW S, NEW s \in Seq(S), s # <<>>
  PROVE  /\ Tail(s) \in Seq(S) /\ Len(Tail(s)) = Len(s) - 1 /\ Len(s) \in Nat /\ Len(s) > 0
         /\ \A i \in 1..Len(Tail(s)) : Tail(s)[i] = s[i + 1] /\ i + 1 \in 1..Len(s)
         /\ Head(s) = s[1]
OBVIOUS

(* How the inbox of t changes while nothing is disturbed. *)
Boxed(t) ==
  \/ inbox'[t] = inbox[t]
  \/ /\ role[t] # "none"
     /\ \E e \in Events : /\ inbox'[t] = Append(inbox[t], e) /\ e.rev <= srv'.inv /\ e.tool # "role"
  \/ inbox[t] # <<>> /\ inbox'[t] = Tail(inbox[t]) /\ Handle(t)

(* A step that disturbs nothing appends one event, pops one or leaves the inbox. *)
LEMMA BoxStep ==
  ASSUME TypeOK, CalmInv, ToldInv, [Next]_vars, ~disturbed', NEW t \in Tuis
  PROVE  Boxed(t)
<1>a. /\ ~disturbed
      /\ \/ MoveHead \/ AgentStep \/ UNCHANGED vars
         \/ \E c \in Clients : CallStep(c)
         \/ \E d \in Tuis : LoopStep(d)
  BY CalmFrame
<1>b. alive[t] /\ 0 \in Revs /\ srv.inv \in Nat
  BY <1>a, ExplorerAssumption DEF CalmInv, Clients, TypeOK, Revs
<1>c. ASSUME NEW tool \in {"reload", "drift"}, NEW c \in Clients, NEW r \in Revs, r <= srv'.inv,
             inbox' = Emit(inbox, tool, c, r)
      PROVE  Boxed(t)
  <2> DEFINE e == [tool |-> tool, origin |-> Origin(c), rev |-> r]
  <2>1. e \in Events /\ e.rev = r /\ e.tool = tool
    BY DEF Events, Origin, TypeOK
  <2> HIDE DEF e
  <2>2. inbox'[t] = IF role[t] # "none" THEN Append(inbox[t], e) ELSE inbox[t]
    BY <1>b, <1>c DEF Emit, e
  <2> QED BY <1>c, <2>1, <2>2 DEF Boxed
<1>1. CASE MoveHead \/ AgentStep \/ UNCHANGED vars
  BY <1>1 DEF MoveHead, AgentStep, AgentCalls, LeaderSeesHead, vars, Boxed
<1>2. ASSUME NEW c \in Clients, CallStep(c) PROVE Boxed(t)
  <2>1. CASE ToolReload(c)
    <3>1. task[c].lazy \in Revs
      BY DEF TypeOK, Jobs
    <3>2. srv'.inv = task[c].lazy /\ task[c].lazy \in Nat
      BY <1>2, <1>a, <2>1, <3>1, ServedStep DEF Revs
    <3>3. inbox' = Emit(inbox, "reload", c, task[c].lazy)
      BY <2>1 DEF ToolReload
    <3> QED BY <1>c, <3>1, <3>2, <3>3
  <2>2. CASE ToolDriftEval(c)
    <3>0. task[c].lazy \in Nat
      BY DEF TypeOK, Jobs, Revs
    <3>1. srv'.inv \in Nat
      BY <1>2, <1>a, <1>b, <3>0, ServedStep
    <3>2. inbox' = Emit(inbox, "drift", c, 0)
      BY <2>2 DEF ToolDriftEval
    <3> QED BY <1>b, <1>c, <3>1, <3>2
  <2>3. CASE ~ToolReload(c) /\ ~ToolDriftEval(c)
    BY <1>2, <2>3 DEF CallStep, FreshInventory, FreshInventoryFails, LazyInventory, ToolRead,
       ToolDriftRev, Aggregate, Inspect, Toplevels, Label, Boxed
  <2> QED BY <2>1, <2>2, <2>3
<1>3. ASSUME NEW d \in Tuis, LoopStep(d) PROVE Boxed(t)
  <2>1. CASE Handle(d)
    <3>1. CASE d = t
      BY <2>1, <3>1, HandleBox DEF Boxed
    <3>2. CASE d # t
      BY <2>1, <3>2, HandleBox DEF Boxed
    <3> QED BY <3>1, <3>2
  <2>2. CASE ~Handle(d)
    BY <1>3, <2>2 DEF LoopStep, Press, SoloSeesHead, LoadFinished, DriftEvalFinished, SurveyDone, Boxed
  <2> QED BY <2>1, <2>2
<1> QED BY <1>a, <1>1, <1>2, <1>3

(* At first nobody was told anything. *)
LEMMA InitTold ==
  Init => ToldInv
<1> SUFFICES ASSUME Init PROVE ToldInv
  OBVIOUS
<1>1. srv = [inv |-> 1, worker |-> 1]
  BY Zenon DEF Init
<1>2. srv.inv = 1
  BY <1>1
<1>3. ASSUME NEW t \in Tuis PROVE landed[t] = 0 /\ inbox[t] = <<>> /\ seen[t] = 1 /\ head = 1
  BY DEF Init
<1>4. ASSUME NEW t \in Tuis
      PROVE  /\ landed[t] <= srv.inv
             /\ \A i \in 1..Len(inbox[t]) : inbox[t][i].rev <= srv.inv /\ inbox[t][i].tool # "role"
             /\ role[t] = "none" => landed[t] = 0 /\ inbox[t] = <<>> /\ seen[t] <= head
  <2>1. Len(inbox[t]) = 0
    BY <1>3
  <2>2. \A i \in 1..Len(inbox[t]) : FALSE
    BY <2>1
  <2> QED BY <1>2, <1>3, <2>2
<1> QED BY <1>4 DEF ToldInv

(* Nobody is told of a contract newer than the one served. *)
LEMMA ToldStep ==
  TypeOK /\ JobInv /\ CalmInv /\ ToldInv /\ [Next]_vars => ToldInv'
<1> SUFFICES ASSUME TypeOK, JobInv, CalmInv, ToldInv, [Next]_vars, ~disturbed', NEW t \in Tuis
             PROVE  /\ landed'[t] <= srv'.inv
                    /\ \A i \in 1..Len(inbox'[t]) : inbox'[t][i].rev <= srv'.inv /\ inbox'[t][i].tool # "role"
                    /\ role'[t] = "none" => landed'[t] = 0 /\ inbox'[t] = <<>> /\ seen'[t] <= head'
  BY DEF ToldInv
<1>a. /\ ~disturbed /\ UNCHANGED <<leader, alive, role>>
      /\ \/ MoveHead \/ AgentStep \/ UNCHANGED vars
         \/ \E c \in Clients : CallStep(c)
         \/ \E d \in Tuis : LoopStep(d)
  BY CalmFrame
<1>b. /\ landed[t] <= srv.inv
      /\ \A i \in 1..Len(inbox[t]) : inbox[t][i].rev <= srv.inv /\ inbox[t][i].tool # "role"
      /\ role[t] = "none" => landed[t] = 0 /\ inbox[t] = <<>> /\ seen[t] <= head
  BY <1>a DEF ToldInv
<1>c. TypeOK' /\ inbox[t] \in Seq(Events)
  BY TypeStep DEF TypeOK
<1>d. srv.inv \in Nat /\ srv'.inv \in Nat /\ landed[t] \in Nat /\ head \in Nat /\ head' \in Nat /\ seen[t] \in Nat
  BY <1>c DEF TypeOK, Revs
<1>e. srv.inv <= srv'.inv
  BY <1>a, <1>d, ServedStep, ServedElse
<1>f. \A e \in Events : e.rev \in Nat
  BY DEF Events, Revs
<1>g. \A i \in 1..Len(inbox[t]) : inbox[t][i] \in Events
  BY <1>c
<1>h. \A i \in 1..Len(inbox[t]) : inbox[t][i].rev <= srv'.inv /\ inbox[t][i].tool # "role"
  BY <1>b, <1>d, <1>e, <1>f, <1>g
<1>1. \A i \in 1..Len(inbox'[t]) : inbox'[t][i].rev <= srv'.inv /\ inbox'[t][i].tool # "role"
  <2>1. CASE inbox'[t] = inbox[t]
    BY <1>h, <2>1
  <2>2. ASSUME NEW e \in Events, inbox'[t] = Append(inbox[t], e), e.rev <= srv'.inv, e.tool # "role"
        PROVE  \A i \in 1..Len(inbox'[t]) : inbox'[t][i].rev <= srv'.inv /\ inbox'[t][i].tool # "role"
    <3>1. /\ Len(inbox'[t]) = Len(inbox[t]) + 1 /\ inbox'[t][Len(inbox[t]) + 1] = e /\ Len(inbox[t]) \in Nat
          /\ \A i \in 1..Len(inbox[t]) : inbox'[t][i] = inbox[t][i]
      BY <1>c, <2>2, AppendIndex
    <3> QED BY <1>h, <2>2, <3>1
  <2>3. CASE inbox[t] # <<>> /\ inbox'[t] = Tail(inbox[t])
    BY <1>c, <1>h, <2>3, TailIndex
  <2> QED BY <2>1, <2>2, <2>3, BoxStep DEF Boxed
<1>2. landed'[t] <= srv'.inv /\ (role[t] = "none" => landed'[t] = 0)
  <2>1. CASE landed'[t] = landed[t]
    BY <1>b, <1>d, <1>e, <2>1
  <2>2. CASE Handle(t) /\ landed'[t] # landed[t]
    <3>1. landed'[t] = Head(inbox[t]).rev
      BY <2>2 DEF Handle, TypeOK
    <3>2. inbox[t] # <<>>
      BY <2>2 DEF Handle
    <3>3. Head(inbox[t]) = inbox[t][1] /\ 1 \in 1..Len(inbox[t])
      BY <1>c, <3>2
    <3> QED BY <1>b, <1>h, <3>1, <3>2, <3>3
  <2>3. landed'[t] = landed[t] \/ Handle(t)
    <3>1. CASE MoveHead \/ AgentStep \/ UNCHANGED vars
      BY <3>1 DEF MoveHead, AgentStep, AgentCalls, LeaderSeesHead, vars, history
    <3>2. ASSUME NEW c \in Clients, CallStep(c) PROVE landed' = landed
      BY <3>2 DEF CallStep, FreshInventory, FreshInventoryFails, ToolReload, LazyInventory, ToolRead,
         ToolDriftRev, ToolDriftEval, Aggregate, Inspect, Toplevels, Label, history
    <3>3. ASSUME NEW d \in Tuis, LoopStep(d) PROVE landed'[t] = landed[t] \/ Handle(t)
      <4>1. CASE Handle(d)
        BY <4>1 DEF Handle, TypeOK
      <4>2. CASE ~Handle(d)
        BY <3>3, <4>2 DEF LoopStep, Press, SoloSeesHead, LoadFinished, DriftEvalFinished, SurveyDone, history
      <4> QED BY <4>1, <4>2
    <3> QED BY <1>a, <3>1, <3>2, <3>3
  <2> QED BY <2>1, <2>2, <2>3
<1>3. role[t] = "none" => inbox'[t] = <<>>
  BY <1>b, BoxStep DEF Boxed
<1>4. role[t] = "none" => seen'[t] <= head'
  <2>1. CASE MoveHead \/ UNCHANGED vars
    BY <1>b, <1>d, <2>1 DEF MoveHead, vars
  <2>2. CASE AgentStep
    <3>1. seen'[t] = seen[t] /\ head' = head
      BY <2>2, ExplorerAssumption DEF AgentStep, AgentCalls, LeaderSeesHead, world, TypeOK
    <3> QED BY <1>b, <3>1
  <2>3. ASSUME NEW c \in Clients, CallStep(c) PROVE seen'[t] = seen[t] /\ head' = head
    BY <2>3 DEF CallStep, FreshInventory, FreshInventoryFails, ToolReload, LazyInventory, ToolRead,
       ToolDriftRev, ToolDriftEval, Aggregate, Inspect, Toplevels, Label, world
  <2>4. ASSUME NEW d \in Tuis, LoopStep(d) PROVE seen'[t] \in {seen[t], head} /\ head' = head
    <3>1. CASE SoloSeesHead(d)
      BY <3>1 DEF SoloSeesHead, TypeOK
    <3>2. CASE ~SoloSeesHead(d)
      BY <2>4, <3>2 DEF LoopStep, Press, LoadFinished, DriftEvalFinished, SurveyDone, Handle, world
    <3> QED BY <3>1, <3>2
  <2> QED BY <1>a, <1>b, <1>d, <2>1, <2>2, <2>3, <2>4
<1> QED BY <1>a, <1>1, <1>2, <1>3, <1>4

-----------------------------------------------------------------------------
(* What is shown. *)

(* An announced swap waits until it is handled. *)
LEMMA PendingKept ==
  ASSUME TypeOK, CalmInv, ToldInv, [Next]_vars, ~disturbed', NEW t \in Tuis, Pending(t),
         ~(Handle(t) /\ Swap(t, Head(inbox[t])))
  PROVE  Pending(t)'
<1>a. role' = role /\ inbox[t] \in Seq(Events)
  BY CalmFrame DEF TypeOK
<1>b. \A e : Swap(t, e) => Swap(t, e)'
  BY <1>a DEF Swap, IsOwnCall
<1>c. PICK i \in 1..Len(inbox[t]) : Swap(t, inbox[t][i])
  BY DEF Pending
<1>d. Len(inbox[t]) \in Nat
  BY <1>a
<1> SUFFICES \E n \in 1..Len(inbox'[t]) : inbox'[t][n] = inbox[t][i]
  BY <1>b, <1>c DEF Pending, Swap, IsOwnCall
<1>1. CASE inbox'[t] = inbox[t]
  BY <1>1
<1>2. ASSUME NEW e \in Events, inbox'[t] = Append(inbox[t], e)
      PROVE  \E n \in 1..Len(inbox'[t]) : inbox'[t][n] = inbox[t][i]
  <2>1. /\ Len(inbox'[t]) = Len(inbox[t]) + 1
        /\ inbox'[t][i] = inbox[t][i]
    BY <1>a, <1>2, AppendIndex
  <2> QED BY <1>d, <2>1
<1>3. CASE inbox[t] # <<>> /\ inbox'[t] = Tail(inbox[t]) /\ Handle(t)
  <2>1. /\ Len(Tail(inbox[t])) = Len(inbox[t]) - 1
        /\ \A n \in 1..Len(Tail(inbox[t])) : Tail(inbox[t])[n] = inbox[t][n + 1]
        /\ Head(inbox[t]) = inbox[t][1]
    BY <1>a, <1>3, TailIndex
  <2>2. i # 1
    BY <1>3, <1>c, <2>1
  <2>3. i - 1 \in 1..Len(inbox'[t])
    BY <1>3, <1>d, <2>1, <2>2
  <2>4. inbox'[t][i - 1] = inbox[t][(i - 1) + 1] /\ (i - 1) + 1 = i
    BY <1>3, <2>1, <2>3
  <2> QED BY <2>3, <2>4
<1> QED BY <1>1, <1>2, <1>3, BoxStep DEF Boxed

(* A reload is announced to every joined explorer but the one that asked. *)
LEMMA PendingMade ==
  ASSUME TypeOK, CalmInv, ~disturbed, UNCHANGED <<leader, role>>, NEW c \in Clients, ToolReload(c),
         NEW t \in Tuis, t # c, role[t] # "none"
  PROVE  Pending(t)'
<1>1. task[c].lazy \in Revs /\ inbox[t] \in Seq(Events) /\ alive[t] /\ leader \in Clients /\ t \in Clients
  BY DEF TypeOK, Jobs, CalmInv, Clients
<1>2. [tool |-> "reload", origin |-> Origin(c), rev |-> task[c].lazy] \in Events
  BY <1>1 DEF Events, Origin
<1>3. PICK e \in Events : e = [tool |-> "reload", origin |-> Origin(c), rev |-> task[c].lazy]
  BY <1>2
<1>3b. e.tool = "reload" /\ e.origin = Origin(c)
  BY <1>3
<1>4. inbox'[t] = Append(inbox[t], e)
  BY <1>1, <1>3 DEF ToolReload, Emit
<1>5. /\ Len(inbox'[t]) = Len(inbox[t]) + 1 /\ inbox'[t][Len(inbox[t]) + 1] = e /\ Len(inbox[t]) \in Nat
  BY <1>1, <1>4, AppendIndex
<1>6. ~(role[t] = "leader" /\ Origin(c) = "leader")
  <2>1. role[t] = "leader" => t = leader
    BY DEF CalmInv
  <2>2. c # leader => Origin(c) = c /\ c # "leader"
    BY ExplorerAssumption DEF Origin, Clients
  <2> QED BY <2>1, <2>2
<1>7. ~(role[t] = "observer" /\ Origin(c) = t)
  <2>1. t # "leader"
    BY ExplorerAssumption
  <2> QED BY <2>1 DEF Origin
<1>8. Swap(t, e)'
  BY <1>3b, <1>6, <1>7 DEF Swap, IsOwnCall
<1>9. Len(inbox[t]) + 1 \in 1..Len(inbox'[t])
  BY <1>5
<1> QED BY <1>5, <1>8, <1>9 DEF Pending

(* A contract that is good for t stays so until t rebinds or reloads. *)
LEMMA GoodStep ==
  ASSUME TypeOK, JobInv, CalmInv, ToldInv, HeadInv, [Next]_vars, ~disturbed', NEW t \in Tuis,
         ~(Handle(t) /\ Swap(t, Head(inbox[t]))), ~SoloSeesHead(t), ~ToolReload(t),
         NEW x \in Revs, Good(t, x)
  PROVE  Good(t, x)'
<1>a. /\ ~disturbed /\ UNCHANGED <<leader, alive, role>>
      /\ \/ MoveHead \/ AgentStep \/ UNCHANGED vars
         \/ \E c \in Clients : CallStep(c)
         \/ \E d \in Tuis : LoopStep(d)
  BY CalmFrame
<1>b. x \in Nat /\ head \in Nat
  BY DEF TypeOK, Revs
<1>1. x <= head' /\ head' \in Nat
  <2>1. head' = head \/ head' = head + 1
    BY <1>a DEF MoveHead, AgentStep, AgentCalls, LeaderSeesHead, vars, CallStep, FreshInventory, FreshInventoryFails,
       ToolReload, LazyInventory, ToolRead, ToolDriftRev, ToolDriftEval, Aggregate, Inspect, Toplevels, Label,
       LoopStep, Press, SoloSeesHead, LoadFinished, DriftEvalFinished, SurveyDone, Handle, world
  <2> QED BY <1>b, <2>1 DEF Good
<1>2. landed'[t] = landed[t]
  <2>1. CASE MoveHead \/ AgentStep \/ UNCHANGED vars
    BY <2>1 DEF MoveHead, AgentStep, AgentCalls, LeaderSeesHead, vars, history
  <2>2. ASSUME NEW c \in Clients, CallStep(c) PROVE landed' = landed
    BY <2>2 DEF CallStep, FreshInventory, FreshInventoryFails, ToolReload, LazyInventory, ToolRead,
       ToolDriftRev, ToolDriftEval, Aggregate, Inspect, Toplevels, Label, history
  <2>3. ASSUME NEW d \in Tuis, LoopStep(d) PROVE landed'[t] = landed[t]
    <3>1. CASE Handle(d)
      BY <3>1 DEF Handle, Swap, TypeOK
    <3>2. CASE ~Handle(d)
      BY <2>3, <3>2 DEF LoopStep, Press, SoloSeesHead, LoadFinished, DriftEvalFinished, SurveyDone, history
    <3> QED BY <3>1, <3>2
  <2> QED BY <1>a, <2>1, <2>2, <2>3
<1>3. seen'[t] = seen[t]
  <2>1. CASE MoveHead \/ AgentStep \/ UNCHANGED vars
    BY <2>1, ExplorerAssumption DEF MoveHead, AgentStep, AgentCalls, LeaderSeesHead, vars, world, TypeOK
  <2>2. ASSUME NEW c \in Clients, CallStep(c) PROVE seen' = seen
    BY <2>2 DEF CallStep, FreshInventory, FreshInventoryFails, ToolReload, LazyInventory, ToolRead,
       ToolDriftRev, ToolDriftEval, Aggregate, Inspect, Toplevels, Label, world
  <2>3. ASSUME NEW d \in Tuis, LoopStep(d) PROVE seen'[t] = seen[t]
    <3>1. CASE SoloSeesHead(d)
      BY <3>1 DEF SoloSeesHead, TypeOK
    <3>2. CASE ~SoloSeesHead(d)
      BY <2>3, <3>2 DEF LoopStep, Press, LoadFinished, DriftEvalFinished, SurveyDone, Handle, world
    <3> QED BY <3>1, <3>2
  <2> QED BY <1>a, <2>1, <2>2, <2>3
<1>4. role[t] # "none" => x = srv'.inv \/ Pending(t)'
  <2>1. CASE Pending(t)
    BY <2>1, PendingKept
  <2>2. CASE srv'.inv = srv.inv
    BY <2>1, <2>2 DEF Good
  <2>3. ASSUME NEW c \in Clients, CallStep(c), role[t] # "none" PROVE srv'.inv = srv.inv \/ Pending(t)'
    <3>1. CASE ToolReload(c)
      BY <1>a, <2>3, <3>1, PendingMade
    <3>2. CASE ~ToolReload(c)
      BY <1>a, <2>3, <3>2, ServedStep
    <3> QED BY <3>1, <3>2
  <2>4. CASE MoveHead \/ AgentStep \/ UNCHANGED vars \/ \E d \in Tuis : LoopStep(d)
    BY <2>2, <2>4, ServedElse
  <2> QED BY <1>a, <2>2, <2>3, <2>4
<1> QED BY <1>a, <1>1, <1>2, <1>3, <1>4 DEF Good

(* A view that still holds of the old state holds of the new one. *)
LEMMA ViewFrame ==
  ASSUME NEW t \in Tuis, TypeOK', role' = role, ViewOf(t, ui'[t], task'[t]),
         \/ \A x \in Revs : Good(t, x) => Good(t, x)'
         \/ Blank(ui'[t], task'[t])
  PROVE  ViewOf(t, ui[t], task[t])'
<1>a. ui'[t] \in UIs /\ task'[t] \in Jobs
  BY DEF TypeOK, Clients
<1>b. ui'[t].inv \in Seq(Revs) /\ task'[t].got \in Seq(Revs)
  BY <1>a DEF UIs, Jobs
<1>c. /\ \A i \in 1..Len(ui'[t].inv) : ui'[t].inv[i] \in Revs
      /\ \A i \in 1..Len(task'[t].got) : task'[t].got[i] \in Revs
  BY <1>b
<1>1. /\ ui'[t].inv # <<>> => Len(ui'[t].inv) = 3
      /\ Cleared(ui'[t], task'[t])
      /\ Route(t, task[t])'
  BY DEF ViewOf, Route
<1>2. (\A i \in 1..Len(ui[t].inv) : Good(t, ui[t].inv[i]))'
  <2>1. CASE \A x \in Revs : Good(t, x) => Good(t, x)'
    <3>1. \A i \in 1..Len(ui'[t].inv) : Good(t, ui'[t].inv[i])
      BY DEF ViewOf
    <3>2. \A i \in 1..Len(ui'[t].inv) : \E x \in Revs : x = ui'[t].inv[i] /\ Good(t, x)'
      BY <1>c, <2>1, <3>1
    <3> QED BY <3>2 DEF Good
  <2>2. CASE Blank(ui'[t], task'[t])
    <3>1. Len(ui'[t].inv) = 0
      BY <2>2 DEF Blank
    <3> QED BY <3>1
  <2> QED BY <2>1, <2>2
<1>3. (task[t].kind = "load" /\ ~task[t].stale => \A i \in 1..Len(task[t].got) : Good(t, task[t].got[i]))'
  <2>1. CASE \A x \in Revs : Good(t, x) => Good(t, x)'
    <3>1. task'[t].kind = "load" /\ ~task'[t].stale => \A i \in 1..Len(task'[t].got) : Good(t, task'[t].got[i])
      BY DEF ViewOf
    <3>2. task'[t].kind = "load" /\ ~task'[t].stale =>
            \A i \in 1..Len(task'[t].got) : \E x \in Revs : x = task'[t].got[i] /\ Good(t, x)'
      BY <1>c, <2>1, <3>1
    <3> QED BY <3>2 DEF Good
  <2>2. CASE Blank(ui'[t], task'[t])
    <3>1. task'[t].kind = "load" /\ ~task'[t].stale => Len(task'[t].got) = 0
      BY <2>2 DEF Blank
    <3> QED BY <3>1
  <2> QED BY <2>1, <2>2
<1> QED BY <1>1, <1>2, <1>3 DEF ViewOf, Cleared

(* What a step of t's own call has read. *)
LEMMA CallGot ==
  ASSUME TypeOK, JobInv, NEW t \in Tuis, CallStep(t)
  PROVE  \/ LazyInventory(t)
         \/ task'[t].got = task[t].got
         \/ task'[t].got = Append(task[t].got, srv.inv) /\ task[t].todo # <<>> /\ Head(task[t].todo) \in Reads
         \/ task'[t].got = All(head) /\ task[t].kind = "load" /\ task[t].todo = A2
<1>a. t \in Clients /\ task[t] \in Jobs /\ Shape(task[t])
  BY DEF TypeOK, JobInv, Clients
<1>b. ASSUME NEW k \in Jobs, Taken(t, k) PROVE task'[t] = k
  BY <1>a, <1>b, SettledIs DEF Taken
<1>1. CASE FreshInventory(t)
  BY <1>1, <1>a, <1>b, FreshJob
<1>2. CASE FreshInventoryFails(t)
  BY <1>2, <1>a, <1>b, FreshFailsJob DEF Fails
<1>3. CASE ToolReload(t)
  BY <1>3, <1>a, <1>b, ReloadJob DEF Keeps
<1>5. CASE ToolRead(t)
  BY <1>5, <1>a, <1>b, ReadJob DEF ReadsInto, Pops
<1>6. CASE ToolDriftRev(t)
  BY <1>6, <1>a, <1>b, RevJob DEF LabelsAs
<1>7. CASE ToolDriftEval(t)
  BY <1>7, <1>a, <1>b, EvalJob DEF EvaluatesTo, Fails
<1>8. CASE Aggregate(t)
  <2>1. task[t].kind = "load" /\ task[t].todo = A2
    BY <1>8, <1>a, AggregateJob, KindOf
  <2>2. PICK k \in Jobs : Taken(t, k) /\ (k.got = All(head) \/ k.got = task[t].got)
    BY <1>8, AggregateJob DEF Fails
  <2>3. task'[t] = k
    BY <1>b, <2>2
  <2> QED BY <2>1, <2>2, <2>3
<1>9. CASE Inspect(t)
  BY <1>9, <1>b, InspectJob
<1>10. CASE Toplevels(t)
  BY <1>10, <1>b, ToplevelsJob DEF EvaluatesTo, Fails
<1>11. CASE Label(t)
  BY <1>11, <1>b, LabelJob DEF LabelsAs
<1> QED BY <1>1, <1>2, <1>3, <1>5, <1>6, <1>7, <1>8, <1>9, <1>10, <1>11 DEF CallStep

(* A step of t's own call that is no reload brings only good contracts. *)
LEMMA CallView ==
  ASSUME TypeOK, JobInv, CalmInv, ToldInv, HeadInv, ~disturbed, ~disturbed', NEW t \in Tuis, CallStep(t),
         ViewOf(t, ui[t], task[t])
  PROVE  ViewOf(t, ui'[t], task'[t])
<1> DEFINE u == ui[t]  j == task[t]  k == task'[t]
<1>a. t \in Clients /\ j \in Jobs /\ u \in UIs /\ Shape(j)
  BY DEF TypeOK, JobInv, Clients
<1>b. ui' = ui /\ k \in Jobs /\ Downhill(j, k)
  <2>1. PICK n \in Jobs : Advances(t, n) /\ ui' = ui
    BY <1>a, CallAdvances
  <2>2. task'[t] = n
    BY <1>a, <2>1, SettledIs DEF Advances, Taken
  <2> QED BY <2>1, <2>2 DEF Advances
<1>c. Cleared(u, k) /\ Route(t, k) /\ k.kind = j.kind /\ k.stale = j.stale
  BY <1>a, <1>b, DownhillKeeps DEF ViewOf, Downhill
<1>d. j.got \in Seq(Revs) /\ srv.inv \in Revs /\ head \in Revs /\ head \in Nat /\ srv.inv \in Nat
  BY <1>a DEF Jobs, TypeOK, Revs
<1>e. /\ landed[t] <= srv.inv /\ srv.inv <= head /\ landed[t] \in Nat
      /\ role[t] = "none" => landed[t] = 0 /\ seen[t] <= head
  BY DEF ToldInv, HeadInv, TypeOK, Revs
<1>f. ~LazyInventory(t)
  BY <1>a, ServedStep
<1> HIDE DEF u, j, k
<1>g. k.kind = "load" /\ ~k.stale => \A i \in 1..Len(k.got) : Good(t, k.got[i])
  <2> SUFFICES ASSUME k.kind = "load", ~k.stale PROVE \A i \in 1..Len(k.got) : Good(t, k.got[i])
    OBVIOUS
  <2>0. \A i \in 1..Len(j.got) : Good(t, j.got[i])
    BY <1>c DEF ViewOf, u, j
  <2>1. CASE k.got = j.got
    BY <2>0, <2>1
  <2>2. CASE k.got = Append(j.got, srv.inv) /\ j.todo # <<>> /\ Head(j.todo) \in Reads
    <3>1. j.todo \notin {A2, L1, <<>>}
      BY <2>2, Todos DEF Reads
    <3>2. role[t] # "none"
      BY <1>c, <3>1 DEF ViewOf, Route, u, j
    <3>3. Good(t, srv.inv)
      BY <1>e, <3>2 DEF Good
    <3>4. /\ Len(k.got) = Len(j.got) + 1 /\ k.got[Len(j.got) + 1] = srv.inv
          /\ \A i \in 1..Len(j.got) : k.got[i] = j.got[i]
      BY <1>d, <2>2, AppendIndex
    <3>5. \A i \in 1..Len(k.got) : i \in 1..Len(j.got) \/ i = Len(j.got) + 1
      BY <1>d, <3>4
    <3> QED BY <2>0, <3>3, <3>4, <3>5
  <2>3. CASE k.got = All(head) /\ j.kind = "load" /\ j.todo = A2
    <3>1. role[t] = "none"
      BY <2>3 DEF ViewOf, Route, u, j
    <3>2. Good(t, head)
      BY <1>d, <1>e, <3>1 DEF Good
    <3>3. Len(k.got) = 3 /\ \A i \in 1..3 : k.got[i] = head
      BY <2>3 DEF All
    <3> QED BY <3>2, <3>3
  <2> QED BY <1>f, <2>1, <2>2, <2>3, CallGot DEF j, k
<1> QED BY <1>b, <1>c, <1>g DEF ViewOf, u, j, k

(* A step of t's loop clears the view or keeps it. *)
LEMMA LoopView ==
  ASSUME TypeOK, JobInv, NEW t \in Tuis, LoopStep(t), ViewOf(t, ui[t], task[t])
  PROVE  /\ ViewOf(t, ui'[t], task'[t])
         /\ SoloSeesHead(t) \/ (Handle(t) /\ Swap(t, Head(inbox[t]))) => Blank(ui'[t], task'[t])
<1>a. Route(t, task[t])
  BY DEF ViewOf
<1>0. ASSUME NEW fresh \in BOOLEAN, Put(t, RequestRebind(t, Get(t), fresh))
      PROVE  ViewOf(t, ui'[t], task'[t]) /\ Blank(ui'[t], task'[t])
  BY <1>0, <1>a, RebindApplied
<1>1. CASE Put(t, RequestRebind(t, Get(t), TRUE)) \/ Put(t, RequestRebind(t, Get(t), FALSE))
  BY <1>0, <1>1
<1>2. CASE SoloSeesHead(t) \/ (Handle(t) /\ Swap(t, Head(inbox[t])))
  BY <1>1, <1>2 DEF SoloSeesHead, Handle, Swap, RequestReload, RequestInventorySwap
<1>3. CASE ~(SoloSeesHead(t) \/ (Handle(t) /\ Swap(t, Head(inbox[t]))))
  <2> SUFFICES ViewOf(t, ui'[t], task'[t])
    BY <1>3
  <2>1. CASE Put(t, RefreshDrift(t, Get(t)))
    BY <2>1, RefreshApplied
  <2>2. CASE LoadFinished(t) \/ DriftEvalFinished(t)
    BY <2>2, LoadApplied, EvalApplied
  <2>3. CASE SurveyDone(t)
    BY <2>3, SurveyApplied, RepaintKeeps
  <2>4. CASE Put(t, <<DriftLanded(ui[t]), task[t]>>)
    BY <2>4, DriftApplied, RepaintKeeps
  <2>5. CASE UNCHANGED <<ui, task>>
    BY <2>5
  <2> QED BY <1>1, <2>1, <2>2, <2>3, <2>4, <2>5
          DEF LoopStep, Press, SoloSeesHead, Handle, RequestReload, RequestInventorySwap
<1> QED BY <1>2, <1>3

(* What is shown stays good. *)
LEMMA ViewStep ==
  TypeOK /\ JobInv /\ CalmInv /\ ToldInv /\ ViewInv /\ HeadInv /\ [Next]_vars => ViewInv'
<1> SUFFICES ASSUME TypeOK, JobInv, CalmInv, ToldInv, ViewInv, HeadInv, [Next]_vars, ~disturbed', NEW t \in Tuis
             PROVE  ViewOf(t, ui[t], task[t])'
  BY DEF ViewInv
<1>a. /\ ~disturbed /\ role' = role
      /\ \/ MoveHead \/ AgentStep \/ UNCHANGED vars
         \/ \E c \in Clients : CallStep(c)
         \/ \E d \in Tuis : LoopStep(d)
  BY CalmFrame
<1>b. ViewOf(t, ui[t], task[t]) /\ TypeOK' /\ t \in Clients
  BY <1>a, TypeStep DEF ViewInv, Clients
<1>1. CASE SoloSeesHead(t) \/ (Handle(t) /\ Swap(t, Head(inbox[t])))
  <2>1. LoopStep(t)
    BY <1>1 DEF LoopStep
  <2> QED BY <1>1, <1>a, <1>b, <2>1, LoopView, ViewFrame
<1>2. CASE ToolReload(t)
  <2>1. CallStep(t)
    BY <1>2 DEF CallStep
  <2>2. ViewOf(t, ui'[t], task'[t])
    BY <1>a, <1>b, <2>1, CallView
  <2>3. task[t] \in Jobs /\ Shape(task[t]) /\ task[t].todo # <<>> /\ Head(task[t].todo) = "reload"
    BY <1>2, <1>b DEF TypeOK, JobInv, ToolReload, At
  <2>4. task[t].kind = "load" /\ task[t].todo = L5
    BY <2>3, KindOf
  <2>5. task[t].got = <<>>
    BY <2>3, <2>4, Apart, Todos DEF Shape, LoadShape
  <2>6. PICK k \in Jobs : Taken(t, k) /\ k.got = task[t].got
    BY <1>2, <1>b, ReloadJob DEF Keeps
  <2>7. task'[t] = k /\ ui' = ui
    BY <1>2, <1>b, <2>6, SettledIs DEF Taken, ToolReload
  <2>8. Blank(ui'[t], task'[t])
    BY <1>b, <2>4, <2>5, <2>6, <2>7 DEF ViewOf, Cleared, Blank
  <2> QED BY <1>a, <1>b, <2>2, <2>8, ViewFrame
<1>3. CASE ~SoloSeesHead(t) /\ ~(Handle(t) /\ Swap(t, Head(inbox[t]))) /\ ~ToolReload(t)
  <2>1. \A x \in Revs : Good(t, x) => Good(t, x)'
    BY <1>3, GoodStep
  <2> SUFFICES ViewOf(t, ui'[t], task'[t])
    BY <1>a, <1>b, <2>1, ViewFrame
  <2>2. CASE ui'[t] = ui[t] /\ task'[t] = task[t]
    BY <1>b, <2>2
  <2>3. CASE MoveHead \/ UNCHANGED vars
    BY <2>2, <2>3 DEF MoveHead, vars
  <2>4. CASE AgentStep
    <3>1. PICK c \in {Agent, Watch}, k \in Jobs : Taken(c, k) /\ ui' = ui
      BY <2>4, AgentJob
    <3>2. c # t
      BY ExplorerAssumption
    <3> QED BY <1>b, <2>2, <3>1, <3>2 DEF Taken
  <2>5. ASSUME NEW c \in Clients, CallStep(c) PROVE ViewOf(t, ui'[t], task'[t])
    <3>1. CASE c = t
      BY <1>a, <1>b, <2>5, <3>1, CallView
    <3>2. CASE c # t
      BY <1>b, <2>2, <2>5, <3>2, CallAdvances DEF Advances, Taken
    <3> QED BY <3>1, <3>2
  <2>6. ASSUME NEW d \in Tuis, LoopStep(d) PROVE ViewOf(t, ui'[t], task'[t])
    <3>1. CASE d = t
      BY <1>b, <2>6, <3>1, LoopView
    <3>2. CASE d # t
      BY <1>b, <2>2, <2>6, <3>2, LoopApplies DEF Applied, Repainted
    <3> QED BY <3>1, <3>2
  <2> QED BY <1>a, <2>3, <2>4, <2>5, <2>6
<1> QED BY <1>1, <1>2, <1>3

(* At first the leader shows the first commit and the others load it. *)
LEMMA InitView ==
  Init => ViewInv
<1> SUFFICES ASSUME Init, NEW t \in Tuis PROVE ViewOf(t, ui[t], task[t])
  BY DEF ViewInv
<1>a. t \in Clients
  BY DEF Clients
<1>b. srv = [inv |-> 1, worker |-> 1]
  BY Zenon DEF Init
<1>c. srv.inv = 1 /\ head = 1 /\ landed[t] = 0 /\ seen[t] = 1
  BY <1>b DEF Init
<1>1. CASE t = leader
  <2>1. task[t] = None /\ ui[t] = [Fresh0 EXCEPT !.inv = All(1), !.rev = 1, !.cached = 1, !.expected = 1]
    BY <1>1, <1>a DEF Init
  <2>2. ui[t].inv = All(1) /\ ~ui[t].freshWanted
    BY <2>1, FirstFields
  <2>3. Len(ui[t].inv) = 3 /\ \A i \in 1..3 : ui[t].inv[i] = 1
    BY <2>2 DEF All
  <2>4. Good(t, 1)
    BY <1>c DEF Good
  <2>5. task[t].kind = "none" /\ task[t].todo = <<>>
    BY <2>1, NoneFields
  <2>6. Cleared(ui[t], task[t]) /\ Route(t, task[t])
    BY <2>2, <2>5, Todos DEF Cleared, Route
  <2> QED BY <2>3, <2>4, <2>5, <2>6 DEF ViewOf
<1>2. CASE t # leader
  <2>1. task[t] = StartLoad(t, FALSE) /\ ui[t] = [Fresh0 EXCEPT !.busy = TRUE]
    BY <1>2, <1>a DEF Init
  <2>2. ui[t].inv = <<>> /\ ~ui[t].freshWanted
    BY <2>1, FirstFields
  <2>3. task[t].got = <<>> /\ Route(t, task[t])
    BY <2>1, NewJobs
  <2>4. Len(ui[t].inv) = 0 /\ Len(task[t].got) = 0
    BY <2>2, <2>3
  <2>5. Cleared(ui[t], task[t])
    BY <2>2 DEF Cleared
  <2> QED BY <2>2, <2>3, <2>4, <2>5 DEF ViewOf
<1> QED BY <1>1, <1>2

-----------------------------------------------------------------------------
(* What is served follows HEAD. *)

(* At first the watcher has seen the HEAD served. *)
LEMMA InitHead ==
  Init => HeadInv
<1> SUFFICES ASSUME Init PROVE HeadInv
  OBVIOUS
<1>b. srv = [inv |-> 1, worker |-> 1]
  BY Zenon DEF Init
<1>c. srv.inv = 1 /\ head = 1 /\ seen[Watch] = 1
  BY <1>b DEF Init
<1>1. Watch \in Clients /\ Watch \notin Tuis
  BY ExplorerAssumption DEF Clients
<1>2. ASSUME NEW c \in Clients PROVE task[c].lazy = 0
  <2>1. task[c] = IF c \in Tuis \ {leader} THEN StartLoad(c, FALSE) ELSE None
    BY DEF Init
  <2> QED BY <2>1, NewJobs, NoneFields
<1>3. task[Watch] = None
  BY <1>1 DEF Init
<1> QED BY <1>c, <1>2, <1>3 DEF HeadInv

(* The watcher's call does nothing but reload. *)
LEMMA WatchReloads ==
  ASSUME TypeOK, HeadInv, ~disturbed, spent'.faults = 0, spent.faults = 0, CallStep(Watch)
  PROVE  /\ task[Watch].todo = <<"reload">>
         /\ \/ FreshInventory(Watch) /\ task'[Watch].todo = task[Watch].todo /\ task'[Watch].lazy = head
            \/ ToolReload(Watch) /\ task'[Watch] = None
<1>a. Watch \in Clients /\ Watch \notin Tuis /\ task[Watch] \in Jobs
  BY ExplorerAssumption DEF Clients, TypeOK
<1>b. task[Watch].todo # <<>>
  BY <1>a DEF CallStep, FreshInventory, FreshInventoryFails, ToolReload, LazyInventory, ToolRead, ToolDriftRev,
     ToolDriftEval, NeedsEval, At
<1>c. task[Watch].todo = <<"reload">>
  BY <1>b, NoneFields DEF HeadInv
<1>d. Head(task[Watch].todo) = "reload" /\ Tail(task[Watch].todo) = <<>>
  BY <1>c
<1>e. ~FreshInventoryFails(Watch)
  <2>1. spent.faults + 1 # 0
    BY DEF TypeOK
  <2> QED BY <2>1, SpentTypes DEF FreshInventoryFails
<1>1. CASE FreshInventory(Watch)
  <2>1. PICK k \in Jobs : Taken(Watch, k) /\ k.todo = task[Watch].todo /\ k.lazy = head
    BY <1>1, <1>a, FreshJob
  <2>2. task'[Watch] = k
    BY <1>a, <1>b, <2>1, SettledIs DEF Taken
  <2> QED BY <1>1, <1>c, <2>1, <2>2
<1>2. CASE ToolReload(Watch)
  <2>1. PICK k \in Jobs : Taken(Watch, k) /\ k.todo = Tail(task[Watch].todo)
    BY <1>2, <1>a, ReloadJob DEF Pops
  <2>2. task'[Watch] = None
    BY <1>a, <1>d, <2>1 DEF Taken, Settled
  <2> QED BY <1>2, <1>c, <2>2
<1>3. CASE ~FreshInventory(Watch) /\ ~ToolReload(Watch)
  BY <1>3, <1>a, <1>d, <1>e DEF CallStep, LazyInventory, ToolRead, ToolDriftRev, ToolDriftEval, At, Reads
<1> QED BY <1>1, <1>2, <1>3

(* What is served and what is about to be is not newer than HEAD, and the  *)
(* watcher's reload brings what it lacks.                                  *)
LEMMA HeadStep ==
  TypeOK /\ JobInv /\ CalmInv /\ ToldInv /\ HeadInv /\ [Next]_vars => HeadInv'
<1> SUFFICES ASSUME TypeOK, JobInv, CalmInv, ToldInv, HeadInv, [Next]_vars, ~disturbed' PROVE HeadInv'
  BY DEF HeadInv
<1>a. /\ ~disturbed
      /\ \/ MoveHead \/ AgentStep \/ UNCHANGED vars
         \/ \E c \in Clients : CallStep(c)
         \/ \E d \in Tuis : LoopStep(d)
  BY CalmFrame
<1>b. /\ srv.inv <= head /\ seen[Watch] <= head
      /\ \A c \in Clients : task[c].lazy <= head
  BY <1>a DEF HeadInv
<1>c. /\ Watch \in Clients /\ Watch \notin Tuis /\ head \in Nat /\ srv.inv \in Nat /\ seen[Watch] \in Nat
      /\ \A c \in Clients : task[c].lazy \in Nat
  BY ExplorerAssumption DEF Clients, TypeOK, Revs, Jobs
<1>d. spent.faults \in Nat /\ (spent'.faults = 0 => spent.faults = 0)
  <2>1. spent.faults \in Nat
    BY DEF TypeOK
  <2>2. spent' = spent \/ Fault \/ Input
    BY <1>a DEF MoveHead, AgentStep, AgentCalls, LeaderSeesHead, vars, CallStep, FreshInventory, FreshInventoryFails,
       ToolReload, LazyInventory, ToolRead, ToolDriftRev, ToolDriftEval, Aggregate, Inspect, Toplevels, Label,
       LoopStep, Press, SoloSeesHead, LoadFinished, DriftEvalFinished, SurveyDone, Handle
  <2> QED BY <2>1, <2>2, SpentTypes
<1>e. head' \in Nat /\ head <= head'
  <2>1. head' = head \/ head' = head + 1
    BY <1>a DEF MoveHead, AgentStep, AgentCalls, LeaderSeesHead, vars, CallStep, FreshInventory, FreshInventoryFails,
       ToolReload, LazyInventory, ToolRead, ToolDriftRev, ToolDriftEval, Aggregate, Inspect, Toplevels, Label,
       LoopStep, Press, SoloSeesHead, LoadFinished, DriftEvalFinished, SurveyDone, Handle, world
  <2> QED BY <1>c, <2>1
<1>f. srv'.inv <= head' /\ srv.inv <= srv'.inv /\ srv'.inv \in Nat
  <2>1. ASSUME NEW c \in Clients, CallStep(c) PROVE srv'.inv \in {srv.inv, task[c].lazy} /\ srv.inv <= srv'.inv
    BY <1>a, <1>c, <2>1, ServedStep
  <2>2. CASE MoveHead \/ AgentStep \/ UNCHANGED vars \/ \E d \in Tuis : LoopStep(d)
    BY <1>b, <1>c, <1>e, <2>2, ServedElse
  <2> QED BY <1>a, <1>b, <1>c, <1>e, <2>1, <2>2
<1>g. seen'[Watch] = seen[Watch] \/ (LeaderSeesHead /\ seen'[Watch] = head)
  <2>1. CASE MoveHead \/ AgentCalls \/ UNCHANGED vars
    BY <2>1 DEF MoveHead, AgentCalls, vars, world
  <2>2. CASE LeaderSeesHead
    BY <2>2 DEF LeaderSeesHead, TypeOK
  <2>3. ASSUME NEW c \in Clients, CallStep(c) PROVE seen' = seen
    BY <2>3 DEF CallStep, FreshInventory, FreshInventoryFails, ToolReload, LazyInventory, ToolRead,
       ToolDriftRev, ToolDriftEval, Aggregate, Inspect, Toplevels, Label, world
  <2>4. ASSUME NEW d \in Tuis, LoopStep(d) PROVE seen'[Watch] = seen[Watch]
    BY <1>c, <2>4 DEF LoopStep, Press, SoloSeesHead, LoadFinished, DriftEvalFinished, SurveyDone, Handle, world, TypeOK
  <2> QED BY <1>a, <2>1, <2>2, <2>3, <2>4 DEF AgentStep
<1>h. seen'[Watch] <= head' /\ seen'[Watch] \in Nat
  BY <1>b, <1>c, <1>e, <1>g
<1>i. ASSUME NEW d \in Clients PROVE task'[d].lazy <= head'
  <2>a. CASE task'[d].lazy \in {task[d].lazy, head, 0}
    BY <1>b, <1>c, <1>e, <2>a
  <2>1. CASE MoveHead \/ UNCHANGED vars
    BY <2>1, <2>a DEF MoveHead, vars
  <2>2. CASE AgentStep
    <3>1. PICK c \in {Agent, Watch}, k \in Jobs : Taken(c, k) /\ k.lazy = 0
      BY <2>2, AgentJob
    <3>2. c \in Clients
      BY DEF Clients
    <3>3. CASE d = c
      BY <2>a, <3>1, <3>2, <3>3, SettledIs, NoneFields DEF Taken
    <3>4. CASE d # c
      BY <2>a, <3>1, <3>4 DEF Taken
    <3> QED BY <3>3, <3>4
  <2>3. ASSUME NEW c \in Clients, CallStep(c) PROVE task'[d].lazy <= head'
    <3>1. CASE d = c
      BY <2>3, <2>a, <3>1, CallLazy
    <3>2. CASE d # c
      BY <2>3, <2>a, <3>2, CallAdvances DEF Advances, Taken
    <3> QED BY <3>1, <3>2
  <2>4. ASSUME NEW t \in Tuis, LoopStep(t) PROVE task'[d].lazy <= head'
    <3>1. CASE Applied(t)
      <4>1. CASE d = t
        BY <2>a, <3>1, <4>1 DEF Applied
      <4>2. CASE d # t
        BY <2>a, <3>1, <4>2 DEF Applied
      <4> QED BY <4>1, <4>2
    <3>2. CASE Repainted(t) \/ UNCHANGED <<ui, task>>
      BY <2>a, <3>2 DEF Repainted
    <3> QED BY <2>4, <3>1, <3>2, LoopApplies
  <2> QED BY <1>a, <2>1, <2>2, <2>3, <2>4
<1> DEFINE Follows == \/ task'[Watch] = None /\ seen'[Watch] <= srv'.inv
                      \/ /\ task'[Watch].todo = <<"reload">>
                         /\ task'[Watch].lazy = 0 \/ seen'[Watch] <= task'[Watch].lazy
<1>j. ASSUME spent'.faults = 0 PROVE Follows
  <2>0. /\ spent.faults = 0
        /\ \/ task[Watch] = None /\ seen[Watch] <= srv.inv
           \/ /\ task[Watch].todo = <<"reload">>
              /\ task[Watch].lazy = 0 \/ seen[Watch] <= task[Watch].lazy
    BY <1>a, <1>d, <1>j DEF HeadInv
  <2>a. CASE task'[Watch] = task[Watch] /\ seen'[Watch] = seen[Watch]
    BY <1>c, <1>f, <2>0, <2>a
  <2>1. CASE MoveHead \/ UNCHANGED vars
    BY <2>1, <2>a DEF MoveHead, vars
  <2>2. CASE LeaderSeesHead
    <3>1. AgentStep /\ Watch # Agent /\ ~AgentCalls
      BY <2>2, ExplorerAssumption, <1>c DEF AgentStep, LeaderSeesHead, AgentCalls, world, TypeOK
    <3>2. PICK k \in Jobs : k.lazy = 0 /\ k.todo = <<"reload">> /\ task'[Watch] = k
      BY <3>1, AgentJob
    <3> QED BY <3>2
  <2>3. CASE AgentCalls
    <3>1. seen' = seen
      BY <2>3 DEF AgentCalls, world
    <3>2. task'[Watch] = task[Watch]
      BY <1>c, <2>3, ExplorerAssumption DEF AgentCalls, Becomes, TypeOK
    <3> QED BY <2>a, <3>1, <3>2
  <2>4. ASSUME NEW c \in Clients, CallStep(c) PROVE Follows
    <3>1. seen' = seen
      BY <2>4 DEF CallStep, FreshInventory, FreshInventoryFails, ToolReload, LazyInventory, ToolRead,
         ToolDriftRev, ToolDriftEval, Aggregate, Inspect, Toplevels, Label, world
    <3>2. CASE c # Watch
      BY <1>c, <2>4, <2>a, <3>1, <3>2, CallAdvances DEF Advances, Taken
    <3>3. CASE c = Watch
      <4>1. /\ task[Watch].todo = <<"reload">>
            /\ \/ task'[Watch].todo = task[Watch].todo /\ task'[Watch].lazy = head
               \/ ToolReload(Watch) /\ task'[Watch] = None
        BY <1>a, <1>j, <2>0, <2>4, <3>3, WatchReloads
      <4>2. CASE task'[Watch].todo = task[Watch].todo /\ task'[Watch].lazy = head
        BY <1>b, <3>1, <4>1, <4>2
      <4>3. CASE ToolReload(Watch) /\ task'[Watch] = None
        <5>1. srv'.inv = task[Watch].lazy /\ task[Watch].lazy # 0
          BY <1>a, <1>c, <2>4, <3>3, <4>3, ServedStep
        <5>0. <<"reload">> # <<>>
          OBVIOUS
        <5>2. task[Watch] # None
          BY <4>1, <5>0, NoneFields
        <5> QED BY <2>0, <3>1, <4>3, <5>1, <5>2
      <4> QED BY <4>1, <4>2, <4>3
    <3> QED BY <3>2, <3>3
  <2>5. ASSUME NEW d \in Tuis, LoopStep(d) PROVE Follows
    <3>1. task'[Watch] = task[Watch]
      BY <1>c, <2>5, LoopApplies DEF Applied, Repainted
    <3>2. seen'[Watch] = seen[Watch]
      BY <1>c, <2>5 DEF LoopStep, Press, SoloSeesHead, LoadFinished, DriftEvalFinished, SurveyDone, Handle, world, TypeOK
    <3> QED BY <2>a, <3>1, <3>2
  <2> QED BY <1>a, <2>1, <2>2, <2>3, <2>4, <2>5 DEF AgentStep
<1> QED BY <1>f, <1>h, <1>i, <1>j DEF HeadInv

-----------------------------------------------------------------------------
(* The theorems. *)

(* The invariant is inductive: types, jobs against flags, labels, and what *)
(* holds while nothing is disturbed.                                       *)
THEOREM ExplorerInvariance == Spec => []XInv
<1>1. Init => XInv
  BY InitType, InitJobs, InitLabels, InitCalm, InitTold, InitView, InitHead DEF XInv
<1>2. XInv /\ [Next]_vars => XInv'
  BY TypeStep, JobStep, LabelStep, CalmStep, ToldStep, ViewStep, HeadStep DEF XInv
<1> QED BY <1>1, <1>2, PTL DEF Spec

(* A busy flag is one job and an explorer at rest owes nothing, whatever   *)
(* was queued behind which job, and whichever of them failed.              *)
THEOREM NothingIsForgotten == Spec => []NothingForgotten
<1>1. XInv => NothingForgotten
  <2> SUFFICES ASSUME XInv, NEW t \in Tuis
               PROVE  /\ ui[t].busy <=> task[t].kind # "none"
                      /\ ui[t].evalRunning <=> task[t].kind = "eval"
                      /\ ~ui[t].busy => ~(ui[t].reloadPending \/ ui[t].evalPending \/ ui[t].freshWanted)
    BY DEF NothingForgotten
  <2>1. Owes(ui[t], task[t])
    BY DEF XInv, JobInv
  <2> QED BY <2>1 DEF Owes
<1> QED BY <1>1, ExplorerInvariance, PTL

(* An expected set shown as current is that of its commit, unless an       *)
(* evaluation was filed under a rev it did not run at.                     *)
THEOREM CurrentExpectedTrue == Spec => []CurrentExpectedUnlessMislabelled
<1>1. XInv => CurrentExpectedUnlessMislabelled
  BY DEF XInv, LabelInv, HonestUI, CurrentExpectedUnlessMislabelled
<1> QED BY <1>1, ExplorerInvariance, PTL

(* No explorer shows a contract older than one it was told of, and at rest *)
(* all show the served one, that of HEAD when nothing failed.              *)
THEOREM ShownIsServed == Spec => []ViewsAgree
<1>1. XInv => ViewsAgree
  <2> SUFFICES ASSUME XInv, ~disturbed, NEW t \in Tuis, ui[t].inv # <<>>
               PROVE  /\ \A i \in 1..3 : ui[t].inv[i] >= landed[t]
                      /\ Quiet /\ Joined(t) => ui[t].inv = All(srv.inv)
                      /\ Quiet /\ spent.faults = 0 => ui[t].inv = All(head)
    BY DEF ViewsAgree
  <2>a. TypeOK
    BY DEF XInv
  <2>b. ui[t].inv \in Seq(Revs)
    BY <2>a DEF TypeOK, UIs
  <2>c. landed[t] \in Nat /\ head \in Nat /\ srv.inv \in Nat /\ seen[Watch] \in Nat
    BY <2>a DEF TypeOK, Revs
  <2>d. head \in Revs /\ srv.inv \in Revs
    BY <2>a DEF TypeOK
  <2>1. /\ ui[t].inv \in Seq(Revs) /\ landed[t] \in Nat /\ head \in Nat /\ srv.inv \in Nat
        /\ head \in Revs /\ srv.inv \in Revs /\ seen[Watch] \in Nat
    BY <2>b, <2>c, <2>d
  <2>0. ViewOf(t, ui[t], task[t])
    BY DEF XInv, ViewInv
  <2>2. Len(ui[t].inv) = 3 /\ \A i \in 1..3 : Good(t, ui[t].inv[i])
    BY <2>0 DEF ViewOf
  <2>3. \A i \in 1..3 : ui[t].inv[i] \in Revs /\ ui[t].inv[i] \in Nat
    <3>1. \A i \in 1..3 : ui[t].inv[i] \in Revs
      BY <2>1, <2>2
    <3>2. Revs \subseteq Nat
      BY DEF Revs
    <3> QED BY <3>1, <3>2
  <2>4. ASSUME NEW r \in Revs, \A i \in 1..3 : ui[t].inv[i] = r PROVE ui[t].inv = All(r)
    <3>1. All(r) \in Seq(Revs) /\ Len(All(r)) = 3 /\ \A i \in 1..3 : All(r)[i] = r
      BY DEF All
    <3> QED BY <2>1, <2>2, <2>4, <3>1, SeqEqual
  <2>5. \A i \in 1..3 : ui[t].inv[i] >= landed[t]
    BY <2>1, <2>2, <2>3 DEF Good
  <2>6. ASSUME Quiet PROVE inbox[t] = <<>> /\ ~Pending(t)
    <3>1. inbox[t] = <<>>
      BY <2>6 DEF Quiet
    <3>2. Len(inbox[t]) = 0
      BY <3>1
    <3> QED BY <3>1, <3>2 DEF Pending
  <2>7. ASSUME Quiet, role[t] # "none" PROVE \A i \in 1..3 : ui[t].inv[i] = srv.inv
    BY <2>2, <2>6, <2>7 DEF Good
  <2>8. ASSUME Quiet, Joined(t) PROVE ui[t].inv = All(srv.inv)
    BY <2>1, <2>4, <2>7, <2>8 DEF Joined
  <2>9. ASSUME Quiet, spent.faults = 0 PROVE ui[t].inv = All(head)
    <3>1. alive[t]
      BY DEF XInv, CalmInv, Clients
    <3>2. CASE role[t] = "none"
      <4>1. seen[t] = head
        BY <2>9, <3>1, <3>2 DEF Quiet, Joined
      <4>2. \A i \in 1..3 : ui[t].inv[i] = head
        BY <2>1, <2>2, <2>3, <3>2, <4>1 DEF Good
      <4> QED BY <2>1, <2>4, <4>2
    <3>3. CASE role[t] # "none"
      <4>1. task[Watch] = None /\ seen[Watch] = head
        BY <2>9 DEF Quiet, Clients
      <4>2. <<"reload">> # <<>>
        OBVIOUS
      <4>3. srv.inv <= head /\ seen[Watch] <= srv.inv
        BY <2>9, <4>1, <4>2, NoneFields DEF XInv, HeadInv
      <4>4. srv.inv = head
        BY <2>1, <4>1, <4>3
      <4> QED BY <2>1, <2>4, <2>7, <2>9, <3>3, <4>4
    <3> QED BY <3>2, <3>3
  <2> QED BY <2>5, <2>8, <2>9
<1> QED BY <1>1, ExplorerInvariance, PTL

=============================================================================
