------------------------ MODULE DeployEngine_proofs ------------------------
(***************************************************************************)
(* Proofs about DeployEngine for any hosts, plans, volumes of output and    *)
(* number of I/O errors: the records of a host's stream make the result its *)
(* task returns, a settled run that has been read is judged by its results, *)
(* and the exit of the build is written whatever nix has said.              *)
(***************************************************************************)
EXTENDS DeployEngine, WellFoundedInduction, TLAPS

----------------------------------------------------------------------------
(* Folds.  Induction over the natural numbers is taken from their being well
   founded, in the form of a least element. *)

(* Every non-empty set of numbers has a least one. *)
LEMMA LeastNatural ==
  ASSUME NEW T \in SUBSET Nat, T # {}
  PROVE  \E x \in T : \A y \in T : x <= y
<1>1. IsWellFoundedOn(OpToRel(<, Nat), Nat)
  BY NatLessThanWellFounded
<1>2. PICK x \in T : \A y \in T : ~ (<<y, x>> \in OpToRel(<, Nat))
  BY <1>1, WFMin
<1>3. \A y \in T : ~ (y < x)
  BY <1>2 DEF OpToRel
<1> QED BY <1>3

(* A set that holds 0 and with every number up to n the next one holds them all. *)
LEMMA UpTo ==
  ASSUME NEW n \in Nat, NEW T, 0 \in T, \A k \in 0..(n - 1) : k \in T => k + 1 \in T
  PROVE  \A k \in 0..n : k \in T
<1> SUFFICES ASSUME {k \in 0..n : k \notin T} # {}
             PROVE  FALSE
  OBVIOUS
<1>1. {k \in 0..n : k \notin T} \in SUBSET Nat
  OBVIOUS
<1>2. PICK x \in {k \in 0..n : k \notin T} : \A y \in {k \in 0..n : k \notin T} : x <= y
  BY <1>1, LeastNatural
<1>3. x # 0 /\ x - 1 \in 0..(n - 1) /\ x - 1 \in T
  BY <1>2
<1> QED BY <1>2, <1>3

(* A bounded set of numbers has its maximum. *)
LEMMA MaxIn ==
  ASSUME NEW n \in Nat, NEW u \in SUBSET (1..n), u # {}
  PROVE  Max(u) \in u /\ \A y \in u : Max(u) >= y
<1> DEFINE T == {k \in Nat : \A y \in u : y <= k}
<1>1. T \in SUBSET Nat /\ n \in T
  OBVIOUS
<1>2. PICK x \in T : \A y \in T : x <= y
  BY <1>1, LeastNatural
<1>3. x \in u
  <2> SUFFICES ASSUME x \notin u PROVE FALSE
    OBVIOUS
  <2>1. \A y \in u : y <= x /\ y # x /\ y \in 1..n
    BY <1>2
  <2>2. x # 0
    <3>1. PICK y : y \in u
      OBVIOUS
    <3> QED BY <2>1, <3>1
  <2>3. x - 1 \in T
    BY <1>2, <2>1, <2>2
  <2> QED BY <1>2, <2>3
<1>4. \E k \in u : \A y \in u : k >= y
  BY <1>2, <1>3
<1> QED BY <1>4 DEF Max

(* it is the fold of s over the sets of its indices. *)
Solves(it, F, b, n, s) ==
  it = [u \in SUBSET (1..n) |-> IF u = {} THEN b ELSE F[it[u \ {Max(u)}]][s[Max(u)]]]

(* The recursion by which the folds of the library are defined has a solution,
   whatever is folded. *)
LEMMA Solvable ==
  ASSUME NEW T, NEW E, NEW F \in [T -> [E -> T]], NEW b \in T,
         NEW n \in Nat, NEW s, \A i \in 1..n : s[i] \in E
  PROVE  \E it \in [SUBSET (1..n) -> T] : Solves(it, F, b, n, s)
<1> DEFINE G == {k \in 0..n : \E it \in [SUBSET (1..k) -> T] : Solves(it, F, b, k, s)}
<1>1. 0 \in G
  <2> DEFINE it == [u \in SUBSET (1..0) |-> b]
  <2>1. \A u \in SUBSET (1..0) : u = {}
    OBVIOUS
  <2>2. Solves(it, F, b, 0, s)
    BY <2>1 DEF Solves
  <2>3. it \in [SUBSET (1..0) -> T]
    OBVIOUS
  <2>4. \E x \in [SUBSET (1..0) -> T] : Solves(x, F, b, 0, s)
    BY <2>2, <2>3
  <2>5. 0 \in 0..n
    OBVIOUS
  <2> QED BY <2>4, <2>5
<1>2. \A k \in 0..(n - 1) : k \in G => k + 1 \in G
  <2> SUFFICES ASSUME NEW k \in 0..(n - 1), k \in G
               PROVE  k + 1 \in G
    OBVIOUS
  <2>1. PICK it \in [SUBSET (1..k) -> T] : Solves(it, F, b, k, s)
    OBVIOUS
  <2> DEFINE next == [u \in SUBSET (1..(k + 1)) |->
                        IF k + 1 \in u THEN F[it[u \ {k + 1}]][s[k + 1]] ELSE it[u]]
  <2>2. \A u \in SUBSET (1..(k + 1)) : u \ {k + 1} \in SUBSET (1..k)
    OBVIOUS
  <2>3. \A u \in SUBSET (1..(k + 1)) : k + 1 \notin u => u \in SUBSET (1..k)
    <3> SUFFICES ASSUME NEW u \in SUBSET (1..(k + 1)), k + 1 \notin u, NEW y \in u
                 PROVE  y \in 1..k
      OBVIOUS
    <3>1. y \in 1..(k + 1) /\ y # k + 1
      OBVIOUS
    <3> QED BY <3>1
  <2>n. k \in Nat /\ k + 1 \in Nat
    OBVIOUS
  <2>4. s[k + 1] \in E
    OBVIOUS
  <2>5. next \in [SUBSET (1..(k + 1)) -> T]
    BY <2>2, <2>3, <2>4
  <2>6. ASSUME NEW u \in SUBSET (1..(k + 1))
        PROVE  next[u] = IF u = {} THEN b ELSE F[next[u \ {Max(u)}]][s[Max(u)]]
    <3>1. CASE k + 1 \in u
      <4>0. u # {}
        BY <3>1
      <4>1. Max(u) \in u /\ Max(u) >= k + 1
        BY <2>n, <3>1, <4>0, MaxIn
      <4>2. Max(u) \in 1..(k + 1)
        BY <4>1
      <4>6. \A m \in 1..(k + 1) : m >= k + 1 => m = k + 1
        BY <2>n
      <4>5. Max(u) = k + 1
        BY <4>1, <4>2, <4>6
      <4>3. u \ {k + 1} \in SUBSET (1..(k + 1)) /\ k + 1 \notin u \ {k + 1}
        OBVIOUS
      <4>4. next[u \ {k + 1}] = it[u \ {k + 1}]
        BY <4>3
      <4> QED BY <3>1, <4>5, <4>4
    <3>2. CASE k + 1 \notin u /\ u # {}
      <4>1. u \in SUBSET (1..k) /\ Max(u) \in u
        BY <2>3, <2>n, <3>2, MaxIn
      <4>2. next[u] = it[u]
        BY <3>2
      <4>3. next[u \ {Max(u)}] = it[u \ {Max(u)}]
        BY <3>2
      <4>4. it[u] = F[it[u \ {Max(u)}]][s[Max(u)]]
        BY <2>1, <3>2, <4>1 DEF Solves
      <4> QED BY <3>2, <4>2, <4>3, <4>4
    <3>3. CASE u = {}
      <4>1. u \in SUBSET (1..k) /\ it[u] = b
        BY <2>1, <3>3 DEF Solves
      <4> QED BY <3>3, <4>1
    <3> QED BY <3>1, <3>2, <3>3
  <2> HIDE DEF next
  <2>7. Solves(next, F, b, k + 1, s)
    BY <2>5, <2>6 DEF Solves
  <2> QED BY <2>5, <2>7
<1>3. n \in G
  <2> HIDE DEF G
  <2>1. \A k \in 0..n : k \in G
    BY <1>1, <1>2, UpTo
  <2> QED BY <2>1
<1> QED BY <1>3

(* The records of a host's stream. *)
HostEvents == {"start", "copy", "activate", "wait", "confirm", "reboot", "rollback", "done0",
               "done1"}

(* A record of a host takes one state of its HostRun to another. *)
LEMMA FeedType ==
  ASSUME NEW x \in HostStates, NEW e \in HostEvents
  PROVE  Feed(x, e) \in HostStates
BY DEF Feed, HostStates, HostEvents, MilestoneState, Terminal

(* What a fold of Feed is: the end of the run that feeds the records one after
   the other. *)
LEMMA FeedRun ==
  ASSUME NEW s \in Seq(HostEvents), NEW b \in HostStates, NEW g, g[0] = b,
         \A k \in 0..(Len(s) - 1) : g[k + 1] = Feed(g[k], s[k + 1])
  PROVE  FoldLeft(Feed, b, s) = g[Len(s)]
<1>n. PICK n \in Nat : n = Len(s) /\ DOMAIN s = 1..n /\ \A i \in 1..n : s[i] \in HostEvents
  OBVIOUS
<1> DEFINE Folds(it) == it = [u \in SUBSET (DOMAIN s) |->
                                IF u = {} THEN b ELSE Feed(it[u \ {Max(u)}], s[Max(u)])]
           F == [x \in HostStates |-> [e \in HostEvents |-> Feed(x, e)]]
<1>1. \E it : Folds(it)
  <2>1. F \in [HostStates -> [HostEvents -> HostStates]]
    BY FeedType
  <2>2. PICK it \in [SUBSET (1..n) -> HostStates] : Solves(it, F, b, n, s)
    <3> HIDE DEF F
    <3> QED BY <1>n, <2>1, Solvable
  <2>3. ASSUME NEW u \in SUBSET (1..n), u # {}
        PROVE  F[it[u \ {Max(u)}]][s[Max(u)]] = Feed(it[u \ {Max(u)}], s[Max(u)])
    <3>1. Max(u) \in 1..n
      BY <1>n, <2>3, MaxIn
    <3>2. it[u \ {Max(u)}] \in HostStates /\ s[Max(u)] \in HostEvents
      BY <1>n, <3>1
    <3> QED BY <3>2
  <2>4. Folds(it)
    BY <1>n, <2>2, <2>3 DEF Solves
  <2> QED BY <2>4
<1>2. FoldLeft(Feed, b, s) = (CHOOSE it : Folds(it))[DOMAIN s]
  BY DEF FoldLeft, MapThenFoldSet
<1>3. PICK it : Folds(it) /\ FoldLeft(Feed, b, s) = it[DOMAIN s]
  BY <1>1, <1>2
<1> DEFINE G == {k \in 0..n : it[1..k] = g[k]}
<1>4. 0 \in G
  BY <1>n, <1>3
<1>5. \A k \in 0..(n - 1) : k \in G => k + 1 \in G
  <2> SUFFICES ASSUME NEW k \in 0..(n - 1), k \in G
               PROVE  it[1..(k + 1)] = g[k + 1]
    BY <1>n
  <2>1. k \in Nat /\ k + 1 \in 1..(k + 1) /\ \A i \in 1..(k + 1) : i \in 1..n
    BY <1>n
  <2>2. Max(1..(k + 1)) \in 1..(k + 1) /\ Max(1..(k + 1)) >= k + 1
    BY <2>1, MaxIn
  <2>3. \A m \in 1..(k + 1) : m >= k + 1 => m = k + 1
    BY <1>n
  <2>4. Max(1..(k + 1)) = k + 1
    BY <2>2, <2>3
  <2>5. (1..(k + 1)) \ {k + 1} = 1..k
    BY <1>n
  <2>6. it[1..(k + 1)] = Feed(it[1..k], s[k + 1])
    BY <1>n, <1>3, <2>1, <2>4, <2>5, ZenonT(40)
  <2> QED BY <1>n, <2>6
<1>6. \A k \in 0..n : k \in G
  <2> HIDE DEF G
  <2> QED BY <1>n, <1>4, <1>5, UpTo
<1>7. it[1..n] = g[n]
  BY <1>6
<1> QED BY <1>n, <1>3, <1>7

(* Every sequence has its run. *)
LEMMA FeedRuns ==
  ASSUME NEW s \in Seq(HostEvents), NEW b \in HostStates
  PROVE  \E g \in [0..Len(s) -> HostStates] :
           /\ g[0] = b
           /\ \A k \in 0..(Len(s) - 1) : g[k + 1] = Feed(g[k], s[k + 1])
<1> DEFINE Run(g, k) == g[0] = b /\ \A i \in 0..(k - 1) : g[i + 1] = Feed(g[i], s[i + 1])
           G == {k \in 0..Len(s) : \E g \in [0..k -> HostStates] : Run(g, k)}
<1>1. 0 \in G
  <2> DEFINE g == [i \in 0..0 |-> b]
  <2>1. g \in [0..0 -> HostStates] /\ Run(g, 0)
    OBVIOUS
  <2> HIDE DEF g
  <2> QED BY <2>1
<1>2. \A k \in 0..(Len(s) - 1) : k \in G => k + 1 \in G
  <2> SUFFICES ASSUME NEW k \in 0..(Len(s) - 1), k \in G
               PROVE  k + 1 \in G
    OBVIOUS
  <2>1. PICK g \in [0..k -> HostStates] : Run(g, k)
    OBVIOUS
  <2> DEFINE h == [i \in 0..(k + 1) |-> IF i = k + 1 THEN Feed(g[k], s[k + 1]) ELSE g[i]]
  <2>2. h \in [0..(k + 1) -> HostStates]
    <3>1. Feed(g[k], s[k + 1]) \in HostStates
      BY FeedType
    <3> QED BY <3>1
  <2>3. Run(h, k + 1)
    BY <2>1
  <2> HIDE DEF h
  <2> QED BY <2>2, <2>3
<1>3. Len(s) \in G
  <2> HIDE DEF G
  <2>1. \A k \in 0..Len(s) : k \in G
    BY <1>1, <1>2, UpTo
  <2> QED BY <2>1
<1> QED BY <1>3

(* The state a HostRun has after a stream. *)
Replay(s) == FoldLeft(Feed, "pending", s)

(* A host without a record is pending. *)
LEMMA ReplayNil == Replay(<<>>) = "pending"
<1> DEFINE g == [k \in 0..0 |-> "pending"]
<1>1. /\ <<>> \in Seq(HostEvents) /\ Len(<<>>) = 0 /\ "pending" \in HostStates
      /\ g[0] = "pending" /\ \A k \in 0..(Len(<<>>) - 1) : g[k + 1] = Feed(g[k], <<>>[k + 1])
  BY DEF HostStates, Terminal
<1> HIDE DEF g
<1> QED BY <1>1, FeedRun DEF Replay

(* A stream of host records leaves a host in one of its states. *)
LEMMA ReplayType ==
  ASSUME NEW s \in Seq(HostEvents)
  PROVE  Replay(s) \in HostStates
<1>1. "pending" \in HostStates
  BY DEF HostStates, Terminal
<1>2. PICK g \in [0..Len(s) -> HostStates] :
           /\ g[0] = "pending"
           /\ \A k \in 0..(Len(s) - 1) : g[k + 1] = Feed(g[k], s[k + 1])
  BY <1>1, FeedRuns
<1> QED BY <1>1, <1>2, FeedRun DEF Replay

(* A record appended to a stream is fed to what the stream has shown so far. *)
LEMMA ReplayAppend ==
  ASSUME NEW s \in Seq(HostEvents), NEW e \in HostEvents
  PROVE  Replay(Append(s, e)) = Feed(Replay(s), e)
<1>1. "pending" \in HostStates
  BY DEF HostStates, Terminal
<1>2. PICK g \in [0..Len(s) -> HostStates] :
           /\ g[0] = "pending"
           /\ \A k \in 0..(Len(s) - 1) : g[k + 1] = Feed(g[k], s[k + 1])
  BY <1>1, FeedRuns
<1>3. Replay(s) = g[Len(s)]
  BY <1>1, <1>2, FeedRun DEF Replay
<1>4. PICK n \in Nat : n = Len(s)
  OBVIOUS
<1>5. PICK t \in Seq(HostEvents) : /\ t = Append(s, e) /\ Len(t) = n + 1 /\ t[n + 1] = e
                                   /\ \A k \in 1..n : t[k] = s[k]
  BY <1>4
<1> DEFINE h == [k \in 0..(n + 1) |-> IF k = n + 1 THEN Feed(g[n], e) ELSE g[k]]
<1>6. h[0] = "pending" /\ h[n + 1] = Feed(g[n], e)
  BY <1>2
<1>7. \A k \in 0..(Len(t) - 1) : h[k + 1] = Feed(h[k], t[k + 1])
  <2>0. Len(t) - 1 = n
    BY <1>5
  <2> SUFFICES ASSUME NEW k \in 0..n PROVE h[k + 1] = Feed(h[k], t[k + 1])
    <3> HIDE DEF h
    <3> QED BY <2>0
  <2>1. CASE k = n
    BY <1>5, <2>1
  <2>2. CASE k \in 0..(n - 1)
    <3>1. k + 1 \in 1..n /\ h[k] = g[k] /\ h[k + 1] = g[k + 1]
      BY <2>2
    <3>2. g[k + 1] = Feed(g[k], s[k + 1])
      BY <1>2, <1>4, <2>2
    <3> QED BY <1>5, <3>1, <3>2
  <2> QED BY <2>1, <2>2
<1> HIDE DEF h
<1>8. FoldLeft(Feed, "pending", t) = h[Len(t)]
  BY <1>1, <1>6, <1>7, FeedRun
<1> QED BY <1>3, <1>4, <1>5, <1>6, <1>8 DEF Replay

(* Feeding a stream piece by piece is feeding it at once. *)
LEMMA ReplayOn ==
  ASSUME NEW s \in Seq(HostEvents), NEW i \in 0..Len(s), NEW j \in i..Len(s)
  PROVE  FoldLeft(Feed, Replay(SubSeq(s, 1, i)), SubSeq(s, i + 1, j)) = Replay(SubSeq(s, 1, j))
<1>0. PICK n \in Nat : n = Len(s) /\ i \in 0..n /\ j \in 0..n /\ i <= j
  OBVIOUS
<1>1. "pending" \in HostStates
  BY DEF HostStates, Terminal
<1>2. PICK g \in [0..n -> HostStates] :
           g[0] = "pending" /\ \A k \in 0..(n - 1) : g[k + 1] = Feed(g[k], s[k + 1])
  BY <1>0, <1>1, FeedRuns
<1>3. ASSUME NEW m \in 0..n PROVE Replay(SubSeq(s, 1, m)) = g[m]
  <2>1. PICK t \in Seq(HostEvents) : /\ t = SubSeq(s, 1, m) /\ Len(t) = m
                                     /\ \A k \in 1..m : t[k] = s[k]
    BY <1>0
  <2>2. \A k \in 0..(Len(t) - 1) : g[k + 1] = Feed(g[k], t[k + 1])
    <3> SUFFICES ASSUME NEW k \in 0..(m - 1) PROVE g[k + 1] = Feed(g[k], t[k + 1])
      BY <2>1
    <3>1. k \in 0..(n - 1) /\ k + 1 \in 1..m
      OBVIOUS
    <3> QED BY <1>2, <2>1, <3>1
  <2>3. FoldLeft(Feed, "pending", t) = g[Len(t)]
    BY <1>1, <1>2, <2>2, FeedRun
  <2> QED BY <2>1, <2>3 DEF Replay
<1>4. PICK t \in Seq(HostEvents) : /\ t = SubSeq(s, i + 1, j) /\ Len(t) = j - i
                                   /\ \A k \in 1..(j - i) : t[k] = s[i + k]
  <2>1. \A k \in (i + 1)..j : s[k] \in HostEvents
    BY <1>0
  <2>2. i + 1 \in Int /\ j \in Int
    BY <1>0
  <2>3. /\ SubSeq(s, i + 1, j) \in Seq(HostEvents)
        /\ Len(SubSeq(s, i + 1, j)) = IF i + 1 <= j THEN j - (i + 1) + 1 ELSE 0
        /\ \A k \in 1..(j - (i + 1) + 1) : SubSeq(s, i + 1, j)[k] = s[i + 1 + k - 1]
    BY <1>0, <2>1, <2>2
  <2>4. Len(SubSeq(s, i + 1, j)) = j - i
    BY <1>0, <2>3
  <2>5. \A k \in 1..(j - i) : i + 1 + k - 1 = i + k /\ k \in 1..(j - (i + 1) + 1)
    BY <1>0
  <2>6. \A k \in 1..(j - i) : SubSeq(s, i + 1, j)[k] = s[i + k]
    BY <2>3, <2>5
  <2> QED BY <2>3, <2>4, <2>6
<1> DEFINE h == [k \in 0..(j - i) |-> g[i + k]]
<1>5. \A k \in 0..(Len(t) - 1) : h[k + 1] = Feed(h[k], t[k + 1])
  <2> SUFFICES ASSUME NEW k \in 0..(j - i - 1) PROVE h[k + 1] = Feed(h[k], t[k + 1])
    BY <1>0, <1>4
  <2>1. /\ i + k \in 0..(n - 1) /\ k + 1 \in 1..(j - i) /\ i + (k + 1) = i + k + 1
        /\ k \in 0..(j - i) /\ k + 1 \in 0..(j - i)
    BY <1>0
  <2>2. g[i + k + 1] = Feed(g[i + k], s[i + k + 1])
    BY <1>2, <2>1
  <2>3. t[k + 1] = s[i + k + 1]
    BY <1>4, <2>1
  <2>4. h[k] = g[i + k] /\ h[k + 1] = g[i + k + 1]
    BY <2>1
  <2> QED BY <2>2, <2>3, <2>4
<1>6. h[0] = g[i] /\ h[j - i] = g[j] /\ g[i] \in HostStates
  BY <1>0
<1> HIDE DEF h
<1>7. FoldLeft(Feed, g[i], t) = h[Len(t)]
  BY <1>5, <1>6, FeedRun
<1> QED BY <1>0, <1>3, <1>4, <1>6, <1>7

----------------------------------------------------------------------------
(* The inductive invariant. *)
Stages == {"none", "queued", "start", "copy", "push", "resolve", "reboot", "activate", "wait",
           "deploy", "milestone", "done0", "rolled", "done1", "panicked", "abnormal", "abnormalDone",
           "joined"}
BuildPhases == {"resolve", "open", "start", "spawn", "building"}
EndPhases == {"outcome", "final", "done", "report", "record", "fanout"}
BuildEvents == {<<"start">>, <<"line">>, <<"progress">>, <<"notice">>}
                 \cup {<<"done", rc>> : rc \in {0, 1, 127, 130}}
Rcs == {0, 1, 127, 130}

(* Types, by the part of the engine. *)
RunType ==
  /\ plan \in Plans
  /\ pc \in BuildPhases \cup EndPhases \cup {"exited", "killed"}
  /\ buildRc \in {None, 0, 1, 130} /\ event_error \in BOOLEAN /\ lines \in 0..MaxLines
  /\ realised \subseteq Hosts /\ paths \subseteq Hosts /\ failures \subseteq Hosts
  /\ io \in 0..MaxIo
MetaType ==
  meta \in [build_rc : Rcs \cup {None}, rc : Rcs \cup {None},
            summary : [Hosts -> HostStates \cup {None}] \cup {None}]
WriterType ==
  /\ log = [s \in Streams |-> log[s]] /\ log["build"] \in Seq(BuildEvents)
  /\ \A h \in Hosts : log[h] \in Seq(HostEvents)
  /\ partial \in Streams \cup {None}
  /\ bytes \in Nat /\ truncated \in BOOLEAN
TaskType ==
  /\ task \in [Hosts -> Stages]
  /\ outcome \in [Hosts -> {None, "staged", "preview", "switch", "rolled-back"}]
  /\ result \in [Hosts -> HostStates \cup {None}]
TailerType == seen \in [Streams -> Nat] /\ view \in [Hosts -> HostStates \cup {None}]

TypeOK == RunType /\ MetaType /\ WriterType /\ TaskType /\ TailerType

(* What the stream of a host shows, complete or not, follows its task: no verdict
   before the last milestone, then the milestone's, and a joined task returned
   either what its stream shows or a failure. *)
Undecided == Stages \ {"done0", "rolled", "joined"}
StageOK(h) ==
  /\ task[h] \in {"none", "queued", "start"} => log[h] = <<>>
  /\ task[h] \in Undecided => Replay(log[h]) \notin Terminal
  /\ task[h] = "reboot" => outcome[h] = "staged"
  /\ task[h] = "done0" =>
       log[h] # <<>> /\ Replay(log[h]) = IF outcome[h] = "staged" THEN "reboot-pending" ELSE "confirmed"
  /\ task[h] = "rolled" => log[h] # <<>> /\ Replay(log[h]) = "rolled-back"
  /\ task[h] # "joined" => result[h] = None
  /\ task[h] = "joined" => result[h] = "failed" \/
       (log[h] # <<>> /\ result[h] = Replay(log[h]) /\ result[h] \in Terminal)

(* A tailer has what the complete records before its offset make. *)
ReadOK ==
  /\ partial # None => log[partial] # <<>>
  /\ \A s \in Streams : seen[s] <= Len(Complete(s))
  /\ \A h \in Hosts : view[h] = IF seen[h] = 0 THEN None ELSE Replay(SubSeq(log[h], 1, seen[h]))

(* meta.json has the summary of a run whose tasks have all been joined, and the
   rc that follows from it. *)
MetaOK ==
  /\ pc \in BuildPhases => buildRc = None
  /\ pc \in EndPhases => buildRc # None
  /\ pc \in BuildPhases \cup EndPhases => meta.rc = None /\ meta.summary = None
  /\ pc \in (BuildPhases \cup EndPhases) \ {"fanout"} => \A h \in Hosts : task[h] = "none"
  /\ pc = "fanout" => meta.build_rc = buildRc /\ \A h \in Hosts : task[h] # "none"
  /\ meta.summary # None =>
       /\ pc = "exited" /\ partial = None
       /\ \A h \in Hosts : task[h] = "joined"
       /\ meta.build_rc = buildRc /\ meta.rc = SettledRc

(* build.jsonl keeps its reserve until the terminal records. *)
Detail == LogMax - Reserve - Notice
BudgetOK ==
  /\ pc \in BuildPhases \cup {"outcome", "final"} =>
       bytes <= Detail + 1 /\ (~truncated => bytes <= Detail)
  /\ pc = "done" => bytes <= Detail + 2
  /\ pc \in {"report", "record", "fanout"} => \E i \in DOMAIN log["build"] : log["build"][i][1] = "done"
  /\ ExitIsDurable

IInv == TypeOK /\ (\A h \in Hosts : StageOK(h)) /\ ReadOK /\ MetaOK /\ BudgetOK

----------------------------------------------------------------------------
(* Types. *)

(* A record appended to a host's stream. *)
LEMMA EmitType ==
  ASSUME TypeOK, NEW h \in Hosts, NEW e \in HostEvents, Emit(h, e)
  PROVE  /\ WriterType'
         /\ log'[h] = Append(log[h], e) /\ \A s \in Streams \ {h} : log'[s] = log[s]
<1>1. h \in Streams /\ h # "build" /\ "build" \in Streams
  BY HostsAssumption DEF Streams
<1>2. Append(log[h], e) \in Seq(HostEvents)
  BY DEF TypeOK, WriterType
<1>3. log'[h] = Append(log[h], e) /\ \A s \in Streams \ {h} : log'[s] = log[s]
  BY <1>1 DEF Emit, TypeOK, WriterType
<1>4. log' = [s \in Streams |-> log'[s]]
  BY <1>1 DEF Emit, TypeOK, WriterType
<1> QED BY <1>1, <1>2, <1>3, <1>4 DEF Emit, TypeOK, WriterType, Streams

(* A record offered to build.jsonl: it is appended, replaced by the notice or
   dropped. *)
LEMMA EmitBuildType ==
  ASSUME TypeOK, NEW e \in BuildEvents, NEW size \in Nat, NEW t \in BOOLEAN, EmitBuild(e, size, t)
  PROVE  /\ WriterType' /\ \A h \in Hosts : log'[h] = log[h]
         /\ \/ log' = log /\ partial' = partial
            \/ /\ partial' = "build"
               /\ \E x \in BuildEvents : log'["build"] = Append(log["build"], x)
<1>1. "build" \in Streams /\ "build" \notin Hosts /\ Hosts \subseteq Streams
  BY HostsAssumption DEF Streams
<1>2. <<"notice">> \in BuildEvents
  BY DEF BuildEvents
<1>3. ASSUME NEW x \in BuildEvents, NEW b \in Nat, NEW r \in BOOLEAN,
             log' = [log EXCEPT !["build"] = Append(@, x)],
             partial' = "build", bytes' = b, truncated' = r
      PROVE  /\ WriterType' /\ \A h \in Hosts : log'[h] = log[h]
             /\ log'["build"] = Append(log["build"], x)
  <2>1. Append(log["build"], x) \in Seq(BuildEvents)
    BY DEF TypeOK, WriterType
  <2>2. log'["build"] = Append(log["build"], x) /\ \A h \in Hosts : log'[h] = log[h]
    BY <1>1, <1>3 DEF TypeOK, WriterType
  <2>3. log' = [s \in Streams |-> log'[s]]
    BY <1>3 DEF TypeOK, WriterType
  <2> QED BY <1>1, <1>3, <2>1, <2>2, <2>3 DEF TypeOK, WriterType
<1>4. bytes \in Nat /\ bytes + 1 \in Nat /\ bytes + size \in Nat /\ truncated \in BOOLEAN
  BY DEF TypeOK, WriterType
<1>5. CASE (truncated /\ ~t) \/ bytes + size > Budget(t)
  <2>1. CASE ~truncated /\ bytes + 1 <= LogMax
    BY <1>2, <1>3, <1>4, <1>5, <2>1 DEF EmitBuild
  <2>2. CASE ~(~truncated /\ bytes + 1 <= LogMax)
    <3>1. log' = log /\ partial' = partial /\ bytes' = bytes /\ truncated' = TRUE
      BY <1>5, <2>2 DEF EmitBuild
    <3> QED BY <3>1 DEF TypeOK, WriterType
  <2> QED BY <2>1, <2>2
<1>6. CASE ~((truncated /\ ~t) \/ bytes + size > Budget(t))
  BY <1>3, <1>4, <1>6 DEF EmitBuild
<1> QED BY <1>5, <1>6

(* No stream but the build's is touched by the batch build. *)
LEMMA NoRecordType ==
  ASSUME TypeOK, UNCHANGED wvars
  PROVE  WriterType'
BY DEF TypeOK, WriterType, wvars

(* I/O errors are counted up to their bound. *)
LEMMA IoType ==
  ASSUME TypeOK, NEW k \in Nat, Io(k)
  PROVE  io' \in 0..MaxIo /\ io' = io + k
BY BoundsAssumption DEF Io, TypeOK, RunType

(* A build failure is recorded as both exit codes, or as neither when writing
   meta.json fails. *)
LEMMA RecordType ==
  ASSUME TypeOK, NEW rc \in Rcs, NEW k \in Nat, RecordBuildFailure(rc, k)
  PROVE  /\ MetaType' /\ io' \in 0..MaxIo /\ meta'.summary = meta.summary
         /\ \/ meta' = [meta EXCEPT !.build_rc = rc, !.rc = rc] /\ meta'.rc = rc /\ io' = io + k
            \/ meta' = meta /\ io' = io + k + 1
<1>1. CASE Io(k) /\ meta' = [meta EXCEPT !.build_rc = rc, !.rc = rc]
  BY <1>1, IoType DEF TypeOK, MetaType
<1>2. CASE Io(k + 1) /\ UNCHANGED meta
  <2>1. k + 1 \in Nat /\ io + (k + 1) = io + k + 1
    BY DEF TypeOK, RunType
  <2> QED BY <1>2, <2>1, IoType DEF TypeOK, MetaType
<1> QED BY <1>1, <1>2 DEF RecordBuildFailure

(* A step of the batch build leaves hosts and tailer alone. *)
LEMMA BuildTypes ==
  ASSUME TypeOK, MetaOK, BuildStep
  PROVE  TypeOK' /\ \A h \in Hosts : log'[h] = log[h]
<1>0. /\ UNCHANGED tvars => TailerType'
      /\ UNCHANGED hvars => TaskType'
      /\ UNCHANGED meta => MetaType'
      /\ UNCHANGED wvars => WriterType' /\ \A h \in Hosts : log'[h] = log[h]
  BY NoRecordType DEF TypeOK, tvars, hvars, wvars, TailerType, TaskType, MetaType
<1>b. /\ <<"start">> \in BuildEvents /\ <<"line">> \in BuildEvents /\ <<"progress">> \in BuildEvents
      /\ \A rc \in Rcs : <<"done", rc>> \in BuildEvents
      /\ 0 \in Nat /\ 1 \in Nat /\ TRUE \in BOOLEAN /\ FALSE \in BOOLEAN
      /\ 1 \in Rcs /\ 127 \in Rcs /\ \A size \in 1..MaxSize : size \in Nat
  BY BoundsAssumption DEF BuildEvents, Rcs
<1>c. pc \in EndPhases => buildRc \in Rcs /\ EndRc \in Rcs
  BY DEF TypeOK, MetaOK, RunType, EndRc, Rcs
<1>e. \A e \in BuildEvents, t \in BOOLEAN :
        EmitBuild(e, 1, t) => WriterType' /\ \A h \in Hosts : log'[h] = log[h]
  BY <1>b, EmitBuildType
<1>1. ASSUME ResolveFails PROVE TypeOK' /\ \A h \in Hosts : log'[h] = log[h]
  BY <1>0, <1>1, <1>b, RecordType, ZenonT(40) DEF ResolveFails, TypeOK, RunType
<1>2. ASSUME ResolveProfiles PROVE TypeOK' /\ \A h \in Hosts : log'[h] = log[h]
  BY <1>0, <1>2 DEF ResolveProfiles, TypeOK, RunType, EndPhases, BuildPhases
<1>3. ASSUME OpenBuildStream PROVE TypeOK' /\ \A h \in Hosts : log'[h] = log[h]
  BY <1>0, <1>3, <1>b, IoType DEF OpenBuildStream, TypeOK, RunType, EndPhases, BuildPhases
<1>4. ASSUME BuildStart PROVE TypeOK' /\ \A h \in Hosts : log'[h] = log[h]
  <2>1. CASE EmitBuild(<<"start">>, 1, FALSE) /\ pc' = "spawn" /\ Io(0) /\ UNCHANGED meta
    BY <1>0, <1>4, <1>b, <1>e, <2>1, IoType, ZenonT(40) DEF BuildStart, TypeOK, RunType, EndPhases, BuildPhases
  <2>2. CASE RecordBuildFailure(1, 1) /\ pc' = "exited" /\ UNCHANGED wvars
    BY <1>0, <1>4, <1>b, <2>2, RecordType, ZenonT(40) DEF BuildStart, TypeOK, RunType, EndPhases, BuildPhases
  <2> QED BY <1>4, <2>1, <2>2 DEF BuildStart
<1>5. ASSUME SpawnFails PROVE TypeOK' /\ \A h \in Hosts : log'[h] = log[h]
  <2>1. CASE EmitBuild(<<"done", 127>>, 1, TRUE) /\ RecordBuildFailure(127, 0)
    <3>1. WriterType' /\ \A h \in Hosts : log'[h] = log[h]
      BY <1>b, <1>e, <2>1
    <3>2. MetaType' /\ io' \in 0..MaxIo
      BY <1>b, <2>1, RecordType
    <3> QED BY <1>0, <1>5, <3>1, <3>2 DEF SpawnFails, TypeOK, RunType
  <2>2. CASE UNCHANGED wvars /\ RecordBuildFailure(127, 1)
    BY <1>0, <1>5, <1>b, <2>2, RecordType, ZenonT(40) DEF SpawnFails, TypeOK, RunType
  <2> QED BY <1>5, <2>1, <2>2 DEF SpawnFails
<1>6. ASSUME SpawnBuild PROVE TypeOK' /\ \A h \in Hosts : log'[h] = log[h]
  BY <1>0, <1>6 DEF SpawnBuild, TypeOK, RunType, EndPhases, BuildPhases
<1>7. ASSUME NixLine PROVE TypeOK' /\ \A h \in Hosts : log'[h] = log[h]
  <2>1. lines' \in 0..MaxLines /\ pc' = pc
    BY <1>7, BoundsAssumption DEF NixLine, TypeOK, RunType
  <2>2. CASE /\ ~event_error /\ Io(0)
             /\ \E size \in 1..MaxSize : EmitBuild(<<"line">>, size, FALSE)
             /\ UNCHANGED event_error
    <3>1. PICK size \in 1..MaxSize : EmitBuild(<<"line">>, size, FALSE)
      BY <2>2
    <3>2. WriterType' /\ \A h \in Hosts : log'[h] = log[h]
      BY <1>b, <3>1, EmitBuildType
    <3> QED BY <1>0, <1>7, <1>b, <2>1, <2>2, <3>2, IoType DEF NixLine, TypeOK, RunType
  <2>3. CASE ~event_error /\ Io(1) /\ event_error' = TRUE /\ UNCHANGED wvars
    BY <1>0, <1>7, <1>b, <2>1, <2>3, IoType DEF NixLine, TypeOK, RunType
  <2>4. CASE event_error /\ Io(0) /\ UNCHANGED <<event_error, log, partial, bytes, truncated>>
    <3>1. UNCHANGED wvars
      BY <2>4 DEF wvars
    <3> QED BY <1>0, <1>7, <1>b, <2>1, <2>4, <3>1, IoType DEF NixLine, TypeOK, RunType
  <2> QED BY <1>7, <2>2, <2>3, <2>4 DEF NixLine
<1>8. ASSUME NixExits PROVE TypeOK' /\ \A h \in Hosts : log'[h] = log[h]
  BY <1>0, <1>8, <1>b, IoType, BoundsAssumption DEF NixExits, TypeOK, RunType, EndPhases, BuildPhases
<1>9. ASSUME BuildOutcome PROVE TypeOK' /\ \A h \in Hosts : log'[h] = log[h]
  BY <1>0, <1>9, <1>b, IoType, ZenonT(40) DEF BuildOutcome, TypeOK, RunType, EndPhases, BuildPhases
<1>10. ASSUME NEW event \in BuildEvents, NEW next \in {"done", "report"}, BuildTerminal(event, next)
       PROVE TypeOK' /\ \A h \in Hosts : log'[h] = log[h]
  <2>1. CASE EmitBuild(event, 1, TRUE) /\ pc' = next /\ Io(0) /\ UNCHANGED meta
    BY <1>0, <1>10, <1>b, <1>e, <2>1, IoType DEF BuildTerminal, TypeOK, RunType, EndPhases, BuildPhases
  <2>2. CASE RecordBuildFailure(1, 1) /\ pc' = "exited" /\ UNCHANGED wvars
    BY <1>0, <1>10, <1>b, <2>2, RecordType DEF BuildTerminal, TypeOK, RunType, EndPhases, BuildPhases
  <2> QED BY <1>10, <2>1, <2>2 DEF BuildTerminal
<1>11. ASSUME FinalProgress PROVE TypeOK' /\ \A h \in Hosts : log'[h] = log[h]
  BY <1>10, <1>11, <1>b DEF FinalProgress
<1>12. ASSUME BuildDone PROVE TypeOK' /\ \A h \in Hosts : log'[h] = log[h]
  <2>1. (IF BuildEnds THEN EndRc ELSE buildRc) \in Rcs
    BY <1>12, <1>c DEF BuildDone, EndPhases
  <2> QED BY <1>10, <1>12, <1>b, <2>1 DEF BuildDone
<1>13. ASSUME FailedDerivations PROVE TypeOK' /\ \A h \in Hosts : log'[h] = log[h]
  <2>0. lines' \in 0..MaxLines
    <3>1. lines \in 0..MaxLines
      BY DEF TypeOK, RunType
    <3>2. lines' = 0 \/ (lines < MaxLines /\ lines' = lines + 1)
      BY <1>13, Zenon DEF FailedDerivations
    <3> QED BY <3>1, <3>2, BoundsAssumption
  <2>1. CASE pc' = "record" /\ Io(0) /\ lines' = 0 /\ UNCHANGED wvars
    BY <1>0, <1>13, <1>b, <2>0, <2>1, IoType DEF FailedDerivations, TypeOK, RunType, EndPhases
  <2>2. CASE /\ lines < MaxLines /\ lines' = lines + 1
             /\ EmitBuild(<<"line">>, 1, FALSE) /\ UNCHANGED pc /\ Io(0)
    BY <1>0, <1>13, <1>b, <1>e, <2>0, <2>2, IoType, ZenonT(40) DEF FailedDerivations, TypeOK, RunType, EndPhases
  <2>3. CASE pc' = "exited" /\ Io(1) /\ lines' = 0 /\ UNCHANGED wvars
    BY <1>0, <1>13, <1>b, <2>0, <2>3, IoType DEF FailedDerivations, TypeOK, RunType, EndPhases
  <2> QED BY <1>13, <2>1, <2>2, <2>3 DEF FailedDerivations
<1>14. ASSUME RecordBuild PROVE TypeOK' /\ \A h \in Hosts : log'[h] = log[h]
  <2>0. pc \in EndPhases /\ TailerType' /\ WriterType' /\ \A h \in Hosts : log'[h] = log[h]
    BY <1>0, <1>14 DEF RecordBuild, EndPhases
  <2>1. CASE /\ ~BuildEnds /\ Io(0) /\ pc' = "fanout"
             /\ meta' = [meta EXCEPT !.build_rc = buildRc]
             /\ task' = [h \in Hosts |-> IF h \in failures THEN "abnormal" ELSE "queued"]
    <3>1. MetaType'
      BY <1>c, <2>0, <2>1 DEF TypeOK, MetaType
    <3>2. TaskType'
      BY <1>14, <2>1 DEF RecordBuild, TypeOK, TaskType, Stages
    <3> QED BY <1>14, <1>b, <2>0, <2>1, <3>1, <3>2, IoType DEF RecordBuild, TypeOK, RunType, EndPhases
  <2>2. CASE ~BuildEnds /\ Io(1) /\ pc' = "exited" /\ UNCHANGED <<meta, task>>
    BY <1>0, <1>14, <1>b, <2>0, <2>2, IoType DEF RecordBuild, TypeOK, RunType, hvars
  <2>3. CASE BuildEnds /\ RecordBuildFailure(EndRc, 0) /\ pc' = "exited" /\ UNCHANGED task
    BY <1>0, <1>14, <1>b, <1>c, <2>0, <2>3, RecordType DEF RecordBuild, TypeOK, RunType, hvars
  <2> QED BY <1>14, <2>1, <2>2, <2>3 DEF RecordBuild
<1> QED BY <1>1, <1>2, <1>3, <1>4, <1>5, <1>6, <1>7, <1>8, <1>9, <1>11, <1>12, <1>13, <1>14
        DEF BuildStep

----------------------------------------------------------------------------
(* The steps of a host's task. *)
Dispositions == {None, "staged", "preview", "switch", "rolled-back"}

Moves(h, stage, o, r) ==
  /\ task' = [task EXCEPT ![h] = stage]
  /\ outcome' = [outcome EXCEPT ![h] = o]
  /\ result' = [result EXCEPT ![h] = r]

(* It writes nothing, or one record of its own stream. *)
Records(h) == UNCHANGED wvars \/ \E e \in HostEvents : Emit(h, e)

(* What such a step keeps. *)
HostEffect(h) ==
  /\ WriterType' /\ TaskType' /\ StageOK(h)' /\ task'[h] # "none"
  /\ Records(h) /\ log'["build"] = log["build"]
  /\ \A w \in Hosts \ {h} : /\ task'[w] = task[w] /\ outcome'[w] = outcome[w]
                            /\ result'[w] = result[w] /\ log'[w] = log[w]

(* A task that moves on leaves the other hosts where they are. *)
LEMMA MoveFacts ==
  ASSUME TypeOK, NEW h \in Hosts, NEW stage \in Stages, NEW o \in Dispositions,
         NEW r \in HostStates \cup {None}, Moves(h, stage, o, r)
  PROVE  /\ TaskType' /\ task'[h] = stage /\ outcome'[h] = o /\ result'[h] = r
         /\ \A w \in Hosts \ {h} : task'[w] = task[w] /\ outcome'[w] = outcome[w] /\ result'[w] = result[w]
BY DEF Moves, TypeOK, TaskType, Dispositions

(* A stream that is left alone. *)
LEMMA SilentFacts ==
  ASSUME TypeOK, NEW h \in Hosts, UNCHANGED wvars
  PROVE  WriterType' /\ Records(h) /\ log' = log
BY NoRecordType DEF Records, wvars

(* A stream that got a record. *)
LEMMA RecordFacts ==
  ASSUME TypeOK, NEW h \in Hosts, NEW e \in HostEvents, Emit(h, e)
  PROVE  /\ WriterType' /\ Records(h) /\ log'["build"] = log["build"]
         /\ \A w \in Hosts \ {h} : log'[w] = log[w]
         /\ log'[h] # <<>> /\ Replay(log'[h]) = Feed(Replay(log[h]), e)
<1>1. WriterType' /\ log'[h] = Append(log[h], e) /\ \A s \in Streams \ {h} : log'[s] = log[s]
  BY EmitType
<1>2. log[h] \in Seq(HostEvents)
  BY DEF TypeOK, WriterType
<1>3. log'[h] # <<>> /\ Replay(log'[h]) = Feed(Replay(log[h]), e)
  BY <1>1, <1>2, ReplayAppend
<1>4. h # "build" /\ "build" \in Streams /\ Hosts \subseteq Streams
  BY HostsAssumption DEF Streams
<1> QED BY <1>1, <1>3, <1>4 DEF Records

(* Stages in which the stream has records and no verdict. *)
Underway == Undecided \ {"none", "queued", "start", "reboot"}

(* The task moves on without a record. *)
LEMMA Stays ==
  ASSUME TypeOK, NEW h \in Hosts, StageOK(h), task[h] \in Undecided,
         NEW stage \in Underway, NEW o \in Dispositions, Moves(h, stage, o, result[h]),
         UNCHANGED wvars
  PROVE  HostEffect(h)
<1>1. result[h] \in HostStates \cup {None} /\ stage \in Stages
  BY DEF TypeOK, TaskType, Underway, Undecided
<1>2. StageOK(h)'
  BY <1>1, MoveFacts, SilentFacts DEF StageOK, Underway, Undecided
<1> QED BY <1>1, <1>2, MoveFacts, SilentFacts DEF HostEffect, Underway

(* The task writes what is not a verdict. *)
LEMMA Shows ==
  ASSUME TypeOK, NEW h \in Hosts, StageOK(h), task[h] \in Undecided,
         NEW e \in {"start", "copy", "activate", "wait"}, Emit(h, e),
         NEW stage \in Underway, Moves(h, stage, outcome[h], result[h])
  PROVE  HostEffect(h)
<1>1. /\ result[h] \in HostStates \cup {None} /\ outcome[h] \in Dispositions
      /\ stage \in Stages /\ e \in HostEvents
  BY DEF TypeOK, TaskType, Underway, Undecided, HostEvents, Dispositions
<1>2. Replay(log[h]) \notin Terminal
  BY DEF StageOK
<1>3. Feed(Replay(log[h]), e) \notin Terminal
  BY <1>2 DEF Feed, Terminal, MilestoneState
<1>4. StageOK(h)'
  BY <1>1, <1>3, MoveFacts, RecordFacts DEF StageOK, Underway, Undecided
<1> QED BY <1>1, <1>4, MoveFacts, RecordFacts DEF HostEffect, Underway

(* The task ends in a failure, whatever its stream shows. *)
LEMMA Fails ==
  ASSUME TypeOK, NEW h \in Hosts, Records(h), Moves(h, "joined", outcome[h], "failed")
  PROVE  HostEffect(h)
<1>1. "failed" \in HostStates \cup {None} /\ outcome[h] \in Dispositions /\ "joined" \in Stages
  BY DEF TypeOK, TaskType, Stages, HostStates, Terminal, Dispositions
<1>2. StageOK(h)'
  BY <1>1, MoveFacts DEF StageOK, Undecided
<1>3. CASE UNCHANGED wvars
  BY <1>1, <1>2, <1>3, MoveFacts, SilentFacts DEF HostEffect
<1>4. CASE \E e \in HostEvents : Emit(h, e)
  BY <1>1, <1>2, <1>4, MoveFacts, RecordFacts DEF HostEffect
<1> QED BY <1>3, <1>4 DEF Records

(* The last milestone is the verdict. *)
LEMMA Decides ==
  ASSUME TypeOK, NEW h \in Hosts, StageOK(h), task[h] \in Undecided,
         NEW e \in HostEvents, Emit(h, e), NEW stage \in {"done0", "rolled"},
         \/ e = "rollback" /\ stage = "rolled"
         \/ e = "reboot" /\ stage = "done0" /\ outcome[h] = "staged"
         \/ e = "confirm" /\ stage = "done0" /\ outcome[h] # "staged",
         Moves(h, stage, outcome[h], result[h])
  PROVE  HostEffect(h)
<1>1. /\ result[h] \in HostStates \cup {None} /\ outcome[h] \in Dispositions
      /\ stage \in Stages
  BY DEF TypeOK, TaskType, Stages, Dispositions
<1>2. Replay(log[h]) \notin Terminal
  BY DEF StageOK
<1>3. Feed(Replay(log[h]), e) =
        IF e = "rollback" THEN "rolled-back" ELSE IF e = "reboot" THEN "reboot-pending" ELSE "confirmed"
  BY <1>2 DEF Feed, Terminal, MilestoneState
<1>4. task[h] # "joined" /\ result[h] = None
  BY DEF StageOK, Undecided
<1>5. StageOK(h)'
  BY <1>1, <1>3, <1>4, MoveFacts, RecordFacts DEF StageOK, Undecided
<1> QED BY <1>1, <1>5, MoveFacts, RecordFacts DEF HostEffect

(* A step that moves the task alone. *)
LEMMA TaskMoves ==
  ASSUME TypeOK, NEW h \in Hosts, NEW stage, task' = [task EXCEPT ![h] = stage], UNCHANGED outcome
  PROVE  /\ UNCHANGED result => Moves(h, stage, outcome[h], result[h])
         /\ \A r : result' = [result EXCEPT ![h] = r] => Moves(h, stage, outcome[h], r)
BY DEF TypeOK, TaskType, Moves

(* EmitThen: the record and the next stage, or no record and a failure to report. *)
LEMMA EmitThenFacts ==
  ASSUME TypeOK, NEW h \in Hosts, StageOK(h), task[h] \in Undecided, UNCHANGED outcome,
         NEW e, NEW stage, EmitThen(h, e, stage),
         Emit(h, e) /\ Moves(h, stage, outcome[h], result[h]) => HostEffect(h)
  PROVE  HostEffect(h) /\ io' \in 0..MaxIo
<1>0. UNCHANGED result /\ 0 \in Nat /\ 1 \in Nat
  BY DEF EmitThen
<1>1. CASE Emit(h, e) /\ Io(0) /\ task' = [task EXCEPT ![h] = stage]
  BY <1>0, <1>1, TaskMoves, IoType
<1>2. CASE UNCHANGED wvars /\ Io(1) /\ task' = [task EXCEPT ![h] = "done1"]
  <2>1. Moves(h, "done1", outcome[h], result[h])
    BY <1>0, <1>2, TaskMoves
  <2>2. "done1" \in Underway /\ outcome[h] \in Dispositions
    BY DEF Underway, Undecided, Stages, TypeOK, TaskType, Dispositions
  <2> QED BY <1>0, <1>2, <2>1, <2>2, Stays, IoType
<1> QED BY <1>1, <1>2 DEF EmitThen

(* Every step of a host's task, its panic included, keeps the host's part of the
   invariant, writes at most one record, to its own stream, and leaves meta.json,
   the build and the tailer alone. *)
LEMMA HostSteps ==
  ASSUME TypeOK, NEW h \in Hosts, StageOK(h), HostStep(h) \/ Panic(h)
  PROVE  HostEffect(h) /\ io' \in 0..MaxIo /\ HostUnchanged
<1>u. HostUnchanged
  BY DEF HostStep, Permit, HostStart, HostRefused, CopyMilestone, Push, Resolve, RebootMilestone,
         ActivateMilestone, WaitMilestone, Deploy, LastMilestone, HostDone, AbnormalStart,
         AbnormalDone, JoinFails, Panic
<1> SUFFICES HostEffect(h) /\ io' \in 0..MaxIo
  BY <1>u
<1>0. 0 \in Nat /\ 1 \in Nat /\ outcome[h] \in Dispositions /\ result[h] \in HostStates \cup {None}
  BY DEF TypeOK, TaskType, Dispositions
<1>i. Io(0) \/ Io(1) => io' \in 0..MaxIo
  BY <1>0, IoType
<1>g. ASSUME NEW stage \in Underway, task[h] \in Undecided, Go(h, stage), UNCHANGED outcome
      PROVE  HostEffect(h)
  BY <1>0, <1>g, TaskMoves, Stays DEF Go
<1>1. CASE Permit(h)
  <2>1. task[h] = "queued" /\ UNCHANGED wvars /\ Moves(h, "start", outcome[h], result[h])
    BY <1>1, TaskMoves DEF Permit, Go
  <2>2. "start" \in Stages
    BY DEF Stages
  <2>3. StageOK(h)'
    BY <1>0, <2>1, <2>2, MoveFacts, SilentFacts DEF StageOK, Undecided, Stages
  <2>4. HostEffect(h)
    BY <1>0, <2>1, <2>2, <2>3, MoveFacts, SilentFacts DEF HostEffect
  <2> QED BY <1>1, <1>i, <2>4 DEF Permit
<1>2. CASE HostStart(h)
  <2>1. task[h] \in Undecided /\ UNCHANGED outcome
    BY <1>2 DEF HostStart, Undecided, Stages
  <2>2. CASE Emit(h, "start") /\ Io(0) /\ task' = [task EXCEPT ![h] = "copy"] /\ UNCHANGED result
    <3>1. "copy" \in Underway
      BY DEF Underway, Undecided, Stages
    <3> QED BY <1>i, <2>1, <2>2, <3>1, TaskMoves, Shows
  <2>3. CASE /\ UNCHANGED wvars /\ Io(1) /\ task' = [task EXCEPT ![h] = "joined"]
             /\ result' = [result EXCEPT ![h] = "failed"]
    BY <1>i, <2>1, <2>3, TaskMoves, Fails DEF Records
  <2> QED BY <1>2, <2>2, <2>3 DEF HostStart
<1>3. CASE HostRefused(h)
  BY <1>3, <1>g, <1>i DEF HostRefused, Underway, Undecided, Stages
<1>4. CASE CopyMilestone(h)
  <2>1. task[h] \in Undecided /\ UNCHANGED outcome /\ EmitThen(h, "copy", "push") /\ "push" \in Underway
    BY <1>4 DEF CopyMilestone, Undecided, Stages, Underway
  <2> QED BY <2>1, Shows, EmitThenFacts
<1>5. CASE Push(h)
  BY <1>5, <1>g, <1>i DEF Push, Underway, Undecided, Stages
<1>6. CASE Resolve(h)
  <2>1. task[h] \in Undecided
    BY <1>6 DEF Resolve, Undecided, Stages
  <2>2. CASE Go(h, "done1") /\ (Io(0) \/ Io(1)) /\ UNCHANGED outcome
    BY <1>g, <1>i, <2>1, <2>2 DEF Underway, Undecided, Stages
  <2>3. CASE \E staged \in BOOLEAN :
               /\ plan.boot => staged
               /\ Io(0)
               /\ Go(h, IF staged /\ plan.dry THEN "reboot" ELSE "activate")
               /\ outcome' = [outcome EXCEPT ![h] = IF staged THEN "staged"
                                                    ELSE IF plan.dry THEN "preview" ELSE "switch"]
    <3>1. PICK o \in {"staged", "preview", "switch"}, stage \in {"reboot", "activate"} :
                 /\ stage = "reboot" => o = "staged"
                 /\ Io(0) /\ Go(h, stage) /\ outcome' = [outcome EXCEPT ![h] = o]
      BY <2>3
    <3>2. UNCHANGED wvars /\ Moves(h, stage, o, result[h]) /\ o \in Dispositions
      BY <3>1 DEF Go, Moves, TypeOK, TaskType, Dispositions
    <3>3. CASE stage = "activate"
      BY <1>i, <2>1, <3>1, <3>2, <3>3, Stays DEF Underway, Undecided, Stages
    <3>4. CASE stage = "reboot"
      <4>1. "reboot" \in Stages /\ task[h] = "resolve"
        BY <1>6 DEF Resolve, Stages
      <4>2. StageOK(h)'
        BY <1>0, <3>1, <3>2, <3>4, <4>1, MoveFacts, SilentFacts DEF StageOK, Undecided, Stages
      <4>3. HostEffect(h)
        BY <1>0, <3>2, <3>4, <4>1, <4>2, MoveFacts, SilentFacts DEF HostEffect
      <4> QED BY <1>i, <3>1, <4>3
    <3> QED BY <3>1, <3>3, <3>4
  <2> QED BY <1>6, <2>2, <2>3 DEF Resolve
<1>7. CASE RebootMilestone(h)
  <2>1. task[h] \in Undecided /\ UNCHANGED outcome /\ EmitThen(h, "reboot", "done0")
    BY <1>7 DEF RebootMilestone, Undecided, Stages
  <2>2. outcome[h] = "staged" /\ "reboot" \in HostEvents
    BY <1>7 DEF RebootMilestone, StageOK, HostEvents
  <2> QED BY <2>1, <2>2, Decides, EmitThenFacts
<1>8. CASE ActivateMilestone(h)
  <2>1. PICK stage \in {"wait", "deploy"} :
               task[h] \in Undecided /\ UNCHANGED outcome /\ EmitThen(h, "activate", stage)
    BY <1>8 DEF ActivateMilestone, Undecided, Stages
  <2>2. stage \in Underway
    BY DEF Underway, Undecided, Stages
  <2> QED BY <2>1, <2>2, Shows, EmitThenFacts
<1>9. CASE WaitMilestone(h)
  <2>1. task[h] \in Undecided /\ UNCHANGED outcome /\ EmitThen(h, "wait", "deploy") /\ "deploy" \in Underway
    BY <1>9 DEF WaitMilestone, Undecided, Stages, Underway
  <2> QED BY <2>1, Shows, EmitThenFacts
<1>10. CASE Deploy(h)
  <2>1. task[h] \in Undecided /\ {"milestone", "done1"} \subseteq Underway
    BY <1>10 DEF Deploy, Undecided, Stages, Underway
  <2>2. CASE \/ Go(h, "milestone") /\ Io(0) /\ UNCHANGED outcome
             \/ Go(h, "done1") /\ (Io(0) \/ Io(1)) /\ UNCHANGED outcome
    BY <1>g, <1>i, <2>1, <2>2
  <2>3. CASE Go(h, "milestone") /\ Io(0) /\ outcome' = [outcome EXCEPT ![h] = "rolled-back"]
    <3>1. UNCHANGED wvars /\ Moves(h, "milestone", "rolled-back", result[h]) /\ "rolled-back" \in Dispositions
      BY <2>3 DEF Go, Moves, TypeOK, TaskType, Dispositions
    <3> QED BY <1>i, <2>1, <2>3, <3>1, Stays
  <2> QED BY <1>10, <2>2, <2>3 DEF Deploy
<1>11. CASE LastMilestone(h)
  <2>1. task[h] \in Undecided /\ UNCHANGED outcome
    BY <1>11 DEF LastMilestone, Undecided, Stages
  <2>2. "rollback" \in HostEvents /\ "reboot" \in HostEvents /\ "confirm" \in HostEvents
    BY DEF HostEvents
  <2>3. CASE outcome[h] = "rolled-back" /\ EmitThen(h, "rollback", "rolled")
    BY <2>1, <2>2, <2>3, Decides, EmitThenFacts
  <2>4. CASE outcome[h] = "staged" /\ EmitThen(h, "reboot", "done0")
    BY <2>1, <2>2, <2>4, Decides, EmitThenFacts
  <2>5. CASE outcome[h] \in {"switch", "preview"} /\ EmitThen(h, "confirm", "done0")
    BY <2>1, <2>2, <2>5, Decides, EmitThenFacts
  <2> QED BY <1>11, <2>3, <2>4, <2>5 DEF LastMilestone
<1>12. CASE HostDone(h)
  <2>1. task[h] \in {"done0", "rolled", "done1"} /\ UNCHANGED outcome /\ task' = [task EXCEPT ![h] = "joined"]
    BY <1>12 DEF HostDone
  <2>2. CASE UNCHANGED wvars /\ Io(1) /\ result' = [result EXCEPT ![h] = "failed"]
    BY <1>i, <2>1, <2>2, TaskMoves, Fails DEF Records
  <2>3. CASE /\ Emit(h, IF task[h] = "done0" THEN "done0" ELSE "done1") /\ Io(0)
             /\ result' = [result EXCEPT ![h] = ResultState(h)]
    <3>1. PICK e \in {"done0", "done1"} : /\ Emit(h, e) /\ e = IF task[h] = "done0" THEN "done0" ELSE "done1"
      BY <2>3
    <3>2. e \in HostEvents
      BY DEF HostEvents
    <3>3. CASE task[h] = "done1"
      BY <1>i, <2>1, <2>3, <3>1, <3>2, <3>3, TaskMoves, Fails DEF Records, ResultState
    <3>4. CASE task[h] \in {"done0", "rolled"}
      <4>1. /\ Replay(log[h]) = ResultState(h) /\ ResultState(h) \in Terminal
        BY <3>4 DEF StageOK, ResultState, Terminal
      <4>2. Feed(Replay(log[h]), e) = Replay(log[h])
        BY <4>1 DEF Feed, MilestoneState
      <4>3. Moves(h, "joined", outcome[h], ResultState(h)) /\ ResultState(h) \in HostStates \cup {None}
        BY <2>1, <2>3, <4>1, TaskMoves DEF HostStates
      <4>4. "joined" \in Stages
        BY DEF Stages
      <4>5. StageOK(h)'
        BY <1>0, <3>1, <3>2, <4>1, <4>2, <4>3, <4>4, MoveFacts, RecordFacts DEF StageOK, Undecided
      <4>6. HostEffect(h)
        BY <1>0, <3>1, <3>2, <4>3, <4>4, <4>5, MoveFacts, RecordFacts DEF HostEffect
      <4> QED BY <1>i, <2>3, <4>6
    <3> QED BY <2>1, <3>3, <3>4
  <2> QED BY <1>12, <2>2, <2>3 DEF HostDone
<1>13. CASE Panic(h)
  BY <1>13, <1>g, <1>i DEF Panic, Underway, Undecided, Stages
<1>16. CASE JoinFails(h)
  BY <1>16, <1>g, <1>i DEF JoinFails, Underway, Undecided, Stages
<1>14. CASE AbnormalStart(h)
  <2>1. task[h] \in Undecided /\ UNCHANGED outcome /\ "abnormalDone" \in Underway
    BY <1>14 DEF AbnormalStart, Undecided, Stages, Underway
  <2>2. CASE /\ (Emit(h, "start") /\ Io(0)) \/ (UNCHANGED wvars /\ Io(1))
             /\ task' = [task EXCEPT ![h] = "abnormalDone"] /\ UNCHANGED result
    BY <1>0, <1>i, <2>1, <2>2, TaskMoves, Shows, Stays
  <2>3. CASE /\ UNCHANGED wvars /\ Io(1) /\ task' = [task EXCEPT ![h] = "joined"]
             /\ result' = [result EXCEPT ![h] = "failed"]
    BY <1>i, <2>1, <2>3, TaskMoves, Fails DEF Records
  <2> QED BY <1>14, <2>2, <2>3 DEF AbnormalStart
<1>15. CASE AbnormalDone(h)
  <2>1. "done1" \in HostEvents
    BY DEF HostEvents
  <2>2. Records(h) /\ Moves(h, "joined", outcome[h], "failed")
    BY <1>15, <2>1, TaskMoves DEF AbnormalDone, Records
  <2> QED BY <1>15, <1>i, <2>2, Fails DEF AbnormalDone
<1> QED BY <1>1, <1>2, <1>3, <1>4, <1>5, <1>6, <1>7, <1>8, <1>9, <1>10, <1>11, <1>12, <1>13, <1>14,
           <1>15, <1>16 DEF HostStep

----------------------------------------------------------------------------
(* What a reader sees of a stream. *)

(* The complete part of a stream whose last record is being written. *)
LEMMA FrontAppend ==
  ASSUME NEW S, NEW q \in Seq(S), NEW x
  PROVE  /\ Append(q, x) # <<>> /\ Front(Append(q, x)) = q
         /\ \A k \in 0..Len(q) : SubSeq(Append(q, x), 1, k) = SubSeq(q, 1, k)
<1> DEFINE T == S \cup {x}
<1>1. q \in Seq(T) /\ x \in T
  OBVIOUS
<1> HIDE DEF T
<1>2. PICK n \in Nat : n = Len(q)
  OBVIOUS
<1>7. Append(q, x) \in Seq(T) /\ Len(Append(q, x)) = n + 1
  BY <1>1, <1>2
<1>8. \A k \in 1..n : Append(q, x)[k] = q[k]
  BY <1>1, <1>2
<1>3. PICK r \in Seq(T) : /\ r = Append(q, x) /\ Len(r) = n + 1
                          /\ \A k \in 1..n : r[k] = q[k]
  BY <1>7, <1>8
<1>4. ASSUME NEW k \in 0..n PROVE SubSeq(r, 1, k) = SubSeq(q, 1, k)
  BY <1>1, <1>2, <1>3
<1>5. SubSeq(r, 1, Len(r) - 1) = q
  <2>1. SubSeq(q, 1, n) = q
    BY <1>1, <1>2
  <2>2. Len(r) - 1 = n
    BY <1>3
  <2> QED BY <1>4, <2>1, <2>2
<1>6. r # <<>>
  BY <1>3
<1> QED BY <1>2, <1>3, <1>4, <1>5, <1>6 DEF Front

(* At most one stream gets a record, which has no newline yet. *)
Written ==
  \/ log' = log /\ partial' = partial
  \/ \E s \in Streams : /\ partial' = s /\ \E x : log'[s] = Append(log[s], x)
                        /\ \A t \in Streams \ {s} : log'[t] = log[t]

(* Any stream is a sequence of records of hosts or of the build. *)
LEMMA StreamType ==
  ASSUME TypeOK, NEW s \in Streams
  PROVE  log[s] \in Seq(HostEvents \cup BuildEvents)
<1>1. CASE s = "build"
  BY <1>1 DEF TypeOK, WriterType
<1>2. CASE s \in Hosts
  <2>1. PICK q \in Seq(HostEvents) : q = log[s]
    BY <1>2 DEF TypeOK, WriterType
  <2>2. \A i \in 1..Len(q) : q[i] \in HostEvents \cup BuildEvents
    OBVIOUS
  <2> QED BY <2>1, <2>2
<1> QED BY <1>1, <1>2 DEF Streams

(* A reader between two records of the engine, and one that meets a record
   without its newline, have seen the same complete records. *)
LEMMA ReadKept ==
  ASSUME TypeOK, ReadOK, partial = None, Written, UNCHANGED tvars
  PROVE  ReadOK'
<1>0. /\ seen' = seen /\ view' = view /\ Hosts \subseteq Streams
      /\ \A s \in Streams : Complete(s) = log[s] /\ seen[s] \in 0..Len(log[s])
  BY NoneAssumption, StreamType DEF tvars, Streams, Complete, ReadOK, TypeOK, TailerType
<1>1. CASE log' = log /\ partial' = partial
  BY <1>0, <1>1 DEF ReadOK, Complete
<1>2. ASSUME NEW s \in Streams, NEW x, partial' = s, log'[s] = Append(log[s], x),
             \A t \in Streams \ {s} : log'[t] = log[t]
      PROVE  ReadOK'
  <2>1. /\ log'[s] # <<>> /\ Front(log'[s]) = log[s]
        /\ \A k \in 0..Len(log[s]) : SubSeq(log'[s], 1, k) = SubSeq(log[s], 1, k)
    BY <1>2, StreamType, FrontAppend
  <2>2. \A t \in Streams : Complete(t)' = log[t]
    BY <1>2, <2>1, NoneAssumption DEF Complete
  <2>3. \A t \in Streams : SubSeq(log'[t], 1, seen[t]) = SubSeq(log[t], 1, seen[t])
    BY <1>0, <1>2, <2>1
  <2> QED BY <1>0, <1>2, <2>1, <2>2, <2>3 DEF ReadOK
<1> QED BY <1>1, <1>2 DEF Written

(* The batch build writes one record to build.jsonl, or none. *)
LEMMA BuildWrites ==
  ASSUME TypeOK, BuildStep
  PROVE  Written /\ UNCHANGED tvars /\ partial = None /\ pc \in BuildPhases \cup EndPhases
<1>1. ASSUME NEW e, NEW size, NEW t, EmitBuild(e, size, t)
      PROVE  Written
  <2>1. ASSUME NEW x, log' = [log EXCEPT !["build"] = Append(@, x)], partial' = "build"
        PROVE  Written
    BY <2>1 DEF Written, TypeOK, WriterType, Streams
  <2> QED BY <1>1, <2>1 DEF EmitBuild, Written
<1>2. UNCHANGED wvars => Written
  BY DEF wvars, Written
<1>3. ASSUME NEW e, NEW next, BuildTerminal(e, next)
      PROVE  Written /\ UNCHANGED tvars
  BY <1>1, <1>2, <1>3 DEF BuildTerminal
<1>4. partial = None /\ pc \in BuildPhases \cup EndPhases
  BY DEF BuildStep, ResolveFails, ResolveProfiles, OpenBuildStream, BuildStart, SpawnFails, SpawnBuild,
         NixLine, NixExits, BuildOutcome, FinalProgress, BuildDone, FailedDerivations, RecordBuild,
         Running, BuildPhases, EndPhases
<1>5. CASE ResolveFails \/ ResolveProfiles \/ OpenBuildStream \/ SpawnBuild \/ NixExits
             \/ BuildOutcome \/ RecordBuild
  BY <1>2, <1>4, <1>5 DEF ResolveFails, ResolveProfiles, OpenBuildStream, SpawnBuild, NixExits,
       BuildOutcome, RecordBuild
<1>6. CASE BuildStart
  BY <1>1, <1>2, <1>4, <1>6 DEF BuildStart
<1>7. CASE SpawnFails
  BY <1>1, <1>2, <1>4, <1>7 DEF SpawnFails
<1>8. CASE NixLine
  <2>1. UNCHANGED <<event_error, log, partial, bytes, truncated>> => UNCHANGED wvars
    BY DEF wvars
  <2> QED BY <1>1, <1>2, <1>4, <1>8, <2>1 DEF NixLine
<1>9. CASE FinalProgress \/ BuildDone
  BY <1>3, <1>4, <1>9 DEF FinalProgress, BuildDone
<1>10. CASE FailedDerivations
  BY <1>1, <1>2, <1>4, <1>10 DEF FailedDerivations
<1> QED BY <1>5, <1>6, <1>7, <1>8, <1>9, <1>10 DEF BuildStep

(* A host's step writes one record to the host's stream, or none. *)
LEMMA HostWrites ==
  ASSUME TypeOK, NEW h \in Hosts, HostStep(h) \/ Panic(h), Records(h)
  PROVE  Written /\ FanningOut
<1>1. UNCHANGED wvars => Written
  BY DEF wvars, Written
<1>2. ASSUME NEW e \in HostEvents, Emit(h, e)
      PROVE  Written
  <2>1. h \in Streams /\ log'[h] = Append(log[h], e) /\ \A s \in Streams \ {h} : log'[s] = log[s]
    BY <1>2, EmitType DEF Streams
  <2> QED BY <1>2, <2>1 DEF Emit, Written
<1>3. FanningOut
  BY DEF HostStep, Permit, HostStart, HostRefused, CopyMilestone, Push, Resolve, RebootMilestone,
         ActivateMilestone, WaitMilestone, Deploy, LastMilestone, HostDone, AbnormalStart,
         AbnormalDone, JoinFails, Panic, Awaiting
<1> QED BY <1>1, <1>2, <1>3 DEF Records

(* A tailer that polls has fed every complete record once, in order. *)
LEMMA PollReads ==
  ASSUME TypeOK, ReadOK, Poll
  PROVE  ReadOK' /\ TailerType'
<1>0. /\ log' = log /\ partial' = partial /\ Hosts \subseteq Streams
      /\ seen' = [s \in Streams |-> Len(Complete(s))]
      /\ \A s \in Streams : Complete(s)' = Complete(s)
  BY DEF Poll, wvars, Streams, Complete
<1>1. ASSUME NEW s \in Streams
      PROVE  \E j \in 0..Len(log[s]) : /\ Complete(s) = SubSeq(log[s], 1, j) /\ Len(Complete(s)) = j
                                       /\ seen[s] \in 0..j
  <2>0. PICK n \in Nat, q \in Seq(HostEvents \cup BuildEvents) : q = log[s] /\ n = Len(q)
    BY StreamType
  <2>1. seen[s] \in Nat /\ seen[s] <= Len(Complete(s))
    BY DEF TypeOK, TailerType, ReadOK
  <2>2. CASE partial = s
    <3>1. n # 0
      BY <2>0, <2>2, NoneAssumption DEF ReadOK
    <3>2. n - 1 \in 0..n /\ Complete(s) = SubSeq(q, 1, n - 1) /\ Len(SubSeq(q, 1, n - 1)) = n - 1
      BY <2>0, <2>2, <3>1 DEF Complete, Front
    <3> QED BY <2>0, <2>1, <3>2
  <2>3. CASE partial # s
    BY <2>0, <2>1, <2>3 DEF Complete
  <2> QED BY <2>2, <2>3
<1>2. ASSUME NEW h \in Hosts
      PROVE  view'[h] = IF seen'[h] = 0 THEN None ELSE Replay(SubSeq(log[h], 1, seen'[h]))
  <2>1. PICK j \in 0..Len(log[h]) : /\ Complete(h) = SubSeq(log[h], 1, j) /\ Len(Complete(h)) = j
                                    /\ seen[h] \in 0..j
    BY <1>0, <1>1
  <2>2. PICK i \in 0..j : i = seen[h]
    BY <2>1
  <2>3. PICK q \in Seq(HostEvents) : q = log[h]
    BY DEF TypeOK, WriterType
  <2>4. /\ New(h) = SubSeq(q, i + 1, j) /\ (New(h) = <<>> <=> i = j)
    <3>1. New(h) = SubSeq(SubSeq(q, 1, j), i + 1, j)
      BY <2>1, <2>2, <2>3 DEF New
    <3>2. PICK r \in Seq(HostEvents) : /\ r = SubSeq(q, 1, j) /\ Len(r) = j
                                       /\ \A k \in 1..j : r[k] = q[k]
      BY <2>1, <2>3
    <3>0. i + 1 \in Nat \ {0} /\ j \in Nat /\ Len(q) \in Nat /\ j <= Len(q)
      BY <2>1, <2>2, <2>3
    <3>5. \A k \in (i + 1)..j : k \in 1..j /\ r[k] = q[k] /\ q[k] \in HostEvents
      BY <3>0, <3>2, <2>3
    <3>6. /\ SubSeq(q, i + 1, j) \in Seq(HostEvents) /\ SubSeq(r, i + 1, j) \in Seq(HostEvents)
          /\ Len(SubSeq(q, i + 1, j)) = IF i + 1 <= j THEN j - (i + 1) + 1 ELSE 0
          /\ Len(SubSeq(r, i + 1, j)) = IF i + 1 <= j THEN j - (i + 1) + 1 ELSE 0
          /\ \A k \in 1..(j - (i + 1) + 1) : /\ SubSeq(q, i + 1, j)[k] = q[i + 1 + k - 1]
                                            /\ SubSeq(r, i + 1, j)[k] = r[i + 1 + k - 1]
      BY <3>0, <3>2, <3>5, SMTT(30)
    <3>7. \A k \in 1..(j - (i + 1) + 1) : i + 1 + k - 1 \in (i + 1)..j
      BY <3>0
    <3>3. SubSeq(r, i + 1, j) = SubSeq(q, i + 1, j)
      BY <3>0, <3>5, <3>6, <3>7
    <3>8. Len(SubSeq(q, i + 1, j)) = 0 <=> i = j
      BY <2>2, <3>0, <3>6
    <3>10. \A z \in Seq(HostEvents) : z = <<>> <=> Len(z) = 0
      OBVIOUS
    <3>9. SubSeq(q, i + 1, j) = <<>> <=> Len(SubSeq(q, i + 1, j)) = 0
      BY <3>6, <3>10, Zenon
    <3>4. SubSeq(q, i + 1, j) = <<>> <=> i = j
      BY <3>8, <3>9
    <3> QED BY <3>1, <3>2, <3>3, <3>4
  <2>5. view'[h] = IF New(h) = <<>> THEN view[h]
                   ELSE FoldLeft(Feed, IF view[h] = None THEN "pending" ELSE view[h], New(h))
    BY DEF Poll, Route
  <2>6. view[h] = IF i = 0 THEN None ELSE Replay(SubSeq(q, 1, i))
    BY <2>2, <2>3 DEF ReadOK
  <2>7. (IF view[h] = None THEN "pending" ELSE view[h]) = Replay(SubSeq(q, 1, i))
    <3>1. CASE i = 0
      <4>1. SubSeq(q, 1, 0) = <<>>
        BY <2>3
      <4> QED BY <2>6, <3>1, <4>1, ReplayNil
    <3>2. CASE i # 0
      <4>1. SubSeq(q, 1, i) \in Seq(HostEvents)
        BY <2>1, <2>2, <2>3
      <4> QED BY <2>6, <3>2, <4>1, ReplayType, NoneAssumption
    <3> QED BY <3>1, <3>2
  <2>8. seen'[h] = j
    BY <1>0, <2>1
  <2>9. FoldLeft(Feed, Replay(SubSeq(q, 1, i)), SubSeq(q, i + 1, j)) = Replay(SubSeq(q, 1, j))
    <3>1. j \in Nat /\ Len(q) \in Nat /\ j <= Len(q) /\ i \in Nat /\ i <= j
      BY <2>1, <2>2, <2>3
    <3>2. i \in 0..Len(q) /\ j \in i..Len(q)
      BY <3>1
    <3> QED BY <3>2, ReplayOn
  <2>10. CASE i = j
    BY <2>3, <2>4, <2>5, <2>6, <2>8, <2>10
  <2>11. CASE i # j
    <3>1. j # 0
      BY <2>11
    <3> QED BY <2>3, <2>4, <2>5, <2>7, <2>8, <2>9, <2>11, <3>1
  <2> QED BY <2>10, <2>11
<1>3. \A s \in Streams : seen'[s] \in Nat /\ seen'[s] <= Len(log[s])
  <2> TAKE s \in Streams
  <2>1. Len(log[s]) \in Nat
    BY StreamType
  <2> QED BY <1>0, <1>1, <2>1
<1>4. \A h \in Hosts : view'[h] \in HostStates \cup {None}
  <2> TAKE h \in Hosts
  <2>1. SubSeq(log[h], 1, seen'[h]) \in Seq(HostEvents)
    <3>1. PICK k \in Nat, q \in Seq(HostEvents) : k = seen'[h] /\ q = log[h] /\ k <= Len(q)
      BY <1>0, <1>3 DEF TypeOK, WriterType
    <3> QED BY <3>1
  <2> QED BY <1>2, <2>1, ReplayType
<1>5. seen' \in [Streams -> Nat] /\ view' \in [Hosts -> HostStates \cup {None}]
  BY <1>0, <1>3, <1>4 DEF Poll, Route
<1>6. \A s \in Streams : seen'[s] <= Len(Complete(s)')
  <2> TAKE s \in Streams
  <2>1. Len(Complete(s)) \in Nat
    BY <1>1
  <2> QED BY <1>0, <2>1
<1> QED BY <1>0, <1>2, <1>5, <1>6 DEF ReadOK, TailerType

----------------------------------------------------------------------------
(* The budget of build.jsonl. *)
HasDone == \E i \in DOMAIN log["build"] : log["build"][i][1] = "done"

(* A record that is not terminal leaves the reserve untouched but for the notice. *)
LEMMA DetailFits ==
  ASSUME TypeOK, NEW e \in BuildEvents, NEW size \in Nat, EmitBuild(e, size, FALSE),
         bytes <= Detail + 1, ~truncated => bytes <= Detail
  PROVE  bytes' <= Detail + 1 /\ (~truncated' => bytes' <= Detail)
<1>1. /\ bytes \in Nat /\ truncated \in BOOLEAN /\ Detail \in Nat
      /\ Budget(FALSE) = Detail
  BY BudgetAssumption DEF TypeOK, WriterType, Detail, Budget
<1>2. CASE (truncated /\ ~FALSE) \/ bytes + size > Detail
  <2>1. truncated' = TRUE /\ (bytes' = bytes \/ (~truncated /\ bytes' = bytes + 1))
    BY <1>1, <1>2 DEF EmitBuild
  <2> QED BY <1>1, <2>1
<1>3. CASE ~((truncated /\ ~FALSE) \/ bytes + size > Detail)
  <2>1. bytes' = bytes + size
    BY <1>1, <1>3 DEF EmitBuild
  <2>2. bytes + size <= Detail
    BY <1>1, <1>3
  <2> QED BY <1>1, <2>1, <2>2
<1> QED BY <1>2, <1>3

(* The reserve has room for the final progress and the done record, whatever
   was written before them. *)
LEMMA TerminalFits ==
  ASSUME TypeOK, NEW e \in BuildEvents, EmitBuild(e, 1, TRUE), bytes <= Detail + 2
  PROVE  bytes' = bytes + 1 /\ log'["build"] = Append(log["build"], e)
<1>1. ~ (bytes + 1 > Budget(TRUE))
  BY BudgetAssumption DEF TypeOK, WriterType, Detail, Budget
<1>2. log' = [log EXCEPT !["build"] = Append(@, e)] /\ bytes' = bytes + 1
  BY <1>1 DEF EmitBuild
<1> QED BY <1>2 DEF TypeOK, WriterType, Streams

(* Streams are only appended to. *)
LEMMA DoneKept ==
  ASSUME TypeOK, TypeOK', HasDone, Written
  PROVE  HasDone'
<1>0. "build" \in Streams
  BY DEF Streams
<1>1. CASE log'["build"] = log["build"]
  BY <1>1 DEF HasDone
<1>2. ASSUME NEW x, log'["build"] = Append(log["build"], x)
      PROVE  HasDone'
  <2>1. PICK q \in Seq(BuildEvents \cup {x}) : q = log["build"]
    <3>1. PICK q \in Seq(BuildEvents) : q = log["build"]
      BY DEF TypeOK, WriterType
    <3>2. \A i \in 1..Len(q) : q[i] \in BuildEvents \cup {x}
      OBVIOUS
    <3> QED BY <3>1, <3>2
  <2>2. x \in BuildEvents \cup {x}
    OBVIOUS
  <2>3. PICK n \in Nat : n = Len(q) /\ DOMAIN q = 1..n
    OBVIOUS
  <2>4. DOMAIN Append(q, x) = 1..(n + 1) /\ \A i \in 1..n : Append(q, x)[i] = q[i]
    BY <2>2, <2>3
  <2>5. PICK i \in 1..n : q[i][1] = "done"
    BY <2>1, <2>3 DEF HasDone
  <2>6. i \in 1..(n + 1) /\ log'["build"][i] = q[i]
    BY <1>2, <2>1, <2>3, <2>4
  <2> QED BY <1>2, <2>1, <2>4, <2>5, <2>6 DEF HasDone
<1> QED BY <1>0, <1>1, <1>2 DEF Written

(* The done record of the build is in the stream once it was written. *)
LEMMA DoneWritten ==
  ASSUME TypeOK, NEW rc \in Rcs, log'["build"] = Append(log["build"], <<"done", rc>>)
  PROVE  HasDone'
<1>1. PICK q \in Seq(BuildEvents) : q = log["build"]
  BY DEF TypeOK, WriterType
<1>5. <<"done", rc>> \in BuildEvents /\ <<"done", rc>>[1] = "done"
  BY DEF BuildEvents, Rcs
<1>2. PICK e \in BuildEvents : e = <<"done", rc>> /\ e[1] = "done"
  BY <1>5
<1>3. PICK n \in Nat : n = Len(q) /\ DOMAIN Append(q, e) = 1..(n + 1) /\ Append(q, e)[n + 1] = e
  OBVIOUS
<1>4. n + 1 \in DOMAIN log'["build"] /\ log'["build"][n + 1] = e
  BY <1>1, <1>2, <1>3
<1> QED BY <1>2, <1>4 DEF HasDone

(* The batch build keeps the budget, and ends with an rc in meta.json unless an
   I/O error ended it. *)
LEMMA BuildBudget ==
  ASSUME IInv, BuildStep, TypeOK'
  PROVE  BudgetOK'
<1>0. /\ TypeOK /\ MetaOK /\ Written /\ io \in Nat /\ bytes \in Nat /\ Detail \in Nat
      /\ pc \in BuildPhases \cup {"outcome", "final"} =>
           bytes <= Detail + 1 /\ (~truncated => bytes <= Detail)
      /\ pc = "done" => bytes <= Detail + 2
      /\ pc \in {"report", "record", "fanout"} => HasDone
  <2>1. TypeOK /\ MetaOK /\ BudgetOK
    BY DEF IInv
  <2>2. Written
    BY <2>1, BuildWrites
  <2>3. io \in Nat /\ bytes \in Nat
    BY <2>1, BoundsAssumption DEF TypeOK, RunType, WriterType
  <2>4. Detail \in Nat
    BY BudgetAssumption DEF Detail
  <2> QED BY <2>1, <2>2, <2>3, <2>4 DEF BudgetOK, HasDone
<1>c. pc \in BuildPhases => buildRc = None
  BY <1>0 DEF MetaOK
<1>m. /\ meta.rc' \in Rcs => meta.rc' # None
      /\ 0 \in Nat /\ 1 \in Nat /\ 1 \in Rcs /\ 127 \in Rcs /\ {1, 127} \subseteq Rcs
      /\ <<"start">> \in BuildEvents /\ <<"line">> \in BuildEvents /\ <<"progress">> \in BuildEvents
      /\ \A size \in 1..MaxSize : size \in Nat
  BY NoneAssumption, BoundsAssumption DEF Rcs, BuildEvents
<1>x. ASSUME NEW rc \in Rcs, NEW k \in Nat, RecordBuildFailure(rc, k), io' = 0
      PROVE  meta.rc' # None
  <2>1. meta'.rc = rc /\ rc # None
    BY <1>0, <1>x, RecordType, NoneAssumption DEF Rcs
  <2> QED BY <2>1
<1>y. ASSUME NEW rc \in Rcs, RecordBuildFailure(rc, 1)
      PROVE  io' # 0
  <2>1. io' = io + 1 \/ io' = io + 1 + 1
    BY <1>0, <1>m, <1>y, RecordType
  <2> QED BY <1>0, <2>1
<1>z. Io(1) => io' # 0
  BY <1>0 DEF Io
<1> HIDE DEF Detail
<1>1. CASE ResolveFails
  BY <1>0, <1>c, <1>m, <1>1, <1>x DEF ResolveFails, BudgetOK, ExitIsDurable, BuildPhases
<1>2. CASE ResolveProfiles
  BY <1>0, <1>2 DEF ResolveProfiles, BudgetOK, ExitIsDurable, BuildPhases, wvars
<1>3. CASE OpenBuildStream
  BY <1>0, <1>3, <1>z DEF OpenBuildStream, BudgetOK, ExitIsDurable, BuildPhases, wvars
<1>4. CASE BuildStart
  <2>1. CASE EmitBuild(<<"start">>, 1, FALSE) /\ pc' = "spawn"
    BY <1>0, <1>4, <1>m, <2>1, DetailFits DEF BuildStart, BudgetOK, ExitIsDurable, BuildPhases
  <2>2. CASE RecordBuildFailure(1, 1) /\ pc' = "exited"
    BY <1>y, <1>m, <2>2 DEF BudgetOK, ExitIsDurable, BuildPhases
  <2> QED BY <1>4, <2>1, <2>2 DEF BuildStart
<1>5. CASE SpawnFails
  <2>1. io' = 0 => meta.rc' # None
    BY <1>0, <1>m, <1>5, <1>x DEF SpawnFails
  <2> QED BY <1>c, <1>5, <2>1 DEF SpawnFails, BudgetOK, ExitIsDurable, BuildPhases
<1>6. CASE SpawnBuild
  BY <1>0, <1>6 DEF SpawnBuild, BudgetOK, ExitIsDurable, BuildPhases, wvars
<1>7. CASE NixLine
  <2>1. bytes' <= Detail + 1 /\ (~truncated' => bytes' <= Detail)
    <3>1. CASE \E size \in 1..MaxSize : EmitBuild(<<"line">>, size, FALSE)
      BY <1>0, <1>7, <1>m, <3>1, DetailFits DEF NixLine, BuildPhases
    <3>2. CASE bytes' = bytes /\ truncated' = truncated
      BY <1>0, <1>7, <3>2 DEF NixLine, BuildPhases
    <3> QED BY <1>7, <3>1, <3>2 DEF NixLine, wvars
  <2> QED BY <1>7, <2>1 DEF NixLine, BudgetOK, ExitIsDurable, BuildPhases
<1>8. CASE NixExits
  BY <1>0, <1>8, <1>z DEF NixExits, BudgetOK, ExitIsDurable, BuildPhases, wvars
<1>9. CASE BuildOutcome
  BY <1>0, <1>9 DEF BuildOutcome, BudgetOK, ExitIsDurable, BuildPhases, wvars
<1>10. CASE FinalProgress
  <2>1. CASE EmitBuild(<<"progress">>, 1, TRUE) /\ pc' = "done"
    <3>1. bytes <= Detail + 1 /\ bytes <= Detail + 2
      BY <1>0, <1>10 DEF FinalProgress
    <3>2. bytes' = bytes + 1
      BY <1>0, <1>m, <2>1, <3>1, TerminalFits
    <3>3. bytes' <= Detail + 2
      BY <1>0, <3>1, <3>2
    <3> QED BY <2>1, <3>3 DEF BudgetOK, ExitIsDurable, BuildPhases
  <2>2. CASE RecordBuildFailure(1, 1) /\ pc' = "exited"
    BY <1>y, <1>m, <2>2 DEF BudgetOK, ExitIsDurable, BuildPhases
  <2> QED BY <1>10, <2>1, <2>2 DEF FinalProgress, BuildTerminal
<1>11. CASE BuildDone
  <2>1. PICK rc \in Rcs : /\ rc = IF BuildEnds THEN EndRc ELSE buildRc
                          /\ BuildTerminal(<<"done", rc>>, "report")
    <3>1. buildRc # None
      BY <1>0, <1>11 DEF BuildDone, MetaOK, EndPhases
    <3>2. buildRc \in Rcs /\ EndRc \in Rcs
      BY <1>0, <3>1 DEF TypeOK, RunType, EndRc, Rcs
    <3> QED BY <1>11, <3>2 DEF BuildDone
  <2>2. <<"done", rc>> \in BuildEvents
    BY DEF BuildEvents, Rcs
  <2>3. CASE EmitBuild(<<"done", rc>>, 1, TRUE) /\ pc' = "report"
    <3>1. log'["build"] = Append(log["build"], <<"done", rc>>)
      BY <1>0, <1>11, <2>2, <2>3, TerminalFits DEF BuildDone
    <3>2. HasDone'
      BY <1>0, <3>1, DoneWritten
    <3> QED BY <2>3, <3>2 DEF BudgetOK, ExitIsDurable, BuildPhases, HasDone
  <2>4. CASE RecordBuildFailure(1, 1) /\ pc' = "exited"
    BY <1>y, <1>m, <2>4 DEF BudgetOK, ExitIsDurable, BuildPhases
  <2> QED BY <2>1, <2>3, <2>4 DEF BuildTerminal
<1>12. CASE FailedDerivations
  <2>1. HasDone'
    BY <1>0, <1>12, DoneKept DEF FailedDerivations
  <2> QED BY <1>12, <1>z, <2>1 DEF FailedDerivations, BudgetOK, ExitIsDurable, BuildPhases, HasDone
<1>13. CASE RecordBuild
  <2>1. HasDone'
    BY <1>0, <1>13, DoneKept DEF RecordBuild
  <2>2. pc' = "exited" /\ io' = 0 => meta.rc' # None
    <3>1. buildRc # None
      BY <1>0, <1>13 DEF RecordBuild, MetaOK, EndPhases
    <3>2. EndRc \in Rcs
      BY <1>0, <3>1 DEF TypeOK, RunType, EndRc, Rcs
    <3>3. RecordBuildFailure(EndRc, 0) /\ io' = 0 => meta.rc' # None
      BY <1>m, <1>x, <3>2
    <3> QED BY <1>13, <1>z, <3>3 DEF RecordBuild
  <2> QED BY <1>13, <2>1, <2>2 DEF RecordBuild, BudgetOK, ExitIsDurable, BuildPhases, HasDone
<1> QED BY <1>1, <1>2, <1>3, <1>4, <1>5, <1>6, <1>7, <1>8, <1>9, <1>10, <1>11, <1>12, <1>13 DEF BuildStep

----------------------------------------------------------------------------
(* The invariant, step by step. *)

(* The invariant holds when the engine has registered. *)
LEMMA InitInvariant == Init => IInv
<1> SUFFICES ASSUME Init PROVE IInv
  OBVIOUS
<1>0. Hosts \subseteq Streams /\ "build" \in Streams
  BY DEF Streams
<1>1. TypeOK
  <2>1. RunType
    <3>1. 0 \in 0..MaxIo /\ 0 \in 0..MaxLines
      BY BoundsAssumption
    <3>2. /\ plan \in Plans /\ pc = "resolve" /\ buildRc = None /\ event_error = FALSE /\ lines = 0
          /\ realised = {} /\ paths = {} /\ failures = {} /\ io = 0
      BY DEF Init
    <3> QED BY <3>1, <3>2 DEF RunType, BuildPhases
  <2>2. MetaType
    BY DEF Init, MetaType
  <2>3. WriterType
    <3>1. log = [s \in Streams |-> <<>>] /\ partial = None /\ bytes = 0 /\ truncated = FALSE
      BY DEF Init
    <3>2. log = [s \in Streams |-> log[s]] /\ \A s \in Streams : log[s] = <<>>
      BY <3>1
    <3>3. <<>> \in Seq(BuildEvents) /\ <<>> \in Seq(HostEvents)
      OBVIOUS
    <3> QED BY <1>0, <3>1, <3>2, <3>3 DEF WriterType
  <2>4. TaskType
    BY DEF Init, TaskType, Stages
  <2>5. TailerType
    BY DEF Init, TailerType
  <2> QED BY <2>1, <2>2, <2>3, <2>4, <2>5 DEF TypeOK
<1>2. \A h \in Hosts : StageOK(h)
  BY <1>0, ReplayNil DEF Init, StageOK, Terminal
<1>3. ReadOK
  BY <1>0, NoneAssumption DEF Init, ReadOK, Complete
<1>4. MetaOK
  BY DEF Init, MetaOK, BuildPhases, EndPhases
<1>5. BudgetOK
  BY BudgetAssumption DEF Init, BudgetOK, ExitIsDurable, Detail
<1> QED BY <1>1, <1>2, <1>3, <1>4, <1>5 DEF IInv

(* What the batch build does to meta.json. *)
LEMMA BuildMeta ==
  ASSUME IInv, BuildStep
  PROVE  /\ MetaOK'
         /\ UNCHANGED outcome /\ UNCHANGED result
         /\ \/ UNCHANGED task
            \/ /\ task' \in [Hosts -> {"abnormal", "queued"}]
               /\ \A h \in Hosts : task[h] = "none"
<1>0. /\ TypeOK /\ MetaOK /\ 1 \in Rcs /\ 127 \in Rcs /\ 0 \in Nat /\ 1 \in Nat
      /\ pc \in BuildPhases \cup EndPhases
  BY BuildWrites DEF IInv, Rcs
<1>1. \A rc \in Rcs, k \in Nat : RecordBuildFailure(rc, k) => meta'.summary = meta.summary
  BY <1>0, RecordType
<1>2. meta.rc = None /\ meta.summary = None
  BY <1>0 DEF MetaOK
<1>3. ASSUME NEW e, NEW next \in {"done", "report"}, BuildTerminal(e, next), pc \in {"final", "done"}
      PROVE  MetaOK' /\ UNCHANGED hvars
  <2>1. CASE pc' = next /\ UNCHANGED meta
    BY <1>0, <1>2, <1>3, <2>1 DEF BuildTerminal, MetaOK, BuildPhases, EndPhases, hvars
  <2>2. CASE RecordBuildFailure(1, 1) /\ pc' = "exited"
    BY <1>0, <1>1, <1>2, <1>3, <2>2 DEF BuildTerminal, MetaOK, BuildPhases, EndPhases, hvars
  <2> QED BY <1>3, <2>1, <2>2 DEF BuildTerminal
<1>4. CASE ResolveFails
  BY <1>0, <1>1, <1>2, <1>4 DEF ResolveFails, MetaOK, BuildPhases, EndPhases, hvars
<1>5. CASE ResolveProfiles
  BY <1>0, <1>5 DEF ResolveProfiles, MetaOK, BuildPhases, EndPhases, hvars
<1>6. CASE OpenBuildStream
  BY <1>0, <1>2, <1>6 DEF OpenBuildStream, MetaOK, BuildPhases, EndPhases, hvars
<1>7. CASE BuildStart
  <2>1. CASE pc' = "spawn" /\ UNCHANGED meta
    BY <1>0, <1>7, <2>1 DEF BuildStart, MetaOK, BuildPhases, EndPhases, hvars
  <2>2. CASE RecordBuildFailure(1, 1) /\ pc' = "exited"
    BY <1>0, <1>1, <1>2, <1>7, <2>2 DEF BuildStart, MetaOK, BuildPhases, EndPhases, hvars
  <2> QED BY <1>7, <2>1, <2>2 DEF BuildStart
<1>8. CASE SpawnFails
  BY <1>0, <1>1, <1>2, <1>8 DEF SpawnFails, MetaOK, BuildPhases, EndPhases, hvars
<1>9. CASE SpawnBuild
  BY <1>0, <1>9 DEF SpawnBuild, MetaOK, BuildPhases, EndPhases, hvars
<1>10. CASE NixLine
  BY <1>0, <1>2, <1>10 DEF NixLine, MetaOK, BuildPhases, EndPhases, hvars
<1>11. CASE NixExits
  BY <1>0, <1>2, <1>11, NoneAssumption DEF NixExits, MetaOK, BuildPhases, EndPhases, hvars
<1>12. CASE BuildOutcome
  BY <1>0, <1>2, <1>12 DEF BuildOutcome, MetaOK, BuildPhases, EndPhases, hvars
<1>13. CASE FinalProgress \/ BuildDone
  BY <1>3, <1>13 DEF FinalProgress, BuildDone, hvars
<1>14. CASE FailedDerivations
  BY <1>0, <1>2, <1>14 DEF FailedDerivations, MetaOK, BuildPhases, EndPhases, hvars
<1>15. CASE RecordBuild
  <2>0. buildRc \in Rcs /\ EndRc \in Rcs /\ \A h \in Hosts : task[h] = "none"
    BY <1>0, <1>15 DEF RecordBuild, MetaOK, TypeOK, RunType, EndRc, Rcs, EndPhases, BuildPhases
  <2>1. CASE /\ pc' = "fanout" /\ meta' = [meta EXCEPT !.build_rc = buildRc]
             /\ task' = [h \in Hosts |-> IF h \in failures THEN "abnormal" ELSE "queued"]
    <3>1. meta'.build_rc = buildRc /\ meta'.rc = None /\ meta'.summary = None
      BY <1>0, <1>2, <2>1 DEF TypeOK, MetaType
    <3>2. task' \in [Hosts -> {"abnormal", "queued"}]
      BY <2>1
    <3>3. \A h \in Hosts : task'[h] # "none"
      BY <3>2
    <3>4. buildRc' # None
      BY <1>0, <1>15 DEF RecordBuild, MetaOK, EndPhases
    <3> QED BY <1>15, <2>0, <2>1, <3>1, <3>2, <3>3, <3>4
              DEF RecordBuild, MetaOK, BuildPhases, EndPhases
  <2>2. CASE pc' = "exited" /\ UNCHANGED <<meta, task>>
    BY <1>2, <1>15, <2>2 DEF RecordBuild, MetaOK, BuildPhases, EndPhases
  <2>3. CASE RecordBuildFailure(EndRc, 0) /\ pc' = "exited" /\ UNCHANGED task
    BY <1>0, <1>1, <1>2, <1>15, <2>0, <2>3 DEF RecordBuild, MetaOK, BuildPhases, EndPhases
  <2> QED BY <1>15, <2>1, <2>2, <2>3 DEF RecordBuild
<1> QED BY <1>4, <1>5, <1>6, <1>7, <1>8, <1>9, <1>10, <1>11, <1>12, <1>13, <1>14, <1>15
        DEF BuildStep, hvars

(* The batch build keeps the invariant. *)
LEMMA BuildInvariant ==
  ASSUME IInv, BuildStep
  PROVE  IInv'
<1>0. TypeOK /\ MetaOK /\ ReadOK /\ \A h \in Hosts : StageOK(h)
  BY DEF IInv
<1>1. TypeOK' /\ \A h \in Hosts : log'[h] = log[h]
  BY <1>0, BuildTypes
<1>2. \A h \in Hosts : StageOK(h)'
  <2> TAKE h \in Hosts
  <2>1. CASE UNCHANGED task
    BY <1>0, <1>1, <2>1, BuildMeta DEF StageOK
  <2>2. CASE task[h] = "none" /\ task'[h] \in {"abnormal", "queued"}
    <3>1. log'[h] = <<>> /\ Replay(log'[h]) = "pending" /\ result'[h] = None
      BY <1>0, <1>1, <2>2, BuildMeta, ReplayNil DEF StageOK
    <3> QED BY <2>2, <3>1 DEF StageOK, Terminal
  <2> QED BY <2>1, <2>2, BuildMeta
<1>3. ReadOK'
  BY <1>0, BuildWrites, ReadKept
<1> QED BY <1>1, <1>2, <1>3, BuildMeta, BuildBudget DEF IInv

(* A step of a host's task, or its panic, keeps it. *)
LEMMA HostInvariant ==
  ASSUME IInv, NEW h \in Hosts, HostStep(h) \/ Panic(h)
  PROVE  IInv'
<1>0. TypeOK /\ MetaOK /\ ReadOK /\ BudgetOK /\ \A w \in Hosts : StageOK(w)
  BY DEF IInv
<1>1. HostEffect(h) /\ io' \in 0..MaxIo /\ UNCHANGED meta /\ UNCHANGED evars /\ UNCHANGED tvars
  BY <1>0, HostSteps DEF HostUnchanged
<1>2. Written /\ pc = "fanout" /\ partial = None
  BY <1>0, <1>1, HostWrites DEF HostEffect, FanningOut, Running
<1>3. TypeOK'
  BY <1>0, <1>1 DEF HostEffect, TypeOK, RunType, MetaType, TailerType, evars, tvars
<1>4. \A w \in Hosts : StageOK(w)'
  <2> TAKE w \in Hosts
  <2>1. CASE w = h
    BY <1>1, <2>1 DEF HostEffect
  <2>2. CASE w # h
    <3>1. task'[w] = task[w] /\ outcome'[w] = outcome[w] /\ result'[w] = result[w] /\ log'[w] = log[w]
      BY <1>1, <2>2 DEF HostEffect
    <3> QED BY <1>0, <3>1 DEF StageOK
  <2> QED BY <2>1, <2>2
<1>5. ReadOK'
  BY <1>0, <1>1, <1>2, ReadKept
<1>6. MetaOK'
  <2>1. meta' = meta /\ buildRc' = buildRc /\ pc' = "fanout" /\ meta.summary = None /\ meta.rc = None
    BY <1>0, <1>1, <1>2 DEF evars, MetaOK, EndPhases
  <2>2. \A w \in Hosts : task'[w] # "none"
    BY <1>0, <1>1, <1>2 DEF HostEffect, MetaOK
  <2> QED BY <1>0, <1>2, <2>1, <2>2 DEF MetaOK, BuildPhases, EndPhases
<1>7. BudgetOK'
  <2>1. HasDone'
    BY <1>0, <1>2, <1>3, DoneKept DEF BudgetOK, HasDone
  <2> QED BY <1>1, <1>2, <2>1 DEF evars, BudgetOK, ExitIsDurable, HasDone, BuildPhases
<1> QED BY <1>3, <1>4, <1>5, <1>6, <1>7 DEF IInv

(* Settling the fan-out keeps it: the summary and the rc are those of the tasks
   just joined. *)
LEMMA SettleInvariant ==
  ASSUME IInv, Settle
  PROVE  IInv'
<1>0. TypeOK /\ MetaOK /\ ReadOK /\ BudgetOK /\ \A w \in Hosts : StageOK(w)
  BY DEF IInv
<1>1. /\ pc = "fanout" /\ pc' = "exited" /\ partial = None /\ UNCHANGED hvars /\ UNCHANGED wvars
      /\ UNCHANGED tvars /\ UNCHANGED <<plan, buildRc, event_error, lines, realised, paths, failures>>
      /\ \A h \in Hosts : task[h] = "joined"
  BY DEF Settle, FanningOut, Running
<1>2. SettledRc \in {0, 1} /\ {0, 1} \subseteq Rcs /\ None \notin Rcs
  BY NoneAssumption DEF SettledRc, Rcs
<1>3. \/ Io(0) /\ meta' = [meta EXCEPT !.rc = SettledRc, !.summary = result]
      \/ Io(1) /\ meta' = [meta EXCEPT !.rc = 1]
      \/ Io(2) /\ UNCHANGED meta
  BY DEF Settle
<1>4. io' \in 0..MaxIo /\ io \in Nat
  <2>1. 0 \in Nat /\ 1 \in Nat /\ 2 \in Nat
    OBVIOUS
  <2> QED BY <1>0, <1>3, <2>1, IoType, BoundsAssumption DEF TypeOK, RunType
<1>5. MetaType'
  BY <1>0, <1>2, <1>3 DEF TypeOK, MetaType, TaskType
<1>6. TypeOK'
  BY <1>0, <1>1, <1>4, <1>5, NoRecordType DEF TypeOK, RunType, TaskType, TailerType, hvars, tvars
<1>7. \A h \in Hosts : StageOK(h)'
  BY <1>0, <1>1 DEF StageOK, hvars, wvars
<1>8. ReadOK'
  <2>1. Written
    BY <1>1 DEF Written, wvars
  <2> QED BY <1>0, <1>1, <2>1, ReadKept
<1>9. MetaOK'
  <2>1. meta.summary = None /\ meta.build_rc = buildRc
    BY <1>0, <1>1 DEF MetaOK, EndPhases
  <2>2. CASE meta' = [meta EXCEPT !.rc = SettledRc, !.summary = result]
    <3>1. meta'.rc = SettledRc /\ meta'.build_rc = meta.build_rc
      BY <1>0, <2>2 DEF TypeOK, MetaType
    <3>2. SettledRc' = SettledRc
      BY <1>1, <3>1 DEF SettledRc, hvars
    <3> QED BY <1>1, <2>1, <3>1, <3>2 DEF MetaOK, hvars, wvars, BuildPhases, EndPhases
  <2>3. CASE meta' = [meta EXCEPT !.rc = 1] \/ UNCHANGED meta
    <3>1. meta'.summary = None
      BY <1>0, <2>1, <2>3 DEF TypeOK, MetaType
    <3> QED BY <1>1, <3>1 DEF MetaOK, BuildPhases, EndPhases
  <2> QED BY <1>3, <2>2, <2>3
<1>10. BudgetOK'
  <2>1. io' = 0 => meta'.rc # None
    <3>1. CASE meta' = [meta EXCEPT !.rc = SettledRc, !.summary = result]
      BY <1>0, <1>2, <3>1 DEF TypeOK, MetaType
    <3>2. CASE Io(1) \/ Io(2)
      BY <1>4, <3>2 DEF Io
    <3> QED BY <1>3, <3>1, <3>2
  <2> QED BY <1>0, <1>1, <2>1 DEF BudgetOK, ExitIsDurable, BuildPhases, wvars
<1> QED BY <1>6, <1>7, <1>8, <1>9, <1>10 DEF IInv

(* The newline of a record, the end of the engine inside a record, and a poll
   change no record. *)
LEMMA FlushInvariant ==
  ASSUME IInv, Flush
  PROVE  IInv'
<1>0. TypeOK /\ MetaOK /\ ReadOK /\ BudgetOK /\ \A w \in Hosts : StageOK(w)
  BY DEF IInv
<1>1. /\ partial # None /\ partial' = None /\ UNCHANGED <<log, bytes, truncated, meta, io>>
      /\ UNCHANGED evars /\ UNCHANGED hvars /\ UNCHANGED tvars
  BY DEF Flush
<1>2. TypeOK'
  BY <1>0, <1>1 DEF TypeOK, RunType, MetaType, WriterType, TaskType, TailerType, evars, hvars, tvars
<1>3. \A h \in Hosts : StageOK(h)'
  BY <1>0, <1>1 DEF StageOK, hvars
<1>4. ReadOK'
  <2>1. \A s \in Streams : Complete(s)' = log[s]
    BY <1>1, NoneAssumption DEF Complete
  <2>2. ASSUME NEW s \in Streams PROVE seen[s] <= Len(log[s])
    <3>0. PICK q \in Seq(HostEvents \cup BuildEvents) : q = log[s]
      BY <1>0, StreamType
    <3>1. seen[s] \in Nat /\ seen[s] <= Len(Complete(s))
      BY <1>0 DEF ReadOK, TypeOK, TailerType
    <3>2. CASE partial = s
      <4>1. q # <<>> /\ Complete(s) = SubSeq(q, 1, Len(q) - 1)
        BY <1>0, <1>1, <3>0, <3>2 DEF ReadOK, Complete, Front
      <4>2. PICK n \in Nat : n = Len(q) /\ n # 0
        BY <4>1
      <4>3. n - 1 \in 0..n /\ Len(SubSeq(q, 1, n - 1)) = n - 1
        BY <4>2
      <4> QED BY <3>0, <3>1, <4>1, <4>2, <4>3
    <3>3. CASE partial # s
      BY <3>1, <3>3 DEF Complete
    <3> QED BY <3>2, <3>3
  <2> QED BY <1>0, <1>1, <2>1, <2>2 DEF ReadOK, tvars
<1>5. MetaOK'
  <2>1. SettledRc' = SettledRc
    BY <1>1 DEF SettledRc, hvars
  <2> QED BY <1>0, <1>1, <2>1 DEF MetaOK, evars, hvars
<1>6. BudgetOK'
  BY <1>0, <1>1 DEF BudgetOK, ExitIsDurable, evars
<1> QED BY <1>2, <1>3, <1>4, <1>5, <1>6 DEF IInv

(* A kill in the middle of a record keeps it. *)
LEMMA KillInvariant ==
  ASSUME IInv, KillMidRecord
  PROVE  IInv'
<1>0. TypeOK /\ MetaOK /\ ReadOK /\ BudgetOK /\ \A w \in Hosts : StageOK(w)
  BY DEF IInv
<1>1. /\ pc # "exited" /\ pc' = "killed" /\ UNCHANGED <<meta, io>>
      /\ UNCHANGED <<plan, buildRc, event_error, lines, realised, paths, failures>>
      /\ UNCHANGED hvars /\ UNCHANGED wvars /\ UNCHANGED tvars
  BY DEF KillMidRecord
<1>2. TypeOK'
  BY <1>0, <1>1, NoRecordType DEF TypeOK, RunType, MetaType, TaskType, TailerType, hvars, tvars
<1>3. \A h \in Hosts : StageOK(h)'
  BY <1>0, <1>1 DEF StageOK, hvars, wvars
<1>4. ReadOK'
  BY <1>0, <1>1 DEF ReadOK, Complete, tvars, wvars
<1>5. MetaOK'
  BY <1>0, <1>1 DEF MetaOK, BuildPhases, EndPhases
<1>6. BudgetOK'
  BY <1>1 DEF BudgetOK, ExitIsDurable, BuildPhases
<1> QED BY <1>2, <1>3, <1>4, <1>5, <1>6 DEF IInv

(* A poll of the tailers keeps it: each reads the complete records and no more. *)
LEMMA PollInvariant ==
  ASSUME IInv, Poll
  PROVE  IInv'
<1>0. TypeOK /\ MetaOK /\ ReadOK /\ BudgetOK /\ \A w \in Hosts : StageOK(w)
  BY DEF IInv
<1>1. UNCHANGED <<meta, io>> /\ UNCHANGED evars /\ UNCHANGED hvars /\ UNCHANGED wvars
  BY DEF Poll
<1>2. TypeOK'
  BY <1>0, <1>1, PollReads, NoRecordType DEF TypeOK, RunType, MetaType, TaskType, evars, hvars
<1>3. \A h \in Hosts : StageOK(h)'
  BY <1>0, <1>1 DEF StageOK, hvars, wvars
<1>4. MetaOK'
  <2>1. SettledRc' = SettledRc
    BY <1>1 DEF SettledRc, hvars
  <2> QED BY <1>0, <1>1, <2>1 DEF MetaOK, evars, hvars, wvars
<1>5. BudgetOK'
  BY <1>0, <1>1 DEF BudgetOK, ExitIsDurable, evars, wvars
<1> QED BY <1>0, <1>2, <1>3, <1>4, <1>5, PollReads DEF IInv

(* Nothing but the variables matters. *)
LEMMA StutterInvariant == IInv /\ UNCHANGED vars => IInv'
<1> SUFFICES ASSUME IInv, UNCHANGED vars PROVE IInv'
  OBVIOUS
<1>1. TypeOK'
  BY DEF IInv, TypeOK, RunType, MetaType, WriterType, TaskType, TailerType, vars
<1>2. \A h \in Hosts : StageOK(h)'
  BY DEF IInv, StageOK, vars
<1>3. ReadOK'
  BY DEF IInv, ReadOK, Complete, vars
<1>4. MetaOK'
  <2>1. SettledRc' = SettledRc
    BY DEF SettledRc, vars
  <2> QED BY <2>1 DEF IInv, MetaOK, vars
<1>5. BudgetOK'
  BY DEF IInv, BudgetOK, ExitIsDurable, vars
<1> QED BY <1>1, <1>2, <1>3, <1>4, <1>5 DEF IInv

(* So does every step. *)
LEMMA NextInvariant == IInv /\ [Next]_vars => IInv'
BY BuildInvariant, HostInvariant, SettleInvariant, FlushInvariant, KillInvariant, PollInvariant,
   StutterInvariant DEF Next

(* The invariant holds of every behaviour of the engine. *)
LEMMA Inductive == Spec => []IInv
BY InitInvariant, NextInvariant, PTL DEF Spec

(* The state of the engine, its streams and its reader keep their types. *)
THEOREM EngineTypes == Spec => []TypeOK
<1>1. IInv => TypeOK
  BY DEF IInv
<1> QED BY <1>1, Inductive, PTL

(* What a drained reader knows of a joined host. *)
LEMMA DrainedKnows == IInv => StreamMatchesResult
<1> SUFFICES ASSUME IInv, Drained, NEW h \in Hosts, task[h] = "joined", partial # h
             PROVE  /\ result[h] # "failed" => view[h] = result[h]
                    /\ view[h] \in Unsuccessful => result[h] \in Unsuccessful
  BY DEF StreamMatchesResult
<1>1. PICK q \in Seq(HostEvents) : q = log[h]
  BY DEF IInv, TypeOK, WriterType
<1>2. Complete(h) = q /\ seen[h] = Len(q)
  BY <1>1 DEF Complete, Drained, Streams
<1>3. view[h] = IF seen[h] = 0 THEN None ELSE Replay(SubSeq(q, 1, seen[h]))
  BY <1>1 DEF IInv, ReadOK
<1>4. SubSeq(q, 1, Len(q)) = q /\ (q # <<>> => Len(q) # 0)
  OBVIOUS
<1>5. result[h] = "failed" \/ (q # <<>> /\ result[h] = Replay(q))
  BY <1>1 DEF IInv, StageOK
<1> QED BY <1>2, <1>3, <1>4, <1>5 DEF Unsuccessful

(* A reader that has drained the streams shows a joined host what its task
   returned: a success and a rollback always, and a host shown as failed never
   ended well (host_result and abnormal_host of engines/deploy.rs against
   HostRun::feed of runner.rs). *)
THEOREM StreamsMatchResults == Spec => []StreamMatchesResult
BY DrainedKnows, Inductive, PTL

(* The verdict of a frontend on a settled run it has read to the end is the one
   the engine's results give (ObservedRun::liveness of registry.rs against
   settle_fan_out of engines/deploy.rs). *)
THEOREM FinishedRunsAreTrue == Spec => []FinishedIsTrue
<1>1. IInv => FinishedIsTrue
  <2> SUFFICES ASSUME IInv, pc = "exited", meta.summary # None, Drained
               PROVE  Verdict = "finished" <=>
                        buildRc = 0 /\ \A h \in Hosts : result[h] \in {"confirmed", "reboot-pending"}
    BY DEF FinishedIsTrue
  <2>1. /\ partial = None /\ meta.build_rc = buildRc /\ meta.rc = SettledRc /\ SettledRc \in {0, 1}
        /\ \A h \in Hosts : task[h] = "joined"
    BY DEF IInv, MetaOK, SettledRc
  <2>2. \A h \in Hosts : /\ result[h] # "failed" => view[h] = result[h]
                         /\ view[h] \in Unsuccessful => result[h] \in Unsuccessful
                         /\ result[h] \in Terminal
    <3> TAKE h \in Hosts
    <3>1. partial # h
      BY <2>1, NoneAssumption DEF Streams
    <3>2. result[h] \in Terminal
      BY <2>1 DEF IInv, StageOK, Terminal
    <3> QED BY <2>1, <3>1, <3>2, DrainedKnows DEF StreamMatchesResult
  <2>3. ASSUME Verdict = "finished"
        PROVE  buildRc = 0 /\ \A h \in Hosts : result[h] \in {"confirmed", "reboot-pending"}
    <3>1. meta.rc = 0
      BY <2>1, <2>3, NoneAssumption DEF Verdict
    <3> QED BY <2>1, <2>2, <3>1 DEF SettledRc, Unsuccessful, Terminal
  <2>4. ASSUME buildRc = 0, \A h \in Hosts : result[h] \in {"confirmed", "reboot-pending"}
        PROVE  Verdict = "finished"
    <3>1. meta.rc = 0 /\ meta.rc # None
      BY <2>1, <2>4, NoneAssumption DEF SettledRc, Unsuccessful
    <3>2. \A h \in Hosts : view[h] \notin Unsuccessful
      BY <2>2, <2>4 DEF Unsuccessful
    <3> QED BY <3>1, <3>2 DEF Verdict, Judged, Unsuccessful
  <2> QED BY <2>3, <2>4
<1> QED BY <1>1, Inductive, PTL

(* Without an I/O error the rc and the done record of the build outlive the
   engine, whatever the volume of nix's output and wherever its last line fell
   against the budget (EventWriter of runner.rs, build_profiles_with and
   settle_fan_out of engines/deploy.rs). *)
THEOREM ExitsAreDurable == Spec => []ExitIsDurable
<1>1. IInv => ExitIsDurable
  BY DEF IInv, BudgetOK
<1> QED BY <1>1, Inductive, PTL

============================================================================
