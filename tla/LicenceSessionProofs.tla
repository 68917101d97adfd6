------------------------- MODULE LicenceSessionProofs -------------------------
(* Proofs about LicenceSession, for any number of tasks and sessions: the    *)
(* types, access by indexed licences only, local success for the own upgrade *)
(* only, the mirror of the pending operation, and never two transactions     *)
(* without a known outcome.                                                  *)
(*                                                                           *)
(* Between two awaits a task carries a session c and its own state w through *)
(* several operators.  The invariant is therefore a statement about one      *)
(* session (Good) and one task (TaskGood); each operator hands a good        *)
(* session on, and what it does to the state is Moved.                       *)
EXTENDS LicenceSession, TLAPS

(* A session between any two assignments of the code (Sound), one that may    *)
(* wait for a transaction (Open), one that may wait at an await (Good).       *)
Sound(c) ==
    /\ c \in Session
    /\ c.projection # NoLicence => c.projection \in indexed
    /\ c.success # None => IsUpgrade(c.success) /\ c.success.id \in indexed
    /\ c.bound /\ c.pendId # 0 => \E r \in c.mirror : r.id = c.pendId
Open(c) == c.bound /\ c.waiting # {} =>
    /\ \A i, j \in c.waiting : i = j
    /\ c.mirror # {}
    /\ c.projection # NoLicence => c.pendId # 0
Good(c) == /\ Sound(c) /\ Open(c)
           /\ c.phase = "entitlementReady" =>
                /\ c.projection # NoLicence
                /\ c.bound /\ c.waiting # {} => IsUpgrade(c.pendRec)

(* The task as the operators take it, and as it waits. *)
Context(w) == /\ w \in Task /\ w.s \in Sessions
              /\ w.seen # NoLicence => w.seen \in indexed
TaskGood(w) == /\ w \in Task
               /\ w.seen # NoLicence => w.seen \in indexed
               /\ w.at \notin {"idle", "timer"} => w.s \in Sessions
               /\ w.at \in {"persist", "submit", "write"} => w.rec \in Pending
               /\ w.at \in {"persist", "submit"} /\ w.then = "review" => ~IsUpgrade(w.rec)
               /\ w.at = "hydrate" => w.then = "flush"
(* What a review retires was not waited for any more.                        *)
Reviewable(c, w) == w.then = "review" /\ Ready(c) => c.waiting = {}

(* A session is bound only when its hydration ends, and until then it has no *)
(* pending operation and no other task works on it.                          *)
HydrationInv == \A t \in Tasks : task[t].at = "hydrate" =>
    /\ ~sess[task[t].s].bound /\ sess[task[t].s].pendId = 0
    /\ sess[task[t].s].waiting = {}
    /\ \A u \in Tasks \ {t} : task[u].s # task[t].s

IInv == /\ TypeOK /\ HydrationInv
        /\ index # NoLicence => index \in indexed
        /\ \A s \in Sessions : Good(sess[s])
        /\ \A t \in Tasks : TaskGood(task[t])

(* What task t does to the worker's state in session s. *)
Moved(t, s) ==
    /\ \E d : Good(d) /\ sess' = [sess EXCEPT ![s] = d]
    /\ DOMAIN task' = Tasks
    /\ task' = [u \in Tasks |-> task'[u]]
    /\ \A u \in Tasks \ {t} : task'[u] \in {task[u], Idle}
    /\ \/ task'[t] \in {Idle, Chain}
       \/ TaskGood(task'[t]) /\ task'[t].s = s /\ task'[t].at # "hydrate"
    /\ authenticated' \in BOOLEAN /\ current' \in {current, NoSession}
    /\ loop' \in SUBSET Tasks

-----------------------------------------------------------------------------
(* Records.                                                                  *)

\* A session object as it is created, or as it is after its last task.
LEMMA NewSessionGood == Good(NewSession)
<1>1. NewSession \in Session
  BY LicenceAssumption DEF NewSession, Session, Phases, Ref, None, NoLicence
<1> QED BY <1>1 DEF Good, Sound, Open, NewSession, NoLicence, None

\* A task that ends, and a chain that waits on its timer.
LEMMA IdleGood ==
  /\ TaskGood(Idle) /\ Idle.s = NoSession /\ Idle.at = "idle"
  /\ TaskGood(Chain) /\ Chain.s = NoSession /\ Chain.at = "timer"
<1>1. 0 \in 0 .. MaxTx + 1 /\ 0 \in 0 .. MaxSessions
  BY LicenceAssumption
<1>2. /\ Idle \in Task /\ Idle.s = NoSession /\ Idle.at = "idle"
      /\ Idle.seen = NoLicence
  BY <1>1 DEF Idle, Task, Kinds, Points, Ref, NoLicence, NoSession
<1>3. /\ Chain \in Task /\ Chain.s = NoSession /\ Chain.at = "timer"
      /\ Chain.seen = NoLicence
  BY <1>2 DEF Chain, Task, Kinds, Points
<1> QED BY <1>2, <1>3 DEF TaskGood

\* Changes of a session that keep it sound.
LEMMA UpdatesSound ==
  ASSUME NEW c, Sound(c)
  PROVE  /\ \A b \in BOOLEAN : Sound([c EXCEPT !.inFlight = b])
         /\ \A b \in BOOLEAN : Sound([c EXCEPT !.healthy = b])
         /\ \A b \in BOOLEAN : Sound([c EXCEPT !.reachable = b])
         /\ \A b \in BOOLEAN : Sound([c EXCEPT !.refreshOnly = b])
         /\ \A p \in Phases : Sound([c EXCEPT !.phase = p])
         /\ \A r \in Pending : Sound([c EXCEPT !.pendRec = r])
         /\ Sound([c EXCEPT !.projection = NoLicence])
         /\ Sound([c EXCEPT !.success = None])
<1>1. \A b \in BOOLEAN : Sound([c EXCEPT !.inFlight = b])
  BY DEF Sound, Session
<1>2. \A b \in BOOLEAN : Sound([c EXCEPT !.healthy = b])
  BY DEF Sound, Session
<1>3. \A b \in BOOLEAN : Sound([c EXCEPT !.reachable = b])
  BY DEF Sound, Session
<1>4. \A b \in BOOLEAN : Sound([c EXCEPT !.refreshOnly = b])
  BY DEF Sound, Session
<1>5. \A p \in Phases : Sound([c EXCEPT !.phase = p])
  BY DEF Sound, Session
<1>6. \A r \in Pending : Sound([c EXCEPT !.pendRec = r])
  BY DEF Sound, Session
<1>7. Sound([c EXCEPT !.projection = NoLicence])
  <2>1. NoLicence \in Ref
    BY LicenceAssumption DEF Ref, NoLicence
  <2> QED BY <2>1 DEF Sound, Session
<1>8. Sound([c EXCEPT !.success = None])
  BY DEF Sound, Session
<1> QED BY <1>1, <1>2, <1>3, <1>4, <1>5, <1>6, <1>7, <1>8

\* A session with the fields of a sound one, or with less in them, is sound.
LEMMA SoundFields ==
  ASSUME NEW c, Sound(c), NEW d \in Session,
         d.projection \in {c.projection, NoLicence}, d.success \in {c.success, None},
         \/ ~d.bound \/ d.pendId = 0
         \/ d.bound = c.bound /\ d.mirror = c.mirror /\ d.pendId = c.pendId
  PROVE  Sound(d)
BY DEF Sound

\* A session that still waits for what it waited for.
LEMMA OpenFields ==
  ASSUME NEW c, Open(c), NEW d, d.bound => c.bound, d.waiting = c.waiting,
         c.mirror \subseteq d.mirror,
         \/ d.projection = c.projection /\ d.pendId = c.pendId
         \/ d.projection = NoLicence \/ d.pendId # 0
  PROVE  Open(d)
BY DEF Open

\* Changes of a session that leave open what was open.
LEMMA UpdatesOpen ==
  ASSUME NEW c \in Session, Open(c)
  PROVE  /\ \A b \in BOOLEAN : Open([c EXCEPT !.inFlight = b])
         /\ \A b \in BOOLEAN : Open([c EXCEPT !.healthy = b])
         /\ \A b \in BOOLEAN : Open([c EXCEPT !.reachable = b])
         /\ \A b \in BOOLEAN : Open([c EXCEPT !.refreshOnly = b])
         /\ \A p \in Phases : Open([c EXCEPT !.phase = p])
         /\ Open([c EXCEPT !.success = None])
<1>1. \A b \in BOOLEAN : Open([c EXCEPT !.inFlight = b])
  BY DEF Open, Session
<1>2. \A b \in BOOLEAN : Open([c EXCEPT !.healthy = b])
  BY DEF Open, Session
<1>3. \A b \in BOOLEAN : Open([c EXCEPT !.reachable = b])
  BY DEF Open, Session
<1>4. \A b \in BOOLEAN : Open([c EXCEPT !.refreshOnly = b])
  BY DEF Open, Session
<1>5. \A p \in Phases : Open([c EXCEPT !.phase = p])
  BY DEF Open, Session
<1>6. Open([c EXCEPT !.success = None])
  BY DEF Open, Session
<1> QED BY <1>1, <1>2, <1>3, <1>4, <1>5, <1>6

\* Changes of a session that keep it good.
LEMMA UpdatesGood ==
  ASSUME NEW c, Good(c)
  PROVE  /\ \A b \in BOOLEAN : Good([c EXCEPT !.inFlight = b])
         /\ \A b \in BOOLEAN : Good([c EXCEPT !.healthy = b])
         /\ \A b \in BOOLEAN : Good([c EXCEPT !.reachable = b])
         /\ \A b \in BOOLEAN : Good([c EXCEPT !.refreshOnly = b])
         /\ \A p \in Phases \ {"entitlementReady"} : Good([c EXCEPT !.phase = p])
         /\ Good([c EXCEPT !.success = None])
<1> USE DEF Good
<1>1. c \in Session
  BY DEF Sound
<1> USE UpdatesSound, UpdatesOpen
<1>2. \A b \in BOOLEAN : Good([c EXCEPT !.inFlight = b])
  BY <1>1 DEF Session
<1>3. \A b \in BOOLEAN : Good([c EXCEPT !.healthy = b])
  BY <1>1 DEF Session
<1>4. \A b \in BOOLEAN : Good([c EXCEPT !.reachable = b])
  BY <1>1 DEF Session
<1>5. \A b \in BOOLEAN : Good([c EXCEPT !.refreshOnly = b])
  BY <1>1 DEF Session
<1>6. \A p \in Phases \ {"entitlementReady"} : Good([c EXCEPT !.phase = p])
  BY <1>1 DEF Session
<1>7. Good([c EXCEPT !.success = None])
  BY <1>1 DEF Session
<1> QED BY <1>2, <1>3, <1>4, <1>5, <1>6, <1>7

\* A session that leaves the ready phase.
LEMMA UnreadyGood ==
  ASSUME NEW c, Sound(c), Open(c), NEW p \in Phases \ {"entitlementReady"}
  PROVE  Good([c EXCEPT !.phase = p])
<1>1. c \in Session
  BY DEF Sound
<1>2. Sound([c EXCEPT !.phase = p]) /\ Open([c EXCEPT !.phase = p])
  BY <1>1, UpdatesSound, UpdatesOpen
<1>3. [c EXCEPT !.phase = p].phase = p
  BY <1>1 DEF Session
<1> QED BY <1>2, <1>3 DEF Good

\* A session that loses its projection and leaves the ready phase.
LEMMA GatedGood ==
  ASSUME NEW c, Good(c), NEW p \in Phases \ {"entitlementReady"}
  PROVE  Good([c EXCEPT !.phase = p, !.projection = NoLicence])
<1> DEFINE g == [c EXCEPT !.phase = p, !.projection = NoLicence]
<1>1. NoLicence \in Ref
  BY LicenceAssumption DEF Ref, NoLicence
<1>2. /\ g \in Session /\ g.phase = p
      /\ g.projection = NoLicence /\ g.success = c.success
      /\ g.bound = c.bound /\ g.mirror = c.mirror /\ g.pendId = c.pendId
      /\ g.waiting = c.waiting
  BY <1>1 DEF Good, Sound, Session
<1> HIDE DEF g
<1>3. Sound(g) /\ Open(g)
  BY <1>2, SoundFields, OpenFields DEF Good
<1> QED BY <1>2, <1>3 DEF Good, g

\* teardown keeps what the continuations read.
LEMMA TornDownGood ==
  ASSUME NEW c, Good(c) PROVE Good(TornDown(c))
<1>1. /\ TornDown(c) \in Session /\ TornDown(c).bound = FALSE
      /\ TornDown(c).phase = c.phase /\ TornDown(c).projection = c.projection
      /\ TornDown(c).success = c.success
  BY DEF Good, Sound, Session, TornDown
<1> QED BY <1>1, SoundFields DEF Good, Open

\* retirePending keeps what is not pending.
LEMMA RetiredSound ==
  ASSUME NEW c, Sound(c)
  PROVE  /\ Sound(Retired(c)) /\ Sound([Retired(c) EXCEPT !.success = None])
         /\ Retired(c) \in Session /\ Retired(c).phase = c.phase
         /\ Retired(c).projection = c.projection /\ Retired(c).pendId = 0
<1>1. 0 \in 0 .. MaxTx
  BY LicenceAssumption
<1>2. /\ Retired(c) \in Session /\ Retired(c).phase = c.phase
      /\ Retired(c).projection = c.projection /\ Retired(c).pendId = 0
      /\ Retired(c).success = c.success
  BY <1>1 DEF Sound, Session, Retired
<1>3. Sound(Retired(c))
  BY <1>2, SoundFields
<1> QED BY <1>2, <1>3, UpdatesSound

\* A record that is built becomes the pending operation, in the mirror.
Built(c, r) == [c EXCEPT !.mirror = @ \cup {r}, !.pendRec = r, !.pendId = r.id,
                         !.waiting = @ \cup {r.id}]
\* A session that waits for nothing may build.
LEMMA BuiltSound ==
  ASSUME NEW c, Sound(c), c.bound => c.waiting = {}, NEW r \in Pending
  PROVE  Sound(Built(c, r)) /\ Open(Built(c, r))
<1>1. r.id \in 0 .. MaxTx /\ r.id \in Tx
  BY LicenceAssumption DEF Pending, Tx
<1>2. /\ Built(c, r) \in Session
      /\ Built(c, r).projection = c.projection /\ Built(c, r).success = c.success
      /\ r \in Built(c, r).mirror /\ Built(c, r).pendId = r.id
      /\ Built(c, r).bound = c.bound /\ Built(c, r).waiting = c.waiting \cup {r.id}
  BY <1>1 DEF Sound, Session, Built
<1>3. Sound(Built(c, r))
  BY <1>2 DEF Sound
<1>4. r.id # 0
  BY <1>1 DEF Tx
<1> HIDE DEF Built
<1>5. Open(Built(c, r))
  BY <1>2, <1>4 DEF Open
<1> QED BY <1>3, <1>5

\* The task waits.
LEMMA AwaitMoves ==
  ASSUME TypeOK, NEW t \in Tasks, NEW c, Good(c), NEW w, TaskGood(w),
         w.at # "hydrate", Await(t, c, w)
  PROVE  Moved(t, w.s)
BY DEF Await, Moved, TypeOK, worker

\* The loop stops.
LEMMA StopLoopMoves ==
  ASSUME TypeOK, NEW t \in Tasks, NEW s, NEW d, Good(d), sess' = [sess EXCEPT ![s] = d],
         authenticated' = authenticated, StopLoop([task EXCEPT ![t] = Idle])
  PROVE  Moved(t, s)
BY DEF StopLoop, Moved, TypeOK

\* The task ends.
LEMMA FinishMoves ==
  ASSUME TypeOK, NEW t \in Tasks, NEW c, Good(c), NEW w, Finish(t, c, w)
  PROVE  Moved(t, w.s)
<1>1. /\ Good(Collected(t, c, w.s)) /\ sess' = [sess EXCEPT ![w.s] = Collected(t, c, w.s)]
      /\ authenticated' = authenticated
  BY NewSessionGood DEF Finish, Collected
<1>2. CASE StopLoop([task EXCEPT ![t] = Idle])
  BY <1>1, <1>2, StopLoopMoves
<1>3. CASE ~StopLoop([task EXCEPT ![t] = Idle])
  <2>1. /\ task' = [task EXCEPT ![t] = Idle] \/ task' = [task EXCEPT ![t] = Chain]
        /\ loop' \in {loop, {t}} /\ current' = current
    BY <1>3 DEF Finish
  <2> QED BY <1>1, <2>1 DEF Moved, TypeOK
<1> QED BY <1>2, <1>3

-----------------------------------------------------------------------------
(* From the end of an operation back to its beginning: every operator that   *)
(* takes a good session moves on with one.                                   *)

\* flushDurable
LEMMA FlushMoves ==
  ASSUME TypeOK, NEW t \in Tasks, NEW c, Good(c), NEW w, Context(w), Flush(t, c, w)
  PROVE  Moved(t, w.s)
<1> DEFINE f == [Idle EXCEPT !.kind = w.kind, !.s = w.s]
<1>1. f \in Task /\ f.s = w.s /\ f.seen = NoLicence
  <2>1. Idle \in Task /\ Idle.seen = NoLicence
    BY IdleGood DEF TaskGood, Idle
  <2>2. w.kind \in Kinds /\ w.s \in 0 .. MaxSessions
    BY DEF Context, Task
  <2> QED BY <2>1, <2>2 DEF Task
<1>2. CASE Await(t, c, [f EXCEPT !.at = "clear"])
  <2> DEFINE x == [f EXCEPT !.at = "clear"]
  <2>1. x \in Task /\ x.s = w.s /\ x.seen = NoLicence /\ x.at = "clear"
    BY <1>1 DEF Task, Points
  <2> HIDE DEF x
  <2>2. TaskGood(x) /\ x.at # "hydrate"
    BY <2>1 DEF TaskGood, Context
  <2> QED BY <1>2, <2>1, <2>2, AwaitMoves DEF x
<1>3. ASSUME NEW r \in c.mirror, Await(t, c, [f EXCEPT !.at = "write", !.rec = r])
      PROVE  Moved(t, w.s)
  <2> DEFINE x == [f EXCEPT !.at = "write", !.rec = r]
  <2>1. r \in Pending
    BY DEF Good, Sound, Session
  <2>2. x \in Task /\ x.s = w.s /\ x.seen = NoLicence /\ x.at = "write" /\ x.rec = r
    BY <1>1, <2>1 DEF Task, Points
  <2> HIDE DEF x
  <2>3. TaskGood(x) /\ x.at # "hydrate"
    BY <2>1, <2>2 DEF TaskGood, Context
  <2> QED BY <1>3, <2>2, <2>3, AwaitMoves DEF x
<1>4. CASE Finish(t, [c EXCEPT !.healthy = FALSE], w)
  <2>1. Good([c EXCEPT !.healthy = FALSE])
    BY UpdatesGood
  <2> QED BY <1>4, <2>1, FinishMoves
<1> HIDE DEF f
<1> QED BY <1>2, <1>3, <1>4 DEF Flush, f

\* A query reads the index no earlier than when it is sent.
LEMMA AskingGood ==
  ASSUME TypeOK, index # NoLicence => index \in indexed, NEW w, Context(w)
  PROVE  TaskGood(Asking(w)) /\ Asking(w).s = w.s /\ Asking(w).at # "hydrate"
<1>1. /\ Asking(w) \in Task /\ Asking(w).s = w.s /\ Asking(w).seen = index
      /\ Asking(w).at \in {"query", "unsent"}
  BY DEF Asking, Context, Task, Points, TypeOK
<1> QED BY <1>1 DEF TaskGood, Context

\* runFreshQuery up to its first await
LEMMA AskMoves ==
  ASSUME TypeOK, index # NoLicence => index \in indexed,
         NEW t \in Tasks, NEW c, Good(c), NEW w, Context(w), Ask(t, c, w)
  PROVE  Moved(t, w.s)
<1>1. Good([c EXCEPT !.inFlight = TRUE])
  BY UpdatesGood
<1> QED BY <1>1, AskingGood, AwaitMoves DEF Ask

\* A submission leaves the ready phase; a review never submits an upgrade.
LEMMA SubmitMoves ==
  ASSUME TypeOK, NEW t \in Tasks, NEW c, Sound(c), Open(c), NEW w, Context(w),
         NEW r \in Pending, w.then = "review" => ~IsUpgrade(r), Submit(t, c, w, r)
  PROVE  Moved(t, w.s)
<1> DEFINE d == [c EXCEPT !.inFlight = TRUE, !.phase = "baselineSubmitting"]
           v == [w EXCEPT !.rec = r, !.reply = "none", !.seen = NoLicence,
                          !.retried = FALSE, !.poll = FALSE]
<1>1. Good(d) /\ Good([d EXCEPT !.healthy = FALSE])
  <2>1. /\ d \in Session /\ d.phase = "baselineSubmitting"
        /\ d.projection = c.projection /\ d.success = c.success
        /\ d.bound = c.bound /\ d.mirror = c.mirror /\ d.pendId = c.pendId
        /\ d.waiting = c.waiting
    BY DEF Sound, Session, Phases
  <2> HIDE DEF d
  <2>2. Sound(d) /\ Open(d)
    BY <2>1, SoundFields, OpenFields
  <2> QED BY <2>1, <2>2, UpdatesGood DEF Good
<1>2. v \in Task /\ v.s = w.s /\ v.rec = r /\ v.seen = NoLicence
      /\ v.then = w.then
  <2>1. NoLicence \in Ref
    BY LicenceAssumption DEF Ref, NoLicence
  <2> QED BY <2>1 DEF Context, Task
<1>3. ASSUME NEW x \in Task, x.s = w.s, x.rec = r, x.seen = NoLicence,
             x.at \in {"persist", "submit"}, x.then = w.then
      PROVE  TaskGood(x) /\ x.at # "hydrate"
  BY <1>3 DEF TaskGood, Context
<1> HIDE DEF d, v
<1>5. ASSUME NEW reply \in {"refused", "unsaved"}, NEW x,
             x \in {[v EXCEPT !.at = "persist"], [v EXCEPT !.at = "submit", !.reply = reply]}
      PROVE  TaskGood(x) /\ x.at # "hydrate" /\ x.s = w.s
  <2>1. /\ x \in Task /\ x.s = w.s /\ x.rec = r /\ x.seen = NoLicence
        /\ x.at \in {"persist", "submit"} /\ x.then = w.then
    BY <1>2, <1>5 DEF Task, Points
  <2> QED BY <1>3, <2>1
<1>4. \/ Await(t, d, [v EXCEPT !.at = "persist"])
      \/ Await(t, d, [v EXCEPT !.at = "submit", !.reply = "refused"])
      \/ Await(t, [d EXCEPT !.healthy = FALSE], [v EXCEPT !.at = "submit", !.reply = "unsaved"])
  BY DEF Submit, d, v
<1> QED BY <1>1, <1>4, <1>5, AwaitMoves

\* tick
LEMMA TickMoves ==
  ASSUME TypeOK, index # NoLicence => index \in indexed,
         NEW t \in Tasks, NEW c, Good(c), NEW w, Context(w), Tick(t, c, w)
  PROVE  Moved(t, w.s)
<1> DEFINE f == [w EXCEPT !.then = "flush", !.retried = FALSE]
           g == [c EXCEPT !.phase = "resolving", !.projection = NoLicence]
<1>1. /\ Context(f) /\ f.s = w.s
      /\ Context([f EXCEPT !.poll = TRUE]) /\ [f EXCEPT !.poll = TRUE].s = w.s
      /\ Context([f EXCEPT !.poll = FALSE]) /\ [f EXCEPT !.poll = FALSE].s = w.s
  BY DEF Context, Task
<1>2. Good(g)
  BY GatedGood DEF Phases
<1> HIDE DEF f, g
<1>3. \/ Flush(t, c, f) \/ Ask(t, c, [f EXCEPT !.poll = TRUE])
      \/ Ask(t, g, [f EXCEPT !.poll = FALSE])
  BY DEF Tick, f, g
<1> QED BY <1>1, <1>2, <1>3, FlushMoves, AskMoves

\* pumpOnce
LEMMA PumpMoves ==
  ASSUME TypeOK, index # NoLicence => index \in indexed,
         NEW t \in Tasks, NEW c, Good(c), NEW w, Context(w), Pump(t, c, w)
  PROVE  Moved(t, w.s)
<1>1. Good(TornDown(c))
  BY TornDownGood
<1>2. ASSUME c.phase \in {"awaitingIndex", "baselineSubmitting"}
      PROVE  Good(Delayed(c))
  BY UpdatesGood DEF Delayed, Phases
<1> QED BY <1>1, <1>2, FinishMoves, TickMoves DEF Pump

\* A new transaction identity fits the bound.
LEMMA MintedRecord ==
  ASSUME TypeOK, minted < MaxTx, NEW e \in Ref
  PROVE  minted + 1 \in 0 .. MaxTx /\ [id |-> minted + 1, expects |-> e] \in Pending
<1>1. minted + 1 \in 1 .. MaxTx
  BY LicenceAssumption DEF TypeOK
<1> QED BY <1>1, LicenceAssumption DEF Pending, Tx

\* confirmUpgrade: ready without a live upgrade, the session waits for nothing.
LEMMA ConfirmedMoves ==
  ASSUME TypeOK, NEW t \in Tasks, NEW c, Good(c), NEW w, Context(w), Confirmed(t, c, w)
  PROVE  Moved(t, w.s) /\ minted' \in 0 .. MaxTx
<1> DEFINE f == [w EXCEPT !.then = "flush"]
           r == [id |-> minted + 1, expects |-> c.projection]
           p == [c EXCEPT !.phase = "entitlementRepair"]
<1>1. Context(f) /\ f.s = w.s /\ f.then = "flush"
  BY DEF Context, Task
<1>5. Good(p)
  BY UpdatesGood DEF Phases
<1>2. Good(p) /\ c.projection \in Ref
  BY <1>5 DEF Good, Sound, Session
<1> HIDE DEF f, p
<1>3. CASE (Flush(t, c, f) \/ Flush(t, p, f)) /\ UNCHANGED minted
  BY <1>1, <1>2, <1>3, FlushMoves DEF TypeOK
<1>4. CASE ~LiveUpgrade(c) /\ Ready(c) /\ minted < MaxTx /\ minted' = minted + 1 /\ Submit(t, Built(c, r), f, r)
  <2>1. r \in Pending /\ minted' \in 0 .. MaxTx
    BY <1>2, <1>4, MintedRecord
  <2> HIDE DEF r
  <2>3. c.bound => c.waiting = {}
    BY <1>4 DEF Good, Open, Ready, LiveUpgrade, HasPending, IsUpgrade
  <2>2. Sound(Built(c, r)) /\ Open(Built(c, r))
    BY <2>1, <2>3, BuiltSound DEF Good
  <2> QED BY <1>1, <1>4, <2>1, <2>2, SubmitMoves
<1> QED BY <1>3, <1>4 DEF Confirmed, f, p, Built

\* reconcileRejectedUpgrade: an active licence was seen before it retires.
LEMMA ReviewedMoves ==
  ASSUME TypeOK, NEW t \in Tasks, NEW c, Good(c), NEW w, Context(w),
         Ready(c) => c.waiting = {}, Reviewed(t, c, w)
  PROVE  Moved(t, w.s)
<1> DEFINE d == [Retired(c) EXCEPT !.success = None]
<1>1. ASSUME Ready(c) PROVE Good(d)
  <2>1. /\ d.phase = c.phase /\ d.projection = c.projection
        /\ d.waiting = c.waiting /\ Sound(d)
    BY RetiredSound DEF Good, Session, Retired
  <2> HIDE DEF d
  <2> QED BY <1>1, <2>1 DEF Good, Open
<1> HIDE DEF d
<1>2. Flush(t, c, w) \/ (Ready(c) /\ Flush(t, d, w))
  BY DEF Reviewed, d
<1> QED BY <1>1, <1>2, FlushMoves

\* The caller of runFreshQuery goes on.
LEMMA ReturnMoves ==
  ASSUME TypeOK, index # NoLicence => index \in indexed,
         NEW t \in Tasks, NEW c, Good(c), NEW w, Context(w),
         Reviewable(c, w), Return(t, c, w)
  PROVE  Moved(t, w.s) /\ minted' \in 0 .. MaxTx
<1>1. Good([c EXCEPT !.reachable = TRUE])
  BY UpdatesGood
<1>2. minted \in 0 .. MaxTx
  BY DEF TypeOK
<1> QED BY <1>1, <1>2, FlushMoves, ConfirmedMoves, ReviewedMoves, PumpMoves
       DEF Return, Reviewable

\* runFreshQuery
LEMMA FreshQueryMoves ==
  ASSUME TypeOK, index # NoLicence => index \in indexed,
         NEW t \in Tasks, NEW c, Good(c), NEW w, Context(w),
         w.then # "review", FreshQuery(t, c, w)
  PROVE  Moved(t, w.s) /\ minted' \in 0 .. MaxTx
<1> DEFINE v == [w EXCEPT !.retried = FALSE]
<1>1. Context(v) /\ v.s = w.s
  BY DEF Context, Task
<1> HIDE DEF v
<1>2. CASE Return(t, c, w)
  BY <1>2, ReturnMoves DEF Reviewable
<1>3. CASE Ask(t, c, v) /\ UNCHANGED minted
  BY <1>1, <1>3, AskMoves DEF TypeOK
<1> QED BY <1>2, <1>3 DEF FreshQuery, v

\* coordinator.start
LEMMA RestartedGood ==
  ASSUME NEW c, Sound(c), Open(c) PROVE Good(Restarted(c))
<1>1. NoLicence \in Ref
  BY LicenceAssumption DEF Ref, NoLicence
<1>2. /\ Restarted(c) \in Session /\ Restarted(c).phase = "resolving"
      /\ Restarted(c).projection = NoLicence /\ Restarted(c).success = None
      /\ Restarted(c).bound = c.bound /\ Restarted(c).mirror = c.mirror
      /\ Restarted(c).pendId = c.pendId /\ Restarted(c).waiting = c.waiting
  BY <1>1 DEF Sound, Session, Restarted, Phases
<1> QED BY <1>2, SoundFields, OpenFields DEF Good

\* retryExact
LEMMA RetryExactMoves ==
  ASSUME TypeOK, index # NoLicence => index \in indexed,
         NEW t \in Tasks, NEW c, Good(c), NEW w, Context(w),
         w.then # "review", RetryExact(t, c, w)
  PROVE  Moved(t, w.s) /\ minted' \in 0 .. MaxTx
<1>1. CASE HasPending(c) /\ Submit(t, c, w, c.pendRec) /\ UNCHANGED minted
  <2>1. c.pendRec \in Pending
    BY <1>1 DEF HasPending, Good, Sound, Session
  <2> QED BY <1>1, <2>1, SubmitMoves DEF TypeOK, Good
<1>2. CASE FreshQuery(t, Restarted(c), w)
  BY <1>2, RestartedGood, FreshQueryMoves DEF Good
<1> QED BY <1>1, <1>2 DEF RetryExact

\* An answer retires the pending operation, and claims it as local success only
\* if it is the licence the answer names.
LEMMA ReconciledSound ==
  ASSUME NEW c, Sound(c), NEW ref \in indexed
  PROVE  Sound(Reconciled(c, ref))
<1>1. CASE Reconciled(c, ref) \in {c, Retired(c), [Retired(c) EXCEPT !.success = None]}
  BY <1>1, RetiredSound
<1>2. CASE /\ Reconciled(c, ref) = [Retired(c) EXCEPT !.success = c.pendRec]
           /\ IsUpgrade(c.pendRec) /\ ref = c.pendRec.id
  <2> DEFINE d == [Retired(c) EXCEPT !.success = c.pendRec]
  <2>1. /\ d \in Session /\ d.projection = c.projection /\ d.success = c.pendRec
        /\ d.pendId = 0
    BY RetiredSound DEF Sound, Session
  <2> HIDE DEF d
  <2>2. Sound(d)
    BY <1>2, <2>1 DEF Sound
  <2> QED BY <1>2, <2>2 DEF d
<1> QED BY <1>1, <1>2 DEF Reconciled

\* A bound record is a mirrored one.
LEMMA BoundMirrored ==
  ASSUME NEW c, Sound(c), NEW r \in Bound(c)
  PROVE  /\ r \in Pending
         /\ Sound([c EXCEPT !.pendRec = r, !.pendId = r.id])
         /\ Open(c) => Open([c EXCEPT !.pendRec = r, !.pendId = r.id])
<1> DEFINE d == [c EXCEPT !.pendRec = r, !.pendId = r.id]
<1>1. r \in c.mirror /\ r \in Pending
  BY DEF Bound, Sound, Session
<1>2. r.id \in 0 .. MaxTx /\ r.id # 0
  BY <1>1, LicenceAssumption DEF Pending, Tx
<1>3. /\ d \in Session /\ d.projection = c.projection /\ d.success = c.success
      /\ d.mirror = c.mirror /\ d.pendId = r.id
      /\ d.bound = c.bound /\ d.waiting = c.waiting
  BY <1>1, <1>2 DEF Sound, Session
<1> HIDE DEF d
<1>4. Sound(d)
  BY <1>1, <1>3 DEF Sound
<1>5. Open(c) => Open(d)
  BY <1>2, <1>3, OpenFields
<1> QED BY <1>1, <1>4, <1>5 DEF d

\* An active licence ends the wait.
LEMMA ApplyReadyMoves ==
  ASSUME TypeOK, index # NoLicence => index \in indexed,
         NEW t \in Tasks, NEW c, Good(c), NEW w, Context(w),
         NEW ref \in indexed, ref # NoLicence, ApplyReady(t, c, w, ref)
  PROVE  Moved(t, w.s) /\ minted' \in 0 .. MaxTx
<1> DEFINE Answered(a) == [Reconciled(a, ref) EXCEPT !.inFlight = FALSE, !.refreshOnly = FALSE,
                 !.projection = ref, !.phase = "entitlementReady", !.waiting = {}]
<1>1. PICK a \in Attached(c) : Return(t, Answered(a), w)
  BY DEF ApplyReady
<1>2. Sound(a)
  BY BoundMirrored DEF Attached, Good
<1> DEFINE b == Reconciled(a, ref)
           d == Answered(a)
<1>3. Sound(b) /\ ref \in Ref
  BY <1>2, ReconciledSound DEF TypeOK
<1>4. Good(d) /\ Reviewable(d, w)
  <2> HIDE DEF b
  <2>1. /\ d \in Session /\ d.projection = ref /\ d.success = b.success
        /\ d.bound = b.bound /\ d.mirror = b.mirror /\ d.pendId = b.pendId
        /\ d.waiting = {}
    BY <1>3 DEF Sound, Session, Phases, b
  <2> HIDE DEF d
  <2> QED BY <1>3, <2>1 DEF Good, Sound, Open, Reviewable
<1> HIDE DEF Answered
<1> QED BY <1>1, <1>4, ReturnMoves

\* An answer without an active licence leaves no projection.
LEMMA UnlicensedSound ==
  ASSUME NEW n, Sound(n), Open(n)
  PROVE  LET c == [n EXCEPT !.projection = NoLicence, !.inFlight = FALSE]
         IN /\ Sound(c) /\ Open(c) /\ c.projection = NoLicence
            /\ \A p \in Phases \ {"entitlementReady"} :
                  /\ Good([c EXCEPT !.phase = p])
                  /\ \A w : Reviewable([c EXCEPT !.phase = p], w)
<1> DEFINE c == [n EXCEPT !.projection = NoLicence, !.inFlight = FALSE]
<1>1. NoLicence \in Ref
  BY LicenceAssumption DEF Ref, NoLicence
<1>2. /\ c \in Session /\ c.projection = NoLicence /\ c.success = n.success
      /\ c.bound = n.bound /\ c.mirror = n.mirror /\ c.pendId = n.pendId
      /\ c.waiting = n.waiting
  BY <1>1 DEF Sound, Session
<1> HIDE DEF c
<1>3. Sound(c) /\ Open(c)
  BY <1>2, SoundFields, OpenFields
<1>4. ASSUME NEW p \in Phases \ {"entitlementReady"}
      PROVE  /\ Good([c EXCEPT !.phase = p])
             /\ \A w : Reviewable([c EXCEPT !.phase = p], w)
  <2>1. [c EXCEPT !.phase = p].phase = p
    BY <1>2 DEF Session
  <2>2. Good([c EXCEPT !.phase = p])
    BY <1>3, UnreadyGood
  <2> QED BY <2>1, <2>2 DEF Reviewable, Ready
<1> QED BY <1>2, <1>3, <1>4 DEF c

\* handleNoActive: it builds only when the mirror is empty.
LEMMA NoActiveMoves ==
  ASSUME TypeOK, index # NoLicence => index \in indexed,
         NEW t \in Tasks, NEW n, Good(n), NEW w, Context(w), HandleNoActive(t, n, w)
  PROVE  Moved(t, w.s) /\ minted' \in 0 .. MaxTx
<1> DEFINE c == [n EXCEPT !.projection = NoLicence, !.inFlight = FALSE]
           b(r) == [c EXCEPT !.pendRec = r, !.pendId = r.id]
           built == [id |-> minted + 1, expects |-> NoLicence]
<1>1. /\ Sound(c) /\ Open(c) /\ c.projection = NoLicence
      /\ \A p \in Phases \ {"entitlementReady"} :
            Good([c EXCEPT !.phase = p]) /\ Reviewable([c EXCEPT !.phase = p], w)
  BY UnlicensedSound DEF Good
<1>2. minted \in 0 .. MaxTx
  BY DEF TypeOK
<1> HIDE DEF c
<1>3. ASSUME NEW p \in {"entitlementUnavailable", "entitlementRepair"},
             Return(t, [c EXCEPT !.phase = p], w)
      PROVE  Moved(t, w.s) /\ minted' \in 0 .. MaxTx
  BY <1>1, <1>3, ReturnMoves DEF Phases
<1>4. ASSUME NEW r \in Bound(c),
             \/ Return(t, [b(r) EXCEPT !.phase = "awaitingIndex"], w)
             \/ b(r).phase = "confirmationDelayed" /\ Return(t, b(r), w)
             \/ ~IsUpgrade(r) /\ Submit(t, b(r), w, r) /\ UNCHANGED minted
      PROVE  Moved(t, w.s) /\ minted' \in 0 .. MaxTx
  <2> DEFINE d == b(r)
             q == [d EXCEPT !.phase = "awaitingIndex"]
  <2>1. r \in Pending /\ Sound(d) /\ Open(d)
    BY <1>1, BoundMirrored
  <2> HIDE DEF b, d
  <2>2. Good(q) /\ Reviewable(q, w)
    <3>1. q.phase = "awaitingIndex"
      BY <2>1 DEF Sound, Session
    <3>2. Good(q)
      BY <2>1, UnreadyGood DEF Phases
    <3> QED BY <3>1, <3>2 DEF Reviewable, Ready
  <2>3. d.phase = "confirmationDelayed" => Good(d) /\ Reviewable(d, w)
    BY <2>1 DEF Good, Reviewable, Ready
  <2> HIDE DEF q
  <2>4. \/ Return(t, q, w)
        \/ d.phase = "confirmationDelayed" /\ Return(t, d, w)
        \/ ~IsUpgrade(r) /\ Submit(t, d, w, r) /\ UNCHANGED minted
    BY <1>4 DEF q, d
  <2> QED BY <1>2, <2>1, <2>2, <2>3, <2>4, ReturnMoves, SubmitMoves
<1>5. CASE Bound(c) = {} /\ minted < MaxTx /\ minted' = minted + 1 /\ Submit(t, Built(c, built), w, built)
  <2>1. built \in Pending /\ minted' \in 0 .. MaxTx
    <3>1. NoLicence \in Ref
      BY LicenceAssumption DEF Ref, NoLicence
    <3> QED BY <1>5, <3>1, MintedRecord
  <2>3. ~IsUpgrade(built)
    BY DEF IsUpgrade
  <2>4. c.mirror = {}
    BY <1>5 DEF Bound
  <2>5. c.bound => c.waiting = {}
    BY <1>1, <2>4 DEF Open
  <2> HIDE DEF built
  <2>2. Sound(Built(c, built)) /\ Open(Built(c, built))
    BY <1>1, <2>1, <2>5, BuiltSound
  <2> QED BY <1>5, <2>1, <2>2, <2>3, SubmitMoves
<1>6. \/ \E p \in {"entitlementUnavailable", "entitlementRepair"} :
            Return(t, [c EXCEPT !.phase = p], w)
      \/ \E r \in Bound(c) :
            \/ Return(t, [b(r) EXCEPT !.phase = "awaitingIndex"], w)
            \/ b(r).phase = "confirmationDelayed" /\ Return(t, b(r), w)
            \/ ~IsUpgrade(r) /\ Submit(t, b(r), w, r) /\ UNCHANGED minted
      \/ Bound(c) = {} /\ minted < MaxTx /\ minted' = minted + 1 /\ Submit(t, Built(c, built), w, built)
  BY DEF HandleNoActive, c, Built
<1> QED BY <1>3, <1>4, <1>5, <1>6

\* applyQueryOutcome, the answers that tell nothing
LEMMA FailureMoves ==
  ASSUME TypeOK, index # NoLicence => index \in indexed,
         NEW t \in Tasks, NEW n, Good(n), NEW w, Context(w), ApplyFailure(t, n, w)
  PROVE  Moved(t, w.s) /\ minted' \in 0 .. MaxTx
<1> DEFINE c == [n EXCEPT !.projection = NoLicence, !.inFlight = FALSE]
           d == [c EXCEPT !.pendRec = None, !.pendId = 0, !.phase = "lockedOut"]
           v == [w EXCEPT !.retried = TRUE]
<1>1. /\ Sound(c) /\ Open(c) /\ c.projection = NoLicence
      /\ \A p \in Phases \ {"entitlementReady"} :
            Good([c EXCEPT !.phase = p]) /\ Reviewable([c EXCEPT !.phase = p], w)
  BY UnlicensedSound DEF Good
<1> HIDE DEF c
<1>2. Good(d) /\ Reviewable(d, w)
  <2>1. 0 \in 0 .. MaxTx
    BY LicenceAssumption
  <2>2. /\ d \in Session /\ d.phase = "lockedOut" /\ d.projection = c.projection
        /\ d.success = c.success /\ d.pendId = 0
        /\ d.bound = c.bound /\ d.mirror = c.mirror /\ d.waiting = c.waiting
    BY <1>1, <2>1 DEF Sound, Session, Phases
  <2> HIDE DEF d
  <2>3. Sound(d) /\ Open(d)
    BY <1>1, <2>2, SoundFields, OpenFields
  <2> QED BY <2>2, <2>3 DEF Good, Reviewable, Ready
<1>3. Context(v) /\ v.s = w.s
  BY DEF Context, Task
<1> HIDE DEF d, v
<1>4. CASE Await(t, n, Asking(v)) /\ UNCHANGED minted
  BY <1>3, <1>4, AskingGood, AwaitMoves DEF TypeOK
<1>5. CASE Return(t, d, w)
  BY <1>2, <1>5, ReturnMoves
<1>6. ASSUME NEW p \in {"entitlementUnavailable", "entitlementRepair", "awaitingIndex"},
             Return(t, [c EXCEPT !.phase = p], w)
      PROVE  Moved(t, w.s) /\ minted' \in 0 .. MaxTx
  BY <1>1, <1>6, ReturnMoves DEF Phases
<1>7. \/ Await(t, n, Asking(v)) /\ UNCHANGED minted
      \/ Return(t, d, w)
      \/ \E p \in {"entitlementUnavailable", "entitlementRepair", "awaitingIndex"} :
            Return(t, [c EXCEPT !.phase = p], w)
  BY DEF ApplyFailure, c, d, v
<1> QED BY <1>4, <1>5, <1>6, <1>7

\* submitPending after its await: an admission never projects a licence.
LEMMA AdmittedMoves ==
  ASSUME TypeOK, index # NoLicence => index \in indexed,
         NEW t \in Tasks, NEW n, Good(n), NEW w, Context(w), w.rec \in Pending,
         w.then = "review" => ~IsUpgrade(w.rec), NEW admission, Admitted(t, n, w, admission)
  PROVE  Moved(t, w.s) /\ minted' \in 0 .. MaxTx
<1> DEFINE c == [Saved(n, w.rec) EXCEPT !.pendRec = w.rec, !.inFlight = FALSE]
           v == [w EXCEPT !.poll = FALSE, !.retried = FALSE]
           x == [v EXCEPT !.then = IF c.pendId = 0 THEN "flush" ELSE "review"]
<1>1. Sound(c) /\ Open(c) /\ (IsUpgrade(w.rec) => Good(c)) /\ c.pendRec = w.rec
  <2> DEFINE e == Saved(n, w.rec)
  <2>1. /\ e \in Session /\ e.phase = n.phase /\ e.projection = n.projection
        /\ e.success = n.success /\ e.bound = n.bound /\ e.pendId = n.pendId
        /\ n.mirror \subseteq e.mirror /\ e.waiting = n.waiting
    BY DEF Saved, Good, Sound, Session
  <2> HIDE DEF e
  <2>2. /\ c \in Session /\ c.phase = n.phase /\ c.projection = n.projection
        /\ c.success = n.success /\ c.bound = n.bound /\ c.pendId = n.pendId
        /\ n.mirror \subseteq c.mirror /\ c.waiting = n.waiting /\ c.pendRec = w.rec
    BY <2>1 DEF Session, e
  <2> HIDE DEF c
  <2>3. Sound(c)
    BY <2>2 DEF Good, Sound
  <2>4. Open(c)
    BY <2>2, OpenFields DEF Good
  <2> QED BY <2>2, <2>3, <2>4 DEF Good
<1> HIDE DEF c
<1>2. Context(v) /\ v.s = w.s /\ Context(x) /\ x.s = w.s
  BY DEF Context, Task
<1> HIDE DEF v, x
<1>3. CASE Ask(t, [c EXCEPT !.phase = "resolving"], v) /\ UNCHANGED minted
  <2>1. Good([c EXCEPT !.phase = "resolving"])
    BY <1>1, UnreadyGood DEF Phases
  <2> QED BY <1>2, <1>3, <2>1, AskMoves DEF TypeOK
<1>4. CASE IsUpgrade(w.rec) /\ Ask(t, c, x) /\ UNCHANGED minted
  BY <1>1, <1>2, <1>4, AskMoves DEF TypeOK
<1>5. CASE Return(t, [c EXCEPT !.phase = "entitlementRepair"], w)
  <2> DEFINE d == [c EXCEPT !.phase = "entitlementRepair"]
  <2>1. Good(d)
    BY <1>1, UnreadyGood DEF Phases
  <2>2. d.phase = "entitlementRepair"
    BY <1>1 DEF Sound, Session
  <2> HIDE DEF d
  <2>3. Reviewable(d, w)
    BY <2>2 DEF Reviewable, Ready
  <2> QED BY <1>5, <2>1, <2>3, ReturnMoves DEF d
<1>6. CASE Return(t, [c EXCEPT !.phase = Waiting(c, w.rec)], w)
  <2> DEFINE d == [c EXCEPT !.phase = Waiting(c, w.rec)]
  <2>1. /\ Waiting(c, w.rec) \in Phases
        /\ Waiting(c, w.rec) = "entitlementReady" =>
              c.projection # NoLicence /\ IsUpgrade(w.rec)
    BY DEF Waiting, Phases
  <2>2. Sound(d) /\ Open(d)
    BY <1>1, <2>1, UpdatesSound, UpdatesOpen DEF Sound
  <2>3. /\ d.phase = Waiting(c, w.rec) /\ d.projection = c.projection
        /\ d.pendRec = w.rec
    BY <1>1 DEF Sound, Session
  <2> HIDE DEF d
  <2>4. Good(d) /\ Reviewable(d, w)
    BY <2>1, <2>2, <2>3 DEF Good, Reviewable, Ready
  <2> QED BY <1>6, <2>4, ReturnMoves DEF d
<1>7. \/ Ask(t, [c EXCEPT !.phase = "resolving"], v) /\ UNCHANGED minted
      \/ IsUpgrade(w.rec) /\ Ask(t, c, x) /\ UNCHANGED minted
      \/ Return(t, [c EXCEPT !.phase = "entitlementRepair"], w)
      \/ Return(t, [c EXCEPT !.phase = Waiting(c, w.rec)], w)
  BY DEF Admitted, c, v, x
<1> QED BY <1>3, <1>4, <1>5, <1>6, <1>7

-----------------------------------------------------------------------------
(* The invariant over a step of one task.                                    *)

\* No other task waits for the hydration of session s.
Free(t, s) == \A u \in Tasks \ {t} : task[u].at = "hydrate" => task[u].s # s

Counters == /\ faults' \in 0 .. MaxFaults /\ operations' \in 0 .. MaxOperations
            /\ minted' \in 0 .. MaxTx
            /\ journal' \in Pending \cup {None, Corrupt} /\ ingress' \subseteq Pending
            /\ index' = index /\ indexed' = indexed

\* What the operators do keeps the invariant.
LEMMA MovedInv ==
  ASSUME IInv, NEW t \in Tasks, NEW s, Moved(t, s), Free(t, s), Counters
  PROVE  IInv'
<1> USE DEF IInv
<1>1. PICK d : Good(d) /\ sess' = [sess EXCEPT ![s] = d]
  BY DEF Moved
<1>2. \A x \in Sessions : Good(sess[x])'
  <2> TAKE x \in Sessions
  <2>1. sess'[x] = IF x = s THEN d ELSE sess[x]
    BY <1>1 DEF TypeOK
  <2>2. Good(sess[x])
    OBVIOUS
  <2> QED BY <1>1, <2>1, <2>2 DEF Counters, Good, Sound, Open
<1>3. sess' \in [Sessions -> Session]
  BY <1>1 DEF TypeOK, Good, Sound
<1>4. \A u \in Tasks : TaskGood(task[u])'
  <2> TAKE u \in Tasks
  <2>1. TaskGood(task'[u])
    BY IdleGood DEF Moved
  <2> QED BY <2>1 DEF TaskGood, Counters
<1>5. task' \in [Tasks -> Task]
  BY <1>4 DEF Moved, TaskGood
<1>6. HydrationInv'
  <2> SUFFICES ASSUME NEW u \in Tasks, task'[u].at = "hydrate"
               PROVE  /\ ~sess'[task'[u].s].bound /\ sess'[task'[u].s].pendId = 0
                      /\ sess'[task'[u].s].waiting = {}
                      /\ \A v \in Tasks \ {u} : task'[v].s # task'[u].s
    BY DEF HydrationInv
  <2>1. u # t /\ task'[u] = task[u]
    BY IdleGood DEF Moved
  <2>2. task[u].s \in Sessions /\ task[u].s # s
    BY <2>1 DEF Free, TaskGood
  <2>3. sess'[task[u].s] = sess[task[u].s]
    BY <1>1, <2>2 DEF TypeOK
  <2>4. task[u].s # NoSession
    BY <2>2, LicenceAssumption DEF Sessions, NoSession
  <2>5. ASSUME NEW v \in Tasks \ {u}
        PROVE  task'[v].s # task[u].s
    <3>1. task[v].s # task[u].s
      BY <2>1 DEF HydrationInv
    <3>2. task'[v].s \in {task[v].s, NoSession, s}
      BY IdleGood DEF Moved
    <3> QED BY <2>2, <2>4, <3>1, <3>2
  <2> QED BY <2>1, <2>3, <2>5 DEF HydrationInv
<1>7. /\ authenticated' \in BOOLEAN /\ current' \in 0 .. MaxSessions
      /\ loop' \subseteq Tasks
  BY LicenceAssumption DEF Moved, TypeOK, NoSession
<1>8. TypeOK'
  BY <1>3, <1>5, <1>7 DEF TypeOK, Counters
<1> QED BY <1>2, <1>4, <1>6, <1>8 DEF Counters

\* A task that hydrates a session is alone with it.
LEMMA FreeOwn ==
  ASSUME IInv, NEW t \in Tasks
  PROVE  Free(t, task[t].s)
BY DEF IInv, HydrationInv, Free

\* No task hydrates an active session.
LEMMA FreeCurrent ==
  ASSUME IInv, NEW t \in Tasks, Active(current)
  PROVE  Free(t, current)
BY DEF IInv, HydrationInv, Free, Active

\* A task that waits is where its operators expect it.
LEMMA WaitingContext ==
  ASSUME IInv, NEW t \in Tasks, task[t].at \notin {"idle", "timer"}
  PROVE  Context(task[t]) /\ Good(sess[task[t].s])
BY DEF IInv, TaskGood, Context

\* An operation starts on a good session.
LEMMA OpContext ==
  ASSUME IInv, Active(current)
  PROVE  /\ Good(sess[current]) /\ NewOp(current).then = "flush"
         /\ Context(NewOp(current)) /\ NewOp(current).s = current
         /\ Context([Chain EXCEPT !.s = current]) /\ [Chain EXCEPT !.s = current].s = current
         /\ \A n \in {"flush", "pump", "confirm", "review"} :
               /\ Context([NewOp(current) EXCEPT !.then = n])
               /\ [NewOp(current) EXCEPT !.then = n].s = current
               /\ [NewOp(current) EXCEPT !.then = n].then = n
<1>1. current \in Sessions /\ current \in 0 .. MaxSessions
  BY LicenceAssumption DEF IInv, TypeOK, Active, Sessions, NoSession
<1>2. /\ NewOp(current) \in Task /\ NewOp(current).s = current
      /\ NewOp(current).seen = NoLicence /\ NewOp(current).then = "flush"
  <2>1. Idle \in Task /\ Idle.seen = NoLicence /\ Idle.then = "flush"
    BY IdleGood DEF TaskGood, Idle
  <2> QED BY <1>1, <2>1 DEF NewOp, Task, Kinds
<1>3. /\ [Chain EXCEPT !.s = current] \in Task
      /\ [Chain EXCEPT !.s = current].s = current
      /\ [Chain EXCEPT !.s = current].seen = NoLicence
  <2>1. Chain \in Task /\ Chain.seen = NoLicence
    BY IdleGood DEF TaskGood, Chain, Idle
  <2> QED BY <1>1, <2>1 DEF Task
<1>4. ASSUME NEW n \in {"flush", "pump", "confirm", "review"}
      PROVE  /\ [NewOp(current) EXCEPT !.then = n] \in Task
             /\ [NewOp(current) EXCEPT !.then = n].s = current
             /\ [NewOp(current) EXCEPT !.then = n].seen = NoLicence
             /\ [NewOp(current) EXCEPT !.then = n].then = n
  BY <1>2 DEF Task
<1> QED BY <1>1, <1>2, <1>3, <1>4 DEF Context, IInv

-----------------------------------------------------------------------------
(* The actions.                                                              *)

\* hydrateDurable ends: the record it loads is the only one waited for.
LEMMA HydratedInv ==
  ASSUME IInv, NEW t \in Tasks, Hydrated(t)
  PROVE  IInv'
<1> DEFINE w == task[t]
           c == sess[w.s]
           load(r) == [c EXCEPT !.mirror = @ \cup {r}, !.healthy = TRUE,
                                !.waiting = @ \cup {r.id}]
           begin(d) == Restarted([d EXCEPT !.bound = TRUE])
<1>1. /\ Context(w) /\ w.then = "flush"
      /\ Good(c) /\ c.pendId = 0 /\ c.waiting = {}
  BY WaitingContext DEF Hydrated, IInv, HydrationInv, TaskGood
<1>2. PICK d : /\ FreshQuery(t, begin(d), w)
               /\ \/ d = c \/ d = [c EXCEPT !.healthy = FALSE]
                  \/ journal \in Pending /\ d = load(journal)
  BY DEF Hydrated, Readable, IInv, TypeOK
<1>3. /\ Sound(d) /\ d.pendId = 0
      /\ \A i, j \in d.waiting : i = j
      /\ d.waiting # {} => d.mirror # {}
  <2>1. CASE d = c
    BY <1>1, <2>1 DEF Good
  <2>2. CASE d = [c EXCEPT !.healthy = FALSE]
    <3>1. d.pendId = 0 /\ d.waiting = {}
      BY <1>1, <2>2 DEF Good, Sound, Session
    <3>2. Sound(c)
      BY <1>1 DEF Good
    <3> HIDE DEF c
    <3> QED BY <2>2, <3>1, <3>2, UpdatesSound
  <2>3. CASE journal \in Pending /\ d = load(journal)
    <3>1. journal.id \in Tx
      BY <2>3 DEF Pending
    <3>2. /\ d \in Session /\ d.pendId = 0 /\ d.projection = c.projection
          /\ d.success = c.success /\ d.waiting = {journal.id} /\ d.mirror # {}
      BY <1>1, <2>3, <3>1 DEF Good, Sound, Session
    <3> QED BY <1>1, <3>2, SoundFields DEF Good
  <2> QED BY <1>2, <2>1, <2>2, <2>3
<1>4. Good(begin(d))
  <2> DEFINE e == begin(d)
  <2>1. NoLicence \in Ref
    BY LicenceAssumption DEF Ref, NoLicence
  <2>2. /\ e \in Session /\ e.pendId = 0 /\ e.projection = NoLicence
        /\ e.success = None /\ e.phase = "resolving"
        /\ e.mirror = d.mirror /\ e.waiting = d.waiting
    BY <1>3, <2>1 DEF Sound, Session, Restarted, Phases
  <2> HIDE DEF e
  <2>3. Sound(e)
    BY <2>2 DEF Sound
  <2>4. Open(e)
    BY <1>3, <2>2 DEF Open
  <2> QED BY <2>2, <2>3, <2>4 DEF Good, e
<1>5. Free(t, w.s)
  BY FreeOwn
<1>8. /\ UNCHANGED <<journal, network, operations>>
      /\ faults' = faults \/ Fault
  BY DEF Hydrated
<1> HIDE DEF begin, w
<1>6. Moved(t, w.s) /\ minted' \in 0 .. MaxTx
  BY <1>1, <1>2, <1>4, FreshQueryMoves DEF IInv
<1>7. Counters
  BY <1>6, <1>8, LicenceAssumption DEF Counters, network, Fault, IInv, TypeOK
<1> QED BY <1>5, <1>6, <1>7, MovedInv

\* The answer of a query.
LEMMA QueryAnsweredInv ==
  ASSUME IInv, NEW t \in Tasks, QueryAnswered(t)
  PROVE  IInv'
<1> DEFINE w == task[t]
           c == sess[w.s]
           x == [c EXCEPT !.projection = NoLicence, !.inFlight = FALSE,
                          !.phase = "entitlementUnavailable"]
<1>1. Context(w) /\ Good(c)
  BY WaitingContext DEF QueryAnswered
<1>2. Good(x) /\ Reviewable(x, w)
  <2>1. NoLicence \in Ref
    BY LicenceAssumption DEF Ref, NoLicence
  <2>2. /\ x \in Session /\ x.phase = "entitlementUnavailable"
        /\ x.projection = NoLicence /\ x.success = c.success
        /\ x.bound = c.bound /\ x.mirror = c.mirror /\ x.pendId = c.pendId
        /\ x.waiting = c.waiting
    BY <1>1, <2>1 DEF Good, Sound, Session, Phases
  <2> HIDE DEF x
  <2>3. Sound(x) /\ Open(x)
    BY <1>1, <2>2, SoundFields, OpenFields DEF Good
  <2> QED BY <2>2, <2>3 DEF Good, Reviewable, Ready
<1>3. Free(t, w.s)
  BY FreeOwn
<1>4. \A ref \in {w.seen, index} \ {NoLicence} : ref \in indexed
  BY <1>1 DEF Context, IInv
<1>5. /\ \/ Return(t, x, w) \/ HandleNoActive(t, c, w) \/ ApplyFailure(t, c, w)
         \/ \E ref \in {w.seen, index} \ {NoLicence} : ApplyReady(t, c, w, ref)
      /\ UNCHANGED <<journal, network, faults, operations>>
  BY DEF QueryAnswered
<1> HIDE DEF w, c, x
<1>6. Moved(t, w.s) /\ minted' \in 0 .. MaxTx
  BY <1>1, <1>2, <1>4, <1>5, ReturnMoves, NoActiveMoves, FailureMoves, ApplyReadyMoves
     DEF IInv
<1>7. Counters
  BY <1>5, <1>6 DEF Counters, network, IInv, TypeOK
<1> QED BY <1>3, <1>6, <1>7, MovedInv DEF w

\* writeDurable ends before the submission.
LEMMA PersistedInv ==
  ASSUME IInv, NEW t \in Tasks, Persisted(t)
  PROVE  IInv'
<1> DEFINE w == task[t]
           c == sess[w.s]
           kept == [c EXCEPT !.mirror = @ \cup {w.rec}, !.healthy = TRUE]
           failed == [c EXCEPT !.healthy = FALSE]
           sent(y) == [w EXCEPT !.at = "submit", !.reply = y]
<1>1. /\ Context(w) /\ Good(c) /\ w.rec \in Pending
      /\ w.then = "review" => ~IsUpgrade(w.rec)
  BY WaitingContext DEF Persisted, IInv, TaskGood
<1>2. Good(kept) /\ Good(failed)
  <2>1. /\ kept \in Session /\ kept.phase = c.phase /\ kept.projection = c.projection
        /\ kept.success = c.success /\ kept.bound = c.bound /\ kept.pendId = c.pendId
        /\ kept.waiting = c.waiting /\ kept.pendRec = c.pendRec
        /\ c.mirror \subseteq kept.mirror
    BY <1>1 DEF Good, Sound, Session
  <2> HIDE DEF kept
  <2> QED BY <1>1, <2>1, UpdatesGood, OpenFields DEF Good, Sound
<1>3. /\ TaskGood([w EXCEPT !.at = "submit"]) /\ [w EXCEPT !.at = "submit"].s = w.s
      /\ [w EXCEPT !.at = "submit"].at # "hydrate"
      /\ \A y \in {"accepted", "alreadyExists"} :
            TaskGood(sent(y)) /\ sent(y).s = w.s /\ sent(y).at # "hydrate"
  <2>1. ASSUME NEW y \in {"accepted", "alreadyExists"},
               NEW x \in {[w EXCEPT !.at = "submit"], sent(y)}
        PROVE  TaskGood(x) /\ x.s = w.s /\ x.at # "hydrate"
    <3>1. /\ x \in Task /\ x.s = w.s /\ x.seen = w.seen /\ x.rec = w.rec
          /\ x.at = "submit" /\ x.then = w.then
      BY <1>1, <2>1 DEF Context, Task, Points
    <3> QED BY <1>1, <3>1 DEF TaskGood, Context
  <2> HIDE DEF sent, w
  <2> QED BY <2>1
<1>4. Free(t, w.s)
  BY FreeOwn
<1> HIDE DEF kept, failed
<1>8. IF w.rec \in ingress THEN sent("alreadyExists") = [w EXCEPT !.at = "submit", !.reply =
                        IF w.rec \in ingress THEN "alreadyExists" ELSE "accepted"]
      ELSE sent("accepted") = [w EXCEPT !.at = "submit", !.reply =
                        IF w.rec \in ingress THEN "alreadyExists" ELSE "accepted"]
  OBVIOUS
<1> HIDE DEF sent
<1>5. /\ \/ /\ \/ Await(t, kept, [w EXCEPT !.at = "submit"])
               \/ \E y \in {"accepted", "alreadyExists"} : Await(t, kept, sent(y))
            /\ minted' = minted /\ faults' = faults /\ journal' = w.rec
         \/ Admitted(t, failed, w, "uncertain") /\ Fault /\ journal' = journal
      /\ ingress' \in {ingress, ingress \cup {w.rec}}
      /\ UNCHANGED <<index, indexed, operations>>
  BY <1>8 DEF Persisted, kept, failed
<1> HIDE DEF w, c
<1>6. Moved(t, w.s) /\ minted' \in 0 .. MaxTx
  BY <1>1, <1>2, <1>3, <1>5, AwaitMoves, AdmittedMoves DEF IInv, TypeOK
<1>7. Counters
  BY <1>1, <1>5, <1>6, LicenceAssumption DEF Counters, Fault, IInv, TypeOK
<1> QED BY <1>4, <1>6, <1>7, MovedInv DEF w

\* The answer of a submission.
LEMMA SubmitAnsweredInv ==
  ASSUME IInv, NEW t \in Tasks, SubmitAnswered(t)
  PROVE  IInv'
<1> DEFINE w == task[t]
<1>1. /\ Context(w) /\ Good(sess[w.s]) /\ w.rec \in Pending
      /\ w.then = "review" => ~IsUpgrade(w.rec)
  BY WaitingContext DEF SubmitAnswered, IInv, TaskGood
<1>2. PICK a : Admitted(t, sess[w.s], w, a)
  BY DEF SubmitAnswered
<1>3. Moved(t, w.s) /\ minted' \in 0 .. MaxTx
  BY <1>1, <1>2, AdmittedMoves DEF IInv
<1>4. Counters
  BY <1>3 DEF SubmitAnswered, Counters, network, IInv, TypeOK
<1> QED BY <1>3, <1>4, FreeOwn, MovedInv

\* The journal is written or cleared.
LEMMA FlushedInv ==
  ASSUME IInv, NEW t \in Tasks, Flushed(t)
  PROVE  IInv'
<1> DEFINE w == task[t]
           c == sess[w.s]
           kept == [c EXCEPT !.healthy = TRUE, !.mirror = @ \cup {w.rec}]
           failed == [c EXCEPT !.healthy = FALSE]
<1>1. Context(w) /\ Good(c) /\ (w.at = "write" => w.rec \in Pending)
  BY WaitingContext DEF Flushed, IInv, TaskGood
<1>2. Good(failed) /\ (w.at = "write" => Good(kept))
  <2>1. ASSUME w.rec \in Pending
        PROVE  /\ kept \in Session /\ kept.phase = c.phase /\ kept.projection = c.projection
               /\ kept.success = c.success /\ kept.bound = c.bound /\ kept.pendId = c.pendId
               /\ kept.waiting = c.waiting /\ kept.pendRec = c.pendRec
               /\ c.mirror \subseteq kept.mirror
    BY <1>1, <2>1 DEF Good, Sound, Session
  <2> HIDE DEF kept
  <2> QED BY <1>1, <2>1, UpdatesGood, OpenFields DEF Good, Sound
<1> HIDE DEF kept, failed
<1>3. \/ w.at = "write" /\ Finish(t, kept, w)
      \/ Finish(t, c, w)
      \/ Finish(t, failed, w)
  BY DEF Flushed, kept, failed
<1>4. /\ \/ w.at = "write" /\ journal' = w.rec
         \/ journal' \in {journal, None, Corrupt}
      /\ faults' = faults \/ Fault
      /\ UNCHANGED <<minted, network, operations>>
  BY DEF Flushed
<1>5. Moved(t, w.s)
  BY <1>1, <1>2, <1>3, FinishMoves DEF IInv
<1>6. Counters
  BY <1>1, <1>4, LicenceAssumption DEF Counters, network, Fault, IInv, TypeOK
<1> QED BY <1>5, <1>6, FreeOwn, MovedInv

\* A new session, its hydration and its loop.
LEMMA StartInv ==
  ASSUME IInv, NEW t \in Tasks, Start(t), operations' \in 0 .. MaxOperations
  PROVE  IInv'
<1> DEFINE n == [NewSession EXCEPT !.actor = TRUE]
           h(s) == [NewOp(s) EXCEPT !.at = "hydrate"]
<1>1. PICK s \in Sessions, u \in Tasks \ {t} :
        /\ \A v \in Tasks : task[v].s # s
        /\ sess' = [sess EXCEPT ![s] = n]
        /\ current' = s /\ loop' = {u}
        /\ task' = [[task EXCEPT ![t] = h(s)] EXCEPT ![u] = Chain]
  BY DEF Start
<1>2. Good(n) /\ ~n.bound /\ n.pendId = 0 /\ n.waiting = {}
  <2>1. /\ n \in Session /\ ~n.bound /\ n.pendId = 0 /\ n.phase = "resolving"
        /\ n.projection = NewSession.projection /\ n.success = NewSession.success
        /\ n.waiting = {}
    BY NewSessionGood DEF Good, Sound, Session, NewSession
  <2> HIDE DEF n
  <2> QED BY <2>1, NewSessionGood, SoundFields DEF Good, Open
<1>3. s \in 0 .. MaxSessions /\ s # NoSession
  BY LicenceAssumption DEF Sessions, NoSession
<1>4. TaskGood(h(s)) /\ h(s).s = s /\ h(s).at = "hydrate"
  <2>1. Idle \in Task /\ Idle.seen = NoLicence /\ Idle.then = "flush"
    BY IdleGood DEF TaskGood, Idle
  <2>2. /\ h(s) \in Task /\ h(s).s = s /\ h(s).at = "hydrate"
        /\ h(s).seen = NoLicence /\ h(s).then = "flush"
    BY <1>3, <2>1 DEF NewOp, Task, Kinds, Points
  <2> HIDE DEF h
  <2> QED BY <2>2 DEF TaskGood
<1> HIDE DEF n, h
<1>5. \A v \in Tasks :
        task'[v] = IF v = u THEN Chain ELSE IF v = t THEN h(s) ELSE task[v]
  BY <1>1 DEF IInv, TypeOK
<1>6. \A v \in Tasks : TaskGood(task'[v])
  BY <1>4, <1>5, IdleGood DEF IInv
<1>7. \A x \in Sessions : sess'[x] = IF x = s THEN n ELSE sess[x]
  BY <1>1 DEF IInv, TypeOK
<1>8. UNCHANGED <<authenticated, minted, journal, index, indexed, ingress, faults>>
  BY DEF Start, Keep, network
<1>9. TypeOK'
  <2>1. sess' \in [Sessions -> Session]
    BY <1>1, <1>2 DEF IInv, TypeOK, Good, Sound
  <2>2. task' \in [Tasks -> Task]
    BY <1>1, <1>4, IdleGood DEF IInv, TypeOK, TaskGood
  <2> QED BY <1>1, <1>3, <1>8, <2>1, <2>2 DEF IInv, TypeOK
<1>10. HydrationInv'
  <2> SUFFICES ASSUME NEW v \in Tasks, task'[v].at = "hydrate"
               PROVE  /\ ~sess'[task'[v].s].bound /\ sess'[task'[v].s].pendId = 0
                      /\ sess'[task'[v].s].waiting = {}
                      /\ \A x \in Tasks \ {v} : task'[x].s # task'[v].s
    BY DEF HydrationInv
  <2>1. CASE v = t
    BY <1>1, <1>2, <1>3, <1>4, <1>5, <1>7, <2>1, IdleGood
  <2>2. CASE v # t
    <3>1. v # u /\ task'[v] = task[v] /\ task[v].at = "hydrate"
      BY <1>5, <2>2, IdleGood
    <3>2. task[v].s \in Sessions /\ task[v].s # s /\ task[v].s # NoSession
      BY <1>1, <3>1, LicenceAssumption DEF IInv, TaskGood, Sessions, NoSession
    <3>3. /\ ~sess[task[v].s].bound /\ sess[task[v].s].pendId = 0
          /\ sess[task[v].s].waiting = {}
          /\ \A x \in Tasks \ {v} : task[x].s # task[v].s
      BY <3>1 DEF IInv, HydrationInv
    <3> QED BY <1>4, <1>5, <1>7, <3>1, <3>2, <3>3, IdleGood
  <2> QED BY <2>1, <2>2
<1>11. \A x \in Sessions : Good(sess[x])'
  BY <1>2, <1>7, <1>8 DEF IInv, Good, Sound, Open
<1>12. \A v \in Tasks : TaskGood(task[v])'
  BY <1>6, <1>8 DEF TaskGood
<1> QED BY <1>8, <1>9, <1>10, <1>11, <1>12 DEF IInv

\* The sessions the operations change before they go on.
LEMMA OperationSessions ==
  ASSUME NEW c, Good(c)
  PROVE  /\ Good([c EXCEPT !.reachable = FALSE, !.projection = NoLicence,
                           !.phase = IF @ = "lockedOut" THEN @ ELSE "resolving"])
         /\ Good([c EXCEPT !.reachable = TRUE, !.phase =
                      IF @ = "awaitingIndex" /\ ~(LiveUpgrade(c) /\ c.projection # NoLicence)
                      THEN "confirmationDelayed" ELSE @])
         /\ \A b \in BOOLEAN : Good([c EXCEPT !.refreshOnly = @ \/ b,
                          !.phase = "resolving", !.projection = NoLicence])
<1>1. NoLicence \in Ref
  BY LicenceAssumption DEF Ref, NoLicence
<1>2. ASSUME NEW d \in Session, d.projection \in {c.projection, NoLicence},
             d.success = c.success, d.bound = c.bound, d.mirror = c.mirror,
             d.pendId = c.pendId, d.pendRec = c.pendRec, d.waiting = c.waiting,
             d.phase = "entitlementReady" =>
                d.phase = c.phase /\ d.projection = c.projection
      PROVE  Good(d)
  <2>1. Sound(d) /\ Open(d)
    BY <1>2, SoundFields, OpenFields DEF Good
  <2> QED BY <1>2, <2>1 DEF Good
<1>3. Good([c EXCEPT !.reachable = FALSE, !.projection = NoLicence,
                     !.phase = IF @ = "lockedOut" THEN @ ELSE "resolving"])
  <2> DEFINE d == [c EXCEPT !.reachable = FALSE, !.projection = NoLicence,
                     !.phase = IF @ = "lockedOut" THEN @ ELSE "resolving"]
  <2>1. /\ d \in Session /\ d.projection = NoLicence /\ d.success = c.success
        /\ d.bound = c.bound /\ d.mirror = c.mirror /\ d.pendId = c.pendId
        /\ d.pendRec = c.pendRec /\ d.waiting = c.waiting
        /\ d.phase # "entitlementReady"
    BY <1>1 DEF Good, Sound, Session, Phases
  <2> HIDE DEF d
  <2>2. Good(d)
    BY <1>2, <2>1
  <2> QED BY <2>2 DEF d
<1>4. Good([c EXCEPT !.reachable = TRUE, !.phase =
                IF @ = "awaitingIndex" /\ ~(LiveUpgrade(c) /\ c.projection # NoLicence)
                THEN "confirmationDelayed" ELSE @])
  <2> DEFINE d == [c EXCEPT !.reachable = TRUE, !.phase =
                IF @ = "awaitingIndex" /\ ~(LiveUpgrade(c) /\ c.projection # NoLicence)
                THEN "confirmationDelayed" ELSE @]
  <2>1. /\ d \in Session /\ d.projection = c.projection /\ d.success = c.success
        /\ d.bound = c.bound /\ d.mirror = c.mirror /\ d.pendId = c.pendId
        /\ d.pendRec = c.pendRec /\ d.waiting = c.waiting
        /\ d.phase \in {c.phase, "confirmationDelayed"}
    BY DEF Good, Sound, Session, Phases
  <2> HIDE DEF d
  <2>2. d.phase = "entitlementReady" => d.phase = c.phase
    BY <2>1
  <2> QED BY <1>2, <2>1, <2>2 DEF d
<1>5. ASSUME NEW b \in BOOLEAN
      PROVE  Good([c EXCEPT !.refreshOnly = @ \/ b,
                            !.phase = "resolving", !.projection = NoLicence])
  <2> DEFINE d == [c EXCEPT !.refreshOnly = @ \/ b,
                            !.phase = "resolving", !.projection = NoLicence]
  <2>1. /\ d \in Session /\ d.projection = NoLicence /\ d.success = c.success
        /\ d.bound = c.bound /\ d.mirror = c.mirror /\ d.pendId = c.pendId
        /\ d.pendRec = c.pendRec /\ d.waiting = c.waiting
        /\ d.phase = "resolving"
    BY <1>1 DEF Good, Sound, Session, Phases
  <2> HIDE DEF d
  <2> QED BY <1>2, <2>1 DEF d
<1> QED BY <1>3, <1>4, <1>5

\* The operations of the pages.
LEMMA OperationInv ==
  ASSUME IInv, NEW t \in Tasks, Operation(t)
  PROVE  IInv'
<1> DEFINE c == sess[current]
           w == NewOp(current)
           Goal == Moved(t, current) /\ minted' \in 0 .. MaxTx
<1>1. operations' \in 0 .. MaxOperations
  BY LicenceAssumption DEF Operation, IInv, TypeOK
<1>2. CASE Start(t)
  BY <1>1, <1>2, StartInv
<1>3. ASSUME Active(current)
      PROVE  /\ Good(c) /\ Context(w) /\ w.s = current /\ w.then = "flush"
             /\ \A n \in {"flush", "pump", "confirm", "review"} :
                   /\ Context([w EXCEPT !.then = n]) /\ [w EXCEPT !.then = n].s = current
                   /\ [w EXCEPT !.then = n].then = n
  BY <1>3, OpContext
<1>4. minted \in 0 .. MaxTx /\ TypeOK /\ (index # NoLicence => index \in indexed)
  BY DEF IInv, TypeOK
<1> HIDE DEF w, c
<1>5. CASE Resume(t)
  <2>1. Active(current) /\ Pump(t, c, w) /\ UNCHANGED minted
    BY <1>5 DEF Resume, w, c
  <2>2. Goal
    BY <1>3, <1>4, <2>1, PumpMoves
  <2> QED BY <1>1, <1>4, <1>5, <2>1, <2>2, FreeCurrent, MovedInv
      DEF Resume, Keep, network, Counters, IInv, TypeOK
<1>6. CASE GoOnline(t)
  <2> DEFINE v == [w EXCEPT !.then = "pump"]
  <2>1. /\ Active(current)
        /\ \/ FreshQuery(t, c, v)
           \/ Pump(t, [c EXCEPT !.reachable = TRUE], v) /\ UNCHANGED minted
    BY <1>6 DEF GoOnline, w, c
  <2>2. /\ Good([c EXCEPT !.reachable = TRUE])
        /\ Context(v) /\ v.s = current /\ v.then = "pump"
    BY <1>3, <2>1, UpdatesGood
  <2> HIDE DEF v
  <2>3. Goal
    BY <1>3, <1>4, <2>1, <2>2, PumpMoves, FreshQueryMoves
  <2> QED BY <1>1, <1>4, <1>6, <2>1, <2>3, FreeCurrent, MovedInv
      DEF GoOnline, Keep, network, Counters, IInv, TypeOK
<1>7. CASE GoOffline(t) \/ PauseChain(t)
  <2>1. /\ Active(current) /\ UNCHANGED minted
        /\ \/ Pump(t, [c EXCEPT !.reachable = FALSE, !.projection = NoLicence,
                          !.phase = IF @ = "lockedOut" THEN @ ELSE "resolving"], w)
           \/ Pump(t, [c EXCEPT !.reachable = TRUE, !.phase =
                      IF @ = "awaitingIndex" /\ ~(LiveUpgrade(c) /\ c.projection # NoLicence)
                      THEN "confirmationDelayed" ELSE @], w)
    BY <1>7 DEF GoOffline, PauseChain, w, c
  <2>2. Goal
    BY <1>3, <1>4, <2>1, OperationSessions, PumpMoves
  <2> QED BY <1>1, <1>4, <1>7, <2>1, <2>2, FreeCurrent, MovedInv
      DEF GoOffline, PauseChain, Keep, network, Counters, IInv, TypeOK
<1>8. CASE Retry(t) \/ Recover(t)
  <2> DEFINE d == [c EXCEPT !.refreshOnly = FALSE]
  <2>1. /\ Active(current)
        /\ RetryExact(t, c, w) \/ RetryExact(t, d, w) \/ FreshQuery(t, d, w)
    BY <1>8 DEF Retry, Recover, w, c
  <2>2. Good(d)
    BY <1>3, <2>1, UpdatesGood
  <2> HIDE DEF d
  <2>3. Goal
    BY <1>3, <1>4, <2>1, <2>2, RetryExactMoves, FreshQueryMoves
  <2> QED BY <1>1, <1>4, <1>8, <2>1, <2>3, FreeCurrent, MovedInv
      DEF Retry, Recover, Keep, network, Counters, IInv, TypeOK
<1>9. CASE Revalidate(t)
  <2>1. /\ Active(current)
        /\ \E b \in BOOLEAN : FreshQuery(t, [c EXCEPT !.refreshOnly = @ \/ b,
                          !.phase = "resolving", !.projection = NoLicence], w)
    BY <1>9 DEF Revalidate, w, c
  <2>2. Goal
    BY <1>3, <1>4, <2>1, OperationSessions, FreshQueryMoves
  <2> QED BY <1>1, <1>4, <1>9, <2>1, <2>2, FreeCurrent, MovedInv
      DEF Revalidate, Keep, network, Counters, IInv, TypeOK
<1>10. CASE ConfirmUpgrade(t) \/ Acknowledge(t)
  <2> DEFINE d == [c EXCEPT !.success = None]
             v == [w EXCEPT !.then = "confirm", !.shown = d.projection]
  <2>1. /\ Active(current)
        /\ FreshQuery(t, d, v) \/ (Flush(t, d, w) /\ UNCHANGED minted)
    BY <1>10 DEF ConfirmUpgrade, Acknowledge, w, c
  <2>2. Good(d)
    BY <1>3, <2>1, UpdatesGood
  <2> HIDE DEF d
  <2>5. d.projection \in Ref
    BY <2>2 DEF Good, Sound, Session
  <2>3. Context(v) /\ v.s = current /\ v.then = "confirm"
    BY <1>3, <2>1, <2>5 DEF Context, Task
  <2> HIDE DEF v
  <2>4. Goal
    BY <1>3, <1>4, <2>1, <2>2, <2>3, FlushMoves, FreshQueryMoves
  <2> QED BY <1>1, <1>4, <1>10, <2>1, <2>4, FreeCurrent, MovedInv
      DEF ConfirmUpgrade, Acknowledge, Keep, network, Counters, IInv, TypeOK
<1> QED BY <1>2, <1>5, <1>6, <1>7, <1>8, <1>9, <1>10 DEF Operation

\* The timer of a chain, current or stale.
LEMMA LoopFiresInv ==
  ASSUME IInv, NEW t \in Tasks, LoopFires(t)
  PROVE  IInv'
<1>1. Counters
  BY DEF LoopFires, Keep, network, Counters, IInv, TypeOK
<1>2. CASE Active(current)
  <2> DEFINE w == [Chain EXCEPT !.s = current]
  <2>1. Pump(t, sess[current], w) /\ Context(w) /\ w.s = current /\ Good(sess[current])
    BY <1>2, OpContext DEF LoopFires
  <2> HIDE DEF w
  <2>2. Moved(t, current)
    BY <2>1, PumpMoves DEF IInv
  <2> QED BY <1>1, <1>2, <2>2, FreeCurrent, MovedInv
<1>3. CASE ~Active(current)
  <2>1. /\ StopLoop([task EXCEPT ![t] = Idle])
        /\ sess' = sess /\ authenticated' = authenticated
    BY <1>3 DEF LoopFires
  <2>2. NoSession \notin Sessions
    BY LicenceAssumption DEF NoSession, Sessions
  <2>3. sess' = [sess EXCEPT ![NoSession] = NewSession]
    BY <2>1, <2>2 DEF IInv, TypeOK
  <2>4. Moved(t, NoSession)
    BY <2>1, <2>3, NewSessionGood, StopLoopMoves DEF IInv
  <2>5. Free(t, NoSession)
    BY <2>2 DEF Free, IInv, TaskGood
  <2> QED BY <1>1, <2>4, <2>5, MovedInv
<1> QED BY <1>2, <1>3

\* A lock, whatever the continuations are doing.
LEMMA RevokeInv ==
  ASSUME IInv, Revoke
  PROVE  IInv'
<1> DEFINE over(u) == [task[u] EXCEPT !.kind = "overtaken"]
<1>1. /\ authenticated' = FALSE /\ loop' = {} /\ current' = NoSession
      /\ faults' \in 0 .. MaxFaults
      /\ UNCHANGED <<journal, minted, index, indexed, ingress, operations>>
  BY LicenceAssumption DEF Revoke, StopLoop, Fault, network, IInv, TypeOK
<1>2. /\ sess' = [s \in Sessions |-> sess'[s]]
      /\ \A s \in Sessions : sess'[s] \in {sess[s], TornDown(sess[s]), NewSession}
  BY DEF Revoke
<1>3. \A s \in Sessions : Good(sess'[s])
  BY <1>2, TornDownGood, NewSessionGood DEF IInv
<1>4. /\ task' = [u \in Tasks |-> task'[u]]
      /\ \A u \in Tasks : task'[u] \in {task[u], over(u), Idle}
  BY DEF Revoke, StopLoop
<1>5. \A u \in Tasks : /\ TaskGood(over(u)) /\ over(u).at = task[u].at
                       /\ over(u).s = task[u].s
  <2> TAKE u \in Tasks
  <2>1. TaskGood(task[u])
    BY DEF IInv
  <2>2. /\ over(u) \in Task /\ over(u).at = task[u].at /\ over(u).s = task[u].s
        /\ over(u).seen = task[u].seen /\ over(u).rec = task[u].rec
        /\ over(u).then = task[u].then
    BY <2>1 DEF TaskGood, Task, Kinds
  <2> HIDE DEF over
  <2> QED BY <2>1, <2>2 DEF TaskGood
<1> HIDE DEF over
<1>6. \A u \in Tasks : TaskGood(task'[u])
  BY <1>4, <1>5, IdleGood DEF IInv
<1>7. TypeOK'
  <2>1. sess' \in [Sessions -> Session]
    BY <1>2, <1>3 DEF Good, Sound
  <2>2. task' \in [Tasks -> Task]
    BY <1>4, <1>6 DEF TaskGood
  <2>3. NoSession \in 0 .. MaxSessions
    BY LicenceAssumption DEF NoSession
  <2> QED BY <1>1, <2>1, <2>2, <2>3 DEF IInv, TypeOK
<1>8. HydrationInv'
  <2> SUFFICES ASSUME NEW u \in Tasks, task'[u].at = "hydrate"
               PROVE  /\ ~sess'[task'[u].s].bound /\ sess'[task'[u].s].pendId = 0
                      /\ sess'[task'[u].s].waiting = {}
                      /\ \A v \in Tasks \ {u} : task'[v].s # task'[u].s
    BY DEF HydrationInv
  <2>1. task[u].at = "hydrate" /\ task'[u].s = task[u].s
    BY <1>4, <1>5, IdleGood
  <2>2. task[u].s \in Sessions /\ task[u].s # NoSession
    BY <2>1, LicenceAssumption DEF IInv, TaskGood, Sessions, NoSession
  <2> DEFINE d == sess[task[u].s]
  <2>3. d \in Session /\ ~d.bound /\ d.pendId = 0 /\ d.waiting = {}
    BY <2>1, <2>2 DEF IInv, HydrationInv, Good, Sound
  <2>4. ~TornDown(d).bound /\ TornDown(d).pendId = 0 /\ TornDown(d).waiting = {}
    <3> HIDE DEF d
    <3> QED BY <2>3 DEF TornDown, Session
  <2>5. ~NewSession.bound /\ NewSession.pendId = 0 /\ NewSession.waiting = {}
    BY DEF NewSession
  <2>6. ASSUME NEW v \in Tasks \ {u}
        PROVE  task'[v].s # task[u].s
    <3>1. task[v].s # task[u].s
      BY <2>1 DEF IInv, HydrationInv
    <3>2. task'[v].s \in {task[v].s, NoSession}
      BY <1>4, <1>5, IdleGood
    <3> QED BY <2>2, <3>1, <3>2
  <2> QED BY <1>2, <2>1, <2>2, <2>3, <2>4, <2>5, <2>6
<1> QED BY <1>1, <1>3, <1>6, <1>7, <1>8 DEF IInv, Good, Sound, Open, TaskGood

\* The death of the worker.
LEMMA DieInv ==
  ASSUME IInv, Die
  PROVE  IInv'
<1>1. /\ authenticated' = FALSE /\ loop' = {} /\ current' = NoSession
      /\ faults' \in 0 .. MaxFaults /\ journal' \in {journal, Corrupt}
      /\ UNCHANGED <<minted, index, indexed, ingress, operations>>
  BY LicenceAssumption DEF Die, Fault, network, IInv, TypeOK
<1>2. sess' = [s \in Sessions |-> NewSession] /\ task' = [t \in Tasks |-> Idle]
  BY DEF Die
<1>3. \A s \in Sessions : Good(sess'[s])
  BY <1>2, NewSessionGood
<1>4. \A u \in Tasks : TaskGood(task'[u]) /\ task'[u].at # "hydrate"
  BY <1>2, IdleGood
<1>5. TypeOK'
  <2>1. sess' \in [Sessions -> Session] /\ task' \in [Tasks -> Task]
    BY <1>2, NewSessionGood, IdleGood DEF Good, Sound, TaskGood
  <2>2. NoSession \in 0 .. MaxSessions
    BY LicenceAssumption DEF NoSession
  <2> QED BY <1>1, <2>1, <2>2 DEF IInv, TypeOK
<1> QED BY <1>1, <1>3, <1>4, <1>5 DEF IInv, HydrationInv, Good, Sound, Open, TaskGood

\* The index changes: what has been active stays so.
LEMMA IndexInv ==
  ASSUME IInv, Index \/ Shift
  PROVE  IInv'
<1>1. /\ UNCHANGED <<authenticated, current, loop, journal, sess, task, minted,
                     ingress, operations>>
      /\ faults' \in 0 .. MaxFaults /\ index' \in Ref
      /\ indexed' = indexed \cup ({index'} \ {NoLicence})
  <2>1. CASE Index
    <3>1. PICK r \in ingress : index' = r.id /\ indexed' = indexed \cup {r.id}
      BY <2>1 DEF Index
    <3>2. r.id \in Ref /\ r.id # NoLicence
      BY <3>1, LicenceAssumption DEF IInv, TypeOK, Pending, Tx, Ref, NoLicence
    <3> QED BY <2>1, <3>1, <3>2 DEF Index, worker, IInv, TypeOK
  <2>2. CASE Shift
    <3>1. NoLicence \in Ref /\ Foreign \in Ref
      BY LicenceAssumption DEF Ref, NoLicence, Foreign
    <3> QED BY <2>2, <3>1, LicenceAssumption DEF Shift, Fault, worker, IInv, TypeOK
  <2> QED BY <2>1, <2>2
<1>2. TypeOK' /\ HydrationInv' /\ (index' # NoLicence => index' \in indexed')
  BY <1>1 DEF IInv, TypeOK, HydrationInv
<1>3. \A s \in Sessions : Good(sess[s])'
  BY <1>1 DEF IInv, Good, Sound, Open
<1>4. \A t \in Tasks : TaskGood(task[t])'
  BY <1>1 DEF IInv, TaskGood
<1> QED BY <1>2, <1>3, <1>4 DEF IInv

\* Steps that change nothing the invariant tells apart.
LEMMA AuthenticateInv ==
  ASSUME IInv, Authenticate \/ UNCHANGED vars
  PROVE  IInv'
<1>1. /\ UNCHANGED <<current, loop, journal, sess, task, minted, index, indexed,
                     ingress, faults, operations>>
      /\ authenticated' \in BOOLEAN
  BY DEF Authenticate, vars, worker, network, IInv, TypeOK
<1>2. \A s \in Sessions : Good(sess[s])'
  BY <1>1 DEF IInv, Good, Sound, Open
<1>3. \A t \in Tasks : TaskGood(task[t])'
  BY <1>1 DEF IInv, TaskGood
<1>4. TypeOK' /\ HydrationInv' /\ (index' # NoLicence => index' \in indexed')
  BY <1>1 DEF IInv, TypeOK, HydrationInv
<1> QED BY <1>2, <1>3, <1>4 DEF IInv

-----------------------------------------------------------------------------
(* The theorems, for any number of tasks, sessions, transactions, operations *)
(* and faults.                                                               *)

\* Initial states.
LEMMA InitInv == Init => IInv
<1> SUFFICES ASSUME Init PROVE IInv
  OBVIOUS
<1>1. \A s \in Sessions : sess[s] = NewSession
  BY DEF Init
<1>2. \A t \in Tasks : task[t] = Idle
  BY DEF Init
<1>3. TypeOK
  <2>1. sess \in [Sessions -> Session] /\ task \in [Tasks -> Task]
    BY NewSessionGood, IdleGood DEF Init, Good, Sound, TaskGood
  <2>2. /\ NoSession \in 0 .. MaxSessions /\ NoLicence \in Ref /\ Foreign \in Ref
        /\ 0 \in 0 .. MaxTx /\ 0 \in 0 .. MaxFaults /\ 0 \in 0 .. MaxOperations
    BY LicenceAssumption DEF NoSession, NoLicence, Foreign, Ref
  <2> QED BY <2>1, <2>2 DEF Init, TypeOK
<1>4. \A s \in Sessions : Good(sess[s])
  BY <1>1, NewSessionGood
<1>5. \A t \in Tasks : TaskGood(task[t]) /\ task[t].at # "hydrate"
  BY <1>2, IdleGood
<1> QED BY <1>3, <1>4, <1>5 DEF IInv, HydrationInv, Init

\* The invariant is inductive.
LEMMA StepInv == IInv /\ [Next]_vars => IInv'
<1> SUFFICES ASSUME IInv, [Next]_vars PROVE IInv'
  OBVIOUS
<1>1. ASSUME NEW t \in Tasks, Operation(t) PROVE IInv'
  BY <1>1, OperationInv
<1>2. ASSUME NEW t \in Tasks, LoopFires(t) PROVE IInv'
  BY <1>2, LoopFiresInv
<1>3. ASSUME NEW t \in Tasks, Step(t) PROVE IInv'
  BY <1>3, HydratedInv, QueryAnsweredInv, PersistedInv, SubmitAnsweredInv, FlushedInv
     DEF Step
<1>4. CASE Authenticate \/ UNCHANGED vars
  BY <1>4, AuthenticateInv
<1>5. CASE Revoke \/ Die
  BY <1>5, RevokeInv, DieInv
<1>6. CASE Index \/ Shift
  BY <1>6, IndexInv
<1> QED BY <1>1, <1>2, <1>3, <1>4, <1>5, <1>6 DEF Next

\* The invariant holds in every reachable state.
LEMMA Invariance == Spec => [](TypeOK /\ IInv)
<1>1. IInv => TypeOK
  BY DEF IInv
<1> QED BY <1>1, InitInv, StepInv, PTL DEF Spec

\* Access is granted only by a licence the network has had active, never by an
\* admission answer (coordinator.ts, applyQueryOutcome and submitPending); the
\* types of TypeOK hold with it.
THEOREM AccessTheorem == Spec => [](TypeOK /\ AccessIsIndexed)
<1>1. IInv => AccessIsIndexed
  BY DEF IInv, Good, AccessIsIndexed, Sound
<1> QED BY <1>1, Invariance, PTL

\* Local success is claimed only for an upgrade whose own transaction the
\* network has had active (coordinator.ts, reconcilePendingAgainstActive).
THEOREM SuccessTheorem == Spec => []SuccessIsOwnUpgrade
<1>1. IInv => SuccessIsOwnUpgrade
  BY DEF IInv, Good, Sound, SuccessIsOwnUpgrade
<1> QED BY <1>1, Invariance, PTL

\* The pending operation of a live coordinator stays in the mirror that
\* flushDurable writes from (licence-session.ts).
THEOREM MirrorTheorem == Spec => []PendingIsMirrored
<1>1. IInv => PendingIsMirrored
  BY DEF IInv, Good, Sound, PendingIsMirrored
<1> QED BY <1>1, Invariance, PTL

\* A session never waits for two transactions: handleNoActive builds with an
\* empty mirror only, confirmUpgrade after an active licence (coordinator.ts).
THEOREM SecondTransactionTheorem == Spec => []NoSecondTransaction
<1>1. IInv => NoSecondTransaction
  BY DEF IInv, Good, Open, NoSecondTransaction
<1> QED BY <1>1, Invariance, PTL

\* The coordinator, its journal and the network keep their types, over locks
\* and crashes at any point.
THEOREM LicenceTypes == Spec => []TypeOK
BY AccessTheorem, PTL
=============================================================================
