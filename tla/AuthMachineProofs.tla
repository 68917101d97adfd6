-------------------------- MODULE AuthMachineProofs ---------------------------
(* What holds of the authentication machine for any number of epochs and of  *)
(* election queries, with other tabs that do what they like.                 *)
(*                                                                           *)
(* The machine is a record and an event a function of it, so most lemmas are *)
(* about records: from the fields, by way of the transitions, to Follows,    *)
(* what every event does that is not the end of a verification.              *)
EXTENDS AuthMachine, TLAPS

\* What a state has asked the worker for, if it has asked for anything.
Asks(auth, op) ==
    \/ auth \in {"initializing", "recheck"} /\ op = "inspect"
    \/ auth = "running" /\ op \in {"onboard", "robbed", "unheard"}
    \/ auth = "cleanup" /\ op = "clean"
    \/ auth = "unlocking" /\ op = "unlock"
    \/ auth = "verifying" /\ op \in {"verify", "promote"}
    \/ auth = "missing" /\ op = "confirm"
    \/ auth = "removing" /\ op \in {"capability", "remove", "unheard", "robbed", "rejected"}

\* What the worker answers by an outcome.
Operations == {"inspect", "unlock", "verify", "promote", "confirm", "onboard", "clean", "remove"}

\* A machine between two events: it waits for what its state has asked for,
\* under the id it listens for, or for nothing.
Sound(s) ==
    /\ s \in Machine
    /\ (s.call.op = "none" <=> s.call.id = NoOp)
    /\ s.call.op # "none" => s.call.id = s.activeOp /\ Asks(s.auth, s.call.op)
    /\ s.auth \in Settled \cup {"stopped"} => s.activeOp = NoOp
    /\ s.auth \in Busy /\ s.call.op = "none" =>
          s.auth = "verifying" /\ s.outcome = "offline" /\ s.activeOp = NoOp

\* A transition within the epoch.
Goes(s, t, auth) == Sound(t) /\ t.auth = auth /\ t.epoch = s.epoch /\ t.receipt = s.receipt

\* What an event does that gives no access: epochs go up, and from an access
\* they do; a receipt is kept within its epoch or forgotten.
Follows(s, t) ==
    /\ Sound(t) /\ t.auth # "authenticated"
    /\ t.epoch >= s.epoch
    /\ s.auth = "authenticated" => t.epoch > s.epoch
    /\ t.receipt = 0 \/ (t.receipt = s.receipt /\ t.epoch = s.epoch)

-----------------------------------------------------------------------------
(* Records.                                                                  *)

\* A machine with another auth.
LEMMA SetAuth ==
    ASSUME NEW s \in Machine, NEW v \in AuthStates,
           NEW t, t = [s EXCEPT !.auth = v]
    PROVE  /\ t \in Machine /\ t.auth = v
           /\ t.epoch = s.epoch /\ t.activeOp = s.activeOp /\ t.call = s.call /\ t.outcome = s.outcome
           /\ t.kind = s.kind /\ t.cleanupFailed = s.cleanupFailed /\ t.receipt = s.receipt
BY DEF Machine

\* A machine with another epoch.
LEMMA SetEpoch ==
    ASSUME NEW s \in Machine, NEW v \in Nat,
           NEW t, t = [s EXCEPT !.epoch = v]
    PROVE  /\ t \in Machine /\ t.epoch = v
           /\ t.auth = s.auth /\ t.activeOp = s.activeOp /\ t.call = s.call /\ t.outcome = s.outcome
           /\ t.kind = s.kind /\ t.cleanupFailed = s.cleanupFailed /\ t.receipt = s.receipt
BY DEF Machine

\* A machine with another activeOp.
LEMMA SetActiveOp ==
    ASSUME NEW s \in Machine, NEW v \in 0 .. 2,
           NEW t, t = [s EXCEPT !.activeOp = v]
    PROVE  /\ t \in Machine /\ t.activeOp = v
           /\ t.auth = s.auth /\ t.epoch = s.epoch /\ t.call = s.call /\ t.outcome = s.outcome
           /\ t.kind = s.kind /\ t.cleanupFailed = s.cleanupFailed /\ t.receipt = s.receipt
BY DEF Machine

\* A machine with another call.
LEMMA SetCall ==
    ASSUME NEW s \in Machine, NEW v \in [op : PageOps, id : 0 .. 2],
           NEW t, t = [s EXCEPT !.call = v]
    PROVE  /\ t \in Machine /\ t.call = v
           /\ t.auth = s.auth /\ t.epoch = s.epoch /\ t.activeOp = s.activeOp /\ t.outcome = s.outcome
           /\ t.kind = s.kind /\ t.cleanupFailed = s.cleanupFailed /\ t.receipt = s.receipt
BY DEF Machine

\* A machine with another outcome.
LEMMA SetOutcome ==
    ASSUME NEW s \in Machine, NEW v \in Outcomes \cup {"none", "other"},
           NEW t, t = [s EXCEPT !.outcome = v]
    PROVE  /\ t \in Machine /\ t.outcome = v
           /\ t.auth = s.auth /\ t.epoch = s.epoch /\ t.activeOp = s.activeOp /\ t.call = s.call
           /\ t.kind = s.kind /\ t.cleanupFailed = s.cleanupFailed /\ t.receipt = s.receipt
BY DEF Machine

\* A machine with another kind.
LEMMA SetKind ==
    ASSUME NEW s \in Machine, NEW v \in Kinds \cup {NoKind},
           NEW t, t = [s EXCEPT !.kind = v]
    PROVE  /\ t \in Machine /\ t.kind = v
           /\ t.auth = s.auth /\ t.epoch = s.epoch /\ t.activeOp = s.activeOp /\ t.call = s.call
           /\ t.outcome = s.outcome /\ t.cleanupFailed = s.cleanupFailed /\ t.receipt = s.receipt
BY DEF Machine

\* A machine with another cleanupFailed.
LEMMA SetCleanupFailed ==
    ASSUME NEW s \in Machine, NEW v \in BOOLEAN,
           NEW t, t = [s EXCEPT !.cleanupFailed = v]
    PROVE  /\ t \in Machine /\ t.cleanupFailed = v
           /\ t.auth = s.auth /\ t.epoch = s.epoch /\ t.activeOp = s.activeOp /\ t.call = s.call
           /\ t.outcome = s.outcome /\ t.kind = s.kind /\ t.receipt = s.receipt
BY DEF Machine

\* A machine with another receipt.
LEMMA SetReceipt ==
    ASSUME NEW s \in Machine, NEW v \in Nat,
           NEW t, t = [s EXCEPT !.receipt = v]
    PROVE  /\ t \in Machine /\ t.receipt = v
           /\ t.auth = s.auth /\ t.epoch = s.epoch /\ t.activeOp = s.activeOp /\ t.call = s.call
           /\ t.outcome = s.outcome /\ t.kind = s.kind /\ t.cleanupFailed = s.cleanupFailed
BY DEF Machine

-----------------------------------------------------------------------------
(* Transitions.                                                              *)

\* Clearing the operation.
LEMMA ClearSets ==
    ASSUME NEW s \in Machine, NEW t, t = Clear(s)
    PROVE  /\ t \in Machine /\ t.activeOp = NoOp /\ t.auth = s.auth /\ t.call = s.call
           /\ t.epoch = s.epoch /\ t.receipt = s.receipt
BY SetActiveOp, NoOp \in 0 .. 2 DEF Clear, NoOp

\* Setting the outcome.
LEMMA OutcomeSets ==
    ASSUME NEW s \in Machine, NEW code, NEW t, t = Outcome(s, code)
    PROVE  /\ t \in Machine /\ t.activeOp = s.activeOp /\ t.auth = s.auth /\ t.call = s.call
           /\ t.epoch = s.epoch /\ t.receipt = s.receipt
           /\ code = "offline" => t.outcome = "offline"
<1> DEFINE v == IF code \in Outcomes \cup {"none"} THEN code ELSE "other"
<1>1. v \in Outcomes \cup {"none", "other"} /\ (code = "offline" => v = "offline")
  BY DEF Outcomes
<1>2. t = [s EXCEPT !.outcome = v]
  BY DEF Outcome
<1> HIDE DEF v
<1> QED  BY <1>1, <1>2, SetOutcome

\* A new epoch has no operation and no receipt.
LEMMA EpochSets ==
    ASSUME NEW s \in Machine, NEW t, t = Epoch(s)
    PROVE  /\ t \in Machine /\ t.activeOp = NoOp /\ t.auth = s.auth /\ t.call = s.call
           /\ t.epoch = s.epoch + 1 /\ t.receipt = 0
<1> DEFINE a == [s EXCEPT !.epoch = s.epoch + 1]
           b == [a EXCEPT !.activeOp = NoOp]
<1>1. s.epoch + 1 \in Nat /\ NoOp \in 0 .. 2 /\ 0 \in Nat
  BY s.epoch \in Nat DEF NoOp, Machine
<1>2. a = [s EXCEPT !.epoch = s.epoch + 1]
  OBVIOUS
<1>3. b = [a EXCEPT !.activeOp = NoOp]
  OBVIOUS
<1>4. t = [b EXCEPT !.receipt = 0]
  BY DEF Epoch
<1> HIDE DEF a, b
<1>5. a \in Machine /\ a.epoch = s.epoch + 1 /\ a.auth = s.auth /\ a.call = s.call
  BY <1>1, <1>2, SetEpoch
<1>6. /\ b \in Machine /\ b.epoch = s.epoch + 1 /\ b.auth = s.auth /\ b.call = s.call
      /\ b.activeOp = NoOp
  BY <1>1, <1>3, <1>5, SetActiveOp
<1> QED  BY <1>1, <1>4, <1>6, SetReceipt

\* Invoking an actor with no operation active: its answer will be heard.
LEMMA InvokeSets ==
    ASSUME NEW s \in Machine, s.activeOp = NoOp, NEW auth \in AuthStates,
           NEW op \in PageOps \ {"none"}, NEW t, t = Invoke(s, auth, op)
    PROVE  /\ t \in Machine /\ t.auth = auth /\ t.call = [op |-> op, id |-> 1] /\ t.activeOp = 1
           /\ t.epoch = s.epoch /\ t.receipt = s.receipt
<1> DEFINE call == [op |-> op, id |-> 1]
           a == [s EXCEPT !.auth = auth]
           b == [a EXCEPT !.call = call]
<1>1. call \in [op : PageOps, id : 0 .. 2] /\ 1 \in 0 .. 2
  OBVIOUS
<1>2. a = [s EXCEPT !.auth = auth]
  OBVIOUS
<1>3. b = [a EXCEPT !.call = call]
  OBVIOUS
<1>4. t = [b EXCEPT !.activeOp = 1]
  BY DEF Invoke, NoOp
<1> HIDE DEF a, b, call
<1>5. a \in Machine /\ a.auth = auth /\ a.epoch = s.epoch /\ a.receipt = s.receipt
  BY <1>2, SetAuth
<1>6. b \in Machine /\ b.auth = auth /\ b.epoch = s.epoch /\ b.receipt = s.receipt
      /\ b.call = call
  BY <1>1, <1>3, <1>5, SetCall
<1>7. /\ t \in Machine /\ t.auth = auth /\ t.call = call /\ t.activeOp = 1
      /\ t.epoch = s.epoch /\ t.receipt = s.receipt
  BY <1>1, <1>4, <1>6, SetActiveOp
<1> QED  BY <1>7 DEF call

\* A machine that has invoked what its state asks for is sound.
LEMMA InvokeGoes ==
    ASSUME NEW s \in Machine, s.activeOp = NoOp, NEW auth \in Busy \cup {"missing"},
           NEW op \in PageOps \ {"none"}, Asks(auth, op)
    PROVE  Goes(s, Invoke(s, auth, op), auth)
<1> DEFINE t == Invoke(s, auth, op)
<1>1. auth \in AuthStates
  BY DEF AuthStates
<1>2. /\ t \in Machine /\ t.auth = auth /\ t.call = [op |-> op, id |-> 1] /\ t.activeOp = 1
      /\ t.epoch = s.epoch /\ t.receipt = s.receipt
  BY <1>1, InvokeSets
<1> HIDE DEF t
<1>3. t.call.op = op /\ t.call.id = 1
  BY <1>2
<1>4. auth \notin Settled \cup {"stopped"}
  BY DEF Busy, Settled
<1>5. Sound(t)
  BY <1>2, <1>3, <1>4 DEF Sound, NoOp
<1> QED  BY <1>2, <1>5 DEF Goes, t

\* A state that waits for the user waits for nothing else.
LEMMA SettledGoes ==
    ASSUME NEW s \in Machine, NEW auth \in Settled, NEW t, t = Enter(s, auth)
    PROVE  Goes(s, t, auth)
<1> DEFINE v == IF auth \in {"noLocalUser", "authenticated"} THEN "none" ELSE s.outcome
           k == IF auth = "noLocalUser" THEN NoKind ELSE s.kind
           f == IF auth \in {"locked", "authenticated"} THEN FALSE ELSE s.cleanupFailed
           a == [s EXCEPT !.auth = auth]
           b == [a EXCEPT !.call = NoCall]
           c == [b EXCEPT !.activeOp = NoOp]
           d == [c EXCEPT !.outcome = v]
           e == [d EXCEPT !.kind = k]
<1>1. /\ auth \in AuthStates /\ NoCall \in [op : PageOps, id : 0 .. 2] /\ NoOp \in 0 .. 2
      /\ NoCall.op = "none" /\ NoCall.id = NoOp
  BY DEF AuthStates, NoCall, PageOps, NoOp
<1>2. v \in Outcomes \cup {"none", "other"} /\ k \in Kinds \cup {NoKind} /\ f \in BOOLEAN
  BY DEF Machine
<1>3. a = [s EXCEPT !.auth = auth]
  OBVIOUS
<1>4. b = [a EXCEPT !.call = NoCall]
  OBVIOUS
<1>5. c = [b EXCEPT !.activeOp = NoOp]
  OBVIOUS
<1>6. d = [c EXCEPT !.outcome = v]
  OBVIOUS
<1>7. e = [d EXCEPT !.kind = k]
  OBVIOUS
<1>8. t = [e EXCEPT !.cleanupFailed = f]
  BY DEF Enter, Settled
<1> HIDE DEF a, b, c, d, e, v, k, f
<1>9. a \in Machine /\ a.auth = auth /\ a.epoch = s.epoch /\ a.receipt = s.receipt
  BY <1>1, <1>3, SetAuth
<1>10. /\ b \in Machine /\ b.auth = auth /\ b.epoch = s.epoch /\ b.receipt = s.receipt
       /\ b.call = NoCall
  BY <1>1, <1>4, <1>9, SetCall
<1>11. /\ c \in Machine /\ c.auth = auth /\ c.epoch = s.epoch /\ c.receipt = s.receipt
       /\ c.call = NoCall /\ c.activeOp = NoOp
  BY <1>1, <1>5, <1>10, SetActiveOp
<1>12. /\ d \in Machine /\ d.auth = auth /\ d.epoch = s.epoch /\ d.receipt = s.receipt
       /\ d.call = NoCall /\ d.activeOp = NoOp
  BY <1>2, <1>6, <1>11, SetOutcome
<1>13. /\ e \in Machine /\ e.auth = auth /\ e.epoch = s.epoch /\ e.receipt = s.receipt
       /\ e.call = NoCall /\ e.activeOp = NoOp
  BY <1>2, <1>7, <1>12, SetKind
<1>14. /\ t \in Machine /\ t.auth = auth /\ t.epoch = s.epoch /\ t.receipt = s.receipt
       /\ t.call = NoCall /\ t.activeOp = NoOp
  BY <1>2, <1>8, <1>13, SetCleanupFailed
<1>15. auth \notin Busy
  BY DEF Busy, Settled
<1> QED  BY <1>1, <1>14, <1>15 DEF Goes, Sound

\* The missing profile waits for the user as well.
LEMMA MissingGoes ==
    ASSUME NEW s \in Machine, NEW t, t = Enter(s, "missing")
    PROVE  Goes(s, t, "missing")
<1> DEFINE a == [s EXCEPT !.auth = "missing"]
           b == [a EXCEPT !.call = NoCall]
<1>1. /\ "missing" \in AuthStates /\ NoCall \in [op : PageOps, id : 0 .. 2]
      /\ "none" \in Outcomes \cup {"none", "other"}
      /\ NoCall.op = "none" /\ NoCall.id = NoOp
  BY DEF AuthStates, NoCall, PageOps, NoOp
<1>2. a = [s EXCEPT !.auth = "missing"]
  OBVIOUS
<1>3. b = [a EXCEPT !.call = NoCall]
  OBVIOUS
<1>4. t = [b EXCEPT !.outcome = "none"]
  BY DEF Enter, Settled
<1> HIDE DEF a, b
<1>5. a \in Machine /\ a.auth = "missing" /\ a.epoch = s.epoch /\ a.receipt = s.receipt
  BY <1>1, <1>2, SetAuth
<1>6. /\ b \in Machine /\ b.auth = "missing" /\ b.epoch = s.epoch /\ b.receipt = s.receipt
      /\ b.call = NoCall
  BY <1>1, <1>3, <1>5, SetCall
<1>7. /\ t \in Machine /\ t.auth = "missing" /\ t.epoch = s.epoch /\ t.receipt = s.receipt
      /\ t.call = NoCall
  BY <1>1, <1>4, <1>6, SetOutcome
<1> QED  BY <1>1, <1>7 DEF Goes, Sound, Settled, Busy

\* A state that invokes an actor asks for what it waits for.
LEMMA BusyGoes ==
    ASSUME NEW s \in Machine, s.activeOp = NoOp, NEW auth \in Busy
    PROVE  Goes(s, Enter(s, auth), auth)
<1>1. \E op \in PageOps \ {"none"} : Enter(s, auth) = Invoke(s, auth, op) /\ Asks(auth, op)
  BY DEF Enter, Busy, Settled, PageOps, Asks
<1> QED  BY <1>1, InvokeGoes

\* Every state is entered soundly from a machine without an operation.
LEMMA EnterGoes ==
    ASSUME NEW s \in Machine, NEW auth \in Busy \cup Settled \cup {"missing"},
           auth \in Settled \/ s.activeOp = NoOp
    PROVE  Goes(s, Enter(s, auth), auth)
BY BusyGoes, SettledGoes, MissingGoes

\* The presentation fields are no part of what a state waits for.
LEMMA KindGoes ==
    ASSUME NEW s, NEW t, NEW auth, Goes(s, t, auth), NEW k \in Kinds \cup {NoKind}
    PROVE  Goes(s, [t EXCEPT !.kind = k], auth)
<1> DEFINE u == [t EXCEPT !.kind = k]
<1>1. t \in Machine
  BY DEF Goes, Sound
<1>2. /\ u \in Machine /\ u.auth = t.auth /\ u.epoch = t.epoch /\ u.receipt = t.receipt
      /\ u.call = t.call /\ u.activeOp = t.activeOp /\ u.outcome = t.outcome
  BY <1>1, SetKind
<1> HIDE DEF u
<1>3. Goes(s, u, auth)
  BY <1>2 DEF Goes, Sound
<1> QED  BY <1>3 DEF u

\* The mark of a failed cleanup is none either.
LEMMA CleanupFailedGoes ==
    ASSUME NEW s, NEW t, NEW auth, Goes(s, t, auth), NEW b \in BOOLEAN
    PROVE  Goes(s, [t EXCEPT !.cleanupFailed = b], auth)
<1> DEFINE u == [t EXCEPT !.cleanupFailed = b]
<1>1. t \in Machine
  BY DEF Goes, Sound
<1>2. /\ u \in Machine /\ u.auth = t.auth /\ u.epoch = t.epoch /\ u.receipt = t.receipt
      /\ u.call = t.call /\ u.activeOp = t.activeOp /\ u.outcome = t.outcome
  BY <1>1, SetCleanupFailed
<1> HIDE DEF u
<1>3. Goes(s, u, auth)
  BY <1>2 DEF Goes, Sound
<1> QED  BY <1>3 DEF u

\* The end of an operation: it is cleared, its outcome shown, a state entered.
LEMMA AfterGoes ==
    ASSUME NEW s \in Machine, NEW code, NEW auth \in Busy \cup Settled \cup {"missing"}
    PROVE  Goes(s, After(s, code, auth), auth)
<1> DEFINE t == Outcome(Clear(s), code)
<1>1. Clear(s) \in Machine /\ Clear(s).activeOp = NoOp
      /\ Clear(s).epoch = s.epoch /\ Clear(s).receipt = s.receipt
  BY ClearSets
<1>2. t \in Machine /\ t.activeOp = NoOp /\ t.epoch = s.epoch /\ t.receipt = s.receipt
  BY <1>1, OutcomeSets
<1>3. After(s, code, auth) = Enter(t, auth)
  BY DEF After
<1> HIDE DEF t
<1>4. Goes(t, Enter(t, auth), auth)
  BY <1>2, EnterGoes
<1> QED  BY <1>2, <1>3, <1>4 DEF Goes

\* A failure that clears the support code.
LEMMA FailedGoes ==
    ASSUME NEW s \in Machine, NEW code
    PROVE  Goes(s, Failed(s, code, "recoverable"), "recoverable")
<1>1. Goes(s, After(s, code, "recoverable"), "recoverable")
  BY AfterGoes DEF Settled
<1> QED  BY <1>1, CleanupFailedGoes DEF Failed

-----------------------------------------------------------------------------
(* Results.                                                                  *)

\* A result that leaves the machine without access, in the same epoch.
Ends(s, t) == Goes(s, t, t.auth) /\ t.auth # "authenticated"

\* What the worker may answer to an operation.
Fits(op, code) ==
    \/ op = "inspect" /\ code \in {"absent", "locked", "corrupt", "unavailable"}
    \/ op = "unlock" /\ code \in {"success", "wrong", "throttled", "failure"}
    \/ op \in {"verify", "confirm"} /\ code \in {"success", "missing", "mismatch", "failure", "offline"}
    \/ op = "promote" /\ code \in {"success", "failure"}
    \/ op = "onboard" /\ code = "completed"
    \/ op = "clean" /\ code \in {"complete", "picker", "failed"}
    \/ op = "remove" /\ code \in {"removed", "failure", "remediation"}

\* A transition to a state without access ends the operation.
LEMMA GoesEnds ==
    ASSUME NEW s, NEW t, NEW auth, Goes(s, t, auth), auth # "authenticated"
    PROVE  Ends(s, t)
BY DEF Ends, Goes

\* An operation is cleared and nothing is asked: behind the verification gate
\* when there was no network, and with a profile that is missing still.
LEMMA QuietGoes ==
    ASSUME NEW s \in Machine, NEW code,
           s.auth = "missing" \/ (s.auth = "verifying" /\ code = "offline")
    PROVE  Goes(s, [Outcome(Clear(s), code) EXCEPT !.call = NoCall], s.auth)
<1> DEFINE c == Clear(s)
           o == Outcome(c, code)
           t == [o EXCEPT !.call = NoCall]
<1>1. NoCall \in [op : PageOps, id : 0 .. 2] /\ NoCall.op = "none" /\ NoCall.id = NoOp
  BY DEF NoCall, PageOps, NoOp
<1>2. /\ c \in Machine /\ c.activeOp = NoOp /\ c.auth = s.auth
      /\ c.epoch = s.epoch /\ c.receipt = s.receipt
  BY ClearSets
<1> HIDE DEF c
<1>3. /\ o \in Machine /\ o.activeOp = NoOp /\ o.auth = s.auth
      /\ o.epoch = s.epoch /\ o.receipt = s.receipt
      /\ code = "offline" => o.outcome = "offline"
  BY <1>2, OutcomeSets
<1> HIDE DEF o
<1>4. /\ t \in Machine /\ t.call = NoCall /\ t.activeOp = NoOp /\ t.auth = s.auth
      /\ t.epoch = s.epoch /\ t.receipt = s.receipt /\ t.outcome = o.outcome
  BY <1>1, <1>3, SetCall
<1> HIDE DEF t
<1>5. Goes(s, t, s.auth)
  BY <1>1, <1>3, <1>4 DEF Goes, Sound, Settled, Busy
<1> QED  BY <1>5 DEF t, o, c

\* startup and the re-inspection of a flow.
LEMMA InspectEnds ==
    ASSUME NEW s \in Machine, NEW code \in {"absent", "locked", "corrupt", "unavailable"}
    PROVE  Ends(s, InspectResult(s, code))
<1>1. CASE s.auth = "recheck" /\ code = "absent"
  <2>1. Goes(s, After(s, "none", "running"), "running")
    BY AfterGoes DEF Busy
  <2> QED  BY <1>1, <2>1, GoesEnds DEF InspectResult
<1>2. CASE s.auth = "recheck" /\ code # "absent"
  <2>1. Clear(s) \in Machine /\ Clear(s).activeOp = NoOp
        /\ Clear(s).epoch = s.epoch /\ Clear(s).receipt = s.receipt
    BY ClearSets
  <2>2. Goes(Clear(s), Enter(Clear(s), "initializing"), "initializing")
    BY <2>1, EnterGoes DEF Busy
  <2>3. Goes(s, Enter(Clear(s), "initializing"), "initializing")
    BY <2>1, <2>2 DEF Goes
  <2>4. Goes(s, [Enter(Clear(s), "initializing") EXCEPT !.kind = NoKind], "initializing")
    BY <2>3, KindGoes
  <2> QED  BY <1>2, <2>4, GoesEnds DEF InspectResult
<1>3. CASE s.auth # "recheck"
  <2>1. /\ Goes(s, After(s, code, "noLocalUser"), "noLocalUser")
        /\ Goes(s, After(s, code, "locked"), "locked")
        /\ Goes(s, After(s, code, "recoverable"), "recoverable")
        /\ Goes(s, After(s, code, "blocked"), "blocked")
    BY AfterGoes DEF Settled
  <2> QED  BY <1>3, <2>1, GoesEnds DEF InspectResult
<1> QED  BY <1>1, <1>2, <1>3

\* An unlock.
LEMMA UnlockEnds ==
    ASSUME NEW s \in Machine, NEW code \in {"success", "wrong", "throttled", "failure"}
    PROVE  Ends(s, UnlockResult(s, code))
<1>1. /\ Goes(s, After(s, code, "verifying"), "verifying")
      /\ Goes(s, After(s, code, "locked"), "locked")
      /\ Goes(s, Failed(s, code, "recoverable"), "recoverable")
  BY AfterGoes, FailedGoes DEF Settled, Busy
<1> QED  BY <1>1, GoesEnds DEF UnlockResult

\* A verification, behind the gate.
LEMMA VerifyEnds ==
    ASSUME NEW s \in Machine, s.auth = "verifying",
           NEW code \in {"success", "missing", "mismatch", "failure", "offline"}
    PROVE  /\ code # "success" => Ends(s, VerifyResult(s, code))
           /\ code = "success" => Goes(s, VerifyResult(s, code), "authenticated")
<1>1. /\ Goes(s, After(s, code, "authenticated"), "authenticated")
      /\ Goes(s, After(s, code, "missing"), "missing")
      /\ Goes(s, After(s, code, "blocked"), "blocked")
      /\ Goes(s, Failed(s, code, "recoverable"), "recoverable")
  BY AfterGoes, FailedGoes DEF Settled
<1>2. code = "offline" =>
          Goes(s, [Outcome(Clear(s), code) EXCEPT !.call = NoCall], "verifying")
  BY QuietGoes
<1> QED  BY <1>1, <1>2, GoesEnds DEF VerifyResult

\* A verification for a profile that was missing.
LEMMA ConfirmEnds ==
    ASSUME NEW s, Sound(s), s.auth = "missing",
           NEW code \in {"success", "missing", "mismatch", "failure", "offline"}
    PROVE  /\ code # "success" => Ends(s, ConfirmResult(s, code))
           /\ code = "success" => Goes(s, ConfirmResult(s, code), "authenticated")
<1>1. s \in Machine
  BY DEF Sound
<1>2. /\ Goes(s, After(s, code, "authenticated"), "authenticated")
      /\ Goes(s, After(s, code, "blocked"), "blocked")
      /\ Goes(s, Failed(s, code, "recoverable"), "recoverable")
  BY <1>1, AfterGoes, FailedGoes DEF Settled
<1>3. Goes(s, [Outcome(Clear(s), code) EXCEPT !.call = NoCall], "missing")
  BY <1>1, QuietGoes
<1>4. Goes(s, [s EXCEPT !.call = NoCall], "missing")
  <2> DEFINE t == [s EXCEPT !.call = NoCall]
  <2>1. NoCall \in [op : PageOps, id : 0 .. 2] /\ NoCall.op = "none" /\ NoCall.id = NoOp
    BY DEF NoCall, PageOps, NoOp
  <2>2. /\ t \in Machine /\ t.call = NoCall /\ t.auth = s.auth
        /\ t.epoch = s.epoch /\ t.receipt = s.receipt
    BY <1>1, <2>1, SetCall
  <2> HIDE DEF t
  <2>3. Goes(s, t, "missing")
    BY <2>1, <2>2 DEF Goes, Sound, Settled, Busy
  <2> QED  BY <2>3 DEF t
<1> QED  BY <1>2, <1>3, <1>4, GoesEnds DEF ConfirmResult

\* The cleanup of a flow.
LEMMA CleanEnds ==
    ASSUME NEW s \in Machine, NEW code \in {"complete", "picker", "failed"}
    PROVE  Ends(s, CleanResult(s, code))
<1>1. /\ Goes(s, After(s, "none", "recheck"), "recheck")
      /\ Goes(s, After(s, "failure", "blocked"), "blocked")
      /\ Goes(s, After(s, "none", "initializing"), "initializing")
  BY AfterGoes DEF Settled, Busy
<1>2. /\ Goes(s, [After(s, "failure", "blocked") EXCEPT !.cleanupFailed = TRUE], "blocked")
      /\ Goes(s, [After(s, "none", "initializing") EXCEPT !.kind = NoKind], "initializing")
  BY <1>1, KindGoes, CleanupFailedGoes
<1>3. CASE code = "picker" /\ s.kind = "restoreCredentialFile"
  BY <1>1, <1>3, GoesEnds DEF CleanResult
<1>4. CASE code = "failed"
  BY <1>2, <1>4, GoesEnds DEF CleanResult
<1>5. CASE ~(code = "picker" /\ s.kind = "restoreCredentialFile") /\ code # "failed"
  BY <1>2, <1>5, GoesEnds DEF CleanResult
<1> QED  BY <1>3, <1>4, <1>5

\* A removal.
LEMMA RemoveEnds ==
    ASSUME NEW s \in Machine, NEW code \in {"removed", "failure", "remediation"}
    PROVE  Ends(s, RemoveResult(s, code))
<1>1. /\ Goes(s, After(s, "none", "noLocalUser"), "noLocalUser")
      /\ Goes(s, After(s, code, "blocked"), "blocked")
      /\ Goes(s, Failed(s, code, "recoverable"), "recoverable")
  BY AfterGoes, FailedGoes DEF Settled
<1> QED  BY <1>1, GoesEnds DEF RemoveResult

\* A completed flow: to the verification, with the receipt of a restoration.
LEMMA OnboardGoes ==
    ASSUME NEW s \in Machine, NEW t, t = OnboardResult(s)
    PROVE  /\ Sound(t) /\ t.auth = "verifying" /\ t.epoch = s.epoch
           /\ t.receipt = IF s.kind \in Restorations THEN s.epoch ELSE 0
<1> DEFINE a == After(s, "completed", "verifying")
           r == IF s.kind \in Restorations THEN s.epoch ELSE 0
<1>1. Goes(s, a, "verifying")
  BY AfterGoes DEF Busy
<1>2. t = [a EXCEPT !.receipt = r]
  BY DEF OnboardResult
<1>3. r \in Nat
  BY DEF Machine
<1> HIDE DEF a, r
<1>4. a \in Machine
  BY <1>1 DEF Goes, Sound
<1>5. /\ t \in Machine /\ t.receipt = r /\ t.auth = a.auth /\ t.epoch = a.epoch
      /\ t.call = a.call /\ t.activeOp = a.activeOp /\ t.outcome = a.outcome
  BY <1>2, <1>3, <1>4, SetReceipt
<1>6. Sound(t)
  BY <1>1, <1>5 DEF Goes, Sound
<1> QED  BY <1>1, <1>5, <1>6 DEF Goes, r

\* The result of what the machine waits for.
LEMMA ResultEnds ==
    ASSUME NEW s, Sound(s), NEW code, Fits(s.call.op, code)
    PROVE  \/ Ends(s, Result(s, code))
           \/ /\ code = "success" /\ s.call.op \in {"verify", "promote", "confirm"}
              /\ Goes(s, Result(s, code), "authenticated")
           \/ /\ code = "completed" /\ s.call.op = "onboard"
              /\ Result(s, code) = OnboardResult(s)
<1>1. s \in Machine
  BY DEF Sound
<1>2. s.call.op # "none" /\ Current(s) /\ Asks(s.auth, s.call.op)
  BY DEF Fits, Sound, Current
<1>3. CASE s.call.op = "inspect"
  <2>1. Result(s, code) = InspectResult(s, code)
    BY <1>2, <1>3 DEF Result
  <2> QED  BY <1>1, <1>3, <2>1, InspectEnds DEF Fits
<1>4. CASE s.call.op = "unlock"
  <2>1. Result(s, code) = UnlockResult(s, code)
    BY <1>2, <1>4 DEF Result
  <2> QED  BY <1>1, <1>4, <2>1, UnlockEnds DEF Fits
<1>5. CASE s.call.op \in {"verify", "promote"}
  <2>1. Result(s, code) = VerifyResult(s, code)
    BY <1>2, <1>5 DEF Result
  <2>2. s.auth = "verifying"
    BY <1>2, <1>5 DEF Asks
  <2>3. code \in {"success", "missing", "mismatch", "failure", "offline"}
    BY <1>5 DEF Fits
  <2> QED  BY <1>1, <1>5, <2>1, <2>2, <2>3, VerifyEnds
<1>6. CASE s.call.op = "confirm"
  <2>1. Result(s, code) = ConfirmResult(s, code)
    BY <1>2, <1>6 DEF Result
  <2>2. s.auth = "missing"
    BY <1>2, <1>6 DEF Asks
  <2>3. code \in {"success", "missing", "mismatch", "failure", "offline"}
    BY <1>6 DEF Fits
  <2> QED  BY <1>6, <2>1, <2>2, <2>3, ConfirmEnds
<1>7. CASE s.call.op = "onboard"
  BY <1>2, <1>7 DEF Result, Fits
<1>8. CASE s.call.op = "clean"
  <2>1. Result(s, code) = CleanResult(s, code)
    BY <1>2, <1>8 DEF Result
  <2> QED  BY <1>1, <1>8, <2>1, CleanEnds DEF Fits
<1>9. CASE s.call.op = "remove"
  <2>1. Result(s, code) = RemoveResult(s, code)
    BY <1>2, <1>9 DEF Result
  <2> QED  BY <1>1, <1>9, <2>1, RemoveEnds DEF Fits
<1> QED  BY <1>3, <1>4, <1>5, <1>6, <1>7, <1>8, <1>9 DEF Fits

-----------------------------------------------------------------------------
(* Events.                                                                   *)

\* The order of epochs.
LEMMA FollowsTransitive ==
    ASSUME NEW s \in Machine, NEW t, NEW u, Follows(s, t), Follows(t, u)
    PROVE  Follows(s, u)
<1>1. s.epoch \in Nat /\ t.epoch \in Nat /\ u.epoch \in Nat
  BY DEF Follows, Sound, Machine
<1>2. s.receipt \in Nat /\ t.receipt \in Nat /\ u.receipt \in Nat
  BY DEF Follows, Sound, Machine
<1> QED  BY <1>1, <1>2 DEF Follows

\* A result without access follows, and so does the machine as it is.
LEMMA EndsFollows ==
    ASSUME NEW s \in Machine, s.auth # "authenticated", NEW t, Ends(s, t)
    PROVE  Follows(s, t)
<1>1. s.epoch \in Nat
  BY DEF Machine
<1> QED  BY <1>1 DEF Follows, Ends, Goes

\* A machine that does nothing follows itself, if it has no access.
LEMMA SelfFollows ==
    ASSUME NEW s, Sound(s), s.auth # "authenticated"
    PROVE  Follows(s, s)
<1>1. s.epoch \in Nat
  BY DEF Machine, Sound
<1> QED  BY <1>1 DEF Follows

\* A transition to a new epoch follows, from an access as well.
LEMMA EpochFollows ==
    ASSUME NEW s \in Machine, NEW t, NEW auth, Goes(Epoch(s), t, auth), auth # "authenticated"
    PROVE  Follows(s, t)
<1>1. s.epoch \in Nat
  BY DEF Machine
<1>2. Epoch(s).epoch = s.epoch + 1 /\ Epoch(s).receipt = 0
  BY EpochSets
<1> QED  BY <1>1, <1>2 DEF Follows, Goes

\* Entering a state in a new epoch, as the intents and the loss of the
\* authority do.
LEMMA NewEpochGoes ==
    ASSUME NEW s \in Machine, NEW auth \in Busy \cup Settled \cup {"missing"}
    PROVE  /\ Goes(Epoch(s), Enter(Epoch(s), auth), auth)
           /\ Goes(Epoch(s), Enter(Outcome(Epoch(s), "none"), auth), auth)
<1> DEFINE e == Epoch(s)
           o == Outcome(e, "none")
<1>1. e \in Machine /\ e.activeOp = NoOp
  BY EpochSets
<1> HIDE DEF e
<1>2. o \in Machine /\ o.activeOp = NoOp /\ o.epoch = e.epoch /\ o.receipt = e.receipt
  BY <1>1, OutcomeSets
<1> HIDE DEF o
<1>3. Goes(e, Enter(e, auth), auth) /\ Goes(o, Enter(o, auth), auth)
  BY <1>1, <1>2, EnterGoes
<1>4. Goes(e, Enter(o, auth), auth)
  BY <1>2, <1>3 DEF Goes
<1> QED  BY <1>3, <1>4 DEF e, o

\* SESSION.AUTHORITY_LOST.
LEMMA LostFollows ==
    ASSUME NEW s, Sound(s)
    PROVE  Follows(s, Lost(s))
<1>1. s \in Machine
  BY DEF Sound
<1>2. /\ Goes(s, Enter(s, "blocked"), "blocked")
      /\ Goes(Epoch(s), Enter(Outcome(Epoch(s), "none"), "locked"), "locked")
      /\ Goes(Epoch(s), [Enter(Outcome(Epoch(s), "none"), "initializing") EXCEPT !.kind = NoKind],
              "initializing")
  BY <1>1, EnterGoes, NewEpochGoes, KindGoes DEF Settled, Busy
<1>3. CASE s.auth = "initializing"
  <2>1. Lost(s) = Enter(s, "blocked")
    BY <1>3 DEF Lost, Onboarding
  <2>2. Ends(s, Lost(s)) /\ s.auth # "authenticated"
    BY <1>2, <1>3, <2>1, GoesEnds
  <2> QED  BY <1>1, <2>2, EndsFollows
<1>4. CASE s.auth \in Onboarding
  <2>1. Lost(s) = [Enter(Outcome(Epoch(s), "none"), "initializing") EXCEPT !.kind = NoKind]
    BY <1>4 DEF Lost, Onboarding
  <2>2. Goes(Epoch(s), Lost(s), "initializing")
    BY <1>2, <2>1
  <2> QED  BY <1>1, <2>2, EpochFollows
<1>5. CASE s.auth = "authenticated"
  BY <1>1, <1>2, <1>5, EpochFollows DEF Lost, Onboarding
<1>6. CASE s.auth \notin Onboarding \cup {"initializing", "authenticated"}
  BY <1>6, SelfFollows DEF Lost, Onboarding
<1> QED  BY <1>3, <1>4, <1>5, <1>6

\* The call a state waits for may change, if the state may wait for it.
LEMMA CallChanges ==
    ASSUME NEW s, Sound(s), s.call.op # "none",
           NEW op \in PageOps \ {"none"}, Asks(s.auth, op)
    PROVE  Goes(s, [s EXCEPT !.call.op = op], s.auth)
<1> DEFINE call == [s.call EXCEPT !.op = op]
           t == [s EXCEPT !.call = call]
<1>1. s \in Machine /\ s.call \in [op : PageOps, id : 0 .. 2]
  BY DEF Sound, Machine
<1>2. call \in [op : PageOps, id : 0 .. 2] /\ call.op = op /\ call.id = s.call.id
  BY <1>1
<1>3. [s EXCEPT !.call.op = op] = t
  OBVIOUS
<1> HIDE DEF call
<1>4. /\ t \in Machine /\ t.call = call /\ t.auth = s.auth /\ t.activeOp = s.activeOp
      /\ t.epoch = s.epoch /\ t.receipt = s.receipt /\ t.outcome = s.outcome
  BY <1>1, <1>2, SetCall
<1> HIDE DEF t
<1>5. Goes(s, t, s.auth)
  BY <1>2, <1>4 DEF Goes, Sound
<1> QED  BY <1>3, <1>5

\* The answer AUTHORITY_INVALIDATED.
LEMMA InvalidatedFollows ==
    ASSUME NEW s, Sound(s), s.auth # "authenticated"
    PROVE  Follows(s, Invalidated(s))
<1>1. s \in Machine
  BY DEF Sound
<1>2. CASE s.call.op = "inspect"
  <2>1. Ends(s, Result(s, "unavailable"))
    BY <1>2, ResultEnds DEF Fits
  <2> QED  BY <1>1, <1>2, <2>1, EndsFollows DEF Invalidated
<1>3. CASE s.call.op = "verify"
  <2>1. Ends(s, Result(s, "offline"))
    BY <1>3, ResultEnds DEF Fits
  <2> QED  BY <1>1, <1>3, <2>1, EndsFollows DEF Invalidated
<1>4. CASE s.call.op \in {"unlock", "promote", "confirm", "remove"}
  <2>1. Ends(s, Result(s, "failure"))
    BY <1>4, ResultEnds DEF Fits
  <2> QED  BY <1>1, <1>4, <2>1, EndsFollows DEF Invalidated
<1>5. CASE s.call.op \in {"capability", "robbed"}
  <2>1. Asks(s.auth, "unheard")
    BY <1>5 DEF Sound, Asks
  <2>2. Goes(s, [s EXCEPT !.call.op = "unheard"], s.auth)
    BY <1>5, <2>1, CallChanges DEF PageOps
  <2>3. Ends(s, [s EXCEPT !.call.op = "unheard"])
    BY <2>2, GoesEnds
  <2> QED  BY <1>1, <1>5, <2>3, EndsFollows DEF Invalidated
<1>6. CASE s.call.op \notin {"inspect", "verify", "unlock", "promote", "confirm", "remove",
                             "capability", "robbed"}
  BY <1>6, SelfFollows DEF Invalidated
<1> QED  BY <1>2, <1>3, <1>4, <1>5, <1>6

\* INTENT.LOCK.
LEMMA LockFollows ==
    ASSUME NEW s, Sound(s)
    PROVE  Follows(s, Lock(s))
<1>1. s \in Machine
  BY DEF Sound
<1>2. /\ Goes(Epoch(s), Enter(Outcome(Epoch(s), "none"), "locked"), "locked")
      /\ Goes(Epoch(s), [Enter(Outcome(Epoch(s), "none"), "initializing") EXCEPT !.kind = NoKind],
              "initializing")
  BY <1>1, NewEpochGoes, KindGoes DEF Settled, Busy
<1>3. CASE s.auth = "missing"
  BY <1>1, <1>2, <1>3, EpochFollows DEF Lock
<1>4. CASE s.auth \in {"authenticated", "recoverable"}
  BY <1>1, <1>2, <1>4, EpochFollows DEF Lock
<1>5. CASE s.auth \notin {"missing", "authenticated", "recoverable"}
  BY <1>5, SelfFollows DEF Lock
<1> QED  BY <1>3, <1>4, <1>5

\* SESSION.CUSTODY_RECHECK.
LEMMA RecheckFollows ==
    ASSUME NEW s, Sound(s), s.auth # "authenticated"
    PROVE  Follows(s, Recheck(s))
<1>1. s \in Machine
  BY DEF Sound
<1>2. Goes(s, After(s, "none", "initializing"), "initializing")
  BY <1>1, AfterGoes DEF Busy
<1>3. Ends(s, After(s, "none", "initializing"))
  BY <1>2, GoesEnds
<1> QED  BY <1>1, <1>3, EndsFollows, SelfFollows DEF Recheck

\* A revocation, heard before and after an acknowledged Lock.
LEMMA NoticedFollows ==
    ASSUME NEW s, Sound(s)
    PROVE  Follows(s, Noticed(s)) /\ \A t \in Locked(s) : Follows(s, t)
<1>1. s \in Machine
  BY DEF Sound
<1>2. Follows(s, Lost(s)) /\ Sound(Lost(s)) /\ Lost(s).auth # "authenticated"
  BY LostFollows DEF Follows
<1>3. ASSUME NEW t, Follows(s, t) PROVE Follows(s, Invalidated(t))
  <2>1. Sound(t) /\ t.auth # "authenticated"
    BY <1>3 DEF Follows
  <2> QED  BY <1>1, <1>3, <2>1, InvalidatedFollows, FollowsTransitive
<1>4. ASSUME NEW t, Follows(s, t) PROVE Follows(s, Recheck(Lock(t)))
  <2>1. Sound(t)
    BY <1>4 DEF Follows
  <2>2. Follows(s, Lock(t))
    BY <1>1, <1>4, <2>1, LockFollows, FollowsTransitive
  <2>3. Sound(Lock(t)) /\ Lock(t).auth # "authenticated"
    BY <2>2 DEF Follows
  <2> QED  BY <1>1, <2>2, <2>3, RecheckFollows, FollowsTransitive
<1>5. Follows(s, Noticed(s))
  BY <1>2, <1>3 DEF Noticed
<1>6. Follows(s, Recheck(Lock(Noticed(s))))
  BY <1>4, <1>5
<1>7. Follows(s, Recheck(Lock(Lost(s)))) /\ Follows(s, Invalidated(Recheck(Lock(Lost(s)))))
  BY <1>2, <1>3, <1>4
<1> QED  BY <1>5, <1>6, <1>7 DEF Locked

-----------------------------------------------------------------------------
(* The invariant.                                                            *)

\* The parts of TypeOK that no transition of the machine is about.
WaitsTyped ==
    /\ locking \in {"no", "sent", "acknowledged", "former"}
    /\ locking = "acknowledged" => notice
    /\ left \in [op : PageOps \cup {"cancel"}, cancel : BOOLEAN]
    /\ left.cancel => left.op # "none"
    /\ left.op \notin {"rejected", "unheard", "robbed"}
    /\ resolvers \in Seq({"removal", "flow"})
    /\ notice \in BOOLEAN
CustodyTyped ==
    /\ session \in {"none", "verificationOnly", "authenticated"}
    /\ vault \in {"absent", "pending", "active", "halfRemoved"}
HistoriesTyped == orphaned \in BOOLEAN /\ hadAccess \in BOOLEAN /\ restored \in BOOLEAN

\* An epoch that has had its access still has it, and a machine that has been
\* given access has left nothing to the worker.
MachineInv ==
    /\ Sound(m)
    /\ hadAccess => m.auth = "authenticated"
    /\ left # Nothing => m.auth # "authenticated"
    /\ AccessHasSession
    /\ ReceiptIsOfLastFlow

\* The query the machine waits for is the last one, and no reconnect has come
\* between.
ElectionInv ==
    /\ connectivity \in {"online", "offline"}
    /\ request \in 0 .. MaxRequests /\ access \in Requests \cup {None}
    /\ queries \subseteq Requests /\ asked \in 0 .. MaxRequests
    /\ \A q \in queries : q.id <= asked
    /\ request # NoRequest =>
          /\ m.auth = "authenticated" /\ connectivity = "online"
          /\ \A q \in queries : q.id = request => q.fresh
    /\ ScopedAccessIsFresh

IInv == WaitsTyped /\ CustodyTyped /\ HistoriesTyped /\ MachineInv /\ ElectionInv

\* ActivatedBeforeAccess, of one step.
ActivatedStep == m.auth = "verifying" /\ m'.auth = "authenticated" => vault' # "pending"

\* The invariant has the properties the run checks.
LEMMA Safe ==
    ASSUME IInv
    PROVE  TypeOK /\ HearsItsOperation /\ AccessHasSession /\ ScopedAccessIsFresh
           /\ ReceiptIsOfLastFlow
<1>1. m \in Machine /\ (m.call.op = "none" <=> m.call.id = NoOp)
  BY DEF IInv, MachineInv, Sound
<1>2. TypeOK
  <2>1. /\ connectivity \in {"online", "offline"}
        /\ request \in 0 .. MaxRequests /\ access \in Requests \cup {None}
        /\ queries \subseteq Requests /\ asked \in 0 .. MaxRequests
    BY DEF IInv, ElectionInv
  <2>2. /\ session \in {"none", "verificationOnly", "authenticated"}
        /\ vault \in {"absent", "pending", "active", "halfRemoved"}
        /\ orphaned \in BOOLEAN /\ hadAccess \in BOOLEAN /\ restored \in BOOLEAN
    BY DEF IInv, CustodyTyped, HistoriesTyped
  <2>3. /\ locking \in {"no", "sent", "acknowledged", "former"}
        /\ locking = "acknowledged" => notice
        /\ left \in [op : PageOps \cup {"cancel"}, cancel : BOOLEAN]
        /\ left.cancel => left.op # "none"
        /\ resolvers \in Seq({"removal", "flow"})
        /\ notice \in BOOLEAN
    BY DEF IInv, WaitsTyped
  <2> QED  BY <1>1, <2>1, <2>2, <2>3, Zenon DEF TypeOK
<1>3. HearsItsOperation
  <2>1. CASE m.auth \in Busy /\ m.call.op # "none"
    <3>1. m.call # NoCall
      BY <2>1 DEF NoCall
    <3> QED  BY <2>1, <3>1 DEF IInv, MachineInv, Sound, HearsItsOperation
  <2>2. CASE m.auth \in Busy /\ m.call.op = "none"
    <3>1. m.call \in [op : PageOps, id : 0 .. 2]
      BY <1>1 DEF Machine
    <3>2. m.call = NoCall
      BY <1>1, <2>2, <3>1 DEF NoCall
    <3> QED  BY <2>2, <3>2 DEF IInv, MachineInv, Sound, HearsItsOperation
  <2> QED  BY <2>1, <2>2 DEF HearsItsOperation
<1> QED  BY <1>2, <1>3 DEF IInv, MachineInv, ElectionInv

\* A new machine is sound, and so is a stopped one.
LEMMA NewSound ==
    /\ Sound(NewMachine)
    /\ \A s : s = [NewMachine EXCEPT !.auth = "stopped", !.call = NoCall, !.activeOp = NoOp]
              => Sound(s) /\ s.auth = "stopped" /\ s.receipt = 0
<1>1. NewMachine \in Machine
  BY DEF NewMachine, Machine, AuthStates, PageOps, Busy, Kinds
<1>2. Sound(NewMachine)
  BY <1>1 DEF NewMachine, Sound, Asks, Settled, Busy, NoOp
<1>3. ASSUME NEW s,
             s = [NewMachine EXCEPT !.auth = "stopped", !.call = NoCall, !.activeOp = NoOp]
      PROVE  Sound(s) /\ s.auth = "stopped" /\ s.receipt = 0
  <2>1. s = [auth |-> "stopped", epoch |-> 1, activeOp |-> NoOp, call |-> NoCall,
             outcome |-> "none", kind |-> NoKind, cleanupFailed |-> FALSE, receipt |-> 0]
    BY <1>3 DEF NewMachine
  <2>2. s \in Machine
    BY <2>1 DEF Machine, AuthStates, PageOps, Kinds, NoCall, NoOp
  <2> QED  BY <2>1, <2>2 DEF Sound, Busy, Settled, NoCall, NoOp
<1> QED  BY <1>2, <1>3

\* An event without access forgets the election access, and keeps the rest if
\* its receipt is one.
LEMMA QuietStep ==
    ASSUME IInv, NEW s, Sound(s), s.auth # "authenticated", Become(s),
           m.auth = "authenticated" => s.epoch > m.epoch,
           s.receipt # 0 => restored' /\ s.receipt = s.epoch, restored' \in BOOLEAN,
           queries' \subseteq queries, UNCHANGED <<connectivity, asked>>
    PROVE  MachineInv' /\ ElectionInv' /\ HistoriesTyped' /\ ActivatedStep
<1>1. m' = s /\ request' = NoRequest /\ access' = None
  BY DEF Become
<1>2. m.epoch \in Nat /\ s.epoch \in Nat
  BY DEF IInv, MachineInv, Sound, Machine
<1>3. hadAccess => s.epoch # m.epoch
  BY <1>2 DEF IInv, MachineInv
<1>4. hadAccess' = (s.auth = "authenticated" \/ (hadAccess /\ s.epoch = m.epoch))
  BY DEF Become
<1>5. ~hadAccess'
  BY <1>3, <1>4
<1>6. ReceiptIsOfLastFlow'
  BY <1>1 DEF ReceiptIsOfLastFlow
<1>7. MachineInv'
  BY <1>1, <1>5, <1>6 DEF MachineInv, AccessHasSession
<1>8. ElectionInv'
  <2>1. NoRequest \in 0 .. MaxRequests
    BY AuthAssumption DEF NoRequest
  <2> QED  BY <1>1, <2>1 DEF IInv, ElectionInv, ScopedAccessIsFresh
<1>9. HistoriesTyped'
  <2>1. hadAccess' \in BOOLEAN
    BY <1>4, Zenon
  <2>2. orphaned' \in BOOLEAN
    BY DEF Become
  <2> QED  BY <2>1, <2>2 DEF HistoriesTyped
<1> QED  BY <1>1, <1>7, <1>8, <1>9 DEF ActivatedStep

\* That of an event which follows is: it is the one before, or none.
LEMMA FollowsStep ==
    ASSUME IInv, NEW s, Follows(m, s), Become(s), restored' = restored,
           queries' \subseteq queries, UNCHANGED <<connectivity, asked>>
    PROVE  MachineInv' /\ ElectionInv' /\ HistoriesTyped' /\ ActivatedStep
<1>1. Sound(s) /\ s.auth # "authenticated" /\ (m.auth = "authenticated" => s.epoch > m.epoch)
  BY DEF Follows
<1>2. s.receipt # 0 => s.receipt = m.receipt /\ s.epoch = m.epoch
  BY DEF Follows
<1>3. m.receipt # 0 => restored /\ m.receipt = m.epoch
  BY DEF IInv, MachineInv, ReceiptIsOfLastFlow
<1>4. s.receipt # 0 => restored' /\ s.receipt = s.epoch
  <2>1. s.receipt # 0 => s.receipt = s.epoch
    BY <1>2, <1>3
  <2>2. s.receipt # 0 => restored
    BY <1>2, <1>3, Zenon
  <2> QED  BY <2>1, <2>2, Zenon
<1>5. restored' \in BOOLEAN
  BY DEF IInv, HistoriesTyped
<1> QED  BY <1>1, <1>4, <1>5, QuietStep

\* What does not move the machine keeps what is said of it.
LEMMA StaysStep ==
    ASSUME IInv, Stays, UNCHANGED <<connectivity, queries, asked, restored>>,
           session' # "none" \/ session' = session \/ notice' \/ m.auth # "authenticated",
           notice => notice', left' # Nothing => m.auth # "authenticated"
    PROVE  MachineInv' /\ ElectionInv' /\ HistoriesTyped' /\ ActivatedStep
<1>1. MachineInv'
  <2>1. AccessHasSession'
    BY Zenon DEF IInv, MachineInv, AccessHasSession, Stays
  <2>2. ReceiptIsOfLastFlow'
    BY Zenon DEF IInv, MachineInv, ReceiptIsOfLastFlow, Stays
  <2>3. Sound(m') /\ (hadAccess' => m'.auth = "authenticated")
    BY Zenon DEF IInv, MachineInv, Stays
  <2> QED  BY <2>1, <2>2, <2>3, Zenon DEF MachineInv, Stays
<1>2. ElectionInv'
  BY DEF IInv, ElectionInv, ScopedAccessIsFresh, Stays
<1>3. HistoriesTyped'
  BY DEF IInv, HistoriesTyped, Stays
<1> QED  BY <1>1, <1>2, <1>3 DEF ActivatedStep, Stays

-----------------------------------------------------------------------------
(* The user's steps.                                                         *)

\* An act of the user gives no access.
LEMMA UserStep ==
    ASSUME IInv, NEW s, Follows(m, s), UserActs(s)
    PROVE  IInv' /\ ActivatedStep
<1>1. /\ Become(s) /\ restored' = restored /\ queries' \subseteq queries
      /\ UNCHANGED <<connectivity, asked>>
  BY DEF UserActs
<1>2. MachineInv' /\ ElectionInv' /\ HistoriesTyped' /\ ActivatedStep
  BY <1>1, FollowsStep
<1>3. WaitsTyped' /\ CustodyTyped'
  BY DEF UserActs, waits, custody, IInv, WaitsTyped, CustodyTyped
<1> QED  BY <1>2, <1>3 DEF IInv

\* A flow is chosen: the receipt of the one before is forgotten.
LEMMA ChooseFlowStep ==
    ASSUME IInv, ChooseFlow
    PROVE  IInv' /\ ActivatedStep
<1>1. m \in Machine /\ m.auth = "noLocalUser" /\ m.activeOp = NoOp
  BY DEF ChooseFlow, IInv, MachineInv, Sound, Settled
<1>2. PICK kind \in Kinds : UserActs(Enter([m EXCEPT !.kind = kind, !.receipt = 0], "running"))
  BY DEF ChooseFlow
<1> DEFINE k == [m EXCEPT !.kind = kind]
           r == [k EXCEPT !.receipt = 0]
<1>3. UserActs(Enter(r, "running"))
  <2>1. r = [m EXCEPT !.kind = kind, !.receipt = 0]
    OBVIOUS
  <2> QED  BY <1>2, <2>1
<1>4. k = [m EXCEPT !.kind = kind]
  OBVIOUS
<1>10. r = [k EXCEPT !.receipt = 0]
  OBVIOUS
<1> HIDE DEF k, r
<1>5. k \in Machine /\ k.epoch = m.epoch /\ k.activeOp = NoOp
  BY <1>1, <1>4, SetKind
<1>6. r \in Machine /\ r.epoch = m.epoch /\ r.activeOp = NoOp /\ r.receipt = 0
  <2>1. 0 \in Nat
    OBVIOUS
  <2> QED  BY <1>5, <1>10, <2>1, SetReceipt
<1>7. Goes(r, Enter(r, "running"), "running")
  BY <1>6, EnterGoes DEF Busy
<1>8. m.epoch \in Nat
  BY <1>1 DEF Machine
<1>9. Follows(m, Enter(r, "running"))
  BY <1>1, <1>6, <1>7, <1>8 DEF Goes, Follows
<1> QED  BY <1>3, <1>9, UserStep

\* The flow is left.
LEMMA BackStep ==
    ASSUME IInv, Back
    PROVE  IInv' /\ ActivatedStep
<1>1. m \in Machine /\ m.auth = "running"
  BY DEF Back, IInv, MachineInv, Sound
<1>2. /\ Clear(m) \in Machine /\ Clear(m).activeOp = NoOp
      /\ Clear(m).epoch = m.epoch /\ Clear(m).receipt = m.receipt
  BY <1>1, ClearSets
<1>3. Goes(Clear(m), Enter(Clear(m), "cleanup"), "cleanup")
  BY <1>2, EnterGoes DEF Busy
<1>4. Ends(m, Enter(Clear(m), "cleanup"))
  BY <1>2, <1>3 DEF Goes, Ends
<1> QED  BY <1>1, <1>4, EndsFollows, UserStep DEF Back

\* A state without an operation is left for one that may ask for its own.
LEMMA SettledEnter ==
    ASSUME IInv, m.auth \in Settled, m.auth # "authenticated", NEW auth \in Busy
    PROVE  Follows(m, Enter(m, auth)) /\ Follows(m, Enter(Outcome(m, "none"), auth))
<1>1. m \in Machine /\ m.activeOp = NoOp
  BY DEF IInv, MachineInv, Sound
<1>2. /\ Outcome(m, "none") \in Machine /\ Outcome(m, "none").activeOp = NoOp
      /\ Outcome(m, "none").epoch = m.epoch /\ Outcome(m, "none").receipt = m.receipt
  BY <1>1, OutcomeSets
<1>3. auth # "authenticated"
  BY DEF Busy
<1>4. Ends(m, Enter(m, auth))
  BY <1>1, <1>3, EnterGoes, GoesEnds
<1>5. Goes(Outcome(m, "none"), Enter(Outcome(m, "none"), auth), auth)
  BY <1>2, EnterGoes
<1>6. Ends(m, Enter(Outcome(m, "none"), auth))
  BY <1>2, <1>3, <1>5 DEF Goes, Ends
<1> QED  BY <1>1, <1>4, <1>6, EndsFollows

\* The password is entered.
LEMMA UnlockStep ==
    ASSUME IInv, Unlock
    PROVE  IInv' /\ ActivatedStep
<1>1. Follows(m, Enter(Outcome(m, "none"), "unlocking"))
  BY SettledEnter DEF Unlock, Settled, Busy
<1> QED  BY <1>1, UserStep DEF Unlock

\* The missing profile is confirmed.
LEMMA ConfirmStep ==
    ASSUME IInv, ConfirmMissingProfile
    PROVE  IInv' /\ ActivatedStep
<1>1. m \in Machine /\ m.auth = "missing" /\ m.activeOp = NoOp
  BY DEF ConfirmMissingProfile, IInv, MachineInv, Sound
<1>2. Goes(m, Invoke(m, "missing", "confirm"), "missing")
  BY <1>1, InvokeGoes DEF Asks, PageOps
<1>3. Follows(m, Invoke(m, "missing", "confirm"))
  BY <1>1, <1>2, GoesEnds, EndsFollows
<1> QED  BY <1>3, UserStep DEF ConfirmMissingProfile

\* The removal is asked for, from an access in an epoch of its own.
LEMMA RemoveLocalUserStep ==
    ASSUME IInv, RemoveLocalUser
    PROVE  IInv' /\ ActivatedStep
<1>1. m \in Machine
  BY DEF IInv, MachineInv, Sound
<1>2. Follows(m, Enter(Epoch(m), "removing"))
  BY <1>1, NewEpochGoes, EpochFollows DEF Busy
<1>3. m.auth = "locked" => Follows(m, Enter(m, "removing"))
  BY SettledEnter DEF Settled, Busy
<1> QED  BY <1>2, <1>3, UserStep DEF RemoveLocalUser

\* An access ends without the worker.
LEMMA EndAccessStep ==
    ASSUME IInv, EndAccess
    PROVE  IInv' /\ ActivatedStep
<1>1. m \in Machine
  BY DEF IInv, MachineInv, Sound
<1>2. Follows(m, Enter(Outcome(Epoch(m), "none"), "locked"))
  BY <1>1, NewEpochGoes, EpochFollows DEF Settled
<1> QED  BY <1>2, UserStep DEF EndAccess

\* What failed is tried again.
LEMMA RetryStep ==
    ASSUME IInv, Retry
    PROVE  IInv' /\ ActivatedStep
<1>1. CASE m.auth = "recoverable"
  <2>1. PICK auth \in {"initializing", "unlocking", "verifying"} : UserActs(Enter(m, auth))
    BY <1>1 DEF Retry
  <2>2. Follows(m, Enter(m, auth))
    BY <1>1, SettledEnter DEF Settled, Busy
  <2> QED  BY <2>1, <2>2, UserStep
<1>2. CASE m.auth = "blocked"
  <2>1. /\ Follows(m, Enter(Outcome(m, "none"), "cleanup"))
        /\ Follows(m, Enter(m, "initializing"))
    BY <1>2, SettledEnter DEF Settled, Busy
  <2>2. \/ UserActs(Enter(Outcome(m, "none"), "cleanup"))
        \/ UserActs(Enter(m, "initializing"))
    BY <1>2 DEF Retry
  <2> QED  BY <2>1, <2>2, UserStep
<1> QED  BY <1>1, <1>2 DEF Retry

\* Lock is pressed.
LEMMA PressLockStep ==
    ASSUME IInv, PressLock
    PROVE  IInv' /\ ActivatedStep
<1>1. MachineInv' /\ ElectionInv' /\ HistoriesTyped' /\ ActivatedStep
  BY StaysStep DEF PressLock, custody, IInv, MachineInv
<1>2. WaitsTyped' /\ CustodyTyped'
  BY DEF PressLock, custody, IInv, WaitsTyped, CustodyTyped
<1> QED  BY <1>1, <1>2 DEF IInv

\* The machine is stopped, and its operation left to the worker.
LEMMA RebuildStep ==
    ASSUME IInv, Rebuild
    PROVE  IInv' /\ ActivatedStep
<1>1. Sound(m') /\ m'.auth = "stopped" /\ m'.receipt = 0
  BY NewSound DEF Rebuild
<1>2. MachineInv' /\ ActivatedStep
  BY <1>1 DEF Rebuild, MachineInv, AccessHasSession, ReceiptIsOfLastFlow, ActivatedStep
<1>3. ElectionInv'
  BY AuthAssumption DEF Rebuild, ElectionInv, ScopedAccessIsFresh, NoRequest
<1>4. WaitsTyped'
  <2>1. m.call.op \in PageOps /\ left' \in LeftBy(m.call.op)
    BY DEF IInv, MachineInv, Sound, Machine, Rebuild
  <2>2. ASSUME NEW op \in PageOps, NEW l \in LeftBy(op)
        PROVE  /\ l \in [op : PageOps \cup {"cancel"}, cancel : BOOLEAN]
               /\ l.op \notin {"rejected", "unheard", "robbed"} /\ (l.cancel => l.op # "none")
    <3>1. CASE op \in {"none", "rejected", "unheard"}
      <4>1. l = [op |-> "none", cancel |-> FALSE]
        BY <2>2, <3>1 DEF LeftBy, Nothing
      <4> QED  BY <4>1 DEF PageOps
    <3>2. CASE op = "robbed"
      <4>1. l = [op |-> "cancel", cancel |-> TRUE]
        BY <2>2, <3>2 DEF LeftBy
      <4> QED  BY <4>1 DEF PageOps
    <3>3. CASE op = "confirm"
      <4>1. l = [op |-> "confirm", cancel |-> FALSE]
        BY <2>2, <3>3 DEF LeftBy
      <4> QED  BY <4>1 DEF PageOps
    <3>4. CASE op \notin {"none", "rejected", "unheard", "robbed", "confirm"}
      <4>1. l \in {[op |-> op, cancel |-> sent] : sent \in BOOLEAN}
        BY <2>2, <3>4, Zenon DEF LeftBy
      <4>2. PICK sent \in BOOLEAN : l = [op |-> op, cancel |-> sent]
        BY <4>1
      <4>3. op \in PageOps \cup {"cancel"}
        BY <2>2
      <4> QED  BY <3>4, <4>2, <4>3
    <3> QED  BY <3>1, <3>2, <3>3, <3>4
  <2>3. /\ left' \in [op : PageOps \cup {"cancel"}, cancel : BOOLEAN]
        /\ left'.op \notin {"rejected", "unheard", "robbed"} /\ (left'.cancel => left'.op # "none")
    BY <2>1, <2>2
  <2>4. locking' \in {"no", "former"} /\ notice' = notice /\ resolvers' = resolvers
    BY DEF Rebuild
  <2> QED  BY <2>3, <2>4 DEF IInv, WaitsTyped
<1>5. CustodyTyped' /\ HistoriesTyped'
  BY DEF Rebuild, custody, IInv, CustodyTyped, HistoriesTyped
<1> QED  BY <1>2, <1>3, <1>4, <1>5 DEF IInv

\* Another machine is composed.
LEMMA ComposeStep ==
    ASSUME IInv, Compose
    PROVE  IInv' /\ ActivatedStep
<1>1. Sound(m') /\ m'.auth = "initializing" /\ m'.receipt = 0
  BY NewSound DEF Compose, NewMachine
<1>2. ~hadAccess /\ request = NoRequest /\ access = None
  BY DEF Compose, IInv, MachineInv, ElectionInv, ScopedAccessIsFresh
<1>3. MachineInv' /\ ActivatedStep
  BY <1>1, <1>2 DEF Compose, histories, MachineInv, AccessHasSession, ReceiptIsOfLastFlow, ActivatedStep
<1>4. ElectionInv'
  BY <1>2 DEF Compose, elections, IInv, ElectionInv, ScopedAccessIsFresh
<1>5. WaitsTyped' /\ CustodyTyped' /\ HistoriesTyped'
  BY DEF Compose, waits, custody, histories, IInv, WaitsTyped, CustodyTyped, HistoriesTyped
<1> QED  BY <1>3, <1>4, <1>5 DEF IInv

-----------------------------------------------------------------------------
(* Connectivity and elections.                                               *)

\* What leaves the machine and the custody alone.
LEMMA MachineStays ==
    ASSUME IInv, UNCHANGED <<m, waits, custody, notice, histories>>
    PROVE  WaitsTyped' /\ CustodyTyped' /\ HistoriesTyped' /\ MachineInv' /\ ActivatedStep
<1>1. WaitsTyped' /\ CustodyTyped' /\ HistoriesTyped'
  BY DEF waits, custody, histories, IInv, WaitsTyped, CustodyTyped, HistoriesTyped
<1>2. MachineInv'
  BY DEF waits, custody, histories, IInv, MachineInv, AccessHasSession, ReceiptIsOfLastFlow
<1>3. ActivatedStep
  BY DEF ActivatedStep
<1> QED  BY <1>1, <1>2, <1>3

\* The connection is lost or comes back.
LEMMA ConnectivityStep ==
    ASSUME IInv, NEW state \in {"online", "offline"}, Connectivity(state)
    PROVE  IInv' /\ ActivatedStep
<1>1. UNCHANGED <<m, waits, custody, notice, histories>>
  BY DEF Connectivity
<1>2. queries' \subseteq Requests /\ \A q \in queries' : q.id <= asked
  <2>1. ASSUME NEW q \in queries
        PROVE  [q EXCEPT !.fresh = FALSE] \in Requests /\ [q EXCEPT !.fresh = FALSE].id = q.id
    BY DEF IInv, ElectionInv, Requests
  <2> QED  BY <2>1 DEF Connectivity, IInv, ElectionInv
<1>3. ElectionInv'
  BY <1>2, AuthAssumption DEF Connectivity, IInv, ElectionInv, ScopedAccessIsFresh, NoRequest
<1> QED  BY <1>1, <1>3, MachineStays DEF IInv

\* Election access is asked for: of the queries, the new one has the last id.
LEMMA RequestElectionStep ==
    ASSUME IInv, RequestElection
    PROVE  IInv' /\ ActivatedStep
<1>1. UNCHANGED <<m, waits, custody, notice, histories>>
  BY DEF RequestElection
<1> DEFINE q == [id |-> asked + 1, epoch |-> m.epoch, fresh |-> TRUE]
<1>2. /\ asked' = asked + 1 /\ request' = asked + 1 /\ access' = None /\ connectivity' = connectivity
      /\ m' = m /\ m.auth = "authenticated" /\ connectivity = "online"
      /\ queries' = queries \cup {q} /\ asked < MaxRequests
  BY DEF RequestElection
<1>3. asked \in Nat /\ MaxRequests \in Nat /\ m.epoch \in Nat
  BY AuthAssumption DEF IInv, ElectionInv, MachineInv, Sound, Machine
<1>4. asked + 1 \in 1 .. MaxRequests
  BY <1>2, <1>3
<1>5. q \in Requests
  BY <1>3, <1>4 DEF Requests
<1>6. queries \subseteq Requests /\ \A p \in queries : p.id <= asked /\ p.id \in Nat
  BY DEF IInv, ElectionInv, Requests
<1>7. \A p \in queries' : p.id <= asked' /\ (p.id = request' => p.fresh)
  BY <1>2, <1>3, <1>6
<1>8. queries' \subseteq Requests
  BY <1>2, <1>5, <1>6
<1>9. ElectionInv'
  BY <1>2, <1>4, <1>7, <1>8 DEF IInv, ElectionInv, ScopedAccessIsFresh
<1> QED  BY <1>1, <1>9, MachineStays DEF IInv

\* A query ends: what the machine takes has the id of its request, so that the
\* connection has been there since it was asked for.
LEMMA ElectionAnsweredStep ==
    ASSUME IInv, ElectionAnswered
    PROVE  IInv' /\ ActivatedStep
<1>1. UNCHANGED <<m, waits, custody, notice, histories>>
  BY DEF ElectionAnswered
<1>2. PICK q \in queries :
          /\ queries' = queries \ {q}
          /\ IF /\ m.auth = "authenticated" /\ connectivity = "online"
                /\ q.epoch = m.epoch /\ q.id = asked /\ q.id = request
             THEN access' = q /\ request' = NoRequest ELSE UNCHANGED <<request, access>>
  BY DEF ElectionAnswered
<1>3. connectivity' = connectivity /\ asked' = asked /\ m' = m
  BY DEF ElectionAnswered
<1>4. ElectionInv'
  <2>1. CASE UNCHANGED <<request, access>>
    BY <1>2, <1>3, <2>1 DEF IInv, ElectionInv, ScopedAccessIsFresh
  <2>2. CASE /\ m.auth = "authenticated" /\ connectivity = "online"
             /\ q.epoch = m.epoch /\ q.id = request /\ access' = q /\ request' = NoRequest
    <3>1. q \in Requests /\ q.id \in 1 .. MaxRequests
      BY DEF IInv, ElectionInv, Requests
    <3>2. request # NoRequest
      BY <2>2, <3>1 DEF NoRequest
    <3>3. q.fresh
      BY <2>2, <3>2 DEF IInv, ElectionInv
    <3>4. ScopedAccessIsFresh'
      BY <1>3, <2>2, <3>3 DEF ScopedAccessIsFresh
    <3>5. NoRequest \in 0 .. MaxRequests
      BY AuthAssumption DEF NoRequest
    <3> QED  BY <1>2, <1>3, <2>2, <3>1, <3>4, <3>5 DEF IInv, ElectionInv
  <2> QED  BY <1>2, <2>1, <2>2
<1> QED  BY <1>1, <1>4, MachineStays DEF IInv

-----------------------------------------------------------------------------
(* The worker's steps.                                                       *)

\* What an operation may answer, and that it leaves session and vault what
\* they may be.
LEMMA ServedFits ==
    ASSUME CustodyTyped, NEW op \in Operations, NEW code, Served(op, code)
    PROVE  CustodyTyped' /\ Fits(op, code)
<1>1. CASE op = "inspect"
  BY <1>1 DEF Served, Fits, CustodyTyped, custody
<1>2. CASE op = "unlock"
  BY <1>2 DEF Served, Fits, CustodyTyped, custody
<1>3. CASE op \in {"verify", "confirm"}
  BY <1>3 DEF Served, Fits, CustodyTyped, custody
<1>4. CASE op = "promote"
  BY <1>4 DEF Served, Fits, CustodyTyped, custody
<1>5. CASE op = "onboard"
  BY <1>5 DEF Served, Fits, CustodyTyped, custody
<1>6. CASE op = "clean"
  BY <1>6 DEF Served, Fits, CustodyTyped, custody
<1>7. CASE op = "remove"
  BY <1>7 DEF Served, Fits, CustodyTyped, custody
<1> QED  BY <1>1, <1>2, <1>3, <1>4, <1>5, <1>6, <1>7 DEF Operations

\* A success stands on an open session, and if the machine was verifying, on
\* an identity that is not pending.
LEMMA SuccessServed ==
    ASSUME NEW op \in {"verify", "promote", "confirm"}, Served(op, "success")
    PROVE  /\ session' # "none"
           /\ op = "verify" => vault' = vault
           /\ op = "promote" => vault' = "active"
<1>1. CASE op \in {"verify", "confirm"}
  BY <1>1 DEF Served
<1>2. CASE op = "promote"
  BY <1>2 DEF Served
<1> QED  BY <1>1, <1>2

\* Access is given.
LEMMA AccessStep ==
    ASSUME IInv, NEW s, Goes(m, s, "authenticated"), m.auth # "authenticated", Become(s),
           session' # "none", m.auth = "verifying" => vault' # "pending",
           left' = Nothing, UNCHANGED <<connectivity, queries, asked, restored>>
    PROVE  MachineInv' /\ ElectionInv' /\ HistoriesTyped' /\ ActivatedStep
<1>1. /\ m' = s /\ s.auth = "authenticated" /\ UNCHANGED <<request, access>>
      /\ s.epoch = m.epoch /\ s.receipt = m.receipt /\ Sound(s)
  BY DEF Become, Goes
<1>2. ReceiptIsOfLastFlow'
  <2>1. m'.receipt = m.receipt /\ m'.epoch = m.epoch
    BY <1>1
  <2> QED  BY <2>1, Zenon DEF IInv, MachineInv, ReceiptIsOfLastFlow
<1>3. MachineInv'
  BY <1>1, <1>2 DEF MachineInv, AccessHasSession
<1>4. request = NoRequest /\ access = None
  BY DEF IInv, ElectionInv, ScopedAccessIsFresh
<1>5. ElectionInv'
  BY <1>1, <1>4 DEF IInv, ElectionInv, ScopedAccessIsFresh
<1>6. HistoriesTyped'
  <2>1. hadAccess' = (s.auth = "authenticated" \/ (hadAccess /\ s.epoch = m.epoch))
        /\ orphaned' = (orphaned /\ s.auth = "authenticated")
    BY DEF Become
  <2>2. hadAccess' \in BOOLEAN /\ orphaned' \in BOOLEAN
    BY <2>1, Zenon
  <2> QED  BY <2>2 DEF IInv, HistoriesTyped
<1>7. ActivatedStep
  BY DEF ActivatedStep
<1> QED  BY <1>3, <1>5, <1>6, <1>7

\* The worker answers what the machine waits for.
LEMMA AnswerStep ==
    ASSUME IInv, NEW ops, ops \subseteq Operations, AnswerTo(ops)
    PROVE  IInv' /\ ActivatedStep
<1>1. PICK code \in Codes :
          /\ Served(m.call.op, code) /\ Become(Answered(m.call.op, code))
          /\ restored' = IF code = "completed" THEN m.kind \in Restorations ELSE restored
  BY DEF AnswerTo
<1> DEFINE op == m.call.op
           s == Answered(op, code)
<1>2. /\ left' = Nothing /\ UNCHANGED <<waits, connectivity, queries, asked, notice>>
      /\ op \in Operations
  BY DEF AnswerTo, waits
<1>3. /\ Sound(m) /\ m \in Machine /\ Current(m) /\ Asks(m.auth, op) /\ m.auth # "authenticated"
  <2>1. Sound(m) /\ m \in Machine /\ Asks(m.auth, op) /\ Current(m)
    BY <1>2 DEF IInv, MachineInv, Sound, Current, Operations
  <2> QED  BY <2>1 DEF Asks
<1>4. CustodyTyped' /\ Fits(op, code)
  BY <1>1, <1>2, ServedFits DEF IInv
<1>5. WaitsTyped'
  BY <1>2 DEF waits, IInv, WaitsTyped
<1>6. SUFFICES MachineInv' /\ ElectionInv' /\ HistoriesTyped' /\ ActivatedStep
  BY <1>4, <1>5 DEF IInv
<1>7. ASSUME Ends(m, s), code # "completed"
      PROVE  MachineInv' /\ ElectionInv' /\ HistoriesTyped' /\ ActivatedStep
  <2>1. Follows(m, s)
    BY <1>3, <1>7, EndsFollows
  <2> QED  BY <1>1, <1>2, <1>7, <2>1, FollowsStep
<1>8. CASE ToPromote(op, code)
  <2>1. s = [m EXCEPT !.call.op = "promote"]
    BY <1>8 DEF Answered
  <2>2. m.auth = "verifying" /\ Asks(m.auth, "promote") /\ "promote" \in PageOps \ {"none"}
    BY <1>3, <1>8 DEF ToPromote, Asks, PageOps
  <2>3. op # "none" /\ code # "completed"
    BY <1>8 DEF ToPromote
  <2>4. Goes(m, s, "verifying")
    BY <1>3, <2>1, <2>2, <2>3, CallChanges
  <2> QED  BY <1>7, <2>3, <2>4, GoesEnds
<1>9. CASE ~ToPromote(op, code)
  <2>1. s = Result(m, code) /\ Fits(op, code)
    BY <1>4, <1>9 DEF Answered
  <2>2. CASE op = "onboard"
    <3>1. s = OnboardResult(m) /\ code = "completed"
      BY <1>3, <2>1, <2>2 DEF Result, Fits
    <3>2. /\ Sound(s) /\ s.auth = "verifying" /\ s.epoch = m.epoch
          /\ s.receipt = IF m.kind \in Restorations THEN m.epoch ELSE 0
      BY <1>3, <3>1, OnboardGoes
    <3>3. restored' = (m.kind \in Restorations)
      BY <1>1, <3>1
    <3>4. s.receipt # 0 => restored' /\ s.receipt = s.epoch
      BY <3>2, <3>3
    <3>5. restored' \in BOOLEAN
      BY <3>3
    <3> QED  BY <1>1, <1>2, <1>3, <3>2, <3>4, <3>5, QuietStep
  <2>3. CASE op # "onboard"
    <3>1. code # "completed"
      BY <2>1, <2>3 DEF Fits
    <3>2. \/ Ends(m, s)
          \/ code = "success" /\ op \in {"verify", "promote", "confirm"} /\ Goes(m, s, "authenticated")
      BY <1>3, <2>1, <2>3, ResultEnds
    <3>3. CASE code = "success" /\ op \in {"verify", "promote", "confirm"} /\ Goes(m, s, "authenticated")
      <4>1. /\ session' # "none"
            /\ op = "verify" => vault' = vault
            /\ op = "promote" => vault' = "active"
        BY <1>1, <3>3, SuccessServed
      <4>2. m.auth = "verifying" => vault' # "pending"
        BY <1>3, <1>9, <3>3, <4>1 DEF ToPromote, Asks
      <4>3. restored' = restored
        BY <1>1, <3>1
      <4> QED  BY <1>1, <1>2, <1>3, <3>3, <4>1, <4>2, <4>3, AccessStep
    <3> QED  BY <1>7, <3>1, <3>2, <3>3
  <2> QED  BY <2>2, <2>3
<1> QED  BY <1>8, <1>9

\* The queue of the resolvers stays one.
LEMMA QueueTyped ==
    ASSUME resolvers \in Seq({"removal", "flow"}), NEW asker \in {"removal", "flow"}
    PROVE  QueueAfter(asker) \in Seq({"removal", "flow"})
BY DEF QueueAfter

\* The removal has its capability, or another has; or a flow is robbed of its.
LEMMA CapabilityStep ==
    ASSUME IInv, CapabilityAnswered \/ FlowRobbed
    PROVE  IInv' /\ ActivatedStep
<1>1. PICK o \in {"remove", "robbed", "rejected"} :
          /\ Become([m EXCEPT !.call.op = o]) /\ Asks(m.auth, o) /\ m.call.op # "none"
  <2>1. CASE CapabilityAnswered
    <3>1. m.auth = "removing" /\ m.call.op = "capability"
      BY <2>1 DEF CapabilityAnswered, IInv, MachineInv, Sound, Asks
    <3> QED  BY <2>1, <3>1 DEF CapabilityAnswered, Asks
  <2>2. CASE FlowRobbed
    <3>1. m.auth = "running" /\ m.call.op = "onboard"
      BY <2>2 DEF FlowRobbed, IInv, MachineInv, Sound, Asks
    <3> QED  BY <2>2, <3>1 DEF FlowRobbed, Asks
  <2> QED  BY <2>1, <2>2
<1>2. Sound(m) /\ m \in Machine /\ m.auth # "authenticated" /\ o \in PageOps \ {"none"}
  BY <1>1 DEF IInv, MachineInv, Sound, Asks, PageOps
<1> DEFINE s == [m EXCEPT !.call.op = o]
<1>3. Goes(m, s, m.auth)
  BY <1>1, <1>2, CallChanges
<1>4. Follows(m, s)
  <2>1. m.auth \in {"running", "removing"}
    BY <1>1 DEF Asks
  <2>2. Ends(m, s)
    BY <1>3, <2>1, GoesEnds
  <2> QED  BY <1>2, <2>2, EndsFollows
<1>5. MachineInv' /\ ElectionInv' /\ HistoriesTyped' /\ ActivatedStep
  <2>1. queries' = queries /\ restored' = restored /\ UNCHANGED <<connectivity, asked>>
    BY DEF CapabilityAnswered, FlowRobbed
  <2> HIDE DEF s
  <2> QED  BY <1>1, <1>4, <2>1, FollowsStep DEF s
<1>6. WaitsTyped' /\ CustodyTyped'
  <2>1. resolvers' \in Seq({"removal", "flow"})
    BY QueueTyped DEF CapabilityAnswered, FlowRobbed, IInv, WaitsTyped
  <2>2. left' = left \/ left' = [op |-> "remove", cancel |-> FALSE]
    BY DEF CapabilityAnswered, FlowRobbed
  <2>3. UNCHANGED <<locking, custody, notice>>
    BY DEF CapabilityAnswered, FlowRobbed
  <2>4. /\ left' \in [op : PageOps \cup {"cancel"}, cancel : BOOLEAN]
        /\ left'.op \notin {"rejected", "unheard", "robbed"} /\ (left'.cancel => left'.op # "none")
    <3>1. CASE left' = left
      BY <3>1 DEF IInv, WaitsTyped
    <3>2. CASE left' = [op |-> "remove", cancel |-> FALSE]
      <4>1. "remove" \in PageOps \cup {"cancel"} /\ FALSE \in BOOLEAN
        BY DEF PageOps
      <4>2. left'.op = "remove" /\ left'.cancel = FALSE
        BY <3>2
      <4>3. left' \in [op : PageOps \cup {"cancel"}, cancel : BOOLEAN]
        BY <3>2, <4>1
      <4> QED  BY <4>2, <4>3
    <3> QED  BY <2>2, <3>1, <3>2
  <2> QED  BY <2>1, <2>3, <2>4 DEF custody, IInv, WaitsTyped, CustodyTyped
<1> QED  BY <1>5, <1>6 DEF IInv

\* What a stopped machine has left ends without it.
LEMMA LeftEndsStep ==
    ASSUME IInv, LeftEnds
    PROVE  IInv' /\ ActivatedStep
<1>1. left.op \in Operations /\ left.cancel \in BOOLEAN
  BY DEF LeftEnds, IInv, WaitsTyped, PageOps, Operations
<1>2. CustodyTyped'
  BY <1>1, ServedFits DEF LeftEnds, IInv
<1>3. left # Nothing
  BY <1>1 DEF Nothing, Operations
<1>4. m.auth # "authenticated"
  BY <1>3 DEF IInv, MachineInv
<1>5. MachineInv' /\ ElectionInv' /\ HistoriesTyped' /\ ActivatedStep
  BY <1>4, StaysStep DEF LeftEnds
<1>6. WaitsTyped'
  <2>1. /\ left' \in [op : PageOps \cup {"cancel"}, cancel : BOOLEAN]
        /\ left'.cancel => left'.op # "none"
        /\ left'.op \notin {"rejected", "unheard", "robbed"}
    BY DEF LeftEnds, IInv, WaitsTyped, Nothing, PageOps
  <2> QED  BY <2>1 DEF LeftEnds, IInv, WaitsTyped
<1> QED  BY <1>2, <1>5, <1>6 DEF IInv

\* The capability of a stopped machine's removal is given to someone.
LEMMA LeftCapabilityStep ==
    ASSUME IInv, LeftCapability
    PROVE  IInv' /\ ActivatedStep
<1>1. left # Nothing /\ m.auth # "authenticated"
  BY DEF LeftCapability, Nothing, IInv, MachineInv
<1>2. MachineInv' /\ ElectionInv' /\ HistoriesTyped' /\ ActivatedStep
  BY <1>1, StaysStep DEF LeftCapability, custody
<1>3. WaitsTyped'
  <2>1. resolvers' \in Seq({"removal", "flow"})
    BY QueueTyped DEF LeftCapability, IInv, WaitsTyped
  <2>2. /\ left' \in [op : PageOps \cup {"cancel"}, cancel : BOOLEAN]
        /\ left'.cancel => left'.op # "none"
        /\ left'.op \notin {"rejected", "unheard", "robbed"}
    BY DEF LeftCapability, IInv, WaitsTyped, Nothing, PageOps
  <2> QED  BY <2>1, <2>2 DEF LeftCapability, IInv, WaitsTyped
<1>4. CustodyTyped'
  BY DEF LeftCapability, custody, IInv, CustodyTyped
<1> QED  BY <1>2, <1>3, <1>4 DEF IInv

\* The worker takes a cancellation for a revocation.
LEMMA CancelServedStep ==
    ASSUME IInv, CancelServed
    PROVE  IInv' /\ ActivatedStep
<1>1. MachineInv' /\ ElectionInv' /\ HistoriesTyped' /\ ActivatedStep
  BY StaysStep DEF CancelServed
<1>2. WaitsTyped'
  BY DEF CancelServed, IInv, WaitsTyped, Nothing, PageOps
<1>3. CustodyTyped'
  BY DEF CancelServed, IInv, CustodyTyped
<1> QED  BY <1>1, <1>2, <1>3 DEF IInv

\* The worker locks.
LEMMA LockServedStep ==
    ASSUME IInv, LockServed
    PROVE  IInv' /\ ActivatedStep
<1>1. MachineInv' /\ ElectionInv' /\ HistoriesTyped' /\ ActivatedStep
  BY StaysStep DEF LockServed, IInv, MachineInv
<1>2. WaitsTyped' /\ CustodyTyped'
  BY DEF LockServed, IInv, WaitsTyped, CustodyTyped
<1> QED  BY <1>1, <1>2 DEF IInv

\* A revocation arrives.
LEMMA InvalidationStep ==
    ASSUME IInv, InvalidationArrives
    PROVE  IInv' /\ ActivatedStep
<1>1. Sound(m)
  BY DEF IInv, MachineInv
<1>2. PICK s : Become(s) /\ (s \in Locked(m) \/ s = Noticed(m) \/ (s = m /\ m.auth = "stopped"))
  BY DEF InvalidationArrives
<1>3. Follows(m, s)
  BY <1>1, <1>2, NoticedFollows, SelfFollows
<1>4. MachineInv' /\ ElectionInv' /\ HistoriesTyped' /\ ActivatedStep
  <2>1. queries' \subseteq queries /\ restored' = restored /\ UNCHANGED <<connectivity, asked>>
    BY DEF InvalidationArrives
  <2> QED  BY <1>2, <1>3, <2>1, FollowsStep
<1>5. resolvers' \in Seq({"removal", "flow"})
  <2>1. resolvers \in Seq({"removal", "flow"}) /\ resolvers' \in StillAwaited
    BY DEF InvalidationArrives, IInv, WaitsTyped
  <2>2. /\ Append(resolvers, "removal") \in Seq({"removal", "flow"})
        /\ Append(resolvers, "flow") \in Seq({"removal", "flow"})
    BY <2>1
  <2>3. resolvers' \in {resolvers, Append(resolvers, "removal"), Append(resolvers, "flow")}
    BY <2>1, Zenon DEF StillAwaited
  <2> QED  BY <2>1, <2>2, <2>3
<1>6. WaitsTyped' /\ CustodyTyped'
  BY <1>5 DEF InvalidationArrives, custody, IInv, WaitsTyped, CustodyTyped, Nothing, PageOps
<1> QED  BY <1>4, <1>6 DEF IInv

\* Another tab revokes, unlocks, creates or removes.
LEMMA OtherTabsStep ==
    ASSUME IInv, OtherTabs
    PROVE  IInv' /\ ActivatedStep
<1>1. CASE OtherTabRevokes \/ OtherTabUnlocks \/ OtherTabCreates
  <2>1. /\ Stays /\ UNCHANGED <<locking, left, resolvers, connectivity, queries, asked, restored>>
        /\ notice => notice'
        /\ session' # "none" \/ notice'
        /\ notice' \in BOOLEAN
    BY <1>1 DEF OtherTabRevokes, OtherTabUnlocks, OtherTabCreates, OtherTab, waits, IInv, WaitsTyped
  <2>2. left' # Nothing => m.auth # "authenticated"
    BY <2>1 DEF IInv, MachineInv
  <2>3. MachineInv' /\ ElectionInv' /\ HistoriesTyped' /\ ActivatedStep
    BY <2>1, <2>2, StaysStep
  <2>4. CustodyTyped'
    BY <1>1 DEF OtherTabRevokes, OtherTabUnlocks, OtherTabCreates, IInv, CustodyTyped
  <2>5. WaitsTyped'
    BY <2>1 DEF IInv, WaitsTyped
  <2> QED  BY <2>3, <2>4, <2>5 DEF IInv
<1>2. CASE OtherTabRemoves
  <2>1. UNCHANGED <<m, waits, connectivity, elections, notice, hadAccess, restored>>
    BY <1>2 DEF OtherTabRemoves
  <2>2. m.auth = "authenticated" => orphaned'
    BY <1>2 DEF OtherTabRemoves
  <2>3. orphaned' \in BOOLEAN
    BY <1>2 DEF OtherTabRemoves
  <2>4. MachineInv'
    BY <2>1, <2>2 DEF waits, IInv, MachineInv, AccessHasSession, ReceiptIsOfLastFlow
  <2>5. ElectionInv'
    BY <2>1 DEF elections, IInv, ElectionInv, ScopedAccessIsFresh
  <2>6. WaitsTyped' /\ CustodyTyped' /\ HistoriesTyped'
    BY <1>2, <2>1, <2>3 DEF OtherTabRemoves, waits, IInv, WaitsTyped, CustodyTyped, HistoriesTyped
  <2>7. ActivatedStep
    BY <2>1 DEF ActivatedStep
  <2> QED  BY <2>4, <2>5, <2>6, <2>7 DEF IInv
<1> QED  BY <1>1, <1>2 DEF OtherTabs

-----------------------------------------------------------------------------
(* The theorems.                                                             *)

\* The machine starts sound, with no access in its history.
LEMMA Start == Init => IInv
<1> SUFFICES ASSUME Init PROVE IInv
  OBVIOUS
<1>1. Sound(m) /\ m.auth = "initializing" /\ m.receipt = 0
  BY NewSound DEF Init, NewMachine
<1>2. MachineInv
  BY <1>1 DEF Init, MachineInv, AccessHasSession, ReceiptIsOfLastFlow
<1>3. ElectionInv
  BY AuthAssumption DEF Init, ElectionInv, ScopedAccessIsFresh, NoRequest
<1>4. WaitsTyped /\ CustodyTyped /\ HistoriesTyped
  <2>1. <<>> \in Seq({"removal", "flow"})
    OBVIOUS
  <2>2. Nothing \in [op : PageOps \cup {"cancel"}, cancel : BOOLEAN] /\ Nothing.op = "none" /\ ~Nothing.cancel
    BY DEF Nothing, PageOps
  <2> QED  BY <2>1, <2>2 DEF Init, WaitsTyped, CustodyTyped, HistoriesTyped
<1> QED  BY <1>2, <1>3, <1>4 DEF IInv

\* Every step keeps the invariant, and none gives a pending identity its access.
LEMMA Step == IInv /\ [Next]_vars => IInv' /\ (ActivatedStep \/ UNCHANGED vars)
<1> SUFFICES ASSUME IInv, [Next]_vars PROVE IInv' /\ (ActivatedStep \/ UNCHANGED vars)
  OBVIOUS
<1>1. CASE User
  <2>1. CASE FlowCompletes
    <3>1. {"onboard"} \subseteq Operations
      BY DEF Operations
    <3> QED  BY <2>1, <3>1, AnswerStep DEF FlowCompletes
  <2>2. CASE Rebuild \/ RequestElection \/ PressLock
    BY <2>2, RebuildStep, RequestElectionStep, PressLockStep
  <2> QED  BY <1>1, <2>1, <2>2, ChooseFlowStep, BackStep, UnlockStep, ConfirmStep,
              RemoveLocalUserStep, EndAccessStep, RetryStep, CapabilityStep DEF User
<1>2. CASE OtherTabs
  BY <1>2, OtherTabsStep
<1>3. CASE SystemStep
  <2>1. CASE WorkerAnswers
    <3>1. {"inspect", "unlock", "verify", "promote", "confirm", "clean", "remove"} \subseteq Operations
      BY DEF Operations
    <3> QED  BY <2>1, <3>1, AnswerStep DEF WorkerAnswers
  <2> QED  BY <1>3, <2>1, CapabilityStep, LeftEndsStep, LeftCapabilityStep, CancelServedStep, LockServedStep, ElectionAnsweredStep,
              InvalidationStep, ComposeStep DEF SystemStep
<1>4. CASE \E state \in {"online", "offline"} : Connectivity(state)
  BY <1>4, ConnectivityStep
<1>5. CASE UNCHANGED vars
  <2>1. UNCHANGED <<m, waits, custody, notice, histories>> /\ UNCHANGED <<connectivity, elections>>
    BY <1>5 DEF vars
  <2>2. ElectionInv'
    BY <2>1 DEF elections, IInv, ElectionInv, ScopedAccessIsFresh
  <2> QED  BY <1>5, <2>1, <2>2, MachineStays DEF IInv
<1> QED  BY <1>1, <1>2, <1>3, <1>4, <1>5 DEF Next

\* What holds in every state.
LEMMA Reachable == Spec => []IInv
<1>1. IInv /\ [Next]_vars => IInv'
  BY Step
<1> QED  BY <1>1, Start, PTL DEF Spec

\* Every variable has its type, whatever the users of all tabs do.
THEOREM MachineTypes == Spec => []TypeOK
BY Reachable, Safe, PTL

\* No answer a state of machine.ts waits for is dropped as a stale one's
\* (isCurrentOperation), and no state waits for one nobody will give.
THEOREM AnswersAreHeard == Spec => []HearsItsOperation
BY Reachable, Safe, PTL

\* The access that a page shows has a session in the worker, or the page is
\* about to hear otherwise, or another tab has removed the user.
THEOREM AccessHasItsSession == Spec => []AccessHasSession
BY Reachable, Safe, PTL

\* The election access shown was asked for by this access and over this
\* connection (entitlement-bridge.ts, resolveElectionAccess).
THEOREM ElectionAccessIsFresh == Spec => []ScopedAccessIsFresh
BY Reachable, Safe, PTL

\* "Restored" is said of the flow that was completed last, in its epoch
\* (recordRestorationCompletion, incrementEpoch).
THEOREM ReceiptTheorem == Spec => []ReceiptIsOfLastFlow
BY Reachable, Safe, PTL

\* Two accesses of one machine have different epochs (and one machine ends
\* before another begins, with which the histories begin anew).
THEOREM EpochsOfAccesses == Spec => AccessIsNew
<1>1. IInv /\ [Next]_vars => IInv'
  BY Step
<1>2. IInv => (m.auth # "authenticated" /\ m'.auth = "authenticated"
                  => ~hadAccess \/ m'.epoch > m.epoch)
  BY DEF IInv, MachineInv
<1> QED  BY <1>1, <1>2, Start, PTL DEF Spec, AccessIsNew

\* An access that a verification gives is not that of a pending identity: the
\* adapter has promoted it before it answers.
THEOREM AccessIsActivated == Spec => ActivatedBeforeAccess
<1>1. IInv /\ [Next]_vars => IInv'
  BY Step
<1>2. IInv /\ [Next]_vars
        => [m.auth = "verifying" /\ m'.auth = "authenticated" => vault' # "pending"]_vars
  BY Step DEF ActivatedStep
<1> QED  BY <1>1, <1>2, Start, PTL DEF Spec, ActivatedBeforeAccess
=============================================================================
