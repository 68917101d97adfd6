----------------------------- MODULE Onboarding ------------------------------
(* The onboarding of the browser as a whole: at noLocalUser the root machine *)
(* (auth/state/machine.ts) starts the flow the user picks, on a fresh child  *)
(* runtime (createWebOnboardingPorts), beside the worker the flow before has *)
(* left behind.  A flow that has ended cannot be told from one that never    *)
(* was, but for what it forgot: that is what the properties are about.  What *)
(* the flow before has left on its way meets the next one: a provision that  *)
(* outlived its revocation, a lock, resolvers of capabilities.               *)
EXTENDS OnboardingRoot

CONSTANTS
    MaxFiles,     \* bound on the files the user chooses
    MaxLookups,   \* lookups that wait for a registration (60 in the code)
    MaxLeft       \* bound on what a flow may find left behind

ASSUME FlowAssumption == MaxFiles \in Nat \ {0} /\ MaxLookups \in Nat \ {0} /\ MaxLeft \in Nat

VARIABLES
    flow,        \* the OnboardingKind whose runtime is the current one
    rt,          \* the fields of that runtime
    files, book, abandoned  \* of CredentialFileChild

fileVars == <<files, book, abandoned>>
vars == <<sharedVars, flow, rt, fileVars>>

Create == INSTANCE CreateUserChild
Words  == INSTANCE RecoveryWordsChild
File   == INSTANCE CredentialFileChild

Kinds == {"createUser", "restoreRecoveryWords", "restoreCredentialFile"}

(* startRuntime: nothing of the runtime before is reused.                    *)
Runtime(kind) ==
    CASE kind = "createUser" -> Create!NewRuntime
      [] kind = "restoreRecoveryWords" -> Words!NewRuntime
      [] kind = "restoreCredentialFile" -> File!NewRuntime

Entry(kind) == IF kind = "createUser" THEN "start" ELSE "entry"

(* New keys are of no registered identity, restored ones may be of one.      *)
ProfilesOf(kind) == IF kind = "createUser" THEN {"absent", "foreign"} ELSE {"absent", "ours", "foreign"}

(* What the flow before has on its way.  Its runtime is disposed: a function *)
(* that waits for the page's own fetch or for a candidate that is gone would *)
(* only return.  A lock revokes whatever flow it meets.                      *)
LeftBehind == {[c EXCEPT !.fn = "left"] : c \in {d \in InPort : d.op = "lockAll"}}

(* Nothing on its way names a ref or a file of the flow before: what the     *)
(* worker still holds is numbered afresh, and a file left in the book, which *)
(* only its own operation could take, is not followed further.               *)
Renumbered ==
    /\ IF session = "none" /\ vault = "absent"
       THEN made' = Cardinality(live) /\ live' = 1 .. made' /\ interruptions' = 0
       ELSE UNCHANGED <<made, live, interruptions>>
    /\ files' = 0 /\ book' = {} /\ abandoned' = {}

Choose(kind) ==
    /\ root = "choices" /\ Quiet
    /\ Cardinality(LeftBehind) + lost + Cardinality(Unanswered) + (IF ghost THEN 1 ELSE 0) <= MaxLeft
    /\ flow' = kind /\ rt' = Runtime(kind)
    /\ root' = "running" /\ cleanup' = "idle"
    /\ calls' = LeftBehind \cup {CallAfter(LeftBehind, Entry(kind), 1, "inspect", NoRef)}
    /\ lost' = lost + Cardinality(Unanswered)
    /\ posted' = 0 /\ profile' \in ProfilesOf(kind)
    /\ Renumbered
    /\ UNCHANGED <<session, owner, vault, active, ghost>>

Init ==
    /\ live = {} /\ made = 0 /\ session = "none" /\ owner = "none" /\ vault = "absent"
    /\ active = Idle /\ ghost = FALSE /\ posted = 0 /\ profile = "absent" /\ interruptions = 0
    /\ lost = 0
    /\ root = "choices" /\ cleanup = "complete" /\ calls = {}
    /\ flow = "createUser" /\ rt = Create!NewRuntime
    /\ files = 0 /\ book = {} /\ abandoned = {}

CreateStep == flow = "createUser" /\ Create!Next /\ UNCHANGED <<flow, fileVars>>
WordsStep  == flow = "restoreRecoveryWords" /\ Words!Next /\ UNCHANGED <<flow, fileVars>>
FileStep   == flow = "restoreCredentialFile" /\ File!Next /\ UNCHANGED flow

(* The lock of a flow that was left has no one waiting.                      *)
LeftReturns ==
    /\ \E c \in calls : c.fn = "left" /\ ~Waiting(c) /\ calls' = calls \ {c}
    /\ UNCHANGED <<worker, network, interruptions, lost, root, cleanup, flow, rt, fileVars>>

Next == CreateStep \/ WordsStep \/ FileStep \/ LeftReturns \/ \E kind \in Kinds : Choose(kind)

Spec == Init /\ [][Next]_vars

(* The worker answers what it admits, a fetch ends or times out, microtasks  *)
(* run: nothing is assumed of the user, of other tabs or of the chain.  The  *)
(* one property that needs fairness needs it while a Back is cleaned up.     *)
SystemStep ==
    \/ flow = "createUser" /\ Create!SystemStep /\ UNCHANGED <<flow, fileVars>>
    \/ flow = "restoreRecoveryWords" /\ Words!SystemStep /\ UNCHANGED <<flow, fileVars>>
    \/ flow = "restoreCredentialFile" /\ File!SystemStep /\ UNCHANGED flow
    \/ LeftReturns

FairSpec == Spec /\ WF_vars(root = "cleaning" /\ SystemStep)

-----------------------------------------------------------------------------
TypeOK ==
    /\ flow \in Kinds
    /\ flow = "createUser" => Create!TypeOK
    /\ flow = "restoreRecoveryWords" => Words!TypeOK
    /\ flow = "restoreCredentialFile" => File!TypeOK

(* One flow signs and posts at most one registration, however often the user *)
(* presses, the connection drops or a poll fires.                            *)
SubmittedOnce == posted <= 1

(* Nothing is registered that the user has not asked for: the words of a new *)
(* identity were confirmed, the profile of a restored one was reviewed as    *)
(* missing.                                                                  *)
PostedAsAsked ==
    [][posted' > posted => CASE flow = "createUser" -> Create!PostedAsAsked
                             [] flow = "restoreRecoveryWords" -> Words!PostedAsAsked
                             [] flow = "restoreCredentialFile" -> File!PostedAsAsked]_vars

SessionOnly == flow # "createUser" /\ rt.sessionOnly

(* What a flow hands to the root is verified, with the session still open,   *)
(* and kept as the user chose: in an active vault, or in no vault.  The      *)
(* exception is a provision that outlived its revocation and has installed   *)
(* its own session in this flow's place.                                     *)
HandedOverVerified ==
    [][root # "verifying" /\ root' = "verifying" /\ owner # "stray" =>
          /\ session = "authenticated" /\ profile = "ours"
          /\ owner = (IF SessionOnly THEN "memory" ELSE "vault")
          /\ ~SessionOnly => vault = "active"]_vars

(* What the flow before left in the worker, or what this one has moved away  *)
(* from, is not protected beside the identity the user has chosen.           *)
OneIdentity ==
    /\ flow = "createUser" => Create!OneIdentity
    /\ flow = "restoreRecoveryWords" => Words!OneIdentity
    /\ flow = "restoreCredentialFile" => File!OneIdentity

(* Back comes out at a root whose worker has given up what the flow made.    *)
BackLeavesNothing ==
    /\ flow = "createUser" => Create!BackLeavesNothing
    /\ flow = "restoreRecoveryWords" => Words!BackLeavesNothing
    /\ flow = "restoreCredentialFile" => File!BackLeavesNothing

(* One Lock or one Back revokes the authority once, and not the inspection   *)
(* the root starts after it.  (The Lock of the recovery words locks again    *)
(* when the root cleans up after it, and may end in blockedError.)           *)
InspectionUndisturbed ==
    /\ flow = "createUser" => Create!InspectionUndisturbed
    /\ flow = "restoreCredentialFile" => File!InspectionUndisturbed

(* A registration the user waits for is asked about again by itself.         *)
RegistrationPolls ==
    /\ flow = "createUser" => Create!RegistrationPolls
    /\ flow = "restoreRecoveryWords" => Words!RegistrationPolls

(* Back is answered: the root does not wait for a cleanup for ever.          *)
BackIsAnswered == []<>(root # "cleaning")
=============================================================================
