----------------------------- MODULE AtomicVault ------------------------------
(* What the two-slot store promises its callers, with no slots, no journal   *)
(* and no crash: one current vault that changes in single atomic steps, each *)
(* the answer to the request made last.                                      *)
(*                                                                           *)
(* A vault is created once, at generation 1, and from then on                *)
(*   - a commit replaces it by a package of the next generation;             *)
(*   - a promotion re-seals it for the OS provider at the same generation;   *)
(*   - a verified rollback moves it to the one other package kept, which is  *)
(*     at most one generation away (storage/writer.rs, module comment).      *)
(* A request that is interrupted changes nothing.  An OS-backed package is   *)
(* authenticated under the key of the request that makes it current, if that *)
(* names one.  Two things the code does not promise: a password-only         *)
(* package, or one of a rollback without a key, may be current with an       *)
(* altered payload, and the first package is never read back, so it may even *)
(* be `broken`.                                                              *)
EXTENDS Naturals

CONSTANTS Keys, NoKey, MaxGeneration

VARIABLES
    vault,    \* the current package, None, or Broken (damaged first write)
    request   \* the switch asked for and not answered, or NoRequest

Generations == 1 .. MaxGeneration

Packages ==
    [mode : {"osBacked"}, gen : Generations, key : Keys, payload : {"intact", "altered"}]
        \cup [mode : {"passwordOnly"}, gen : Generations, key : {NoKey}, payload : {"intact", "altered"}]

None   == [mode |-> "none", gen |-> 0, key |-> NoKey, payload |-> "intact"]
Broken == [mode |-> "broken", gen |-> 1, key |-> NoKey, payload |-> "altered"]

Requests == [op : {"provision", "commit", "promote", "rollback"}, key : Keys \cup {NoKey}]
NoRequest == [op |-> "none", key |-> NoKey]

Init == vault = None /\ request = NoRequest

Ask ==
    /\ request = NoRequest
    /\ request' \in Requests
    /\ UNCHANGED vault

GiveUp ==
    /\ request # NoRequest
    /\ request' = NoRequest
    /\ UNCHANGED vault

\* The package is authenticated under the request's key, where that applies.
Authentic(p) ==
    p.mode = "osBacked" /\ request.key # NoKey => p.payload = "intact" /\ p.key = request.key

Create ==
    /\ request.op = "provision"
    /\ vault = None
    /\ vault' \in {p \in Packages : p.gen = 1} \cup {Broken}

Commit ==
    /\ request.op = "commit"
    /\ vault # None
    /\ vault' \in {p \in Packages : /\ p.gen = vault.gen + 1
                                    /\ Authentic(p)
                                    /\ p.key = request.key}

Promote ==
    /\ request.op = "promote"
    /\ vault # None
    /\ vault' \in {p \in Packages : /\ p.gen = vault.gen
                                    /\ p.mode = "osBacked" /\ p.payload = "intact"
                                    /\ p.key = request.key}

Rollback ==
    /\ request.op = "rollback"
    /\ vault # None
    /\ vault' \in {p \in Packages : /\ \/ p.gen \in {vault.gen, vault.gen + 1}
                                       \/ p.gen + 1 = vault.gen
                                    /\ Authentic(p)}

Answer ==
    /\ request' = NoRequest
    /\ Create \/ Commit \/ Promote \/ Rollback

Next == Ask \/ GiveUp \/ Answer

Spec == Init /\ [][Next]_<<vault, request>>
=============================================================================
