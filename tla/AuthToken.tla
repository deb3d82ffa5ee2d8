------------------------------ MODULE AuthToken ------------------------------
(***************************************************************************)
(* The token cache of the gcp auth plugin.  Requests to the apiserver, one *)
(* per caller, share a token in memory (cachedTokenSource), which is also  *)
(* written to the configuration on disk, where the next process finds it.  *)
(*                                                                         *)
(* A request takes the cached token, or runs the token source and stores   *)
(* what it gets: in memory under the lock, on disk after it.  An answer    *)
(* 401 takes the token out of the configuration on disk.  A request that   *)
(* brings its own Authorization header touches nothing and is left out, as *)
(* are the user's options, which both writers copy.                        *)
(*                                                                         *)
(* The oauth2 library takes a token for expired ten seconds early, when it *)
(* is "late" here, and a request is over within that time.                 *)
(***************************************************************************)
EXTENDS Naturals

CONSTANTS
  Callers,
  Tokens,     \* model values; a token that nobody holds may be issued anew
  None, Zero, Unreadable,  \* no token, the zero time, an expiry that cannot be parsed
  MaxFaults   \* bound on the faults: errors, lost writes, revocations, restarts

ASSUME TokenAssumption ==
  /\ None \notin Tokens /\ Zero \notin Tokens /\ Unreadable \notin Tokens
  /\ Zero # Unreadable
  /\ MaxFaults \in Nat

VARIABLES
  memory,   \* accessToken and expiry of the cachedTokenSource
  disk,     \* access-token and expiry in the configuration
  pc,       \* where the request of a caller is, or how its last one ended
  held,     \* the token a request works with
  status,   \* what the clock says of a token
  revoked,  \* tokens the apiserver no longer accepts
  faults

vars == <<memory, disk, pc, held, status, revoked, faults>>

-----------------------------------------------------------------------------
\* A token with an expiry, which is Zero when it is not known and is otherwise
\* named by the token it belongs to.
Pair(t, e) == [token |-> t, expiry |-> e]
Empty      == Pair(None, Zero)

AtRest == {"idle", "ok", "error", "rejected"}

\* Tokens that somebody may still use.
InUse == {memory.token, disk.token} \union {held[c].token : c \in Callers}

\* Mutant: an expiry that cannot be parsed is kept.
LoadRaw(p) == p

\* The process starts with the token of its configuration.
Load(p) == Pair(p.token, IF p.expiry = Unreadable THEN Zero ELSE p.expiry)

\* Mutant: a token without an expiry is valid.
ValidAnyExpiry(p) == p.token # None /\ (p.expiry = Zero \/ status[p.expiry] = "good")

\* Mutant: the expiry is not looked at.
ValidToken(p) == p.token # None

\* A token is used from the cache if its expiry is known and not near.
Valid(p) == p.token # None /\ p.expiry # Zero /\ status[p.expiry] = "good"

Init ==
  /\ disk \in {Empty} \union {Pair(t, e) : t \in Tokens, e \in {Unreadable}}
                      \union {Pair(t, t) : t \in Tokens}
  /\ memory = Load(disk)
  /\ pc = [c \in Callers |-> "idle"]
  /\ held = [c \in Callers |-> Empty]
  /\ status = [t \in Tokens |-> "good"]
  /\ revoked = {}
  /\ faults = 0

Fault   == faults < MaxFaults /\ faults' = faults + 1
NoFault == UNCHANGED faults

Goto(c, place) == pc' = [pc EXCEPT ![c] = place]
Hold(c, p)     == held' = [held EXCEPT ![c] = p]

-----------------------------------------------------------------------------
(* A request. *)

\* cachedToken, under the lock.
Check(c) ==
  /\ pc[c] \in AtRest
  /\ IF Valid(memory) THEN Goto(c, "send") /\ Hold(c, memory)
                      ELSE Goto(c, "fetch") /\ Hold(c, Empty)
  /\ UNCHANGED <<memory, disk, status, revoked, faults>>

\* The source fails, returns a token it issued before, or a new one; its expiry
\* may be in a format that is not the configured one.
Fetch(c) ==
  /\ pc[c] = "fetch"
  /\ \/ /\ Fault /\ Goto(c, "error")
        /\ UNCHANGED <<held, status, revoked>>
     \/ \E t \in Tokens : \E e \in {t, Zero} :
          /\ NoFault /\ Goto(c, "update") /\ Hold(c, Pair(t, e))
          /\ \/ t \in InUse /\ status[t] = "good" /\ UNCHANGED <<status, revoked>>
             \/ /\ t \notin InUse
                /\ status' = [status EXCEPT ![t] = "good"]
                /\ revoked' = revoked \ {t}
  /\ UNCHANGED <<memory, disk>>

\* update, under the lock: what is to be persisted is copied in the same step.
Update(c) ==
  /\ pc[c] = "update"
  /\ memory' = held[c]
  /\ Goto(c, "persist")
  /\ UNCHANGED <<disk, held, status, revoked, faults>>

\* Mutant: the expiry is formatted after the lock was released.
PersistLateExpiry(c) ==
  /\ pc[c] = "persist"
  /\ disk' = Pair(held[c].token, memory.expiry)
  /\ Goto(c, "send")
  /\ UNCHANGED <<memory, held, status, revoked, faults>>

\* An error is only logged.
Persist(c) ==
  /\ pc[c] = "persist"
  /\ \/ NoFault /\ disk' = held[c]
     \/ Fault /\ UNCHANGED disk
  /\ Goto(c, "send")
  /\ UNCHANGED <<memory, held, status, revoked>>

\* The apiserver answers, or the transport fails.
Send(c) ==
  /\ pc[c] = "send"
  /\ \/ /\ status[held[c].token] # "expired" /\ held[c].token \notin revoked
        /\ NoFault /\ Goto(c, "ok") /\ Hold(c, Empty)
     \/ /\ status[held[c].token] = "expired" \/ held[c].token \in revoked
        /\ NoFault /\ Goto(c, "reset") /\ UNCHANGED held
     \/ Fault /\ Goto(c, "error") /\ Hold(c, Empty)
  /\ UNCHANGED <<memory, disk, status, revoked>>

\* RoundTrip on a 401; an error of the persister is ignored, and the token in
\* memory stays.
Reset(c) ==
  /\ pc[c] = "reset"
  /\ \/ NoFault /\ disk' = Empty
     \/ Fault /\ UNCHANGED disk
  /\ Goto(c, "rejected")
  /\ UNCHANGED <<memory, held, status, revoked>>

Call(c) == Check(c) \/ Fetch(c) \/ Update(c) \/ Persist(c) \/ Send(c) \/ Reset(c)

-----------------------------------------------------------------------------
(* The process, time and the apiserver. *)

Restart ==
  /\ Fault
  /\ memory' = Load(disk)
  /\ pc' = [c \in Callers |-> "idle"] /\ held' = [c \in Callers |-> Empty]
  /\ UNCHANGED <<disk, status, revoked>>

Age(t) ==
  /\ t \in InUse /\ status[t] = "good"
  /\ status' = [status EXCEPT ![t] = "late"]
  /\ UNCHANGED <<memory, disk, pc, held, revoked, faults>>

\* No request that took the token before it was late is still under way.
Expire(t) ==
  /\ t \in InUse /\ status[t] = "late"
  /\ \A c \in Callers : held[c].token = t => pc[c] \in {"reset", "rejected"}
  /\ status' = [status EXCEPT ![t] = "expired"]
  /\ UNCHANGED <<memory, disk, pc, held, revoked, faults>>

Revoke(t) ==
  /\ t \in InUse \ revoked /\ Fault
  /\ revoked' = revoked \union {t}
  /\ UNCHANGED <<memory, disk, pc, held, status>>

Next ==
  \/ \E c \in Callers : Call(c)
  \/ Restart
  \/ \E t \in Tokens : Age(t) \/ Expire(t) \/ Revoke(t)

Spec == Init /\ [][Next]_vars

\* Callers go on calling, as the watches of the informers do, and time passes.
Fairness ==
  /\ \A c \in Callers : WF_vars(Call(c))
  /\ \A t \in Tokens : WF_vars(Age(t))

FairSpec == Spec /\ Fairness

-----------------------------------------------------------------------------
Pairs == [token: Tokens \union {None}, expiry: Tokens \union {Zero}]

Places == AtRest \union {"fetch", "update", "persist", "send", "reset"}

\* The state has its type; in memory an expiry is a time (gcp.go:183-209).
TypeOK ==
  /\ memory \in Pairs
  /\ disk \in [token: Tokens \union {None}, expiry: Tokens \union {Zero, Unreadable}]
  /\ pc \in [Callers -> Places]
  /\ held \in [Callers -> Pairs]
  /\ status \in [Tokens -> {"good", "late", "expired"}]
  /\ revoked \subseteq Tokens
  /\ faults \in Nat

Matches(p) == p.expiry \in Tokens => p.expiry = p.token

\* A token is never kept beside the expiry of another one, in memory or on disk,
\* although several callers refresh the token and persist it in any order: the
\* other expiry could make a token that is over look valid (gcp.go:211-251).
PairsMatch == Matches(memory) /\ Matches(disk)

\* The apiserver rejects a token only if it was revoked: no request uses one that
\* has expired, wherever the token and its expiry came from (gcp.go:194-215).
OnlyRevokedRejected ==
  \A c \in Callers : pc[c] = "reset" => held[c].token \in revoked

\* A caller that was answered 401 and goes on calling is accepted in the end,
\* although a 401 does not clear the token in memory (gcp.go:211-227, 361-378).
EventuallyAuthorized ==
  \A c \in Callers : pc[c] = "rejected" ~> pc[c] = "ok"

-----------------------------------------------------------------------------
\* Why requests use no expired token: one that is on its way to the apiserver holds
\* a token that was valid when it took it and has not expired since, also if
\* another caller has replaced it in memory or removed it from disk
\* (gcp.go:211-227, 361-371).
HeldUsable ==
  \A c \in Callers :
    /\ Matches(held[c])
    /\ pc[c] \in {"update", "persist", "send"} =>
         held[c].token \in Tokens /\ status[held[c].token] # "expired"

\* The inductive invariant.
TokenInv == TypeOK /\ PairsMatch /\ HeldUsable /\ OnlyRevokedRejected
=============================================================================
