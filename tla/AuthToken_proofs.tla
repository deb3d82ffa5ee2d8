--------------------------- MODULE AuthToken_proofs ---------------------------
(* Proofs about the token cache of the gcp auth plugin. *)
EXTENDS AuthToken, TLAPS

USE TokenAssumption

\* What a process loads has the type of what is in memory, and its expiry is that of
\* its token if the one on disk was (gcp.go:194-209).
LEMMA LoadTyped ==
  ASSUME NEW p \in [token: Tokens \union {None}, expiry: Tokens \union {Zero, Unreadable}],
         Matches(p)
  PROVE  Load(p) \in Pairs /\ Matches(Load(p))
  BY DEF Load, Pair, Pairs, Matches

\* A cached token that is valid is a token, and has not expired (gcp.go:211-215).
LEMMA ValidUsable ==
  ASSUME NEW p \in Pairs, Matches(p), Valid(p)
  PROVE  p.token \in Tokens /\ status[p.token] = "good"
  BY DEF Valid, Pairs, Matches

LEMMA EmptyTyped == Empty \in Pairs /\ Matches(Empty)
  BY DEF Empty, Pair, Pairs, Matches

LEMMA TokenInvInit == Init => TokenInv
<1> SUFFICES ASSUME Init PROVE TokenInv
  OBVIOUS
<1>1. /\ disk \in [token: Tokens \union {None}, expiry: Tokens \union {Zero, Unreadable}]
      /\ Matches(disk)
  BY EmptyTyped DEF Init, Pair, Empty, Matches
<1>2. memory \in Pairs /\ Matches(memory)
  BY <1>1, LoadTyped DEF Init
<1>3. TypeOK
  BY <1>1, <1>2, EmptyTyped DEF Init, TypeOK, Places, AtRest
<1>4. PairsMatch
  BY <1>1, <1>2 DEF PairsMatch
<1>5. HeldUsable
  BY EmptyTyped DEF Init, HeldUsable
<1>6. OnlyRevokedRejected
  BY DEF Init, OnlyRevokedRejected
<1> QED
  BY <1>3, <1>4, <1>5, <1>6 DEF TokenInv

\* A fault is counted.
LEMMA FaultTyped ==
  ASSUME faults \in Nat, Fault \/ NoFault
  PROVE  faults' \in Nat
  BY DEF Fault, NoFault

LEMMA CheckInv ==
  ASSUME TokenInv, NEW c \in Callers, Check(c)
  PROVE  TokenInv'
<1> USE DEF TokenInv
<1>1. \/ Valid(memory) /\ pc' = [pc EXCEPT ![c] = "send"] /\ held' = [held EXCEPT ![c] = memory]
      \/ pc' = [pc EXCEPT ![c] = "fetch"] /\ held' = [held EXCEPT ![c] = Empty]
  BY DEF Check, Goto, Hold
<1>2. UNCHANGED <<memory, disk, status, revoked, faults>>
  BY DEF Check
<1>3. TypeOK'
  BY <1>1, <1>2, EmptyTyped DEF TypeOK, Places
<1>4. PairsMatch'
  BY <1>2 DEF PairsMatch, Matches
<1>5. HeldUsable'
  <2>1. CASE Valid(memory) /\ pc' = [pc EXCEPT ![c] = "send"]
                           /\ held' = [held EXCEPT ![c] = memory]
    <3>1. memory.token \in Tokens /\ status[memory.token] = "good" /\ Matches(memory)
      BY <2>1, ValidUsable DEF TypeOK, PairsMatch
    <3> QED
      BY <2>1, <3>1, <1>2 DEF HeldUsable, TypeOK, Matches
  <2>2. CASE pc' = [pc EXCEPT ![c] = "fetch"] /\ held' = [held EXCEPT ![c] = Empty]
    BY <2>2, <1>2, EmptyTyped DEF HeldUsable, TypeOK, Matches
  <2> QED
    BY <1>1, <2>1, <2>2
<1>6. OnlyRevokedRejected'
  BY <1>1, <1>2 DEF OnlyRevokedRejected, TypeOK
<1> QED
  BY <1>3, <1>4, <1>5, <1>6

LEMMA FetchInv ==
  ASSUME TokenInv, NEW c \in Callers, Fetch(c)
  PROVE  TokenInv'
<1> USE DEF TokenInv
<1>1. CASE Fault /\ Goto(c, "error") /\ UNCHANGED <<memory, disk, held, status, revoked>>
  BY <1>1, FaultTyped
     DEF Goto, TypeOK, Places, AtRest, PairsMatch, Matches, HeldUsable, OnlyRevokedRejected
<1>2. CASE \E t \in Tokens : \E e \in {t, Zero} :
             /\ NoFault /\ Goto(c, "update") /\ Hold(c, Pair(t, e))
             /\ \/ t \in InUse /\ status[t] = "good" /\ UNCHANGED <<status, revoked>>
                \/ /\ t \notin InUse
                   /\ status' = [status EXCEPT ![t] = "good"]
                   /\ revoked' = revoked \ {t}
             /\ UNCHANGED <<memory, disk>>
  <2>a. PICK t \in Tokens : \E e \in {t, Zero} :
             /\ NoFault /\ Goto(c, "update") /\ Hold(c, Pair(t, e))
             /\ \/ t \in InUse /\ status[t] = "good" /\ UNCHANGED <<status, revoked>>
                \/ /\ t \notin InUse
                   /\ status' = [status EXCEPT ![t] = "good"]
                   /\ revoked' = revoked \ {t}
             /\ UNCHANGED <<memory, disk>>
    BY <1>2
  <2>1. PICK e \in {t, Zero} :
             /\ NoFault /\ Goto(c, "update") /\ Hold(c, Pair(t, e))
             /\ \/ t \in InUse /\ status[t] = "good" /\ UNCHANGED <<status, revoked>>
                \/ /\ t \notin InUse
                   /\ status' = [status EXCEPT ![t] = "good"]
                   /\ revoked' = revoked \ {t}
             /\ UNCHANGED <<memory, disk>>
    BY <2>a
  <2>2. Pair(t, e) \in Pairs /\ Matches(Pair(t, e)) /\ Pair(t, e).token = t
    BY DEF Pair, Pairs, Matches
  <2>3. pc' = [pc EXCEPT ![c] = "update"] /\ held' = [held EXCEPT ![c] = Pair(t, e)]
    BY <2>1 DEF Goto, Hold
  <2>4. status'[t] = "good" /\ \A u \in Tokens \ {t} : status'[u] = status[u]
    BY <2>1 DEF TypeOK
  <2>5. \A d \in Callers : held[d].token \in revoked => held[d].token \in revoked'
    BY <2>1 DEF InUse
  <2>6. TypeOK'
    BY <2>1, <2>2, <2>3, FaultTyped DEF TypeOK, Places
  <2>7. PairsMatch'
    BY <2>1 DEF PairsMatch, Matches
  <2>8. HeldUsable'
    BY <2>2, <2>3, <2>4 DEF HeldUsable, TypeOK, Matches
  <2>9. OnlyRevokedRejected'
    BY <2>3, <2>5 DEF OnlyRevokedRejected, TypeOK
  <2> QED
    BY <2>6, <2>7, <2>8, <2>9
<1> QED
  BY <1>1, <1>2 DEF Fetch

LEMMA UpdateInv ==
  ASSUME TokenInv, NEW c \in Callers, Update(c)
  PROVE  TokenInv'
  BY DEF TokenInv, Update, Goto, TypeOK, Places, PairsMatch, HeldUsable, Matches,
         OnlyRevokedRejected

LEMMA PersistInv ==
  ASSUME TokenInv, NEW c \in Callers, Persist(c)
  PROVE  TokenInv'
<1> USE DEF TokenInv
<1>1. /\ pc' = [pc EXCEPT ![c] = "send"] /\ disk' \in {disk, held[c]}
      /\ pc[c] = "persist" /\ faults' \in Nat
      /\ UNCHANGED <<memory, held, status, revoked>>
  BY FaultTyped DEF Persist, Goto, TypeOK
<1>2. TypeOK'
  BY <1>1 DEF TypeOK, Places, Pairs
<1>3. PairsMatch'
  BY <1>1 DEF PairsMatch, HeldUsable, Matches
<1>4. HeldUsable' /\ OnlyRevokedRejected'
  BY <1>1 DEF HeldUsable, OnlyRevokedRejected, TypeOK, Matches
<1> QED
  BY <1>2, <1>3, <1>4

LEMMA SendInv ==
  ASSUME TokenInv, NEW c \in Callers, Send(c)
  PROVE  TokenInv'
<1> USE DEF TokenInv
<1>1. /\ pc[c] = "send" /\ faults' \in Nat
      /\ UNCHANGED <<memory, disk, status, revoked>>
      /\ \/ pc' = [pc EXCEPT ![c] = "ok"] /\ held' = [held EXCEPT ![c] = Empty]
         \/ pc' = [pc EXCEPT ![c] = "error"] /\ held' = [held EXCEPT ![c] = Empty]
         \/ /\ status[held[c].token] = "expired" \/ held[c].token \in revoked
            /\ pc' = [pc EXCEPT ![c] = "reset"] /\ held' = held
  BY FaultTyped DEF Send, Goto, Hold, TypeOK
<1>2. TypeOK'
  BY <1>1, EmptyTyped DEF TypeOK, Places, AtRest
<1>3. PairsMatch'
  BY <1>1 DEF PairsMatch, Matches
<1>4. HeldUsable'
  BY <1>1, EmptyTyped DEF HeldUsable, TypeOK, Matches
<1>5. OnlyRevokedRejected'
  BY <1>1 DEF OnlyRevokedRejected, HeldUsable, TypeOK
<1> QED
  BY <1>2, <1>3, <1>4, <1>5

LEMMA ResetInv ==
  ASSUME TokenInv, NEW c \in Callers, Reset(c)
  PROVE  TokenInv'
<1> USE DEF TokenInv
<1>1. /\ pc' = [pc EXCEPT ![c] = "rejected"] /\ disk' \in {disk, Empty}
      /\ faults' \in Nat
      /\ UNCHANGED <<memory, held, status, revoked>>
  BY FaultTyped DEF Reset, Goto, TypeOK
<1>2. TypeOK'
  BY <1>1, EmptyTyped DEF TypeOK, Places, AtRest, Pairs
<1>3. PairsMatch'
  BY <1>1, EmptyTyped DEF PairsMatch, Matches
<1>4. HeldUsable' /\ OnlyRevokedRejected'
  BY <1>1 DEF HeldUsable, OnlyRevokedRejected, TypeOK, Matches
<1> QED
  BY <1>2, <1>3, <1>4

LEMMA RestartInv ==
  ASSUME TokenInv, Restart
  PROVE  TokenInv'
<1> USE DEF TokenInv
<1>1. memory' \in Pairs /\ Matches(memory')
  BY LoadTyped DEF Restart, TypeOK, PairsMatch
<1>2. TypeOK'
  BY <1>1, EmptyTyped, FaultTyped DEF Restart, TypeOK, Places, AtRest
<1>3. PairsMatch'
  BY <1>1 DEF Restart, PairsMatch, Matches
<1>4. HeldUsable' /\ OnlyRevokedRejected'
  BY EmptyTyped DEF Restart, HeldUsable, OnlyRevokedRejected, Matches
<1> QED
  BY <1>2, <1>3, <1>4

LEMMA TimeInv ==
  ASSUME TokenInv, NEW t \in Tokens, Age(t) \/ Expire(t) \/ Revoke(t)
  PROVE  TokenInv'
<1> USE DEF TokenInv
<1>1. UNCHANGED <<memory, disk, pc, held>> /\ revoked \subseteq revoked'
  BY DEF Age, Expire, Revoke
<1>2. TypeOK'
  BY FaultTyped DEF Age, Expire, Revoke, TypeOK
<1>3. PairsMatch'
  BY <1>1 DEF PairsMatch, Matches
<1>4. HeldUsable'
  BY DEF Age, Expire, Revoke, HeldUsable, TypeOK, Matches
<1>5. OnlyRevokedRejected'
  BY <1>1 DEF OnlyRevokedRejected
<1> QED
  BY <1>2, <1>3, <1>4, <1>5

LEMMA TokenInvNext == TokenInv /\ [Next]_vars => TokenInv'
<1> SUFFICES ASSUME TokenInv, [Next]_vars PROVE TokenInv'
  OBVIOUS
<1>1. CASE \E c \in Callers : Call(c)
  BY <1>1, CheckInv, FetchInv, UpdateInv, PersistInv, SendInv, ResetInv DEF Call
<1>2. CASE Restart
  BY <1>2, RestartInv
<1>3. CASE \E t \in Tokens : Age(t) \/ Expire(t) \/ Revoke(t)
  BY <1>3, TimeInv
<1>4. CASE UNCHANGED vars
  BY <1>4 DEF vars, TokenInv, TypeOK, PairsMatch, HeldUsable, OnlyRevokedRejected, Matches
<1> QED
  BY <1>1, <1>2, <1>3, <1>4 DEF Next

\* For any callers and tokens, a token is never kept beside the expiry of another
\* one, in memory or on disk (gcp.go:211-251).
THEOREM TokenPairs == Spec => []PairsMatch
<1>1. TokenInv => PairsMatch
  BY DEF TokenInv
<1> QED
  BY <1>1, TokenInvInit, TokenInvNext, PTL DEF Spec

\* For any callers and tokens, the apiserver rejects a token only if it was revoked
\* (gcp.go:194-215).
THEOREM NoExpiredTokenSent == Spec => []OnlyRevokedRejected
<1>1. TokenInv => OnlyRevokedRejected
  BY DEF TokenInv
<1> QED
  BY <1>1, TokenInvInit, TokenInvNext, PTL DEF Spec

\* For any callers and tokens, a request on its way to the apiserver holds a token
\* that has not expired (gcp.go:211-227, 361-371).
THEOREM HeldTokensUsable == Spec => []HeldUsable
<1>1. TokenInv => HeldUsable
  BY DEF TokenInv
<1> QED
  BY <1>1, TokenInvInit, TokenInvNext, PTL DEF Spec

\* The state of the token cache has its type (gcp.go:183-209).
THEOREM TokenTypes == Spec => []TypeOK
<1>1. TokenInv => TypeOK
  BY DEF TokenInv
<1> QED
  BY <1>1, TokenInvInit, TokenInvNext, PTL DEF Spec
=============================================================================
