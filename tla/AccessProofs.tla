---------------------------- MODULE AccessProofs ----------------------------
(***************************************************************************)
(* Safety of authentication for any number of requests, any tokens, keys,  *)
(* claims and policies, and whatever fails or is dropped.                  *)
(*                                                                         *)
(* Each property is the last link of a chain of facts that hold together.  *)
(* The key set moves forward because a fetch is in the hands of the lock's *)
(* holder, so that nothing is stored between an answer and its replacement *)
(* of the set.  A revoked token stays out because the list is written      *)
(* before the revocation is answered, and what is lost is on record.  A token is rotated once because the *)
(* marker is written before the pair is issued, and requests that overlap  *)
(* are seen when the second begins.                                        *)
(***************************************************************************)
EXTENDS Access, TLAPS

\* A fetch is under way only in the hands of the lock's holder.
LockHeld ==
    \A f \in Fetchers : Fetching(f, "fetch") \/ Fetching(f, "replace") => fetchLock = f

\* An answer in hand is no older than the cached set.
AnswerFresh ==
    /\ cached <= published
    /\ \A f \in Fetchers :
        Fetching(f, "replace") => cached <= answer[f] /\ answer[f] <= published

\* Tokens of which a marker has been written, whether the store still has it or not.
EverRevoked == revoked \cup revokedLost
EverUsed == used \cup usedLost

\* What a request at a place has for a token.
Carries ==
    \A r \in Requests :
        /\ pc[r] \in {"idle", "login"} => token[r] = NoToken
        /\ pc[r] \in Refreshing \cup {"rev_used"} => token[r] \in RefreshTokens
        /\ pc[r] = "rev_mark" => token[r] \in Tokens
        /\ pc[r] = "rev_used" => token[r] \in EverRevoked

\* A token that would be allowed is past its verification only with a key set loaded.
KeysSeen ==
    \A r \in Requests :
        /\ pc[r] \in {"lookup", "count"}
        /\ token[r] \in Acceptable
        /\ NamedKid[token[r]] = SignedBy[token[r]]
        /\ SignedBy[token[r]] \in Kids \ StaticKids
        => Loaded

\* A forbidden request carries a token that has been put in the revocation list,
\* and gets past the lookup of it only if it has been lost there.
KeptOut ==
    /\ revokedDone \subseteq EverRevoked
    /\ \A r \in forbidden : token[r] \in revokedDone
    /\ \A r \in forbidden :
        /\ pc[r] \in {"ref_mark", "ref_issue"} => token[r] \in revokedLost
        /\ pc[r] \notin Revoking

\* Overlapping refreshes of a token are on record.
OverlapSeen ==
    \A q, r \in Requests :
        /\ q # r
        /\ pc[q] \in Refreshing
        /\ pc[r] \in Refreshing
        /\ token[q] = token[r]
        => token[r] \in overlapped

\* The marker is written before a pair is issued, and a request past its check
\* is the first to exchange the token, unless its marker has been lost.
MarkedFirst ==
    /\ \A t \in RefreshTokens : rotated[t] > 0 => t \in EverUsed
    /\ \A r \in Requests :
        /\ pc[r] = "ref_issue" => token[r] \in EverUsed
        /\ pc[r] \in Refreshing \ {"ref_used"} =>
              rotated[token[r]] = 0 \/ token[r] \in overlapped \cup usedLost

IInv ==
    /\ TypeOK
    /\ Carries
    /\ LockHeld
    /\ AnswerFresh
    /\ KeysSeen
    /\ KeptOut
    /\ RevokedStaysOut
    /\ OverlapSeen
    /\ MarkedFirst
    /\ RotatedOnce
-----------------------------------------------------------------------------

\* A service that has just started satisfies the invariant.
LEMMA InitInvariant == Init => IInv
<1> SUFFICES ASSUME Init PROVE IInv
    OBVIOUS
<1> USE AccessAssumption
<1>1. TypeOK
    <2>1. published \in 1..MaxPublished /\ cached \in 0..MaxPublished
        BY DEF Init
    <2>2. answer \in [Fetchers -> 0..MaxPublished] /\ rotated \in [RefreshTokens -> 0..2]
        BY DEF Init
    <2>3. sinceAttempt \in 0..MinRefetch /\ sinceSuccess \in 0..RefreshEvery
          /\ failures \in 0..(Threshold + 1) /\ calls \in 0..MaxCalls
        BY DEF Init
    <2> QED
        BY <2>1, <2>2, <2>3 DEF Init, TypeOK, Ended
<1>2. Carries /\ LockHeld /\ AnswerFresh
    BY DEF Init, Carries, LockHeld, AnswerFresh, Fetching, Fetchers, Refreshing
<1>3. KeysSeen /\ KeptOut /\ RevokedStaysOut
    BY DEF Init, KeysSeen, KeptOut, RevokedStaysOut
<1>4. OverlapSeen /\ MarkedFirst /\ RotatedOnce
    BY DEF Init, OverlapSeen, MarkedFirst, RotatedOnce, Refreshing
<1> QED
    BY <1>1, <1>2, <1>3, <1>4 DEF IInv

\* A request's slot has its type.
SlotTypes ==
    /\ pc \in [Requests -> Ended \cup Protected \cup Refreshing \cup Revoking \cup LoggingIn]
    /\ token \in [Requests -> Tokens \cup {NoToken}]
    /\ late \subseteq Requests /\ forbidden \subseteq Requests
    /\ admitted \subseteq Tokens \cup {NoToken}

\* What nearly every step of a request does to its slot: it is answered or goes on.
Moves(r) ==
    \/ \E code \in Int : Reply(r, code)
    \/ \E label \in Ended \cup Protected \cup Refreshing \cup Revoking : Goto(r, label)

\* Such a step keeps the slots in their ranges.
LEMMA MoveTypes ==
    ASSUME TypeOK, NEW r \in Requests, Moves(r)
    PROVE  SlotTypes'
<1>1. ASSUME NEW code \in Int, Reply(r, code) PROVE SlotTypes'
    <2>1. pc' \in [Requests -> Ended \cup Protected \cup Refreshing \cup Revoking \cup LoggingIn]
        BY <1>1 DEF Reply, TypeOK, Ended
    <2>2. token' \in [Requests -> Tokens \cup {NoToken}]
        BY <1>1 DEF Reply, TypeOK
    <2>3. late' \subseteq Requests /\ forbidden' \subseteq Requests /\ admitted' \subseteq Tokens \cup {NoToken}
        BY <1>1 DEF Reply, TypeOK
    <2> QED
        BY <2>1, <2>2, <2>3 DEF SlotTypes
<1>2. ASSUME NEW label \in Ended \cup Protected \cup Refreshing \cup Revoking, Goto(r, label)
      PROVE  SlotTypes'
    BY <1>2 DEF Goto, TypeOK, SlotTypes
<1> QED
    BY <1>1, <1>2 DEF Moves

\* The types of what such a step leaves alone.
LEMMA QuietTypes ==
    ASSUME TypeOK, SlotTypes', UNCHANGED <<quiet, rotated>>,
           failures' \in 0 .. (Threshold + 1), revoked' \subseteq Tokens, used' \subseteq RefreshTokens
    PROVE  TypeOK'
BY DEF TypeOK, SlotTypes, quiet, idp, keySet, lost

\* An answered request carries nothing, and the others what they carried.
LEMMA ReplyCarries ==
    ASSUME TypeOK, Carries, NEW r \in Requests, NEW code, Reply(r, code), EverRevoked \subseteq EverRevoked'
    PROVE  Carries'
<1>1. /\ pc'[r] = "idle" /\ token'[r] = NoToken
      /\ \A q \in Requests : q # r => pc'[q] = pc[q] /\ token'[q] = token[q]
    BY DEF Reply, TypeOK
<1> QED
    BY <1>1 DEF Carries, Refreshing

\* A request that goes on keeps what it carries.
LEMMA GotoCarries ==
    ASSUME TypeOK, Carries, NEW r \in Requests, NEW label, Goto(r, label), EverRevoked \subseteq EverRevoked',
           label \notin {"idle", "login", "rev_mark"},
           label \in Refreshing => pc[r] \in Refreshing,
           label = "rev_used" => token[r] \in RefreshTokens \cap EverRevoked'
    PROVE  Carries'
<1>1. /\ pc'[r] = label /\ token' = token
      /\ \A q \in Requests : q # r => pc'[q] = pc[q]
    BY DEF Goto, TypeOK
<1> QED
    BY <1>1 DEF Carries

\* An answered request overlaps with nobody.
LEMMA ReplyOverlaps ==
    ASSUME TypeOK, OverlapSeen, NEW r \in Requests, NEW code, Reply(r, code), overlapped' = overlapped
    PROVE  OverlapSeen'
<1>1. /\ pc'[r] = "idle"
      /\ \A q \in Requests : q # r => pc'[q] = pc[q] /\ token'[q] = token[q]
    BY DEF Reply, TypeOK
<1> QED
    BY <1>1 DEF OverlapSeen, Refreshing

\* A request that goes on overlaps with those it overlapped with before.
LEMMA GotoOverlaps ==
    ASSUME TypeOK, OverlapSeen, NEW r \in Requests, NEW label, Goto(r, label),
           overlapped' = overlapped, label \in Refreshing => pc[r] \in Refreshing
    PROVE  OverlapSeen'
<1>1. /\ pc'[r] = label /\ token' = token
      /\ \A q \in Requests : q # r => pc'[q] = pc[q]
    BY DEF Goto, TypeOK
<1> QED
    BY <1>1 DEF OverlapSeen

\* An answer leaves no one behind the mark.
LEMMA ReplyMarked ==
    ASSUME TypeOK, MarkedFirst, NEW r \in Requests, NEW code, Reply(r, code),
           EverUsed \subseteq EverUsed', UNCHANGED <<rotated, overlapped, usedLost>>
    PROVE  MarkedFirst'
<1>1. /\ pc'[r] = "idle"
      /\ \A q \in Requests : q # r => pc'[q] = pc[q] /\ token'[q] = token[q]
    BY DEF Reply, TypeOK
<1> QED
    BY <1>1 DEF MarkedFirst, Refreshing

\* Nor does a request that goes on, if it is past the first check already.
LEMMA GotoMarked ==
    ASSUME TypeOK, MarkedFirst, NEW r \in Requests, NEW label, Goto(r, label),
           EverUsed \subseteq EverUsed', UNCHANGED <<rotated, overlapped, usedLost>>,
           label \in Refreshing => \/ pc[r] \in Refreshing \ {"ref_used"}
                                   \/ token[r] \in RefreshTokens \ used,
           label = "ref_issue" => token[r] \in EverUsed'
    PROVE  MarkedFirst'
<1>1. /\ pc'[r] = label /\ token' = token
      /\ \A q \in Requests : q # r => pc'[q] = pc[q]
    BY DEF Goto, TypeOK
<1>2. \A t \in RefreshTokens \ used : rotated[t] = 0 \/ t \in usedLost
    BY DEF MarkedFirst, TypeOK, EverUsed
<1>3. \A t \in RefreshTokens : rotated'[t] > 0 => t \in EverUsed'
    BY DEF MarkedFirst
<1>4. ASSUME NEW q \in Requests
      PROVE  /\ pc'[q] = "ref_issue" => token'[q] \in EverUsed'
             /\ pc'[q] \in Refreshing \ {"ref_used"} =>
                   rotated'[token'[q]] = 0 \/ token'[q] \in overlapped' \cup usedLost'
    BY <1>1, <1>2 DEF MarkedFirst
<1> QED
    BY <1>3, <1>4 DEF MarkedFirst

\* Only a request that is past its verification can be blamed.
LEMMA MoveBlames ==
    ASSUME TypeOK, KeysSeen, NEW r \in Requests, UNCHANGED cached,
           \/ \E code \in Int : Reply(r, code)
           \/ \E label : label \notin {"lookup", "count"} /\ Goto(r, label)
    PROVE  KeysSeen'
<1>1. /\ pc'[r] \notin {"lookup", "count"}
      /\ \A q \in Requests : q # r => pc'[q] = pc[q] /\ token'[q] = token[q]
    BY DEF Reply, Goto, TypeOK
<1> QED
    BY <1>1 DEF KeysSeen, Loaded

\* Every step keeps the types.
LEMMA TypeStep == IInv /\ [Next]_vars => TypeOK'
<1> SUFFICES ASSUME IInv, [Next]_vars PROVE TypeOK'
    OBVIOUS
<1> USE AccessAssumption DEF idp, keySet, store, request, ghosts, lost, quiet, Fetchers
<1>0. TypeOK /\ Carries
    BY DEF IInv
<1>1. ASSUME NEW r \in Requests,
           PreCheck(r)
    PROVE  TypeOK'
    <2>1. Moves(r) /\ UNCHANGED <<quiet, rotated, store>>
        BY <1>1 DEF PreCheck, Moves, Protected, Refreshing
    <2> QED
        BY <1>0, <2>1, MoveTypes, QuietTypes DEF TypeOK
<1>2. ASSUME NEW r \in Requests,
           Prepare(r)
    PROVE  TypeOK'
    <2>1. Moves(r) /\ UNCHANGED <<quiet, rotated, store>>
        BY <1>2 DEF Prepare, Moves, Protected
    <2> QED
        BY <1>0, <2>1, MoveTypes, QuietTypes DEF TypeOK
<1>3. ASSUME NEW r \in Requests,
           LockAndCheck(r)
    PROVE  TypeOK'
    <2>1. fetchLock' \in Fetchers \cup {Nobody} /\ sinceAttempt' \in 0..MinRefetch
        BY <1>0, <1>3 DEF TypeOK, LockAndCheck
    <2>2. pc' = [pc EXCEPT ![r] = "fetch"] \/ pc' = [pc EXCEPT ![r] = "verify"]
        BY <1>3 DEF LockAndCheck
    <2>3. pc' \in [Requests -> Ended \cup Protected \cup Refreshing \cup Revoking \cup LoggingIn]
        BY <1>0, <2>2 DEF TypeOK, Protected
    <2>4. UNCHANGED <<idp, cached, sinceSuccess, answer, background, bg, retired, token, late,
                      forbidden, store, ghosts>>
        BY <1>3 DEF LockAndCheck
    <2> QED
        BY <1>0, <2>1, <2>3, <2>4 DEF TypeOK
<1>4. ASSUME NEW r \in Requests,
           Verify(r)
    PROVE  TypeOK'
    <2>1. Moves(r) /\ UNCHANGED <<quiet, rotated, store>>
        BY <1>4 DEF Verify, Moves, Protected, Refreshing
    <2> QED
        BY <1>0, <2>1, MoveTypes, QuietTypes DEF TypeOK
<1>5. ASSUME NEW r \in Requests,
           LookupRevocation(r)
    PROVE  TypeOK'
    <2>1. Moves(r) /\ UNCHANGED <<quiet, rotated, store>>
        BY <1>5 DEF LookupRevocation, Moves, Protected, Refreshing
    <2> QED
        BY <1>0, <2>1, MoveTypes, QuietTypes DEF TypeOK
<1>6. ASSUME NEW r \in Requests,
           CountFailure(r)
    PROVE  TypeOK'
    <2>1. failures' \in 0..(Threshold + 1)
        BY <1>0, <1>6 DEF TypeOK, CountFailure, Older
    <2>2. Moves(r) /\ UNCHANGED <<quiet, rotated, revoked, used>>
        BY <1>6 DEF CountFailure, Moves
    <2> QED
        BY <1>0, <2>1, <2>2, MoveTypes, QuietTypes DEF TypeOK
<1>7. ASSUME NEW r \in Requests,
           CheckUsed(r)
    PROVE  TypeOK'
    <2>1. Moves(r) /\ UNCHANGED <<quiet, rotated, store>>
        BY <1>7 DEF CheckUsed, Moves, Protected, Refreshing
    <2> QED
        BY <1>0, <2>1, MoveTypes, QuietTypes DEF TypeOK
<1>8. ASSUME NEW r \in Requests,
           CheckRevoked(r)
    PROVE  TypeOK'
    <2>1. Moves(r) /\ UNCHANGED <<quiet, rotated, store>>
        BY <1>8 DEF CheckRevoked, Moves, Protected, Refreshing
    <2> QED
        BY <1>0, <2>1, MoveTypes, QuietTypes DEF TypeOK
<1>9. ASSUME NEW r \in Requests,
           MarkUsed(r)
    PROVE  TypeOK'
    <2>1. token[r] \in RefreshTokens
        BY <1>0, <1>9 DEF Carries, MarkUsed, Refreshing
    <2>2. used' \subseteq RefreshTokens
        BY <1>0, <1>9, <2>1 DEF TypeOK, MarkUsed
    <2>3. Moves(r) /\ UNCHANGED <<quiet, rotated, failures, revoked>>
        BY <1>9 DEF MarkUsed, Moves, Refreshing
    <2> QED
        BY <1>0, <2>2, <2>3, MoveTypes, QuietTypes DEF TypeOK
<1>10. ASSUME NEW r \in Requests,
           IssuePair(r)
    PROVE  TypeOK'
    <2>1. Moves(r) /\ UNCHANGED <<quiet, store>>
        BY <1>10 DEF IssuePair, Moves
    <2>2. \A n \in 0..2 : Older(n, 2) \in 0..2
        BY DEF Older
    <2>3. UNCHANGED rotated \/ rotated' = [rotated EXCEPT ![token[r]] = Older(rotated[token[r]], 2)]
        BY <1>10 DEF IssuePair
    <2>4. \A n \in 0..2 : [rotated EXCEPT ![token[r]] = n] \in [RefreshTokens -> 0..2]
        BY <1>0 DEF TypeOK
    <2>5. token[r] \in RefreshTokens
        BY <1>0, <1>10 DEF Carries, IssuePair, Refreshing
    <2>6. Older(rotated[token[r]], 2) \in 0..2 /\ rotated \in [RefreshTokens -> 0..2]
        BY <1>0, <2>2, <2>5 DEF TypeOK
    <2>7. rotated' \in [RefreshTokens -> 0..2]
        BY <2>3, <2>4, <2>6
    <2>8. SlotTypes'
        BY <1>0, <2>1, MoveTypes
    <2> QED
        BY <1>0, <2>1, <2>7, <2>8 DEF TypeOK, SlotTypes
<1>11. ASSUME NEW r \in Requests,
           VerifyLogin(r)
    PROVE  TypeOK'
    <2>1. Moves(r) /\ UNCHANGED <<quiet, rotated, store>>
        BY <1>11 DEF VerifyLogin, Moves, Protected, Refreshing
    <2> QED
        BY <1>0, <2>1, MoveTypes, QuietTypes DEF TypeOK
<1>12. ASSUME NEW r \in Requests,
           MarkRevoked(r)
    PROVE  TypeOK'
    <2>1. revoked' \subseteq Tokens /\ revokedDone' \subseteq Tokens
        BY <1>0, <1>12 DEF TypeOK, Carries, MarkRevoked, ReplyRevoked
    <2>2. Moves(r)
        BY <1>12 DEF MarkRevoked, ReplyRevoked, Moves, Revoking
    <2>3. UNCHANGED <<idp, keySet, background, bg, retired, failures, used, calls, rotated,
                      overlapped, lost>>
        BY <1>12 DEF MarkRevoked
    <2>4. SlotTypes'
        BY <1>0, <2>2, MoveTypes
    <2> QED
        BY <1>0, <2>1, <2>3, <2>4 DEF TypeOK, SlotTypes
<1>13. ASSUME NEW r \in Requests,
           MarkRevokedUsed(r)
    PROVE  TypeOK'
    <2>1. used' \subseteq RefreshTokens /\ revokedDone' \subseteq Tokens
        BY <1>0, <1>13 DEF TypeOK, Carries, MarkRevokedUsed, ReplyRevoked
    <2>2. Moves(r)
        BY <1>13 DEF MarkRevokedUsed, ReplyRevoked, Moves
    <2>3. UNCHANGED <<idp, keySet, background, bg, retired, failures, revoked, calls, rotated,
                      overlapped, lost>>
        BY <1>13 DEF MarkRevokedUsed
    <2>4. SlotTypes'
        BY <1>0, <2>2, MoveTypes
    <2> QED
        BY <1>0, <2>1, <2>3, <2>4 DEF TypeOK, SlotTypes
<1>14. ASSUME NEW r \in Requests,
           Drop(r)
    PROVE  TypeOK'
    BY <1>0, <1>14 DEF TypeOK, Ended, Protected, Refreshing, Revoking, LoggingIn,
        Drop, Reply
<1>15. ASSUME NEW r \in Requests,
           Login(r)
    PROVE  TypeOK'
    BY <1>0, <1>15 DEF TypeOK, Ended, Protected, Refreshing, Revoking, LoggingIn,
        Login, Begin
<1>16. ASSUME NEW r \in Requests, NEW t \in Tokens \cup {NoToken},
           Arrive(r, t)
    PROVE  TypeOK'
    BY <1>0, <1>16 DEF TypeOK, Ended, Protected, Refreshing, Revoking, LoggingIn,
        Arrive, Begin
<1>17. ASSUME NEW r \in Requests, NEW t \in RefreshTokens,
           Refresh(r, t)
    PROVE  TypeOK'
    BY <1>0, <1>17 DEF TypeOK, Ended, Protected, Refreshing, Revoking, LoggingIn,
        Refresh, Begin
<1>18. ASSUME NEW r \in Requests, NEW t \in Tokens,
           Revoke(r, t)
    PROVE  TypeOK'
    BY <1>0, <1>18 DEF TypeOK, Ended, Protected, Refreshing, Revoking, LoggingIn,
        Revoke, Begin
<1>19. ASSUME NEW f \in Fetchers,
           FetchAnswered(f)
    PROVE  TypeOK'
    BY <1>0, <1>19 DEF TypeOK, Ended, Protected, Refreshing, Revoking, LoggingIn,
        FetchAnswered, Fetching, Resume
<1>20. ASSUME NEW f \in Fetchers,
           ReplaceKeys(f)
    PROVE  TypeOK'
    <2>1. /\ cached' \in 0..MaxPublished /\ answer' \in [Fetchers -> 0..MaxPublished]
          /\ sinceSuccess' \in 0..RefreshEvery /\ sinceAttempt' \in 0..MinRefetch
          /\ fetchLock' \in Fetchers \cup {Nobody}
        BY <1>0, <1>20 DEF TypeOK, ReplaceKeys
    <2>2. /\ pc' \in [Requests -> Ended \cup Protected \cup Refreshing \cup Revoking \cup LoggingIn]
          /\ bg' \in {"sleep", "queue", "fetch", "replace"}
        BY <1>0, <1>20 DEF TypeOK, ReplaceKeys, Resume, Protected
    <2>3. UNCHANGED <<idp, background, retired, token, late, forbidden, store, ghosts>>
        BY <1>20 DEF ReplaceKeys
    <2> QED
        BY <1>0, <2>1, <2>2, <2>3 DEF TypeOK
<1>21. ASSUME NEW f \in Fetchers,
           FetchFailed(f)
    PROVE  TypeOK'
    <2>1. sinceAttempt' \in 0..MinRefetch /\ fetchLock' \in Fetchers \cup {Nobody}
        BY <1>0, <1>21 DEF TypeOK, FetchFailed
    <2>2. /\ pc' \in [Requests -> Ended \cup Protected \cup Refreshing \cup Revoking \cup LoggingIn]
          /\ bg' \in {"sleep", "queue", "fetch", "replace"}
        BY <1>0, <1>21 DEF TypeOK, FetchFailed, Resume, Protected
    <2>3. UNCHANGED <<idp, cached, sinceSuccess, answer, background, retired, token, late,
                      forbidden, store, ghosts>>
        BY <1>21 DEF FetchFailed
    <2> QED
        BY <1>0, <2>1, <2>2, <2>3 DEF TypeOK
<1>22. CASE BackgroundWake
    BY <1>0, <1>22 DEF TypeOK, Ended, Protected, Refreshing, Revoking, LoggingIn,
        BackgroundWake
<1>23. CASE BackgroundFetch
    BY <1>0, <1>23 DEF TypeOK, Ended, Protected, Refreshing, Revoking, LoggingIn,
        BackgroundFetch
<1>24. CASE Publish
    BY <1>0, <1>24 DEF TypeOK, Ended, Protected, Refreshing, Revoking, LoggingIn,
        Publish
<1>25. CASE Outage
    BY <1>0, <1>25 DEF TypeOK, Ended, Protected, Refreshing, Revoking, LoggingIn,
        Outage
<1>26. CASE Recovery
    BY <1>0, <1>26 DEF TypeOK, Ended, Protected, Refreshing, Revoking, LoggingIn,
        Recovery
<1>27. CASE Tick
    BY <1>0, <1>27 DEF TypeOK, Ended, Protected, Refreshing, Revoking, LoggingIn,
        Tick, Older, Loaded
<1>28. CASE NextWindow
    BY <1>0, <1>28 DEF TypeOK, Ended, Protected, Refreshing, Revoking, LoggingIn,
        NextWindow
<1>29. ASSUME NEW k \in Retiring,
           Retire(k)
    PROVE  TypeOK'
    BY <1>0, <1>29 DEF TypeOK, Ended, Protected, Refreshing, Revoking, LoggingIn,
        Retire
<1>30. CASE UNCHANGED vars
    BY <1>0, <1>30 DEF TypeOK, Ended, Protected, Refreshing, Revoking, LoggingIn,
        vars
<1>31. CASE Forget
    <2>1. /\ failures' \in 0 .. (Threshold + 1)
          /\ revoked' \subseteq Tokens /\ used' \subseteq RefreshTokens
          /\ revokedLost' \subseteq Tokens /\ usedLost' \subseteq RefreshTokens
        BY <1>0, <1>31 DEF TypeOK, Forget, ForgetRevoked, ForgetUsed, ForgetFailures
    <2>2. UNCHANGED <<idp, keySet, background, bg, retired, request, calls, revokedDone,
                      admitted, rotated, overlapped>>
        BY <1>31 DEF Forget, ForgetRevoked, ForgetUsed, ForgetFailures
    <2> QED
        BY <1>0, <2>1, <2>2 DEF TypeOK
<1> QED
    BY <1>1, <1>2, <1>3, <1>4, <1>5, <1>6, <1>7, <1>8, <1>9, <1>10, <1>11, <1>12,
        <1>13, <1>14, <1>15, <1>16, <1>17, <1>18, <1>19, <1>20, <1>21, <1>22, <1>23,
        <1>24, <1>25, <1>26, <1>27, <1>28, <1>29, <1>30, <1>31 DEF Next, Step, FetchStep,
        BackgroundStep, Fetchers

\* A request keeps its token until it is answered.
LEMMA CarriesStep == IInv /\ [Next]_vars => Carries'
<1> SUFFICES ASSUME IInv, [Next]_vars PROVE Carries'
    OBVIOUS
<1> USE AccessAssumption DEF idp, keySet, store, request, ghosts, lost, quiet, Fetchers
<1>0. TypeOK /\ Carries
    BY DEF IInv
<1>1. ASSUME NEW r \in Requests,
           PreCheck(r)
    PROVE  Carries'
    <2>1. (\E code \in Int : Reply(r, code)) \/ Goto(r, "prepare")
        BY <1>1 DEF PreCheck
    <2>2. UNCHANGED EverRevoked
        BY <1>1 DEF PreCheck, EverRevoked
    <2> QED
        BY <1>0, <2>1, <2>2, ReplyCarries, GotoCarries DEF Refreshing
<1>2. ASSUME NEW r \in Requests,
           Prepare(r)
    PROVE  Carries'
    BY <1>0, <1>2 DEF TypeOK, Carries, EverRevoked, Refreshing, Prepare, Goto
<1>3. ASSUME NEW r \in Requests,
           LookupRevocation(r)
    PROVE  Carries'
    <2>1. (\E code \in Int : Reply(r, code)) \/ Goto(r, "count")
        BY <1>3 DEF LookupRevocation
    <2>2. UNCHANGED EverRevoked
        BY <1>3 DEF LookupRevocation, EverRevoked
    <2> QED
        BY <1>0, <2>1, <2>2, ReplyCarries, GotoCarries DEF Refreshing
<1>4. ASSUME NEW r \in Requests,
           CountFailure(r)
    PROVE  Carries'
    <2>1. \E code \in Int : Reply(r, code)
        BY <1>4 DEF CountFailure
    <2>2. UNCHANGED EverRevoked
        BY <1>4 DEF CountFailure, EverRevoked
    <2> QED
        BY <1>0, <2>1, <2>2, ReplyCarries
<1>5. ASSUME NEW r \in Requests,
           LockAndCheck(r)
    PROVE  Carries'
    BY <1>0, <1>5 DEF TypeOK, Carries, EverRevoked, Refreshing, LockAndCheck
<1>6. ASSUME NEW r \in Requests,
           Verify(r)
    PROVE  Carries'
    <2>1. (\E code \in Int : Reply(r, code)) \/ Goto(r, "lookup") \/ Goto(r, "count")
        BY <1>6 DEF Verify
    <2>2. UNCHANGED EverRevoked
        BY <1>6 DEF Verify, EverRevoked
    <2> QED
        BY <1>0, <2>1, <2>2, ReplyCarries, GotoCarries DEF Refreshing
<1>7. ASSUME NEW r \in Requests,
           CheckUsed(r)
    PROVE  Carries'
    <2>1. (\E code \in Int : Reply(r, code)) \/ Goto(r, "ref_revoked")
        BY <1>7 DEF CheckUsed
    <2>2. pc[r] \in Refreshing /\ UNCHANGED EverRevoked
        BY <1>7 DEF CheckUsed, Refreshing, EverRevoked
    <2> QED
        BY <1>0, <2>1, <2>2, ReplyCarries, GotoCarries DEF Refreshing
<1>8. ASSUME NEW r \in Requests,
           CheckRevoked(r)
    PROVE  Carries'
    <2>1. (\E code \in Int : Reply(r, code)) \/ Goto(r, "ref_mark")
        BY <1>8 DEF CheckRevoked
    <2>2. pc[r] \in Refreshing /\ UNCHANGED EverRevoked
        BY <1>8 DEF CheckRevoked, Refreshing, EverRevoked
    <2> QED
        BY <1>0, <2>1, <2>2, ReplyCarries, GotoCarries DEF Refreshing
<1>9. ASSUME NEW r \in Requests,
           VerifyLogin(r)
    PROVE  Carries'
    <2>1. \E code \in Int : Reply(r, code)
        BY <1>9 DEF VerifyLogin
    <2>2. UNCHANGED EverRevoked
        BY <1>9 DEF VerifyLogin, EverRevoked
    <2> QED
        BY <1>0, <2>1, <2>2, ReplyCarries
<1>10. ASSUME NEW r \in Requests,
           MarkUsed(r)
    PROVE  Carries'
    <2>1. (\E code \in Int : Reply(r, code)) \/ Goto(r, "ref_issue")
        BY <1>10 DEF MarkUsed
    <2>2. pc[r] \in Refreshing /\ UNCHANGED EverRevoked
        BY <1>10 DEF MarkUsed, Refreshing, EverRevoked
    <2> QED
        BY <1>0, <2>1, <2>2, ReplyCarries, GotoCarries DEF Refreshing
<1>11. ASSUME NEW r \in Requests,
           IssuePair(r)
    PROVE  Carries'
    <2>1. \E code \in Int : Reply(r, code)
        BY <1>11 DEF IssuePair
    <2>2. UNCHANGED EverRevoked
        BY <1>11 DEF IssuePair, EverRevoked
    <2> QED
        BY <1>0, <2>1, <2>2, ReplyCarries
<1>12. ASSUME NEW r \in Requests,
           MarkRevoked(r) \/ MarkRevokedUsed(r)
    PROVE  Carries'
    <2>1. \/ \E code \in Int : Reply(r, code)
          \/ token[r] \in RefreshTokens \cap EverRevoked' /\ Goto(r, "rev_used")
        BY <1>12 DEF MarkRevoked, MarkRevokedUsed, ReplyRevoked, EverRevoked
    <2>2. EverRevoked \subseteq EverRevoked'
        BY <1>12 DEF MarkRevoked, MarkRevokedUsed, EverRevoked
    <2> QED
        BY <1>0, <2>1, <2>2, ReplyCarries, GotoCarries DEF Refreshing
<1>13. ASSUME NEW r \in Requests,
           Drop(r)
    PROVE  Carries'
    BY <1>0, <1>13 DEF TypeOK, Carries, EverRevoked, Refreshing, Drop, Reply
<1>14. ASSUME NEW r \in Requests,
           Login(r)
    PROVE  Carries'
    BY <1>0, <1>14 DEF TypeOK, Carries, EverRevoked, Refreshing, Login, Begin
<1>15. ASSUME NEW r \in Requests, NEW t \in Tokens \cup {NoToken},
           Arrive(r, t)
    PROVE  Carries'
    BY <1>0, <1>15 DEF TypeOK, Carries, EverRevoked, Refreshing, Arrive, Begin
<1>16. ASSUME NEW r \in Requests, NEW t \in RefreshTokens,
           Refresh(r, t)
    PROVE  Carries'
    BY <1>0, <1>16 DEF TypeOK, Carries, EverRevoked, Refreshing, Refresh, Begin
<1>17. ASSUME NEW r \in Requests, NEW t \in Tokens,
           Revoke(r, t)
    PROVE  Carries'
    BY <1>0, <1>17 DEF TypeOK, Carries, EverRevoked, Refreshing, Revoke, Begin
<1>18. ASSUME NEW f \in Fetchers,
           FetchAnswered(f)
    PROVE  Carries'
    BY <1>0, <1>18 DEF TypeOK, Carries, EverRevoked, Refreshing, FetchAnswered, Fetching, Resume
<1>19. ASSUME NEW f \in Fetchers,
           ReplaceKeys(f)
    PROVE  Carries'
    BY <1>0, <1>19 DEF TypeOK, Carries, EverRevoked, Refreshing, ReplaceKeys, Fetching, Resume
<1>20. ASSUME NEW f \in Fetchers,
           FetchFailed(f)
    PROVE  Carries'
    BY <1>0, <1>20 DEF TypeOK, Carries, EverRevoked, Refreshing, FetchFailed, Fetching, Resume
<1>21. CASE BackgroundWake \/ BackgroundFetch \/ Publish \/ Outage \/ Recovery
             \/ Tick \/ NextWindow
    BY <1>0, <1>21 DEF TypeOK, Carries, EverRevoked, Refreshing, BackgroundWake, BackgroundFetch,
        Publish, Outage, Recovery, Tick, NextWindow
<1>22. ASSUME NEW k \in Retiring,
           Retire(k)
    PROVE  Carries'
    BY <1>0, <1>22 DEF TypeOK, Carries, EverRevoked, Refreshing, Retire
<1>23. CASE UNCHANGED vars
    BY <1>0, <1>23 DEF TypeOK, Carries, EverRevoked, Refreshing, vars
<1>24. CASE Forget
    BY <1>0, <1>24 DEF TypeOK, Carries, EverRevoked, Refreshing, Forget,
        ForgetRevoked, ForgetUsed, ForgetFailures
<1> QED
    BY <1>1, <1>2, <1>3, <1>4, <1>5, <1>6, <1>7, <1>8, <1>9, <1>10, <1>11, <1>12,
        <1>13, <1>14, <1>15, <1>16, <1>17, <1>18, <1>19, <1>20, <1>21, <1>22, <1>23, <1>24
        DEF Next, Step, FetchStep, BackgroundStep, Fetchers

\* fetch_lock admits one fetcher at a time.
LEMMA LockStep == IInv /\ [Next]_vars => LockHeld'
<1> SUFFICES ASSUME IInv, [Next]_vars PROVE LockHeld'
    OBVIOUS
<1> USE AccessAssumption DEF idp, keySet, store, request, ghosts, lost, quiet, Fetchers
<1>0. TypeOK /\ LockHeld
    BY DEF IInv
<1>1. ASSUME NEW r \in Requests,
           PreCheck(r)
    PROVE  LockHeld'
    BY <1>0, <1>1 DEF TypeOK, LockHeld, Fetching, PreCheck, Goto, Reply
<1>2. ASSUME NEW r \in Requests,
           Prepare(r)
    PROVE  LockHeld'
    BY <1>0, <1>2 DEF TypeOK, LockHeld, Fetching, Prepare, Goto
<1>3. ASSUME NEW r \in Requests,
           LookupRevocation(r)
    PROVE  LockHeld'
    BY <1>0, <1>3 DEF TypeOK, LockHeld, Fetching, LookupRevocation, Goto, Reply
<1>4. ASSUME NEW r \in Requests,
           CountFailure(r)
    PROVE  LockHeld'
    BY <1>0, <1>4 DEF TypeOK, LockHeld, Fetching, CountFailure, Reply
<1>5. ASSUME NEW r \in Requests,
           LockAndCheck(r)
    PROVE  LockHeld'
    BY <1>0, <1>5 DEF TypeOK, LockHeld, Fetching, LockAndCheck
<1>6. ASSUME NEW r \in Requests,
           Verify(r)
    PROVE  LockHeld'
    BY <1>0, <1>6 DEF TypeOK, LockHeld, Fetching, Verify, Goto, Reply
<1>7. ASSUME NEW r \in Requests,
           CheckUsed(r)
    PROVE  LockHeld'
    BY <1>0, <1>7 DEF TypeOK, LockHeld, Fetching, CheckUsed, Goto, Reply
<1>8. ASSUME NEW r \in Requests,
           CheckRevoked(r)
    PROVE  LockHeld'
    BY <1>0, <1>8 DEF TypeOK, LockHeld, Fetching, CheckRevoked, Goto, Reply
<1>9. ASSUME NEW r \in Requests,
           VerifyLogin(r)
    PROVE  LockHeld'
    BY <1>0, <1>9 DEF TypeOK, LockHeld, Fetching, VerifyLogin, Reply
<1>10. ASSUME NEW r \in Requests,
           MarkUsed(r)
    PROVE  LockHeld'
    BY <1>0, <1>10 DEF TypeOK, LockHeld, Fetching, MarkUsed, Goto, Reply
<1>11. ASSUME NEW r \in Requests,
           IssuePair(r)
    PROVE  LockHeld'
    BY <1>0, <1>11 DEF TypeOK, LockHeld, Fetching, IssuePair, Reply
<1>12. ASSUME NEW r \in Requests,
           MarkRevoked(r) \/ MarkRevokedUsed(r)
    PROVE  LockHeld'
    BY <1>0, <1>12 DEF TypeOK, LockHeld, Fetching, MarkRevoked, Goto, Reply,
        ReplyRevoked, MarkRevokedUsed
<1>13. ASSUME NEW r \in Requests,
           Drop(r)
    PROVE  LockHeld'
    BY <1>0, <1>13 DEF TypeOK, LockHeld, Fetching, Drop, Reply
<1>14. ASSUME NEW r \in Requests,
           Login(r)
    PROVE  LockHeld'
    BY <1>0, <1>14 DEF TypeOK, LockHeld, Fetching, Login, Begin
<1>15. ASSUME NEW r \in Requests, NEW t \in Tokens \cup {NoToken},
           Arrive(r, t)
    PROVE  LockHeld'
    BY <1>0, <1>15 DEF TypeOK, LockHeld, Fetching, Arrive, Begin
<1>16. ASSUME NEW r \in Requests, NEW t \in RefreshTokens,
           Refresh(r, t)
    PROVE  LockHeld'
    BY <1>0, <1>16 DEF TypeOK, LockHeld, Fetching, Refresh, Begin
<1>17. ASSUME NEW r \in Requests, NEW t \in Tokens,
           Revoke(r, t)
    PROVE  LockHeld'
    BY <1>0, <1>17 DEF TypeOK, LockHeld, Fetching, Revoke, Begin
<1>18. ASSUME NEW f \in Fetchers,
           FetchAnswered(f)
    PROVE  LockHeld'
    BY <1>0, <1>18 DEF TypeOK, LockHeld, Fetching, FetchAnswered, Resume
<1>19. ASSUME NEW f \in Fetchers,
           ReplaceKeys(f)
    PROVE  LockHeld'
    <2>1. \A g \in Fetchers : Fetching(g, "fetch") \/ Fetching(g, "replace") => g = f
        BY <1>0, <1>19 DEF LockHeld, ReplaceKeys
    <2>2. ~Fetching(f, "fetch")' /\ ~Fetching(f, "replace")'
        BY <1>0, <1>19 DEF TypeOK, ReplaceKeys, Fetching, Resume
    <2>3. ASSUME NEW g \in Fetchers, g # f
          PROVE  \A label \in {"fetch", "replace"} : Fetching(g, label)' => Fetching(g, label)
        BY <1>0, <1>19, <2>3 DEF TypeOK, ReplaceKeys, Fetching, Resume
    <2> QED
        BY <2>1, <2>2, <2>3 DEF LockHeld
<1>20. ASSUME NEW f \in Fetchers,
           FetchFailed(f)
    PROVE  LockHeld'
    BY <1>0, <1>20 DEF TypeOK, LockHeld, Fetching, FetchFailed, Resume
<1>21. CASE BackgroundWake \/ BackgroundFetch \/ Publish \/ Outage \/ Recovery
             \/ Tick \/ NextWindow
    BY <1>0, <1>21 DEF TypeOK, LockHeld, Fetching, BackgroundWake, BackgroundFetch,
        Publish, Outage, Recovery, Tick, NextWindow
<1>22. ASSUME NEW k \in Retiring,
           Retire(k)
    PROVE  LockHeld'
    BY <1>0, <1>22 DEF TypeOK, LockHeld, Fetching, Retire
<1>23. CASE UNCHANGED vars
    BY <1>0, <1>23 DEF TypeOK, LockHeld, Fetching, vars
<1>24. CASE Forget
    BY <1>0, <1>24 DEF TypeOK, LockHeld, Fetching, Forget,
        ForgetRevoked, ForgetUsed, ForgetFailures
<1> QED
    BY <1>1, <1>2, <1>3, <1>4, <1>5, <1>6, <1>7, <1>8, <1>9, <1>10, <1>11, <1>12,
        <1>13, <1>14, <1>15, <1>16, <1>17, <1>18, <1>19, <1>20, <1>21, <1>22, <1>23, <1>24
        DEF Next, Step, FetchStep, BackgroundStep, Fetchers

\* An answer stays the newest until it is stored.
LEMMA FreshStep == IInv /\ [Next]_vars => AnswerFresh'
<1> SUFFICES ASSUME IInv, [Next]_vars PROVE AnswerFresh'
    OBVIOUS
<1> USE AccessAssumption DEF idp, keySet, store, request, ghosts, lost, quiet, Fetchers
<1>0. TypeOK /\ AnswerFresh /\ LockHeld
    BY DEF IInv
<1>1. ASSUME NEW r \in Requests,
           PreCheck(r)
    PROVE  AnswerFresh'
    BY <1>0, <1>1 DEF TypeOK, AnswerFresh, LockHeld, Fetching, PreCheck, Goto, Reply
<1>2. ASSUME NEW r \in Requests,
           Prepare(r)
    PROVE  AnswerFresh'
    BY <1>0, <1>2 DEF TypeOK, AnswerFresh, LockHeld, Fetching, Prepare, Goto
<1>3. ASSUME NEW r \in Requests,
           LookupRevocation(r)
    PROVE  AnswerFresh'
    BY <1>0, <1>3 DEF TypeOK, AnswerFresh, LockHeld, Fetching, LookupRevocation,
        Goto, Reply
<1>4. ASSUME NEW r \in Requests,
           CountFailure(r)
    PROVE  AnswerFresh'
    BY <1>0, <1>4 DEF TypeOK, AnswerFresh, LockHeld, Fetching, CountFailure, Reply
<1>5. ASSUME NEW r \in Requests,
           LockAndCheck(r)
    PROVE  AnswerFresh'
    BY <1>0, <1>5 DEF TypeOK, AnswerFresh, LockHeld, Fetching, LockAndCheck
<1>6. ASSUME NEW r \in Requests,
           Verify(r)
    PROVE  AnswerFresh'
    BY <1>0, <1>6 DEF TypeOK, AnswerFresh, LockHeld, Fetching, Verify, Goto, Reply
<1>7. ASSUME NEW r \in Requests,
           CheckUsed(r)
    PROVE  AnswerFresh'
    BY <1>0, <1>7 DEF TypeOK, AnswerFresh, LockHeld, Fetching, CheckUsed, Goto,
        Reply
<1>8. ASSUME NEW r \in Requests,
           CheckRevoked(r)
    PROVE  AnswerFresh'
    BY <1>0, <1>8 DEF TypeOK, AnswerFresh, LockHeld, Fetching, CheckRevoked, Goto,
        Reply
<1>9. ASSUME NEW r \in Requests,
           VerifyLogin(r)
    PROVE  AnswerFresh'
    BY <1>0, <1>9 DEF TypeOK, AnswerFresh, LockHeld, Fetching, VerifyLogin, Reply
<1>10. ASSUME NEW r \in Requests,
           MarkUsed(r)
    PROVE  AnswerFresh'
    BY <1>0, <1>10 DEF TypeOK, AnswerFresh, LockHeld, Fetching, MarkUsed, Goto,
        Reply
<1>11. ASSUME NEW r \in Requests,
           IssuePair(r)
    PROVE  AnswerFresh'
    BY <1>0, <1>11 DEF TypeOK, AnswerFresh, LockHeld, Fetching, IssuePair, Reply
<1>12. ASSUME NEW r \in Requests,
           MarkRevoked(r) \/ MarkRevokedUsed(r)
    PROVE  AnswerFresh'
    BY <1>0, <1>12 DEF TypeOK, AnswerFresh, LockHeld, Fetching, MarkRevoked, Goto,
        Reply, ReplyRevoked, MarkRevokedUsed
<1>13. ASSUME NEW r \in Requests,
           Drop(r)
    PROVE  AnswerFresh'
    BY <1>0, <1>13 DEF TypeOK, AnswerFresh, LockHeld, Fetching, Drop, Reply
<1>14. ASSUME NEW r \in Requests,
           Login(r)
    PROVE  AnswerFresh'
    BY <1>0, <1>14 DEF TypeOK, AnswerFresh, LockHeld, Fetching, Login, Begin
<1>15. ASSUME NEW r \in Requests, NEW t \in Tokens \cup {NoToken},
           Arrive(r, t)
    PROVE  AnswerFresh'
    BY <1>0, <1>15 DEF TypeOK, AnswerFresh, LockHeld, Fetching, Arrive, Begin
<1>16. ASSUME NEW r \in Requests, NEW t \in RefreshTokens,
           Refresh(r, t)
    PROVE  AnswerFresh'
    BY <1>0, <1>16 DEF TypeOK, AnswerFresh, LockHeld, Fetching, Refresh, Begin
<1>17. ASSUME NEW r \in Requests, NEW t \in Tokens,
           Revoke(r, t)
    PROVE  AnswerFresh'
    BY <1>0, <1>17 DEF TypeOK, AnswerFresh, LockHeld, Fetching, Revoke, Begin
<1>18. ASSUME NEW f \in Fetchers,
           FetchAnswered(f)
    PROVE  AnswerFresh'
    BY <1>0, <1>18 DEF TypeOK, AnswerFresh, LockHeld, Fetching, FetchAnswered,
        Resume
<1>19. ASSUME NEW f \in Fetchers,
           ReplaceKeys(f)
    PROVE  AnswerFresh'
    BY <1>0, <1>19 DEF TypeOK, AnswerFresh, LockHeld, Fetching, ReplaceKeys, Resume
<1>20. ASSUME NEW f \in Fetchers,
           FetchFailed(f)
    PROVE  AnswerFresh'
    BY <1>0, <1>20 DEF TypeOK, AnswerFresh, LockHeld, Fetching, FetchFailed, Resume
<1>21. CASE BackgroundWake \/ BackgroundFetch \/ Publish \/ Outage \/ Recovery
             \/ Tick \/ NextWindow
    BY <1>0, <1>21 DEF TypeOK, AnswerFresh, LockHeld, Fetching, BackgroundWake,
        BackgroundFetch, Publish, Outage, Recovery, Tick, NextWindow
<1>22. ASSUME NEW k \in Retiring,
           Retire(k)
    PROVE  AnswerFresh'
    BY <1>0, <1>22 DEF TypeOK, AnswerFresh, LockHeld, Fetching, Retire
<1>23. CASE UNCHANGED vars
    BY <1>0, <1>23 DEF TypeOK, AnswerFresh, LockHeld, Fetching, vars
<1>24. CASE Forget
    BY <1>0, <1>24 DEF TypeOK, AnswerFresh, Fetching, Forget,
        ForgetRevoked, ForgetUsed, ForgetFailures
<1> QED
    BY <1>1, <1>2, <1>3, <1>4, <1>5, <1>6, <1>7, <1>8, <1>9, <1>10, <1>11, <1>12,
        <1>13, <1>14, <1>15, <1>16, <1>17, <1>18, <1>19, <1>20, <1>21, <1>22, <1>23, <1>24
        DEF Next, Step, FetchStep, BackgroundStep, Fetchers

\* Only a service with a key set counts a good token as a failure.
LEMMA BlameStep == IInv /\ [Next]_vars => KeysSeen'
<1> SUFFICES ASSUME IInv, [Next]_vars PROVE KeysSeen'
    OBVIOUS
<1> USE AccessAssumption DEF idp, keySet, store, request, ghosts, lost, quiet, Fetchers
<1>0. TypeOK /\ KeysSeen /\ AnswerFresh
    BY DEF IInv
<1>1. ASSUME NEW r \in Requests,
           PreCheck(r)
    PROVE  KeysSeen'
    <2>1. (\E code \in Int : Reply(r, code)) \/ Goto(r, "prepare")
        BY <1>1 DEF PreCheck
    <2>2. UNCHANGED cached
        BY <1>1 DEF PreCheck
    <2> QED
        BY <1>0, <2>1, <2>2, MoveBlames
<1>2. ASSUME NEW r \in Requests,
           Prepare(r)
    PROVE  KeysSeen'
    BY <1>0, <1>2 DEF TypeOK, KeysSeen, Loaded, Prepare, Goto
<1>3. ASSUME NEW r \in Requests,
           LookupRevocation(r)
    PROVE  KeysSeen'
    <2>1. (\E code \in Int : Reply(r, code)) \/ Goto(r, "count")
        BY <1>3 DEF LookupRevocation
    <2>2. pc[r] = "lookup" /\ UNCHANGED cached
        BY <1>3 DEF LookupRevocation
    <2>3. CASE Goto(r, "count")
        BY <1>0, <2>2, <2>3 DEF TypeOK, KeysSeen, Loaded, Goto
    <2> QED
        BY <1>0, <2>1, <2>2, <2>3, MoveBlames
<1>4. ASSUME NEW r \in Requests,
           CountFailure(r)
    PROVE  KeysSeen'
    <2>1. \E code \in Int : Reply(r, code)
        BY <1>4 DEF CountFailure
    <2>2. UNCHANGED cached
        BY <1>4 DEF CountFailure
    <2> QED
        BY <1>0, <2>1, <2>2, MoveBlames
<1>5. ASSUME NEW r \in Requests,
           LockAndCheck(r)
    PROVE  KeysSeen'
    BY <1>0, <1>5 DEF TypeOK, KeysSeen, Loaded, LockAndCheck
<1>6. ASSUME NEW r \in Requests,
           Verify(r)
    PROVE  KeysSeen'
    <2> SUFFICES ASSUME NEW q \in Requests,
                        pc'[q] \in {"lookup", "count"},
                        token'[q] \in Acceptable,
                        NamedKid[token'[q]] = SignedBy[token'[q]],
                        SignedBy[token'[q]] \in Kids \ StaticKids
                 PROVE  Loaded'
        BY DEF KeysSeen, Acceptable, ProviderAccepts, Enforce, BaseAllows, RouteAllows
    <2>1. Loaded' = Loaded
        BY <1>6 DEF Verify, Loaded
    <2>2. CASE q # r
        <3>1. pc[q] = pc'[q] /\ token[q] = token'[q]
            BY <1>0, <1>6, <2>2 DEF TypeOK, Verify, Goto, Reply
        <3> QED
            BY <1>0, <2>1, <3>1 DEF KeysSeen
    <2>3. CASE q = r
        <3>1. Verdict(token[r]) \in {200, 401} /\ token' = token
            BY <1>0, <1>6, <2>3 DEF TypeOK, Verify, Goto, Reply
        <3>2. token[r] \in Tokens /\ token[r] \notin RefreshTokens
              /\ ProviderAccepts(Claims[token[r]]) /\ Enforce(Claims[token[r]]) = 200
            BY <2>3, <3>1 DEF Acceptable
        <3>3. SignatureVerifies(token[r]) \/ CandidateKids(token[r]) # {} \/ Loaded
            BY <3>1, <3>2 DEF Verdict
        <3>4. ~Loaded => CandidateKids(token[r]) = {}
            BY <2>3, <3>1, <3>2 DEF CandidateKids, RemoteKids
        <3> QED
            BY <2>1, <3>3, <3>4 DEF SignatureVerifies
    <2> QED
        BY <2>2, <2>3
<1>7. ASSUME NEW r \in Requests,
           CheckUsed(r)
    PROVE  KeysSeen'
    <2>1. (\E code \in Int : Reply(r, code)) \/ Goto(r, "ref_revoked")
        BY <1>7 DEF CheckUsed
    <2>2. UNCHANGED cached
        BY <1>7 DEF CheckUsed
    <2> QED
        BY <1>0, <2>1, <2>2, MoveBlames
<1>8. ASSUME NEW r \in Requests,
           CheckRevoked(r)
    PROVE  KeysSeen'
    <2>1. (\E code \in Int : Reply(r, code)) \/ Goto(r, "ref_mark")
        BY <1>8 DEF CheckRevoked
    <2>2. UNCHANGED cached
        BY <1>8 DEF CheckRevoked
    <2> QED
        BY <1>0, <2>1, <2>2, MoveBlames
<1>9. ASSUME NEW r \in Requests,
           VerifyLogin(r)
    PROVE  KeysSeen'
    <2>1. \E code \in Int : Reply(r, code)
        BY <1>9 DEF VerifyLogin
    <2>2. UNCHANGED cached
        BY <1>9 DEF VerifyLogin
    <2> QED
        BY <1>0, <2>1, <2>2, MoveBlames
<1>10. ASSUME NEW r \in Requests,
           MarkUsed(r)
    PROVE  KeysSeen'
    <2>1. (\E code \in Int : Reply(r, code)) \/ Goto(r, "ref_issue")
        BY <1>10 DEF MarkUsed
    <2>2. UNCHANGED cached
        BY <1>10 DEF MarkUsed
    <2> QED
        BY <1>0, <2>1, <2>2, MoveBlames
<1>11. ASSUME NEW r \in Requests,
           IssuePair(r)
    PROVE  KeysSeen'
    <2>1. \E code \in Int : Reply(r, code)
        BY <1>11 DEF IssuePair
    <2>2. UNCHANGED cached
        BY <1>11 DEF IssuePair
    <2> QED
        BY <1>0, <2>1, <2>2, MoveBlames
<1>12. ASSUME NEW r \in Requests,
           MarkRevoked(r) \/ MarkRevokedUsed(r)
    PROVE  KeysSeen'
    <2>1. (\E code \in Int : Reply(r, code)) \/ Goto(r, "rev_used")
        BY <1>12 DEF MarkRevoked, MarkRevokedUsed, ReplyRevoked
    <2>2. UNCHANGED cached
        BY <1>12 DEF MarkRevoked, MarkRevokedUsed
    <2> QED
        BY <1>0, <2>1, <2>2, MoveBlames
<1>13. ASSUME NEW r \in Requests,
           Drop(r)
    PROVE  KeysSeen'
    BY <1>0, <1>13 DEF TypeOK, KeysSeen, Loaded, Drop, Reply
<1>14. ASSUME NEW r \in Requests,
           Login(r)
    PROVE  KeysSeen'
    BY <1>0, <1>14 DEF TypeOK, KeysSeen, Loaded, Login, Begin
<1>15. ASSUME NEW r \in Requests, NEW t \in Tokens \cup {NoToken},
           Arrive(r, t)
    PROVE  KeysSeen'
    BY <1>0, <1>15 DEF TypeOK, KeysSeen, Loaded, Arrive, Begin
<1>16. ASSUME NEW r \in Requests, NEW t \in RefreshTokens,
           Refresh(r, t)
    PROVE  KeysSeen'
    BY <1>0, <1>16 DEF TypeOK, KeysSeen, Loaded, Refresh, Begin
<1>17. ASSUME NEW r \in Requests, NEW t \in Tokens,
           Revoke(r, t)
    PROVE  KeysSeen'
    BY <1>0, <1>17 DEF TypeOK, KeysSeen, Loaded, Revoke, Begin
<1>18. ASSUME NEW f \in Fetchers,
           FetchAnswered(f)
    PROVE  KeysSeen'
    BY <1>0, <1>18 DEF TypeOK, KeysSeen, Loaded, FetchAnswered, Fetching,
        Resume
<1>19. ASSUME NEW f \in Fetchers,
           ReplaceKeys(f)
    PROVE  KeysSeen'
    BY <1>0, <1>19 DEF TypeOK, KeysSeen, Loaded, ReplaceKeys, Fetching,
        Resume, AnswerFresh
<1>20. ASSUME NEW f \in Fetchers,
           FetchFailed(f)
    PROVE  KeysSeen'
    BY <1>0, <1>20 DEF TypeOK, KeysSeen, Loaded, FetchFailed, Fetching,
        Resume
<1>21. CASE BackgroundWake \/ BackgroundFetch \/ Publish \/ Outage \/ Recovery
             \/ Tick \/ NextWindow
    BY <1>0, <1>21 DEF TypeOK, KeysSeen, Loaded, BackgroundWake,
        BackgroundFetch, Publish, Outage, Recovery, Tick, NextWindow
<1>22. ASSUME NEW k \in Retiring,
           Retire(k)
    PROVE  KeysSeen'
    BY <1>0, <1>22 DEF TypeOK, KeysSeen, Loaded, Retire
<1>23. CASE UNCHANGED vars
    BY <1>0, <1>23 DEF TypeOK, KeysSeen, Loaded, vars
<1>24. CASE Forget
    BY <1>0, <1>24 DEF TypeOK, KeysSeen, Loaded, Forget,
        ForgetRevoked, ForgetUsed, ForgetFailures
<1> QED
    BY <1>1, <1>2, <1>3, <1>4, <1>5, <1>6, <1>7, <1>8, <1>9, <1>10, <1>11, <1>12,
        <1>13, <1>14, <1>15, <1>16, <1>17, <1>18, <1>19, <1>20, <1>21, <1>22, <1>23, <1>24
        DEF Next, Step, FetchStep, BackgroundStep, Fetchers

\* No forbidden request gets past the revocation list.
LEMMA KeptOutStep == IInv /\ [Next]_vars => KeptOut'
<1> SUFFICES ASSUME IInv, [Next]_vars PROVE KeptOut'
    OBVIOUS
<1> USE AccessAssumption DEF idp, keySet, store, request, ghosts, lost, quiet, Fetchers
<1>0. TypeOK /\ KeptOut /\ Carries
    BY DEF IInv
<1>1. ASSUME NEW r \in Requests,
           PreCheck(r)
    PROVE  KeptOut'
    BY <1>0, <1>1 DEF TypeOK, KeptOut, Revoking, Carries, EverRevoked, PreCheck, Goto, Reply
<1>2. ASSUME NEW r \in Requests,
           Prepare(r)
    PROVE  KeptOut'
    BY <1>0, <1>2 DEF TypeOK, KeptOut, Revoking, Carries, EverRevoked, Prepare, Goto
<1>3. ASSUME NEW r \in Requests,
           LookupRevocation(r)
    PROVE  KeptOut'
    BY <1>0, <1>3 DEF TypeOK, KeptOut, Revoking, Carries, EverRevoked, LookupRevocation, Goto, Reply
<1>4. ASSUME NEW r \in Requests,
           CountFailure(r)
    PROVE  KeptOut'
    BY <1>0, <1>4 DEF TypeOK, KeptOut, Revoking, Carries, EverRevoked, CountFailure, Reply
<1>5. ASSUME NEW r \in Requests,
           LockAndCheck(r)
    PROVE  KeptOut'
    BY <1>0, <1>5 DEF TypeOK, KeptOut, Revoking, Carries, EverRevoked, LockAndCheck
<1>6. ASSUME NEW r \in Requests,
           Verify(r)
    PROVE  KeptOut'
    BY <1>0, <1>6 DEF TypeOK, KeptOut, Revoking, Carries, EverRevoked, Verify, Goto, Reply
<1>7. ASSUME NEW r \in Requests,
           CheckUsed(r)
    PROVE  KeptOut'
    BY <1>0, <1>7 DEF TypeOK, KeptOut, Revoking, Carries, EverRevoked, CheckUsed, Goto, Reply
<1>8. ASSUME NEW r \in Requests,
           CheckRevoked(r)
    PROVE  KeptOut'
    BY <1>0, <1>8 DEF TypeOK, KeptOut, Revoking, Carries, EverRevoked, CheckRevoked, Goto, Reply
<1>9. ASSUME NEW r \in Requests,
           VerifyLogin(r)
    PROVE  KeptOut'
    BY <1>0, <1>9 DEF TypeOK, KeptOut, Revoking, Carries, EverRevoked, VerifyLogin, Reply
<1>10. ASSUME NEW r \in Requests,
           MarkUsed(r)
    PROVE  KeptOut'
    BY <1>0, <1>10 DEF TypeOK, KeptOut, Revoking, Carries, EverRevoked, MarkUsed, Goto, Reply
<1>11. ASSUME NEW r \in Requests,
           IssuePair(r)
    PROVE  KeptOut'
    BY <1>0, <1>11 DEF TypeOK, KeptOut, Revoking, Carries, EverRevoked, IssuePair, Reply
<1>12. ASSUME NEW r \in Requests,
           MarkRevoked(r) \/ MarkRevokedUsed(r)
    PROVE  KeptOut'
    BY <1>0, <1>12 DEF TypeOK, KeptOut, Revoking, Carries, EverRevoked, MarkRevoked, Goto, Reply,
        ReplyRevoked, MarkRevokedUsed
<1>13. ASSUME NEW r \in Requests,
           Drop(r)
    PROVE  KeptOut'
    BY <1>0, <1>13 DEF TypeOK, KeptOut, Revoking, Carries, EverRevoked, Drop, Reply
<1>14. ASSUME NEW r \in Requests,
           Login(r)
    PROVE  KeptOut'
    BY <1>0, <1>14 DEF TypeOK, KeptOut, Revoking, Carries, EverRevoked, Login, Begin
<1>15. ASSUME NEW r \in Requests, NEW t \in Tokens \cup {NoToken},
           Arrive(r, t)
    PROVE  KeptOut'
    BY <1>0, <1>15 DEF TypeOK, KeptOut, Revoking, Carries, EverRevoked, Arrive, Begin
<1>16. ASSUME NEW r \in Requests, NEW t \in RefreshTokens,
           Refresh(r, t)
    PROVE  KeptOut'
    BY <1>0, <1>16 DEF TypeOK, KeptOut, Revoking, Carries, EverRevoked, Refresh, Begin
<1>17. ASSUME NEW r \in Requests, NEW t \in Tokens,
           Revoke(r, t)
    PROVE  KeptOut'
    BY <1>0, <1>17 DEF TypeOK, KeptOut, Revoking, Carries, EverRevoked, Revoke, Begin
<1>18. ASSUME NEW f \in Fetchers,
           FetchAnswered(f)
    PROVE  KeptOut'
    BY <1>0, <1>18 DEF TypeOK, KeptOut, Revoking, Carries, EverRevoked, FetchAnswered, Fetching, Resume
<1>19. ASSUME NEW f \in Fetchers,
           ReplaceKeys(f)
    PROVE  KeptOut'
    BY <1>0, <1>19 DEF TypeOK, KeptOut, Revoking, Carries, EverRevoked, ReplaceKeys, Fetching, Resume
<1>20. ASSUME NEW f \in Fetchers,
           FetchFailed(f)
    PROVE  KeptOut'
    BY <1>0, <1>20 DEF TypeOK, KeptOut, Revoking, Carries, EverRevoked, FetchFailed, Fetching, Resume
<1>21. CASE BackgroundWake \/ BackgroundFetch \/ Publish \/ Outage \/ Recovery
             \/ Tick \/ NextWindow
    BY <1>0, <1>21 DEF TypeOK, KeptOut, Revoking, Carries, EverRevoked, BackgroundWake, BackgroundFetch,
        Publish, Outage, Recovery, Tick, NextWindow
<1>22. ASSUME NEW k \in Retiring,
           Retire(k)
    PROVE  KeptOut'
    BY <1>0, <1>22 DEF TypeOK, KeptOut, Revoking, Carries, EverRevoked, Retire
<1>23. CASE UNCHANGED vars
    BY <1>0, <1>23 DEF TypeOK, KeptOut, Revoking, Carries, EverRevoked, vars
<1>24. CASE Forget
    BY <1>0, <1>24 DEF TypeOK, KeptOut, Revoking, Carries, EverRevoked, Forget,
        ForgetRevoked, ForgetUsed, ForgetFailures
<1> QED
    BY <1>1, <1>2, <1>3, <1>4, <1>5, <1>6, <1>7, <1>8, <1>9, <1>10, <1>11, <1>12,
        <1>13, <1>14, <1>15, <1>16, <1>17, <1>18, <1>19, <1>20, <1>21, <1>22, <1>23, <1>24
        DEF Next, Step, FetchStep, BackgroundStep, Fetchers

\* No forbidden request is answered with success.
LEMMA AdmittedStep == IInv /\ [Next]_vars => RevokedStaysOut'
<1> SUFFICES ASSUME IInv, [Next]_vars PROVE RevokedStaysOut'
    OBVIOUS
<1> USE AccessAssumption DEF idp, keySet, store, request, ghosts, lost, quiet, Fetchers
<1>0. TypeOK /\ KeptOut /\ Carries /\ RevokedStaysOut
    BY DEF IInv
<1>1. ASSUME NEW r \in Requests,
           PreCheck(r)
    PROVE  RevokedStaysOut'
    BY <1>0, <1>1 DEF TypeOK, KeptOut, Revoking, Carries, EverRevoked, RevokedStaysOut, PreCheck, Goto,
        Reply
<1>2. ASSUME NEW r \in Requests,
           Prepare(r)
    PROVE  RevokedStaysOut'
    BY <1>0, <1>2 DEF TypeOK, KeptOut, Revoking, Carries, EverRevoked, RevokedStaysOut, Prepare, Goto
<1>3. ASSUME NEW r \in Requests,
           LookupRevocation(r)
    PROVE  RevokedStaysOut'
    BY <1>0, <1>3 DEF TypeOK, KeptOut, Revoking, Carries, EverRevoked, RevokedStaysOut, LookupRevocation,
        Goto, Reply
<1>4. ASSUME NEW r \in Requests,
           CountFailure(r)
    PROVE  RevokedStaysOut'
    BY <1>0, <1>4 DEF TypeOK, KeptOut, Revoking, Carries, EverRevoked, RevokedStaysOut, CountFailure, Reply
<1>5. ASSUME NEW r \in Requests,
           LockAndCheck(r)
    PROVE  RevokedStaysOut'
    BY <1>0, <1>5 DEF TypeOK, KeptOut, Revoking, Carries, EverRevoked, RevokedStaysOut, LockAndCheck
<1>6. ASSUME NEW r \in Requests,
           Verify(r)
    PROVE  RevokedStaysOut'
    BY <1>0, <1>6 DEF TypeOK, KeptOut, Revoking, Carries, EverRevoked, RevokedStaysOut, Verify, Goto, Reply
<1>7. ASSUME NEW r \in Requests,
           CheckUsed(r)
    PROVE  RevokedStaysOut'
    BY <1>0, <1>7 DEF TypeOK, KeptOut, Revoking, Carries, EverRevoked, RevokedStaysOut, CheckUsed, Goto,
        Reply
<1>8. ASSUME NEW r \in Requests,
           CheckRevoked(r)
    PROVE  RevokedStaysOut'
    BY <1>0, <1>8 DEF TypeOK, KeptOut, Revoking, Carries, EverRevoked, RevokedStaysOut, CheckRevoked, Goto,
        Reply
<1>9. ASSUME NEW r \in Requests,
           VerifyLogin(r)
    PROVE  RevokedStaysOut'
    BY <1>0, <1>9 DEF TypeOK, KeptOut, Revoking, Carries, EverRevoked, RevokedStaysOut, VerifyLogin, Reply
<1>10. ASSUME NEW r \in Requests,
           MarkUsed(r)
    PROVE  RevokedStaysOut'
    BY <1>0, <1>10 DEF TypeOK, KeptOut, Revoking, Carries, EverRevoked, RevokedStaysOut, MarkUsed, Goto,
        Reply
<1>11. ASSUME NEW r \in Requests,
           IssuePair(r)
    PROVE  RevokedStaysOut'
    BY <1>0, <1>11 DEF TypeOK, KeptOut, Revoking, Carries, EverRevoked, RevokedStaysOut, IssuePair, Reply
<1>12. ASSUME NEW r \in Requests,
           MarkRevoked(r) \/ MarkRevokedUsed(r)
    PROVE  RevokedStaysOut'
    BY <1>0, <1>12 DEF TypeOK, KeptOut, Revoking, Carries, EverRevoked, RevokedStaysOut, MarkRevoked, Goto,
        Reply, ReplyRevoked, MarkRevokedUsed
<1>13. ASSUME NEW r \in Requests,
           Drop(r)
    PROVE  RevokedStaysOut'
    BY <1>0, <1>13 DEF TypeOK, KeptOut, Revoking, Carries, EverRevoked, RevokedStaysOut, Drop, Reply
<1>14. ASSUME NEW r \in Requests,
           Login(r)
    PROVE  RevokedStaysOut'
    BY <1>0, <1>14 DEF TypeOK, KeptOut, Revoking, Carries, EverRevoked, RevokedStaysOut, Login, Begin
<1>15. ASSUME NEW r \in Requests, NEW t \in Tokens \cup {NoToken},
           Arrive(r, t)
    PROVE  RevokedStaysOut'
    BY <1>0, <1>15 DEF TypeOK, KeptOut, Revoking, Carries, EverRevoked, RevokedStaysOut, Arrive, Begin
<1>16. ASSUME NEW r \in Requests, NEW t \in RefreshTokens,
           Refresh(r, t)
    PROVE  RevokedStaysOut'
    BY <1>0, <1>16 DEF TypeOK, KeptOut, Revoking, Carries, EverRevoked, RevokedStaysOut, Refresh, Begin
<1>17. ASSUME NEW r \in Requests, NEW t \in Tokens,
           Revoke(r, t)
    PROVE  RevokedStaysOut'
    BY <1>0, <1>17 DEF TypeOK, KeptOut, Revoking, Carries, EverRevoked, RevokedStaysOut, Revoke, Begin
<1>18. ASSUME NEW f \in Fetchers,
           FetchAnswered(f)
    PROVE  RevokedStaysOut'
    BY <1>0, <1>18 DEF TypeOK, KeptOut, Revoking, Carries, EverRevoked, RevokedStaysOut, FetchAnswered,
        Fetching, Resume
<1>19. ASSUME NEW f \in Fetchers,
           ReplaceKeys(f)
    PROVE  RevokedStaysOut'
    BY <1>0, <1>19 DEF TypeOK, KeptOut, Revoking, Carries, EverRevoked, RevokedStaysOut, ReplaceKeys,
        Fetching, Resume
<1>20. ASSUME NEW f \in Fetchers,
           FetchFailed(f)
    PROVE  RevokedStaysOut'
    BY <1>0, <1>20 DEF TypeOK, KeptOut, Revoking, Carries, EverRevoked, RevokedStaysOut, FetchFailed,
        Fetching, Resume
<1>21. CASE BackgroundWake \/ BackgroundFetch \/ Publish \/ Outage \/ Recovery
             \/ Tick \/ NextWindow
    BY <1>0, <1>21 DEF TypeOK, KeptOut, Revoking, Carries, EverRevoked, RevokedStaysOut, BackgroundWake,
        BackgroundFetch, Publish, Outage, Recovery, Tick, NextWindow
<1>22. ASSUME NEW k \in Retiring,
           Retire(k)
    PROVE  RevokedStaysOut'
    BY <1>0, <1>22 DEF TypeOK, KeptOut, Revoking, Carries, EverRevoked, RevokedStaysOut, Retire
<1>23. CASE UNCHANGED vars
    BY <1>0, <1>23 DEF TypeOK, KeptOut, Revoking, Carries, EverRevoked, RevokedStaysOut, vars
<1>24. CASE Forget
    BY <1>0, <1>24 DEF TypeOK, RevokedStaysOut, Forget,
        ForgetRevoked, ForgetUsed, ForgetFailures
<1> QED
    BY <1>1, <1>2, <1>3, <1>4, <1>5, <1>6, <1>7, <1>8, <1>9, <1>10, <1>11, <1>12,
        <1>13, <1>14, <1>15, <1>16, <1>17, <1>18, <1>19, <1>20, <1>21, <1>22, <1>23, <1>24
        DEF Next, Step, FetchStep, BackgroundStep, Fetchers

\* A refresh that overlaps another of its token is seen when it begins.
LEMMA OverlapStep == IInv /\ [Next]_vars => OverlapSeen'
<1> SUFFICES ASSUME IInv, [Next]_vars PROVE OverlapSeen'
    OBVIOUS
<1> USE AccessAssumption DEF idp, keySet, store, request, ghosts, lost, quiet, Fetchers
<1>0. TypeOK /\ OverlapSeen /\ Carries
    BY DEF IInv
<1>1. ASSUME NEW r \in Requests,
           PreCheck(r)
    PROVE  OverlapSeen'
    <2>1. (\E code \in Int : Reply(r, code)) \/ Goto(r, "prepare")
        BY <1>1 DEF PreCheck
    <2>2. UNCHANGED overlapped
        BY <1>1 DEF PreCheck
    <2> QED
        BY <1>0, <2>1, <2>2, ReplyOverlaps, GotoOverlaps DEF Refreshing
<1>2. ASSUME NEW r \in Requests,
           Prepare(r)
    PROVE  OverlapSeen'
    BY <1>0, <1>2 DEF TypeOK, OverlapSeen, Carries, Refreshing, Prepare, Goto
<1>3. ASSUME NEW r \in Requests,
           LookupRevocation(r)
    PROVE  OverlapSeen'
    <2>1. (\E code \in Int : Reply(r, code)) \/ Goto(r, "count")
        BY <1>3 DEF LookupRevocation
    <2>2. UNCHANGED overlapped
        BY <1>3 DEF LookupRevocation
    <2> QED
        BY <1>0, <2>1, <2>2, ReplyOverlaps, GotoOverlaps DEF Refreshing
<1>4. ASSUME NEW r \in Requests,
           CountFailure(r)
    PROVE  OverlapSeen'
    <2>1. \E code \in Int : Reply(r, code)
        BY <1>4 DEF CountFailure
    <2>2. UNCHANGED overlapped
        BY <1>4 DEF CountFailure
    <2> QED
        BY <1>0, <2>1, <2>2, ReplyOverlaps
<1>5. ASSUME NEW r \in Requests,
           LockAndCheck(r)
    PROVE  OverlapSeen'
    <2>1. pc' = [pc EXCEPT ![r] = "fetch"] \/ pc' = [pc EXCEPT ![r] = "verify"]
        BY <1>5 DEF LockAndCheck
    <2>2. UNCHANGED <<token, overlapped>>
        BY <1>5 DEF LockAndCheck
    <2>3. /\ pc'[r] \notin Refreshing
          /\ \A q \in Requests : q # r => pc'[q] = pc[q]
        BY <1>0, <2>1 DEF TypeOK, Refreshing
    <2> QED
        BY <1>0, <2>2, <2>3 DEF OverlapSeen
<1>6. ASSUME NEW r \in Requests,
           Verify(r)
    PROVE  OverlapSeen'
    <2>1. (\E code \in Int : Reply(r, code)) \/ Goto(r, "lookup") \/ Goto(r, "count")
        BY <1>6 DEF Verify
    <2>2. UNCHANGED overlapped
        BY <1>6 DEF Verify
    <2> QED
        BY <1>0, <2>1, <2>2, ReplyOverlaps, GotoOverlaps DEF Refreshing
<1>7. ASSUME NEW r \in Requests,
           CheckUsed(r)
    PROVE  OverlapSeen'
    <2>1. (\E code \in Int : Reply(r, code)) \/ Goto(r, "ref_revoked")
        BY <1>7 DEF CheckUsed
    <2>2. pc[r] \in Refreshing /\ UNCHANGED overlapped
        BY <1>7 DEF CheckUsed, Refreshing
    <2> QED
        BY <1>0, <2>1, <2>2, ReplyOverlaps, GotoOverlaps DEF Refreshing
<1>8. ASSUME NEW r \in Requests,
           CheckRevoked(r)
    PROVE  OverlapSeen'
    <2>1. (\E code \in Int : Reply(r, code)) \/ Goto(r, "ref_mark")
        BY <1>8 DEF CheckRevoked
    <2>2. pc[r] \in Refreshing /\ UNCHANGED overlapped
        BY <1>8 DEF CheckRevoked, Refreshing
    <2> QED
        BY <1>0, <2>1, <2>2, ReplyOverlaps, GotoOverlaps DEF Refreshing
<1>9. ASSUME NEW r \in Requests,
           VerifyLogin(r)
    PROVE  OverlapSeen'
    <2>1. \E code \in Int : Reply(r, code)
        BY <1>9 DEF VerifyLogin
    <2>2. UNCHANGED overlapped
        BY <1>9 DEF VerifyLogin
    <2> QED
        BY <1>0, <2>1, <2>2, ReplyOverlaps
<1>10. ASSUME NEW r \in Requests,
           MarkUsed(r)
    PROVE  OverlapSeen'
    <2>1. (\E code \in Int : Reply(r, code)) \/ Goto(r, "ref_issue")
        BY <1>10 DEF MarkUsed
    <2>2. pc[r] \in Refreshing /\ UNCHANGED overlapped
        BY <1>10 DEF MarkUsed, Refreshing
    <2> QED
        BY <1>0, <2>1, <2>2, ReplyOverlaps, GotoOverlaps DEF Refreshing
<1>11. ASSUME NEW r \in Requests,
           IssuePair(r)
    PROVE  OverlapSeen'
    <2>1. \E code \in Int : Reply(r, code)
        BY <1>11 DEF IssuePair
    <2>2. UNCHANGED overlapped
        BY <1>11 DEF IssuePair
    <2> QED
        BY <1>0, <2>1, <2>2, ReplyOverlaps
<1>12. ASSUME NEW r \in Requests,
           MarkRevoked(r) \/ MarkRevokedUsed(r)
    PROVE  OverlapSeen'
    <2>1. (\E code \in Int : Reply(r, code)) \/ Goto(r, "rev_used")
        BY <1>12 DEF MarkRevoked, MarkRevokedUsed, ReplyRevoked
    <2>2. UNCHANGED overlapped
        BY <1>12 DEF MarkRevoked, MarkRevokedUsed
    <2> QED
        BY <1>0, <2>1, <2>2, ReplyOverlaps, GotoOverlaps DEF Refreshing
<1>13. ASSUME NEW r \in Requests,
           Drop(r)
    PROVE  OverlapSeen'
    BY <1>0, <1>13 DEF TypeOK, OverlapSeen, Carries, Refreshing, Drop, Reply
<1>14. ASSUME NEW r \in Requests,
           Login(r)
    PROVE  OverlapSeen'
    BY <1>0, <1>14 DEF TypeOK, OverlapSeen, Carries, Refreshing, Login, Begin
<1>15. ASSUME NEW r \in Requests, NEW t \in Tokens \cup {NoToken},
           Arrive(r, t)
    PROVE  OverlapSeen'
    BY <1>0, <1>15 DEF TypeOK, OverlapSeen, Carries, Refreshing, Arrive, Begin
<1>16. ASSUME NEW r \in Requests, NEW t \in RefreshTokens,
           Refresh(r, t)
    PROVE  OverlapSeen'
    BY <1>0, <1>16 DEF TypeOK, OverlapSeen, Carries, Refreshing, Refresh, Begin
<1>17. ASSUME NEW r \in Requests, NEW t \in Tokens,
           Revoke(r, t)
    PROVE  OverlapSeen'
    BY <1>0, <1>17 DEF TypeOK, OverlapSeen, Carries, Refreshing, Revoke, Begin
<1>18. ASSUME NEW f \in Fetchers,
           FetchAnswered(f)
    PROVE  OverlapSeen'
    BY <1>0, <1>18 DEF TypeOK, OverlapSeen, Carries, Refreshing, FetchAnswered,
        Fetching, Resume
<1>19. ASSUME NEW f \in Fetchers,
           ReplaceKeys(f)
    PROVE  OverlapSeen'
    BY <1>0, <1>19 DEF TypeOK, OverlapSeen, Carries, Refreshing, ReplaceKeys,
        Fetching, Resume
<1>20. ASSUME NEW f \in Fetchers,
           FetchFailed(f)
    PROVE  OverlapSeen'
    BY <1>0, <1>20 DEF TypeOK, OverlapSeen, Carries, Refreshing, FetchFailed,
        Fetching, Resume
<1>21. CASE BackgroundWake \/ BackgroundFetch \/ Publish \/ Outage \/ Recovery
             \/ Tick \/ NextWindow
    BY <1>0, <1>21 DEF TypeOK, OverlapSeen, Carries, Refreshing, BackgroundWake,
        BackgroundFetch, Publish, Outage, Recovery, Tick, NextWindow
<1>22. ASSUME NEW k \in Retiring,
           Retire(k)
    PROVE  OverlapSeen'
    BY <1>0, <1>22 DEF TypeOK, OverlapSeen, Carries, Refreshing, Retire
<1>23. CASE UNCHANGED vars
    BY <1>0, <1>23 DEF TypeOK, OverlapSeen, Carries, Refreshing, vars
<1>24. CASE Forget
    BY <1>0, <1>24 DEF TypeOK, OverlapSeen, Refreshing, Forget,
        ForgetRevoked, ForgetUsed, ForgetFailures
<1> QED
    BY <1>1, <1>2, <1>3, <1>4, <1>5, <1>6, <1>7, <1>8, <1>9, <1>10, <1>11, <1>12,
        <1>13, <1>14, <1>15, <1>16, <1>17, <1>18, <1>19, <1>20, <1>21, <1>22, <1>23, <1>24
        DEF Next, Step, FetchStep, BackgroundStep, Fetchers

\* The used marker comes before the pair.
LEMMA MarkedStep == IInv /\ [Next]_vars => MarkedFirst'
<1> SUFFICES ASSUME IInv, [Next]_vars PROVE MarkedFirst'
    OBVIOUS
<1> USE AccessAssumption DEF idp, keySet, store, request, ghosts, lost, quiet, Fetchers
<1>0. TypeOK /\ MarkedFirst /\ OverlapSeen /\ Carries
    BY DEF IInv
<1>1. ASSUME NEW r \in Requests,
           PreCheck(r)
    PROVE  MarkedFirst'
    <2>1. (\E code \in Int : Reply(r, code)) \/ Goto(r, "prepare")
        BY <1>1 DEF PreCheck
    <2>2. UNCHANGED <<EverUsed, rotated, overlapped, usedLost>>
        BY <1>1 DEF PreCheck, EverUsed
    <2> QED
        BY <1>0, <2>1, <2>2, ReplyMarked, GotoMarked DEF Refreshing
<1>2. ASSUME NEW r \in Requests,
           Prepare(r)
    PROVE  MarkedFirst'
    BY <1>0, <1>2 DEF TypeOK, MarkedFirst, OverlapSeen, Carries, Refreshing, EverUsed,
        Prepare, Goto
<1>3. ASSUME NEW r \in Requests,
           LookupRevocation(r)
    PROVE  MarkedFirst'
    <2>1. (\E code \in Int : Reply(r, code)) \/ Goto(r, "count")
        BY <1>3 DEF LookupRevocation
    <2>2. UNCHANGED <<EverUsed, rotated, overlapped, usedLost>>
        BY <1>3 DEF LookupRevocation, EverUsed
    <2> QED
        BY <1>0, <2>1, <2>2, ReplyMarked, GotoMarked DEF Refreshing
<1>4. ASSUME NEW r \in Requests,
           CountFailure(r)
    PROVE  MarkedFirst'
    <2>1. \E code \in Int : Reply(r, code)
        BY <1>4 DEF CountFailure
    <2>2. UNCHANGED <<EverUsed, rotated, overlapped, usedLost>>
        BY <1>4 DEF CountFailure, EverUsed
    <2> QED
        BY <1>0, <2>1, <2>2, ReplyMarked
<1>5. ASSUME NEW r \in Requests,
           LockAndCheck(r)
    PROVE  MarkedFirst'
    BY <1>0, <1>5 DEF TypeOK, MarkedFirst, OverlapSeen, Carries, Refreshing, EverUsed,
        LockAndCheck
<1>6. ASSUME NEW r \in Requests,
           Verify(r)
    PROVE  MarkedFirst'
    <2>1. (\E code \in Int : Reply(r, code)) \/ Goto(r, "lookup") \/ Goto(r, "count")
        BY <1>6 DEF Verify
    <2>2. UNCHANGED <<EverUsed, rotated, overlapped, usedLost>>
        BY <1>6 DEF Verify, EverUsed
    <2> QED
        BY <1>0, <2>1, <2>2, ReplyMarked, GotoMarked DEF Refreshing
<1>7. ASSUME NEW r \in Requests,
           CheckUsed(r)
    PROVE  MarkedFirst'
    <2>1. \/ \E code \in Int : Reply(r, code)
          \/ token[r] \notin used /\ Goto(r, "ref_revoked")
        BY <1>7 DEF CheckUsed
    <2>2. token[r] \in RefreshTokens /\ UNCHANGED <<EverUsed, rotated, overlapped, usedLost>>
        BY <1>0, <1>7 DEF CheckUsed, Carries, Refreshing, EverUsed
    <2> QED
        BY <1>0, <2>1, <2>2, ReplyMarked, GotoMarked
<1>8. ASSUME NEW r \in Requests,
           CheckRevoked(r)
    PROVE  MarkedFirst'
    <2>1. (\E code \in Int : Reply(r, code)) \/ Goto(r, "ref_mark")
        BY <1>8 DEF CheckRevoked
    <2>2. pc[r] = "ref_revoked" /\ UNCHANGED <<EverUsed, rotated, overlapped, usedLost>>
        BY <1>8 DEF CheckRevoked, EverUsed
    <2> QED
        BY <1>0, <2>1, <2>2, ReplyMarked, GotoMarked DEF Refreshing
<1>9. ASSUME NEW r \in Requests,
           VerifyLogin(r)
    PROVE  MarkedFirst'
    <2>1. \E code \in Int : Reply(r, code)
        BY <1>9 DEF VerifyLogin
    <2>2. UNCHANGED <<EverUsed, rotated, overlapped, usedLost>>
        BY <1>9 DEF VerifyLogin, EverUsed
    <2> QED
        BY <1>0, <2>1, <2>2, ReplyMarked
<1>10. ASSUME NEW r \in Requests,
           MarkUsed(r)
    PROVE  MarkedFirst'
    <2>1. \/ \E code \in Int : Reply(r, code)
          \/ token[r] \in EverUsed' /\ Goto(r, "ref_issue")
        BY <1>10 DEF MarkUsed, EverUsed
    <2>2. pc[r] = "ref_mark" /\ EverUsed \subseteq EverUsed' /\ UNCHANGED <<rotated, overlapped, usedLost>>
        BY <1>10 DEF MarkUsed, EverUsed
    <2> QED
        BY <1>0, <2>1, <2>2, ReplyMarked, GotoMarked DEF Refreshing
<1>11. ASSUME NEW r \in Requests,
           IssuePair(r)
    PROVE  MarkedFirst'
    <2>1. \E code \in Int : Reply(r, code)
        BY <1>11 DEF IssuePair
    <2>2. token[r] \in RefreshTokens /\ token[r] \in EverUsed
        BY <1>0, <1>11 DEF IssuePair, MarkedFirst, Carries, Refreshing
    <2>3. \A t \in RefreshTokens : t # token[r] => rotated'[t] = rotated[t]
        BY <1>0, <1>11, <2>2 DEF TypeOK, IssuePair
    <2>4. UNCHANGED <<overlapped, usedLost, EverUsed>>
        BY <1>11 DEF IssuePair, EverUsed
    <2>5. \A q \in Requests : q # r => pc'[q] = pc[q] /\ token'[q] = token[q]
        BY <1>0, <2>1 DEF TypeOK, Reply
    <2>6. pc'[r] = "idle" /\ pc[r] = "ref_issue"
        BY <1>0, <1>11, <2>1 DEF TypeOK, Reply, IssuePair
    <2>7. ASSUME NEW q \in Requests
          PROVE  /\ pc'[q] = "ref_issue" => token'[q] \in EverUsed'
                 /\ pc'[q] \in Refreshing \ {"ref_used"} =>
                        rotated'[token'[q]] = 0 \/ token'[q] \in overlapped' \cup usedLost'
        <3>1. CASE q = r
            BY <2>6, <3>1 DEF Refreshing
        <3>2. CASE q # r
            BY <1>0, <2>3, <2>4, <2>5, <2>6, <3>2 DEF MarkedFirst, OverlapSeen, Carries, Refreshing
        <3> QED
            BY <3>1, <3>2
    <2> QED
        BY <1>0, <2>2, <2>3, <2>4, <2>7 DEF MarkedFirst
<1>12. ASSUME NEW r \in Requests,
           MarkRevoked(r) \/ MarkRevokedUsed(r)
    PROVE  MarkedFirst'
    <2>1. (\E code \in Int : Reply(r, code)) \/ Goto(r, "rev_used")
        BY <1>12 DEF MarkRevoked, MarkRevokedUsed, ReplyRevoked
    <2>2. EverUsed \subseteq EverUsed' /\ UNCHANGED <<rotated, overlapped, usedLost>>
        BY <1>12 DEF MarkRevoked, MarkRevokedUsed, EverUsed
    <2> QED
        BY <1>0, <2>1, <2>2, ReplyMarked, GotoMarked DEF Refreshing
<1>13. ASSUME NEW r \in Requests,
           Drop(r)
    PROVE  MarkedFirst'
    BY <1>0, <1>13 DEF TypeOK, MarkedFirst, OverlapSeen, Carries, Refreshing, EverUsed, Drop,
        Reply
<1>14. ASSUME NEW r \in Requests,
           Login(r)
    PROVE  MarkedFirst'
    BY <1>0, <1>14 DEF TypeOK, MarkedFirst, OverlapSeen, Carries, Refreshing, EverUsed, Login,
        Begin
<1>15. ASSUME NEW r \in Requests, NEW t \in Tokens \cup {NoToken},
           Arrive(r, t)
    PROVE  MarkedFirst'
    BY <1>0, <1>15 DEF TypeOK, MarkedFirst, OverlapSeen, Carries, Refreshing, EverUsed,
        Arrive, Begin
<1>16. ASSUME NEW r \in Requests, NEW t \in RefreshTokens,
           Refresh(r, t)
    PROVE  MarkedFirst'
    BY <1>0, <1>16 DEF TypeOK, MarkedFirst, OverlapSeen, Carries, Refreshing, EverUsed,
        Refresh, Begin
<1>17. ASSUME NEW r \in Requests, NEW t \in Tokens,
           Revoke(r, t)
    PROVE  MarkedFirst'
    BY <1>0, <1>17 DEF TypeOK, MarkedFirst, OverlapSeen, Carries, Refreshing, EverUsed,
        Revoke, Begin
<1>18. ASSUME NEW f \in Fetchers,
           FetchAnswered(f)
    PROVE  MarkedFirst'
    BY <1>0, <1>18 DEF TypeOK, MarkedFirst, OverlapSeen, Carries, Refreshing, EverUsed,
        FetchAnswered, Fetching, Resume
<1>19. ASSUME NEW f \in Fetchers,
           ReplaceKeys(f)
    PROVE  MarkedFirst'
    BY <1>0, <1>19 DEF TypeOK, MarkedFirst, OverlapSeen, Carries, Refreshing, EverUsed,
        ReplaceKeys, Fetching, Resume
<1>20. ASSUME NEW f \in Fetchers,
           FetchFailed(f)
    PROVE  MarkedFirst'
    BY <1>0, <1>20 DEF TypeOK, MarkedFirst, OverlapSeen, Carries, Refreshing, EverUsed,
        FetchFailed, Fetching, Resume
<1>21. CASE BackgroundWake \/ BackgroundFetch \/ Publish \/ Outage \/ Recovery
             \/ Tick \/ NextWindow
    BY <1>0, <1>21 DEF TypeOK, MarkedFirst, OverlapSeen, Carries, Refreshing, EverUsed,
        BackgroundWake, BackgroundFetch, Publish, Outage, Recovery, Tick, Older,
        Loaded, NextWindow
<1>22. ASSUME NEW k \in Retiring,
           Retire(k)
    PROVE  MarkedFirst'
    BY <1>0, <1>22 DEF TypeOK, MarkedFirst, OverlapSeen, Carries, Refreshing, EverUsed, Retire
<1>23. CASE UNCHANGED vars
    BY <1>0, <1>23 DEF TypeOK, MarkedFirst, OverlapSeen, Carries, Refreshing, EverUsed, vars
<1>24. CASE Forget
    BY <1>0, <1>24 DEF TypeOK, MarkedFirst, Refreshing, EverUsed, Forget,
        ForgetRevoked, ForgetUsed, ForgetFailures
<1> QED
    BY <1>1, <1>2, <1>3, <1>4, <1>5, <1>6, <1>7, <1>8, <1>9, <1>10, <1>11, <1>12,
        <1>13, <1>14, <1>15, <1>16, <1>17, <1>18, <1>19, <1>20, <1>21, <1>22, <1>23, <1>24
        DEF Next, Step, FetchStep, BackgroundStep, Fetchers

\* A second pair takes two overlapping requests.
LEMMA RotatedStep == IInv /\ [Next]_vars => RotatedOnce'
<1> SUFFICES ASSUME IInv, [Next]_vars PROVE RotatedOnce'
    OBVIOUS
<1> USE AccessAssumption DEF idp, keySet, store, request, ghosts, lost, quiet, Fetchers
<1>0. TypeOK /\ MarkedFirst /\ Carries /\ RotatedOnce
    BY DEF IInv
<1>1. ASSUME NEW r \in Requests,
           PreCheck(r)
    PROVE  RotatedOnce'
    BY <1>0, <1>1 DEF TypeOK, MarkedFirst, Carries, RotatedOnce, Refreshing,
        PreCheck, Goto, Reply
<1>2. ASSUME NEW r \in Requests,
           Prepare(r)
    PROVE  RotatedOnce'
    BY <1>0, <1>2 DEF TypeOK, MarkedFirst, Carries, RotatedOnce, Refreshing,
        Prepare, Goto
<1>3. ASSUME NEW r \in Requests,
           LookupRevocation(r)
    PROVE  RotatedOnce'
    BY <1>0, <1>3 DEF TypeOK, MarkedFirst, Carries, RotatedOnce, Refreshing,
        LookupRevocation, Goto, Reply
<1>4. ASSUME NEW r \in Requests,
           CountFailure(r)
    PROVE  RotatedOnce'
    BY <1>0, <1>4 DEF TypeOK, MarkedFirst, Carries, RotatedOnce, Refreshing,
        CountFailure, Reply, Older
<1>5. ASSUME NEW r \in Requests,
           LockAndCheck(r)
    PROVE  RotatedOnce'
    BY <1>0, <1>5 DEF TypeOK, MarkedFirst, Carries, RotatedOnce, Refreshing,
        LockAndCheck
<1>6. ASSUME NEW r \in Requests,
           Verify(r)
    PROVE  RotatedOnce'
    BY <1>0, <1>6 DEF TypeOK, MarkedFirst, Carries, RotatedOnce, Refreshing, Verify,
        Goto, Reply
<1>7. ASSUME NEW r \in Requests,
           CheckUsed(r)
    PROVE  RotatedOnce'
    BY <1>0, <1>7 DEF TypeOK, MarkedFirst, Carries, RotatedOnce, Refreshing,
        CheckUsed, Goto, Reply
<1>8. ASSUME NEW r \in Requests,
           CheckRevoked(r)
    PROVE  RotatedOnce'
    BY <1>0, <1>8 DEF TypeOK, MarkedFirst, Carries, RotatedOnce, Refreshing,
        CheckRevoked, Goto, Reply
<1>9. ASSUME NEW r \in Requests,
           VerifyLogin(r)
    PROVE  RotatedOnce'
    BY <1>0, <1>9 DEF TypeOK, MarkedFirst, Carries, RotatedOnce, Refreshing,
        VerifyLogin, Reply
<1>10. ASSUME NEW r \in Requests,
           MarkUsed(r)
    PROVE  RotatedOnce'
    BY <1>0, <1>10 DEF TypeOK, MarkedFirst, Carries, RotatedOnce, Refreshing,
        MarkUsed, Goto, Reply
<1>11. ASSUME NEW r \in Requests,
           IssuePair(r)
    PROVE  RotatedOnce'
    <2>1. token[r] \in RefreshTokens /\ (rotated[token[r]] = 0 \/ token[r] \in overlapped \cup usedLost)
        BY <1>0, <1>11 DEF IssuePair, MarkedFirst, Carries, Refreshing
    <2>2. ASSUME NEW t \in RefreshTokens, rotated'[t] > 1, t \notin overlapped \cup usedLost
          PROVE  FALSE
        <3>1. t # token[r] => rotated'[t] = rotated[t]
            BY <1>0, <1>11, <2>1 DEF TypeOK, IssuePair
        <3>2. rotated[t] = 0 => rotated'[t] <= 1
            <4>1. Older(0, 2) = 1
                BY DEF Older
            <4>2. rotated' = rotated \/ rotated' = [rotated EXCEPT ![token[r]] = Older(@, 2)]
                BY <1>11 DEF IssuePair
            <4>3. t = token[r] => rotated'[t] \in {rotated[t], Older(rotated[t], 2)}
                BY <1>0, <2>1, <4>2 DEF TypeOK
            <4> QED
                BY <3>1, <4>1, <4>3
        <3>3. rotated'[t] \in 0..2
            BY <1>0, <1>11 DEF TypeOK, IssuePair, Older
        <3> QED
            BY <1>0, <2>1, <2>2, <3>1, <3>2, <3>3 DEF RotatedOnce
    <2> QED
        BY <1>11, <2>2 DEF RotatedOnce, IssuePair
<1>12. ASSUME NEW r \in Requests,
           MarkRevoked(r) \/ MarkRevokedUsed(r)
    PROVE  RotatedOnce'
    BY <1>0, <1>12 DEF TypeOK, MarkedFirst, Carries, RotatedOnce, Refreshing,
        MarkRevoked, Goto, Reply, ReplyRevoked, MarkRevokedUsed
<1>13. ASSUME NEW r \in Requests,
           Drop(r)
    PROVE  RotatedOnce'
    BY <1>0, <1>13 DEF TypeOK, MarkedFirst, Carries, RotatedOnce, Refreshing, Drop,
        Reply
<1>14. ASSUME NEW r \in Requests,
           Login(r)
    PROVE  RotatedOnce'
    BY <1>0, <1>14 DEF TypeOK, MarkedFirst, Carries, RotatedOnce, Refreshing, Login,
        Begin
<1>15. ASSUME NEW r \in Requests, NEW t \in Tokens \cup {NoToken},
           Arrive(r, t)
    PROVE  RotatedOnce'
    BY <1>0, <1>15 DEF TypeOK, MarkedFirst, Carries, RotatedOnce, Refreshing,
        Arrive, Begin
<1>16. ASSUME NEW r \in Requests, NEW t \in RefreshTokens,
           Refresh(r, t)
    PROVE  RotatedOnce'
    BY <1>0, <1>16 DEF TypeOK, MarkedFirst, Carries, RotatedOnce, Refreshing,
        Refresh, Begin
<1>17. ASSUME NEW r \in Requests, NEW t \in Tokens,
           Revoke(r, t)
    PROVE  RotatedOnce'
    BY <1>0, <1>17 DEF TypeOK, MarkedFirst, Carries, RotatedOnce, Refreshing,
        Revoke, Begin
<1>18. ASSUME NEW f \in Fetchers,
           FetchAnswered(f)
    PROVE  RotatedOnce'
    BY <1>0, <1>18 DEF TypeOK, MarkedFirst, Carries, RotatedOnce, Refreshing,
        FetchAnswered, Fetching, Resume
<1>19. ASSUME NEW f \in Fetchers,
           ReplaceKeys(f)
    PROVE  RotatedOnce'
    BY <1>0, <1>19 DEF TypeOK, MarkedFirst, Carries, RotatedOnce, Refreshing,
        ReplaceKeys, Fetching, Resume
<1>20. ASSUME NEW f \in Fetchers,
           FetchFailed(f)
    PROVE  RotatedOnce'
    BY <1>0, <1>20 DEF TypeOK, MarkedFirst, Carries, RotatedOnce, Refreshing,
        FetchFailed, Fetching, Resume
<1>21. CASE BackgroundWake \/ BackgroundFetch \/ Publish \/ Outage \/ Recovery
             \/ Tick \/ NextWindow
    BY <1>0, <1>21 DEF TypeOK, MarkedFirst, Carries, RotatedOnce, Refreshing,
        BackgroundWake, BackgroundFetch, Publish, Outage, Recovery, Tick, Older,
        Loaded, NextWindow
<1>22. ASSUME NEW k \in Retiring,
           Retire(k)
    PROVE  RotatedOnce'
    BY <1>0, <1>22 DEF TypeOK, MarkedFirst, Carries, RotatedOnce, Refreshing, Retire
<1>23. CASE UNCHANGED vars
    BY <1>0, <1>23 DEF TypeOK, MarkedFirst, Carries, RotatedOnce, Refreshing, vars
<1>24. CASE Forget
    BY <1>0, <1>24 DEF TypeOK, RotatedOnce, Forget,
        ForgetRevoked, ForgetUsed, ForgetFailures
<1> QED
    BY <1>1, <1>2, <1>3, <1>4, <1>5, <1>6, <1>7, <1>8, <1>9, <1>10, <1>11, <1>12,
        <1>13, <1>14, <1>15, <1>16, <1>17, <1>18, <1>19, <1>20, <1>21, <1>22, <1>23, <1>24
        DEF Next, Step, FetchStep, BackgroundStep, Fetchers

-----------------------------------------------------------------------------

\* The invariant holds throughout: it is inductive.
THEOREM Invariant == Spec => []IInv
<1>1. Init => IInv
    BY InitInvariant
<1>2. IInv /\ [Next]_vars => IInv'
    BY TypeStep, CarriesStep, LockStep, FreshStep, BlameStep, KeptOutStep, AdmittedStep,
       OverlapStep, MarkedStep, RotatedStep DEF IInv
<1> QED
    BY <1>1, <1>2, PTL DEF Spec

\* The variables keep their types.
THEOREM TypeCorrect == Spec => []TypeOK
<1>1. IInv => TypeOK
    BY DEF IInv
<1> QED
    BY <1>1, Invariant, PTL

\* An outage of the identity provider is never counted against the client of a
\* token that would be accepted.
THEOREM OutageCostsNothing == Spec => []OutageNotBlamed
<1>1. IInv => OutageNotBlamed
    BY DEF IInv, KeysSeen, OutageNotBlamed
<1> QED
    BY <1>1, Invariant, PTL

\* Whatever calls of the store fail, a revoked token is refused by every request
\* that begins after its revocation was answered, as long as the store has not lost
\* the marker, by eviction or at the token's exp.
THEOREM RevocationIsFinal == Spec => []RevokedStaysOut
<1>1. IInv => RevokedStaysOut
    BY DEF IInv
<1> QED
    BY <1>1, Invariant, PTL

\* Only overlapping requests exchange a refresh token twice, as long as the store
\* has not lost the marker of its use.
THEOREM RotationIsSingle == Spec => []RotatedOnce
<1>1. IInv => RotatedOnce
    BY DEF IInv
<1> QED
    BY <1>1, Invariant, PTL

\* Overlapping fetches never put back an older key set.
THEOREM KeySetMovesForward == Spec => KeySetNeverOlder
<1>1. IInv /\ [Next]_vars => [cached' >= cached]_vars
    <2> SUFFICES ASSUME IInv, [Next]_vars PROVE cached' >= cached
        OBVIOUS
    <2> USE AccessAssumption DEF idp, keySet, quiet
    <2>1. TypeOK /\ AnswerFresh
        BY DEF IInv
    <2>2. ASSUME NEW f \in Fetchers, ReplaceKeys(f)
          PROVE  cached' >= cached
        BY <2>1, <2>2 DEF ReplaceKeys, AnswerFresh, TypeOK
    <2>3. ASSUME UNCHANGED cached PROVE cached' >= cached
        BY <2>1, <2>3 DEF TypeOK
    <2>4. ASSUME NEW r \in Requests,
                 \/ \E t \in Tokens \cup {NoToken} : Arrive(r, t)
                 \/ \E t \in RefreshTokens : Refresh(r, t)
                 \/ \E t \in Tokens : Revoke(r, t)
                 \/ Login(r)
          PROVE  UNCHANGED cached
        BY <2>4 DEF Arrive, Refresh, Revoke, Login, Begin
    <2>5. ASSUME NEW r \in Requests,
                 \/ PreCheck(r) \/ Prepare(r) \/ LockAndCheck(r) \/ Verify(r)
                 \/ LookupRevocation(r) \/ CountFailure(r) \/ CheckUsed(r)
          PROVE  UNCHANGED cached
        BY <2>5 DEF PreCheck, Prepare, LockAndCheck, Verify, LookupRevocation, CountFailure,
               CheckUsed
    <2>6. ASSUME NEW r \in Requests,
                 \/ CheckRevoked(r) \/ MarkUsed(r) \/ IssuePair(r) \/ VerifyLogin(r)
                 \/ MarkRevoked(r) \/ MarkRevokedUsed(r) \/ Drop(r)
          PROVE  UNCHANGED cached
        BY <2>6 DEF CheckRevoked, MarkUsed, IssuePair, VerifyLogin, MarkRevoked,
               MarkRevokedUsed, Drop
    <2>7. ASSUME NEW f \in Fetchers, FetchAnswered(f) \/ FetchFailed(f)
          PROVE  UNCHANGED cached
        BY <2>7 DEF FetchAnswered, FetchFailed
    <2>8. CASE BackgroundWake \/ BackgroundFetch \/ Publish \/ Outage \/ Recovery \/ Tick
                 \/ NextWindow \/ Forget \/ (\E k \in Retiring : Retire(k)) \/ UNCHANGED vars
        BY <2>3, <2>8 DEF BackgroundWake, BackgroundFetch, Publish, Outage, Recovery, Tick,
               NextWindow, Forget, ForgetRevoked, ForgetUsed, ForgetFailures, Retire, vars
    <2> QED
        BY <2>2, <2>3, <2>4, <2>5, <2>6, <2>7, <2>8
           DEF Next, Step, FetchStep, BackgroundStep, Fetchers
<1> QED
    BY <1>1, Invariant, PTL DEF Spec, KeySetNeverOlder
=============================================================================
