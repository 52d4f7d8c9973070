--------------------------- MODULE ResolverProofs ---------------------------
(***************************************************************************)
(* Safety of DynamicResolver for any number of threads, any clock bound    *)
(* and any durations.  The inductive invariant says who may be where: only *)
(* the holder of the lock is in a load, a payload that is being recovered  *)
(* from did not conflict unless the wall clock stepped back, and as long   *)
(* as it did not, the cached snapshot is not in the future.                *)
(***************************************************************************)
EXTENDS Resolver, TLAPS

InLoad == {"loading", "checking", "recovering"}

OnlyHolderLoads == \A t \in Threads : phase[t] \in InLoad => holder = t

AnswerIsKnown ==
    \A t \in Threads : phase[t] \in {"checking", "recovering"} => answer \in Answers

CachedIsNotInFuture ==
    ~steppedBack /\ cached # NoSnapshot => cached.at <= now + MaxClockSkew

NoConflictInRecovery ==
    \A t \in Threads :
        phase[t] = "recovering" /\ ~steppedBack /\ Candidate # NoSnapshot
            => ~Conflicts(Candidate)

IInv ==
    /\ TypeOK
    /\ OnlyHolderLoads
    /\ AnswerIsKnown
    /\ EtagNamesCached
    /\ CachedIsNotInFuture
    /\ NoConflictInRecovery
----------------------------------------------------------------------------
(***************************************************************************)
(* What a load ended with, if it is known, is a snapshot to check or none. *)
(***************************************************************************)
LEMMA CandidateType ==
    ASSUME TypeOK, answer \in Answers
    PROVE  Candidate \in Snapshots \cup {NoSnapshot}
<1>1. CASE answer = Failure
  BY <1>1 DEF Candidate, Failure, NotModified
<1>2. CASE answer = NotModified
  BY <1>2 DEF Candidate, Failure, NotModified, TypeOK
<1>3. CASE \E s \in Snapshots : answer = Payload(s)
  <2>1. PICK s \in Snapshots : answer = Payload(s)
    BY <1>3
  <2>2. answer # Failure /\ answer # NotModified
    BY <2>1 DEF Payload, Failure, NotModified
  <2>3. Candidate = s
    BY <2>1, <2>2 DEF Candidate, Payload
  <2> QED
    BY <2>3
<1> QED
  BY <1>1, <1>2, <1>3 DEF Answers

(***************************************************************************)
(* A snapshot that is accepted neither rolls the cached one back nor       *)
(* equivocates: it is the cached one or it is later.                       *)
(***************************************************************************)
LEMMA AcceptedIsNoEarlier ==
    ASSUME TypeOK, NEW s \in Snapshots, cached # NoSnapshot, ~Conflicts(s)
    PROVE  s = cached \/ s.at > cached.at
<1>1. cached \in Snapshots
  BY DEF TypeOK
<1>2. s.at \in Nat /\ cached.at \in Nat
  BY <1>1, DurationsAreNat DEF Snapshots
<1> QED
  BY <1>2 DEF Conflicts

(***************************************************************************)
(* The initial states satisfy the invariant.                               *)
(***************************************************************************)
LEMMA InitEstablishes == Init => IInv
<1> SUFFICES ASSUME Init PROVE IInv
  OBVIOUS
<1>1. /\ MaxTime \in Nat /\ RefreshInterval \in Nat
      /\ 0 \in 0 .. MaxTime /\ RefreshInterval \in 0 .. RefreshInterval
  BY DurationsAreNat
<1>2. TypeOK
  BY <1>1 DEF Init, TypeOK
<1>3. \A t \in Threads : phase[t] = "idle"
  BY DEF Init
<1> QED
  BY <1>2, <1>3
  DEF Init, IInv, OnlyHolderLoads, AnswerIsKnown, EtagNamesCached,
      CachedIsNotInFuture, NoConflictInRecovery, InLoad

(***************************************************************************)
(* A call that returns leaves no thread in a load, so only what it did to  *)
(* the cache matters.                                                      *)
(***************************************************************************)
LEMMA ReturnPreserves ==
    ASSUME IInv, NEW t \in Threads, holder \in {t, NoThread},
           NEW s \in Snapshots \cup {NoSnapshot}, Return(t, s),
           UNCHANGED <<now, steppedBack, served>>, elapsed' \in 0 .. RefreshInterval,
           {cached', etag'} \subseteq Snapshots \cup {NoSnapshot},
           EtagNamesCached', CachedIsNotInFuture'
    PROVE  IInv'
<1>1. ASSUME NEW u \in Threads PROVE phase'[u] \notin InLoad
  <2>1. CASE u = t
    BY <2>1 DEF Return, IInv, TypeOK, InLoad
  <2>2. CASE u # t
    BY <2>2, NoThreadIsNoThread DEF Return, IInv, TypeOK, OnlyHolderLoads
  <2> QED
    BY <2>1, <2>2
<1>2. TypeOK'
  BY DEF Return, IInv, TypeOK
<1>3. OnlyHolderLoads' /\ AnswerIsKnown' /\ NoConflictInRecovery'
  BY <1>1 DEF OnlyHolderLoads, AnswerIsKnown, NoConflictInRecovery, InLoad
<1> QED
  BY <1>2, <1>3 DEF IInv

(***************************************************************************)
(* Every step preserves the invariant.                                     *)
(***************************************************************************)
LEMMA NextPreserves == IInv /\ [Next]_vars => IInv'
<1> SUFFICES ASSUME IInv, [Next]_vars PROVE IInv'
  OBVIOUS
<1> USE DEF InLoad
<1>1. ASSUME NEW t \in Threads, Call(t) PROVE IInv'
  <2>1. TypeOK'
    BY <1>1 DEF IInv, TypeOK, Call, clocks, cache
  <2>2. Candidate' = Candidate
    BY <1>1 DEF Call, Candidate, cache
  <2>3. \A u \in Threads : phase'[u] = phase[u] \/ phase'[u] = "waiting"
    BY <1>1 DEF Call, IInv, TypeOK
  <2> QED
    BY <1>1, <2>1, <2>2, <2>3
    DEF IInv, Call, clocks, cache, OnlyHolderLoads, AnswerIsKnown,
        EtagNamesCached, CachedIsNotInFuture, NoConflictInRecovery, Conflicts
<1>2. ASSUME NEW t \in Threads, ReturnCached(t) PROVE IInv'
  BY <1>2, ReturnPreserves
  DEF IInv, TypeOK, ReturnCached, clocks, cache, EtagNamesCached, CachedIsNotInFuture
<1>3. ASSUME NEW t \in Threads, NEW force \in BOOLEAN, StartLoad(t, force)
      PROVE  IInv'
  <2>1. TypeOK'
    BY <1>3, DurationsAreNat DEF IInv, TypeOK, StartLoad, cache
  <2>2. \A u \in Threads : phase[u] \notin InLoad
    BY <1>3, NoThreadIsNoThread DEF IInv, OnlyHolderLoads, StartLoad
  <2>3. \A u \in Threads :
            /\ phase'[u] \in InLoad => u = t
            /\ phase'[u] \notin {"checking", "recovering"}
    BY <1>3, <2>2 DEF StartLoad, IInv, TypeOK
  <2> QED
    BY <1>3, <2>1, <2>3
    DEF IInv, StartLoad, clocks, cache, OnlyHolderLoads, AnswerIsKnown,
        EtagNamesCached, CachedIsNotInFuture, NoConflictInRecovery
<1>4. ASSUME NEW t \in Threads, Load(t) PROVE IInv'
  <2>1. /\ holder = t
        /\ \A u \in Threads \ {t} : phase[u] \notin InLoad
    BY <1>4 DEF IInv, OnlyHolderLoads, Load
  <2>2. answer' \in Answers
    BY <1>4 DEF Load, Answers, IInv, TypeOK
  <2>3. TypeOK'
    BY <1>4, <2>2 DEF IInv, TypeOK, Load, clocks, cache
  <2>4. \A u \in Threads :
            /\ u = t => phase'[u] = "checking"
            /\ u # t => phase'[u] = phase[u]
    BY <1>4 DEF Load, IInv, TypeOK
  <2> QED
    BY <1>4, <2>1, <2>2, <2>3, <2>4
    DEF IInv, Load, clocks, cache, OnlyHolderLoads, AnswerIsKnown,
        EtagNamesCached, CachedIsNotInFuture, NoConflictInRecovery
<1>5. ASSUME NEW t \in Threads, Adopt(t) PROVE IInv'
  <2>1. /\ holder = t
        /\ Candidate \in Snapshots
        /\ Candidate.at <= now + MaxClockSkew
    BY <1>5, CandidateType, DurationsAreNat
    DEF IInv, OnlyHolderLoads, AnswerIsKnown, Adopt, Acceptable, InFuture, TypeOK,
        Snapshots
  <2>2. /\ {cached', etag'} \subseteq Snapshots \cup {NoSnapshot}
        /\ EtagNamesCached'
    <3>1. CASE answer = NotModified
      <4>1. Candidate = cached
        BY <3>1 DEF Candidate, Failure, NotModified
      <4> QED
        BY <1>5, <3>1, <4>1 DEF Adopt, IInv, TypeOK, EtagNamesCached
    <3>2. CASE answer # NotModified
      BY <1>5, <2>1, <3>2 DEF Adopt, EtagNamesCached
    <3> QED
      BY <3>1, <3>2
  <2>3. CachedIsNotInFuture'
    BY <1>5, <2>1 DEF Adopt, clocks, CachedIsNotInFuture
  <2> QED
    BY <1>5, <2>1, <2>2, <2>3, ReturnPreserves DEF Adopt, clocks, IInv, TypeOK
<1>6. ASSUME NEW t \in Threads, Refuse(t) PROVE IInv'
  <2>1. holder = t
    BY <1>6 DEF IInv, OnlyHolderLoads, Refuse
  <2> QED
    BY <1>6, <2>1, ReturnPreserves
    DEF IInv, TypeOK, Refuse, clocks, cache, EtagNamesCached, CachedIsNotInFuture
<1>7. ASSUME NEW t \in Threads, FailLoad(t) PROVE IInv'
  <2>1. holder = t /\ answer \in Answers
    BY <1>7 DEF IInv, OnlyHolderLoads, AnswerIsKnown, FailLoad
  <2>2. /\ UNCHANGED <<now, elapsed, steppedBack, cached, etag, served>>
        /\ UNCHANGED <<holder, answer, pinned>>
        /\ Candidate' = Candidate
    BY <1>7 DEF FailLoad, Candidate, clocks, cache
  <2>3. \A u \in Threads :
            /\ u = t => phase'[u] = "recovering"
            /\ u # t => phase'[u] = phase[u]
    BY <1>7 DEF FailLoad, IInv, TypeOK
  <2>4. ~steppedBack /\ Candidate # NoSnapshot => ~Conflicts(Candidate)
    <3> SUFFICES ASSUME ~steppedBack, Candidate # NoSnapshot, Conflicts(Candidate)
                 PROVE  FALSE
      OBVIOUS
    <3>1. Candidate \in Snapshots /\ cached \in Snapshots
      BY <2>1, CandidateType DEF IInv, TypeOK, Conflicts
    <3>2. InFuture(Candidate)
      BY <1>7 DEF FailLoad, LoadIsInError, Refused
    <3>3. Candidate.at <= cached.at
      BY <3>1 DEF Conflicts, Snapshots
    <3>4. cached.at <= now + MaxClockSkew
      BY DEF IInv, CachedIsNotInFuture, Conflicts
    <3> QED
      BY <3>1, <3>2, <3>3, <3>4, DurationsAreNat
      DEF InFuture, Snapshots, IInv, TypeOK
  <2>5. TypeOK'
    BY <1>7, <2>2 DEF FailLoad, IInv, TypeOK
  <2> QED
    BY <2>1, <2>2, <2>3, <2>4, <2>5
    DEF IInv, OnlyHolderLoads, AnswerIsKnown,
        EtagNamesCached, CachedIsNotInFuture, NoConflictInRecovery, Conflicts
<1>8. ASSUME NEW t \in Threads, ServeStale(t) PROVE IInv'
  <2>1. holder = t
    BY <1>8 DEF IInv, OnlyHolderLoads, ServeStale
  <2> QED
    BY <1>8, <2>1, ReturnPreserves
    DEF IInv, TypeOK, ServeStale, clocks, cache, EtagNamesCached,
        CachedIsNotInFuture
<1>9. ASSUME NEW t \in Threads, GiveUp(t) PROVE IInv'
  <2>1. holder = t
    BY <1>9 DEF IInv, OnlyHolderLoads, GiveUp
  <2> QED
    BY <1>9, <2>1, ReturnPreserves
    DEF IInv, TypeOK, GiveUp, clocks, cache, EtagNamesCached, CachedIsNotInFuture
<1>10. CASE Tick
  <2>1. TypeOK'
    BY <1>10, DurationsAreNat DEF Tick, IInv, TypeOK, cache, calls
  <2>2. CachedIsNotInFuture'
    BY <1>10, DurationsAreNat
    DEF Tick, IInv, TypeOK, cache, CachedIsNotInFuture, Snapshots
  <2>3. UNCHANGED <<steppedBack, cached, etag, served, holder, phase, answer>>
    BY <1>10 DEF Tick, cache, calls
  <2>4. Candidate' = Candidate
    BY <2>3 DEF Candidate
  <2> QED
    BY <2>1, <2>2, <2>3, <2>4
    DEF IInv, OnlyHolderLoads, AnswerIsKnown, EtagNamesCached,
        NoConflictInRecovery, Conflicts
<1>11. CASE SetClock
  <2>1. TypeOK'
    BY <1>11 DEF SetClock, IInv, TypeOK, cache, calls
  <2>2. CachedIsNotInFuture'
    <3>1. CASE steppedBack \/ now' < now
      BY <1>11, <3>1 DEF SetClock, CachedIsNotInFuture
    <3>2. CASE ~steppedBack /\ ~(now' < now)
      <4>1. cached' = cached /\ now <= now' /\ MaxClockSkew \in Nat
        BY <1>11, <3>2, DurationsAreNat DEF SetClock, cache, IInv, TypeOK
      <4>2. now \in Nat /\ now' \in Nat
        BY <1>11, DurationsAreNat DEF SetClock, IInv, TypeOK
      <4>3. cached # NoSnapshot => cached.at \in Nat /\ cached.at <= now + MaxClockSkew
        BY <3>2, DurationsAreNat
        DEF IInv, TypeOK, CachedIsNotInFuture, Snapshots
      <4> QED
        BY <4>1, <4>2, <4>3 DEF CachedIsNotInFuture
    <3> QED
      BY <3>1, <3>2
  <2>3. /\ UNCHANGED <<cached, etag, served, holder, phase, answer>>
        /\ ~steppedBack' => ~steppedBack
    BY <1>11 DEF SetClock, cache, calls
  <2>4. Candidate' = Candidate
    BY <2>3 DEF Candidate
  <2> QED
    BY <2>1, <2>2, <2>3, <2>4
    DEF IInv, OnlyHolderLoads, AnswerIsKnown, EtagNamesCached,
        NoConflictInRecovery, Conflicts
<1>12. CASE Serve
  <2>1. Candidate' = Candidate
    BY <1>12 DEF Serve, Candidate, cache, calls
  <2> QED
    BY <1>12, <2>1
    DEF Serve, clocks, cache, calls, IInv, TypeOK, OnlyHolderLoads, AnswerIsKnown,
        EtagNamesCached, CachedIsNotInFuture, NoConflictInRecovery, Conflicts
<1>13. CASE UNCHANGED vars
  <2>1. Candidate' = Candidate
    BY <1>13 DEF vars, Candidate, cache, calls
  <2> QED
    BY <1>13, <2>1
    DEF vars, clocks, cache, calls, IInv, TypeOK, OnlyHolderLoads, AnswerIsKnown,
        EtagNamesCached, CachedIsNotInFuture, NoConflictInRecovery, Conflicts
<1> QED
  BY <1>1, <1>2, <1>3, <1>4, <1>5, <1>6, <1>7, <1>8, <1>9, <1>10, <1>11, <1>12, <1>13
  DEF Next, Proceed

----------------------------------------------------------------------------
(***************************************************************************)
(* The invariant holds of every reachable state.                           *)
(***************************************************************************)
THEOREM IInvHolds == Spec => []IInv
<1>1. Init => IInv
  BY InitEstablishes
<1>2. IInv /\ [Next]_vars => IInv'
  BY NextPreserves
<1> QED
  BY <1>1, <1>2, PTL DEF Spec

(***************************************************************************)
(* The resolver's state is well formed (DynamicResolver's attributes).     *)
(***************************************************************************)
THEOREM TypeCorrect == Spec => []TypeOK
<1>1. IInv => TypeOK
  BY DEF IInv
<1> QED
  BY <1>1, IInvHolds, PTL

(***************************************************************************)
(* The etag that is sent to the source is that of the cached snapshot      *)
(* (_load keeps an etag only with the payload that passed every check).    *)
(***************************************************************************)
THEOREM EtagsNameCached == Spec => []EtagNamesCached
<1>1. IInv => EtagNamesCached
  BY DEF IInv
<1> QED
  BY <1>1, IInvHolds, PTL

(***************************************************************************)
(* No step that is not Adopt touches the cache.                            *)
(***************************************************************************)
LEMMA OnlyAdoptCaches ==
    ASSUME [Next]_vars
    PROVE  cached' = cached \/ \E t \in Threads : Adopt(t)
BY DEF Next, Proceed, vars, clocks, cache, calls, Call, ReturnCached, StartLoad,
       Load, Refuse, FailLoad, ServeStale, GiveUp, Tick, SetClock, Serve

(***************************************************************************)
(* Pins never regress (resolver.py, _check_monotonic_update): whatever the *)
(* source serves and the clock does, the cached snapshot is replaced only  *)
(* by one of a later generation.                                           *)
(***************************************************************************)
THEOREM PinsNeverRegressHolds == Spec => PinsNeverRegress
<1>1. ASSUME IInv, [Next]_vars, cached # NoSnapshot
      PROVE  cached' = cached \/ (cached' # NoSnapshot /\ cached'.at > cached.at)
  <2>1. CASE cached' = cached
    BY <2>1
  <2>2. CASE \E t \in Threads : Adopt(t)
    <3>1. PICK t \in Threads : Adopt(t)
      BY <2>2
    <3>2. Candidate \in Snapshots /\ ~Conflicts(Candidate) /\ cached' = Candidate
      BY <1>1, <3>1, CandidateType DEF Adopt, Acceptable, IInv, AnswerIsKnown
    <3>3. Candidate = cached \/ Candidate.at > cached.at
      BY <1>1, <3>2, AcceptedIsNoEarlier DEF IInv
    <3> QED
      BY <3>2, <3>3, NoSnapshotIsNoSnapshot
  <2> QED
    BY <1>1, <2>1, <2>2, OnlyAdoptCaches
<1>2. IInv /\ [Next]_vars =>
          [cached # NoSnapshot =>
              cached' = cached \/ (cached' # NoSnapshot /\ cached'.at > cached.at)]_vars
  BY <1>1
<1> QED
  BY <1>2, IInvHolds, PTL DEF Spec, PinsNeverRegress

----------------------------------------------------------------------------
\* A call that has not returned has not pinned anything.
NoPinBeforeReturn == \A t \in Threads : phase[t] # "idle" => pinned[t] = NoSnapshot

(***************************************************************************)
(* What each step does to what the threads have pinned.                    *)
(***************************************************************************)
LEMMA StepPins ==
    ASSUME TypeOK, [Next]_vars, NEW t \in Threads
    PROVE  \/ pinned'[t] = pinned[t] /\ (phase'[t] = phase[t] \/ phase[t] # "idle")
           \/ Call(t) \/ ReturnCached(t) \/ Adopt(t) \/ Refuse(t)
           \/ ServeStale(t) \/ GiveUp(t)
<1>1. ASSUME NEW u \in Threads, Call(u), u # t
      PROVE  pinned'[t] = pinned[t] /\ phase'[t] = phase[t]
  BY <1>1 DEF Call, TypeOK
<1>2. ASSUME NEW u \in Threads, u # t,
             ReturnCached(u) \/ Adopt(u) \/ Refuse(u) \/ ServeStale(u) \/ GiveUp(u)
      PROVE  pinned'[t] = pinned[t] /\ phase'[t] = phase[t]
  BY <1>2 DEF ReturnCached, Adopt, Refuse, ServeStale, GiveUp, Return, TypeOK
<1>3. ASSUME NEW u \in Threads,
             Load(u) \/ FailLoad(u) \/ \E force \in BOOLEAN : StartLoad(u, force)
      PROVE  pinned'[t] = pinned[t] /\ (phase'[t] = phase[t] \/ phase[t] # "idle")
  BY <1>3 DEF Load, FailLoad, StartLoad, TypeOK
<1>4. CASE Tick \/ SetClock \/ Serve \/ UNCHANGED vars
  BY <1>4 DEF Tick, SetClock, Serve, vars, calls
<1> QED
  BY <1>1, <1>2, <1>3, <1>4 DEF Next, Proceed

(***************************************************************************)
(* Nothing is pinned before the call returns (resolve() has one result).   *)
(***************************************************************************)
LEMMA NoPinBeforeReturnHolds == Spec => []NoPinBeforeReturn
<1>1. Init => NoPinBeforeReturn
  BY DEF Init, NoPinBeforeReturn
<1>2. ASSUME TypeOK, NoPinBeforeReturn, [Next]_vars PROVE NoPinBeforeReturn'
  <2> SUFFICES ASSUME NEW t \in Threads, phase'[t] # "idle"
               PROVE  pinned'[t] = NoSnapshot
    BY DEF NoPinBeforeReturn
  <2>1. CASE pinned'[t] = pinned[t] /\ (phase'[t] = phase[t] \/ phase[t] # "idle")
    BY <1>2, <2>1 DEF NoPinBeforeReturn
  <2>2. CASE Call(t)
    BY <1>2, <2>2 DEF Call, TypeOK
  <2>3. CASE ReturnCached(t) \/ Adopt(t) \/ Refuse(t) \/ ServeStale(t) \/ GiveUp(t)
    BY <1>2, <2>3 DEF ReturnCached, Adopt, Refuse, ServeStale, GiveUp, Return, TypeOK
  <2> QED
    BY <1>2, <2>1, <2>2, <2>3, StepPins
<1> QED
  BY <1>1, <1>2, TypeCorrect, PTL DEF Spec

(***************************************************************************)
(* What is fresh may also be served when a load fails.                     *)
(***************************************************************************)
LEMMA FreshIsUsable ==
    ASSUME TypeOK, NEW s \in Snapshots, Fresh(s)
    PROVE  StaleUsable(s)
<1>1. /\ s.at \in Nat /\ now \in Nat
      /\ Lifetime \in Nat /\ StaleIfError \in Nat
  BY DurationsAreNat, LifetimeIsPositive DEF Snapshots, TypeOK
<1> QED
  BY <1>1 DEF Fresh, StaleUsable

(***************************************************************************)
(* Pins are usable (resolver.py, resolve): every return path checks the    *)
(* age of its snapshot by the clock as it is after the load.               *)
(***************************************************************************)
THEOREM PinsAreUsableHolds == Spec => PinsAreUsable
<1>1. ASSUME IInv, [Next]_vars, NEW t \in Threads,
             pinned'[t] \notin {pinned[t], NoSnapshot}
      PROVE  StaleUsable(pinned'[t])
  <2> USE <1>1 DEF IInv
  <2>1. CASE Call(t) \/ Refuse(t) \/ GiveUp(t)
    BY <2>1 DEF Call, Refuse, GiveUp, Return, TypeOK
  <2>2. CASE ReturnCached(t)
    <3>1. pinned'[t] = cached /\ cached # NoSnapshot /\ Fresh(cached)
      BY <2>2 DEF ReturnCached, Return, RefreshDue, TypeOK
    <3> QED
      BY <3>1, FreshIsUsable DEF TypeOK
  <2>3. CASE Adopt(t)
    <3>1. pinned'[t] = Candidate /\ Candidate # NoSnapshot /\ Fresh(Candidate)
      BY <2>3 DEF Adopt, Return, Acceptable, TypeOK
    <3>2. Candidate \in Snapshots
      BY <2>3, <3>1, CandidateType DEF Adopt, AnswerIsKnown
    <3> QED
      BY <3>1, <3>2, FreshIsUsable
  <2>4. CASE ServeStale(t)
    BY <2>4 DEF ServeStale, Return, TypeOK
  <2> QED
    BY <2>1, <2>2, <2>3, <2>4, StepPins
<1>2. IInv /\ [Next]_vars =>
          [\A t \in Threads :
              pinned'[t] \notin {pinned[t], NoSnapshot} => StaleUsable(pinned'[t])]_vars
  BY <1>1
<1> QED
  BY <1>2, IInvHolds, PTL DEF Spec, PinsAreUsable

(***************************************************************************)
(* A conflict is raised (resolver.py, resolve): as long as the wall clock  *)
(* has not stepped back, a payload that rolls back or equivocates ends its *)
(* call without a snapshot, never with the last known good one.            *)
(***************************************************************************)
THEOREM ConflictIsRaisedHolds == Spec => ConflictIsRaised
<1>1. ASSUME IInv, NoPinBeforeReturn, [Next]_vars, NEW t \in Threads, holder = t,
             phase[t] \in {"checking", "recovering"},
             Candidate # NoSnapshot, Conflicts(Candidate), ~steppedBack
      PROVE  pinned'[t] = NoSnapshot
  <2> USE <1>1 DEF IInv
  <2>1. phase[t] = "checking" /\ pinned[t] = NoSnapshot
    BY DEF NoConflictInRecovery, NoPinBeforeReturn
  <2>2. ~(Call(t) \/ ReturnCached(t) \/ ServeStale(t) \/ GiveUp(t) \/ Adopt(t))
    BY <2>1 DEF Call, ReturnCached, ServeStale, GiveUp, Adopt, Acceptable
  <2>3. CASE Refuse(t)
    BY <2>3 DEF Refuse, Return, TypeOK
  <2> QED
    BY <2>1, <2>2, <2>3, StepPins
<1>2. IInv /\ NoPinBeforeReturn /\ [Next]_vars =>
          [\A t \in Threads :
              (holder = t /\ phase[t] \in {"checking", "recovering"}
                  /\ Candidate # NoSnapshot /\ Conflicts(Candidate) /\ ~steppedBack)
              => pinned'[t] = NoSnapshot]_vars
  BY <1>1
<1> QED
  BY <1>2, IInvHolds, NoPinBeforeReturnHolds, PTL DEF Spec, ConflictIsRaised
=============================================================================
