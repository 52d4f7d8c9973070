------------------------------ MODULE Resolver ------------------------------
(***************************************************************************)
(* DynamicResolver (src/src/model_skyline/resolver.py): threads pin a      *)
(* selection snapshot by calling resolve(), which refreshes one cached     *)
(* snapshot under a lock.  The lock is held across the load, while the     *)
(* wall clock runs (or is set) and the source changes what it serves.      *)
(***************************************************************************)
EXTENDS Integers

CONSTANTS
    Threads,         \* callers of resolve()
    Versions,        \* snapshot ids of one generation: more than one is equivocation
    MaxTime,         \* bound: the wall clock shows 0..MaxTime
    Lifetime,        \* snapshot_ttl_seconds: valid_until - generated_at
    RefreshInterval,
    StaleIfError,
    MaxClockSkew,
    NoThread, NoSnapshot, NoAnswer

ASSUME NoThreadIsNoThread == NoThread \notin Threads
ASSUME DurationsAreNat ==
    {MaxTime, RefreshInterval, StaleIfError, MaxClockSkew} \subseteq Nat
ASSUME LifetimeIsPositive == Lifetime \in Nat \ {0}

\* The selection snapshots that can be found at the source.
Snapshots == [at : 0 .. MaxTime, version : Versions]
ASSUME NoSnapshotIsNoSnapshot == NoSnapshot \notin Snapshots

\* What a load can end with: a payload that validates, one that does not (or a
\* transport error), or not-modified.
Failure == [kind |-> "failure"]
NotModified == [kind |-> "not modified"]
Payload(s) == [kind |-> "payload", snapshot |-> s]
Answers == {Failure, NotModified} \cup {Payload(s) : s \in Snapshots}

VARIABLES
    now,          \* the wall clock
    elapsed,      \* monotonic time since _last_attempt, up to RefreshInterval
    cached,       \* _cached
    etag,         \* _etag, as the snapshot the source gave it to
    served,       \* the snapshot at the source
    holder,       \* the thread that holds _lock
    phase,        \* where the call of each thread is
    answer,       \* what the load of the lock's holder ended with
    pinned,       \* what the last call of each thread returned
    steppedBack   \* history: the wall clock was set back

clocks == <<now, elapsed, steppedBack>>
cache == <<cached, etag>>
calls == <<holder, phase, answer, pinned>>
vars == <<clocks, cache, served, calls>>

Fresh(s) == now <= s.at + Lifetime
StaleUsable(s) == now <= s.at + Lifetime + StaleIfError
InFuture(s) == s.at > now + MaxClockSkew

\* Mutant: only an earlier generation is refused.
RollsBack(s) == cached # NoSnapshot /\ s.at < cached.at

\* _check_monotonic_update: a rollback, or an equivocation.
Conflicts(s) ==
    cached # NoSnapshot /\ (s.at < cached.at \/ (s.at = cached.at /\ s # cached))

RefreshDue ==
    \/ ~(cached # NoSnapshot /\ Fresh(cached))
    \/ elapsed >= RefreshInterval

----------------------------------------------------------------------------
Init ==
    /\ now = 0
    /\ elapsed = RefreshInterval
    /\ cached = NoSnapshot
    /\ etag = NoSnapshot
    /\ served \in Snapshots
    /\ holder = NoThread
    /\ phase = [t \in Threads |-> "idle"]
    /\ answer = NoAnswer
    /\ pinned = [t \in Threads |-> NoSnapshot]
    /\ steppedBack = FALSE

\* t returns s, or raises if s is NoSnapshot; the lock, if it has it, is released.
Return(t, s) ==
    /\ phase' = [phase EXCEPT ![t] = "idle"]
    /\ pinned' = [pinned EXCEPT ![t] = s]
    /\ holder' = NoThread
    /\ answer' = NoAnswer

\* A work unit begins and asks for its snapshot.
Call(t) ==
    /\ phase[t] = "idle"
    /\ phase' = [phase EXCEPT ![t] = "waiting"]
    /\ pinned' = [pinned EXCEPT ![t] = NoSnapshot]
    /\ UNCHANGED <<clocks, cache, served, holder, answer>>

ReturnCached(t) ==
    /\ phase[t] = "waiting" /\ holder = NoThread
    /\ ~RefreshDue
    /\ Return(t, cached)
    /\ UNCHANGED <<clocks, cache, served>>

\* The attempt counts from its start, whatever becomes of it.
StartLoad(t, force_refresh) ==
    /\ phase[t] = "waiting" /\ holder = NoThread
    /\ force_refresh \/ RefreshDue
    /\ holder' = t
    /\ phase' = [phase EXCEPT ![t] = "loading"]
    /\ elapsed' = 0
    /\ UNCHANGED <<now, steppedBack, cache, served, answer, pinned>>

(***************************************************************************)
(* The source answers the etag it is sent, or a proxy before it does       *)
(* without one.                                                            *)
(***************************************************************************)
Load(t) ==
    /\ phase[t] = "loading"
    /\ answer' \in {Failure, Payload(served)}
                       \cup (IF etag \in {served, NoSnapshot}
                             THEN {NotModified} ELSE {})
    /\ phase' = [phase EXCEPT ![t] = "checking"]
    /\ UNCHANGED <<clocks, cache, served, holder, pinned>>

\* The snapshot to check: not-modified confirms the cached one, if there is one.
Candidate ==
    IF answer = Failure THEN NoSnapshot
    ELSE IF answer = NotModified THEN cached
    ELSE answer.snapshot

\* The checks are made in this order: future, monotonic, fresh.
Acceptable(s) == ~InFuture(s) /\ ~Conflicts(s) /\ Fresh(s)
Refused(s) == ~InFuture(s) /\ Conflicts(s)
LoadIsInError ==
    Candidate # NoSnapshot => ~Acceptable(Candidate) /\ ~Refused(Candidate)

Adopt(t) ==
    /\ phase[t] = "checking"
    /\ Candidate # NoSnapshot /\ Acceptable(Candidate)
    /\ cached' = Candidate
    \* a server need not send an etag with a payload
    /\ etag' \in IF answer = NotModified THEN {etag} ELSE {Candidate, NoSnapshot}
    /\ Return(t, Candidate)
    /\ UNCHANGED <<clocks, served>>

\* Mutant: the exception leaves the lock taken.
RefuseLocked(t) ==
    /\ phase[t] = "checking"
    /\ Candidate # NoSnapshot /\ Refused(Candidate)
    /\ phase' = [phase EXCEPT ![t] = "idle"]
    /\ UNCHANGED <<clocks, cache, served, holder, answer, pinned>>

\* Mutant: the conflict is an error like any other.
RefuseAsError(t) ==
    /\ phase[t] = "checking"
    /\ Candidate # NoSnapshot /\ Refused(Candidate)
    /\ phase' = [phase EXCEPT ![t] = "recovering"]
    /\ UNCHANGED <<clocks, cache, served, holder, answer, pinned>>

\* _ResolverMonotonicityError is raised to the caller.
Refuse(t) ==
    /\ phase[t] = "checking"
    /\ Candidate # NoSnapshot /\ Refused(Candidate)
    /\ Return(t, NoSnapshot)
    /\ UNCHANGED <<clocks, cache, served>>

\* Mutant: the etag of a rejected payload is kept.
FailKeepingEtag(t) ==
    /\ phase[t] = "checking"
    /\ LoadIsInError
    /\ phase' = [phase EXCEPT ![t] = "recovering"]
    /\ etag' = IF Candidate = NoSnapshot THEN etag ELSE Candidate
    /\ UNCHANGED <<clocks, cached, served, holder, answer, pinned>>

\* Any other error is not raised yet.
FailLoad(t) ==
    /\ phase[t] = "checking"
    /\ LoadIsInError
    /\ phase' = [phase EXCEPT ![t] = "recovering"]
    /\ UNCHANGED <<clocks, cache, served, holder, answer, pinned>>

\* Mutant: the clock is not read again after the load.
ServeAnyStale(t) ==
    /\ phase[t] = "recovering"
    /\ cached # NoSnapshot
    /\ Return(t, cached)
    /\ UNCHANGED <<clocks, cache, served>>

\* The last known good snapshot, by a clock that is read again.
ServeStale(t) ==
    /\ phase[t] = "recovering"
    /\ cached # NoSnapshot /\ StaleUsable(cached)
    /\ Return(t, cached)
    /\ UNCHANGED <<clocks, cache, served>>

GiveUp(t) ==
    /\ phase[t] = "recovering"
    /\ ~(cached # NoSnapshot /\ StaleUsable(cached))
    /\ Return(t, NoSnapshot)
    /\ UNCHANGED <<clocks, cache, served>>

----------------------------------------------------------------------------
\* Time passes on both clocks.
Tick ==
    /\ now < MaxTime
    /\ now' = now + 1
    /\ elapsed' = IF elapsed < RefreshInterval THEN elapsed + 1 ELSE elapsed
    /\ UNCHANGED <<steppedBack, cache, served, calls>>

\* Mutant: the time since the last attempt is read off the wall clock.
SetBothClocks ==
    /\ now' \in 0 .. MaxTime
    /\ elapsed' = IF elapsed + now' - now < RefreshInterval
                  THEN elapsed + now' - now
                  ELSE RefreshInterval
    /\ steppedBack' = (steppedBack \/ now' < now)
    /\ UNCHANGED <<cache, served, calls>>

\* The wall clock is corrected; the monotonic clock does not see it.
SetClock ==
    /\ now' \in 0 .. MaxTime
    /\ steppedBack' = (steppedBack \/ now' < now)
    /\ UNCHANGED <<elapsed, cache, served, calls>>

\* The source serves another snapshot, newer or not.
Serve ==
    /\ served' \in Snapshots
    /\ UNCHANGED <<clocks, cache, calls>>

\* What a thread does while it holds the lock.
Proceed(t) ==
    Load(t) \/ Adopt(t) \/ Refuse(t) \/ FailLoad(t) \/ ServeStale(t) \/ GiveUp(t)

Next ==
    \/ \E t \in Threads :
          \/ Call(t) \/ ReturnCached(t)
          \/ \E force_refresh \in BOOLEAN : StartLoad(t, force_refresh)
          \/ Proceed(t)
    \/ Tick \/ SetClock \/ Serve

\* Loads end: the built-in loader has a timeout and a bound on the bytes it reads.
Spec == Init /\ [][Next]_vars /\ \A t \in Threads : WF_vars(Proceed(t))

----------------------------------------------------------------------------
TypeOK ==
    /\ now \in 0 .. MaxTime
    /\ elapsed \in 0 .. RefreshInterval
    /\ {cached, etag} \subseteq Snapshots \cup {NoSnapshot}
    /\ served \in Snapshots
    /\ holder \in Threads \cup {NoThread}
    /\ phase \in [Threads -> {"idle", "waiting", "loading", "checking", "recovering"}]
    /\ answer \in Answers \cup {NoAnswer}
    /\ pinned \in [Threads -> Snapshots \cup {NoSnapshot}]
    /\ steppedBack \in BOOLEAN

(***************************************************************************)
(* No caller is moved to an earlier generation, or to another snapshot of  *)
(* the generation it has seen, whatever the source and the clock do.       *)
(***************************************************************************)
PinsNeverRegress ==
    [][cached # NoSnapshot =>
          cached' = cached \/ (cached' # NoSnapshot /\ cached'.at > cached.at)]_vars

(***************************************************************************)
(* At the moment resolve() returns a snapshot, however long the load took, *)
(* the snapshot has not outlived valid_until + stale_if_error.             *)
(***************************************************************************)
PinsAreUsable ==
    [][\A t \in Threads :
          pinned'[t] \notin {pinned[t], NoSnapshot} => StaleUsable(pinned'[t])]_vars

(***************************************************************************)
(* Not-modified confirms the cached snapshot and nothing else: the etag    *)
(* that the source compares was never that of a rejected payload.          *)
(***************************************************************************)
EtagNamesCached == etag # NoSnapshot => etag = cached

(***************************************************************************)
(* A rollback or an equivocation is never hidden behind the last known     *)
(* good snapshot: the comment in resolve() says so of every one, and it    *)
(* holds as long as the wall clock is not set back.                        *)
(***************************************************************************)
ConflictIsNeverHidden ==
    [][\A t \in Threads :
          (holder = t /\ phase[t] \in {"checking", "recovering"}
              /\ Candidate # NoSnapshot /\ Conflicts(Candidate))
          => pinned'[t] = NoSnapshot]_vars

ConflictIsRaised ==
    [][\A t \in Threads :
          (holder = t /\ phase[t] \in {"checking", "recovering"}
              /\ Candidate # NoSnapshot /\ Conflicts(Candidate) /\ ~steppedBack)
          => pinned'[t] = NoSnapshot]_vars

\* Whatever a load ends with, the lock is released for the other callers.
LockIsReleased == \A t \in Threads : holder = t ~> holder # t
=============================================================================
