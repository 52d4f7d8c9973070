---------------------------- MODULE FeedMonitor ----------------------------
(***************************************************************************)
(* The monitors of public benchmark feeds, while the feeds move:           *)
(* inspect_swe_bench_feed of src/src/model_skyline/feed_monitor.py asks    *)
(* for the latest revision of a file, then for the file at that revision,  *)
(* then perhaps for the pinned file; inspect_arc_agi_feed of               *)
(* arc_feed_monitor.py asks once for the head of a dataset.                *)
(*                                                                         *)
(* Every fetch may fail: status, size, encoding, redirects and shape of a  *)
(* response are one outcome.                                               *)
(***************************************************************************)
EXTENDS Integers, Sequences

CONSTANTS
    Contents,       \* what the file can hold
    PinnedContent,  \* SWE_BENCH_WEBSITE_SHA256, ARC_AGI_HF_REVISION
    None,           \* nothing yet
    MaxRevision,    \* bound: revisions the upstream publishes
    MaxTime         \* bound: ticks of the clock

VARIABLES
    now,
    history,    \* the revisions so far: what the file holds and when it was pushed
    pin,        \* what the pinned address serves
    feed,       \* the monitor that runs: "swe_bench" or "arc_agi"
    pc,
    timestamp,  \* retrieved_at, taken before anything is fetched
    first,      \* how many revisions there were when the call began
    revision,   \* the revision reported
    content,    \* what was fetched for it
    change

vars == <<now, history, pin, feed, pc, timestamp, first, revision, content, change>>
upstream == <<now, history, pin>>

Init ==
    /\ now = 0
    /\ \E c \in Contents : history = <<[holds |-> c, at |-> 0]>>
    /\ pin \in Contents
    /\ feed \in {"swe_bench", "arc_agi"}
    /\ pc = "idle"
    /\ timestamp = None /\ first = None /\ revision = None /\ content = None /\ change = None

Tick ==
    /\ now < MaxTime /\ now' = now + 1
    /\ UNCHANGED <<history, pin, feed, pc, timestamp, first, revision, content, change>>

\* A dataset is pinned by its commit, which is not made twice; a file by its
\* bytes, which may come back.
Push(c) ==
    /\ Len(history) < MaxRevision
    /\ feed = "arc_agi" => \A i \in DOMAIN history : history[i].holds # c
    /\ history' = Append(history, [holds |-> c, at |-> now])
    /\ UNCHANGED <<now, pin, feed, pc, timestamp, first, revision, content, change>>

----------------------------------------------------------------------------
Call ==
    /\ pc = "idle" /\ pc' = "asking"
    /\ timestamp' = now /\ first' = Len(history)
    /\ UNCHANGED <<upstream, feed, revision, content, change>>

Fail ==
    /\ pc \in {"asking", "fetching", "verifying"} /\ pc' = "error"
    /\ UNCHANGED <<upstream, feed, timestamp, first, revision, content, change>>

\* _latest_file_revision.
AskRevision ==
    /\ feed = "swe_bench" /\ pc = "asking" /\ pc' = "fetching"
    /\ revision' = Len(history)
    /\ UNCHANGED <<upstream, feed, timestamp, first, content, change>>

\* Mutant: the file is fetched from the branch and not from the revision.
FetchHead ==
    /\ feed = "swe_bench" /\ pc = "fetching"
    /\ content' = history[Len(history)].holds
    /\ IF content' = PinnedContent
       THEN pc' = "done" /\ change' = "none"
       ELSE pc' = "verifying" /\ UNCHANGED change
    /\ UNCHANGED <<upstream, feed, timestamp, first, revision>>

\* The file at the revision, which never changes.  Pinned bytes are no change.
FetchFile ==
    /\ feed = "swe_bench" /\ pc = "fetching"
    /\ content' = history[revision].holds
    /\ IF content' = PinnedContent
       THEN pc' = "done" /\ change' = "none"
       ELSE pc' = "verifying" /\ UNCHANGED change
    /\ UNCHANGED <<upstream, feed, timestamp, first, revision>>

\* Mutant: the pinned file is taken as it comes.
TrustPinned ==
    /\ feed = "swe_bench" /\ pc = "verifying"
    /\ pc' = "done"
    /\ change' = IF pin = content THEN "none" ELSE "changed"
    /\ UNCHANGED <<upstream, feed, timestamp, first, revision, content>>

\* The change is classified against the pinned file, if that still verifies.
FetchPinned ==
    /\ feed = "swe_bench" /\ pc = "verifying"
    /\ IF pin = PinnedContent
       THEN pc' = "done" /\ change' = "changed"
       ELSE pc' = "error" /\ UNCHANGED change
    /\ UNCHANGED <<upstream, feed, timestamp, first, revision, content>>

\* The head of the dataset: a revision and when it was made.
FetchMetadata ==
    /\ feed = "arc_agi" /\ pc = "asking"
    /\ revision' = Len(history) /\ content' = history[Len(history)].holds
    /\ IF history[Len(history)].at > timestamp
       THEN pc' = "future" /\ UNCHANGED change
       ELSE /\ pc' = "done"
            /\ change' = IF content' = PinnedContent THEN "none" ELSE "changed"
    /\ UNCHANGED <<upstream, feed, timestamp, first>>

Next ==
    \/ Tick \/ \E c \in Contents : Push(c)
    \/ Call \/ Fail \/ AskRevision \/ FetchFile \/ FetchPinned \/ FetchMetadata

Spec == Init /\ [][Next]_vars

----------------------------------------------------------------------------
(***************************************************************************)
(* A status is of one moment during the call, although it takes several    *)
(* fetches: the revision was the latest at some point of it, and the bytes *)
(* are those of that revision.                                             *)
(***************************************************************************)
StatusIsOfOneMoment ==
    pc = "done" =>
        /\ revision \in first .. Len(history)
        /\ content = history[revision].holds

(***************************************************************************)
(* "No change" is said of the pinned bytes only, whatever the address of   *)
(* the pinned file serves by now, and nothing else is said of them.        *)
(***************************************************************************)
NoneMeansPinned == pc = "done" => (change = "none" <=> content = PinnedContent)
----------------------------------------------------------------------------
\* What makes them inductive: what each fetch has established.
MonitorInv ==
    /\ history \in Seq([holds : Contents, at : Nat]) /\ history # << >>
    /\ pc \in {"asking", "fetching", "verifying", "done", "error", "future"} =>
          first \in 1 .. Len(history)
    /\ pc \in {"fetching", "verifying", "done"} => revision \in first .. Len(history)
    /\ pc \in {"verifying", "done"} => content = history[revision].holds
    /\ pc = "verifying" => content # PinnedContent
    /\ now \in Nat
    /\ NoneMeansPinned
=============================================================================
