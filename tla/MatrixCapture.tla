--------------------------- MODULE MatrixCapture ---------------------------
(***************************************************************************)
(* A matrix of requests to a local inference server, and the measurements  *)
(* that are made of it: openai_matrix.py and normalize_openai_matrix.py of *)
(* src/examples/local-runtime-frontiers.                                   *)
(*                                                                         *)
(* While a response is streamed a thread samples the memory of the server, *)
(* which other clients may use too.  A sample may fail, and so may a query *)
(* of the server's statistics.  One position of the matrix is kept, and of *)
(* a response what is reported of it: whether the model was loaded first,  *)
(* cached tokens, and whether the answer is right.                         *)
(***************************************************************************)
EXTENDS Integers, Sequences, FiniteSets, FiniteSetsExt

CONSTANTS
    None,
    Plans,          \* bound: mode, repetitions, prefix cache, statistics, tokenizer, target
    Header,         \* characters of a prompt without filler
    Floor,          \* the characters that a calibration begins with
    MaxMemory,      \* bound: memory of the server
    MaxNoise        \* bound: queries that fail, usage that is missing or unlike the plan,
                    \* events of memory and of other clients, times the repetitions

VARIABLES
    plan,
    server,     \* its memory, its counter of requests, whose was the last
    request,    \* locals of _calibrate_retrieval_prompt and _stream_request
    sampler,    \* _ProcessMemorySampler: its thread and its peak
    rows,       \* results
    output,     \* measurements that were written, by cache state
    noise       \* what MaxNoise bounds

vars == <<plan, server, request, sampler, rows, output, noise>>

\* Something happens that the bound counts.
Noise(happens) == noise' = noise + (IF happens THEN plan.repetitions ELSE 0) /\ noise' <= MaxNoise

Larger(a, b) == IF a = None THEN b ELSE IF b = None THEN a ELSE IF a > b THEN a ELSE b

----------------------------------------------------------------------------
(***************************************************************************)
(* The prompt: the shortest with enough tokens, by doubling and halving.   *)
(***************************************************************************)
Length(characters) == Larger(characters, Header)
Tokens(characters) == (Length(characters) * plan.rate) \div 4

Calibrates == plan.mode = "retrieval"

\* Mutant: the last that was tried.
BestTried(middle) == middle

Best(middle) == IF Tokens(middle) >= plan.target THEN middle ELSE request.best

Double ==
    /\ request.pc = "double" /\ UNCHANGED <<plan, server, sampler, rows, output, noise>>
    /\ request' =
         IF Tokens(request.high) < plan.target
         THEN [request EXCEPT !.low = request.high + 1, !.high = 2 * @]
         ELSE [request EXCEPT !.pc = "halve", !.best = request.high]

Halve ==
    /\ request.pc = "halve" /\ UNCHANGED <<plan, server, sampler, rows, output, noise>>
    /\ LET middle == (request.low + request.high) \div 2
       IN  request' =
             IF request.low > request.high THEN [request EXCEPT !.pc = "ready"]
             ELSE IF Tokens(middle) >= plan.target
             THEN [request EXCEPT !.best = Best(middle), !.high = middle - 1]
             ELSE [request EXCEPT !.best = Best(middle), !.low = middle + 1]

----------------------------------------------------------------------------
(***************************************************************************)
(* One request.                                                            *)
(***************************************************************************)
Init ==
    /\ plan \in Plans
    /\ server = [memory |-> 1, requests |-> 0, last |-> "other", cached |-> FALSE]
    /\ request = [pc |-> IF Calibrates THEN "double" ELSE "ready",
                  low |-> 1, high |-> Larger(4 * plan.target, Floor), best |-> None,
                  before |-> None, first |-> None, loading |-> 0, cached |-> None, answer |-> None,
                  least |-> None, most |-> None, joined |-> FALSE]
    /\ sampler = [pc |-> "off", stopped |-> FALSE, peak |-> None, seen |-> FALSE]
    /\ rows = << >> /\ output = [pc |-> "none", written |-> {}] /\ noise = 0

\* The counter of requests, where the server has statistics and the query does not
\* fail.
Statistics(requests) ==
    /\ requests # None => plan.statistics
    /\ Noise(plan.statistics /\ requests = None)

\* Statistics are read, the sampler is started.
Begin(before) ==
    /\ request.pc = "ready" /\ Len(rows) < plan.repetitions
    /\ request' = [request EXCEPT !.pc = "stream", !.before = before, !.first = None,
                      !.loading = 0, !.cached = None, !.answer = None,
                      !.least = server.memory, !.most = server.memory]
    /\ sampler' = [pc |-> "sample", stopped |-> FALSE, peak |-> None, seen |-> FALSE]
    /\ Statistics(before)
    /\ UNCHANGED <<plan, server, rows, output>>

\* A proxy reports in the content that it loads the model.
Load ==
    /\ request.pc = "stream" /\ request.first = None
    /\ request' = [request EXCEPT !.first = "loading", !.loading = @ + 1]
    /\ UNCHANGED <<plan, server, sampler, rows, output, noise>>

\* The answer, with the usage at its end unless the stream breaks off; the server
\* counts the request.
Answer(answer, cached) ==
    /\ request.pc = "stream" /\ request.answer = None
    /\ cached = 1 => server.cached
    /\ request' = [request EXCEPT !.first = IF @ = None THEN "model" ELSE @, !.answer = answer,
                      !.cached = cached]
    /\ server' = [server EXCEPT !.requests = @ + 1, !.last = "own", !.cached = TRUE]
    /\ Noise(cached # IF plan.cache /\ server.cached THEN 1 ELSE 0)
    /\ UNCHANGED <<plan, sampler, rows, output>>

\* The stream ends, before the answer too; with an error or with no content the
\* program ends.
Complete ==
    /\ request.pc = "stream"
    /\ \E pc \in {"join", "crashed"} :
          /\ request.first = None => pc = "crashed"
          /\ request' = [request EXCEPT !.pc = pc]
    /\ sampler' = [sampler EXCEPT !.stopped = TRUE]
    /\ UNCHANGED <<plan, server, rows, output, noise>>

\* stop() waits for the thread for six seconds, its queries may take five each.
Join ==
    /\ request.pc = "join" /\ sampler.pc = "ended"
    /\ request' = [request EXCEPT !.pc = "stopped", !.joined = TRUE]
    /\ UNCHANGED <<plan, server, sampler, rows, output, noise>>

GiveUp ==
    /\ request.pc = "join" /\ sampler.pc # "ended"
    /\ request' = [request EXCEPT !.pc = "stopped", !.joined = FALSE]
    /\ UNCHANGED <<plan, server, sampler, rows, output, noise>>

Right == request.answer = "exact"

Record(after) ==
    /\ request.pc = "stopped"
    /\ rows' = Append(rows,
         [cached |-> request.cached, loading |-> request.loading, first |-> request.first,
          exact |-> Right, present |-> request.answer \in {"exact", "inside"},
          peak |-> sampler.peak, seen |-> sampler.seen,
          before |-> request.before, after |-> after, last |-> server.last,
          least |-> request.least, most |-> request.most, joined |-> request.joined])
    /\ request' = [request EXCEPT !.pc = "ready"]
    /\ Statistics(after)
    /\ UNCHANGED <<plan, server, sampler, output>>

----------------------------------------------------------------------------
(***************************************************************************)
(* The thread of the sampler.                                              *)
(***************************************************************************)
\* _record; a query that fails, or finds no process, gives a sample of 0.
Took(memory) == [sampler EXCEPT !.peak = Larger(@, memory), !.seen = @ \/ memory # 0]

\* Mutant: the loop ends as soon as it is told to.
SampleLoopOnly(memory) ==
    /\ sampler.pc = "sample"
    /\ sampler' = IF sampler.stopped THEN [sampler EXCEPT !.pc = "ended"] ELSE Took(memory)

\* A sample, and one more after it is told to stop.
Sample(memory) ==
    /\ sampler.pc = "sample"
    /\ sampler' = IF sampler.stopped THEN [Took(memory) EXCEPT !.pc = "ended"] ELSE Took(memory)

SampleMemory(memory) ==
    /\ request.pc \in {"stream", "join"} /\ Sample(memory) /\ Noise(memory = 0)
    /\ UNCHANGED <<plan, server, request, rows, output>>

----------------------------------------------------------------------------
(***************************************************************************)
(* The measurements: a record of each cache state, one after the other.    *)
(***************************************************************************)
State(row) == IF ~plan.cache THEN "disabled" ELSE IF row.cached > 0 THEN "warm" ELSE "miss"

Group(state) == {i \in DOMAIN rows : State(rows[i]) = state}

\* Mutant: rows with the text of a proxy are evidence.
LoadingIsEvidence == TRUE

NothingLoaded == \A i \in DOMAIN rows : rows[i].loading = 0

\* A response whose usage is missing, or contradicts the runtime, is no evidence.
UsageIsGiven == \A i \in DOMAIN rows : rows[i].cached # None /\ (plan.cache \/ rows[i].cached = 0)

CountedBefore(row) == IF row.before = None THEN 0 ELSE row.before

\* Mutant: others may have used the server.
Advanced(row) == row.after > CountedBefore(row)

\* The counter of the server advanced exactly once; one that was not read was 0.
AdvancedOnce(row) == row.after = CountedBefore(row) + 1

\* _speculative_acceptance: the rows are checked in order, up to the first whose
\* statistics are missing.
Checked(group) == {i \in group : \A j \in group : j <= i => rows[j].after # None}

Acceptance(group) ==
    IF Checked(group) = group THEN [i \in group |-> rows[i].last] ELSE None

\* Mutant: of the answers that hold the value.
OfPresent(group) ==
    [passed |-> Cardinality({i \in group : rows[i].exact}),
     total |-> Cardinality({i \in group : rows[i].present})]

\* _retrieval_integrity, _tool_integrity
Integrity(group) ==
    [passed |-> Cardinality({i \in group : rows[i].exact}), total |-> Cardinality(group)]

\* The values of a metric, if all rows have it.
Metric(values) == IF \E i \in DOMAIN values : values[i] = None THEN None ELSE values

Measurement(state) ==
    LET group == Group(state)
    IN  [state |-> state, repetitions |-> Cardinality(group), outputs |-> group,
         integrity |-> Integrity(group),
         peaks |-> Metric([i \in group |-> rows[i].peak]),
         acceptance |-> Acceptance(group)]

Finish ==
    /\ output.pc = "none" /\ request.pc = "ready" /\ Len(rows) = plan.repetitions
    /\ output' = [output EXCEPT !.pc = IF NothingLoaded /\ UsageIsGiven THEN "writing" ELSE "refused"]
    /\ UNCHANGED <<plan, server, request, sampler, rows, noise>>

\* In the order of the states' names; what was written before an error stays.
Normalize(state) ==
    /\ output.pc = "writing" /\ Group(state) # {}
    /\ \A r \in output.written : r.state # state
    /\ state = "warm" => Group("miss") = {} \/ \E r \in output.written : r.state = "miss"
    /\ output' = IF \A i \in Checked(Group(state)) : AdvancedOnce(rows[i])
                 THEN [output EXCEPT !.written = @ \cup {Measurement(state)}]
                 ELSE [output EXCEPT !.pc = "refused"]
    /\ UNCHANGED <<plan, server, request, sampler, rows, noise>>

Normalized ==
    /\ output.pc = "writing"
    /\ \A i \in DOMAIN rows : \E r \in output.written : r.state = State(rows[i])
    /\ output' = [output EXCEPT !.pc = "done"]
    /\ UNCHANGED <<plan, server, request, sampler, rows, noise>>

----------------------------------------------------------------------------
\* The server allocates; another client uses it.
Allocate(memory) ==
    /\ request.pc \in {"stream", "join"} /\ memory # server.memory
    /\ server' = [server EXCEPT !.memory = memory]
    /\ request' = [request EXCEPT !.least = Min({@, memory}), !.most = Max({@, memory})]
    /\ Noise(TRUE) /\ UNCHANGED <<plan, sampler, rows, output>>

Interfere ==
    /\ request.pc \in {"ready", "stream", "stopped", "join"} /\ Len(rows) < plan.repetitions
    /\ server' = [server EXCEPT !.requests = @ + 1, !.last = "other"]
    /\ Noise(TRUE) /\ UNCHANGED <<plan, request, sampler, rows, output>>

Next ==
    \/ Double \/ Halve \/ Load \/ Complete \/ Join \/ GiveUp
    \/ \E requests \in {None, server.requests} : Begin(requests) \/ Record(requests)
    \/ \E answer \in {"exact", "inside", "wrong"}, cached \in {None, 0, 1} :
          Answer(answer, cached)
    \/ \E memory \in {0, server.memory} : SampleMemory(memory)
    \/ Finish \/ Normalized
    \/ \E state \in {"disabled", "miss", "warm"} : Normalize(state)
    \/ Interfere
    \/ \E memory \in 1 .. MaxMemory : Allocate(memory)

Spec == Init /\ [][Next]_vars

----------------------------------------------------------------------------
(***************************************************************************)
(* A peak is of its request: between the least and the most memory that    *)
(* the server had meanwhile if one sample at least succeeded, and 0 if     *)
(* none did; and it is unknown only if the thread of the sampler was not   *)
(* waited for.                                                             *)
(***************************************************************************)
PeakIsOfRequest ==
    \A i \in DOMAIN rows :
        /\ rows[i].peak = None => ~rows[i].joined
        /\ rows[i].peak # None =>
              IF rows[i].seen
              THEN rows[i].least <= rows[i].peak /\ rows[i].peak <= rows[i].most
              ELSE rows[i].peak = 0

(***************************************************************************)
(* What is written is of the model alone, not of its loading; and what is  *)
(* written of the server's statistics is of the requests of this client,   *)
(* not of others that used the server meanwhile.  Where the server gave    *)
(* none the measurement has none, and others may have used it.             *)
(***************************************************************************)
WrittenIsOwn ==
    \A r \in output.written :
        /\ r.acceptance # None => \A i \in Group(r.state) : r.acceptance[i] = "own"
        /\ \A i \in Group(r.state) : rows[i].first = "model"

(***************************************************************************)
(* Each repetition is in one measurement, of its cache state, and counts   *)
(* there whatever its answer was.                                          *)
(***************************************************************************)
EveryRepetitionCounts ==
    /\ \A r \in output.written :
          /\ r.integrity.total = r.repetitions
          /\ r.repetitions = Cardinality(r.outputs)
          /\ r.integrity.passed = Cardinality({i \in Group(r.state) : rows[i].exact})
    /\ output.pc = "done" =>
          \A i \in 1 .. plan.repetitions : \E r \in output.written :
              /\ i \in r.outputs
              /\ \A q \in output.written \ {r} : i \notin q.outputs

(***************************************************************************)
(* A calibrated prompt has enough tokens, and none that is shorter has.    *)
(***************************************************************************)
PromptIsShortest ==
    Calibrates /\ request.pc \notin {"double", "halve"} =>
        /\ Tokens(request.best) >= plan.target
        /\ \A n \in Header .. Length(request.best) - 1 : Tokens(n) < plan.target
----------------------------------------------------------------------------
\* What the proofs take of the constants, and what makes the properties inductive.
MatrixIsPossible ==
    /\ None \notin Int \cup {"loading", "model", "exact", "inside", "wrong"}
    /\ Header \in Nat \ {0} /\ Floor \in Nat /\ MaxMemory \in Nat
    /\ \A p \in Plans : p.rate \in Nat /\ p.target \in Nat

MatrixIsTyped ==
    /\ plan \in Plans
    /\ DOMAIN request = {"pc", "low", "high", "best", "before", "first", "loading", "cached",
                         "answer", "least", "most", "joined"}
    /\ DOMAIN sampler = {"pc", "stopped", "peak", "seen"} /\ DOMAIN output = {"pc", "written"}
    /\ DOMAIN server = {"memory", "requests", "last", "cached"}
    /\ server.memory \in Nat /\ server.requests \in Nat
    /\ rows \in Seq({rows[i] : i \in DOMAIN rows})

\* What is below the bounds is too short, and the best is the upper one or next to it.
Calibration ==
    /\ request.pc \in {"double", "halve"} => Calibrates
    /\ Calibrates /\ request.pc \in {"double", "halve"} =>
          /\ request.low \in Int /\ request.high \in Int
          /\ \A n \in Header .. request.low - 1 : Tokens(n) < plan.target
    /\ Calibrates /\ request.pc = "halve" =>
          /\ request.best \in Int /\ Tokens(request.best) >= plan.target
          /\ request.best - 1 <= request.high /\ request.high <= request.best
    /\ PromptIsShortest

\* The memory and the counter of the server since the request began.
Requested ==
    /\ request.pc \in {"stream", "join"} =>
          request.least <= server.memory /\ server.memory <= request.most
    /\ request.pc \in {"stream", "join", "stopped"} =>
          /\ request.before \in Nat \cup {None} /\ request.least \in Nat /\ request.most \in Nat
          /\ sampler.peak # None =>
                /\ sampler.peak \in Nat /\ sampler.peak <= request.most
                /\ IF sampler.seen THEN request.least <= sampler.peak ELSE sampler.peak = 0
          /\ sampler.peak = None => ~sampler.seen
          /\ sampler.pc = "ended" => sampler.peak # None
          /\ server.requests >= CountedBefore(request) + (IF request.answer = None THEN 0 ELSE 1)
          /\ request.answer # None /\ server.requests = CountedBefore(request) + 1
                => server.last = "own"
          /\ request.first \in {None, "loading", "model"} /\ request.loading \in Nat
          /\ request.first = "loading" <=> request.loading # 0
          /\ request.first = "model" => request.answer # None
    /\ request.pc \in {"join", "stopped"} => request.first # None
    /\ request.pc = "stopped" /\ request.joined => sampler.peak # None

RowsAreOwn ==
    /\ PeakIsOfRequest
    /\ \A i \in DOMAIN rows : rows[i].loading = 0 =>
          rows[i].first = "model" /\ (AdvancedOnce(rows[i]) => rows[i].last = "own")

WrittenIsOfRows ==
    /\ output.pc # "none" => request.pc = "ready" /\ Len(rows) = plan.repetitions
    /\ output.pc = "none" => output.written = {}
    /\ output.pc \in {"writing", "done"} \/ output.written # {} => NothingLoaded
    /\ \A r \in output.written :
          /\ r = Measurement(r.state)
          /\ \A i \in Checked(Group(r.state)) : AdvancedOnce(rows[i])
    /\ output.pc = "done" =>
          \A i \in DOMAIN rows : \E r \in output.written : r.state = State(rows[i])

MatrixInv == MatrixIsTyped /\ Calibration /\ Requested /\ RowsAreOwn /\ WrittenIsOfRows
=============================================================================
