--------------------------- MODULE MemoryCapture ---------------------------
(***************************************************************************)
(* Sampling the memory of a local inference service:                       *)
(* capture_service_memory.py of src/examples/voice-runtime-frontiers and   *)
(* its strict successor capture_service_memory_v2.py.                      *)
(*                                                                         *)
(* The process table, the memory of each process and that of the device    *)
(* are read one after the other, while processes start, allocate and exit, *)
(* a controller leaves a stop file and a signal arrives.                   *)
(***************************************************************************)
EXTENDS Integers, FiniteSets, FiniteSetsExt, Sequences

CONSTANTS
    Service, Worker, Foreign,   \* processes: the root, its child, another
    None,
    Setups,         \* bound: version, architecture, launched or attached, matches
    MaxSamples,     \* MAX_SAMPLES
    MaxEvents,      \* bound: events of processes, controller and signals
    MaxMemory       \* bound: memory of a process

VARIABLES
    setup,      \* arguments of the call
    procs,      \* processes by id; one that exited stays until it is reaped
    asked,      \* there is a stop file, a signal was received, or one came while no
                \* handler was installed and the command may run
    events,
    call,       \* locals of capture()
    high,       \* history: the most each process had since the capture began
    alone       \* history: no other process was on the device at some time since
                \* a process of the service was seen

vars == <<setup, procs, asked, events, call, high, alone>>

Pids == {Service, Worker, Foreign}

Running(p) == p \in DOMAIN procs /\ procs[p].state = "running"
Exited(p) == p \in DOMAIN procs /\ procs[p].state # "running"

Process(parent, host, device) ==
    [parent |-> parent, state |-> "running", host |-> host, device |-> device]

With(f, p, v) == [q \in DOMAIN f \cup {p} |-> IF q = p THEN v ELSE f[q]]
Without(f, p) == [q \in DOMAIN f \ {p} |-> f[q]]

----------------------------------------------------------------------------
\* _selected_pids: roots and matches with all their descendants.
Selected(table) ==
    LET roots == (DOMAIN table \cap (IF call.root THEN {Service} ELSE {}))
                 \cup (DOMAIN table \cap setup.matches)
    IN  roots \cup {p \in DOMAIN table : table[p].parent \in roots}

\* Who has memory on the device.
OnDevice == {p \in DOMAIN procs : Running(p) /\ procs[p].device > 0}

\* Mutant: what is known of a tree.
SumOfKnown(a, b) == IF a = None THEN b ELSE IF b = None THEN a ELSE a + b

\* A sum is known if all of it is.
Plus(a, b) == IF a = None \/ b = None THEN None ELSE a + b

HostOf(p) == IF Running(p) THEN procs[p].host ELSE None

Strict == setup.version = 2
Split == setup.architecture = "linux_split_cuda"

\* Mutant: the device is checked once, before the start.
SharedAtStart(selected) == Strict /\ Split /\ call.pc = "start" /\ OnDevice \ selected # {}

\* _cuda_process_memory_bytes: the second version refuses to share the device.
Shared(selected) == Strict /\ Split /\ OnDevice \ selected # {}

DeviceOfSelected ==
    IF ~Split THEN None
    ELSE MapThenSumSet(LAMBDA p : procs[p].device, OnDevice \cap call.selected)

Combined(host, device) == IF Split THEN Plus(host, device) ELSE host

Complete(samples) == {i \in DOMAIN samples : samples[i].combined # None}

\* _summarize
Peak(samples) ==
    LET i == CHOOSE i \in Complete(samples) :
                 \A j \in Complete(samples) :
                    \/ samples[j].combined < samples[i].combined
                    \/ samples[j].combined = samples[i].combined /\ i <= j
    IN  samples[i]

----------------------------------------------------------------------------
\* The child that capture() launched: still running, or its exit code.
Alive == call.child = "running" /\ Running(Service)
PolledCode == IF call.child = "running" /\ Exited(Service) THEN procs[Service].state ELSE call.child
Reaped == IF call.child = "running" /\ Exited(Service) THEN Without(procs, Service) ELSE procs

\* Between the launch and the handlers, and after they are removed, a signal ends
\* the capture at once.
Unhandled == {"start", "launched", "finally", "wait", "over"}

World == UNCHANGED <<procs, events, asked>>
Go(pc) == call' = [call EXCEPT !.pc = pc]

\* Mutant: only what ends well is cleaned up.
FailAtOnce == call' = [call EXCEPT !.pc = "over", !.failed = TRUE]

\* The finally clause comes first; that of the first version does nothing.
Fail ==
    call' = [call EXCEPT !.pc = IF Strict /\ call.launched THEN "finally" ELSE "over",
                         !.failed = TRUE]

Init ==
    /\ setup \in Setups
    /\ \E running \in SUBSET {Service, Foreign} :
          /\ Service \in running <=> ~setup.launched
          /\ procs = [p \in running |-> Process(0, 1, 1)]
    /\ asked = [stop |-> FALSE, signal |-> FALSE, unhandled |-> FALSE] /\ events = 0
    /\ call = [pc |-> "start", root |-> ~setup.launched, launched |-> FALSE, child |-> None, seen |-> FALSE,
               selected |-> {}, left |-> {}, host |-> 0, measured |-> {}, samples |-> << >>,
               finished |-> FALSE, reason |-> None, failed |-> FALSE, status |-> None]
    /\ high = [p \in Pids |-> [host |-> 0, device |-> 0]]
    /\ alone = (Foreign \notin DOMAIN procs)

\* The checks, and the command is launched in a session of its own; or the call
\* attaches to a service that runs. The second version reads the swap before.
Start ==
    /\ call.pc = "start" /\ UNCHANGED <<setup, events, asked>>
    /\ IF asked.stop \/ Shared(Selected(procs))
       THEN Fail /\ UNCHANGED procs
       ELSE IF setup.launched
       THEN /\ procs' = With(procs, Service, Process(0, 1, 0))
            /\ call' = [call EXCEPT !.pc = "launched", !.root = TRUE, !.launched = TRUE,
                                    !.child = "running"]
       ELSE Go("table") /\ UNCHANGED procs

\* The handlers are installed after the command was launched.
Install == call.pc = "launched" /\ Go("table") /\ World /\ UNCHANGED setup

\* _process_table
ReadTable ==
    /\ call.pc = "table" /\ World /\ UNCHANGED setup
    /\ LET selected == Selected(procs)
           seen == call.seen \/ selected # {}
       IN  IF seen /\ (selected # {} \/ ~Strict)
           THEN call' = [call EXCEPT !.pc = "measure", !.seen = TRUE, !.selected = selected,
                                     !.left = selected, !.host = 0, !.measured = {}]
           ELSE IF seen
           THEN call' = [call EXCEPT !.pc = IF Strict /\ call.launched THEN "finally" ELSE "over",
                     !.reason = IF PolledCode \notin {None, "running"}
                                THEN "launched command exited" ELSE "selected process exited"]
           ELSE Go("poll")

Measure(p) ==
    /\ call.pc = "measure" /\ p \in call.left /\ World /\ UNCHANGED setup
    /\ call' = [call EXCEPT !.left = @ \ {p}, !.host = Plus(@, HostOf(p)),
                            !.measured = IF Running(p) THEN @ \cup {p} ELSE @]

\* The memory of the device, and the sample.
Sample ==
    /\ call.pc = "measure" /\ call.left = {} /\ World /\ UNCHANGED setup
    /\ LET sample == [selected |-> call.selected, measured |-> call.measured,
                      host |-> call.host, device |-> DeviceOfSelected,
                      combined |-> Combined(call.host, DeviceOfSelected)]
       IN  IF Shared(call.selected) \/ Len(call.samples) + 1 >= MaxSamples THEN Fail
           ELSE call' = [call EXCEPT !.pc = "poll", !.samples = Append(@, sample)]

\* ps, nvidia-smi or the reading of swap fails or takes more than five seconds.
QueryFails ==
    /\ \/ call.pc = "table"
       \/ call.pc = "start" /\ Strict
       \/ call.pc = "measure" /\ call.left = {} /\ (Strict \/ Split)
    /\ World /\ UNCHANGED setup
    /\ Fail

Poll ==
    /\ call.pc = "poll" /\ UNCHANGED <<setup, events, asked>>
    /\ procs' = Reaped
    /\ call' = [call EXCEPT !.pc = "check", !.child = PolledCode,
                            !.finished = PolledCode \notin {None, "running"}]

After(reason) ==
    call' = [call EXCEPT !.reason = reason,
                 !.pc = IF Strict /\ call.launched THEN "finally"
                        ELSE IF call.launched THEN "wait" ELSE "over"]

\* To stop or to go on; late: the time to wait, or that of the call, is over.
Check(late) ==
    /\ call.pc = "check" /\ World /\ UNCHANGED setup
    /\ IF Strict
       THEN CASE asked.signal -> Fail
              [] ~asked.signal /\ call.finished -> After("launched command exited")
              [] ~asked.signal /\ ~call.finished /\ asked.stop -> After("external stop file")
              [] OTHER -> IF late THEN Fail ELSE Go("table")
       ELSE IF asked.signal \/ call.finished \/ asked.stop THEN After("stopped")
            ELSE IF late THEN Fail ELSE Go("table")

\* The first version waits for the command, however long it runs.
Wait ==
    /\ call.pc = "wait" /\ (call.child # "running" \/ ~Alive) /\ UNCHANGED <<setup, events, asked>>
    /\ procs' = Reaped
    /\ call' = [call EXCEPT !.pc = "over", !.child = PolledCode]

\* _terminate_child: the group gets SIGTERM, and a command that ignores that SIGKILL;
\* stays: a child of the command outlives SIGTERM, and nobody waits for it.
Terminate(stays) ==
    /\ call.pc = "finally" /\ UNCHANGED <<setup, events, asked>>
    /\ IF Alive
       THEN /\ LET rest == {p \in DOMAIN procs \ {Service} : stays \/ procs[p].parent # Service}
               IN  procs' = [p \in rest |-> [procs[p] EXCEPT !.parent = 0]]
            /\ call' = [call EXCEPT !.pc = "over", !.child = "killed"]
       ELSE /\ procs' = Reaped
            /\ call' = [call EXCEPT !.pc = "over", !.child = PolledCode]

\* Mutant: the exit code whatever ended the capture.
StatusOfChild == IF call.child = None THEN "ok" ELSE call.child

\* What the capture exits with: the first version with the status of the command.
Status ==
    IF call.child # None /\ (~Strict \/ call.reason = "launched command exited")
    THEN call.child ELSE "ok"

\* broken: the second version reads the swap once more, which fails.
Return(broken) ==
    /\ call.pc = "over" /\ World /\ UNCHANGED setup /\ (broken => Strict)
    /\ call' = [call EXCEPT !.pc = "done",
                            !.failed = @ \/ broken \/ Complete(call.samples) = {},
                            !.status = IF call.failed THEN None ELSE Status]

----------------------------------------------------------------------------
\* The others.
Event == events < MaxEvents /\ events' = events + 1 /\ UNCHANGED <<setup, call>>

Spawn(p, device) ==
    /\ p \notin DOMAIN procs /\ p # Service
    /\ p = Worker => Running(Service)
    /\ procs' = With(procs, p, Process(IF p = Worker THEN Service ELSE 0, 1, device))
    /\ UNCHANGED asked /\ Event

Allocate(p, host, device) ==
    /\ Running(p)
    /\ procs' = [procs EXCEPT ![p].host = host, ![p].device = device]
    /\ UNCHANGED asked /\ Event

\* A child that was launched stays in the table until it is reaped; its children
\* become those of init.
Exit(p, code) ==
    /\ Running(p)
    /\ LET rest == [q \in DOMAIN procs |->
                       IF procs[q].parent = p THEN [procs[q] EXCEPT !.parent = 0] ELSE procs[q]]
       IN  procs' = IF p = Service /\ call.child = "running"
                    THEN [rest EXCEPT ![p].state = code, ![p].host = 0, ![p].device = 0]
                    ELSE Without(rest, p)
    /\ UNCHANGED asked /\ Event

AskToStop == ~asked.stop /\ asked' = [asked EXCEPT !.stop = TRUE] /\ UNCHANGED procs /\ Event
Interrupt ==
    /\ call.pc \notin Unhandled \cup {"done"}
    /\ ~asked.signal /\ asked' = [asked EXCEPT !.signal = TRUE] /\ UNCHANGED procs /\ Event

\* A signal that no handler takes: the capture ends where it is, and a command that
\* was launched is left to init.
Abandon ==
    /\ call.pc \in Unhandled /\ events < MaxEvents /\ events' = events + 1 /\ UNCHANGED setup
    /\ procs' = Reaped
    /\ asked' = [asked EXCEPT !.unhandled = @ \/ call.pc \in {"launched", "finally"}]
    /\ call' = [call EXCEPT !.pc = "done", !.failed = TRUE,
                            !.child = IF @ = "running" THEN "left" ELSE @]

Step ==
    \/ Start \/ Install \/ ReadTable \/ Sample \/ QueryFails \/ Poll \/ Wait
    \/ \E p \in Pids : Measure(p)
    \/ \E late \in BOOLEAN : Check(late)
    \/ \E stays \in BOOLEAN : Terminate(stays)
    \/ \E broken \in BOOLEAN : Return(broken)

Others ==
    /\ call.pc # "done"
    /\ \/ AskToStop \/ Interrupt \/ Abandon
       \/ \E p \in Pids, device \in 0 .. 1 : Spawn(p, device)
       \/ \E p \in Pids, host \in 1 .. MaxMemory, device \in 0 .. 1 : Allocate(p, host, device)
       \/ \E p \in Pids : Exit(p, "ok") \/ Exit(p, "error")

History ==
    /\ high' = [p \in Pids |->
          IF p \in DOMAIN procs' /\ procs'[p].state = "running"
          THEN [host |-> Max({high[p].host, procs'[p].host}),
                device |-> Max({high[p].device, procs'[p].device})]
          ELSE high[p]]
    /\ alone' = ((call.seen /\ alone) \/ ~(Foreign \in DOMAIN procs' /\ procs'[Foreign].device > 0))

Next == (Step \/ Others) /\ History

Spec == Init /\ [][Next]_vars

----------------------------------------------------------------------------
Returned == call.pc = "done" /\ ~call.failed

(***************************************************************************)
(* The peak is of a sample in which every process of the tree was          *)
(* measured, and no more than these processes ever had, although some      *)
(* exited or allocated while the sample was taken; and no complete sample  *)
(* is above it.                                                            *)
(***************************************************************************)
PeakIsOfWholeTree ==
    Returned =>
        LET peak == Peak(call.samples)
        IN  /\ peak.measured = peak.selected
            /\ peak.host <= MapThenSumSet(LAMBDA p : high[p].host, peak.selected)
            /\ Split => peak.device <= MapThenSumSet(LAMBDA p : high[p].device, peak.selected)
            /\ \A i \in DOMAIN call.samples :
                  call.samples[i].host # None => call.samples[i].combined <= peak.combined

(***************************************************************************)
(* The second version reports no memory of a device that another process   *)
(* used all the time of the capture.                                       *)
(***************************************************************************)
DeviceWasNotShared == Returned /\ Strict /\ Split => alone

(***************************************************************************)
(* However the second version ends - a query that fails, a process that    *)
(* exits, a timeout, a stop file, a signal that its handler takes - the    *)
(* command that it launched does not run on.                               *)
(* The code has two windows in which it does, and only these are excepted: *)
(* a signal after the command is launched in its own session (258-260) and *)
(* before the handlers are installed (272-273), and one after the old      *)
(* handlers are back (322-323) and before the command is terminated        *)
(* (324-325, which may wait fifteen seconds). A command that SIGKILL does  *)
(* not end in five seconds is left out.                                    *)
(* And the status is not that of a command that was ended here, nor is the *)
(* failure of the command hidden, unless a controller asked to stop.       *)
(***************************************************************************)
CommandDoesNotOutlive ==
    call.pc = "done" /\ Strict =>
        /\ call.launched /\ Running(Service) => asked.unhandled
        /\ Returned => call.status # "killed"
        /\ Returned /\ call.child = "error" => call.status = "error" \/ asked.stop
----------------------------------------------------------------------------
\* What the proofs take of the constants, and what makes the properties inductive.
Reasons == {"launched command exited", "selected process exited", "external stop file"}
CaptureIsPossible ==
    /\ Service # Worker /\ Service # Foreign /\ Worker # Foreign /\ 0 \notin Pids
    /\ None \notin Reasons \cup {"running", "ok", "error", "killed", "left", "stopped"}
    /\ \A s \in Setups : Foreign \notin s.matches

CallFields ==
    {"pc", "root", "launched", "child", "seen", "selected", "left", "host", "measured",
     "samples", "finished", "reason", "failed", "status"}
ProcessesAreKnown ==
    /\ DOMAIN procs \subseteq Pids
    /\ \A p \in DOMAIN procs :
          /\ DOMAIN procs[p] = {"parent", "state", "host", "device"}
          /\ procs[p].state \in {"running", "ok", "error"}
          /\ procs[p].parent \in {0, Service} /\ (p = Foreign => procs[p].parent = 0)
          /\ p # Service => procs[p].state = "running"

\* The child that was launched stays in the table until its code is read.
ChildIsWatched ==
    /\ call.child \in {None, "running", "ok", "error", "killed", "left"}
    /\ call.launched <=> call.child # None
    /\ call.launched => call.root
    /\ call.child = "running" => Service \in DOMAIN procs
    /\ call.launched /\ Service \in DOMAIN procs => call.child \in {"running", "left"}
    /\ call.child = "left" => call.pc = "done" /\ call.failed

EndIsExplained ==
    /\ call.pc \in {"start", "launched", "table", "measure", "poll", "check"} => call.reason = None
    /\ call.pc = "start" => ~call.launched
    /\ call.child = "killed" =>
          call.pc \in {"over", "done"} /\ call.reason # "launched command exited"
    /\ call.pc = "check" /\ call.finished => call.child \in {"ok", "error"}
    /\ call.pc = "finally" => Strict /\ call.launched
    /\ call.pc = "wait" => ~Strict
    /\ call.pc \in {"over", "done"} /\ Strict => call.child # "running"
    /\ Strict /\ call.child = "left" => asked.unhandled
    /\ call.reason = "launched command exited" /\ call.child = "running" => Exited(Service)
    /\ Strict /\ call.pc \in {"finally", "over", "done"} /\ ~call.failed =>
          call.reason \in Reasons
    /\ Strict /\ call.reason = "selected process exited" => ~call.launched
    /\ Strict /\ call.reason = "external stop file" => asked.stop
    /\ call.pc = "done" /\ ~call.failed => call.status = Status

\* A sample is taken while no other process is on the device.
SampledAlone ==
    /\ Foreign \notin call.selected
    /\ call.pc = "measure" => call.seen
    /\ Strict /\ Split /\ (call.samples # << >> \/ (call.pc = "done" /\ ~call.failed)) =>
          call.seen /\ alone

CaptureInv ==
    /\ setup \in Setups /\ DOMAIN asked = {"stop", "signal", "unhandled"} /\ DOMAIN call = CallFields
    /\ ProcessesAreKnown /\ ChildIsWatched /\ EndIsExplained /\ SampledAlone
=============================================================================
