-------------------------- MODULE BoundedDocument --------------------------
(***************************************************************************)
(* How a document someone else wrote is decoded. Its bytes are scanned     *)
(* first, by a loop that knows quotes, escapes and brackets and nothing    *)
(* else of the grammar, so that nesting and size are bounded before the    *)
(* parser builds anything; the parser then refuses a repeated key, a       *)
(* number that is too long or not a number; and what was built is measured *)
(* again. The readers differ in each of the three parts:                   *)
(*   values    the ARC-AGI and SWE-bench feeds and the ARC-AGI monitor     *)
(*   balanced  Harbor jobs and models.dev                                  *)
(*   lines     trace rows               events   Codex events              *)
(*   quality   quality artifacts        rows     Aider's YAML              *)
(*   plain     MCPMark     report   Hermes     open   discovery            *)
(***************************************************************************)
EXTENDS Naturals, Sequences, FiniteSets, SequencesExt

CONSTANTS
    Documents,      \* the documents offered, as sequences of bytes
    Readers,        \* the readers that meet them
    MaxDepth,       \* containers inside one another
    MaxTokens,      \* structural bytes
    MaxEvents,      \* events of a YAML parser
    MaxNodes,       \* values, with the keys where a reader counts them
    MaxText,        \* characters of a string
    MaxDigits,      \* characters of a number
    Recursion,      \* where json.loads gives up on nesting
    LongInteger     \* where Python gives up on an integer

VARIABLES reader, document, stage, scan, built

vars == << reader, document, stage, scan, built >>

Openers == {"{", "["}
Closers == {"}", "]"}
Separators == {",", ":"}
Structural == Openers \cup Closers \cup Separators
Scanning == {"values", "balanced", "lines", "events", "quality"}

-----------------------------------------------------------------------------
(* The scan                                                                *)

ScanStart(r) == [depth |-> 0, count |-> IF r = "values" THEN 1 ELSE 0, text |-> FALSE,
                 escaped |-> FALSE, digits |-> 0, verdict |-> "on"]

\* Mutants: an escape is not looked at; a bracket inside a string counts.
InTextUnescaped(s, byte) == [s EXCEPT !.text = byte # "quote"]
InText(s, byte) ==
    [s EXCEPT !.escaped = ~s.escaped /\ byte = "escape",
              !.text = s.escaped \/ byte # "quote"]

\* Mutant: the limit is met before the container is counted.
TooDeepLater(s) == s.depth > MaxDepth + 1
TooDeep(s) == s.depth > MaxDepth

Counts(r, byte) ==
    \/ r = "values" /\ byte \in Openers \cup Separators
    \/ r \in {"balanced", "quality"} /\ byte \in Structural

\* A closer without its opener ends the scan of a feed, is left to the parser
\* by the quality reader, and is refused by the others.
Unopened(r) == CASE r = "values" -> "stop"
                 [] r = "quality" -> "on"
                 [] OTHER -> "refused"

Counted(r, s, byte) ==
    [s EXCEPT !.depth = CASE byte \in Openers -> @ + 1
                          [] byte \in Closers /\ @ > 0 -> @ - 1
                          [] OTHER -> @,
              !.count = IF Counts(r, byte) THEN @ + 1 ELSE @,
              !.digits = IF byte = "digit" THEN @ + 1 ELSE 0,
              !.text = byte = "quote",
              !.verdict = IF byte \in Closers /\ s.depth = 0 THEN Unopened(r) ELSE @]

\* What each scan refuses once a byte is counted; the feeds look at how much
\* they have counted only at a separator, and the rest at nesting alone.
FeedRefuses(s, byte) == TooDeep(s) \/ (byte \in Separators /\ s.count > MaxNodes)
BalancedRefuses(s) == TooDeep(s) \/ s.count > MaxTokens
QualityRefuses(s) == TooDeep(s) \/ s.count > MaxTokens \/ s.digits > MaxDigits

Judged(r, s, byte) ==
    IF \/ r = "values" /\ FeedRefuses(s, byte)
       \/ r = "balanced" /\ BalancedRefuses(s)
       \/ r = "quality" /\ QualityRefuses(s)
       \/ TooDeep(s)
    THEN [s EXCEPT !.verdict = "refused"] ELSE s

ScanByte(r, s, byte) ==
    CASE s.verdict # "on" -> s
      [] s.verdict = "on" /\ s.text -> InText(s, byte)
      [] OTHER -> Judged(r, Counted(r, s, byte), byte)

Scanned(r, bytes) == FoldLeft(LAMBDA s, byte : ScanByte(r, s, byte), ScanStart(r), bytes)

\* What the scan says of the whole document: only one scan asks that every
\* string and container is closed.
PassesScan(r, s) ==
    /\ s.verdict # "refused"
    /\ r = "balanced" => ~s.text /\ s.depth = 0

-----------------------------------------------------------------------------
(* The parser: json.loads with its hooks, and what it has built            *)

ParseStart == [at |-> "value", stack |-> << >>, text |-> FALSE, escaped |-> FALSE,
               chars |-> << >>, digits |-> 0, nodes |-> 0, keys |-> 0, kinds |-> {},
               longest |-> 0, longNumber |-> 0, opened |-> 0, separated |-> 0,
               repeated |-> FALSE, objects |-> {}, special |-> FALSE, verdict |-> "on"]

DepthOf(p) == Len(p.stack)

\* A value of a kind begins, one deeper than the containers it is in.
Begins(p, kind) == [p EXCEPT !.nodes = @ + 1, !.kinds = @ \cup {<< DepthOf(p) + 1, kind >>}]

Ended(p) == [p EXCEPT !.at = IF p.stack = << >> THEN "end" ELSE "after"]

Pushes(p, kind) == [p EXCEPT !.stack = Append(@, [kind |-> kind, keys |-> << >>]),
                             !.opened = @ + 1,
                             !.at = IF kind = "map" THEN "member" ELSE "item"]

\* Mutant: only neighbouring keys are compared.
RepeatsAdjacent(keys) == \E i \in 2..Len(keys) : keys[i] = keys[i - 1]
Repeats(keys) == ~IsInjective(keys)

Closes(p) ==
    LET done == [p EXCEPT !.stack = Front(@),
                          !.objects = @ \cup {Last(p.stack).keys},
                          !.repeated = @ \/ Repeats(Last(p.stack).keys)]
    IN  Ended(done)

TextEnds(p) ==
    LET after == [p EXCEPT !.text = FALSE, !.chars = << >>,
                       !.longest = IF Len(p.chars) > @ THEN Len(p.chars) ELSE @]
    IN  IF p.at \in {"member", "key"}
        THEN [after EXCEPT !.at = "colon", !.keys = @ + 1,
                       !.stack[Len(p.stack)].keys = Append(@, p.chars)]
        ELSE Ended(after)

Refused(p) == [p EXCEPT !.verdict = "refused"]

ParseText(p, byte) ==
    CASE p.escaped /\ byte \in {"quote", "escape", "slash"} ->
             [p EXCEPT !.escaped = FALSE, !.chars = Append(@, byte)]
      [] p.escaped /\ byte \notin {"quote", "escape", "slash"} -> Refused(p)
      [] ~p.escaped /\ byte = "escape" -> [p EXCEPT !.escaped = TRUE]
      [] ~p.escaped /\ byte = "quote" -> TextEnds(p)
      [] OTHER -> [p EXCEPT !.chars = Append(@, byte)]

ParseDigit(p) ==
    [p EXCEPT !.digits = @ + 1, !.at = "number",
              !.longNumber = IF p.digits + 1 > @ THEN p.digits + 1 ELSE @]

ParseValue(p, byte) ==
    CASE byte = "{" -> Pushes(Begins(p, "map"), "map")
      [] byte = "[" -> Pushes(Begins(p, "list"), "list")
      [] byte = "quote" -> [Begins(p, "scalar") EXCEPT !.text = TRUE]
      [] byte = "digit" -> ParseDigit(Begins(p, "scalar"))
      [] byte = "nan" -> [Ended(Begins(p, "scalar")) EXCEPT !.special = TRUE]
      [] byte = "]" /\ p.at = "item" -> Closes(p)
      [] OTHER -> Refused(p)

ParseAfter(p, byte) ==
    LET map == Last(p.stack).kind = "map"
    IN  CASE byte = "," -> [p EXCEPT !.at = IF map THEN "key" ELSE "value", !.separated = @ + 1]
          [] byte = (IF map THEN "}" ELSE "]") -> Closes(p)
          [] OTHER -> Refused(p)

ParseToken(p, byte) ==
    CASE p.at \in {"value", "item"} -> ParseValue(p, byte)
      [] p.at \in {"member", "key"} /\ byte = "quote" -> [p EXCEPT !.text = TRUE]
      [] p.at = "member" /\ byte = "}" -> Closes(p)
      [] p.at = "colon" /\ byte = ":" -> [p EXCEPT !.at = "value", !.separated = @ + 1]
      [] p.at = "after" -> ParseAfter(p, byte)
      [] OTHER -> Refused(p)

ParseByte(p, byte) ==
    CASE p.verdict # "on" -> p
      [] p.verdict = "on" /\ p.text -> ParseText(p, byte)
      [] p.verdict = "on" /\ ~p.text /\ p.at = "number" /\ byte = "digit" -> ParseDigit(p)
      [] p.verdict = "on" /\ ~p.text /\ p.at = "number" /\ byte # "digit" ->
             ParseToken(Ended([p EXCEPT !.digits = 0]), byte)
      [] OTHER -> ParseToken(p, byte)

Parsed(bytes) == FoldLeft(ParseByte, ParseStart, bytes)

\* What was read is one whole value.
IsWhole(p) ==
    /\ p.verdict = "on" /\ ~p.text
    /\ \/ p.at = "end"
       \/ p.at = "number" /\ p.stack = << >>

\* How deep a document's containers and its values are.
Deepest(p, kinds) ==
    LET depths == {k[1] : k \in {k \in p.kinds : k[2] \in kinds}}
    IN  IF depths = {} THEN 0 ELSE CHOOSE d \in depths : \A e \in depths : e <= d
ContainersDeep(p) == Deepest(p, {"map", "list"})
ValuesDeep(p) == Deepest(p, {"map", "list", "scalar"})

-----------------------------------------------------------------------------
(* The steps of a reader                                                   *)

\* Aider's rows are scanned as parser events: four for the stream and the
\* document, two for a container, one for a key or a scalar.
EventsOf(p) == 4 + p.nodes + p.opened + p.keys

\* The hooks of the parser. A quality artifact may say NaN (its models refuse
\* it), and in YAML every scalar is text.
UniqueKeys(p) == ~p.repeated
BoundedNumbers(p) == p.longNumber <= MaxDigits /\ ~p.special
MarkNumbers(p) == BoundedNumbers(p)
PlainNumbers(p) == p.longNumber <= LongInteger /\ ~p.special
QualityNumbers(p) == p.longNumber <= LongInteger
HooksAccept(r, p) ==
    /\ UniqueKeys(p)
    /\ r \in {"values", "balanced", "lines"} => BoundedNumbers(p)
    /\ r = "plain" => MarkNumbers(p)
    /\ r \in {"events", "report", "open"} => PlainNumbers(p)
    /\ r = "quality" => QualityNumbers(p)

\* What is measured again once it is built.
\* Mutant: the keys of objects are not counted.
NodesWithoutKeys(p) == p.nodes
NodesOf(p) == p.nodes + p.keys

AreRows(p) ==
    /\ << 1, "list" >> \in p.kinds
    /\ p.kinds \subseteq {<< 1, "list" >>, << 2, "map" >>, << 3, "scalar" >>}
    /\ p.longest <= MaxText /\ p.longNumber <= MaxText
IsObject(p) == << 1, "map" >> \in p.kinds
FeedFits(p) == p.nodes <= MaxNodes /\ p.longest <= MaxText /\ ValuesDeep(p) <= MaxDepth
BalancedFits(p) == NodesOf(p) <= MaxNodes /\ p.longest <= MaxText

FitsShape(r, p) ==
    /\ r = "values" => FeedFits(p)
    /\ r = "balanced" => BalancedFits(p)
    /\ r = "rows" => AreRows(p)
    /\ r \in {"lines", "events", "plain", "report", "open"} => IsObject(p)

Init == /\ reader \in Readers
        /\ document \in Documents
        /\ reader = "rows" => IsWhole(Parsed(document))
        /\ stage = "read"
        /\ scan = ScanStart(reader)
        /\ built = ParseStart

\* Nothing is built of a document that the scan refuses.
Preflight ==
    /\ stage = "read" /\ reader \in Scanning
    /\ scan' = Scanned(reader, document)
    /\ stage' = IF PassesScan(reader, scan') THEN "parse" ELSE "refused"
    /\ UNCHANGED << reader, document, built >>

PreflightRows ==
    /\ stage = "read" /\ reader = "rows"
    /\ stage' = IF \/ EventsOf(Parsed(document)) > MaxEvents
                   \/ ContainersDeep(Parsed(document)) > MaxDepth
                THEN "refused" ELSE "parse"
    /\ UNCHANGED << reader, document, scan, built >>

NoPreflight ==
    /\ stage = "read" /\ reader \in {"plain", "report", "open"}
    /\ stage' = "parse"
    /\ UNCHANGED << reader, document, scan, built >>

\* json.loads gives up on a document too deep for it; discovery does not
\* expect that error.
Outcome(r, p) ==
    CASE ContainersDeep(p) > Recursion -> IF r = "open" THEN "raised" ELSE "refused"
      [] ContainersDeep(p) <= Recursion /\ IsWhole(p) /\ HooksAccept(r, p) -> "shape"
      [] OTHER -> "refused"

Parse ==
    /\ stage = "parse"
    /\ built' = Parsed(document)
    /\ stage' = Outcome(reader, built')
    /\ UNCHANGED << reader, document, scan >>

CheckShape ==
    /\ stage = "shape"
    /\ stage' = IF FitsShape(reader, built) THEN "accepted" ELSE "refused"
    /\ UNCHANGED << reader, document, scan, built >>

Next == Preflight \/ PreflightRows \/ NoPreflight \/ Parse \/ CheckShape

-----------------------------------------------------------------------------
(* Properties                                                              *)

\* The scan bounds what the parser builds, also of a document that turns out
\* to be malformed: a string cannot hide a bracket from the scan, and where
\* the scan gives up early the parser does not get further
\* (_preflight_json_structure, "bound container allocation before decoding").
BuildingIsBounded ==
    built # ParseStart =>
        /\ reader \in Scanning => ContainersDeep(built) <= MaxDepth
        /\ reader = "values" => built.nodes <= MaxNodes + MaxDepth
        /\ reader \in {"balanced", "quality"} => built.nodes <= MaxTokens + 1
        /\ reader = "quality" => built.longNumber <= MaxDigits

\* A document that is accepted says one thing: it is whole, no object repeats
\* a key, however the key is spelled, and it is within the limits of its
\* reader.
AcceptedSaysOneThing ==
    stage = "accepted" =>
        /\ IsWhole(built)
        /\ \A keys \in built.objects : IsInjective(keys)
        /\ reader \notin {"plain", "report", "open"} => ContainersDeep(built) <= MaxDepth
        /\ reader = "values" => built.nodes <= MaxNodes
        /\ reader = "balanced" => built.nodes + built.keys <= MaxNodes

\* The limits of a reader, on the document and not on what the scan saw.
Exceeds(r, p) ==
    \/ ValuesDeep(p) > MaxDepth /\ r = "values"
    \/ ContainersDeep(p) > MaxDepth /\ r \notin {"plain", "report", "open"}
    \/ ContainersDeep(p) > Recursion
    \/ 1 + p.opened + p.separated > MaxNodes /\ r = "values"
    \/ 2 * p.opened + p.separated > MaxTokens /\ r \in {"balanced", "quality"}
    \/ p.nodes + p.keys > MaxNodes /\ r = "balanced"
    \/ EventsOf(p) > MaxEvents /\ r = "rows"
    \/ p.longest > MaxText /\ r \in {"values", "balanced", "rows"}
    \/ p.longNumber > MaxDigits
    \/ p.special

\* A refusal has a cause a reader of the document can see: brackets and commas
\* inside strings, escaped quotes and closed containers are no cause.
RefusedForCause ==
    stage \in {"refused", "raised"} =>
        LET p == Parsed(document)
        IN  \/ ~IsWhole(p) \/ p.repeated \/ Exceeds(reader, p)
            \/ reader \in {"lines", "events", "plain", "report", "open"} /\ ~IsObject(p)
            \/ reader = "rows" /\ ~AreRows(p)

TypeOK ==
    /\ reader \in Readers /\ document \in Documents
    /\ stage \in {"read", "parse", "shape", "accepted", "refused", "raised"}

Spec == Init /\ [][Next]_vars
=============================================================================
