----------------------------- MODULE RemoteRead -----------------------------
(***************************************************************************)
(* Reading a source over HTTPS: the leaderboards of ARC-AGI, SWE-bench,    *)
(* Aider and MCPMark, the prices of models.dev, and what the feed monitors *)
(* and discovery look at.  A call refuses an address before it asks, reads *)
(* one or several bodies in chunks of one byte under limits of bytes and   *)
(* of time, and labels what it accepts.  The server may be slow, silent,   *)
(* verbose, compressing, or of another revision, and may close early.      *)
(*                                                                         *)
(* The HTTP client is external: it waits at most its timeout for each      *)
(* operation, connecting, the headers or a chunk, and reports a body that  *)
(* is shorter than was declared.                                           *)
(***************************************************************************)
EXTENDS Integers, Sequences, SequencesExt

CONSTANTS
    None,
    Requests,       \* the calls: [kind, address, digest, supplied, transport, asserted]
    Responses,      \* what a server may answer
    Timeout,        \* seconds of a call, and of each operation of the client
    ByteLimit,      \* bytes of a body
    TotalLimit      \* bytes of all bodies of a capture of ARC-AGI

VARIABLES
    request,        \* the call
    phase,          \* begin, connect, headers, body, accepted or refused
    now,            \* seconds since the call began
    waited,         \* since when the client waits
    patience,       \* how long it does
    response,
    received,       \* bytes of the body before it is decoded
    bodies,         \* the bodies read
    stamp           \* retrieved_at

remoteVars == <<request, phase, now, waited, patience, response, received, bodies, stamp>>

Ended == phase \in {"accepted", "refused"}

----------------------------------------------------------------------------
\* The adapters differ in what they check, and when.
Capturing == {"arc", "swe", "aider", "mark", "prices"}
Strict == {"arc"}                               \* at every step, of what remains
Lenient == {"swe", "aider", "mark", "prices"}   \* at a chunk only
Decoding == {"arc", "aider", "mark"}            \* count what a body decodes to
Encoded == {"aider", "mark"}                    \* do not refuse an encoded body
StampedOnlyByMonitors == {"monitor"}
StampedFirst == {"arc", "monitor"}
StampsItself == {"aider", "prices", "mark"}     \* take no time from the caller
Bodies == [arc |-> 3, monitor |-> 2, swe |-> 1, aider |-> 1, mark |-> 1, prices |-> 1,
           discovery |-> 1]

\* An address is HTTPS without credentials, query or fragment, and of a host that is
\* allowed, of the official repository, or the only one.
Reachable(kind, address) ==
    /\ address.plain
    /\ CASE kind \in {"arc", "monitor", "prices"} -> address.host = "official" /\ address.exact
         [] kind = "swe" -> address.host = "official"
         [] kind \in {"aider", "mark"} -> address.host \in {"official", "allowed"}
         [] OTHER -> TRUE

\* The digest a call insists on: the pinned one for the pinned address.
Expected(call) ==
    IF call.digest = None /\ call.kind \in {"swe", "aider", "mark"} /\ call.address.exact
    THEN "pinned" ELSE call.digest

Admissible(call) ==
    /\ Reachable(call.kind, call.address)
    /\ call.kind = "swe" => Expected(call) # None
    /\ call.supplied => call.kind \notin StampsItself

\* A limit of time.
LateAfter(kind, at) == kind \in Strict /\ at > Timeout
Late(kind, at) == kind \in Strict /\ at >= Timeout
LateAtChunk(kind, at) == Late(kind, at) \/ (kind \in Lenient /\ at > Timeout)

FullPatience(kind, at) == Timeout
Patience(kind, at) == IF kind \in Strict THEN Timeout - at ELSE Timeout

\* The headers are checked before the body is read.
AnyCommit(kind, nth, answer) == answer.ok
OfPinnedCommit(kind, nth, answer) ==
    kind = "arc" /\ nth > 1 => answer.commit = "pinned"
Acceptable(kind, nth, answer) ==
    /\ answer.ok                                \* a status of success and no redirect
    /\ answer.encoded => kind \in Encoded
    /\ answer.declared # None => answer.declared \in 0 .. ByteLimit
    /\ OfPinnedCommit(kind, nth, answer)

\* What is counted of a body is what it decodes to.
Decoded(kind, answer, bytes) ==
    IF answer.encoded /\ kind \in Decoding THEN 2 * bytes ELSE bytes
RawBytes(kind, answer, bytes) == bytes
Consumed(kind, answer, bytes) == Decoded(kind, answer, bytes)

Content(answer, bytes) ==
    IF bytes = answer.size THEN answer.content ELSE "part"

TotalOf(list) == FoldSeq(LAMBDA b, total : b.size + total, 0, list)

\* The revision of ARC-AGI is validated before a result is asked for, and the result
\* files together are within a limit.
RevisionIsPinned(kind, list) == kind = "arc" => list[1].content = "pinned"
Continues(kind, list) ==
    kind = "arc" =>
        /\ list[1].content = "pinned"
        /\ TotalOf(Tail(list)) <= TotalLimit

VerifiedLater(call, list) == TRUE
DigestAgrees(call, list) ==
    Expected(call) # None => \A i \in DOMAIN list : list[i].content = Expected(call)

----------------------------------------------------------------------------
Init ==
    /\ request \in Requests
    /\ phase = "begin"
    /\ now = 0 /\ waited = 0 /\ patience = 0 /\ received = 0
    /\ response = None /\ bodies = << >> /\ stamp = None

Refuse ==
    /\ phase' = "refused"
    /\ response' = None /\ waited' = 0 /\ patience' = 0 /\ received' = 0 /\ bodies' = << >>
    /\ UNCHANGED <<request, now, stamp>>

Asking(at) ==
    /\ phase' = "connect"
    /\ patience' = Patience(request.kind, at)
    /\ waited' = 0 /\ received' = 0 /\ response' = None
    /\ UNCHANGED now

Begin ==
    /\ phase = "begin" /\ Admissible(request)
    /\ stamp' = IF request.kind \in StampedFirst THEN now ELSE None
    /\ Asking(now)
    /\ UNCHANGED <<request, bodies>>
RefuseCall == phase = "begin" /\ ~ Admissible(request) /\ Refuse

\* The client waits, no longer than it is patient.
Pass ==
    /\ phase \in {"connect", "headers", "body"}
    /\ waited < patience
    /\ now' = now + 1 /\ waited' = waited + 1
    /\ UNCHANGED <<request, phase, patience, response, received, bodies, stamp>>
GiveUp ==
    /\ phase \in {"connect", "headers", "body"}
    /\ waited = patience
    /\ Refuse

Connected ==
    /\ phase = "connect"
    /\ phase' = "headers" /\ waited' = 0
    /\ UNCHANGED <<request, now, patience, response, received, bodies, stamp>>

Nth == Len(bodies) + 1
Headers ==
    /\ phase = "headers"
    /\ ~ Late(request.kind, now)
    /\ \E answer \in Responses :
          /\ Acceptable(request.kind, Nth, answer)
          /\ response' = answer
    /\ phase' = "body" /\ waited' = 0
    /\ UNCHANGED <<request, now, patience, received, bodies, stamp>>
RefuseHeaders ==
    /\ phase = "headers"
    /\ \/ Late(request.kind, now)
       \/ \E answer \in Responses : ~ Acceptable(request.kind, Nth, answer)
    /\ Refuse

Chunk ==
    /\ phase = "body" /\ received < response.size
    /\ ~ LateAtChunk(request.kind, now)
    /\ Consumed(request.kind, response, received + 1) <= ByteLimit
    /\ received' = received + 1 /\ waited' = 0
    /\ UNCHANGED <<request, phase, now, patience, response, bodies, stamp>>
RefuseChunk ==
    /\ phase = "body" /\ received < response.size
    /\ \/ LateAtChunk(request.kind, now)
       \/ Consumed(request.kind, response, received + 1) > ByteLimit
    /\ Refuse

\* The body ends; one that is shorter than declared is an error of the client.
Body == [content |-> Content(response, received), whole |-> received = response.size,
         commit |-> response.commit, told |-> response.declared # None, at |-> now,
         size |-> Decoded(request.kind, response, received)]
Keeps(list) ==
    /\ response.declared \in {None, received}
    /\ ~ Late(request.kind, now)
    /\ Continues(request.kind, list)

NextBody ==
    /\ phase = "body"
    /\ Keeps(Append(bodies, Body))
    /\ Nth < Bodies[request.kind]
    /\ ~ Late(request.kind, now)                \* at the start of the next one
    /\ bodies' = Append(bodies, Body)
    /\ Asking(now)
    /\ UNCHANGED <<request, stamp>>

Accept ==
    /\ phase = "body"
    /\ Keeps(Append(bodies, Body))
    /\ Nth = Bodies[request.kind]
    /\ DigestAgrees(request, Append(bodies, Body))
    /\ bodies' = Append(bodies, Body)
    /\ phase' = "accepted"
    /\ stamp' = IF request.supplied THEN "supplied" ELSE IF stamp = None THEN now ELSE stamp
    /\ UNCHANGED <<request, now, waited, patience, response, received>>

RefuseBody ==
    /\ phase = "body"
    /\ \/ ~ Keeps(Append(bodies, Body))
       \/ Nth = Bodies[request.kind] /\ ~ DigestAgrees(request, Append(bodies, Body))
    /\ Refuse

Next ==
    \/ Begin \/ RefuseCall \/ Pass \/ GiveUp \/ Connected \/ Headers \/ RefuseHeaders
    \/ Chunk \/ RefuseChunk \/ NextBody \/ Accept \/ RefuseBody

Spec == Init /\ [][Next]_remoteVars

----------------------------------------------------------------------------
\* What the capture says of where it is from.
ByAddress(call, list) == call.address.exact
Official(call, list) ==
    CASE call.kind = "swe" -> call.address.exact /\ list[1].content = "pinned"
      [] call.kind = "prices" -> call.asserted \/ call.transport = "own"
      [] call.kind = "arc" -> TRUE
      [] OTHER -> list[1].content = "pinned"

(***************************************************************************)
(* What is called official is: the pinned bytes of SWE-bench, MCPMark and  *)
(* Aider, files of ARC-AGI that are all of the pinned revision, and prices *)
(* that came from the official address by the adapter's own transport,     *)
(* unless the operator asserts it.                                         *)
(***************************************************************************)
LabelIsEarned ==
    phase = "accepted" /\ request.kind \in Capturing /\ Official(request, bodies) =>
        CASE request.kind = "arc" ->
                /\ bodies[1].content = "pinned"
                /\ \A i \in 2 .. Len(bodies) : bodies[i].commit = "pinned"
          [] request.kind = "prices" ->
                request.address.exact /\ (request.transport = "own" \/ request.asserted)
          [] OTHER -> bodies[1].content = "pinned"

(***************************************************************************)
(* No part of a body passes for the whole where its length was declared or *)
(* its digest expected; and no body is longer than the limit, nor all of a *)
(* capture of ARC-AGI together, decoded.                                   *)
(***************************************************************************)
BodyIsWhole ==
    /\ phase = "accepted" =>
          \A i \in DOMAIN bodies :
              bodies[i].told \/ Expected(request) # None => bodies[i].whole
    /\ \A i \in DOMAIN bodies : bodies[i].size <= ByteLimit
    /\ request.kind = "arc" /\ bodies # << >> => TotalOf(Tail(bodies)) <= TotalLimit

(***************************************************************************)
(* However slow the server, a call ends: what ARC-AGI accepts was complete *)
(* before the deadline, and its refusal comes within twice that time; the  *)
(* others end within three operations of the client, and those without a   *)
(* deadline within the operations their limit of bytes allows.             *)
(***************************************************************************)
CallEndsInTime ==
    CASE request.kind = "arc" ->
            now <= 2 * Timeout /\ (phase = "accepted" => now < Timeout)
      [] request.kind \in Lenient -> now <= 3 * Timeout
      [] OTHER -> now <= Bodies[request.kind] * (ByteLimit + 3) * Timeout

(***************************************************************************)
(* retrieved_at is a time of the call, unless the caller gave one and may; *)
(* for ARC-AGI and the monitors it is no later than any byte was read, so  *)
(* nothing looks fresher than it is.                                       *)
(***************************************************************************)
StampIsOfCall ==
    phase = "accepted" =>
        IF request.supplied
        THEN request.kind \notin StampsItself
        ELSE /\ stamp \in 0 .. now
             /\ request.kind \in {"arc", "monitor"} =>
                   \A i \in DOMAIN bodies : stamp <= bodies[i].at
----------------------------------------------------------------------------
\* What the proofs take of the constants, and what makes the properties inductive.
CallsArePossible ==
    /\ Timeout \in Nat /\ ByteLimit \in Nat /\ None \notin Nat
    /\ \A call \in Requests :
          call.kind \in DOMAIN Bodies /\ call.supplied \in BOOLEAN /\ call.digest # "part"
    /\ \A answer \in Responses :    \* the client reads no more than was declared
          /\ answer.size \in Nat
          /\ answer.declared # None => answer.declared \in Nat /\ answer.size <= answer.declared

BodyRecords ==
    [content : {"part"} \cup {answer.content : answer \in Responses}, whole : BOOLEAN,
     commit : {answer.commit : answer \in Responses}, told : BOOLEAN, at : Nat, size : Nat]

Asks == phase \in {"connect", "headers", "body"}

RemoteTypeOK ==
    /\ request \in Requests
    /\ phase \in {"begin", "connect", "headers", "body", "accepted", "refused"}
    /\ now \in Nat /\ waited \in Nat /\ patience \in Nat /\ received \in Nat
    /\ waited <= patience /\ waited <= now
    /\ bodies \in Seq(BodyRecords)
    /\ phase = "begin" => bodies = << >> /\ now = 0
    /\ phase = "accepted" => bodies # << >>
    /\ phase \in {"connect", "headers"} => received = 0
    /\ phase = "body" => response \in Responses
    /\ Asks => Len(bodies) + 1 <= Bodies[request.kind]
    /\ Asks \/ phase = "accepted" => Admissible(request)

\* A call that asks was stamped first, or is not stamped yet.
StampedWhileAsking ==
    Asks =>
        IF request.kind \in StampedFirst
        THEN /\ stamp \in Nat /\ stamp <= now
             /\ \A i \in DOMAIN bodies : stamp <= bodies[i].at
        ELSE stamp = None

\* What was read of ARC-AGI is pinned, and what is being read is of that revision.
RevisionWhileAsking ==
    /\ request.kind = "arc" =>
          \A i \in DOMAIN bodies :
              IF i = 1 THEN bodies[i].content = "pinned" ELSE bodies[i].commit = "pinned"
    /\ request.kind = "arc" /\ phase = "body" /\ bodies # << >> => response.commit = "pinned"

\* What passes for the whole of a body, by its length or by its content, is.
WholeWhileReading ==
    /\ \A i \in DOMAIN bodies : bodies[i].told \/ bodies[i].content # "part" => bodies[i].whole
    /\ phase = "body" =>
          received <= response.size /\ Consumed(request.kind, response, received) <= ByteLimit

\* How much of its time a call has used when it begins to wait: ARC-AGI has what is
\* left of its deadline, a lenient call one operation after the other, any other
\* as many operations as it has read bytes.
Started == now - waited
PerBody == (ByteLimit + 3) * Timeout
InTimeWhileAsking ==
    CASE request.kind = "arc" ->
            /\ Asks => patience <= Timeout
            /\ phase = "connect" => Started + patience <= Timeout
            /\ phase = "headers" => Started <= Timeout
            /\ phase = "body" => Started < Timeout
      [] request.kind \in Lenient ->
            /\ Asks => patience = Timeout
            /\ phase = "connect" => Started = 0
            /\ phase = "headers" => Started <= Timeout
            /\ phase = "body" => Started <= 2 * Timeout
      [] OTHER ->
            /\ Asks => patience = Timeout
            /\ phase = "connect" => Started <= Len(bodies) * PerBody
            /\ phase = "headers" => Started <= Len(bodies) * PerBody + Timeout
            /\ phase = "body" =>
                  /\ received <= ByteLimit
                  /\ Started <= Len(bodies) * PerBody + (received + 2) * Timeout

RemoteInv ==
    /\ RemoteTypeOK /\ StampedWhileAsking /\ StampIsOfCall
    /\ RevisionWhileAsking
    /\ WholeWhileReading /\ BodyIsWhole
    /\ InTimeWhileAsking /\ CallEndsInTime
=============================================================================
