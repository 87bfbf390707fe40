----------------------- MODULE RequestHandlingProofs -----------------------
(* Theorems about RequestHandling, for any set of requests and any kinds of  *)
(* request they may be.                                                      *)
EXTENDS RequestHandling, ServerLifecycleProofs, TLAPS

\* The process with its handlers spelled out is the process of ServerLifecycle,
\* whose theorems hold of it: handlers add no behaviour to a shutdown.
THEOREM HandlingImplementsLifecycle == HandlingSpec => Spec
<1>1. HandlingInit => Init
  BY DEF HandlingInit
<1>2. [HandlingNext]_handlingVars => [Next]_vars
  <2> SUFFICES ASSUME [HandlingNext]_handlingVars PROVE [Next]_vars
    OBVIOUS
  <2>1. CASE ProcessStep
    BY <2>1 DEF Next
  <2>2. CASE \E r \in Requests : Deliver(r)
    BY <2>2 DEF Next, Deliver
  <2>3. CASE UNCHANGED vars
    BY <2>3
  <2> QED
    BY <2>1, <2>2, <2>3 DEF HandlingNext, handlingVars
<1> QED
  BY <1>1, <1>2, PTL DEF HandlingSpec, Spec

-----------------------------------------------------------------------------
\* What the order of the chain gives: a search passes every middleware, and every
\* request of the API gets its id.
LEMMA ChainOrder ==
  ASSUME NEW s \in SentTypes
  PROVE  /\ s.to = "search" => Enters(s, "Recoverer") /\ ReadAsJSON(s)
         /\ s.to # "health" => ReplyId(s) = (IF s.id THEN "given" ELSE "fresh")
         /\ ReplyId(s) \in {"none", "given", "fresh"}
<1>1. /\ DOMAIN Chain = 1..4
      /\ Chain[1] = "RequestID" /\ Chain[2] = "CORS"
      /\ Chain[3] = "Recoverer" /\ Chain[4] = "SetContentType"
  BY DEF Chain
<1>2. s.to # "health" => Enters(s, "RequestID")
  <2> 1 \in DOMAIN Chain /\ (\A j \in 1..(1 - 1) : Chain[j] # "CORS")
    BY <1>1
  <2> QED
    BY <1>1 DEF Enters
<1>3. s.to = "search" => Enters(s, "Recoverer")
  <2> 3 \in DOMAIN Chain
    BY <1>1
  <2> QED
    BY <1>1 DEF Enters
<1>4. s.to = "search" => Enters(s, "SetContentType")
  <2> 4 \in DOMAIN Chain
    BY <1>1
  <2> QED
    BY <1>1 DEF Enters
<1> QED
  BY <1>2, <1>3, <1>4 DEF ReplyId, ReadAsJSON

\* What each place of the handler of r knows: up to the first WriteHeader the error
\* on its way determines the status that belongs to the outcome, and a second
\* WriteHeader comes only where the client is lost.
Own(r) ==
  /\ place[r] \in {"decode", "search", "encode", "error"} => sent[r].to = "search"
  /\ place[r] \in {"decode", "search", "encode"} => reply[r].status = 0
  /\ place[r] \in {"router", "decode", "search"} => found[r] = "nothing"
  /\ place[r] \in {"search", "encode"} => sent[r].body = "valid"
  /\ place[r] = "encode" => found[r] = "flights"
  /\ place[r] = "error" =>
       /\ found[r] # "panic"
       /\ \/ reply[r].status = 0 /\ ErrorStatus(err[r]) = StatusFor(sent[r], found[r])
          \/ conn[r] # "open"
  /\ place[r] = "written" =>
       reply[r].status = StatusFor(sent[r], found[r]) \/ conn[r] # "open"
  /\ place[r] # "router" => reply[r].id = ReplyId(sent[r])
  /\ received[r] # 0 =>
       place[r] = "written" /\ received[r] = StatusFor(sent[r], found[r])

HandlingInv == HandlingTypeOK /\ \A r \in Requests : Own(r)

\* A step of another request leaves what this one's handler knows.
LEMMA OwnFrame ==
  ASSUME NEW q, Own(q),
         sent'[q] = sent[q], place'[q] = place[q], found'[q] = found[q],
         err'[q] = err[q], reply'[q] = reply[q], conn'[q] = conn[q],
         received'[q] = received[q]
  PROVE  Own(q)'
BY DEF Own, StatusFor, ErrorStatus, ReplyId, Enters

LEMMA HandlingInitially == HandlingInit => HandlingInv
<1> SUFFICES ASSUME HandlingInit PROVE HandlingInv
  OBVIOUS
<1>1. HandlingTypeOK
  BY DEF HandlingInit, HandlingTypeOK, NoError, Errors
<1>2. ASSUME NEW r \in Requests PROVE Own(r)
  BY DEF HandlingInit, Own
<1> QED
  BY <1>1, <1>2 DEF HandlingInv

\* Route replies to what needs no handler and names the rest.
LEMMA RouteKeeps ==
  ASSUME HandlingInv, NEW r \in Requests, Route(r)
  PROVE  HandlingInv'
<1> USE SentAssumption
<1> DEFINE s == sent[r]
           status == IF s.to = "health" THEN 204 ELSE IF s.to = "preflight" THEN 200 ELSE 0
<1>0. s \in Sent /\ s \in SentTypes /\ HandlingTypeOK /\ place[r] = "router"
  BY DEF HandlingInv, HandlingTypeOK, Route, At
<1>1. s.to \in {"health", "preflight", "search"}
  BY <1>0 DEF SentTypes
<1>2. ReplyId(s) \in {"none", "given", "fresh"}
  BY <1>0, ChainOrder
<1>3. /\ reply' = [reply EXCEPT ![r] = [status |-> status, id |-> ReplyId(s)]]
      /\ place' = [place EXCEPT ![r] = IF s.to = "search" THEN "decode" ELSE "written"]
      /\ UNCHANGED <<sent, found, err, conn, received>>
  BY DEF Route, Goto
<1>4. HandlingTypeOK'
  <2>1. [status |-> status, id |-> ReplyId(s)]
          \in [status : Statuses \cup {0}, id : {"none", "given", "fresh"}]
    BY <1>2 DEF Statuses
  <2> QED
    BY <1>0, <1>3, <2>1 DEF HandlingTypeOK
<1>5. Own(r)'
  <2>1. /\ reply'[r].status = status /\ reply'[r].id = ReplyId(s)
        /\ place'[r] = (IF s.to = "search" THEN "decode" ELSE "written")
        /\ sent'[r] = s /\ found'[r] = "nothing" /\ received'[r] = 0
    BY <1>0, <1>3 DEF HandlingInv, HandlingTypeOK, Own
  <2>2. ReplyId(sent[r])' = ReplyId(s)
    BY <1>3 DEF ReplyId, Enters
  <2>3. s.to # "search" => status = StatusFor(s, found'[r])
    BY <1>1 DEF StatusFor
  <2>4. StatusFor(sent[r], found[r])' = StatusFor(s, found'[r])
    BY <1>3 DEF StatusFor
  <2> QED
    BY <2>1, <2>2, <2>3, <2>4 DEF Own
<1>6. ASSUME NEW q \in Requests, q # r PROVE Own(q)'
  BY <1>0, <1>3, <1>6, OwnFrame DEF HandlingInv, HandlingTypeOK
<1> QED
  BY <1>4, <1>5, <1>6 DEF HandlingInv

\* The errors there are, and the status each gets.
LEMMA ErrorFacts ==
  /\ Failure \in Errors /\ ErrorStatus(Failure) = 500
  /\ Wrapped(ApplicationError(400), 2) \in Errors
  /\ ErrorStatus(Wrapped(ApplicationError(400), 2)) = 400
  /\ Wrapped(ErrNoFlightsFound, 1) \in Errors
  /\ ErrorStatus(Wrapped(ErrNoFlightsFound, 1)) = 404
<1>1. Wrapped(ApplicationError(400), 2) = [app |-> TRUE, status |-> 400, wraps |-> 2]
  <2>1. Wrapped(ApplicationError(400), 2) = [app |-> TRUE, status |-> 400, wraps |-> 0 + 2]
    BY DEF Wrapped, ApplicationError
  <2> QED
    BY <2>1
<1>2. Wrapped(ErrNoFlightsFound, 1) = [app |-> TRUE, status |-> 404, wraps |-> 1]
  <2>1. Wrapped(ErrNoFlightsFound, 1) = [app |-> TRUE, status |-> 404, wraps |-> 0 + 1]
    BY DEF Wrapped, ErrNoFlightsFound, ApplicationError
  <2> QED
    BY <2>1
<1>3. Failure \in Errors
  BY DEF Failure, Errors
<1>4. Wrapped(ApplicationError(400), 2) \in Errors
  <2>1. [app |-> TRUE, status |-> 400, wraps |-> 2]
          \in [app : {TRUE}, status : {400, 404}, wraps : 0..2]
    OBVIOUS
  <2> QED
    BY <2>1, <1>1 DEF Errors
<1>5. Wrapped(ErrNoFlightsFound, 1) \in Errors
  <2>1. [app |-> TRUE, status |-> 404, wraps |-> 1]
          \in [app : {TRUE}, status : {400, 404}, wraps : 0..2]
    OBVIOUS
  <2> QED
    BY <2>1, <1>2 DEF Errors
<1> QED
  BY <1>1, <1>2, <1>3, <1>4, <1>5 DEF ErrorStatus, Failure

\* A handler that has written nothing goes on, with an error whose status belongs
\* to the outcome if it goes to ErrorResponse.
LEMMA MoveKeeps ==
  ASSUME HandlingInv, NEW r \in Requests, place[r] \in {"decode", "search"},
         UNCHANGED <<sent, reply, conn, received>>,
         place' = [place EXCEPT ![r] = place'[r]],
         found' = [found EXCEPT ![r] = found'[r]],
         err' = [err EXCEPT ![r] = err'[r]],
         place'[r] \in {"search", "encode", "error"},
         found'[r] \in {"nothing", "flights", "noFlights", "failure"},
         err'[r] \in Errors,
         place'[r] = "search" => sent[r].body = "valid" /\ found'[r] = "nothing",
         place'[r] = "encode" => sent[r].body = "valid" /\ found'[r] = "flights",
         place'[r] = "error" => ErrorStatus(err'[r]) = StatusFor(sent[r], found'[r])
  PROVE  HandlingInv'
<1>0. HandlingTypeOK /\ Own(r) /\ sent[r].to = "search"
  BY DEF HandlingInv, Own
<1>1. HandlingTypeOK'
  BY <1>0 DEF HandlingTypeOK
<1>2. Own(r)'
  <2>1. reply'[r] = reply[r] /\ sent'[r] = sent[r] /\ received'[r] = 0
    BY <1>0 DEF HandlingTypeOK, Own
  <2>2. /\ ReplyId(sent[r])' = ReplyId(sent[r])
        /\ ErrorStatus(err[r])' = ErrorStatus(err'[r])
        /\ StatusFor(sent[r], found[r])' = StatusFor(sent[r], found'[r])
    BY <2>1 DEF ReplyId, Enters, ErrorStatus, StatusFor
  <2> QED
    BY <1>0, <2>1, <2>2 DEF Own
<1>3. ASSUME NEW q \in Requests, q # r PROVE Own(q)'
  BY <1>0, <1>3, OwnFrame DEF HandlingInv, HandlingTypeOK
<1> QED
  BY <1>1, <1>2, <1>3 DEF HandlingInv

\* DecodeRequest lets only valid criteria through and gives the others the status
\* of their fault.
LEMMA DecodeKeeps ==
  ASSUME HandlingInv, NEW r \in Requests, DecodeRequest(r)
  PROVE  HandlingInv'
<1> USE SentAssumption
<1>0. /\ sent[r] \in SentTypes /\ HandlingTypeOK /\ place[r] = "decode"
      /\ found[r] = "nothing" /\ sent[r].to = "search"
  BY DEF HandlingInv, HandlingTypeOK, DecodeRequest, At, Own
<1>1. /\ ReadAsJSON(sent[r])
      /\ UNCHANGED <<sent, found, reply, conn, received>>
  BY <1>0, ChainOrder DEF DecodeRequest
<1>2. found' = [found EXCEPT ![r] = found'[r]] /\ found'[r] = "nothing"
  BY <1>0, <1>1 DEF HandlingTypeOK
<1>3. CASE /\ place' = [place EXCEPT ![r] = "search"] /\ UNCHANGED err
           /\ sent[r].body = "valid"
  <2>1. /\ place'[r] = "search" /\ err' = [err EXCEPT ![r] = err'[r]]
        /\ err'[r] \in Errors
    BY <1>0, <1>3 DEF HandlingTypeOK
  <2> QED
    BY <1>0, <1>1, <1>2, <1>3, <2>1, MoveKeeps
<1>4. CASE /\ place' = [place EXCEPT ![r] = "error"]
           /\ err' = [err EXCEPT ![r] = Failure] /\ sent[r].body = "unreadable"
  <2>1. place'[r] = "error" /\ err'[r] = Failure
    BY <1>0, <1>4 DEF HandlingTypeOK
  <2>2. ErrorStatus(err'[r]) = StatusFor(sent[r], found'[r])
    BY <1>0, <1>2, <1>4, <2>1, ErrorFacts DEF StatusFor
  <2>3. /\ place' = [place EXCEPT ![r] = place'[r]]
        /\ err' = [err EXCEPT ![r] = err'[r]] /\ err'[r] \in Errors
    BY <1>4, <2>1, ErrorFacts
  <2> QED
    BY <1>0, <1>1, <1>2, <2>1, <2>2, <2>3, MoveKeeps
<1>5. CASE /\ place' = [place EXCEPT ![r] = "error"]
           /\ err' = [err EXCEPT ![r] = Wrapped(ApplicationError(400), 2)]
           /\ sent[r].body \in {"empty", "invalid"}
  <2>1. place'[r] = "error" /\ err'[r] = Wrapped(ApplicationError(400), 2)
    BY <1>0, <1>5 DEF HandlingTypeOK
  <2>2. ErrorStatus(err'[r]) = StatusFor(sent[r], found'[r])
    BY <1>0, <1>2, <1>5, <2>1, ErrorFacts DEF StatusFor
  <2>3. /\ place' = [place EXCEPT ![r] = place'[r]]
        /\ err' = [err EXCEPT ![r] = err'[r]] /\ err'[r] \in Errors
    BY <1>5, <2>1, ErrorFacts
  <2> QED
    BY <1>0, <1>1, <1>2, <2>1, <2>2, <2>3, MoveKeeps
<1> QED
  BY <1>1, <1>3, <1>4, <1>5 DEF DecodeRequest, Goto

\* The status of what a search returns survives the wrap of its endpoint.
LEMMA SearchKeeps ==
  ASSUME HandlingInv, NEW r \in Requests, Search(r)
  PROVE  HandlingInv'
<1>0. /\ HandlingTypeOK /\ place[r] = "search"
      /\ sent[r].to = "search" /\ sent[r].body = "valid"
      /\ UNCHANGED <<sent, reply, conn, received>>
  BY DEF HandlingInv, Search, At, Own
<1>1. /\ StatusFor(sent[r], "noFlights") = 404
      /\ StatusFor(sent[r], "failure") = 500
  BY <1>0 DEF StatusFor
<1>2. CASE /\ place' = [place EXCEPT ![r] = "encode"]
           /\ found' = [found EXCEPT ![r] = "flights"] /\ UNCHANGED err
  <2>1. /\ place'[r] = "encode" /\ found'[r] = "flights"
        /\ err' = [err EXCEPT ![r] = err'[r]] /\ err'[r] \in Errors
    BY <1>0, <1>2 DEF HandlingTypeOK
  <2> QED
    BY <1>0, <1>2, <2>1, MoveKeeps
<1>3. CASE /\ place' = [place EXCEPT ![r] = "error"]
           /\ found' = [found EXCEPT ![r] = "noFlights"]
           /\ err' = [err EXCEPT ![r] = Wrapped(ErrNoFlightsFound, 1)]
  <2>1. /\ place'[r] = "error" /\ found'[r] = "noFlights"
        /\ err'[r] = Wrapped(ErrNoFlightsFound, 1)
    BY <1>0, <1>3 DEF HandlingTypeOK
  <2>2. ErrorStatus(err'[r]) = StatusFor(sent[r], found'[r])
    BY <1>1, <2>1, ErrorFacts
  <2>3. /\ place' = [place EXCEPT ![r] = place'[r]]
        /\ found' = [found EXCEPT ![r] = found'[r]]
        /\ err' = [err EXCEPT ![r] = err'[r]] /\ err'[r] \in Errors
    BY <1>3, <2>1, ErrorFacts
  <2> QED
    BY <1>0, <2>1, <2>2, <2>3, MoveKeeps
<1>4. CASE /\ place' = [place EXCEPT ![r] = "error"]
           /\ found' = [found EXCEPT ![r] = "failure"]
           /\ err' = [err EXCEPT ![r] = Failure]
  <2>1. place'[r] = "error" /\ found'[r] = "failure" /\ err'[r] = Failure
    BY <1>0, <1>4 DEF HandlingTypeOK
  <2>2. ErrorStatus(err'[r]) = StatusFor(sent[r], found'[r])
    BY <1>1, <2>1, ErrorFacts
  <2>3. /\ place' = [place EXCEPT ![r] = place'[r]]
        /\ found' = [found EXCEPT ![r] = found'[r]]
        /\ err' = [err EXCEPT ![r] = err'[r]] /\ err'[r] \in Errors
    BY <1>4, <2>1, ErrorFacts
  <2> QED
    BY <1>0, <2>1, <2>2, <2>3, MoveKeeps
<1> QED
  BY <1>2, <1>3, <1>4 DEF Search, Goto

\* A success is written over no other status, and a failed write of one only where
\* the client is lost.
LEMMA EncodeKeeps ==
  ASSUME HandlingInv, NEW r \in Requests, ResponseWithBody(r)
  PROVE  HandlingInv'
<1>0. /\ HandlingTypeOK /\ place[r] = "encode" /\ Own(r)
      /\ sent[r].to = "search" /\ reply[r].status = 0
      /\ UNCHANGED <<sent, found, conn, received>>
  BY DEF HandlingInv, ResponseWithBody, At, Own
<1>1. /\ reply' = [reply EXCEPT ![r].status = 200]
      /\ \/ place' = [place EXCEPT ![r] = "written"] /\ UNCHANGED err
         \/ /\ place' = [place EXCEPT ![r] = "error"] /\ conn[r] = "lost"
            /\ err' = [err EXCEPT ![r] = Failure]
  BY <1>0 DEF ResponseWithBody, Goto, Write, Replied
<1>2. /\ place' \in [Requests -> {"router", "decode", "search", "encode", "error", "written"}]
      /\ err' \in [Requests -> Errors]
  BY <1>0, <1>1, ErrorFacts DEF HandlingTypeOK
<1>3. /\ reply' \in [Requests -> [status : Statuses \cup {0}, id : {"none", "given", "fresh"}]]
      /\ reply'[r].status = 200 /\ reply'[r].id = reply[r].id
      /\ \A q \in Requests : q # r => reply'[q] = reply[q]
  BY <1>0, <1>1 DEF HandlingTypeOK, Statuses
<1>4. HandlingTypeOK'
  BY <1>0, <1>2, <1>3 DEF HandlingTypeOK
<1>5. Own(r)'
  <2>1. /\ place'[r] \in {"written", "error"} /\ sent'[r] = sent[r]
        /\ place'[r] = "error" => conn'[r] # "open"
        /\ received'[r] = 0
    BY <1>0, <1>1 DEF HandlingTypeOK, Own
  <2>2. /\ ReplyId(sent[r])' = ReplyId(sent[r])
        /\ StatusFor(sent[r], found[r])' = 200 /\ found'[r] # "panic"
    BY <1>0 DEF ReplyId, Enters, StatusFor, Own
  <2> QED
    BY <1>0, <1>3, <2>1, <2>2 DEF Own
<1>6. ASSUME NEW q \in Requests, q # r PROVE Own(q)'
  <2>1. place'[q] = place[q] /\ err'[q] = err[q]
    BY <1>0, <1>1, <1>6 DEF HandlingTypeOK
  <2> QED
    BY <1>0, <1>3, <1>6, <2>1, OwnFrame DEF HandlingInv
<1> QED
  BY <1>4, <1>5, <1>6 DEF HandlingInv

\* A handler that writes a status as the last of its doings: the status of its
\* outcome, unless one is written, or its client is lost.
LEMMA WriteKeeps ==
  ASSUME HandlingInv, NEW r \in Requests, NEW status \in Statuses,
         place[r] \in {"decode", "search", "encode", "error"},
         UNCHANGED <<sent, err, conn, received>>,
         place' = [place EXCEPT ![r] = "written"],
         found' = [found EXCEPT ![r] = found'[r]],
         found'[r] \in {"nothing", "flights", "noFlights", "failure", "panic"},
         Write(r, status),
         status = StatusFor(sent[r], found'[r]) \/ conn[r] # "open"
  PROVE  HandlingInv'
<1>0. HandlingTypeOK /\ Own(r) /\ reply[r].status \in Statuses \cup {0}
  BY DEF HandlingInv, HandlingTypeOK
<1>1. /\ reply' \in [Requests -> [status : Statuses \cup {0}, id : {"none", "given", "fresh"}]]
      /\ reply'[r].status = (IF reply[r].status = 0 THEN status ELSE reply[r].status)
      /\ reply'[r].id = reply[r].id
      /\ \A q \in Requests : q # r => reply'[q] = reply[q]
  <2>1. reply[r] \in [status : Statuses \cup {0}, id : {"none", "given", "fresh"}]
    BY <1>0 DEF HandlingTypeOK
  <2> QED
    BY <1>0, <2>1 DEF HandlingTypeOK, Write, Replied
<1>2. HandlingTypeOK'
  BY <1>0, <1>1 DEF HandlingTypeOK
<1>3. Own(r)'
  <2>1. /\ place'[r] = "written" /\ sent'[r] = sent[r] /\ received'[r] = 0
        /\ reply[r].status = 0 \/ conn[r] # "open"
    BY <1>0 DEF HandlingTypeOK, Own
  <2>2. /\ ReplyId(sent[r])' = ReplyId(sent[r])
        /\ StatusFor(sent[r], found[r])' = StatusFor(sent[r], found'[r])
    BY DEF ReplyId, Enters, StatusFor
  <2> QED
    BY <1>0, <1>1, <2>1, <2>2 DEF Own
<1>4. ASSUME NEW q \in Requests, q # r PROVE Own(q)'
  <2>1. place'[q] = place[q] /\ found'[q] = found[q]
    BY <1>0, <1>4 DEF HandlingTypeOK
  <2> QED
    BY <1>1, <1>4, <2>1, OwnFrame DEF HandlingInv
<1> QED
  BY <1>2, <1>3, <1>4 DEF HandlingInv

\* ErrorResponse writes the status of the outcome, if none is written.
LEMMA ErrorKeeps ==
  ASSUME HandlingInv, NEW r \in Requests, ErrorResponse(r)
  PROVE  HandlingInv'
<1>0. /\ HandlingTypeOK /\ place[r] = "error" /\ Own(r) /\ err[r] \in Errors
      /\ UNCHANGED <<sent, found, err, conn, received>>
      /\ Write(r, ErrorStatus(err[r]))
      /\ place' = [place EXCEPT ![r] = "written"]
  BY DEF HandlingInv, HandlingTypeOK, ErrorResponse, At, Goto
<1>1. ErrorStatus(err[r]) \in Statuses
  <2>1. err[r].app = TRUE => err[r].status \in {400, 404}
    BY <1>0 DEF Errors
  <2> QED
    BY <2>1 DEF ErrorStatus, Statuses
<1>2. ErrorStatus(err[r]) = StatusFor(sent[r], found'[r]) \/ conn[r] # "open"
  BY <1>0 DEF Own
<1>3. /\ found' = [found EXCEPT ![r] = found'[r]]
      /\ found'[r] \in {"nothing", "flights", "noFlights", "failure", "panic"}
  BY <1>0 DEF HandlingTypeOK
<1> QED
  BY <1>0, <1>1, <1>2, <1>3, WriteKeeps

\* A panic of a search is recovered, with the status of a panic.
LEMMA PanicKeeps ==
  ASSUME HandlingInv, NEW r \in Requests, Panic(r)
  PROVE  HandlingInv'
<1> USE SentAssumption
<1>0. /\ HandlingTypeOK /\ sent[r] \in SentTypes /\ sent[r].to = "search"
      /\ place[r] \in {"decode", "search", "encode", "error"}
  BY DEF HandlingInv, HandlingTypeOK, Panic, At, Own
<1>1. /\ Write(r, 500) /\ UNCHANGED <<sent, err, conn, received>>
      /\ place' = [place EXCEPT ![r] = "written"]
      /\ found' = [found EXCEPT ![r] = "panic"]
  BY <1>0, ChainOrder DEF Panic, Goto
<1>2. /\ found'[r] = "panic" /\ found' = [found EXCEPT ![r] = found'[r]]
      /\ 500 = StatusFor(sent[r], found'[r]) /\ 500 \in Statuses
  BY <1>0, <1>1 DEF HandlingTypeOK, StatusFor, Statuses
<1> QED
  BY <1>0, <1>1, <1>2, WriteKeeps

\* The client gets what is written if it is there.
LEMMA DeliverKeeps ==
  ASSUME HandlingInv, NEW r \in Requests, Deliver(r)
  PROVE  HandlingInv'
<1>0. /\ HandlingTypeOK /\ Own(r) /\ place[r] = "written"
      /\ reply[r].status \in Statuses \cup {0}
      /\ received' = [received EXCEPT ![r] = IF conn[r] = "open"
                                             THEN reply[r].status ELSE 0]
      /\ UNCHANGED <<sent, place, found, err, reply, conn>>
  BY DEF HandlingInv, HandlingTypeOK, Deliver, At
<1>1. HandlingTypeOK'
  BY <1>0 DEF HandlingTypeOK
<1>2. Own(r)'
  <2>1. received'[r] = IF conn[r] = "open" THEN reply[r].status ELSE 0
    BY <1>0 DEF HandlingTypeOK
  <2>2. /\ ReplyId(sent[r])' = ReplyId(sent[r])
        /\ StatusFor(sent[r], found[r])' = StatusFor(sent[r], found[r])
    BY <1>0 DEF ReplyId, Enters, StatusFor
  <2> QED
    BY <1>0, <2>1, <2>2 DEF Own
<1>3. ASSUME NEW q \in Requests, q # r PROVE Own(q)'
  BY <1>0, <1>3, OwnFrame DEF HandlingInv, HandlingTypeOK
<1> QED
  BY <1>1, <1>2, <1>3 DEF HandlingInv

\* A lost connection changes no status and is not found again.
LEMMA LoseKeeps ==
  ASSUME HandlingInv, NEW r \in Requests, LoseConnection(r)
  PROVE  HandlingInv'
<1>0. /\ HandlingTypeOK /\ Own(r) /\ conn' = [conn EXCEPT ![r] = "lost"]
      /\ UNCHANGED <<sent, place, found, err, reply, received>>
  BY DEF HandlingInv, LoseConnection
<1>1. HandlingTypeOK'
  BY <1>0 DEF HandlingTypeOK
<1>2. Own(r)'
  <2>1. conn'[r] = "lost"
    BY <1>0 DEF HandlingTypeOK
  <2>2. /\ ReplyId(sent[r])' = ReplyId(sent[r])
        /\ StatusFor(sent[r], found[r])' = StatusFor(sent[r], found[r])
    BY <1>0 DEF ReplyId, Enters, StatusFor
  <2> QED
    BY <1>0, <2>1, <2>2 DEF Own
<1>3. ASSUME NEW q \in Requests, q # r PROVE Own(q)'
  BY <1>0, <1>3, OwnFrame DEF HandlingInv, HandlingTypeOK
<1> QED
  BY <1>1, <1>2, <1>3 DEF HandlingInv

-----------------------------------------------------------------------------
\* The inductive invariant: what every handler knows where it is.
THEOREM HandlingInvariant == HandlingSpec => []HandlingInv
<1>1. ASSUME HandlingInv, [HandlingNext]_handlingVars PROVE HandlingInv'
  <2>1. CASE UNCHANGED handlerVars
    <3>1. HandlingTypeOK'
      BY <1>1, <2>1 DEF HandlingInv, HandlingTypeOK, handlerVars
    <3>2. ASSUME NEW q \in Requests PROVE Own(q)'
      BY <1>1, <2>1, OwnFrame DEF HandlingInv, handlerVars
    <3> QED
      BY <3>1, <3>2 DEF HandlingInv
  <2>2. ASSUME NEW r \in Requests, Handle(r) PROVE HandlingInv'
    BY <1>1, <2>2, RouteKeeps, DecodeKeeps, SearchKeeps, EncodeKeeps, ErrorKeeps,
       PanicKeeps DEF Handle, Serve
  <2>3. ASSUME NEW r \in Requests, LoseConnection(r) PROVE HandlingInv'
    BY <1>1, <2>3, LoseKeeps
  <2>4. ASSUME NEW r \in Requests, Deliver(r) PROVE HandlingInv'
    BY <1>1, <2>4, DeliverKeeps
  <2> QED
    BY <1>1, <2>1, <2>2, <2>3, <2>4 DEF HandlingNext, handlingVars
<1> QED
  BY <1>1, HandlingInitially, PTL DEF HandlingSpec

\* The handlers keep their types: no error asks WriteHeader for a status there is not.
THEOREM HandlingTypeCorrect == HandlingSpec => []HandlingTypeOK
<1>1. HandlingInv => HandlingTypeOK
  BY DEF HandlingInv
<1> QED
  BY <1>1, HandlingInvariant, PTL

\* Whoever gets a reply can tell the outcome from its status.
THEOREM RepliesTellOutcome == HandlingSpec => []ReplyTellsOutcome
<1>1. HandlingInv => ReplyTellsOutcome
  BY DEF HandlingInv, Own, ReplyTellsOutcome
<1> QED
  BY <1>1, HandlingInvariant, PTL

\* Whoever gets a reply of the API gets the id of its request.
THEOREM RepliesAreIdentified == HandlingSpec => []RepliesIdentified
<1>1. ASSUME HandlingInv PROVE RepliesIdentified
  <2>1. ASSUME NEW r \in Requests, received[r] # 0, sent[r].to # "health"
        PROVE  reply[r].id = (IF sent[r].id THEN "given" ELSE "fresh")
    <3>1. sent[r] \in SentTypes
      BY <1>1, SentAssumption DEF HandlingInv, HandlingTypeOK
    <3>2. reply[r].id = ReplyId(sent[r])
      BY <1>1, <2>1 DEF HandlingInv, Own
    <3> QED
      BY <2>1, <3>1, <3>2, ChainOrder
  <2> QED
    BY <2>1 DEF RepliesIdentified
<1> QED
  BY <1>1, HandlingInvariant, PTL

-----------------------------------------------------------------------------
(* No handler ends in silence                                              *)

\* Recoverer keeps every panic from the connection, and what a handler that is
\* done has written has reached its client, or the client is lost.
Told(r) ==
  /\ conn[r] # "aborted"
  /\ request[r] = "done" /\ conn[r] = "open" => received[r] # 0

LEMMA ToldFrame ==
  ASSUME NEW q, Told(q),
         conn'[q] = conn[q], received'[q] = received[q],
         request'[q] = "done" => request[q] = "done"
  PROVE  Told(q)'
BY DEF Told

LEMMA StatusNotZero == \A s, outcome : StatusFor(s, outcome) # 0
BY DEF StatusFor

\* A step of the process ends no handler: those it interrupts are lost.
LEMMA ProcessFinishesNone ==
  ASSUME TypeOK, NEW q \in Requests, request'[q] = "done",
         ProcessStep \/ UNCHANGED vars
  PROVE  request[q] = "done"
<1>1. CASE Signal \/ RunApp
  BY <1>1 DEF Signal, RunApp, Notify, Select, Wait, Exit, ProcessEnds, TypeOK
<1>2. CASE ServerStep \/ TakeConnection \/ UNCHANGED vars
  BY <1>2 DEF ServerStep, StartHTTPServer, ContextDone, CloseListeners,
              ShutdownReturns, TakeConnection, vars
<1>3. CASE ListenerStep
  BY <1>3 DEF ListenerStep, ListenAndServe, Listen, TrackListener, ServeReturns,
              Accept, TypeOK
<1> QED
  BY <1>1, <1>2, <1>3 DEF ProcessStep

LEMMA ServeTells ==
  ASSUME HandlingInv, NEW r \in Requests, Handle(r) \/ LoseConnection(r),
         UNCHANGED vars, NEW q \in Requests, Told(q)
  PROVE  Told(q)'
<1> USE SentAssumption
<1>0. HandlingTypeOK /\ request' = request
  BY DEF HandlingInv, vars
<1>1. CASE Serve(r)
  <2>1. conn' = conn /\ received' = received
    BY <1>1 DEF Serve, Route, DecodeRequest, Search, ResponseWithBody, ErrorResponse
  <2> QED
    BY <1>0, <2>1, ToldFrame
<1>2. CASE Panic(r)
  <2>1. sent[r] \in SentTypes /\ sent[r].to = "search"
    BY <1>2 DEF HandlingInv, HandlingTypeOK, Panic, At, Own
  <2>2. conn' = conn /\ received' = received
    BY <1>2, <2>1, ChainOrder DEF Panic
  <2> QED
    BY <1>0, <2>2, ToldFrame
<1>3. CASE LoseConnection(r)
  BY <1>0, <1>3 DEF LoseConnection, Told, HandlingTypeOK
<1> QED
  BY <1>1, <1>2, <1>3 DEF Handle

LEMMA DeliverTells ==
  ASSUME HandlingInv, TypeOK, NEW r \in Requests, Deliver(r),
         NEW q \in Requests, Told(q)
  PROVE  Told(q)'
<1>0. /\ HandlingTypeOK /\ Own(r) /\ place[r] = "written"
      /\ received' = [received EXCEPT ![r] = IF conn[r] = "open"
                                             THEN reply[r].status ELSE 0]
      /\ conn' = conn /\ request' = [request EXCEPT ![r] = "done"]
  BY DEF HandlingInv, Deliver, At, Finish
<1>1. CASE q = r
  <2>1. conn[r] = "open" => reply[r].status # 0
    BY <1>0, StatusNotZero DEF Own
  <2> QED
    BY <1>0, <1>1, <2>1 DEF HandlingTypeOK, Told
<1>2. CASE q # r
  BY <1>0, <1>2, ToldFrame DEF HandlingTypeOK, TypeOK
<1> QED
  BY <1>1, <1>2

\* Every handler that comes to its end, by a panic too, has answered its client,
\* unless that one is lost: Recoverer is inside CORS and RequestID, and no way
\* through the handler forgets to write a status.
THEOREM NoReplyIsSilent == HandlingSpec => []NoSilentReply
<1> DEFINE AllTold == \A q \in Requests : Told(q)
<1>1. HandlingInit => AllTold
  BY DEF HandlingInit, Init, Told
<1>2. HandlingInv /\ TypeOK /\ AllTold /\ [HandlingNext]_handlingVars => AllTold'
  <2> SUFFICES ASSUME HandlingInv, TypeOK, AllTold, [HandlingNext]_handlingVars,
                      NEW q \in Requests
               PROVE  Told(q)'
    OBVIOUS
  <2>1. CASE UNCHANGED handlerVars /\ (ProcessStep \/ UNCHANGED vars)
    BY <2>1, ProcessFinishesNone, ToldFrame DEF handlerVars
  <2>2. ASSUME NEW r \in Requests, Handle(r) \/ LoseConnection(r), UNCHANGED vars
        PROVE  Told(q)'
    BY <2>2, ServeTells
  <2>3. ASSUME NEW r \in Requests, Deliver(r) PROVE Told(q)'
    BY <2>3, DeliverTells
  <2> QED
    BY <2>1, <2>2, <2>3 DEF HandlingNext, handlingVars
<1>3. HandlingInv /\ AllTold => NoSilentReply
  BY DEF HandlingInv, HandlingTypeOK, Told, NoSilentReply
<1>4. HandlingSpec => []TypeOK
  BY HandlingImplementsLifecycle, LifecycleTypeCorrect, PTL
<1> QED
  BY <1>1, <1>2, <1>3, <1>4, HandlingInvariant, PTL DEF HandlingSpec

-----------------------------------------------------------------------------
(* Every client that waits is answered                                     *)
(*                                                                         *)
(* A handler goes from place to place without ever going back.             *)

\* Where a handler may be after its step from each place.
Onward(p) ==
  CASE p = "router" -> {"decode", "written"}
    [] p = "decode" -> {"search", "error", "written"}
    [] p = "search" -> {"encode", "error", "written"}
    [] p = "encode" -> {"error", "written"}
    [] p = "error"  -> {"written"}
    [] OTHER        -> {}

Answered(r) == received[r] # 0 \/ conn[r] = "lost" \/ ~Alive
Reached(r, places) == (Running(r) /\ place[r] \in places) \/ Answered(r)

LEMMA HandleOnward ==
  ASSUME HandlingTypeOK, NEW r \in Requests, Handle(r), UNCHANGED vars
  PROVE  Running(r)' /\ place'[r] \in Onward(place[r])
<1>0. Running(r)' = Running(r)
  BY DEF Running, Alive, vars
<1>1. CASE Route(r)
  BY <1>0, <1>1 DEF Route, At, Goto, HandlingTypeOK, Onward
<1>2. CASE DecodeRequest(r) \/ Search(r)
  BY <1>0, <1>2 DEF DecodeRequest, Search, At, Goto, HandlingTypeOK, Onward
<1>3. CASE ResponseWithBody(r) \/ ErrorResponse(r)
  BY <1>0, <1>3 DEF ResponseWithBody, ErrorResponse, At, Goto, HandlingTypeOK, Onward
<1>4. CASE Panic(r)
  BY <1>0, <1>4 DEF Panic, At, Goto, HandlingTypeOK, Onward
<1> QED
  BY <1>1, <1>2, <1>3, <1>4 DEF Handle, Serve

\* What was delivered was an answer.
LEMMA DeliverAnswers ==
  ASSUME HandlingTypeOK, TypeOK, NoSilentReply', NEW r \in Requests, Deliver(r)
  PROVE  Answered(r)'
<1>1. request'[r] = "done"
  BY DEF Deliver, Finish, TypeOK
<1> QED
  BY <1>1 DEF NoSilentReply, Answered

\* The process leaves a handler alone until it ends.
LEMMA ProcessLeaves ==
  ASSUME TypeOK, NEW r \in Requests, Running(r),
         ProcessStep \/ UNCHANGED vars
  PROVE  Running(r)' \/ ~Alive'
<1> USE DEF Running, Alive
<1>1. CASE Signal \/ RunApp
  BY <1>1 DEF Signal, RunApp, Notify, Select, Wait, Exit, ProcessEnds
<1>2. CASE ServerStep \/ TakeConnection \/ UNCHANGED vars
  BY <1>2 DEF ServerStep, StartHTTPServer, ContextDone, CloseListeners,
              ShutdownReturns, TakeConnection, vars
<1>3. CASE ListenerStep
  BY <1>3 DEF ListenerStep, ListenAndServe, Listen, TrackListener, ServeReturns,
              Accept, TypeOK
<1> QED
  BY <1>1, <1>2, <1>3 DEF ProcessStep

\* Nobody's step moves the handler of r back or ends it without an answer.
LEMMA OnlyOnward ==
  ASSUME HandlingTypeOK, TypeOK, NoSilentReply', NEW r \in Requests, Running(r),
         [HandlingNext]_handlingVars
  PROVE  \/ Running(r)' /\ place'[r] \in Onward(place[r]) \cup {place[r]}
         \/ Answered(r)'
<1> DEFINE next == Onward(place[r]) \cup {place[r]}
<1>1. CASE UNCHANGED handlerVars /\ (ProcessStep \/ UNCHANGED vars)
  BY <1>1, ProcessLeaves DEF handlerVars, Answered
<1>2. ASSUME NEW q \in Requests, Handle(q) \/ LoseConnection(q), UNCHANGED vars
      PROVE  Running(r)' /\ place'[r] \in next
  <2>1. Running(r)'
    BY <1>2 DEF Running, Alive, vars
  <2>2. CASE LoseConnection(q)
    BY <2>1, <2>2 DEF LoseConnection
  <2>3. CASE Handle(q) /\ q = r
    BY <1>2, <2>3, HandleOnward
  <2>4. CASE Handle(q) /\ q # r
    BY <2>1, <2>4
    DEF Handle, Serve, Route, DecodeRequest, Search, ResponseWithBody,
        ErrorResponse, Panic, Goto, HandlingTypeOK
  <2> QED
    BY <1>2, <2>2, <2>3, <2>4
<1>3. ASSUME NEW q \in Requests, Deliver(q)
      PROVE  (Running(r)' /\ place'[r] \in next) \/ Answered(r)'
  <2>1. CASE q = r
    BY <1>3, <2>1, DeliverAnswers
  <2>2. CASE q # r
    BY <1>3, <2>2 DEF Deliver, Finish, Running, Alive, TypeOK
  <2> QED
    BY <2>1, <2>2
<1> QED
  BY <1>1, <1>2, <1>3 DEF HandlingNext, handlingVars

\* The handler of r leaves place p for a later one, or has answered.
LeavesFor(r, p) == (Running(r) /\ place[r] = p) ~> Reached(r, Onward(p))

HandlerPlaces == {"router", "decode", "search", "encode", "error", "written"}

\* What the steps of a handler rest on.
StepsInv == HandlingTypeOK /\ TypeOK /\ NoSilentReply

LEMMA StepsSafe == HandlingSpec => []StepsInv
<1>1. HandlingSpec => []TypeOK
  BY HandlingImplementsLifecycle, LifecycleTypeCorrect, PTL
<1> QED
  BY <1>1, HandlingTypeCorrect, NoReplyIsSilent, PTL DEF StepsInv

LEMMA PlaceLeft ==
  ASSUME NEW r \in Requests, NEW p \in HandlerPlaces
  PROVE  HandlingSpec /\ HandlerScheduled(r) /\ []HandlerNeverStuck => LeavesFor(r, p)
<1> DEFINE Here  == Running(r) /\ place[r] = p
           There == Reached(r, Onward(p))
<1>1. StepsInv /\ StepsInv' /\ Here /\ [HandlingNext]_handlingVars => Here' \/ There'
  BY OnlyOnward DEF StepsInv, Reached
<1>2. p # "written" /\ StepsInv /\ StepsInv' /\ Here
        /\ <<Serve(r) /\ UNCHANGED vars>>_handlingVars => There'
  BY HandleOnward DEF StepsInv, Reached, Handle
<1>3. StepsInv /\ StepsInv' /\ Here /\ <<Deliver(r)>>_handlingVars => There'
  BY DeliverAnswers DEF StepsInv, Reached
<1>4. p # "written" /\ HandlerNeverStuck /\ Here
        => ENABLED <<Serve(r) /\ UNCHANGED vars>>_handlingVars
  BY DEF HandlerNeverStuck
<1>5. p = "written" /\ HandlerNeverStuck /\ Here => ENABLED <<Deliver(r)>>_handlingVars
  BY DEF HandlerNeverStuck
<1> HIDE DEF Here, There
<1>6. HandlingSpec /\ HandlerScheduled(r) /\ []HandlerNeverStuck => (Here ~> There)
  <2>1. CASE p = "written"
    BY <1>1, <1>3, <1>5, <2>1, StepsSafe, PTL DEF HandlingSpec, HandlerScheduled
  <2>2. CASE p # "written"
    BY <1>1, <1>2, <1>4, <2>2, StepsSafe, PTL DEF HandlingSpec, HandlerScheduled
  <2> QED
    BY <2>1, <2>2
<1> QED
  BY <1>6 DEF Here, There, LeavesFor

LEMMA OneAnswered ==
  ASSUME NEW r \in Requests
  PROVE  HandlingSpec /\ HandlerScheduled(r) /\ []HandlerNeverStuck
           => (request[r] = "running" ~>
                 received[r] # 0 \/ conn[r] = "lost" \/ ~Alive)
<1> DEFINE In(p) == Running(r) /\ place[r] = p
           Fair == HandlingSpec /\ HandlerScheduled(r) /\ []HandlerNeverStuck
<1>1. Fair => (In("written") ~> Answered(r))
  <2>1. Fair => LeavesFor(r, "written")
    BY PlaceLeft DEF HandlerPlaces
  <2>2. Reached(r, Onward("written")) => Answered(r)
    BY DEF Reached, Onward
  <2> QED
    BY <2>1, <2>2, PTL DEF LeavesFor
<1>2. Fair => (In("error") ~> In("written") \/ Answered(r))
  <2>1. Fair => LeavesFor(r, "error")
    BY PlaceLeft DEF HandlerPlaces
  <2>2. Reached(r, Onward("error")) => In("written") \/ Answered(r)
    BY DEF Reached, Onward
  <2> QED
    BY <2>1, <2>2, PTL DEF LeavesFor
<1>3. Fair => (In("encode") ~> In("error") \/ In("written") \/ Answered(r))
  <2>1. Fair => LeavesFor(r, "encode")
    BY PlaceLeft DEF HandlerPlaces
  <2>2. Reached(r, Onward("encode")) => In("error") \/ In("written") \/ Answered(r)
    BY DEF Reached, Onward
  <2> QED
    BY <2>1, <2>2, PTL DEF LeavesFor
<1>4. Fair => (In("search") ~> In("encode") \/ In("error") \/ In("written") \/ Answered(r))
  <2>1. Fair => LeavesFor(r, "search")
    BY PlaceLeft DEF HandlerPlaces
  <2>2. Reached(r, Onward("search")) => In("encode") \/ In("error") \/ In("written") \/ Answered(r)
    BY DEF Reached, Onward
  <2> QED
    BY <2>1, <2>2, PTL DEF LeavesFor
<1>5. Fair => (In("decode") ~> In("search") \/ In("error") \/ In("written") \/ Answered(r))
  <2>1. Fair => LeavesFor(r, "decode")
    BY PlaceLeft DEF HandlerPlaces
  <2>2. Reached(r, Onward("decode")) => In("search") \/ In("error") \/ In("written") \/ Answered(r)
    BY DEF Reached, Onward
  <2> QED
    BY <2>1, <2>2, PTL DEF LeavesFor
<1>6. Fair => (In("router") ~> In("decode") \/ In("written") \/ Answered(r))
  <2>1. Fair => LeavesFor(r, "router")
    BY PlaceLeft DEF HandlerPlaces
  <2>2. Reached(r, Onward("router")) => In("decode") \/ In("written") \/ Answered(r)
    BY DEF Reached, Onward
  <2> QED
    BY <2>1, <2>2, PTL DEF LeavesFor
<1>7. StepsInv /\ request[r] = "running"
        => \/ In("router") \/ In("decode") \/ In("search") \/ In("encode")
           \/ In("error") \/ In("written") \/ Answered(r)
  BY DEF StepsInv, HandlingTypeOK, Running, Answered
<1>8. Answered(r) <=> received[r] # 0 \/ conn[r] = "lost" \/ ~Alive
  BY DEF Answered
<1> QED
  BY <1>1, <1>2, <1>3, <1>4, <1>5, <1>6, <1>7, <1>8, StepsSafe, PTL

\* A client that waits gets its answer, whatever it sent, whatever the search and
\* the other handlers do, unless the process ends before: given that a handler can
\* always go on (HandlerNeverStuck) and that the runtime schedules it.
THEOREM WaitingClientsAnswered ==
  HandlingSpec /\ []HandlerNeverStuck => EveryRequestAnswered
BY OneAnswered DEF EveryRequestAnswered, HandlersScheduled
=============================================================================
