-------------------------- MODULE RequestHandling --------------------------
(***************************************************************************)
(* The handlers of the requests of ServerLifecycle: the router and its     *)
(* middlewares, the go-kit server with its decoder, endpoint and encoders, *)
(* and what the client receives. The search itself is SearchFlights.       *)
(***************************************************************************)
EXTENDS ServerLifecycle, Sequences

\* Bound: the kinds of request a client may send.
CONSTANT Sent

\* A body that is no JSON, is cut short or outlasts ReadTimeout is unreadable, one
\* that Validate refuses is invalid. id: the client names its request.
SentTypes == [to : {"health", "preflight", "search"},
              body : {"empty", "unreadable", "invalid", "valid"},
              json : BOOLEAN,
              id : BOOLEAN]

ASSUME SentAssumption == Sent \subseteq SentTypes

VARIABLES
  sent,       \* what each client sends
  place,      \* of the handler: "router", "decode", "search", "encode",
              \* "error" (ErrorResponse), "written"
  found,      \* what SearchFlights returned: "nothing" yet, "flights", "noFlights",
              \* "failure"; "panic" if the handler did not come to its end
  err,        \* the error on its way to ErrorResponse
  reply,      \* status (0: no WriteHeader yet) and X-Request-Id
  conn,       \* "open"; "lost" to the client or WriteTimeout; "aborted" by a panic
  received    \* the status that reached the client, 0 for none

handlerVars == <<sent, place, found, err, reply, conn, received>>
handlingVars == <<vars, handlerVars>>

-----------------------------------------------------------------------------
\* An error: whether an ApplicationError is in its chain, that one's status, and
\* how many times fmt.Errorf wrapped it.
NoError == [app |-> FALSE, status |-> 0, wraps |-> 0]
ApplicationError(status) == [app |-> TRUE, status |-> status, wraps |-> 0]
Failure == [app |-> FALSE, status |-> 0, wraps |-> 1]
Wrapped(e, times) == [app |-> e.app, status |-> e.status, wraps |-> e.wraps + times]

ErrNoFlightsFoundBare == ApplicationError(0)
ErrNoFlightsFound == ApplicationError(404)

\* errors.As looks through every wrap.
ErrorStatusUnwrapped(e) == IF e.app /\ e.wraps = 0 THEN e.status ELSE 500
ErrorStatus(e) == IF e.app THEN e.status ELSE 500

\* The middlewares of /api/v1/flights, the outermost first; /health has none.
ChainCORSFirst == <<"CORS", "RequestID", "Recoverer", "SetContentType">>
ChainUnrecovered == <<"RequestID", "CORS", "SetContentType">>
Chain == <<"RequestID", "CORS", "Recoverer", "SetContentType">>

\* CORS answers a preflight request and passes it to nothing behind it.
Enters(s, middleware) ==
  /\ s.to # "health"
  /\ \E i \in DOMAIN Chain :
       /\ Chain[i] = middleware
       /\ s.to = "preflight" => \A j \in 1..(i - 1) : Chain[j] # "CORS"

ReplyId(s) ==
  IF ~Enters(s, "RequestID") THEN "none" ELSE IF s.id THEN "given" ELSE "fresh"

\* The body is read as JSON whatever the client calls it, behind SetContentType.
ReadAsJSON(s) == Enters(s, "SetContentType") \/ s.json

\* The first WriteHeader counts.
Replied(r, status) == IF reply[r].status = 0 THEN status ELSE reply[r].status

Running(r) == Alive /\ request[r] = "running"
At(r, p) == Running(r) /\ place[r] = p
Goto(r, p) == place' = [place EXCEPT ![r] = p]
WriteOnce(r, status) ==
  reply[r].status = 0 /\ reply' = [reply EXCEPT ![r].status = status]
Write(r, status) == reply' = [reply EXCEPT ![r].status = Replied(r, status)]

-----------------------------------------------------------------------------
HandlingInit ==
  /\ Init
  /\ sent \in [Requests -> Sent]
  /\ place = [r \in Requests |-> "router"]
  /\ found = [r \in Requests |-> "nothing"]
  /\ err = [r \in Requests |-> NoError]
  /\ reply = [r \in Requests |-> [status |-> 0, id |-> "none"]]
  /\ conn = [r \in Requests |-> "open"]
  /\ received = [r \in Requests |-> 0]

\* The router and the middlewares up to the handler or the reply.
Route(r) ==
  /\ At(r, "router")
  /\ LET s == sent[r] IN
     /\ reply' = [reply EXCEPT ![r] =
                    [status |-> IF s.to = "health" THEN 204
                                ELSE IF s.to = "preflight" THEN 200 ELSE 0,
                     id |-> ReplyId(s)]]
     /\ Goto(r, IF s.to = "search" THEN "decode" ELSE "written")
  /\ UNCHANGED <<sent, found, err, conn, received>>

\* No body, and one that is not read, leave empty criteria, which are invalid.
DecodeRequest(r) ==
  /\ At(r, "decode")
  /\ LET read == ReadAsJSON(sent[r])
         body == sent[r].body
     IN  \/ /\ read /\ body = "unreadable"
            /\ err' = [err EXCEPT ![r] = Failure]
            /\ Goto(r, "error")
         \/ /\ ~read \/ body \in {"empty", "invalid"}
            /\ err' = [err EXCEPT ![r] = Wrapped(ApplicationError(400), 2)]
            /\ Goto(r, "error")
         \/ /\ read /\ body = "valid"
            /\ Goto(r, "search")
            /\ UNCHANGED err
  /\ UNCHANGED <<sent, found, reply, conn, received>>

\* service.SearchFlights returns, and its endpoint wraps the error.
Search(r) ==
  /\ At(r, "search")
  /\ \/ /\ found' = [found EXCEPT ![r] = "flights"]
        /\ Goto(r, "encode")
        /\ UNCHANGED err
     \/ /\ found' = [found EXCEPT ![r] = "noFlights"]
        /\ err' = [err EXCEPT ![r] = Wrapped(ErrNoFlightsFound, 1)]
        /\ Goto(r, "error")
     \/ /\ found' = [found EXCEPT ![r] = "failure"]
        /\ err' = [err EXCEPT ![r] = Failure]
        /\ Goto(r, "error")
  /\ UNCHANGED <<sent, reply, conn, received>>

\* The write fails only on a lost connection, and there only if the answer
\* outgrows the buffers: the error then finds its status taken.
ResponseWithBody(r) ==
  /\ At(r, "encode")
  /\ Write(r, 200)
  /\ \/ /\ Goto(r, "written")
        /\ UNCHANGED err
     \/ /\ conn[r] = "lost"
        /\ err' = [err EXCEPT ![r] = Failure]
        /\ Goto(r, "error")
  /\ UNCHANGED <<sent, found, conn, received>>

ErrorResponse(r) ==
  /\ At(r, "error")
  /\ Write(r, ErrorStatus(err[r]))
  /\ Goto(r, "written")
  /\ UNCHANGED <<sent, found, err, conn, received>>

\* Anything behind the middlewares may panic. Without Recoverer net/http ends the
\* connection.
Panic(r) ==
  /\ \E p \in {"decode", "search", "encode", "error"} : At(r, p)
  /\ found' = [found EXCEPT ![r] = "panic"]
  /\ Goto(r, "written")
  /\ \/ /\ Enters(sent[r], "Recoverer")
        /\ Write(r, 500)
        /\ UNCHANGED conn
     \/ /\ ~Enters(sent[r], "Recoverer")
        /\ conn' = [conn EXCEPT ![r] = "aborted"]
        /\ UNCHANGED reply
  /\ UNCHANGED <<sent, err, received>>

\* The client leaves, of which its context tells a search, or WriteTimeout passes,
\* of which nothing tells the handler.
LoseConnection(r) ==
  /\ Running(r) /\ conn[r] = "open"
  /\ conn' = [conn EXCEPT ![r] = "lost"]
  /\ UNCHANGED <<sent, place, found, err, reply, received>>

\* The handler returns and net/http sends what it buffered.
Deliver(r) ==
  /\ At(r, "written")
  /\ Finish(r)
  /\ received' = [received EXCEPT ![r] = IF conn[r] = "open"
                                         THEN reply[r].status ELSE 0]
  /\ UNCHANGED <<sent, place, found, err, reply, conn>>

Serve(r) == Route(r) \/ DecodeRequest(r) \/ Search(r) \/ ResponseWithBody(r)
            \/ ErrorResponse(r)
Handle(r) == Serve(r) \/ Panic(r)

HandlingNext ==
  \/ ProcessStep /\ UNCHANGED handlerVars
  \/ \E r \in Requests : (Handle(r) \/ LoseConnection(r)) /\ UNCHANGED vars
  \/ \E r \in Requests : Deliver(r)

HandlingSpec == HandlingInit /\ [][HandlingNext]_handlingVars

\* As in ServerLifecycle: handlers may take for ever.
HandlingFairSpec ==
  /\ HandlingSpec
  /\ WF_handlingVars(RunApp /\ UNCHANGED handlerVars)
  /\ WF_handlingVars(ServerStep /\ UNCHANGED handlerVars)
  /\ WF_handlingVars(ListenerStep /\ UNCHANGED handlerVars)

-----------------------------------------------------------------------------
\* Types. In particular every ApplicationError has a status WriteHeader accepts.
Errors == [app : {FALSE}, status : {0}, wraps : 0..2]
            \cup [app : {TRUE}, status : {400, 404}, wraps : 0..2]
Statuses == {200, 204, 400, 404, 500}
HandlingTypeOK ==
  /\ sent \in [Requests -> Sent]
  /\ place \in [Requests -> {"router", "decode", "search", "encode", "error", "written"}]
  /\ found \in [Requests -> {"nothing", "flights", "noFlights", "failure", "panic"}]
  /\ err \in [Requests -> Errors]
  /\ reply \in [Requests -> [status : Statuses \cup {0}, id : {"none", "given", "fresh"}]]
  /\ conn \in [Requests -> {"open", "lost", "aborted"}]
  /\ received \in [Requests -> Statuses \cup {0}]

\* The status that belongs to what was asked and what became of it.
StatusFor(s, outcome) ==
  IF s.to = "health" THEN 204
  ELSE IF s.to = "preflight" THEN 200
  ELSE IF outcome = "panic" \/ s.body = "unreadable" THEN 500
  ELSE IF s.body # "valid" THEN 400
  ELSE IF outcome = "flights" THEN 200
  ELSE IF outcome = "noFlights" THEN 404
  ELSE 500

\* A client that gets a reply can tell what became of its request, whatever errors
\* wrapped the cause on its way to ErrorResponse, whatever the client called its
\* body, and whatever else tried to write a status.
ReplyTellsOutcome ==
  \A r \in Requests : received[r] # 0 => received[r] = StatusFor(sent[r], found[r])

\* Every reply of the API, a preflight's and a recovered panic's too, has the id
\* the logs of its request have, which is the client's own if it gave one.
RepliesIdentified ==
  \A r \in Requests :
    received[r] # 0 /\ sent[r].to # "health"
      => reply[r].id = (IF sent[r].id THEN "given" ELSE "fresh")

\* No handler ends in silence: a client of one that came to its end, by a panic
\* too, has a reply, unless it is gone or WriteTimeout has passed.
NoSilentReply ==
  \A r \in Requests : request[r] = "done" /\ received[r] = 0 => conn[r] = "lost"

\* A handler can always go on, and without a panic: whatever was sent and found,
\* decoder, endpoint and encoders have a way to the reply.
HandlerNeverStuck ==
  \A r \in Requests : Running(r) =>
    IF place[r] = "written" THEN ENABLED <<Deliver(r)>>_handlingVars
    ELSE ENABLED <<Serve(r) /\ UNCHANGED vars>>_handlingVars

\* Handlers that are scheduled, and whose searches return (SearchFlights), answer
\* every request whose client waits for it, even if they panic, unless the process
\* ends before.
HandlerScheduled(r) ==
  WF_handlingVars(Serve(r) /\ UNCHANGED vars) /\ WF_handlingVars(Deliver(r))
HandlersScheduled == \A r \in Requests : HandlerScheduled(r)
EveryRequestAnswered ==
  HandlersScheduled =>
    \A r \in Requests :
      request[r] = "running" ~> received[r] # 0 \/ conn[r] = "lost" \/ ~Alive
=============================================================================
