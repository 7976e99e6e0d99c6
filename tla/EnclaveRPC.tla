----------------------------- MODULE EnclaveRPC -----------------------------
(***************************************************************************)
(* Calls from the host to the enclave: EnclaveClient.send_request and its  *)
(* pool of connections on one side, VsockRPCServer and its pool of handler *)
(* threads on the other.  Frames carry a request or the response to it;    *)
(* their content is the concern of InferenceEngine.                        *)
(***************************************************************************)
EXTENDS Naturals, Sequences, SequencesExt, FiniteSets

CONSTANTS
    Callers,       \* host threads inside send_request
    Conns,         \* bound: sockets that exist at one time
    NoConn,
    MaxRetries,    \* _max_retries
    MaxPool,       \* _max_pool_size
    MaxHandlers,   \* max_workers of the server's executor
    MaxRequests,   \* bound: requests per caller
    MaxEnds,       \* bound: times the enclave is terminated or shut down
    MaxStops,      \* bound: times it is shut down
    Garbles        \* whether a response may be undecodable (version skew)

ASSUME CallersAssumption == IsFiniteSet(Callers)
ASSUME NoConnAssumption == NoConn \notin Conns
ASSUME MaxRetriesAssumption == MaxRetries \in Nat \ {0}
ASSUME MaxPoolAssumption == MaxPool \in Nat
ASSUME MaxHandlersAssumption == MaxHandlers \in Nat \ {0}
ASSUME MaxRequestsAssumption == MaxRequests \in Nat
ASSUME MaxEndsAssumption == MaxEnds \in Nat
ASSUME MaxStopsAssumption == MaxStops \in Nat
ASSUME GarblesAssumption == Garbles \in BOOLEAN

VARIABLES
    pool,          \* _pool, a stack
    pc,            \* where the caller is in send_request
    conn,          \* its local connection
    attempt,       \* its local attempt
    serial,        \* number of its current request
    outcome,       \* what send_request returned or raised
    client,        \* the host's end of each socket
    server,        \* the enclave's end: the state of its handler
    toServer,      \* requests sent and not yet read
    toClient,      \* responses sent and not yet read
    serving,       \* the request a handler dispatches
    backlog,       \* the listener's backlog, oldest first
    queue,         \* the executor's work queue, oldest first
    stop,          \* how far stop() is, in the server's main thread
    running,       \* whether the enclave is up
    crashes, stops,
    late,          \* history: requests read on a connection since stop()
    handled        \* history: times the enclave dispatched each request

callerVars == <<pool, pc, conn, attempt, serial, outcome>>
stopVars == <<stop, stops, late>>
serverVars == <<server, serving, backlog, queue, running, crashes, handled,
                stopVars>>
channelVars == <<client, toServer, toClient>>
vars == <<callerVars, serverVars, channelVars>>

Requests == Callers \X (1..MaxRequests)
Garbled == <<>>         \* what does not decode
NoRequest == <<>>
NoOutcome == [kind |-> "none"]
Outcomes == [kind : {"ok"}, response : Requests]
            \cup [kind : {"timeout", "communication", "malformed"}]

ActiveHandler == {"reading", "dispatching"}
\* The stages of a connection on its way to a handler: in the listener's
\* backlog, held by the main thread, in submit under the executor's lock, and
\* in the executor's queue.
WaitingStages == {"backlog", "accepted", "submitting", "queued"}
ServerStates == ActiveHandler \cup WaitingStages \cup {"closed"}

\* A socket identity that neither side uses any more.
Unused(k) == client[k] = "closed" /\ server[k] = "closed"

Init ==
    /\ pool = <<>>
    /\ pc = [c \in Callers |-> "idle"]
    /\ conn = [c \in Callers |-> NoConn]
    /\ attempt = [c \in Callers |-> 0]
    /\ serial = [c \in Callers |-> 0]
    /\ outcome = [c \in Callers |-> NoOutcome]
    /\ client = [k \in Conns |-> "closed"]
    /\ server = [k \in Conns |-> "closed"]
    /\ toServer = [k \in Conns |-> <<>>]
    /\ toClient = [k \in Conns |-> <<>>]
    /\ serving = [k \in Conns |-> NoRequest]
    /\ backlog = <<>>
    /\ queue = <<>>
    /\ stop = "no"
    /\ running = TRUE
    /\ crashes = 0
    /\ stops = 0
    /\ late = [k \in Conns |-> 0]
    /\ handled = [r \in Requests |-> 0]

-----------------------------------------------------------------------------
(* The host: one call of send_request per caller at a time. *)

Goto(c, l) == pc' = [pc EXCEPT ![c] = l]

Finish(c, o) ==
    /\ outcome' = [outcome EXCEPT ![c] = o]
    /\ Goto(c, "done")

Call(c) ==
    /\ pc[c] = "idle"
    /\ serial[c] < MaxRequests
    /\ serial' = [serial EXCEPT ![c] = @ + 1]
    /\ attempt' = [attempt EXCEPT ![c] = 1]
    /\ Goto(c, "acquire")
    /\ UNCHANGED <<pool, conn, outcome, serverVars, channelVars>>

\* Mutant of AcquirePooled: the connection stays in the pool.
AcquireShared(c) ==
    /\ pc[c] = "acquire"
    /\ pool # <<>>
    /\ conn' = [conn EXCEPT ![c] = Last(pool)]
    /\ Goto(c, "send")
    /\ UNCHANGED <<pool, attempt, serial, outcome, serverVars, channelVars>>

\* _acquire_connection, under the lock: the most recently pooled connection.
AcquirePooled(c) ==
    /\ pc[c] = "acquire"
    /\ pool # <<>>
    /\ conn' = [conn EXCEPT ![c] = Last(pool)]
    /\ pool' = Front(pool)
    /\ Goto(c, "send")
    /\ UNCHANGED <<attempt, serial, outcome, serverVars, channelVars>>

\* Mutant of PoolEmpty: it connects whatever the pool holds.
PoolIgnored(c) ==
    /\ pc[c] = "acquire"
    /\ Goto(c, "connect")
    /\ UNCHANGED <<pool, conn, attempt, serial, outcome, serverVars,
                   channelVars>>

\* _acquire_connection: the pool is empty and the lock is released.
PoolEmpty(c) ==
    /\ pc[c] = "acquire"
    /\ pool = <<>>
    /\ Goto(c, "connect")
    /\ UNCHANGED <<pool, conn, attempt, serial, outcome, serverVars,
                   channelVars>>

\* The listening socket is open.
Listening == running /\ stop = "no"

\* The socket factory connects; the socket waits in the listener's backlog.
Connect(c) ==
    /\ pc[c] = "connect"
    /\ Listening
    /\ \E k \in Conns :
        /\ Unused(k)
        /\ conn' = [conn EXCEPT ![c] = k]
        /\ client' = [client EXCEPT ![k] = "open"]
        /\ server' = [server EXCEPT ![k] = "backlog"]
        /\ toServer' = [toServer EXCEPT ![k] = <<>>]
        /\ toClient' = [toClient EXCEPT ![k] = <<>>]
        /\ backlog' = Append(backlog, k)
    /\ Goto(c, "send")
    /\ UNCHANGED <<pool, attempt, serial, outcome, serving, queue, running,
                   crashes, handled, stopVars>>

\* Mutant of AttemptFails: the failed connection goes back to the pool.
FailedPooled(c, error) ==
    /\ pool' = IF conn[c] = NoConn \/ Len(pool) >= MaxPool THEN pool
               ELSE Append(pool, conn[c])
    /\ conn' = [conn EXCEPT ![c] = NoConn]
    /\ IF attempt[c] >= MaxRetries
       THEN Finish(c, [kind |-> error])
       ELSE Goto(c, "backoff") /\ UNCHANGED outcome
    /\ UNCHANGED <<attempt, serial, serverVars, channelVars>>

\* Mutant of AttemptFails: one attempt too many.
FailsLate(c, error) ==
    /\ client' = IF conn[c] = NoConn THEN client
                 ELSE [client EXCEPT ![conn[c]] = "closed"]
    /\ conn' = [conn EXCEPT ![c] = NoConn]
    /\ IF attempt[c] > MaxRetries
       THEN Finish(c, [kind |-> error])
       ELSE Goto(c, "backoff") /\ UNCHANGED outcome
    /\ UNCHANGED <<pool, attempt, serial, serverVars, toServer, toClient>>

\* The except clauses of an attempt: the connection, if there is one, is
\* closed; the last attempt raises, an earlier one backs off.
AttemptFails(c, error) ==
    /\ client' = IF conn[c] = NoConn THEN client
                 ELSE [client EXCEPT ![conn[c]] = "closed"]
    /\ conn' = [conn EXCEPT ![c] = NoConn]
    /\ IF attempt[c] >= MaxRetries
       THEN Finish(c, [kind |-> error])
       ELSE Goto(c, "backoff") /\ UNCHANGED outcome
    /\ UNCHANGED <<pool, attempt, serial, serverVars, toServer, toClient>>

\* Refused when nobody listens, and timed out at any time.
ConnectFails(c) ==
    /\ pc[c] = "connect"
    /\ \/ AttemptFails(c, "timeout")
       \/ ~Listening /\ AttemptFails(c, "communication")

Send(c) ==
    /\ pc[c] = "send"
    /\ toServer' = [toServer EXCEPT ![conn[c]] =
                        IF server[conn[c]] = "closed" THEN @
                        ELSE Append(@, <<c, serial[c]>>)]
    /\ Goto(c, "receive")
    /\ UNCHANGED <<pool, conn, attempt, serial, outcome, serverVars, client,
                   toClient>>

SendFails(c) ==
    /\ pc[c] = "send"
    /\ \/ AttemptFails(c, "timeout")
       \/ server[conn[c]] = "closed" /\ AttemptFails(c, "communication")

Receive(c) ==
    /\ pc[c] = "receive"
    /\ LET k == conn[c] IN
        /\ toClient[k] # <<>>
        /\ toClient' = [toClient EXCEPT ![k] = Tail(@)]
        /\ IF Head(toClient[k]) # Garbled
           THEN /\ outcome' = [outcome EXCEPT ![c] =
                                 [kind |-> "ok", response |-> Head(toClient[k])]]
                /\ Goto(c, "release")
                /\ UNCHANGED <<conn, client>>
           ELSE /\ client' = [client EXCEPT ![k] = "closed"]
                /\ conn' = [conn EXCEPT ![c] = NoConn]
                /\ Finish(c, [kind |-> "malformed"])
    /\ UNCHANGED <<pool, attempt, serial, serverVars, toServer>>

\* The socket times out whenever the response takes too long.
ReceiveFails(c) ==
    /\ pc[c] = "receive"
    /\ toClient[conn[c]] = <<>>
    /\ \/ AttemptFails(c, "timeout")
       \/ server[conn[c]] = "closed" /\ AttemptFails(c, "communication")

\* _release_connection, under the lock.
Release(c) ==
    /\ pc[c] = "release"
    /\ IF Len(pool) >= MaxPool
       THEN /\ client' = [client EXCEPT ![conn[c]] = "closed"]
            /\ UNCHANGED pool
       ELSE /\ pool' = Append(pool, conn[c])
            /\ UNCHANGED client
    /\ conn' = [conn EXCEPT ![c] = NoConn]
    /\ Goto(c, "done")
    /\ UNCHANGED <<attempt, serial, outcome, serverVars, toServer, toClient>>

\* Mutant of Retry: the attempt is not counted.
RetryForever(c) ==
    /\ pc[c] = "backoff"
    /\ Goto(c, "acquire")
    /\ UNCHANGED <<pool, conn, attempt, serial, outcome, serverVars, channelVars>>

\* The sleep between two attempts ends.
Retry(c) ==
    /\ pc[c] = "backoff"
    /\ attempt' = [attempt EXCEPT ![c] = @ + 1]
    /\ Goto(c, "acquire")
    /\ UNCHANGED <<pool, conn, serial, outcome, serverVars, channelVars>>

\* The caller has its response or its exception.
Return(c) ==
    /\ pc[c] = "done"
    /\ Goto(c, "idle")
    /\ attempt' = [attempt EXCEPT ![c] = 0]
    /\ outcome' = [outcome EXCEPT ![c] = NoOutcome]
    /\ UNCHANGED <<pool, conn, serial, serverVars, channelVars>>

-----------------------------------------------------------------------------
(* The enclave: the main thread accepts and submits connections, and there is *)
(* one handler thread per connection, while one is free.                      *)

At(stages) == {k \in Conns : server[k] \in stages}
Handlers == At(ActiveHandler)
Stage(k, s) == server' = [server EXCEPT ![k] = s]

\* The main thread's accept returns the oldest connection of the backlog.
Accept ==
    /\ Listening
    /\ At({"accepted", "submitting"}) = {}
    /\ backlog # <<>>
    /\ Stage(Head(backlog), "accepted")
    /\ backlog' = Tail(backlog)
    /\ UNCHANGED <<callerVars, channelVars, serving, queue, running, crashes,
                   handled, stopVars>>

\* executor.submit takes the executor's lock.
EnterSubmit(k) ==
    /\ server[k] = "accepted"
    /\ stop = "no"
    /\ Stage(k, "submitting")
    /\ UNCHANGED <<callerVars, channelVars, serving, backlog, queue, running,
                   crashes, handled, stopVars>>

\* submit puts the connection in the work queue and releases the lock.
LeaveSubmit(k) ==
    /\ server[k] = "submitting"
    /\ stop = "no"
    /\ Stage(k, "queued")
    /\ queue' = Append(queue, k)
    /\ UNCHANGED <<callerVars, channelVars, serving, backlog, running, crashes,
                   handled, stopVars>>

\* The loop of _handle_connection is entered or repeated only before stop().
NextRead == IF stop = "no" THEN "reading" ELSE "closed"

\* An idle thread of the executor takes the oldest submitted connection.
TakeConnection ==
    /\ queue # <<>>
    /\ Cardinality(Handlers) < MaxHandlers
    /\ Stage(Head(queue), NextRead)
    /\ queue' = Tail(queue)
    /\ UNCHANGED <<callerVars, channelVars, serving, backlog, running, crashes,
                   handled, stopVars>>

ReadRequest(k) ==
    /\ server[k] = "reading"
    /\ toServer[k] # <<>>
    /\ serving' = [serving EXCEPT ![k] = Head(toServer[k])]
    /\ toServer' = [toServer EXCEPT ![k] = Tail(@)]
    /\ Stage(k, "dispatching")
    /\ handled' = [handled EXCEPT ![Head(toServer[k])] = @ + 1]
    /\ late' = [late EXCEPT ![k] = IF stop = "no" THEN @ ELSE @ + 1]
    /\ UNCHANGED <<callerVars, client, toClient, backlog, queue, running, crashes,
                   stop, stops>>

Responses(k) == {serving[k]} \cup (IF Garbles THEN {Garbled} ELSE {})

\* Mutant of WriteResponse: the stop event is not looked at again.
WriteAndReadOn(k) ==
    /\ server[k] = "dispatching"
    /\ client[k] = "open"
    /\ \E response \in Responses(k) :
            toClient' = [toClient EXCEPT ![k] = Append(@, response)]
    /\ Stage(k, "reading")
    /\ serving' = [serving EXCEPT ![k] = NoRequest]
    /\ UNCHANGED <<callerVars, client, toServer, backlog, queue, running, crashes,
                   handled, stopVars>>

\* The response is written; the next request is read, unless stop() has begun.
WriteResponse(k) ==
    /\ server[k] = "dispatching"
    /\ client[k] = "open"
    /\ \E response \in Responses(k) :
            toClient' = [toClient EXCEPT ![k] = Append(@, response)]
    /\ Stage(k, NextRead)
    /\ serving' = [serving EXCEPT ![k] = NoRequest]
    /\ UNCHANGED <<callerVars, client, toServer, backlog, queue, running, crashes,
                   handled, stopVars>>

\* The peer is gone: the write is lost in a buffer, or it raises.
WriteLost(k) ==
    /\ server[k] = "dispatching"
    /\ client[k] = "closed"
    /\ \E s \in {NextRead, "closed"} : Stage(k, s)
    /\ serving' = [serving EXCEPT ![k] = NoRequest]
    /\ UNCHANGED <<callerVars, channelVars, backlog, queue, running, crashes,
                   handled, stopVars>>

\* Mutant of CloseIdle: the read takes the peer's close for an empty frame.
ReadNothing(k) ==
    /\ server[k] = "reading"
    /\ toServer[k] = <<>>
    /\ UNCHANGED vars

\* Mutant of CloseIdle: the socket has no timeout.
CloseAtPeersOnly(k) ==
    /\ server[k] = "reading"
    /\ toServer[k] = <<>>
    /\ client[k] = "closed"
    /\ Stage(k, "closed")
    /\ UNCHANGED <<callerVars, channelVars, serving, backlog, queue, running,
                   crashes, handled, stopVars>>

\* The read finds the peer's close, or waits for the socket timeout.
CloseIdle(k) ==
    /\ server[k] = "reading"
    /\ toServer[k] = <<>>
    /\ Stage(k, "closed")
    /\ UNCHANGED <<callerVars, channelVars, serving, backlog, queue, running,
                   crashes, handled, stopVars>>

\* A shutdown signal runs stop() on top of the main thread: the event is set,
\* the listener and with it its backlog are closed, and shutdown() takes the
\* executor's lock to wait for the handlers.  If the signal came inside submit
\* the lock is held by the interrupted frame below, before or after its put.
Stop ==
    /\ Listening
    /\ stops < MaxStops /\ crashes + stops < MaxEnds
    /\ stops' = stops + 1
    /\ \E put \in {<<>>} \cup {<<k>> : k \in At({"submitting"})} :
        /\ server' = [k \in Conns |-> IF server[k] = "backlog" THEN "closed"
                                     ELSE IF put = <<k>> THEN "queued"
                                     ELSE server[k]]
        /\ queue' = queue \o put
    /\ backlog' = <<>>
    /\ stop' = IF At({"submitting"}) = {} THEN "draining" ELSE "stuck"
    /\ UNCHANGED <<callerVars, channelVars, serving, running, crashes, handled,
                   late>>

\* The process ends: its sockets are closed or reset.
Down ==
    /\ running' = FALSE
    /\ stop' = "no"
    /\ late' = [k \in Conns |-> 0]
    /\ server' = [k \in Conns |-> "closed"]
    /\ serving' = [k \in Conns |-> NoRequest]
    /\ backlog' = <<>>
    /\ queue' = <<>>
    /\ toServer' = [k \in Conns |-> <<>>]
    /\ UNCHANGED <<callerVars, client, handled, stops>>

\* Mutant of Exit: shutdown(wait=False), and the process does not wait either.
ExitAtOnce ==
    /\ running /\ stop = "draining"
    /\ Down
    /\ UNCHANGED <<toClient, crashes>>

\* All handlers are done and stop() returns to the main thread, which ends: its
\* accept fails on the closed listener, or its submit on the closed executor
\* when the signal came between the two.
Exit ==
    /\ running /\ stop = "draining"
    /\ Handlers = {} /\ At({"queued"}) = {}
    /\ Down
    /\ UNCHANGED <<toClient, crashes>>

\* The enclave is terminated, and what it had sent may be lost with it.
Crash ==
    /\ running
    /\ crashes + stops < MaxEnds
    /\ crashes' = crashes + 1
    /\ Down
    /\ toClient' \in {toClient, [k \in Conns |-> <<>>]}

Start ==
    /\ ~running
    /\ running' = TRUE
    /\ UNCHANGED <<callerVars, channelVars, server, serving, backlog, queue,
                   crashes, handled, stopVars>>

-----------------------------------------------------------------------------
CallerStep(c) ==
    \/ AcquirePooled(c) \/ PoolEmpty(c) \/ Connect(c) \/ ConnectFails(c)
    \/ Send(c) \/ SendFails(c) \/ Receive(c) \/ ReceiveFails(c)
    \/ Release(c) \/ Retry(c) \/ Return(c)

HandlerStep(k) ==
    ReadRequest(k) \/ WriteResponse(k) \/ WriteLost(k) \/ CloseIdle(k)

MainStep == Accept \/ Exit \/ \E k \in Conns : EnterSubmit(k) \/ LeaveSubmit(k)

Next ==
    \/ \E c \in Callers : Call(c) \/ CallerStep(c)
    \/ \E k \in Conns : HandlerStep(k)
    \/ MainStep \/ TakeConnection \/ Stop \/ Crash \/ Start

Spec == Init /\ [][Next]_vars

\* Threads run, socket timeouts fire, and the executor assigns idle threads.
Fairness ==
    /\ \A c \in Callers : WF_vars(CallerStep(c))
    /\ \A k \in Conns : WF_vars(HandlerStep(k))
    /\ WF_vars(TakeConnection)
    /\ WF_vars(MainStep)
FairSpec == Spec /\ Fairness

-----------------------------------------------------------------------------
Labels == {"idle", "acquire", "connect", "send", "receive", "release",
           "backoff", "done"}

TypeOK ==
    /\ pool \in Seq(Conns)
    /\ pc \in [Callers -> Labels]
    /\ conn \in [Callers -> Conns \cup {NoConn}]
    /\ attempt \in [Callers -> 0..MaxRetries]
    /\ serial \in [Callers -> 0..MaxRequests]
    /\ outcome \in [Callers -> Outcomes \cup {NoOutcome}]
    /\ client \in [Conns -> {"open", "closed"}]
    /\ server \in [Conns -> ServerStates]
    /\ toServer \in [Conns -> Seq(Requests)]
    /\ toClient \in [Conns -> Seq(Requests \cup {Garbled})]
    /\ serving \in [Conns -> Requests \cup {NoRequest}]
    /\ backlog \in Seq(Conns)
    /\ queue \in Seq(Conns)
    /\ stop \in {"no", "draining", "stuck"}
    /\ running \in BOOLEAN
    /\ crashes \in 0..MaxEnds
    /\ stops \in 0..MaxStops
    /\ late \in [Conns -> Nat]
    /\ handled \in [Requests -> Nat]

Pooled == {pool[i] : i \in DOMAIN pool}

\* An open connection has one owner: it is pooled once, or one caller holds it.
SoleOwner ==
    /\ \A i, j \in DOMAIN pool : pool[i] = pool[j] => i = j
    /\ \A c \in Callers : conn[c] # NoConn =>
        /\ conn[c] \notin Pooled
        /\ client[conn[c]] = "open"
        /\ \A d \in Callers : conn[d] = conn[c] => d = c
    /\ \A k \in Pooled : client[k] = "open"
    /\ \A k \in Conns : client[k] = "open" =>
            k \in Pooled \/ \E c \in Callers : conn[c] = k

\* A caller that gets a response gets the one to its own current request, even
\* after timeouts and retries on pooled connections: the connection of a failed
\* attempt is never pooled (enclave_client.py:174-189).
OwnResponse ==
    \A c \in Callers :
        outcome[c].kind = "ok" => outcome[c].response = <<c, serial[c]>>

\* Nothing is in flight on a pooled connection.
PooledQuiet ==
    \A k \in Pooled :
        /\ toServer[k] = <<>> /\ toClient[k] = <<>>
        /\ server[k] \in {"reading", "closed"}

\* The host never keeps more connections open than it has calling threads, nor
\* more in the pool than the pool's limit: a socket is only created after the
\* pool was seen empty (enclave_client.py:274-277), though not in one step.
ConnectionsBounded ==
    /\ Len(pool) <= MaxPool
    /\ Cardinality({k \in Conns : client[k] = "open"})
       + Cardinality({c \in Callers : pc[c] = "connect"})
       <= Cardinality(Callers)

\* Retries make delivery at-least-once, bounded by max_retries; a response is
\* never made up.
HandledPerRetries ==
    /\ \A r \in Requests : handled[r] <= MaxRetries
    /\ \A c \in Callers :
        outcome[c].kind = "ok" => handled[<<c, serial[c]>>] >= 1

\* How far a call is for its caller, and what it got.
Phase == [c \in Callers |->
            CASE pc[c] = "idle" -> "idle"
              [] pc[c] # "idle" /\ outcome[c] = NoOutcome -> "pending"
              [] outcome[c].kind = "ok" -> "succeeded"
              [] OTHER -> "failed"]
Answer == [c \in Callers |-> IF outcome[c].kind = "ok" THEN outcome[c].response
                             ELSE NoRequest]

Abstract == INSTANCE RemoteCalls WITH phase <- Phase, answer <- Answer,
                executed <- handled, MaxExecutions <- MaxRetries

\* send_request with its pool, timeouts and retries implements the abstract
\* calls: each ends once, with the answer to its own request or an error, and
\* only requests that were made are executed, also late ones
\* (enclave_client.py:146-200).
CallsImplemented == Abstract!Spec

\* After stop() has begun, a connection is served for at most the one request
\* its handler was about to read (server.py:184), and none that was still queued.
OneAfterStop ==
    \A k \in Conns : late[k] <= IF server[k] \in WaitingStages THEN 0 ELSE 1

\* Unless it is terminated, the enclave never closes a connection on a caller
\* whose request it has read and not answered: neither by a timeout nor by a
\* shutdown, which waits for the handlers (server.py:164).
NeverClosedUnanswered ==
    [][\A c \in Callers :
        LET k == conn[c] IN
        /\ pc[c] = "receive" /\ pc'[c] = "receive"
        /\ server[k] # "closed" /\ server'[k] = "closed"
        /\ crashes' = crashes
        => toServer[k] # <<>> \/ toClient'[k] # <<>>]_vars

\* A shutdown ends, even when callers keep idle connections in their pool,
\* unless the signal came inside submit (server.py:149): reads time out
\* (server.py:181) and no handler starts a second request.
StopEnds == stop # "no" ~> stop \in {"no", "stuck"}

\* stop() is to "Request a graceful shutdown" (server.py:154): it should end
\* whenever the signal comes.
GracefulStop == stop # "no" ~> stop = "no"

\* send_request returns or raises, whatever the enclave does.
CallReturns == \A c \in Callers : pc[c] = "acquire" ~> pc[c] = "done"

\* A handler thread whose connection the host has dropped becomes free again:
\* it ends at the peer's close or at an error (server.py:183-196).
HandlerReleased ==
    \A k \in Conns :
        client[k] = "closed" /\ server[k] \in ActiveHandler
            ~> server[k] = "closed"
=============================================================================
