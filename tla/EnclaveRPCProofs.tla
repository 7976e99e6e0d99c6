-------------------------- MODULE EnclaveRPCProofs --------------------------
(***************************************************************************)
(* The safety of EnclaveRPC for any number of threads, connections,        *)
(* retries, handlers, crashes and shutdowns.  The invariant is built in    *)
(* layers, each inductive given those before it: types and control, one    *)
(* owner per connection, the queues of the server, where each request in   *)
(* flight is, what was executed, how often, and how many connections there *)
(* are.  With it EnclaveRPC implements the abstract calls of RemoteCalls.  *)
(***************************************************************************)
EXTENDS EnclaveRPC, SequenceTheorems, FiniteSetTheorems, TLAPS

(* Types and control of the callers. *)

\* What is assumed of the constants.
Assumptions == /\ IsFiniteSet(Callers)
               /\ NoConn \notin Conns
               /\ MaxRetries \in Nat \ {0}
               /\ MaxPool \in Nat
               /\ MaxHandlers \in Nat \ {0}
               /\ MaxRequests \in Nat
               /\ MaxEnds \in Nat
               /\ MaxStops \in Nat
               /\ Garbles \in BOOLEAN

\* The assumptions on the constants, by one name.
LEMMA Assumed == Assumptions
  BY CallersAssumption, NoConnAssumption, MaxRetriesAssumption, MaxPoolAssumption,
     MaxHandlersAssumption, MaxRequestsAssumption, MaxEndsAssumption,
     MaxStopsAssumption, GarblesAssumption DEF Assumptions

\* The places where a caller holds a connection.
Holding == {"send", "receive", "release"}

\* The current request of a caller.
Own(c) == <<c, serial[c]>>

\* How a caller's connection, outcome and counters go with its place.
Control(c) ==
    /\ conn[c] # NoConn <=> pc[c] \in Holding
    /\ outcome[c] = NoOutcome <=> pc[c] \notin {"release", "done"}
    /\ pc[c] = "release" => outcome[c].kind = "ok"
    /\ pc[c] # "idle" => attempt[c] >= 1 /\ serial[c] >= 1
    /\ pc[c] = "backoff" => attempt[c] < MaxRetries

Controlled == \A c \in Callers : Control(c)

\* The types of the callers' variables, of the channels' and of the enclave's.
CallerTypes ==
    /\ pool \in Seq(Conns)
    /\ pc \in [Callers -> Labels]
    /\ conn \in [Callers -> Conns \cup {NoConn}]
    /\ attempt \in [Callers -> 0..MaxRetries]
    /\ serial \in [Callers -> 0..MaxRequests]
    /\ outcome \in [Callers -> Outcomes \cup {NoOutcome}]

ChannelTypes ==
    /\ client \in [Conns -> {"open", "closed"}]
    /\ toServer \in [Conns -> Seq(Requests)]
    /\ toClient \in [Conns -> Seq(Requests \cup {Garbled})]

StageTypes ==
    /\ server \in [Conns -> ServerStates]
    /\ serving \in [Conns -> Requests \cup {NoRequest}]
    /\ backlog \in Seq(Conns)
    /\ queue \in Seq(Conns)

ProcessTypes ==
    /\ stop \in {"no", "draining", "stuck"}
    /\ running \in BOOLEAN
    /\ crashes \in 0..MaxEnds
    /\ stops \in 0..MaxStops
    /\ late \in [Conns -> Nat]
    /\ handled \in [Requests -> Nat]

\* TypeOK in these parts, and what each of them depends on.
LEMMA TypeParts ==
  /\ TypeOK <=> CallerTypes /\ ChannelTypes /\ StageTypes /\ ProcessTypes
  /\ TypeOK' <=> CallerTypes' /\ ChannelTypes' /\ StageTypes' /\ ProcessTypes'
  /\ CallerTypes /\ UNCHANGED callerVars => CallerTypes'
  /\ ChannelTypes /\ UNCHANGED channelVars => ChannelTypes'
  /\ StageTypes /\ UNCHANGED <<server, serving, backlog, queue>> => StageTypes'
  /\ ProcessTypes /\ UNCHANGED <<running, crashes, handled, stopVars>> => ProcessTypes'
<1>1. /\ TypeOK <=> CallerTypes /\ ChannelTypes /\ StageTypes /\ ProcessTypes
      /\ TypeOK' <=> CallerTypes' /\ ChannelTypes' /\ StageTypes' /\ ProcessTypes'
  BY DEF TypeOK, CallerTypes, ChannelTypes, StageTypes, ProcessTypes
<1>2. CallerTypes /\ UNCHANGED callerVars => CallerTypes'
  BY DEF CallerTypes, callerVars
<1>3. ChannelTypes /\ UNCHANGED channelVars => ChannelTypes'
  BY DEF ChannelTypes, channelVars
<1>4. StageTypes /\ UNCHANGED <<server, serving, backlog, queue>> => StageTypes'
  BY DEF StageTypes
<1>5. ProcessTypes /\ UNCHANGED <<running, crashes, handled, stopVars>> => ProcessTypes'
  BY DEF ProcessTypes, stopVars
<1> QED
  BY <1>1, <1>2, <1>3, <1>4, <1>5

\* Initially the variables have their types and the callers are controlled.
LEMMA InitType == Init => TypeOK /\ Controlled
<1> SUFFICES ASSUME Init PROVE TypeOK /\ Controlled
  OBVIOUS
<1> USE Assumed DEF Assumptions, Init
<1>1. TypeOK
  BY DEF TypeOK, Labels, Requests, NoRequest, ServerStates
<1>2. Controlled
  BY DEF Controlled, Control, Holding
<1> QED
  BY <1>1, <1>2

\* Errors and responses are outcomes, and neither is the absent one.
LEMMA OutcomeTypes ==
  /\ \A e \in {"timeout", "communication", "malformed"} :
        [kind |-> e] \in Outcomes /\ [kind |-> e] # NoOutcome
  /\ \A r \in Requests :
        /\ [kind |-> "ok", response |-> r] \in Outcomes
        /\ [kind |-> "ok", response |-> r] # NoOutcome
<1>1. ASSUME NEW e \in {"timeout", "communication", "malformed"}
      PROVE  [kind |-> e] \in Outcomes /\ [kind |-> e] # NoOutcome
  BY DEF Outcomes, NoOutcome
<1>2. ASSUME NEW r \in Requests
      PROVE  /\ [kind |-> "ok", response |-> r] \in Outcomes
             /\ [kind |-> "ok", response |-> r].kind # NoOutcome.kind
  BY DEF Outcomes, NoOutcome
<1> QED
  BY <1>1, <1>2

\* An attempt that fails.
Fails(c) ==
    /\ pc[c] \in {"connect", "send", "receive"}
    /\ \E e \in {"timeout", "communication"} : AttemptFails(c, e)

\* An attempt that fails keeps types and control (enclave_client.py:169-189).
LEMMA FailsType ==
  ASSUME TypeOK, Controlled, NEW c \in Callers, Fails(c)
  PROVE  TypeOK' /\ Controlled'
<1>0. PICK e \in {"timeout", "communication"} : AttemptFails(c, e)
  BY DEF Fails
<1>a. [kind |-> e] \in Outcomes /\ [kind |-> e] # NoOutcome
  BY OutcomeTypes
<1>b. CallerTypes /\ ChannelTypes /\ StageTypes /\ ProcessTypes
  BY TypeParts
<1>c. /\ pc[c] \in {"connect", "send", "receive"}
      /\ conn' = [conn EXCEPT ![c] = NoConn]
      /\ \/ /\ attempt[c] < MaxRetries
            /\ pc' = [pc EXCEPT ![c] = "backoff"] /\ outcome' = outcome
         \/ /\ pc' = [pc EXCEPT ![c] = "done"]
            /\ outcome' = [outcome EXCEPT ![c] = [kind |-> e]]
      /\ UNCHANGED <<pool, attempt, serial>>
  <2>1. attempt[c] \in Nat /\ MaxRetries \in Nat
    BY <1>b, Assumed DEF Assumptions, CallerTypes
  <2> QED
    BY <1>0, <2>1 DEF Fails, AttemptFails, Finish, Goto
<1>1. CallerTypes'
  <2>1. pc' \in [Callers -> Labels]
    BY <1>b, <1>c DEF CallerTypes, Labels
  <2>2. outcome' \in [Callers -> Outcomes \cup {NoOutcome}]
    BY <1>a, <1>b, <1>c DEF CallerTypes
  <2> QED
    BY <1>b, <1>c, <2>1, <2>2 DEF CallerTypes
<1>2. ChannelTypes'
  BY <1>0, <1>b DEF AttemptFails, ChannelTypes
<1>3. StageTypes' /\ ProcessTypes'
  BY <1>0, <1>b, TypeParts DEF AttemptFails, serverVars
<1>4. ASSUME NEW d \in Callers PROVE Control(d)'
  <2>1. CASE d = c
    BY <1>a, <1>b, <1>c, <2>1
    DEF CallerTypes, Controlled, Control, Holding
  <2>2. CASE d # c
    BY <1>b, <1>c, <2>2 DEF CallerTypes, Controlled, Control
  <2> QED
    BY <2>1, <2>2
<1> QED
  BY <1>1, <1>2, <1>3, <1>4, TypeParts DEF Controlled

\* Every step of send_request keeps types and control.
LEMMA CallerType ==
  ASSUME TypeOK, Controlled, NEW c \in Callers, Call(c) \/ CallerStep(c)
  PROVE  TypeOK' /\ Controlled'
<1> USE Assumed DEF Assumptions, Finish, Goto, Labels
<1>b. CallerTypes /\ ChannelTypes /\ StageTypes /\ ProcessTypes
  BY TypeParts
<1>q. ASSUME CallerTypes', UNCHANGED <<serverVars, channelVars>> PROVE TypeOK'
  BY <1>b, <1>q, TypeParts DEF serverVars
<1>1. CASE Call(c)
  <2>1. CallerTypes'
    BY <1>1, <1>b DEF Call, CallerTypes
  <2>2. Controlled'
    BY <1>1, <1>b DEF Call, CallerTypes, Controlled, Control, Holding
  <2> QED
    BY <1>1, <1>q, <2>1, <2>2 DEF Call
<1>2. CASE AcquirePooled(c)
  <2>1. Last(pool) \in Conns /\ Front(pool) \in Seq(Conns)
    <3>1. pool \in Seq(Conns) /\ pool # <<>>
      BY <1>2, <1>b DEF AcquirePooled, CallerTypes
    <3> QED
      BY <3>1 DEF Last, Front
  <2>2. CallerTypes'
    BY <1>2, <1>b, <2>1 DEF AcquirePooled, CallerTypes
  <2>3. Controlled'
    BY <1>2, <1>b, <2>1 DEF AcquirePooled, CallerTypes, Controlled, Control, Holding
  <2> QED
    BY <1>2, <1>q, <2>2, <2>3 DEF AcquirePooled
<1>3. CASE PoolEmpty(c)
  <2>1. CallerTypes'
    BY <1>3, <1>b DEF PoolEmpty, CallerTypes
  <2>2. Controlled'
    BY <1>3, <1>b DEF PoolEmpty, CallerTypes, Controlled, Control, Holding
  <2> QED
    BY <1>3, <1>q, <2>1, <2>2 DEF PoolEmpty
<1>4. CASE Connect(c)
  <2>0. PICK k \in Conns :
            /\ conn' = [conn EXCEPT ![c] = k]
            /\ client' = [client EXCEPT ![k] = "open"]
            /\ server' = [server EXCEPT ![k] = "backlog"]
            /\ toServer' = [toServer EXCEPT ![k] = <<>>]
            /\ toClient' = [toClient EXCEPT ![k] = <<>>]
            /\ backlog' = Append(backlog, k)
    BY <1>4 DEF Connect
  <2>1. CallerTypes'
    BY <1>4, <1>b, <2>0 DEF Connect, CallerTypes
  <2>2. ChannelTypes'
    BY <1>b, <2>0 DEF ChannelTypes
  <2>3. StageTypes'
    BY <1>4, <1>b, <2>0 DEF Connect, StageTypes, ServerStates, WaitingStages
  <2>4. ProcessTypes'
    BY <1>4, <1>b, TypeParts DEF Connect
  <2>5. Controlled'
    BY <1>4, <1>b, <2>0 DEF Connect, CallerTypes, Controlled, Control, Holding
  <2> QED
    BY <2>1, <2>2, <2>3, <2>4, <2>5, TypeParts
<1>5. CASE Fails(c)
  BY <1>5, FailsType
<1>6. CASE Send(c)
  <2>1. Own(c) \in Requests /\ conn[c] \in Conns
    BY <1>6, <1>b DEF Send, Own, Requests, CallerTypes, Controlled, Control, Holding
  <2>2. ChannelTypes'
    BY <1>6, <1>b, <2>1 DEF Send, ChannelTypes, Own
  <2>3. CallerTypes'
    BY <1>6, <1>b DEF Send, CallerTypes
  <2>4. StageTypes' /\ ProcessTypes'
    BY <1>6, <1>b, TypeParts DEF Send, serverVars
  <2>5. Controlled'
    BY <1>6, <1>b DEF Send, CallerTypes, Controlled, Control, Holding
  <2> QED
    BY <2>2, <2>3, <2>4, <2>5, TypeParts
<1>7. CASE Receive(c)
  <2> DEFINE k == conn[c]
  <2>1. k \in Conns
    BY <1>7, <1>b DEF Receive, CallerTypes, Controlled, Control, Holding
  <2>2. toClient[k] \in Seq(Requests \cup {Garbled}) /\ toClient[k] # <<>>
    BY <1>7, <1>b, <2>1 DEF Receive, ChannelTypes
  <2>3. /\ Head(toClient[k]) \in Requests \cup {Garbled}
        /\ Tail(toClient[k]) \in Seq(Requests \cup {Garbled})
    BY <2>2
  <2>4. ChannelTypes'
    BY <1>7, <1>b, <2>3 DEF Receive, ChannelTypes
  <2>a. outcome' = [outcome EXCEPT ![c] = IF Head(toClient[k]) # Garbled
                        THEN [kind |-> "ok", response |-> Head(toClient[k])]
                        ELSE [kind |-> "malformed"]]
    BY <1>7 DEF Receive
  <2>b. outcome'[c] \in Outcomes /\ outcome'[c] # NoOutcome
    BY <1>b, <2>a, <2>3, OutcomeTypes DEF CallerTypes
  <2>c. \/ /\ pc' = [pc EXCEPT ![c] = "release"] /\ UNCHANGED conn
           /\ outcome'[c].kind = "ok"
        \/ /\ pc' = [pc EXCEPT ![c] = "done"]
           /\ conn' = [conn EXCEPT ![c] = NoConn]
    BY <1>7, <1>b, <2>a DEF Receive, CallerTypes
  <2>d. /\ pc[c] = "receive" /\ UNCHANGED <<pool, attempt, serial>>
        /\ \A d \in Callers \ {c} : outcome'[d] = outcome[d]
    BY <1>7, <2>a DEF Receive
  <2>5. CallerTypes'
    <3>1. outcome' \in [Callers -> Outcomes \cup {NoOutcome}]
      BY <1>b, <2>a, <2>b DEF CallerTypes
    <3> QED
      BY <1>b, <2>c, <2>d, <3>1 DEF CallerTypes
  <2>6. StageTypes' /\ ProcessTypes'
    BY <1>7, <1>b, TypeParts DEF Receive, serverVars
  <2>7. ASSUME NEW d \in Callers PROVE Control(d)'
    <3>1. CASE d = c
      BY <1>b, <2>b, <2>c, <2>d, <3>1 DEF CallerTypes, Controlled, Control, Holding
    <3>2. CASE d # c
      BY <1>b, <2>c, <2>d, <3>2 DEF CallerTypes, Controlled, Control
    <3> QED
      BY <3>1, <3>2
  <2> QED
    BY <2>4, <2>5, <2>6, <2>7, TypeParts DEF Controlled
<1>8. CASE Release(c)
  <2>1. conn[c] \in Conns
    BY <1>8, <1>b DEF Release, CallerTypes, Controlled, Control, Holding
  <2>a. pool' \in Seq(Conns)
    <3>1. pool \in Seq(Conns)
      BY <1>b DEF CallerTypes
    <3>2. Append(pool, conn[c]) \in Seq(Conns)
      BY <2>1, <3>1, AppendProperties
    <3> QED
      BY <1>8, <3>1, <3>2 DEF Release
  <2>2. ChannelTypes'
    BY <1>8, <1>b, <2>1 DEF Release, ChannelTypes
  <2>3. CallerTypes'
    BY <1>8, <1>b, <2>a DEF Release, CallerTypes
  <2>4. StageTypes' /\ ProcessTypes'
    BY <1>8, <1>b, TypeParts DEF Release, serverVars
  <2>5. Controlled'
    BY <1>8, <1>b DEF Release, CallerTypes, Controlled, Control, Holding
  <2> QED
    BY <2>2, <2>3, <2>4, <2>5, TypeParts
<1>9. CASE Retry(c)
  <2>0. attempt[c] \in 0..MaxRetries /\ attempt[c] < MaxRetries
    BY <1>9, <1>b DEF Retry, CallerTypes, Controlled, Control
  <2>1. CallerTypes'
    BY <1>9, <1>b, <2>0 DEF Retry, CallerTypes
  <2>2. Controlled'
    BY <1>9, <1>b DEF Retry, CallerTypes, Controlled, Control, Holding
  <2> QED
    BY <1>9, <1>q, <2>1, <2>2 DEF Retry
<1>10. CASE Return(c)
  <2>1. CallerTypes'
    BY <1>10, <1>b DEF Return, CallerTypes
  <2>2. Controlled'
    BY <1>10, <1>b DEF Return, CallerTypes, Controlled, Control, Holding
  <2> QED
    BY <1>10, <1>q, <2>1, <2>2 DEF Return
<1> QED
  BY <1>1, <1>2, <1>3, <1>4, <1>5, <1>6, <1>7, <1>8, <1>9, <1>10
  DEF CallerStep, ConnectFails, SendFails, ReceiveFails, Fails

\* So does every step of the enclave, which leaves the callers alone.
LEMMA ServerType ==
  ASSUME TypeOK, Controlled,
         \/ \E k \in Conns : HandlerStep(k)
         \/ MainStep \/ TakeConnection \/ Stop \/ Crash \/ Start
  PROVE  TypeOK' /\ Controlled'
<1> USE Assumed DEF Assumptions
<1>u. UNCHANGED callerVars
  BY DEF HandlerStep, MainStep, ReadRequest, WriteResponse, WriteLost, CloseIdle,
         Accept, Exit, EnterSubmit, LeaveSubmit, TakeConnection, Stop, Crash, Start,
         Down
<1>0. Controlled'
  BY <1>u DEF callerVars, Controlled, Control
<1>b. CallerTypes /\ ChannelTypes /\ StageTypes /\ ProcessTypes /\ CallerTypes'
  BY <1>u, TypeParts
<1> USE DEF Stage, ServerStates, WaitingStages, ActiveHandler
<1>a. NextRead \in {"reading", "closed"}
  BY DEF NextRead
<1>q. ASSUME StageTypes', UNCHANGED <<channelVars, running, crashes, handled, stopVars>>
      PROVE  TypeOK'
  BY <1>b, <1>q, TypeParts
<1>1. ASSUME NEW k \in Conns, ReadRequest(k) PROVE TypeOK'
  <2>1. toServer[k] \in Seq(Requests) /\ toServer[k] # <<>>
    BY <1>1, <1>b DEF ReadRequest, ChannelTypes
  <2>2. Head(toServer[k]) \in Requests /\ Tail(toServer[k]) \in Seq(Requests)
    BY <2>1
  <2>3. ChannelTypes'
    BY <1>1, <1>b, <2>2 DEF ReadRequest, ChannelTypes
  <2>4. StageTypes'
    BY <1>1, <1>b, <2>2 DEF ReadRequest, StageTypes
  <2>5. ProcessTypes'
    <3>1. handled' \in [Requests -> Nat]
      BY <1>1, <1>b, <2>2 DEF ReadRequest, ProcessTypes
    <3>2. late' \in [Conns -> Nat]
      BY <1>1, <1>b DEF ReadRequest, ProcessTypes
    <3> QED
      BY <1>1, <1>b, <3>1, <3>2 DEF ReadRequest, ProcessTypes
  <2> QED
    BY <1>b, <2>3, <2>4, <2>5, TypeParts
<1>2. ASSUME NEW k \in Conns, WriteResponse(k) PROVE TypeOK'
  <2>0. PICK response \in Responses(k) :
            toClient' = [toClient EXCEPT ![k] = Append(@, response)]
    BY <1>2 DEF WriteResponse
  <2>1. response \in Requests \cup {Garbled}
    BY <1>b DEF Responses, StageTypes, NoRequest, Garbled
  <2>2. ChannelTypes'
    BY <1>2, <1>b, <2>0, <2>1 DEF WriteResponse, ChannelTypes
  <2>3. StageTypes'
    BY <1>2, <1>a, <1>b DEF WriteResponse, StageTypes
  <2>4. ProcessTypes'
    BY <1>2, <1>b, TypeParts DEF WriteResponse
  <2> QED
    BY <1>b, <2>2, <2>3, <2>4, TypeParts
<1>3. ASSUME NEW k \in Conns, WriteLost(k) PROVE TypeOK'
  <2>1. StageTypes'
    BY <1>3, <1>a, <1>b DEF WriteLost, StageTypes
  <2> QED
    BY <1>3, <1>q, <2>1 DEF WriteLost
<1>4. ASSUME NEW k \in Conns, CloseIdle(k) PROVE TypeOK'
  <2>1. StageTypes'
    BY <1>4, <1>b DEF CloseIdle, StageTypes
  <2> QED
    BY <1>4, <1>q, <2>1 DEF CloseIdle
<1>5. ASSUME Accept PROVE TypeOK'
  <2>1. Head(backlog) \in Conns /\ Tail(backlog) \in Seq(Conns)
    BY <1>5, <1>b DEF Accept, StageTypes
  <2>2. StageTypes'
    BY <1>5, <1>b, <2>1 DEF Accept, StageTypes
  <2> QED
    BY <1>5, <1>q, <2>2 DEF Accept
<1>6. ASSUME NEW k \in Conns, EnterSubmit(k) PROVE TypeOK'
  <2>1. StageTypes'
    BY <1>6, <1>b DEF EnterSubmit, StageTypes
  <2> QED
    BY <1>6, <1>q, <2>1 DEF EnterSubmit
<1>7. ASSUME NEW k \in Conns, LeaveSubmit(k) PROVE TypeOK'
  <2>1. StageTypes'
    BY <1>7, <1>b DEF LeaveSubmit, StageTypes
  <2> QED
    BY <1>7, <1>q, <2>1 DEF LeaveSubmit
<1>8. ASSUME TakeConnection PROVE TypeOK'
  <2>1. Head(queue) \in Conns /\ Tail(queue) \in Seq(Conns)
    BY <1>8, <1>b DEF TakeConnection, StageTypes
  <2>2. StageTypes'
    BY <1>8, <1>a, <1>b, <2>1 DEF TakeConnection, StageTypes
  <2> QED
    BY <1>8, <1>q, <2>2 DEF TakeConnection
<1>9. ASSUME Stop PROVE TypeOK'
  <2>1. PICK put \in {<<>>} \cup {<<k>> : k \in At({"submitting"})} :
        /\ server' = [k \in Conns |-> IF server[k] = "backlog" THEN "closed"
                                     ELSE IF put = <<k>> THEN "queued"
                                     ELSE server[k]]
        /\ queue' = queue \o put
    BY <1>9 DEF Stop
  <2>2. put \in Seq(Conns)
    <3>1. CASE put = <<>>
      BY <3>1
    <3>2. CASE put # <<>>
      <4>1. PICK k \in Conns : put = <<k>>
        BY <3>2 DEF At
      <4> QED
        BY <4>1
    <3> QED
      BY <3>1, <3>2
  <2>3. queue' \in Seq(Conns)
    BY <1>b, <2>1, <2>2 DEF StageTypes
  <2>4. server' \in [Conns -> ServerStates]
    BY <1>b, <2>1 DEF StageTypes
  <2>5. StageTypes'
    BY <1>9, <1>b, <2>3, <2>4 DEF Stop, StageTypes
  <2>6. ProcessTypes'
    <3>1. stops' \in 0..MaxStops
      BY <1>9, <1>b DEF Stop, ProcessTypes
    <3> QED
      BY <1>9, <1>b, <3>1 DEF Stop, ProcessTypes
  <2>7. ChannelTypes'
    BY <1>9, <1>b, TypeParts DEF Stop
  <2> QED
    BY <1>b, <2>5, <2>6, <2>7, TypeParts
<1>10. ASSUME Down, crashes' \in 0..MaxEnds,
              toClient' \in {toClient, [k \in Conns |-> <<>>]}
       PROVE  TypeOK'
  <2>0. /\ <<>> \in Seq(Requests \cup {Garbled})
        /\ <<>> \in Seq(Requests) /\ <<>> \in Seq(Conns)
    BY EmptySeq
  <2>1. ChannelTypes'
    <3>1. client' = client /\ toServer' = [k \in Conns |-> <<>>]
      BY <1>10 DEF Down
    <3>2. toClient' \in [Conns -> Seq(Requests \cup {Garbled})]
      BY <1>10, <1>b, <2>0 DEF ChannelTypes
    <3> QED
      BY <1>b, <2>0, <3>1, <3>2 DEF ChannelTypes
  <2>2. StageTypes'
    BY <1>10, <2>0 DEF Down, StageTypes, NoRequest
  <2>3. ProcessTypes'
    BY <1>10, <1>b DEF Down, ProcessTypes
  <2> QED
    BY <1>b, <2>1, <2>2, <2>3, TypeParts
<1>11. ASSUME Exit PROVE TypeOK'
  BY <1>10, <1>11, <1>b DEF Exit, ProcessTypes
<1>12. ASSUME Crash PROVE TypeOK'
  <2>1. crashes' \in 0..MaxEnds
    BY <1>12, <1>b DEF Crash, ProcessTypes
  <2> QED
    BY <1>10, <1>12, <2>1 DEF Crash
<1>13. ASSUME Start PROVE TypeOK'
  <2>1. StageTypes' /\ ChannelTypes'
    BY <1>13, <1>b, TypeParts DEF Start
  <2>2. ProcessTypes'
    BY <1>13, <1>b DEF Start, ProcessTypes, stopVars
  <2> QED
    BY <1>b, <2>1, <2>2, TypeParts
<1> QED
  BY <1>0, <1>1, <1>2, <1>3, <1>4, <1>5, <1>6, <1>7, <1>8, <1>9, <1>11, <1>12, <1>13
  DEF HandlerStep, MainStep

\* And so does a stuttering step.
LEMMA StutterType ==
  ASSUME TypeOK, Controlled, UNCHANGED vars
  PROVE  TypeOK' /\ Controlled'
  BY
  DEF vars, callerVars, channelVars, serverVars, stopVars, TypeOK, Controlled,
      Control

\* The first layer.
Typed == TypeOK /\ Controlled

\* Typed is inductive.
LEMMA TypeNext == Typed /\ [Next]_vars => Typed'
<1> SUFFICES ASSUME Typed, [Next]_vars PROVE Typed'
  OBVIOUS
<1>1. CASE \E c \in Callers : Call(c) \/ CallerStep(c)
  BY <1>1, CallerType DEF Typed
<1>2. CASE \/ \E k \in Conns : HandlerStep(k)
           \/ MainStep \/ TakeConnection \/ Stop \/ Crash \/ Start
  BY <1>2, ServerType DEF Typed
<1>3. CASE UNCHANGED vars
  BY <1>3, StutterType DEF Typed
<1> QED
  BY <1>1, <1>2, <1>3 DEF Next

-----------------------------------------------------------------------------
(* The other layers of the invariant. *)

\* The listener's backlog and the executor's queue hold the connections in
\* these stages, each once.
Lists(state, q, stage) ==
    /\ \A i \in DOMAIN q : state[q[i]] = stage
    /\ \A i, j \in DOMAIN q : q[i] = q[j] => i = j

Waits == Lists(server, backlog, "backlog") /\ Lists(server, queue, "queued")

Quiet(k) == toServer[k] = <<>> /\ toClient[k] = <<>>
Between(k) == Quiet(k) /\ server[k] \in {"reading", "closed"}

\* Where the request of a caller that waits on k, or its response, is: not
\* yet read, with the handler, on its way back, or lost.
Unread(c, k) == /\ toServer[k] = <<Own(c)>> /\ toClient[k] = <<>>
                /\ server[k] # "dispatching"
AtWork(c, k) == Quiet(k) /\ server[k] = "dispatching" /\ serving[k] = Own(c)
Back(c, k) == /\ toServer[k] = <<>>
              /\ toClient[k] \in {<<Own(c)>>, <<Garbled>>}
              /\ server[k] \in {"reading", "closed"}
Lost(k) == Quiet(k) /\ server[k] = "closed"

FlightOf(c) ==
    /\ pc[c] = "send" => Quiet(conn[c]) /\ server[conn[c]] # "dispatching"
    /\ pc[c] = "receive" =>
        \/ Unread(c, conn[c]) \/ AtWork(c, conn[c])
        \/ Back(c, conn[c]) \/ Lost(conn[c])
    /\ pc[c] = "release" => Between(conn[c])

Flight == \A c \in Callers : FlightOf(c)

\* What the handlers dispatch and what comes back was executed.
Served ==
    \A k \in Conns :
        /\ server[k] # "dispatching" => serving[k] = NoRequest
        /\ server[k] = "dispatching" =>
            serving[k] \in Requests /\ handled[serving[k]] >= 1
        /\ \A i \in DOMAIN toClient[k] :
            toClient[k][i] # Garbled => handled[toClient[k][i]] >= 1

Answered ==
    \A c \in Callers : outcome[c].kind = "ok" =>
        outcome[c].response = Own(c) /\ handled[Own(c)] >= 1

\* The copies of a request that may still be read, and the attempts at it.
Copies(r) == {k \in Conns : toServer[k] = <<r>>}
Sent(r) ==
    LET c == r[1] IN
    CASE r[2] > serial[c] -> 0
      [] r[2] = serial[c] /\ pc[c] \in {"acquire", "connect", "send"} ->
            attempt[c] - 1
      [] r[2] = serial[c] /\ pc[c] \in {"receive", "backoff"} -> attempt[c]
      [] OTHER -> MaxRetries

Counted ==
    /\ \A k \in Conns : Len(toServer[k]) <= 1
    /\ \A r \in Requests :
        /\ IsFiniteSet(Copies(r))
        /\ handled[r] + Cardinality(Copies(r)) <= Sent(r)

\* No connection that waits or is read has served a request since stop().
Lately ==
    \A k \in Conns :
        /\ late[k] <= 1
        /\ stop = "no" => late[k] = 0
        /\ server[k] \notin {"dispatching", "closed"} => late[k] = 0

Opened == {k \in Conns : client[k] = "open"}
Connecting == {c \in Callers : pc[c] = "connect"}

-----------------------------------------------------------------------------
(* Owners of connections. *)

\* The steps of the enclave.
ServerStep == \/ \E k \in Conns : HandlerStep(k)
              \/ MainStep \/ TakeConnection \/ Stop \/ Crash \/ Start

\* A step is one of a caller, one of the server, or none.
LEMMA StepKinds ==
  [Next]_vars <=> \/ \E c \in Callers : Call(c) \/ CallerStep(c)
                  \/ ServerStep \/ UNCHANGED vars
  BY DEF Next, ServerStep

\* No step of the enclave changes the host's pool, its callers or its sockets.
LEMMA ServerKeeps ==
  ServerStep => UNCHANGED <<callerVars, client>>
  BY DEF ServerStep, HandlerStep, MainStep, ReadRequest, WriteResponse, WriteLost,
         CloseIdle, Accept, Exit, EnterSubmit, LeaveSubmit, TakeConnection, Stop,
         Crash, Start, Down, callerVars, channelVars

\* What pop() takes from the end of the pool, and what it leaves.
LEMMA FrontLast ==
  ASSUME NEW S, NEW s \in Seq(S), s # <<>>
  PROVE  /\ Len(s) \in Nat \ {0}
         /\ Front(s) \in Seq(S) /\ Len(Front(s)) = Len(s) - 1
         /\ DOMAIN s = 1..Len(s) /\ DOMAIN Front(s) = 1..(Len(s) - 1)
         /\ \A i \in 1..(Len(s) - 1) : Front(s)[i] = s[i]
         /\ Last(s) = s[Len(s)] /\ Last(s) \in S
<1>1. Len(s) \in Nat \ {0} /\ DOMAIN s = 1..Len(s)
  BY EmptySeq
<1>2. Front(s) = SubSeq(s, 1, Len(s) - 1) /\ Last(s) = s[Len(s)]
  BY DEF Front, Last
<1>3. /\ Front(s) \in Seq(S) /\ Len(Front(s)) = Len(s) - 1
      /\ \A i \in 1..(Len(s) - 1) : Front(s)[i] = s[i]
  BY <1>1, <1>2, SubSeqProperties
<1>4. DOMAIN Front(s) = 1..(Len(s) - 1)
  BY <1>1, <1>3
<1>5. Last(s) \in S
  BY <1>1, <1>2
<1> QED
  BY <1>1, <1>2, <1>3, <1>4, <1>5

\* What append() adds at the end of a sequence.
LEMMA Appended ==
  ASSUME NEW S, NEW s \in Seq(S), NEW x \in S
  PROVE  /\ Append(s, x) \in Seq(S) /\ Len(Append(s, x)) = Len(s) + 1
         /\ Len(s) \in Nat /\ DOMAIN s = 1..Len(s)
         /\ DOMAIN Append(s, x) = 1..(Len(s) + 1)
         /\ \A i \in 1..Len(s) : Append(s, x)[i] = s[i]
         /\ Append(s, x)[Len(s) + 1] = x
  BY AppendProperties

\* What is taken from the front of a queue, and what stays.
LEMMA Beheaded ==
  ASSUME NEW S, NEW s \in Seq(S), s # <<>>
  PROVE  /\ Len(s) \in Nat \ {0} /\ DOMAIN s = 1..Len(s)
         /\ Head(s) = s[1] /\ Head(s) \in S
         /\ Tail(s) \in Seq(S) /\ DOMAIN Tail(s) = 1..(Len(s) - 1)
         /\ Len(Tail(s)) = Len(s) - 1
         /\ \A i \in 1..(Len(s) - 1) : Tail(s)[i] = s[i + 1]
  BY HeadTailProperties

\* What an attempt that fails does to its connection.
LEMMA FailsDrops ==
  ASSUME Typed, NEW c \in Callers, Fails(c)
  PROVE  /\ client' = IF conn[c] = NoConn THEN client
                      ELSE [client EXCEPT ![conn[c]] = "closed"]
         /\ conn' = [conn EXCEPT ![c] = NoConn]
         /\ pc' = [pc EXCEPT ![c] = IF attempt[c] >= MaxRetries THEN "done"
                                    ELSE "backoff"]
         /\ \A d \in Callers \ {c} : outcome'[d] = outcome[d]
         /\ attempt[c] < MaxRetries => UNCHANGED outcome
         /\ UNCHANGED <<pool, attempt, serial, serverVars, toServer, toClient>>
<1>1. PICK e \in {"timeout", "communication"} : AttemptFails(c, e)
  BY DEF Fails
<1>2. CASE attempt[c] >= MaxRetries
  BY <1>1, <1>2, Assumed DEF AttemptFails, Finish, Goto, Typed, TypeOK, Assumptions
<1>3. CASE ~(attempt[c] >= MaxRetries)
  BY <1>1, <1>3 DEF AttemptFails, Finish, Goto
<1> QED
  BY <1>2, <1>3

\* Pooling, handing out and closing keep one owner of every open connection
\* (enclave_client.py:267-289): _release_connection gives up what its caller alone
\* held, _acquire_connection takes what nobody else can take.
LEMMA OwnerNext == Typed /\ SoleOwner /\ [Next]_vars => SoleOwner'
<1> SUFFICES ASSUME Typed, SoleOwner, [Next]_vars PROVE SoleOwner'
  OBVIOUS
<1>0. CASE UNCHANGED <<pool, conn, client>>
  BY <1>0 DEF SoleOwner, Pooled
<1>1. ASSUME NEW c \in Callers, AcquirePooled(c) PROVE SoleOwner'
  <2>1. pool \in Seq(Conns) /\ pool # <<>>
    BY <1>1 DEF AcquirePooled, Typed, TypeOK
  <2>2. conn[c] = NoConn
    BY <1>1 DEF AcquirePooled, Typed, Controlled, Control, Holding
  <2>3. /\ DOMAIN pool = 1..Len(pool) /\ Len(pool) \in Nat \ {0}
        /\ DOMAIN pool' = 1..(Len(pool) - 1)
        /\ \A i \in 1..(Len(pool) - 1) : pool'[i] = pool[i]
        /\ conn' = [conn EXCEPT ![c] = pool[Len(pool)]]
        /\ UNCHANGED client /\ conn \in [Callers -> Conns \cup {NoConn}]
        /\ pool[Len(pool)] \in Conns
    <3>1. /\ DOMAIN pool = 1..Len(pool) /\ Len(pool) \in Nat \ {0}
          /\ DOMAIN Front(pool) = 1..(Len(pool) - 1)
          /\ \A i \in 1..(Len(pool) - 1) : Front(pool)[i] = pool[i]
          /\ Last(pool) = pool[Len(pool)] /\ Last(pool) \in Conns
      BY <2>1, FrontLast
    <3> QED
      BY <1>1, <3>1 DEF AcquirePooled, channelVars, Typed, TypeOK
  <2> DEFINE k == pool[Len(pool)]
  <2>4. Pooled' = Pooled \ {k}
    <3>1. Pooled' = {pool[i] : i \in 1..(Len(pool) - 1)}
      BY <2>3 DEF Pooled
    <3>2. \A i \in 1..(Len(pool) - 1) : pool[i] # k
      BY <2>3 DEF SoleOwner
    <3> QED
      BY <2>3, <3>1, <3>2 DEF Pooled
  <2>5. k \in Pooled
    BY <2>3 DEF Pooled
  <2>6. \A i, j \in DOMAIN pool' : pool'[i] = pool'[j] => i = j
    BY <2>3 DEF SoleOwner
  <2> QED
    BY <2>2, <2>3, <2>4, <2>5, <2>6, Assumed DEF Assumptions, SoleOwner
<1>2. ASSUME NEW c \in Callers, Connect(c) PROVE SoleOwner'
  <2>1. PICK k \in Conns :
            /\ Unused(k)
            /\ conn' = [conn EXCEPT ![c] = k]
            /\ client' = [client EXCEPT ![k] = "open"]
    BY <1>2 DEF Connect
  <2>2. conn[c] = NoConn
    BY <1>2 DEF Connect, Typed, Controlled, Control, Holding
  <2>3. k \notin Pooled /\ \A d \in Callers : conn[d] # k
    BY <2>1, Assumed DEF Assumptions, Unused, SoleOwner
  <2>4. UNCHANGED <<pool, Pooled>>
    BY <1>2 DEF Connect, Pooled
  <2> QED
    <3>1. /\ conn \in [Callers -> Conns \cup {NoConn}] /\ NoConn \notin Conns
          /\ client \in [Conns -> {"open", "closed"}]
      BY Assumed DEF Assumptions, Typed, TypeOK
    <3> QED
      BY <2>1, <2>2, <2>3, <2>4, <3>1 DEF SoleOwner
<1>3. ASSUME NEW c \in Callers, UNCHANGED pool,
             client' = IF conn[c] = NoConn THEN client
                       ELSE [client EXCEPT ![conn[c]] = "closed"],
             conn' = [conn EXCEPT ![c] = NoConn]
      PROVE  SoleOwner'
  <2>1. UNCHANGED Pooled
    BY <1>3 DEF Pooled
  <2> QED
    BY <1>3, <2>1, Assumed DEF Assumptions, SoleOwner, Typed, TypeOK
<1>4. ASSUME NEW c \in Callers, Receive(c) PROVE SoleOwner'
  <2>1. conn[c] # NoConn
    BY <1>4, Assumed DEF Receive, Typed, Controlled, Control, Holding
  <2> QED
    BY <1>0, <1>3, <1>4, <2>1 DEF Receive
<1>5. ASSUME NEW c \in Callers, Release(c) PROVE SoleOwner'
  <2>1. conn[c] \in Conns /\ conn[c] # NoConn /\ pool \in Seq(Conns)
    BY <1>5, Assumed
    DEF Assumptions, Release, Typed, TypeOK, Controlled, Control, Holding
  <2>2. CASE Len(pool) >= MaxPool
    BY <1>3, <1>5, <2>1, <2>2 DEF Release
  <2>3. CASE pool' = Append(pool, conn[c]) /\ UNCHANGED client
    <3>1. /\ DOMAIN pool = 1..Len(pool) /\ Len(pool) \in Nat
          /\ DOMAIN pool' = 1..(Len(pool) + 1)
          /\ \A i \in 1..Len(pool) : pool'[i] = pool[i]
          /\ pool'[Len(pool) + 1] = conn[c]
      BY <2>1, <2>3, Appended
    <3>2. Pooled' = Pooled \cup {conn[c]}
      BY <3>1 DEF Pooled
    <3>3. conn[c] \notin Pooled
      BY <2>1 DEF SoleOwner
    <3>4. \A i, j \in DOMAIN pool' : pool'[i] = pool'[j] => i = j
      BY <3>1, <3>3 DEF SoleOwner, Pooled
    <3>5. conn' = [conn EXCEPT ![c] = NoConn]
      BY <1>5 DEF Release
    <3> QED
      <4>1. conn \in [Callers -> Conns \cup {NoConn}]
        BY DEF Typed, TypeOK
      <4> QED
        BY <2>1, <2>3, <3>2, <3>4, <3>5, <4>1 DEF SoleOwner
  <2> QED
    BY <1>5, <2>2, <2>3 DEF Release
<1>6. ASSUME NEW c \in Callers, Fails(c) PROVE SoleOwner'
  BY <1>3, <1>6, FailsDrops
<1>7. ASSUME NEW c \in Callers, Call(c) \/ CallerStep(c) PROVE SoleOwner'
  <2>1. CASE Call(c) \/ PoolEmpty(c) \/ Send(c) \/ Retry(c) \/ Return(c)
    BY <1>0, <2>1 DEF Call, PoolEmpty, Send, Retry, Return, channelVars
  <2> QED
    BY <1>1, <1>2, <1>4, <1>5, <1>6, <1>7, <2>1
    DEF CallerStep, ConnectFails, SendFails, ReceiveFails, Fails
<1> QED
  BY <1>0, <1>7, StepKinds, ServerKeeps DEF vars, callerVars, channelVars

-----------------------------------------------------------------------------
(* The queues of the server. *)

\* A queue still lists the connections of a stage when none of them moved.
LEMMA ListsKept ==
  ASSUME NEW s, NEW t, NEW q, NEW stage, Lists(s, q, stage),
         \A i \in DOMAIN q : t[q[i]] = s[q[i]]
  PROVE  Lists(t, q, stage)
  BY DEF Lists

\* A connection that enters the stage is put at the end of its queue.
LEMMA ListsAppended ==
  ASSUME NEW s \in [Conns -> ServerStates], NEW q \in Seq(Conns),
         NEW stage \in ServerStates, NEW k \in Conns, Lists(s, q, stage),
         s[k] # stage
  PROVE  Lists([s EXCEPT ![k] = stage], Append(q, k), stage)
<1> DEFINE t == [s EXCEPT ![k] = stage]
<1>1. /\ Len(q) \in Nat /\ DOMAIN q = 1..Len(q) /\ DOMAIN Append(q, k) = 1..(Len(q) + 1)
      /\ \A i \in 1..Len(q) : Append(q, k)[i] = q[i] /\ q[i] \in Conns
      /\ Append(q, k)[Len(q) + 1] = k
  BY Appended
<1>2. \A i \in 1..Len(q) : q[i] # k /\ s[q[i]] = stage
  BY <1>1 DEF Lists
<1>3. \A i \in DOMAIN Append(q, k) : t[Append(q, k)[i]] = stage
  BY <1>1, <1>2
<1>4. \A i, j \in DOMAIN Append(q, k) :
        Append(q, k)[i] = Append(q, k)[j] => i = j
  BY <1>1, <1>2 DEF Lists
<1> QED
  BY <1>3, <1>4 DEF Lists

\* A connection that leaves the stage is taken from the front of its queue.
LEMMA ListsBeheaded ==
  ASSUME NEW s \in [Conns -> ServerStates], NEW q \in Seq(Conns),
         NEW stage, NEW other, q # <<>>, Lists(s, q, stage)
  PROVE  /\ Lists([s EXCEPT ![Head(q)] = other], Tail(q), stage)
         /\ Head(q) \in Conns /\ s[Head(q)] = stage
<1>1. /\ Len(q) \in Nat \ {0} /\ DOMAIN q = 1..Len(q)
      /\ Head(q) = q[1] /\ DOMAIN Tail(q) = 1..(Len(q) - 1)
      /\ \A i \in 1..(Len(q) - 1) : Tail(q)[i] = q[i + 1]
      /\ \A i \in 1..Len(q) : q[i] \in Conns
  BY Beheaded
<1>2. \A i \in 1..(Len(q) - 1) : Tail(q)[i] # Head(q)
  BY <1>1 DEF Lists
<1> QED
  BY <1>1, <1>2 DEF Lists

\* An empty queue lists nothing.
LEMMA ListsEmpty ==
  ASSUME NEW s, NEW stage
  PROVE  Lists(s, <<>>, stage)
  BY DEF Lists

\* The backlog and the work queue list their connections through accept, submit,
\* an idle thread, stop() and the end of the process (server.py:141-165).
LEMMA WaitsNext == Typed /\ Waits /\ [Next]_vars => Waits'
<1> SUFFICES ASSUME Typed, Waits, [Next]_vars PROVE Waits'
  OBVIOUS
<1>t. /\ server \in [Conns -> ServerStates]
      /\ backlog \in Seq(Conns) /\ queue \in Seq(Conns)
      /\ Lists(server, backlog, "backlog") /\ Lists(server, queue, "queued")
  BY DEF Typed, TypeOK, Waits
<1>0. CASE UNCHANGED <<server, backlog, queue>>
  BY <1>0 DEF Waits, Lists
<1>k. ASSUME NEW k \in Conns, NEW s, server[k] \notin {"backlog", "queued"},
             Stage(k, s), UNCHANGED <<backlog, queue>>
      PROVE  Waits'
  BY <1>k, <1>t DEF Waits, Lists, Stage
<1>1. ASSUME NEW c \in Callers, Connect(c) PROVE Waits'
  <2>1. PICK k \in Conns : /\ server[k] = "closed"
                           /\ server' = [server EXCEPT ![k] = "backlog"]
                           /\ backlog' = Append(backlog, k)
    BY <1>1 DEF Connect, Unused
  <2>2. Lists(server', backlog', "backlog")
    BY <1>t, <2>1, ListsAppended DEF ServerStates, WaitingStages
  <2>3. Lists(server', queue, "queued")
    BY <1>t, <2>1 DEF Lists
  <2> QED
    BY <1>1, <2>2, <2>3 DEF Connect, Waits
<1>2. ASSUME Accept PROVE Waits'
  <2>1. /\ backlog # <<>> /\ backlog' = Tail(backlog) /\ UNCHANGED queue
        /\ server' = [server EXCEPT ![Head(backlog)] = "accepted"]
    BY <1>2 DEF Accept, Stage
  <2>2. /\ Lists(server', backlog', "backlog")
        /\ Head(backlog) \in Conns /\ server[Head(backlog)] = "backlog"
    BY <1>t, <2>1, ListsBeheaded
  <2>3. Lists(server', queue, "queued")
    BY <1>t, <2>1, <2>2 DEF Lists
  <2> QED
    BY <2>1, <2>2, <2>3 DEF Waits
<1>3. ASSUME TakeConnection PROVE Waits'
  <2>1. /\ queue # <<>> /\ queue' = Tail(queue) /\ UNCHANGED backlog
        /\ server' = [server EXCEPT ![Head(queue)] = NextRead]
    BY <1>3 DEF TakeConnection, Stage
  <2>2. /\ Lists(server', queue', "queued")
        /\ Head(queue) \in Conns /\ server[Head(queue)] = "queued"
    BY <1>t, <2>1, ListsBeheaded
  <2>3. Lists(server', backlog, "backlog")
    BY <1>t, <2>1, <2>2 DEF Lists
  <2> QED
    BY <2>1, <2>2, <2>3 DEF Waits
<1>4. ASSUME NEW k \in Conns, LeaveSubmit(k) PROVE Waits'
  <2>1. /\ server[k] = "submitting" /\ queue' = Append(queue, k)
        /\ UNCHANGED backlog
        /\ server' = [server EXCEPT ![k] = "queued"]
    BY <1>4 DEF LeaveSubmit, Stage
  <2>2. Lists(server', queue', "queued")
    BY <1>t, <2>1, ListsAppended DEF ServerStates, WaitingStages
  <2>3. Lists(server', backlog, "backlog")
    BY <1>t, <2>1 DEF Lists
  <2> QED
    BY <2>1, <2>2, <2>3 DEF Waits
<1>5. ASSUME Stop PROVE Waits'
  <2>1. PICK put \in {<<>>} \cup {<<k>> : k \in At({"submitting"})} :
        /\ server' = [k \in Conns |-> IF server[k] = "backlog" THEN "closed"
                                     ELSE IF put = <<k>> THEN "queued"
                                     ELSE server[k]]
        /\ queue' = queue \o put
    BY <1>5 DEF Stop
  <2>2. Lists(server', backlog', "backlog")
    BY <1>5, ListsEmpty DEF Stop
  <2>3. CASE put = <<>>
    <3>1. queue' = queue
      BY <1>t, <2>1, <2>3
    <3>2. \A i \in DOMAIN queue : queue[i] \in Conns /\ server[queue[i]] = "queued"
      BY <1>t DEF Lists
    <3>3. \A i \in DOMAIN queue : server'[queue[i]] = server[queue[i]]
      BY <2>1, <2>3, <3>2
    <3> QED
      BY <1>t, <2>2, <3>1, <3>3, ListsKept DEF Waits
  <2>4. CASE put # <<>>
    <3>1. PICK k \in Conns : put = <<k>> /\ server[k] = "submitting"
      BY <2>4 DEF At
    <3>2. queue' = Append(queue, k)
      BY <1>t, <2>1, <3>1
    <3>3. Lists([server EXCEPT ![k] = "queued"], queue', "queued")
      BY <1>t, <3>1, <3>2, ListsAppended DEF ServerStates, WaitingStages
    <3>4. \A j \in Conns : server'[j] = IF server[j] = "backlog" THEN "closed"
                                        ELSE [server EXCEPT ![k] = "queued"][j]
      BY <1>t, <2>1, <3>1
    <3>5. \A i \in DOMAIN queue' : queue'[i] \in Conns /\ server'[queue'[i]] = "queued"
      <4>1. queue' \in Seq(Conns)
        BY <1>t, <3>2, AppendProperties
      <4>2. ASSUME NEW i \in DOMAIN queue'
            PROVE  queue'[i] \in Conns /\ server'[queue'[i]] = "queued"
        <5>1. queue'[i] \in Conns
          BY <4>1
        <5>2. [server EXCEPT ![k] = "queued"][queue'[i]] = "queued"
          BY <3>3 DEF Lists
        <5> QED
          BY <1>t, <3>1, <3>4, <5>1, <5>2
      <4> QED
        BY <4>2
    <3> QED
      BY <2>2, <3>3, <3>5 DEF Waits, Lists
  <2> QED
    BY <2>3, <2>4
<1>6. ASSUME Down PROVE Waits'
  BY <1>6, ListsEmpty DEF Down, Waits
<1>7. ASSUME NEW c \in Callers, Call(c) \/ CallerStep(c) PROVE Waits'
  <2>1. CASE Connect(c)
    BY <1>1, <2>1
  <2>2. CASE ~Connect(c)
    <3>1. UNCHANGED <<server, backlog, queue>>
      BY <1>7, <2>2
      DEF Call, CallerStep, AcquirePooled, PoolEmpty, ConnectFails, Send, SendFails,
          Receive, ReceiveFails, Release, Retry, Return, AttemptFails, serverVars
    <3> QED
      BY <1>0, <3>1
  <2> QED
    BY <2>1, <2>2
<1>8. ASSUME ServerStep PROVE Waits'
  <2>1. ASSUME NEW k \in Conns, HandlerStep(k) PROVE Waits'
    BY <1>k, <2>1 DEF HandlerStep, ReadRequest, WriteResponse, WriteLost, CloseIdle
  <2>2. ASSUME NEW k \in Conns, EnterSubmit(k) PROVE Waits'
    BY <1>k, <2>2 DEF EnterSubmit
  <2>3. CASE Start
    BY <1>0, <2>3 DEF Start
  <2> QED
    BY <1>2, <1>3, <1>4, <1>5, <1>6, <1>8, <2>1, <2>2, <2>3
    DEF ServerStep, MainStep, Exit, Crash
<1> QED
  BY <1>0, <1>7, <1>8, StepKinds DEF vars, serverVars

-----------------------------------------------------------------------------
(* Requests in flight. *)

\* Where everything in flight is.
Flights == Flight /\ PooledQuiet

\* A caller inside an attempt holds an open connection of its own; another holds
\* none.
LEMMA Held ==
  ASSUME Typed, SoleOwner, NEW c \in Callers
  PROVE  /\ pc[c] \in Holding => /\ conn[c] \in Conns \ Pooled
                                 /\ client[conn[c]] = "open"
                                 /\ \A d \in Callers : conn[d] = conn[c] => d = c
         /\ pc[c] \notin Holding => conn[c] = NoConn
  BY Assumed DEF Assumptions, Typed, TypeOK, Controlled, Control, SoleOwner

\* The pool holds connections.
LEMMA PooledConns == TypeOK => Pooled \subseteq Conns
  BY DEF TypeOK, Pooled

\* A caller whose connection is left alone stays where it is.
LEMMA FlightKept ==
  ASSUME NEW c \in Callers, FlightOf(c), pc'[c] = pc[c],
         pc[c] \in Holding =>
            /\ conn'[c] = conn[c] /\ serial'[c] = serial[c]
            /\ toServer'[conn[c]] = toServer[conn[c]]
            /\ toClient'[conn[c]] = toClient[conn[c]]
            /\ server'[conn[c]] = server[conn[c]]
            /\ serving'[conn[c]] = serving[conn[c]]
  PROVE  FlightOf(c)'
  BY DEF FlightOf, Holding, Quiet, Between, Unread, AtWork, Back, Lost, Own

\* So does a pooled connection.
LEMMA QuietKept ==
  ASSUME PooledQuiet, NEW k \in Pooled,
         toServer'[k] = toServer[k], toClient'[k] = toClient[k],
         server'[k] = server[k]
  PROVE  Between(k)'
  BY DEF PooledQuiet, Between, Quiet

\* A step of one caller disturbs only the connection it holds or takes.
LEMMA FlightCaller ==
  ASSUME Typed, SoleOwner, Flights, NEW c \in Callers,
         \A d \in Callers \ {c} :
            pc'[d] = pc[d] /\ conn'[d] = conn[d] /\ serial'[d] = serial[d],
         UNCHANGED serving,
         \A k \in Conns :
            k \in Pooled \/ (\E d \in Callers \ {c} : conn[d] = k) =>
                /\ toServer'[k] = toServer[k] /\ toClient'[k] = toClient[k]
                /\ server'[k] = server[k],
         FlightOf(c)',
         \A k \in Pooled' \ Pooled : Between(k)'
  PROVE  Flights'
<1>1. ASSUME NEW d \in Callers \ {c} PROVE FlightOf(d)'
  <2>1. pc[d] \in Holding => conn[d] \in Conns
    BY Held
  <2>2. FlightOf(d)
    BY DEF Flights, Flight
  <2> QED
    BY <2>1, <2>2, FlightKept
<1>2. ASSUME NEW k \in Pooled' PROVE Between(k)'
  <2>1. CASE k \in Pooled
    <3>1. k \in Conns
      BY <2>1, PooledConns DEF Typed
    <3> QED
      BY <2>1, <3>1, QuietKept DEF Flights
  <2> QED
    BY <2>1
<1> QED
  BY <1>1, <1>2 DEF Flights, Flight, PooledQuiet, Between, Quiet

\* A step of the enclave that moves connections from stage to stage, without
\* reading or writing, leaves every request in flight accounted for.
LEMMA FlightServer ==
  ASSUME Typed, SoleOwner, Flights, UNCHANGED <<callerVars, toServer, toClient>>,
         \A k \in Conns : serving'[k] = serving[k] \/ client[k] = "closed",
         \A k \in Conns :
            \/ server'[k] = server[k]
            \/ server[k] \in WaitingStages /\ server'[k] # "dispatching"
            \/ /\ server[k] = "reading" /\ toServer[k] = <<>>
               /\ server'[k] = "closed"
            \/ client[k] = "closed"
  PROVE  Flights'
<1>1. ASSUME NEW c \in Callers PROVE FlightOf(c)'
  <2>1. FlightOf(c) /\ UNCHANGED <<pc, conn, serial>>
    BY DEF Flights, Flight, callerVars
  <2>a. pc[c] \in Holding => serving'[conn[c]] = serving[conn[c]]
    BY Held
  <2>2. CASE pc[c] \in Holding /\ server'[conn[c]] # server[conn[c]]
    <3>1. \/ server[conn[c]] \in WaitingStages /\ server'[conn[c]] # "dispatching"
          \/ /\ server[conn[c]] = "reading" /\ toServer[conn[c]] = <<>>
             /\ server'[conn[c]] = "closed"
      BY <2>2, Held
    <3>2. Own(c) # <<>> /\ toServer[conn[c]] = <<Own(c)>> => toServer[conn[c]] # <<>>
      BY DEF Own
    <3> QED
      BY <2>1, <2>a, <2>2, <3>1, <3>2
      DEF FlightOf, Holding, Quiet, Between, Unread, AtWork, Back, Lost,
          WaitingStages, Own
  <2>3. CASE pc[c] \notin Holding \/ server'[conn[c]] = server[conn[c]]
    BY <2>1, <2>a, <2>3, FlightKept
  <2> QED
    BY <2>2, <2>3
<1>2. ASSUME NEW k \in Pooled' PROVE Between(k)'
  <2>1. k \in Pooled /\ k \in Conns /\ client[k] = "open"
    BY PooledConns DEF Pooled, callerVars, Typed, SoleOwner
  <2> QED
    BY <2>1 DEF Flights, PooledQuiet, Between, Quiet, WaitingStages
<1> QED
  BY <1>1, <1>2 DEF Flights, Flight, PooledQuiet, Between, Quiet

\* Reading a request: it is the holder's own, and its handler works on it now.
LEMMA FlightRead ==
  ASSUME Typed, SoleOwner, Flights, NEW k \in Conns, ReadRequest(k)
  PROVE  Flights'
<1> USE DEF ReadRequest, callerVars, Stage
<1>0. /\ toServer[k] \in Seq(Requests) /\ toServer[k] # <<>>
      /\ server[k] = "reading"
      /\ server' = [server EXCEPT ![k] = "dispatching"]
      /\ serving' = [serving EXCEPT ![k] = Head(toServer[k])]
      /\ toServer' = [toServer EXCEPT ![k] = Tail(@)]
      /\ UNCHANGED <<toClient, pc, conn, serial, pool>>
  BY DEF Typed, TypeOK
<1>1. ASSUME NEW c \in Callers PROVE FlightOf(c)'
  <2>1. FlightOf(c)
    BY DEF Flights, Flight
  <2>2. CASE pc[c] \in Holding /\ conn[c] = k
    <3>1. pc[c] = "receive" /\ Unread(c, k)
      BY <1>0, <2>1, <2>2
      DEF FlightOf, Holding, Quiet, Between, AtWork, Back, Lost
    <3>2. Head(<<Own(c)>>) = Own(c) /\ Tail(<<Own(c)>>) = <<>>
      OBVIOUS
    <3>3. AtWork(c, k)'
      BY <1>0, <3>1, <3>2 DEF Unread, AtWork, Quiet, Own, Typed, TypeOK
    <3> QED
      BY <1>0, <2>2, <3>1, <3>3 DEF FlightOf
  <2>3. CASE ~(pc[c] \in Holding /\ conn[c] = k)
    <3>1. pc[c] \in Holding => conn[c] \in Conns
      BY Held
    <3> QED
      BY <1>0, <2>1, <2>3, <3>1, FlightKept DEF Typed, TypeOK
  <2> QED
    BY <2>2, <2>3
<1>2. ASSUME NEW j \in Pooled' PROVE Between(j)'
  <2>1. j \in Pooled /\ j \in Conns
    BY <1>0, PooledConns DEF Pooled, Typed
  <2>2. j # k
    BY <1>0, <2>1 DEF Flights, PooledQuiet
  <2> QED
    BY <1>0, <2>1, <2>2, QuietKept DEF Flights, Typed, TypeOK
<1> QED
  BY <1>1, <1>2 DEF Flights, Flight, PooledQuiet, Between, Quiet

\* Writing a response: it is the answer to its holder, or garbled.
LEMMA FlightWrite ==
  ASSUME Typed, SoleOwner, Flights, NEW k \in Conns, WriteResponse(k)
  PROVE  Flights'
<1> USE DEF WriteResponse, callerVars, Stage
<1>0. PICK response \in Responses(k) :
        toClient' = [toClient EXCEPT ![k] = Append(@, response)]
  OBVIOUS
<1>a. /\ server[k] = "dispatching"
      /\ server' = [server EXCEPT ![k] = NextRead]
      /\ NextRead \in {"reading", "closed"}
      /\ serving' = [serving EXCEPT ![k] = NoRequest]
      /\ UNCHANGED <<toServer, pc, conn, serial, pool>>
  BY DEF NextRead
<1>1. ASSUME NEW c \in Callers PROVE FlightOf(c)'
  <2>1. FlightOf(c)
    BY DEF Flights, Flight
  <2>2. CASE pc[c] \in Holding /\ conn[c] = k
    <3>1. pc[c] = "receive" /\ AtWork(c, k)
      BY <1>a, <2>1, <2>2
      DEF FlightOf, Holding, Between, Unread, Back, Lost
    <3>2. response \in {Own(c), Garbled}
      BY <3>1 DEF AtWork, Responses
    <3>3. toClient'[k] = <<response>>
      BY <1>0, <3>1 DEF AtWork, Quiet, Typed, TypeOK
    <3>4. Back(c, k)'
      BY <1>a, <3>1, <3>2, <3>3 DEF Back, AtWork, Quiet, Own, Typed, TypeOK
    <3> QED
      BY <1>a, <2>2, <3>1, <3>4 DEF FlightOf
  <2>3. CASE ~(pc[c] \in Holding /\ conn[c] = k)
    <3>1. pc[c] \in Holding => conn[c] \in Conns
      BY Held
    <3> QED
      BY <1>0, <1>a, <2>1, <2>3, <3>1, FlightKept DEF Typed, TypeOK
  <2> QED
    BY <2>2, <2>3
<1>2. ASSUME NEW j \in Pooled' PROVE Between(j)'
  <2>1. j \in Pooled /\ j \in Conns
    BY <1>a, PooledConns DEF Pooled, Typed
  <2>2. j # k
    BY <1>a, <2>1 DEF Flights, PooledQuiet
  <2> QED
    BY <1>0, <1>a, <2>1, <2>2, QuietKept DEF Flights, Typed, TypeOK
<1> QED
  BY <1>1, <1>2 DEF Flights, Flight, PooledQuiet, Between, Quiet

\* When the enclave goes down, what was in flight is lost or already back.
LEMMA FlightDown ==
  ASSUME Typed, SoleOwner, Flights, Down,
         toClient' \in {toClient, [k \in Conns |-> <<>>]}
  PROVE  Flights'
<1> USE DEF Down, callerVars
<1>1. ASSUME NEW c \in Callers PROVE FlightOf(c)'
  <2>1. FlightOf(c)
    BY DEF Flights, Flight
  <2>2. pc[c] \in Holding => conn[c] \in Conns
    BY Held
  <2>3. pc[c] \in Holding => /\ toServer'[conn[c]] = <<>> /\ server'[conn[c]] = "closed"
                             /\ toClient'[conn[c]] \in {toClient[conn[c]], <<>>}
    BY <2>2
  <2> QED
    BY <2>1, <2>3
    DEF FlightOf, Holding, Quiet, Between, Unread, AtWork, Back, Lost, Own
<1>2. ASSUME NEW k \in Pooled' PROVE Between(k)'
  <2>1. k \in Pooled /\ k \in Conns
    BY PooledConns DEF Pooled, Typed
  <2> QED
    BY <2>1 DEF Flights, PooledQuiet, Between, Quiet
<1> QED
  BY <1>1, <1>2 DEF Flights, Flight, PooledQuiet, Between, Quiet

\* Every step of the enclave keeps Flights.
LEMMA FlightServerStep ==
  ASSUME Typed, SoleOwner, Waits, Flights, ServerStep
  PROVE  Flights'
<1> USE DEF Stage
<1>w. /\ server \in [Conns -> ServerStates]
      /\ "accepted" \in WaitingStages /\ "submitting" \in WaitingStages
      /\ "backlog" \in WaitingStages /\ "queued" \in WaitingStages
  BY DEF WaitingStages, Typed, TypeOK
<1>n. NextRead # "dispatching"
  BY DEF NextRead
<1>1. CASE Accept
  <2>1. Head(backlog) \in Conns /\ server[Head(backlog)] = "backlog"
    BY <1>1, ListsBeheaded DEF Accept, Waits, Typed, TypeOK
  <2> QED
    BY <1>1, <1>w, <2>1, FlightServer DEF Accept, channelVars
<1>2. CASE TakeConnection
  <2>1. Head(queue) \in Conns /\ server[Head(queue)] = "queued"
    BY <1>2, ListsBeheaded DEF TakeConnection, Waits, Typed, TypeOK
  <2> QED
    BY <1>2, <1>w, <1>n, <2>1, FlightServer DEF TakeConnection, channelVars
<1>3. ASSUME NEW k \in Conns, EnterSubmit(k) \/ LeaveSubmit(k) PROVE Flights'
  BY <1>3, <1>w, FlightServer DEF EnterSubmit, LeaveSubmit, channelVars
<1>4. ASSUME NEW k \in Conns, CloseIdle(k) PROVE Flights'
  BY <1>4, <1>w, FlightServer DEF CloseIdle, channelVars
<1>5. ASSUME NEW k \in Conns, WriteLost(k) PROVE Flights'
  BY <1>5, <1>w, FlightServer DEF WriteLost, channelVars, Typed, TypeOK
<1>6. CASE Stop
  <2>1. PICK put \in {<<>>} \cup {<<k>> : k \in At({"submitting"})} :
        server' = [k \in Conns |-> IF server[k] = "backlog" THEN "closed"
                                   ELSE IF put = <<k>> THEN "queued"
                                   ELSE server[k]]
    BY <1>6 DEF Stop
  <2>2. \A k \in Conns : put = <<k>> => server[k] = "submitting"
    <3>1. \A j \in At({"submitting"}) : server[j] = "submitting"
      BY DEF At
    <3> QED
      BY <3>1
  <2>3. \A k \in Conns : \/ server'[k] = server[k]
                         \/ server[k] \in WaitingStages /\ server'[k] # "dispatching"
    BY <1>w, <2>1, <2>2
  <2> QED
    BY <1>6, <2>3, FlightServer DEF Stop, channelVars
<1>7. CASE Start
  BY <1>7, FlightServer DEF Start, channelVars
<1> QED
  BY <1>1, <1>2, <1>3, <1>4, <1>5, <1>6, <1>7, FlightRead, FlightWrite, FlightDown
  DEF ServerStep, HandlerStep, MainStep, Exit, Crash

\* Every step of send_request keeps Flights: a connection is only pooled after its
\* response was read, and one whose attempt failed is closed
\* (enclave_client.py:169-189).
LEMMA FlightCallerStep ==
  ASSUME Typed, SoleOwner, Flights, NEW c \in Callers, Call(c) \/ CallerStep(c)
  PROVE  Flights'
<1> USE DEF Goto
<1>t. /\ pc \in [Callers -> Labels] /\ conn \in [Callers -> Conns \cup {NoConn}]
      /\ serial \in [Callers -> 0..MaxRequests] /\ pool \in Seq(Conns)
      /\ toServer \in [Conns -> Seq(Requests)] /\ server \in [Conns -> ServerStates]
      /\ toClient \in [Conns -> Seq(Requests \cup {Garbled})]
  BY DEF Typed, TypeOK
<1>c. FlightOf(c)
  BY DEF Flights, Flight
<1>1. CASE Call(c) \/ PoolEmpty(c) \/ Retry(c) \/ Return(c)
  <2>1. /\ UNCHANGED <<pool, conn, server, serving, channelVars>>
        /\ \A d \in Callers \ {c} : pc'[d] = pc[d] /\ serial'[d] = serial[d]
        /\ pc'[c] \notin Holding
    BY <1>1, <1>t DEF Call, PoolEmpty, Retry, Return, serverVars, Holding
  <2>2. Pooled' = Pooled /\ FlightOf(c)'
    BY <2>1 DEF Pooled, FlightOf, Holding
  <2> QED
    BY <2>1, <2>2, FlightCaller DEF channelVars
<1>2. CASE AcquirePooled(c)
  <2>1. pool # <<>>
    BY <1>2 DEF AcquirePooled
  <2>2. /\ pool' = Front(pool) /\ conn' = [conn EXCEPT ![c] = Last(pool)]
        /\ pc' = [pc EXCEPT ![c] = "send"]
        /\ UNCHANGED <<serial, server, serving, toServer, toClient>>
    BY <1>2 DEF AcquirePooled, serverVars, channelVars
  <2>3. /\ Len(pool) \in Nat \ {0} /\ DOMAIN pool = 1..Len(pool)
        /\ DOMAIN Front(pool) = 1..(Len(pool) - 1)
        /\ \A i \in 1..(Len(pool) - 1) : Front(pool)[i] = pool[i]
        /\ Last(pool) = pool[Len(pool)] /\ Last(pool) \in Conns
    BY <1>t, <2>1, FrontLast
  <2>4. Last(pool) \in Pooled /\ Pooled' \subseteq Pooled
    BY <2>2, <2>3 DEF Pooled
  <2>5. FlightOf(c)'
    <3>1. Quiet(Last(pool)) /\ server[Last(pool)] # "dispatching"
      BY <2>4 DEF Flights, PooledQuiet, Quiet
    <3>2. conn'[c] = Last(pool) /\ pc'[c] = "send"
      BY <1>t, <2>2
    <3> QED
      BY <2>2, <3>1, <3>2 DEF FlightOf, Quiet
  <2> QED
    BY <1>t, <2>2, <2>4, <2>5, FlightCaller
<1>3. CASE Connect(c)
  <2>1. PICK k \in Conns :
        /\ Unused(k)
        /\ conn' = [conn EXCEPT ![c] = k]
        /\ server' = [server EXCEPT ![k] = "backlog"]
        /\ toServer' = [toServer EXCEPT ![k] = <<>>]
        /\ toClient' = [toClient EXCEPT ![k] = <<>>]
    BY <1>3 DEF Connect
  <2>2. /\ pc' = [pc EXCEPT ![c] = "send"]
        /\ UNCHANGED <<serial, pool, serving>>
    BY <1>3 DEF Connect
  <2>3. k \notin Pooled /\ \A d \in Callers : conn[d] # k
    BY <2>1, Assumed DEF Assumptions, Unused, SoleOwner
  <2>4. FlightOf(c)'
    BY <1>t, <2>1, <2>2 DEF FlightOf, Quiet
  <2>5. Pooled' = Pooled
    BY <2>2 DEF Pooled
  <2> QED
    BY <1>t, <2>1, <2>2, <2>3, <2>4, <2>5, FlightCaller
<1>4. CASE Fails(c)
  <2>1. /\ conn' = [conn EXCEPT ![c] = NoConn]
        /\ pc' = [pc EXCEPT ![c] = IF attempt[c] >= MaxRetries THEN "done"
                                   ELSE "backoff"]
        /\ UNCHANGED <<serial, pool, server, serving, toServer>>
        /\ UNCHANGED toClient
    BY <1>4, FailsDrops DEF serverVars
  <2>2. FlightOf(c)'
    BY <1>t, <2>1 DEF FlightOf
  <2>5. Pooled' = Pooled
    BY <2>1 DEF Pooled
  <2> QED
    BY <1>t, <2>1, <2>2, <2>5, FlightCaller
<1>5. CASE Send(c)
  <2>1. /\ pc[c] = "send" /\ conn[c] \in Conns /\ conn[c] \notin Pooled
        /\ \A d \in Callers \ {c} : conn[d] # conn[c]
        /\ Quiet(conn[c]) /\ server[conn[c]] # "dispatching"
    BY <1>5, <1>c, Held DEF Send, Holding, FlightOf
  <2>2. /\ toServer' = [toServer EXCEPT ![conn[c]] =
                            IF server[conn[c]] = "closed" THEN @
                            ELSE Append(@, Own(c))]
        /\ pc' = [pc EXCEPT ![c] = "receive"]
        /\ UNCHANGED <<pool, conn, serial, server, serving, toClient>>
    BY <1>5 DEF Send, serverVars, Own
  <2>3. toServer'[conn[c]] = IF server[conn[c]] = "closed" THEN <<>> ELSE <<Own(c)>>
    BY <1>t, <2>1, <2>2 DEF Quiet
  <2>4. FlightOf(c)'
    BY <1>t, <2>1, <2>2, <2>3 DEF FlightOf, Quiet, Unread, Lost, Own
  <2>5. Pooled' = Pooled
    BY <2>2 DEF Pooled
  <2> QED
    BY <1>t, <2>1, <2>2, <2>4, <2>5, FlightCaller
<1>6. CASE Receive(c)
  <2>1. /\ pc[c] = "receive" /\ conn[c] \in Conns /\ conn[c] \notin Pooled
        /\ \A d \in Callers \ {c} : conn[d] # conn[c]
        /\ Back(c, conn[c])
    BY <1>6, <1>c, Held
    DEF Receive, Holding, FlightOf, Unread, AtWork, Lost, Quiet
  <2>2. /\ toClient' = [toClient EXCEPT ![conn[c]] = Tail(@)]
        /\ \/ pc' = [pc EXCEPT ![c] = "release"] /\ UNCHANGED conn
           \/ /\ pc' = [pc EXCEPT ![c] = "done"]
              /\ conn' = [conn EXCEPT ![c] = NoConn]
        /\ UNCHANGED <<pool, serial, server, serving, toServer>>
    BY <1>6 DEF Receive, serverVars, Finish
  <2>3. toClient'[conn[c]] = <<>>
    <3>1. Tail(<<Own(c)>>) = <<>> /\ Tail(<<Garbled>>) = <<>>
      OBVIOUS
    <3> QED
      BY <1>t, <2>1, <2>2, <3>1 DEF Back
  <2>4. FlightOf(c)'
    BY <1>t, <2>1, <2>2, <2>3 DEF FlightOf, Quiet, Back, Between
  <2>5. Pooled' = Pooled
    BY <2>2 DEF Pooled
  <2> QED
    BY <1>t, <2>1, <2>2, <2>4, <2>5, FlightCaller
<1>7. CASE Release(c)
  <2>1. PICK k \in Conns : /\ pc[c] = "release" /\ conn[c] = k /\ Between(k)
    BY <1>7, <1>c, Held DEF Release, Holding, FlightOf
  <2>2. /\ pool' \in {pool, Append(pool, k)}
        /\ conn' = [conn EXCEPT ![c] = NoConn]
        /\ pc' = [pc EXCEPT ![c] = "done"]
        /\ UNCHANGED <<serial, server, serving, toServer, toClient>>
    BY <1>7, <2>1 DEF Release, serverVars
  <2>3. Pooled' \subseteq Pooled \cup {k}
    <3>1. /\ DOMAIN pool = 1..Len(pool) /\ Len(pool) \in Nat
          /\ DOMAIN Append(pool, k) = 1..(Len(pool) + 1)
          /\ \A i \in 1..Len(pool) : Append(pool, k)[i] = pool[i]
          /\ Append(pool, k)[Len(pool) + 1] = k
      BY <1>t, <2>1, Appended
    <3>2. CASE pool' = pool
      BY <3>2 DEF Pooled
    <3>3. CASE pool' = Append(pool, k)
      BY <3>1, <3>3 DEF Pooled
    <3> QED
      BY <2>2, <3>2, <3>3
  <2>4. FlightOf(c)' /\ Between(k)'
    BY <1>t, <2>1, <2>2 DEF FlightOf, Between, Quiet
  <2> QED
    BY <1>t, <2>1, <2>2, <2>3, <2>4, FlightCaller
<1> QED
  BY <1>1, <1>2, <1>3, <1>4, <1>5, <1>6, <1>7
  DEF CallerStep, ConnectFails, SendFails, ReceiveFails, Fails

\* Flights is inductive, given the owners and the queues.
LEMMA FlightNext ==
  ASSUME Typed, SoleOwner, Waits, Flights, [Next]_vars
  PROVE  Flights'
<1>1. CASE UNCHANGED vars
  <2>1. UNCHANGED <<pc, conn, serial, toServer, toClient, server, serving, Pooled>>
    BY <1>1 DEF vars, callerVars, serverVars, channelVars, Pooled
  <2> QED
    BY <2>1
    DEF Flights, Flight, FlightOf, PooledQuiet, Quiet, Between, Unread, AtWork,
                Back, Lost, Own
<1> QED
  BY <1>1, StepKinds, FlightCallerStep, FlightServerStep

-----------------------------------------------------------------------------
(* What was executed. *)

\* The steps of the enclave that read and write nothing: a connection waits on,
\* gets a reading handler only before stop(), or is closed.
LEMMA StageSteps ==
  ASSUME Typed, Waits, ServerStep,
         \A k \in Conns : ~ReadRequest(k) /\ ~WriteResponse(k) /\ ~WriteLost(k),
         ~Exit, ~Crash
  PROVE  /\ UNCHANGED <<serving, toServer, toClient, handled, late>>
         /\ \A k \in Conns :
                \/ server'[k] = server[k]
                \/ /\ server[k] \notin {"dispatching", "closed"}
                   /\ \/ server'[k] = "closed"
                      \/ /\ server'[k] = "reading" /\ stop = "no"
                         /\ UNCHANGED stop
                      \/ server[k] \in WaitingStages /\ server'[k] \in WaitingStages
<1> USE DEF Stage, channelVars, stopVars
<1>w. /\ server \in [Conns -> ServerStates]
      /\ {"accepted", "submitting", "backlog", "queued"} \subseteq WaitingStages
      /\ "dispatching" \notin WaitingStages /\ "closed" \notin WaitingStages
  BY DEF WaitingStages, Typed, TypeOK
<1>1. CASE Accept
  <2>1. Head(backlog) \in Conns /\ server[Head(backlog)] = "backlog"
    BY <1>1, ListsBeheaded DEF Accept, Waits, Typed, TypeOK
  <2> QED
    BY <1>1, <1>w, <2>1 DEF Accept
<1>2. CASE TakeConnection
  <2>1. Head(queue) \in Conns /\ server[Head(queue)] = "queued"
    BY <1>2, ListsBeheaded DEF TakeConnection, Waits, Typed, TypeOK
  <2> QED
    BY <1>2, <1>w, <2>1 DEF TakeConnection, NextRead
<1>3. ASSUME NEW k \in Conns, EnterSubmit(k) \/ LeaveSubmit(k) \/ CloseIdle(k)
      PROVE  /\ UNCHANGED <<serving, toServer, toClient, handled, late>>
             /\ \A j \in Conns :
                \/ server'[j] = server[j]
                \/ /\ server[j] \notin {"dispatching", "closed"}
                   /\ \/ server'[j] = "closed"
                      \/ server[j] \in WaitingStages /\ server'[j] \in WaitingStages
  BY <1>3, <1>w DEF EnterSubmit, LeaveSubmit, CloseIdle
<1>4. CASE Stop
  <2>1. PICK put \in {<<>>} \cup {<<k>> : k \in At({"submitting"})} :
        server' = [k \in Conns |-> IF server[k] = "backlog" THEN "closed"
                                   ELSE IF put = <<k>> THEN "queued"
                                   ELSE server[k]]
    BY <1>4 DEF Stop
  <2>2. \A k \in Conns : put = <<k>> => server[k] = "submitting"
    <3>1. \A j \in At({"submitting"}) : server[j] = "submitting"
      BY DEF At
    <3> QED
      BY <3>1
  <2> QED
    BY <1>4, <1>w, <2>1, <2>2 DEF Stop
<1>5. CASE Start
  BY <1>5 DEF Start
<1> QED
  BY <1>1, <1>2, <1>3, <1>4, <1>5 DEF ServerStep, HandlerStep, MainStep

\* Which steps of a caller touch the channels and the server.
LEMMA CallerKeeps ==
  ASSUME NEW c \in Callers, Call(c) \/ CallerStep(c)
  PROVE  /\ UNCHANGED <<serving, handled, late, stop>>
         /\ Connect(c) \/ UNCHANGED server
         /\ Connect(c) \/ Send(c) \/ UNCHANGED toServer
         /\ Connect(c) \/ Receive(c) \/ UNCHANGED toClient
  BY DEF Call, CallerStep, AcquirePooled, PoolEmpty, Connect, ConnectFails, Send,
         SendFails, Receive, ReceiveFails, Release, Retry, Return, AttemptFails,
         serverVars, stopVars, channelVars

\* What comes back on a connection was executed.
Responded(k) ==
    \A i \in DOMAIN toClient[k] :
        toClient[k][i] # Garbled => handled[toClient[k][i]] >= 1

\* Only what was executed is dispatched or answered, and no execution is undone.
LEMMA ServedNext ==
  ASSUME Typed, Waits, Served, [Next]_vars
  PROVE  /\ Served'
         /\ \A r \in Requests : handled'[r] >= handled[r]
<1>t. /\ server \in [Conns -> ServerStates]
      /\ serving \in [Conns -> Requests \cup {NoRequest}]
      /\ toServer \in [Conns -> Seq(Requests)]
      /\ toClient \in [Conns -> Seq(Requests \cup {Garbled})]
      /\ handled \in [Requests -> Nat]
  BY DEF Typed, TypeOK
<1>0. CASE UNCHANGED <<server, serving, toClient, handled>>
  BY <1>0, <1>t DEF Served
<1>1. CASE \E c \in Callers : Call(c) \/ CallerStep(c)
  <2>1. PICK c \in Callers : Call(c) \/ CallerStep(c)
    BY <1>1
  <2>2. CASE Connect(c)
    <3>1. PICK k \in Conns : /\ server[k] = "closed"
                             /\ server' = [server EXCEPT ![k] = "backlog"]
                             /\ toClient' = [toClient EXCEPT ![k] = <<>>]
      BY <2>2 DEF Connect, Unused
    <3>2. UNCHANGED <<serving, handled>>
      BY <2>2 DEF Connect
    <3>3. ASSUME NEW j \in Conns
          PROVE  /\ server'[j] # "dispatching" => serving[j] = NoRequest
                 /\ server'[j] = "dispatching" => server[j] = "dispatching"
                 /\ toClient'[j] = toClient[j] \/ toClient'[j] = <<>>
      BY <1>t, <3>1 DEF Served
    <3>4. ASSUME NEW j \in Conns PROVE Responded(j)'
      BY <3>2, <3>3 DEF Served, Responded
    <3>5. \A j \in Conns : server'[j] = "dispatching" =>
            serving[j] \in Requests /\ handled[serving[j]] >= 1
      BY <3>3 DEF Served
    <3> QED
      BY <1>t, <3>2, <3>3, <3>4, <3>5 DEF Served, Responded
  <2>3. CASE Receive(c)
    <3>1. /\ UNCHANGED <<server, serving, handled>>
          /\ toClient' = [toClient EXCEPT ![conn[c]] = Tail(@)]
          /\ toClient[conn[c]] # <<>>
      BY <2>3 DEF Receive, serverVars
    <3>2. ASSUME NEW j \in Conns, NEW i \in DOMAIN toClient'[j]
          PROVE  \E h \in DOMAIN toClient[j] : toClient'[j][i] = toClient[j][h]
      <4>1. CASE conn[c] = j
        <5>1. toClient'[j] = Tail(toClient[j]) /\ toClient[j] # <<>>
          BY <1>t, <3>1, <4>1
        <5>2. /\ DOMAIN toClient[j] = 1..Len(toClient[j])
              /\ Len(toClient[j]) \in Nat
              /\ DOMAIN toClient'[j] = 1..(Len(toClient[j]) - 1)
              /\ \A h \in 1..(Len(toClient[j]) - 1) :
                    toClient'[j][h] = toClient[j][h + 1]
          <6>1. toClient[j] \in Seq(Requests \cup {Garbled})
            BY <1>t
          <6> QED
            BY <5>1, <6>1, Beheaded
        <5>3. i + 1 \in DOMAIN toClient[j] /\ toClient'[j][i] = toClient[j][i + 1]
          BY <5>2
        <5> QED
          BY <5>3
      <4>2. CASE conn[c] # j
        BY <1>t, <3>1, <4>2
      <4> QED
        BY <4>1, <4>2
    <3> QED
      BY <1>t, <3>1, <3>2 DEF Served
  <2>4. CASE ~Connect(c) /\ ~Receive(c)
    BY <1>0, <2>1, <2>4, CallerKeeps
  <2> QED
    BY <2>2, <2>3, <2>4
<1>2. ASSUME NEW k \in Conns, ReadRequest(k)
      PROVE  /\ Served'
             /\ \A r \in Requests : handled'[r] >= handled[r]
  <2>1. Head(toServer[k]) \in Requests
    <3>1. toServer[k] \in Seq(Requests) /\ toServer[k] # <<>>
      BY <1>2, <1>t DEF ReadRequest
    <3> QED
      BY <3>1
  <2>2. /\ server' = [server EXCEPT ![k] = "dispatching"]
        /\ serving' = [serving EXCEPT ![k] = Head(toServer[k])]
        /\ handled' = [handled EXCEPT ![Head(toServer[k])] = @ + 1]
        /\ UNCHANGED toClient
    BY <1>2 DEF ReadRequest, Stage
  <2>3. /\ \A r \in Requests : handled'[r] \in Nat /\ handled'[r] >= handled[r]
        /\ handled'[Head(toServer[k])] >= 1
    BY <1>t, <2>1, <2>2
  <2>4. ASSUME NEW j \in Conns PROVE Responded(j)'
    <3>1. \A i \in DOMAIN toClient[j] :
            toClient[j][i] # Garbled => toClient[j][i] \in Requests
      BY <1>t
    <3>2. \A i \in DOMAIN toClient[j] :
            toClient[j][i] # Garbled => handled[toClient[j][i]] >= 1
      BY DEF Served
    <3>3. \A r \in Requests : handled[r] >= 1 => handled'[r] >= 1
      BY <1>t, <2>3
    <3> QED
      BY <2>2, <3>1, <3>2, <3>3 DEF Responded
  <2>5. ASSUME NEW j \in Conns
        PROVE  /\ server'[j] # "dispatching" => serving'[j] = NoRequest
               /\ server'[j] = "dispatching" =>
                    serving'[j] \in Requests /\ handled'[serving'[j]] >= 1
    <3>1. CASE j = k
      BY <1>t, <2>1, <2>2, <2>3, <3>1
    <3>2. CASE j # k
      <4>1. server'[j] = server[j] /\ serving'[j] = serving[j]
        BY <1>t, <2>2, <3>2
      <4>2. \A r \in Requests : handled[r] >= 1 => handled'[r] >= 1
        BY <1>t, <2>3
      <4> QED
        BY <4>1, <4>2 DEF Served
    <3> QED
      BY <3>1, <3>2
  <2> QED
    BY <2>3, <2>4, <2>5 DEF Served, Responded
<1>3. ASSUME NEW k \in Conns, WriteResponse(k) PROVE Served' /\ UNCHANGED handled
  <2>1. PICK response \in Responses(k) :
            toClient' = [toClient EXCEPT ![k] = Append(@, response)]
    BY <1>3 DEF WriteResponse
  <2>2. /\ server[k] = "dispatching" /\ NextRead # "dispatching"
        /\ server' = [server EXCEPT ![k] = NextRead]
        /\ serving' = [serving EXCEPT ![k] = NoRequest]
        /\ UNCHANGED handled
    BY <1>3 DEF WriteResponse, Stage, NextRead
  <2>3. /\ response \in Requests \cup {Garbled}
        /\ response # Garbled => handled[response] >= 1
    BY <2>2 DEF Responses, Served, Garbled
  <2>4. ASSUME NEW j \in Conns, NEW i \in DOMAIN toClient'[j]
        PROVE  \/ toClient'[j][i] = response
               \/ i \in DOMAIN toClient[j] /\ toClient'[j][i] = toClient[j][i]
    <3>1. CASE j = k
      <4>1. toClient[k] \in Seq(Requests \cup {Garbled})
            /\ toClient'[k] = Append(toClient[k], response)
        BY <1>t, <2>1
      <4>2. /\ DOMAIN toClient[k] = 1..Len(toClient[k]) /\ Len(toClient[k]) \in Nat
            /\ DOMAIN toClient'[k] = 1..(Len(toClient[k]) + 1)
            /\ \A h \in 1..Len(toClient[k]) : toClient'[k][h] = toClient[k][h]
            /\ toClient'[k][Len(toClient[k]) + 1] = response
        BY <2>3, <4>1, Appended
      <4> QED
        BY <3>1, <4>2
    <3>2. CASE j # k
      BY <1>t, <2>1, <3>2
    <3> QED
      BY <3>1, <3>2
  <2>5. ASSUME NEW j \in Conns PROVE Responded(j)'
    BY <2>2, <2>3, <2>4 DEF Responded, Served
  <2>6. ASSUME NEW j \in Conns
        PROVE  /\ server'[j] # "dispatching" => serving'[j] = NoRequest
               /\ server'[j] = "dispatching" =>
                    serving'[j] = serving[j] /\ server[j] = "dispatching"
    BY <1>t, <2>2 DEF Served
  <2> QED
    BY <2>2, <2>5, <2>6 DEF Served, Responded
<1>4. ASSUME NEW k \in Conns, WriteLost(k) PROVE Served' /\ UNCHANGED handled
  <2>1. PICK s \in {NextRead, "closed"} : server' = [server EXCEPT ![k] = s]
    BY <1>4 DEF WriteLost, Stage
  <2>2. s # "dispatching"
    BY DEF NextRead
  <2> QED
    BY <1>4, <1>t, <2>1, <2>2 DEF WriteLost, channelVars, Served
<1>5. ASSUME Down, toClient' \in {toClient, [k \in Conns |-> <<>>]}
      PROVE  Served' /\ UNCHANGED handled
  <2>1. \A k \in Conns : toClient'[k] = toClient[k] \/ toClient'[k] = <<>>
    BY <1>5
  <2> QED
    BY <1>5, <2>1 DEF Down, Served
<1>6. CASE ServerStep
  <2>1. CASE /\ \A k \in Conns : ~ReadRequest(k) /\ ~WriteResponse(k) /\ ~WriteLost(k)
             /\ ~Exit /\ ~Crash
    <3>1. /\ UNCHANGED <<serving, toClient, handled>>
          /\ \A k \in Conns : server'[k] = "dispatching" <=> server[k] = "dispatching"
      BY <1>6, <2>1, StageSteps DEF WaitingStages
    <3> QED
      BY <1>t, <3>1 DEF Served
  <2> QED
    BY <1>t, <1>2, <1>3, <1>4, <1>5, <2>1 DEF Exit, Crash
<1> QED
  BY <1>0, <1>1, <1>6, <1>t, StepKinds DEF vars, serverVars, channelVars

\* A caller that gets a response gets the one to its own request, and that was
\* executed.
LEMMA AnsweredNext ==
  ASSUME Typed, SoleOwner, Flights, Served, Answered, [Next]_vars,
         \A r \in Requests : handled'[r] >= handled[r],
         handled' \in [Requests -> Nat]
  PROVE  Answered'
<1>t. /\ handled \in [Requests -> Nat]
      /\ outcome \in [Callers -> Outcomes \cup {NoOutcome}]
  BY DEF Typed, TypeOK
<1>1. ASSUME NEW d \in Callers, outcome'[d] = outcome[d],
             serial'[d] = serial[d] \/ pc[d] = "idle"
      PROVE  outcome'[d].kind = "ok" =>
                outcome'[d].response = Own(d)' /\ handled'[Own(d)'] >= 1
  <2> SUFFICES ASSUME outcome'[d].kind = "ok"
               PROVE  outcome'[d].response = Own(d)' /\ handled'[Own(d)'] >= 1
    OBVIOUS
  <2>1. outcome[d] # NoOutcome
    BY <1>1 DEF NoOutcome
  <2>2. pc[d] \in {"release", "done"} /\ serial[d] \in 1..MaxRequests
    BY <2>1, Assumed DEF Assumptions, Typed, TypeOK, Controlled, Control
  <2>3. Own(d)' = Own(d) /\ Own(d) \in Requests
    BY <1>1, <2>2 DEF Own, Requests
  <2>4. outcome[d].response = Own(d) /\ handled[Own(d)] >= 1
    BY <1>1 DEF Answered
  <2>5. handled'[Own(d)] >= 1
    BY <1>t, <2>3, <2>4
  <2> QED
    BY <1>1, <2>3, <2>4, <2>5
<1>2. CASE UNCHANGED <<outcome, serial>>
  BY <1>1, <1>2 DEF Answered, Own
<1>3. ASSUME NEW c \in Callers, Call(c) \/ CallerStep(c),
             \/ outcome'[c] = outcome[c] /\ (serial'[c] = serial[c] \/ pc[c] = "idle")
             \/ outcome'[c].kind # "ok"
             \/ /\ outcome'[c].response = Own(c)' /\ handled'[Own(c)'] >= 1,
             \A d \in Callers \ {c} : outcome'[d] = outcome[d] /\ serial'[d] = serial[d]
      PROVE  Answered'
  BY <1>1, <1>3 DEF Answered, Own
<1>4. ASSUME NEW c \in Callers, Call(c) \/ CallerStep(c) PROVE Answered'
  <2>1. CASE Call(c)
    BY <1>3, <1>4, <2>1 DEF Call, Typed, TypeOK
  <2>2. CASE Fails(c)
    <3>1. PICK e \in {"timeout", "communication"} : AttemptFails(c, e)
      BY <2>2 DEF Fails
    <3>2. /\ outcome' \in {outcome, [outcome EXCEPT ![c] = [kind |-> e]]}
          /\ UNCHANGED serial
      BY <3>1 DEF AttemptFails, Finish
    <3> QED
      BY <1>3, <1>4, <1>t, <3>2
  <2>3. CASE Receive(c)
    <3>1. conn[c] \in Conns /\ Back(c, conn[c])
      <4>1. pc[c] = "receive" /\ FlightOf(c) /\ toClient[conn[c]] # <<>>
        BY <2>3 DEF Receive, Flights, Flight
      <4> QED
        BY <4>1, Held DEF Holding, FlightOf, Unread, AtWork, Lost, Quiet
    <3>2. toClient[conn[c]] \in {<<Own(c)>>, <<Garbled>>}
      BY <3>1 DEF Back
    <3>3. UNCHANGED <<serial, handled>>
      BY <2>3 DEF Receive, serverVars
    <3>4. CASE Head(toClient[conn[c]]) # Garbled
      <4>1. toClient[conn[c]] = <<Own(c)>>
        BY <3>2, <3>4
      <4>2. Own(c) # Garbled /\ 1 \in DOMAIN toClient[conn[c]]
            /\ toClient[conn[c]][1] = Own(c)
        BY <4>1 DEF Own, Garbled
      <4>3. handled[Own(c)] >= 1
        BY <3>1, <4>2 DEF Served
      <4>4. outcome' = [outcome EXCEPT ![c] = [kind |-> "ok", response |-> Own(c)]]
        BY <2>3, <3>4, <4>1 DEF Receive
      <4> QED
        BY <1>3, <1>4, <1>t, <3>3, <4>3, <4>4 DEF Own
    <3>5. CASE ~(Head(toClient[conn[c]]) # Garbled)
      <4>1. outcome' = [outcome EXCEPT ![c] = [kind |-> "malformed"]]
        BY <2>3, <3>5 DEF Receive, Finish
      <4> QED
        BY <1>3, <1>4, <1>t, <3>3, <4>1
    <3> QED
      BY <3>4, <3>5
  <2>4. CASE Return(c)
    <3>1. outcome' = [outcome EXCEPT ![c] = NoOutcome] /\ UNCHANGED serial
      BY <2>4 DEF Return
    <3> QED
      BY <1>3, <1>4, <1>t, <3>1 DEF NoOutcome
  <2>5. CASE AcquirePooled(c) \/ PoolEmpty(c) \/ Connect(c) \/ Send(c) \/ Release(c)
             \/ Retry(c)
    BY <1>2, <2>5 DEF AcquirePooled, PoolEmpty, Connect, Send, Release, Retry
  <2> QED
    BY <1>4, <2>1, <2>2, <2>3, <2>4, <2>5
    DEF CallerStep, ConnectFails, SendFails, ReceiveFails, Fails
<1> QED
  BY <1>2, <1>4, StepKinds, ServerKeeps DEF vars, callerVars

-----------------------------------------------------------------------------
(* How often a request is executed. *)

\* A sequence of at most one element that is not empty has exactly one.
LEMMA SingleRequest ==
  ASSUME NEW S, NEW s \in Seq(S), s # <<>>, Len(s) <= 1
  PROVE  \E x \in S : s = <<x>>
<1>1. /\ Len(s) \in Nat \ {0}
      /\ Head(s) = s[1] /\ Head(s) \in S /\ DOMAIN s = 1..Len(s)
  BY Beheaded
<1>2. Len(s) = 1
  BY <1>1
<1> QED
  BY <1>1, <1>2

\* A request is sent at most MaxRetries times (enclave_client.py:155).
LEMMA SentType ==
  ASSUME Typed, NEW c \in Callers, NEW n \in 1..MaxRequests
  PROVE  Sent(<<c, n>>) \in 0..MaxRetries
<1>1. /\ pc[c] \in Labels /\ serial[c] \in 0..MaxRequests
      /\ attempt[c] \in 0..MaxRetries /\ Control(c) /\ MaxRetries \in Nat \ {0}
      /\ MaxRequests \in Nat
  BY Assumed DEF Assumptions, Typed, TypeOK, Controlled
<1>2. <<c, n>>[1] = c /\ <<c, n>>[2] = n
  OBVIOUS
<1>3. pc[c] \in {"acquire", "connect", "send"} => attempt[c] - 1 \in 0..MaxRetries
  BY <1>1 DEF Control
<1>4. 0 \in 0..MaxRetries /\ MaxRetries \in 0..MaxRetries
  BY <1>1
<1> QED
  BY <1>1, <1>2, <1>3, <1>4 DEF Sent

\* No step of a caller takes an attempt back, and sending adds one.
LEMMA SentGrows ==
  ASSUME Typed, NEW c \in Callers, Call(c) \/ CallerStep(c),
         NEW d \in Callers, NEW n \in 1..MaxRequests
  PROVE  /\ Sent(<<d, n>>)' >= Sent(<<d, n>>)
         /\ Send(c) /\ <<d, n>> = Own(c) => Sent(<<d, n>>)' = Sent(<<d, n>>) + 1
<1>t. /\ pc \in [Callers -> Labels] /\ serial \in [Callers -> 0..MaxRequests]
      /\ attempt \in [Callers -> 0..MaxRetries] /\ Control(c)
      /\ MaxRetries \in Nat \ {0}
      /\ MaxRequests \in Nat
  BY Assumed DEF Assumptions, Typed, TypeOK, Controlled
<1>s. Sent(<<d, n>>) \in 0..MaxRetries
  BY SentType
<1>1. ASSUME d # c, pc'[d] = pc[d], serial'[d] = serial[d], attempt'[d] = attempt[d]
      PROVE  Sent(<<d, n>>)' = Sent(<<d, n>>)
  BY <1>1 DEF Sent
<1>2. /\ \A e \in Callers \ {c} :
            pc'[e] = pc[e] /\ serial'[e] = serial[e] /\ attempt'[e] = attempt[e]
  BY <1>t
  DEF Call, CallerStep, AcquirePooled, PoolEmpty, Connect, ConnectFails, Send,
         SendFails, Receive, ReceiveFails, Release, Retry, Return, AttemptFails,
         Goto, Finish
<1>3. CASE d # c
  BY <1>1, <1>2, <1>3, <1>s DEF Own
<1>4. CASE d = c /\ Call(c)
  BY <1>4, <1>t DEF Call, Goto, Sent, Send
<1>5. CASE d = c /\ Fails(c)
  <2>1. /\ pc[c] \in {"connect", "send", "receive"}
        /\ pc'[c] = IF attempt[c] >= MaxRetries THEN "done" ELSE "backoff"
        /\ UNCHANGED <<attempt, serial>>
    BY <1>5, <1>t, FailsDrops DEF Fails
  <2> QED
    BY <1>5, <1>t, <1>s, <2>1 DEF Sent, Send, Goto
<1>6. CASE d = c /\ (AcquirePooled(c) \/ PoolEmpty(c) \/ Connect(c))
  BY <1>6, <1>t DEF AcquirePooled, PoolEmpty, Connect, Goto, Sent, Send
<1>7. CASE d = c /\ Send(c)
  BY <1>7, <1>t DEF Goto, Sent, Send, Own
<1>8. CASE d = c /\ (Receive(c) \/ Release(c) \/ Return(c))
  <2>1. /\ pc[c] \in {"receive", "release", "done"}
        /\ pc'[c] \in {"release", "done", "idle"}
        /\ UNCHANGED serial
    BY <1>8, <1>t DEF Receive, Release, Return, Goto, Finish
  <2> QED
    BY <1>8, <1>t, <2>1 DEF Sent, Send
<1>9. CASE d = c /\ Retry(c)
  BY <1>9, <1>t DEF Goto, Sent, Send, Retry, Control
<1> QED
  BY <1>3, <1>4, <1>5, <1>6, <1>7, <1>8, <1>9
  DEF CallerStep, ConnectFails, SendFails, ReceiveFails, Fails

\* The attempts counted depend on the host's callers only.
LEMMA SentKept ==
  ASSUME UNCHANGED callerVars, NEW r
  PROVE  Sent(r)' = Sent(r)
  BY DEF Sent, callerVars

\* The count holds on when copies are lost, or attempts added.
LEMMA CountKept ==
  ASSUME Counted, handled \in [Requests -> Nat], NEW r \in Requests,
         Copies(r)' \subseteq Copies(r), handled'[r] = handled[r],
         Sent(r) \in Nat, Sent(r)' \in Nat, Sent(r)' >= Sent(r)
  PROVE  /\ IsFiniteSet(Copies(r))'
         /\ handled'[r] + Cardinality(Copies(r))' <= Sent(r)'
<1>1. IsFiniteSet(Copies(r)) /\ handled[r] + Cardinality(Copies(r)) <= Sent(r)
  BY DEF Counted
<1>2. /\ IsFiniteSet(Copies(r)')
      /\ Cardinality(Copies(r)') <= Cardinality(Copies(r))
      /\ Cardinality(Copies(r)) \in Nat /\ Cardinality(Copies(r)') \in Nat
  BY <1>1, FS_Subset, FS_CardinalityType
<1> QED
  BY <1>1, <1>2

\* Every execution, and every copy still to be read, has an attempt of its own:
\* Send adds a copy and an attempt, ReadRequest turns a copy into an execution.
LEMMA CountedNext ==
  ASSUME Typed, Typed', SoleOwner, Waits, Flights, Counted, [Next]_vars
  PROVE  Counted'
<1>t. /\ toServer \in [Conns -> Seq(Requests)] /\ handled \in [Requests -> Nat]
      /\ \A k \in Conns : Len(toServer[k]) <= 1
  BY DEF Typed, TypeOK, Counted
<1>s. \A r \in Requests : Sent(r) \in Nat /\ Sent(r)' \in Nat
  <2>1. ASSUME NEW c \in Callers, NEW n \in 1..MaxRequests
        PROVE  Sent(<<c, n>>) \in Nat /\ Sent(<<c, n>>)' \in Nat
    <3>1. Sent(<<c, n>>) \in 0..MaxRetries
      BY SentType
    <3>2. (Typed => Sent(<<c, n>>) \in 0..MaxRetries)'
      BY SentType, PTL
    <3> QED
      BY <3>1, <3>2, Assumed DEF Assumptions
  <2> QED
    BY <2>1 DEF Requests
<1>c. ASSUME \A r \in Requests : Sent(r)' >= Sent(r), UNCHANGED handled,
             \A k \in Conns : toServer'[k] = toServer[k] \/ toServer'[k] = <<>>
      PROVE  Counted'
  <2>1. \A r \in Requests : Copies(r)' \subseteq Copies(r)
    BY <1>c DEF Copies
  <2>2. \A k \in Conns : Len(toServer'[k]) <= 1
    BY <1>t, <1>c
  <2> QED
    BY <1>c, <1>s, <1>t, <2>1, <2>2, CountKept DEF Counted
<1>g. ASSUME NEW c \in Callers, Call(c) \/ CallerStep(c)
      PROVE  \A r \in Requests : Sent(r)' >= Sent(r)
  BY <1>g, SentGrows DEF Requests
<1>1. ASSUME NEW c \in Callers, Call(c) \/ CallerStep(c), ~Send(c) PROVE Counted'
  <2>1. CASE Connect(c)
    BY <1>1, <1>c, <1>g, <1>t, <2>1 DEF Connect
  <2>2. CASE ~Connect(c)
    BY <1>1, <1>c, <1>g, <1>t, <2>2, CallerKeeps
  <2> QED
    BY <2>1, <2>2
<1>2. ASSUME NEW c \in Callers, Send(c) PROVE Counted'
  <2>1. PICK k \in Conns : conn[c] = k /\ toServer[k] = <<>>
    BY <1>2, Held DEF Send, Holding, Flights, Flight, FlightOf, Quiet
  <2>2. /\ toServer' = [toServer EXCEPT ![k] = IF server[k] = "closed" THEN @
                                               ELSE Append(@, Own(c))]
        /\ UNCHANGED handled
    BY <1>2, <2>1 DEF Send, serverVars, Own
  <2>3. CASE server[k] = "closed"
    BY <1>2, <1>c, <1>g, <1>t, <2>2, <2>3 DEF CallerStep
  <2>4. CASE server[k] # "closed"
    <3>1. toServer' = [toServer EXCEPT ![k] = <<Own(c)>>]
      BY <1>t, <2>1, <2>2, <2>4
    <3>2. \A j \in Conns : Len(toServer'[j]) <= 1
      BY <1>t, <3>1
    <3>3. ASSUME NEW r \in Requests, r # Own(c)
          PROVE  /\ IsFiniteSet(Copies(r))'
                 /\ handled'[r] + Cardinality(Copies(r))' <= Sent(r)'
      <4>1. Copies(r)' \subseteq Copies(r)
        BY <1>t, <3>1, <3>3 DEF Copies
      <4>2. Sent(r)' >= Sent(r)
        BY <1>2, <1>g DEF CallerStep
      <4> QED
        BY <1>s, <1>t, <2>2, <4>1, <4>2, CountKept
    <3>4. Own(c) \in Requests
      BY <1>2, Assumed
      DEF Assumptions, Send, Own, Requests, Typed, TypeOK, Controlled, Control
    <3>5. /\ Copies(Own(c))' = Copies(Own(c)) \cup {k}
          /\ k \notin Copies(Own(c))
      <4>1. Own(c)' = Own(c) /\ <<Own(c)>> # <<>>
        BY <1>2 DEF Send, Own
      <4> QED
        BY <1>t, <2>1, <3>1, <4>1 DEF Copies
    <3>6. Sent(Own(c))' = Sent(Own(c)) + 1
      <4>1. PICK n \in 1..MaxRequests : n = serial[c]
        BY <3>4 DEF Own, Requests
      <4>2. Own(c) = <<c, n>> /\ Own(c)' = <<c, n>>
        BY <1>2, <4>1 DEF Own, Send
      <4>3. Sent(<<c, n>>)' = Sent(<<c, n>>) + 1
        BY <1>2, <4>2, SentGrows DEF CallerStep
      <4> QED
        BY <4>2, <4>3
    <3>7. ASSUME NEW r \in Requests, r = Own(c)
          PROVE  /\ IsFiniteSet(Copies(r))'
                 /\ handled'[r] + Cardinality(Copies(r))' <= Sent(r)'
      <4>1. r = Own(c)'
        BY <1>2, <3>7 DEF Own, Send
      <4>2. Copies(r)' = Copies(r) \cup {k} /\ k \notin Copies(r)
        BY <3>5, <3>7, <4>1
      <4>3. Sent(r)' = Sent(r) + 1
        BY <3>6, <3>7, <4>1
      <4>4. IsFiniteSet(Copies(r)) /\ handled[r] + Cardinality(Copies(r)) <= Sent(r)
        BY DEF Counted
      <4>5. /\ IsFiniteSet(Copies(r)')
            /\ Cardinality(Copies(r)') = Cardinality(Copies(r)) + 1
            /\ Cardinality(Copies(r)) \in Nat
        BY <4>2, <4>4, FS_AddElement, FS_CardinalityType
      <4> QED
        BY <1>s, <1>t, <2>2, <4>3, <4>4, <4>5
    <3> QED
      BY <3>2, <3>3, <3>7 DEF Counted
  <2> QED
    BY <2>3, <2>4
<1>3. ASSUME NEW k \in Conns, ReadRequest(k) PROVE Counted'
  <2>1. PICK q \in Requests : toServer[k] = <<q>>
    <3>1. /\ toServer[k] \in Seq(Requests)
          /\ toServer[k] # <<>>
          /\ Len(toServer[k]) <= 1
      BY <1>3, <1>t DEF ReadRequest
    <3> QED
      BY <3>1, SingleRequest
  <2>2. /\ toServer' = [toServer EXCEPT ![k] = <<>>]
        /\ handled' = [handled EXCEPT ![q] = @ + 1]
        /\ UNCHANGED callerVars
    BY <1>3, <1>t, <2>1 DEF ReadRequest
  <2>3. \A j \in Conns : Len(toServer'[j]) <= 1
    BY <1>t, <2>2
  <2>4. ASSUME NEW r \in Requests, r # q
        PROVE  /\ IsFiniteSet(Copies(r))'
               /\ handled'[r] + Cardinality(Copies(r))' <= Sent(r)'
    <3>1. Copies(r)' \subseteq Copies(r) /\ handled'[r] = handled[r]
      BY <1>t, <2>2, <2>4 DEF Copies
    <3>2. Sent(r)' >= Sent(r)
      BY <1>s, <2>2, SentKept
    <3> QED
      BY <1>s, <1>t, <3>1, <3>2, CountKept
  <2>5. ASSUME NEW r \in Requests, r = q
        PROVE  /\ IsFiniteSet(Copies(r))'
               /\ handled'[r] + Cardinality(Copies(r))' <= Sent(r)'
    <3>1. /\ Copies(r)' = Copies(r) \ {k}
          /\ k \in Copies(r)
          /\ handled'[r] = handled[r] + 1
      <4>1. <<q>> # <<>>
        OBVIOUS
      <4> QED
        BY <1>t, <2>1, <2>2, <2>5, <4>1 DEF Copies
    <3>2. IsFiniteSet(Copies(r)) /\ handled[r] + Cardinality(Copies(r)) <= Sent(r)
      BY DEF Counted
    <3>3. /\ IsFiniteSet(Copies(r)')
          /\ Cardinality(Copies(r)') = Cardinality(Copies(r)) - 1
          /\ Cardinality(Copies(r)) \in Nat
      BY <3>1, <3>2, FS_RemoveElement, FS_CardinalityType
    <3>4. Sent(r)' = Sent(r)
      BY <2>2, SentKept
    <3> QED
      BY <1>s, <1>t, <3>1, <3>2, <3>3, <3>4
  <2> QED
    BY <2>3, <2>4, <2>5 DEF Counted
<1>4. CASE ServerStep
  <2>0. \A r \in Requests : Sent(r)' >= Sent(r)
    BY <1>4, <1>s, ServerKeeps, SentKept
  <2>1. ASSUME NEW k \in Conns, WriteResponse(k) \/ WriteLost(k) PROVE Counted'
    BY <1>c, <2>0, <2>1 DEF WriteResponse, WriteLost, channelVars
  <2>2. ASSUME Down PROVE Counted'
    BY <1>c, <2>0, <2>2 DEF Down
  <2>3. CASE /\ \A k \in Conns : ~ReadRequest(k) /\ ~WriteResponse(k) /\ ~WriteLost(k)
             /\ ~Exit /\ ~Crash
    BY <1>4, <1>c, <2>0, <2>3, StageSteps
  <2> QED
    BY <1>3, <2>1, <2>2, <2>3 DEF Exit, Crash
<1>5. CASE UNCHANGED vars
  BY <1>5, <1>c, <1>s, <1>t, SentKept DEF vars, serverVars, channelVars
<1> QED
  BY <1>1, <1>2, <1>4, <1>5, StepKinds

-----------------------------------------------------------------------------
(* Reads after stop, and the number of connections. *)

\* A handler that has read a request after stop() closes its connection when it
\* has answered: nothing that waits or reads has read one (server.py:184).
LEMMA LatelyNext ==
  ASSUME Typed, Waits, Lately, [Next]_vars
  PROVE  Lately'
<1>t. /\ server \in [Conns -> ServerStates] /\ late \in [Conns -> Nat]
  BY DEF Typed, TypeOK
<1>0. CASE UNCHANGED <<server, late, stop>>
  BY <1>0 DEF Lately
<1>1. ASSUME NEW c \in Callers, Call(c) \/ CallerStep(c) PROVE Lately'
  <2>1. CASE Connect(c)
    <3>1. PICK k \in Conns : server' = [server EXCEPT ![k] = "backlog"]
      BY <2>1 DEF Connect
    <3>2. stop = "no" /\ UNCHANGED <<late, stop>>
      BY <2>1 DEF Connect, Listening, stopVars
    <3> QED
      BY <1>t, <3>1, <3>2 DEF Lately
  <2> QED
    BY <1>0, <1>1, <2>1, CallerKeeps
<1>2. ASSUME NEW k \in Conns, ReadRequest(k) PROVE Lately'
  <2>1. /\ server[k] = "reading" /\ server' = [server EXCEPT ![k] = "dispatching"]
        /\ late' = [late EXCEPT ![k] = IF stop = "no" THEN @ ELSE @ + 1]
        /\ UNCHANGED stop
    BY <1>2 DEF ReadRequest, Stage
  <2>2. late[k] = 0
    BY <2>1 DEF Lately
  <2> QED
    BY <1>t, <2>1, <2>2 DEF Lately
<1>3. ASSUME NEW k \in Conns, WriteResponse(k) \/ WriteLost(k) PROVE Lately'
  <2>1. PICK s \in {NextRead, "closed"} : server' = [server EXCEPT ![k] = s]
    BY <1>3 DEF WriteResponse, WriteLost, Stage
  <2>2. UNCHANGED <<late, stop>>
    BY <1>3 DEF WriteResponse, WriteLost, stopVars
  <2>3. s = "closed" \/ stop = "no"
    BY DEF NextRead
  <2> QED
    BY <1>t, <2>1, <2>2, <2>3 DEF Lately
<1>4. ASSUME Down PROVE Lately'
  BY <1>4 DEF Down, Lately
<1>5. CASE ServerStep
  <2>1. CASE /\ \A k \in Conns : ~ReadRequest(k) /\ ~WriteResponse(k) /\ ~WriteLost(k)
             /\ ~Exit /\ ~Crash
    <3>1. /\ UNCHANGED late
          /\ \A k \in Conns :
                \/ server'[k] = server[k]
                \/ server[k] \notin {"dispatching", "closed"}
      BY <1>5, <2>1, StageSteps
    <3>2. stop' = "no" => stop = "no"
      BY <1>5, <2>1
      DEF ServerStep, MainStep, HandlerStep, Accept, EnterSubmit, LeaveSubmit,
          TakeConnection, CloseIdle, Stop, Start, stopVars, Listening
    <3> QED
      BY <1>t, <3>1, <3>2 DEF Lately
  <2> QED
    BY <1>2, <1>3, <1>4, <1>5, <2>1 DEF Exit, Crash
<1> QED
  BY <1>0, <1>1, <1>5, StepKinds DEF vars, serverVars, stopVars

-----------------------------------------------------------------------------
\* When the pool is empty, every open connection is held by a thread of its own.
LEMMA OpenedByHolders ==
  ASSUME Typed, SoleOwner, pool = <<>>
  PROVE  \E T \in SUBSET {c \in Callers : pc[c] \in Holding} :
            IsFiniteSet(Opened) /\ Cardinality(Opened) <= Cardinality(T)
<1> DEFINE T == {c \in Callers : pc[c] \in Holding}
           holder == [k \in Opened |-> CHOOSE c \in Callers : conn[c] = k]
<1>1. Pooled = {}
  BY DEF Pooled
<1>2. \A k \in Opened : \E c \in Callers : conn[c] = k
  BY <1>1 DEF Opened, SoleOwner
<1>3. \A k \in Opened : holder[k] \in Callers /\ conn[holder[k]] = k
  BY <1>2
<1>4. \A k \in Opened : holder[k] \in T
  <2>1. \A c \in Callers : conn[c] \in Conns => pc[c] \in Holding
    BY Held, Assumed DEF Assumptions
  <2> QED
    BY <1>3, <2>1 DEF Opened
<1>5. holder \in Injection(Opened, T)
  BY <1>3, <1>4 DEF Injection, IsInjective
<1>6. IsFiniteSet(T)
  BY FS_Subset, Assumed DEF Assumptions
<1>7. IsFiniteSet(Opened) /\ Cardinality(Opened) <= Cardinality(T)
  BY <1>5, <1>6, FS_Injection
<1> QED
  BY <1>7

\* The last layer, with the finiteness that makes the cardinalities numbers.
Bounded == IsFiniteSet(Opened) /\ ConnectionsBounded

\* _acquire_connection opens a socket after it saw the pool empty, and not in the
\* same step (enclave_client.py:274-277); the threads on their way to connect are
\* counted with the connections that are open.
LEMMA BoundedNext ==
  ASSUME Typed, SoleOwner, Bounded, [Next]_vars
  PROVE  Bounded'
<1>t. /\ IsFiniteSet(Callers) /\ MaxPool \in Nat /\ pool \in Seq(Conns)
      /\ pc \in [Callers -> Labels] /\ client \in [Conns -> {"open", "closed"}]
      /\ IsFiniteSet(Opened) /\ Len(pool) <= MaxPool /\ Len(pool) \in Nat
      /\ Cardinality(Opened) + Cardinality(Connecting) <= Cardinality(Callers)
  BY Assumed, EmptySeq
  DEF Assumptions, Typed, TypeOK, Bounded, ConnectionsBounded, Opened, Connecting
<1>f. /\ IsFiniteSet(Connecting) /\ Cardinality(Callers) \in Nat
      /\ Cardinality(Connecting) \in Nat /\ Cardinality(Opened) \in Nat
  BY <1>t, FS_Subset, FS_CardinalityType DEF Connecting
<1>c. ASSUME Len(pool') <= MaxPool, Opened' \subseteq Opened,
             Connecting' \subseteq Connecting
      PROVE  Bounded'
  <2>1. /\ IsFiniteSet(Opened') /\ Cardinality(Opened') <= Cardinality(Opened)
        /\ Cardinality(Connecting') <= Cardinality(Connecting)
        /\ Cardinality(Opened') \in Nat /\ Cardinality(Connecting') \in Nat
    BY <1>c, <1>f, <1>t, FS_Subset, FS_CardinalityType
  <2>2. Cardinality(Opened') + Cardinality(Connecting') <= Cardinality(Callers)
    BY <1>f, <1>t, <2>1
  <2> QED
    BY <1>c, <2>1, <2>2 DEF Bounded, ConnectionsBounded, Opened, Connecting
<1>1. ASSUME NEW c \in Callers, PoolEmpty(c) PROVE Bounded'
  <2>1. /\ pool = <<>> /\ pc[c] = "acquire" /\ pc' = [pc EXCEPT ![c] = "connect"]
        /\ UNCHANGED <<pool, client>>
    BY <1>1 DEF PoolEmpty, Goto, channelVars
  <2>2. PICK T \in SUBSET {d \in Callers : pc[d] \in Holding} :
            Cardinality(Opened) <= Cardinality(T)
    BY <2>1, OpenedByHolders
  <2>3. T \cap Connecting' = {} /\ T \cup Connecting' \subseteq Callers
    BY <1>t, <2>1, <2>2 DEF Connecting, Holding
  <2>4. /\ IsFiniteSet(T) /\ IsFiniteSet(Connecting')
        /\ IsFiniteSet(T \cup Connecting')
        /\ Cardinality(T \cup Connecting') <= Cardinality(Callers)
    BY <1>t, <2>3, FS_Subset
  <2>5. Cardinality(T) + Cardinality(Connecting') <= Cardinality(Callers)
    <3>1. Cardinality(T \cup Connecting')
            = Cardinality(T) + Cardinality(Connecting') - Cardinality(T \cap Connecting')
      BY <2>4, FS_Union
    <3>2. Cardinality(T \cap Connecting') = 0
      BY <2>3, FS_EmptySet
    <3> QED
      BY <1>f, <2>4, <3>1, <3>2, FS_CardinalityType
  <2>6. Opened' = Opened
    BY <2>1 DEF Opened
  <2>7. /\ Cardinality(T) \in Nat /\ Cardinality(Connecting') \in Nat
    BY <2>4, FS_CardinalityType
  <2>8. Cardinality(Opened') + Cardinality(Connecting') <= Cardinality(Callers)
    BY <1>f, <2>2, <2>5, <2>6, <2>7
  <2> QED
    BY <1>t, <2>1, <2>6, <2>8 DEF Bounded, ConnectionsBounded, Opened, Connecting
<1>2. ASSUME NEW c \in Callers, Connect(c) PROVE Bounded'
  <2>1. PICK k \in Conns : /\ client[k] = "closed"
                           /\ client' = [client EXCEPT ![k] = "open"]
    BY <1>2 DEF Connect, Unused
  <2>2. /\ pc[c] = "connect" /\ pc' = [pc EXCEPT ![c] = "send"] /\ UNCHANGED pool
    BY <1>2 DEF Connect, Goto
  <2>3. Opened' = Opened \cup {k} /\ k \notin Opened
    BY <1>t, <2>1 DEF Opened
  <2>4. Connecting' = Connecting \ {c} /\ c \in Connecting
    BY <1>t, <2>2 DEF Connecting
  <2>5. /\ IsFiniteSet(Opened') /\ Cardinality(Opened') = Cardinality(Opened) + 1
        /\ Cardinality(Connecting') = Cardinality(Connecting) - 1
    BY <1>f, <1>t, <2>3, <2>4, FS_AddElement, FS_RemoveElement
  <2>6. Cardinality(Opened') + Cardinality(Connecting') <= Cardinality(Callers)
    BY <1>f, <1>t, <2>5
  <2> QED
    BY <1>t, <2>2, <2>5, <2>6 DEF Bounded, ConnectionsBounded, Opened, Connecting
<1>3. ASSUME NEW c \in Callers, Call(c) \/ CallerStep(c), ~PoolEmpty(c), ~Connect(c)
      PROVE  Bounded'
  <2>1. Connecting' \subseteq Connecting
    <3>1. CASE Fails(c)
      BY <1>t, <3>1, FailsDrops DEF Connecting
    <3> QED
      BY <1>3, <1>t, <3>1
      DEF CallerStep, ConnectFails, SendFails, ReceiveFails, Fails, Call,
          AcquirePooled,
          Send, Receive, Release, Retry, Return, Goto, Finish, Connecting
  <2>2. Opened' \subseteq Opened
    <3>1. CASE Fails(c)
      BY <1>t, <3>1, FailsDrops DEF Opened
    <3> QED
      BY <1>3, <1>t, <3>1
      DEF CallerStep, ConnectFails, SendFails, ReceiveFails, Fails, Call,
          AcquirePooled,
          Send, Receive, Release, Retry, Return, channelVars, Opened
  <2>3. Len(pool') <= MaxPool
    <3>1. CASE AcquirePooled(c)
      <4>1. pool # <<>> /\ pool' = Front(pool)
        BY <3>1 DEF AcquirePooled
      <4>2. Len(pool') = Len(pool) - 1
        BY <1>t, <4>1, FrontLast
      <4> QED
        BY <1>t, <4>2
    <3>2. CASE Release(c)
      <4>1. conn[c] \in Conns
        BY <3>2, Held DEF Release, Holding
      <4>2. Len(Append(pool, conn[c])) = Len(pool) + 1
        BY <1>t, <4>1, Appended
      <4> QED
        BY <1>t, <3>2, <4>2 DEF Release
    <3>3. CASE Fails(c)
      BY <1>t, <3>3, FailsDrops
    <3> QED
      BY <1>3, <1>t, <3>1, <3>2, <3>3
      DEF CallerStep, ConnectFails, SendFails, ReceiveFails, Fails, Call, Send,
          Receive,
          Retry, Return
  <2> QED
    BY <1>c, <2>1, <2>2, <2>3
<1>4. CASE UNCHANGED <<callerVars, client>>
  BY <1>4, <1>c, <1>t DEF callerVars, Opened, Connecting
<1> QED
  BY <1>1, <1>2, <1>3, <1>4, StepKinds, ServerKeeps DEF vars, channelVars

-----------------------------------------------------------------------------
(* The invariant and the theorems. *)

\* The inductive invariant.
IInv == /\ Typed /\ SoleOwner /\ Waits /\ Flights
        /\ Served /\ Answered /\ Counted /\ Lately /\ Bounded

\* The invariant holds initially.
LEMMA InitIInv == Init => IInv
<1> SUFFICES ASSUME Init PROVE IInv
  OBVIOUS
<1>1. Typed
  BY InitType DEF Typed
<1> USE Assumed DEF Assumptions, Init
<1>2. SoleOwner /\ PooledQuiet
  BY DEF SoleOwner, PooledQuiet, Pooled
<1>3. Waits /\ Flight /\ Served /\ Answered /\ Lately
  BY DEF Waits, Lists, Flight, FlightOf, Served, Answered, NoOutcome, Lately
<1>4. Counted
  <2>1. ASSUME NEW r \in Requests
        PROVE  /\ IsFiniteSet(Copies(r))
               /\ handled[r] + Cardinality(Copies(r)) <= Sent(r)
    <3>1. Copies(r) = {}
      BY DEF Copies
    <3>2. Sent(r) = 0
      BY DEF Sent, Requests
    <3> QED
      BY <3>1, <3>2, FS_EmptySet
  <2>2. \A k \in Conns : Len(toServer[k]) <= 1
    OBVIOUS
  <2> QED
    BY <2>1, <2>2 DEF Counted
<1>5. Bounded
  <2>1. Opened = {} /\ Connecting = {}
    BY DEF Opened, Connecting
  <2>2. /\ IsFiniteSet(Opened) /\ Len(pool) <= MaxPool
        /\ Cardinality(Opened) + Cardinality(Connecting) <= Cardinality(Callers)
    BY <2>1, FS_EmptySet, FS_CardinalityType
  <2> QED
    BY <2>2 DEF Bounded, ConnectionsBounded, Opened, Connecting
<1> QED
  BY <1>1, <1>2, <1>3, <1>4, <1>5 DEF IInv, Flights

\* Every step keeps the invariant.
LEMMA NextIInv == IInv /\ [Next]_vars => IInv'
<1> SUFFICES ASSUME IInv, [Next]_vars PROVE IInv'
  OBVIOUS
<1>i. /\ Typed /\ SoleOwner /\ Waits /\ Flights
      /\ Served /\ Answered /\ Counted /\ Lately /\ Bounded
  BY DEF IInv
<1>1. Typed'
  BY <1>i, TypeNext
<1>2. SoleOwner'
  BY <1>i, OwnerNext
<1>3. Waits' /\ Flights'
  BY <1>i, WaitsNext, FlightNext
<1>4. Served' /\ \A r \in Requests : handled'[r] >= handled[r]
  BY <1>i, ServedNext
<1>5. Answered'
  BY <1>i, <1>1, <1>4, AnsweredNext DEF Typed, TypeOK
<1>6. Counted'
  BY <1>i, <1>1, CountedNext
<1>7. Lately'
  BY <1>i, LatelyNext
<1>8. Bounded'
  BY <1>i, BoundedNext
<1> QED
  BY <1>1, <1>2, <1>3, <1>4, <1>5, <1>6, <1>7, <1>8 DEF IInv

\* The invariant holds always.
LEMMA Invariant == Spec => []IInv
  BY InitIInv, NextIInv, PTL DEF Spec

\* Types of the variables of EnclaveClient and VsockRPCServer.
THEOREM TypeCorrect == Spec => []TypeOK
<1>1. IInv => TypeOK
  BY DEF IInv, Typed
<1> QED
  BY <1>1, Invariant, PTL

\* Every open connection of the host is pooled once or held by one caller, for any
\* number of threads and any size of the pool (enclave_client.py:267-289).
THEOREM ConnectionOwned == Spec => []SoleOwner
<1>1. IInv => SoleOwner
  BY DEF IInv
<1> QED
  BY <1>1, Invariant, PTL

\* Nothing is in flight on a connection of the pool (enclave_client.py:169-189).
THEOREM PoolIsQuiet == Spec => []PooledQuiet
<1>1. IInv => PooledQuiet
  BY DEF IInv, Flights
<1> QED
  BY <1>1, Invariant, PTL

\* After any timeouts, retries, crashes and restarts, a response that send_request
\* returns is the one to the request of that very call (enclave_client.py:146-200).
THEOREM ResponseIsOwn == Spec => []OwnResponse
<1>1. IInv => OwnResponse
  BY DEF IInv, Answered, OwnResponse, Own
<1> QED
  BY <1>1, Invariant, PTL

\* The pool is bounded by _max_pool_size, and the open connections by the number
\* of calling threads (enclave_client.py:267-289).
THEOREM FewConnections == Spec => []ConnectionsBounded
<1>1. IInv => ConnectionsBounded
  BY DEF IInv, Bounded
<1> QED
  BY <1>1, Invariant, PTL

\* What the count says of one request.
LEMMA CountGives ==
  ASSUME IInv, NEW r \in Requests
  PROVE  /\ handled[r] <= MaxRetries
         /\ handled[r] + Cardinality(Copies(r)) <= MaxRetries
         /\ IsFiniteSet(Copies(r))
<1>1. PICK c \in Callers, n \in 1..MaxRequests : r = <<c, n>>
  BY DEF Requests
<1>2. Sent(r) \in 0..MaxRetries
  BY <1>1, SentType DEF IInv
<1>3. IsFiniteSet(Copies(r)) /\ handled[r] + Cardinality(Copies(r)) <= Sent(r)
  BY DEF IInv, Counted
<1>4. Cardinality(Copies(r)) \in Nat /\ handled[r] \in Nat
  BY <1>3, FS_CardinalityType DEF IInv, Typed, TypeOK
<1> QED
  BY <1>2, <1>3, <1>4, Assumed DEF Assumptions

\* The enclave executes a request at most max_retries times, and at least once
\* before it is answered (enclave_client.py:155-197).
THEOREM RetriesBoundDelivery == Spec => []HandledPerRetries
<1>1. IInv => HandledPerRetries
  BY CountGives DEF IInv, Answered, HandledPerRetries, Own
<1> QED
  BY <1>1, Invariant, PTL

\* After stop() at most one more request is read on a connection, and none on one
\* whose handler has not started (server.py:164-184).
THEOREM FewAfterStop == Spec => []OneAfterStop
<1>1. IInv => OneAfterStop
  <2>1. ASSUME Lately, NEW k \in Conns
        PROVE  late[k] <= IF server[k] \in WaitingStages THEN 0 ELSE 1
    <3>1. server[k] \in WaitingStages => server[k] \notin {"dispatching", "closed"}
      BY DEF WaitingStages
    <3>2. late[k] <= 1 /\ (server[k] \in WaitingStages => late[k] = 0)
      BY <2>1, <3>1 DEF Lately
    <3> QED
      BY <3>2
  <2> QED
    BY <2>1 DEF IInv, OneAfterStop
<1> QED
  BY <1>1, Invariant, PTL

-----------------------------------------------------------------------------
\* The action that NeverClosedUnanswered requires of one caller.
Unanswered(c) ==
    LET k == conn[c] IN
    /\ pc[c] = "receive" /\ pc'[c] = "receive"
    /\ server[k] # "closed" /\ server'[k] = "closed"
    /\ crashes' = crashes
    => toServer[k] # <<>> \/ toClient'[k] # <<>>

\* No step but a crash closes a connection between the read of a request and the
\* write of its answer.
LEMMA UnansweredNext ==
  ASSUME IInv, [Next]_vars, NEW c \in Callers
  PROVE  Unanswered(c)
<1> SUFFICES ASSUME NEW k, k = conn[c], pc[c] = "receive", pc'[c] = "receive",
                    server[k] # "closed", server'[k] = "closed",
                    crashes' = crashes, toServer[k] = <<>>
             PROVE  toClient'[k] # <<>>
  BY DEF Unanswered
<1>i. Typed /\ SoleOwner /\ Waits /\ Flights
  BY DEF IInv
<1>k. k \in Conns /\ client[k] = "open"
  BY <1>i, Held DEF Holding
<1>1. AtWork(c, k) \/ Back(c, k)
  <2>1. Unread(c, k) \/ AtWork(c, k) \/ Back(c, k) \/ Lost(k)
    BY <1>i DEF Flights, Flight, FlightOf
  <2> QED
    BY <2>1 DEF Unread, Lost
<1>2. CASE ServerStep
  <2>1. CASE \E j \in Conns : ReadRequest(j)
    BY <1>i, <1>k, <2>1 DEF ReadRequest, Stage, Typed, TypeOK
  <2>2. ASSUME NEW j \in Conns, WriteResponse(j) PROVE toClient'[k] # <<>>
    <3>1. PICK response \in Responses(j) :
            toClient' = [toClient EXCEPT ![j] = Append(@, response)]
      BY <2>2 DEF WriteResponse
    <3>2. j = k
      BY <1>i, <1>k, <2>2 DEF WriteResponse, Stage, Typed, TypeOK
    <3>3. toClient'[k] = Append(toClient[k], response)
      BY <1>i, <1>k, <3>1, <3>2 DEF Typed, TypeOK
    <3>4. toClient[k] = <<>>
      BY <1>1, <2>2, <3>2 DEF WriteResponse, AtWork, Quiet, Back
    <3>5. toClient'[k] = <<response>>
      BY <3>3, <3>4
    <3> QED
      BY <3>5
  <2>3. CASE \E j \in Conns : WriteLost(j)
    BY <1>i, <1>k, <2>3 DEF WriteLost, Stage, Typed, TypeOK
  <2>4. CASE Exit
    BY <1>1, <1>k, <2>4 DEF Exit, Handlers, At, ActiveHandler, AtWork, Back
  <2>5. CASE Crash
    BY <1>i, <2>5, Assumed DEF Assumptions, Crash, Typed, TypeOK
  <2>6. CASE /\ \A j \in Conns : ~ReadRequest(j) /\ ~WriteResponse(j) /\ ~WriteLost(j)
             /\ ~Exit /\ ~Crash
    <3>1. server[k] # "dispatching" /\ UNCHANGED toClient
      <4>1. server[k] # "dispatching"
        BY <1>2, <1>i, <1>k, <2>6, StageSteps
      <4>2. UNCHANGED toClient
        BY <1>2, <2>6
        DEF ServerStep, HandlerStep, MainStep, Accept, EnterSubmit, LeaveSubmit,
            TakeConnection, CloseIdle, Stop, Start, channelVars
      <4> QED
        BY <4>1, <4>2
    <3>2. toClient[k] \in {<<Own(c)>>, <<Garbled>>}
      BY <1>1, <3>1 DEF AtWork, Back
    <3>3. <<Own(c)>> # <<>> /\ <<Garbled>> # <<>>
      OBVIOUS
    <3> QED
      BY <3>1, <3>2, <3>3
  <2> QED
    BY <2>1, <2>2, <2>3, <2>4, <2>5, <2>6
<1>3. ASSUME NEW d \in Callers, Call(d) \/ CallerStep(d) PROVE FALSE
  <2>1. CASE Connect(d)
    BY <1>i, <1>k, <2>1 DEF Connect, Typed, TypeOK
  <2> QED
    BY <1>3, <2>1, CallerKeeps
<1>4. CASE UNCHANGED vars
  BY <1>4 DEF vars, serverVars
<1> QED
  BY <1>2, <1>3, <1>4, StepKinds

\* Neither a timeout nor a shutdown makes the enclave close a connection on a
\* request it has read and not answered (server.py:164-196).
THEOREM ClosedAfterAnswer == Spec => NeverClosedUnanswered
<1>1. ASSUME IInv, [Next]_vars
      PROVE  [\A c \in Callers :
        LET k == conn[c] IN
        /\ pc[c] = "receive" /\ pc'[c] = "receive"
        /\ server[k] # "closed" /\ server'[k] = "closed"
        /\ crashes' = crashes
        => toServer[k] # <<>> \/ toClient'[k] # <<>>]_vars
  BY <1>1, UnansweredNext DEF Unanswered
<1> QED
  BY <1>1, Invariant, PTL DEF Spec, NeverClosedUnanswered

-----------------------------------------------------------------------------
(* The refinement: EnclaveRPC implements the abstract calls of RemoteCalls. *)

\* What the refinement mapping says of one caller.
LEMMA PhaseOf ==
  ASSUME Typed, NEW c \in Callers
  PROVE  Phase[c] = IF pc[c] = "idle" THEN "idle"
                    ELSE IF pc[c] \notin {"release", "done"} THEN "pending"
                    ELSE IF outcome[c].kind = "ok" THEN "succeeded" ELSE "failed"
<1>1. pc[c] = "idle" => outcome[c].kind # "ok"
  BY DEF Typed, Controlled, Control, NoOutcome
<1>2. outcome[c] = NoOutcome <=> pc[c] \notin {"release", "done"}
  BY DEF Typed, Controlled, Control
<1>3. outcome[c] = NoOutcome => outcome[c].kind # "ok"
  BY DEF NoOutcome
<1> QED
  BY <1>1, <1>2, <1>3 DEF Phase

\* A call that goes on without an outcome keeps its abstract phase.
LEMMA PhaseKept ==
  ASSUME NEW c \in Callers, outcome'[c] = outcome[c], pc[c] # "idle",
         pc'[c] # "idle"
  PROVE  Phase'[c] = Phase[c] /\ Answer'[c] = Answer[c]
  BY DEF Phase, Answer

\* So does every caller that takes no step.
LEMMA OthersKept ==
  ASSUME NEW c \in Callers, outcome'[c] = outcome[c], pc'[c] = pc[c]
  PROVE  Phase'[c] = Phase[c] /\ Answer'[c] = Answer[c]
  BY DEF Phase, Answer

\* The mapped variables are functions on the callers.
LEMMA MapTypes ==
  /\ Phase = [c \in Callers |-> Phase[c]] /\ Answer = [c \in Callers |-> Answer[c]]
  /\ Phase' = [c \in Callers |-> Phase'[c]]
  /\ Answer' = [c \in Callers |-> Answer'[c]]
  BY DEF Phase, Answer

\* The initial states of EnclaveRPC are initial states of RemoteCalls.
LEMMA InitRefines == Init => Abstract!Init
<1> SUFFICES ASSUME Init PROVE Abstract!Init
  OBVIOUS
<1>1. Phase = [c \in Callers |-> "idle"]
  <2>1. Typed
    BY InitType DEF Typed
  <2>2. \A c \in Callers : Phase[c] = "idle"
    BY <2>1, PhaseOf DEF Init
  <2> QED
    BY <2>2, MapTypes
<1>2. Answer = [c \in Callers |-> Abstract!NoAnswer]
  BY DEF Init, Answer, NoOutcome, NoRequest, Abstract!NoAnswer
<1> QED
  BY <1>1, <1>2 DEF Init, Requests, Abstract!Init

\* A step of send_request begins, ends or collects an abstract call, or is hidden:
\* acquiring, connecting, sending, backing off and retrying are
\* (enclave_client.py:146-200).
LEMMA CallerRefines ==
  ASSUME IInv, Typed', NEW c \in Callers, Call(c) \/ CallerStep(c)
  PROVE  Abstract!Next \/ UNCHANGED Abstract!cvars
<1>i. /\ Typed /\ Answered /\ Flights /\ SoleOwner /\ Served
      /\ pc \in [Callers -> Labels]
      /\ outcome \in [Callers -> Outcomes \cup {NoOutcome}]
      /\ serial \in [Callers -> 0..MaxRequests]
  BY DEF IInv, Typed, TypeOK
<1>p. Phase'[c] = IF pc'[c] = "idle" THEN "idle"
                  ELSE IF pc'[c] \notin {"release", "done"} THEN "pending"
                  ELSE IF outcome'[c].kind = "ok" THEN "succeeded" ELSE "failed"
  <2>1. (Typed => Phase[c] = IF pc[c] = "idle" THEN "idle"
                  ELSE IF pc[c] \notin {"release", "done"} THEN "pending"
                  ELSE IF outcome[c].kind = "ok" THEN "succeeded" ELSE "failed")'
    BY PhaseOf, PTL
  <2> QED
    BY <2>1
<1>q. Phase[c] = IF pc[c] = "idle" THEN "idle"
                 ELSE IF pc[c] \notin {"release", "done"} THEN "pending"
                 ELSE IF outcome[c].kind = "ok" THEN "succeeded" ELSE "failed"
  BY <1>i, PhaseOf
<1>o. ASSUME \A d \in Callers \ {c} : outcome'[d] = outcome[d] /\ pc'[d] = pc[d]
      PROVE  /\ Phase' = [Phase EXCEPT ![c] = Phase'[c]]
             /\ Answer' = [Answer EXCEPT ![c] = Answer'[c]]
  <2>1. \A d \in Callers \ {c} : Phase'[d] = Phase[d] /\ Answer'[d] = Answer[d]
    BY <1>o, OthersKept
  <2> QED
    BY <2>1, MapTypes
<1>r. UNCHANGED handled
  BY CallerKeeps
<1>s. ASSUME \A d \in Callers \ {c} : outcome'[d] = outcome[d] /\ pc'[d] = pc[d],
             outcome'[c] = outcome[c], pc[c] # "idle", pc'[c] # "idle",
             UNCHANGED serial
      PROVE  UNCHANGED Abstract!cvars
  <2>1. UNCHANGED <<Phase, Answer>>
    BY <1>o, <1>s, PhaseKept, MapTypes
  <2> QED
    BY <1>r, <1>s, <2>1 DEF Abstract!cvars
<1>1. CASE Call(c)
  <2>1. /\ pc[c] = "idle" /\ serial[c] < MaxRequests
        /\ serial' = [serial EXCEPT ![c] = @ + 1]
        /\ pc' = [pc EXCEPT ![c] = "acquire"] /\ UNCHANGED outcome
    BY <1>1 DEF Call, Goto
  <2>2. Phase[c] = "idle" /\ Phase'[c] = "pending"
    BY <1>i, <1>p, <1>q, <2>1
  <2>3. Phase' = [Phase EXCEPT ![c] = "pending"]
    BY <1>i, <1>o, <2>1, <2>2
  <2>4. UNCHANGED Answer
    BY <2>1 DEF Answer
  <2>5. Abstract!Begin(c)
    BY <1>r, <2>1, <2>2, <2>3, <2>4 DEF Abstract!Begin
  <2> QED
    BY <2>5 DEF Abstract!Next
<1>e. ASSUME pc[c] \in {"connect", "send", "receive"},
             pc' = [pc EXCEPT ![c] = "done"],
             UNCHANGED serial,
             \E e \in {"timeout", "communication", "malformed"} :
                outcome' = [outcome EXCEPT ![c] = [kind |-> e]]
      PROVE  Abstract!Fail(c)
  <2>1. PICK e \in {"timeout", "communication", "malformed"} :
                outcome' = [outcome EXCEPT ![c] = [kind |-> e]]
    BY <1>e
  <2>2. /\ outcome'[c].kind # "ok" /\ outcome[c].kind # "ok"
        /\ \A d \in Callers \ {c} : outcome'[d] = outcome[d] /\ pc'[d] = pc[d]
    <3>1. outcome'[c] = [kind |-> e] /\ [kind |-> e].kind = e
      BY <1>i, <2>1
    <3>2. outcome[c].kind # "ok"
      BY <1>e, <1>i DEF Typed, Controlled, Control, NoOutcome
    <3> QED
      BY <1>e, <1>i, <2>1, <3>1, <3>2
  <2>3. Phase[c] = "pending" /\ Phase'[c] = "failed"
    BY <1>e, <1>i, <1>p, <1>q, <2>2
  <2>4. Phase' = [Phase EXCEPT ![c] = "failed"]
    BY <1>o, <2>2, <2>3
  <2>5. UNCHANGED Answer
    <3>1. Answer[c] = NoRequest /\ Answer'[c] = NoRequest
      BY <2>2 DEF Answer
    <3> QED
      BY <1>o, <2>2, <3>1, MapTypes
  <2> QED
    BY <1>e, <1>r, <2>3, <2>4, <2>5 DEF Abstract!Fail
<1>2. CASE Fails(c)
  <2>0. PICK e \in {"timeout", "communication"} : AttemptFails(c, e)
    BY <1>2 DEF Fails
  <2>1. CASE attempt[c] >= MaxRetries
    <3>1. /\ pc[c] \in {"connect", "send", "receive"}
          /\ pc' = [pc EXCEPT ![c] = "done"]
          /\ UNCHANGED serial /\ outcome' = [outcome EXCEPT ![c] = [kind |-> e]]
      BY <1>2, <2>0, <2>1 DEF Fails, AttemptFails, Finish, Goto
    <3> QED
      BY <1>e, <3>1 DEF Abstract!Next
  <2>2. CASE ~(attempt[c] >= MaxRetries)
    <3>1. /\ pc[c] \in {"connect", "send", "receive"}
          /\ pc' = [pc EXCEPT ![c] = "backoff"]
          /\ UNCHANGED <<serial, outcome>>
      BY <1>2, <2>0, <2>2 DEF Fails, AttemptFails, Goto
    <3> QED
      BY <1>i, <1>s, <3>1
  <2> QED
    BY <2>1, <2>2
<1>3. CASE Receive(c)
  <2>1. CASE Head(toClient[conn[c]]) # Garbled
    <3>1. /\ pc[c] = "receive" /\ pc' = [pc EXCEPT ![c] = "release"]
          /\ UNCHANGED serial
          /\ outcome' = [outcome EXCEPT ![c] =
                            [kind |-> "ok", response |-> Head(toClient[conn[c]])]]
      BY <1>3, <2>1 DEF Receive, Goto
    <3>2. Head(toClient[conn[c]]) = Own(c) /\ handled[Own(c)] >= 1
      <4>1. conn[c] \in Conns /\ Back(c, conn[c])
        <5>1. FlightOf(c) /\ toClient[conn[c]] # <<>>
          BY <1>3, <1>i DEF Receive, Flights, Flight
        <5> QED
          BY <1>i, <3>1, <5>1, Held
          DEF Holding, FlightOf, Unread, AtWork, Lost, Quiet
      <4>2. toClient[conn[c]] = <<Own(c)>>
        BY <2>1, <4>1 DEF Back
      <4>3. Own(c) # Garbled /\ 1 \in DOMAIN toClient[conn[c]]
            /\ toClient[conn[c]][1] = Own(c)
        BY <4>2 DEF Own, Garbled
      <4> QED
        BY <1>i, <4>1, <4>2, <4>3 DEF Served
    <3>3. /\ outcome'[c] = [kind |-> "ok", response |-> Own(c)]
          /\ \A d \in Callers \ {c} : outcome'[d] = outcome[d] /\ pc'[d] = pc[d]
      BY <1>i, <3>1, <3>2
    <3>4. Phase[c] = "pending" /\ Phase'[c] = "succeeded"
      BY <1>i, <1>p, <1>q, <3>1, <3>3
    <3>5. Answer'[c] = Own(c)
      BY <3>3 DEF Answer
    <3>6. Own(c) = Abstract!Own(c)
      BY DEF Own, Abstract!Own
    <3>7. handled[Own(c)] > 0
      <4>1. Own(c) \in Requests
        BY <1>i, <3>1, Assumed
        DEF Assumptions, Own, Requests, Typed, TypeOK, Controlled, Control
      <4> QED
        <5>1. handled[Own(c)] \in Nat
          BY <1>i, <4>1 DEF Typed, TypeOK
        <5> QED
          BY <3>2, <5>1
    <3>8. Abstract!Succeed(c)
      BY <1>o, <1>r, <3>1, <3>3, <3>4, <3>5, <3>6, <3>7 DEF Abstract!Succeed
    <3> QED
      BY <3>8 DEF Abstract!Next
  <2>2. CASE ~(Head(toClient[conn[c]]) # Garbled)
    <3>1. /\ pc[c] = "receive" /\ pc' = [pc EXCEPT ![c] = "done"]
          /\ UNCHANGED serial
          /\ outcome' = [outcome EXCEPT ![c] = [kind |-> "malformed"]]
      BY <1>3, <2>2 DEF Receive, Finish, Goto
    <3> QED
      BY <1>e, <3>1 DEF Abstract!Next
  <2> QED
    BY <2>1, <2>2
<1>4. CASE Return(c)
  <2>1. /\ pc[c] = "done" /\ pc' = [pc EXCEPT ![c] = "idle"] /\ UNCHANGED serial
        /\ outcome' = [outcome EXCEPT ![c] = NoOutcome]
    BY <1>4 DEF Return, Goto
  <2>2. /\ outcome'[c] = NoOutcome
        /\ \A d \in Callers \ {c} : outcome'[d] = outcome[d] /\ pc'[d] = pc[d]
    BY <1>i, <2>1
  <2>3. Phase[c] \in {"succeeded", "failed"} /\ Phase'[c] = "idle"
    BY <1>i, <1>p, <1>q, <2>1
  <2>4. Answer'[c] = Abstract!NoAnswer
    BY <2>2 DEF Answer, NoOutcome, NoRequest, Abstract!NoAnswer
  <2>5. Abstract!Collect(c)
    BY <1>o, <1>r, <2>1, <2>2, <2>3, <2>4 DEF Abstract!Collect
  <2> QED
    BY <2>5 DEF Abstract!Next
<1>5. CASE \/ AcquirePooled(c) \/ PoolEmpty(c) \/ Connect(c) \/ Send(c) \/ Release(c)
           \/ Retry(c)
  <2>1. /\ UNCHANGED <<outcome, serial>> /\ pc[c] # "idle"
        /\ \E l \in Labels \ {"idle"} : pc' = [pc EXCEPT ![c] = l]
    BY <1>5
    DEF AcquirePooled, PoolEmpty, Connect, Send, Release, Retry, Goto, Labels
  <2>2. pc'[c] # "idle" /\ \A d \in Callers \ {c} : pc'[d] = pc[d]
    BY <1>i, <2>1
  <2> QED
    BY <1>s, <2>1, <2>2
<1> QED
  BY <1>1, <1>2, <1>3, <1>4, <1>5
  DEF CallerStep, ConnectFails, SendFails, ReceiveFails, Fails

\* The enclave executes a request that some attempt sent, no more often than it
\* was tried (server.py:184-190); its other steps are hidden.
LEMMA ServerRefines ==
  ASSUME IInv, ServerStep
  PROVE  Abstract!Next \/ UNCHANGED Abstract!cvars
<1>m. UNCHANGED <<Phase, Answer, serial>>
  BY ServerKeeps DEF callerVars, Phase, Answer
<1>0. CASE UNCHANGED handled
  BY <1>0, <1>m DEF Abstract!cvars
<1>1. ASSUME NEW k \in Conns, ReadRequest(k) PROVE Abstract!Next
  <2>1. PICK r \in Requests : toServer[k] = <<r>>
    <3>1. /\ toServer[k] \in Seq(Requests)
          /\ toServer[k] # <<>>
          /\ Len(toServer[k]) <= 1
      BY <1>1 DEF ReadRequest, IInv, Typed, TypeOK, Counted
    <3> QED
      BY <3>1, SingleRequest
  <2>2. handled' = [handled EXCEPT ![r] = @ + 1]
    BY <1>1, <2>1 DEF ReadRequest
  <2>3. PICK c \in Callers, n \in 1..MaxRequests : r = <<c, n>>
    BY DEF Requests
  <2>4. Cardinality(Copies(r)) >= 1 /\ Cardinality(Copies(r)) \in Nat
    <3>1. k \in Copies(r) /\ IsFiniteSet(Copies(r))
      BY <2>1, CountGives DEF Copies
    <3>2. Cardinality(Copies(r)) # 0 /\ Cardinality(Copies(r)) \in Nat
      BY <3>1, FS_EmptySet, FS_CardinalityType
    <3> QED
      BY <3>2
  <2>5. handled[r] \in Nat /\ handled[r] < MaxRetries
    <3>1. handled[r] \in Nat
      BY DEF IInv, Typed, TypeOK
    <3> QED
      BY <2>4, <3>1, CountGives, Assumed DEF Assumptions
  <2>6. n <= serial[c]
    <3>1. handled[r] + Cardinality(Copies(r)) <= Sent(r)
      BY DEF IInv, Counted
    <3>2. n > serial[c] => Sent(r) = 0
      BY <2>3 DEF Sent
    <3>3. serial[c] \in Nat /\ n \in Nat
      BY Assumed DEF Assumptions, IInv, Typed, TypeOK
    <3> QED
      BY <2>4, <2>5, <3>1, <3>2, <3>3
  <2>7. Abstract!Execute(r)
    BY <1>m, <2>2, <2>3, <2>5, <2>6 DEF Abstract!Execute
  <2> QED
    BY <2>7 DEF Abstract!Next, Requests
<1>2. CASE \A k \in Conns : ~ReadRequest(k)
  <2>1. UNCHANGED handled
    BY <1>2
    DEF ServerStep, HandlerStep, MainStep, WriteResponse, WriteLost, CloseIdle,
                Accept, Exit, EnterSubmit, LeaveSubmit, TakeConnection, Stop, Crash,
                Start, Down
  <2> QED
    BY <1>0, <2>1
<1> QED
  BY <1>1, <1>2

\* Every step of EnclaveRPC is a step of RemoteCalls or a stutter.
LEMMA NextRefines ==
  ASSUME IInv, IInv', [Next]_vars
  PROVE  [Abstract!Next]_(Abstract!cvars)
<1>1. CASE UNCHANGED vars
  BY <1>1 DEF vars, callerVars, serverVars, Phase, Answer, Abstract!cvars
<1>2. Typed'
  BY DEF IInv
<1> QED
  BY <1>1, <1>2, StepKinds, CallerRefines, ServerRefines

\* send_request, with its pool, its timeouts and its retries over an enclave that
\* may stop and crash, implements the abstract calls of RemoteCalls.
THEOREM CallsRefined == Spec => CallsImplemented
<1>1. Init => Abstract!Init
  BY InitRefines
<1>2. IInv /\ IInv' /\ [Next]_vars => [Abstract!Next]_(Abstract!cvars)
  BY NextRefines
<1> QED
  BY <1>1, <1>2, Invariant, PTL DEF Spec, CallsImplemented, Abstract!Spec
=============================================================================
