---------------------------- MODULE RemoteCalls ----------------------------
(***************************************************************************)
(* What the host's client promises the threads that call it, with no       *)
(* connections in sight: each call ends in an answer to its own request or *)
(* in an error, and a request is executed at least once before it is       *)
(* answered, a bounded number of times in all, and possibly still after    *)
(* the call that made it has ended.  EnclaveRPC implements it.             *)
(***************************************************************************)
EXTENDS Naturals

CONSTANTS Callers, MaxRequests, MaxExecutions

VARIABLES phase,      \* of each caller
          serial,     \* the number of its current or last request
          answer,     \* what its call returned: a request, or none
          executed    \* times each request was executed

cvars == <<phase, serial, answer, executed>>

NoAnswer == <<>>
Own(c) == <<c, serial[c]>>

Init == /\ phase = [c \in Callers |-> "idle"]
        /\ serial = [c \in Callers |-> 0]
        /\ answer = [c \in Callers |-> NoAnswer]
        /\ executed = [r \in Callers \X (1..MaxRequests) |-> 0]

Begin(c) == /\ phase[c] = "idle"
            /\ serial[c] < MaxRequests
            /\ serial' = [serial EXCEPT ![c] = @ + 1]
            /\ phase' = [phase EXCEPT ![c] = "pending"]
            /\ UNCHANGED <<answer, executed>>

\* A request that was made is executed, whether or not its call still runs.
Execute(r) == /\ r[2] <= serial[r[1]]
              /\ executed[r] < MaxExecutions
              /\ executed' = [executed EXCEPT ![r] = @ + 1]
              /\ UNCHANGED <<phase, serial, answer>>

Succeed(c) == /\ phase[c] = "pending"
              /\ executed[Own(c)] > 0
              /\ phase' = [phase EXCEPT ![c] = "succeeded"]
              /\ answer' = [answer EXCEPT ![c] = Own(c)]
              /\ UNCHANGED <<serial, executed>>

Fail(c) == /\ phase[c] = "pending"
           /\ phase' = [phase EXCEPT ![c] = "failed"]
           /\ UNCHANGED <<serial, answer, executed>>

Collect(c) == /\ phase[c] \in {"succeeded", "failed"}
              /\ phase' = [phase EXCEPT ![c] = "idle"]
              /\ answer' = [answer EXCEPT ![c] = NoAnswer]
              /\ UNCHANGED <<serial, executed>>

Next == \/ \E c \in Callers : Begin(c) \/ Succeed(c) \/ Fail(c) \/ Collect(c)
        \/ \E r \in Callers \X (1..MaxRequests) : Execute(r)

Spec == Init /\ [][Next]_cvars
=============================================================================
