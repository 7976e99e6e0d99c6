------------------------- MODULE FeatureStoreProofs -------------------------
(***************************************************************************)
(* Proofs of the properties of FeatureStore, for any number of clients,    *)
(* tenants, sets, sends and rounds.  The inductive invariant says of each  *)
(* client, by itself, how what it has done and read fits the place where   *)
(* it is (Good); only a write makes one client's step matter to another.   *)
(* A second one on top of it says what each request was entitled to when   *)
(* it was let through (Ownership).                                         *)
(***************************************************************************)
EXTENDS FeatureStore, TLAPS

\* The places where a client may be.
PlacesOK ==
    pc \in [Clients -> Ops \cup {"idle", "authenticate", "authorize", "done"}]

\* The operations that write.
Sending == {"create", "delete"}

Replies ==
    [code : {"none", "unauthorized", "data_store_error", "internal_server_error",
             "forbidden", "conflict", "not_found", "deleted"}]
    \cup [code : {"created", "found"}, id : Ids]
    \cup [code : {"listed", "fetched"}, ids : [Sets -> Ids]]

\* What a client may be told.
ReplyOK == reply \in [Clients -> Replies]

\* What a client has done so far fits the place where it is.
Control(c) ==
    /\ pc[c] = "idle" <=> req[c] = NoRequest
    /\ pc[c] # "done" => reply[c] = NoReply /\ retries[c] <= BatchRetryLimit
    /\ pc[c] \in {"idle", "authenticate", "authorize"} => cursor[c] = 0
    /\ pc[c] \in {"authenticate", "authorize"} /\ req[c].op = "batch" =>
            wanted[c] = req[c].names
    /\ pc[c] \in Ops => req[c].op = pc[c] /\ tries[c] >= 1
    /\ pc[c] \in Sending => applied[c] < tries[c]
    /\ pc[c] \notin Sending \cup {"done"} => applied[c] = 0
    /\ pc[c] = "create" => item[c] # NoItem
    /\ pc[c] = "list" => cursor[c] < NumSets

\* What the table holds now has been seen by every request for it.
Current(c) ==
    pc[c] # "idle" => \A s \in Sets : table[req[c].target][s] \in seen[c][s]

\* So has what a list or a batch has collected.
Collected(c) ==
    /\ pc[c] = "list" => \A s \in 1..cursor[c] : listed[c][s] \in seen[c][s]
    /\ pc[c] = "batch" =>
            \A s \in req[c].names \ wanted[c] : listed[c][s] \in seen[c][s]

\* A write that was executed stands until another one undoes it.
Standing(c) ==
    /\ pc[c] = "create" /\ applied[c] > 0 /\ ~undone[c] => Slot(c) = item[c]
    /\ pc[c] = "delete" /\ applied[c] > 0 /\ ~undone[c] => Slot(c) = NoItem

\* The answer fits what the request has seen and done.
Answer(c) ==
    /\ reply[c].code = "listed" =>
            \A s \in Sets : reply[c].ids[s] \in seen[c][s]
    /\ reply[c].code = "fetched" =>
            /\ req[c].names \subseteq Sets
            /\ \A s \in req[c].names : reply[c].ids[s] \in seen[c][s]
    /\ reply[c].code = "found" => /\ req[c].name \in Sets
                                  /\ reply[c].id \in seen[c][req[c].name]
    /\ reply[c].code \in {"conflict", "not_found"} => req[c].name \in Sets
    /\ reply[c].code = "conflict" =>
            \E i \in seen[c][req[c].name] : i # NoItem
    /\ reply[c].code = "not_found" => NoItem \in seen[c][req[c].name]
    /\ reply[c].code \in {"created", "deleted"} => applied[c] >= 1
    /\ reply[c].code \in {"conflict", "not_found"} /\ tries[c] = 1 =>
            applied[c] = 0

\* What the invariant says of one client.
Good(c) ==
    Control(c) /\ Current(c) /\ Collected(c) /\ Standing(c) /\ Answer(c)

IInv == TypeOK /\ ReplyOK /\ \A c \in Clients : Good(c)

\* The assumptions on the constants, together.
Assumptions == /\ Registered \subseteq Tenants /\ Closing \subseteq Registered
               /\ NumSets \in Nat \ {0}
               /\ MaxTries \in Nat \ {0}
               /\ BatchRetryLimit \in Nat
               /\ Batches \subseteq SUBSET (1..NumSets) \ {{}}
               /\ MaxItems \in Nat

\* What is assumed of the constants.
LEMMA Assumed == Assumptions
  BY RegisteredAssumption, ClosingAssumption, NumSetsAssumption, MaxTriesAssumption, BatchRetryLimitAssumption,
     BatchesAssumption, MaxItemsAssumption DEF Assumptions

\* What a request holds, by its operation.
Fields(r) ==
    /\ r # NoRequest
    /\ r.op \in Ops
    /\ r.target \in Tenants
    /\ r.op # "batch" => r.name \in Sets
    /\ r.op = "batch" => r.names \subseteq Sets

\* Every request that can come has these fields.
LEMMA RequestFields ==
  ASSUME NEW r \in Request \cup BatchRequest
  PROVE  Fields(r)
<1>1. r.op # NoRequest.op
  BY DEF Request, BatchRequest, NoRequest, Ops
<1> QED
  BY <1>1, Assumed DEF Assumptions, Request, BatchRequest, Ops, Fields, Sets

\* So has the request of a client that is not idle.
LEMMA InProgress ==
  ASSUME IInv, NEW c \in Clients, pc[c] # "idle"
  PROVE  Fields(req[c])
<1>1. req[c] \in Request \cup BatchRequest
  BY DEF IInv, TypeOK, Good, Control
<1> QED
  BY <1>1, RequestFields

\* A reply that is only a code.
LEMMA Coded ==
  ASSUME NEW k \in {"none", "unauthorized", "data_store_error",
                    "internal_server_error", "forbidden", "conflict",
                    "not_found", "deleted"}
  PROVE  Code(k) \in Replies /\ Code(k).code = k
  BY DEF Code, Replies

\* Nothing that the invariant says of a client depends on the others.
LEMMA Frame ==
  ASSUME NEW d, Good(d), UNCHANGED table,
         pc'[d] = pc[d], req'[d] = req[d], item'[d] = item[d],
         tries'[d] = tries[d], cursor'[d] = cursor[d], listed'[d] = listed[d],
         wanted'[d] = wanted[d], retries'[d] = retries[d], reply'[d] = reply[d],
         seen'[d] = seen[d], applied'[d] = applied[d], undone'[d] = undone[d]
  PROVE  Good(d)'
  BY DEF Good, Control, Current, Collected, Standing, Answer, Slot

-----------------------------------------------------------------------------
\* The answer of a send, and what happens without one.
LEMMA Told ==
  ASSUME IInv, NEW c \in Clients, NEW r \in Replies, Answered(c, r)
  PROVE  /\ PlacesOK'
         /\ tries' \in [Clients -> 0..MaxTries]
         /\ ReplyOK'
         /\ pc'[c] = "done" /\ reply'[c] = r /\ tries'[c] = tries[c]
         /\ \A d \in Clients \ {c} : /\ pc'[d] = pc[d]
                                     /\ tries'[d] = tries[d]
                                     /\ reply'[d] = reply[d]
  BY DEF IInv, TypeOK, PlacesOK, ReplyOK, Answered, Respond

\* A send without an answer: another send, or the error after the last.
LEMMA Untold ==
  ASSUME IInv, NEW c \in Clients, Unanswered(c)
  PROVE  /\ PlacesOK'
         /\ tries' \in [Clients -> 0..MaxTries]
         /\ ReplyOK'
         /\ \/ /\ pc'[c] = pc[c] /\ reply'[c] = reply[c]
               /\ tries'[c] = tries[c] + 1
            \/ /\ pc'[c] = "done" /\ reply'[c] = Code("data_store_error")
               /\ tries'[c] = tries[c]
         /\ \A d \in Clients \ {c} : /\ pc'[d] = pc[d]
                                     /\ tries'[d] = tries[d]
                                     /\ reply'[d] = reply[d]
<1>1. tries \in [Clients -> 0..MaxTries] /\ MaxTries \in Nat
  BY Assumed DEF Assumptions, IInv, TypeOK
<1>2. CASE /\ tries[c] < MaxTries
           /\ tries' = [tries EXCEPT ![c] = @ + 1]
           /\ UNCHANGED <<pc, reply>>
  <2>1. tries[c] + 1 \in 0..MaxTries
    BY <1>1, <1>2
  <2>2. tries' \in [Clients -> 0..MaxTries]
    BY <1>1, <1>2, <2>1
  <2> QED
    BY <1>1, <1>2, <2>2 DEF IInv, TypeOK, PlacesOK, ReplyOK
<1>3. CASE Respond(c, Code("data_store_error")) /\ UNCHANGED tries
  BY <1>1, <1>3, Coded DEF IInv, TypeOK, PlacesOK, ReplyOK, Respond
<1> QED
  BY <1>2, <1>3 DEF Unanswered

-----------------------------------------------------------------------------
\* The invariant holds at first.
LEMMA InitIInv == Init => IInv
<1> SUFFICES ASSUME Init PROVE IInv
  OBVIOUS
<1> USE Assumed DEF Assumptions, Init, NoItem, Ids, Sets, Ops, NoRequest, NoReply,
        Empty, Nothing, Sending
<1>1. TypeOK
  BY DEF TypeOK
<1>2. ReplyOK
  BY DEF ReplyOK, Replies
<1>3. ASSUME NEW c \in Clients PROVE Good(c)
  BY DEF Good, Control, Current, Collected, Standing, Answer
<1> QED
  BY <1>1, <1>2, <1>3 DEF IInv

\* A request comes: what it has seen is the table as it is now.
LEMMA ArriveIInv ==
  ASSUME IInv, NEW c \in Clients, Arrive(c)
  PROVE  IInv'
<1> USE Assumed DEF Assumptions, Arrive, batchVars
<1>0. PICK r \in Request \cup BatchRequest :
        /\ req' = [req EXCEPT ![c] = r]
        /\ live' = [live EXCEPT ![c] = Active(r.auth)]
        /\ wanted' = [wanted EXCEPT ![c] = IF r.op = "batch" THEN r.names ELSE {}]
        /\ seen' = [seen EXCEPT ![c] = [s \in Sets |-> {table[r.target][s]}]]
  OBVIOUS
<1>a. Fields(r)
  BY RequestFields
<1>1. TypeOK'
  <2>1. Active(r.auth) \in BOOLEAN
    BY Assumed DEF Active, IInv, TypeOK
  <2> QED
    BY <1>0, <1>a, <2>1 DEF IInv, TypeOK, Fields
<1>2. ReplyOK'
  BY DEF IInv, ReplyOK
<1>3. ASSUME NEW d \in Clients \ {c} PROVE Good(d)'
  BY <1>0, Frame DEF IInv, TypeOK
<1>4. Good(c)'
  <2>1. /\ req'[c] = r /\ pc'[c] = "authenticate"
        /\ seen'[c] = [s \in Sets |-> {table[r.target][s]}]
        /\ wanted'[c] = IF r.op = "batch" THEN r.names ELSE {}
    BY <1>0 DEF IInv, TypeOK
  <2>2. Control(c)'
    BY <1>a, <2>1 DEF IInv, Good, Control, Fields, Ops, Sending
  <2>3. Current(c)'
    <3>1. table' = table /\ r.target \in Tenants
      BY <1>a DEF Fields
    <3> HIDE DEF Arrive
    <3> QED
      BY <2>1, <3>1 DEF Current
  <2>4. Collected(c)' /\ Standing(c)'
    BY <2>1 DEF Collected, Standing
  <2>5. Answer(c)'
    BY DEF IInv, Good, Control, Answer, NoReply
  <2> QED
    BY <2>2, <2>3, <2>4, <2>5 DEF Good
<1> QED
  BY <1>1, <1>2, <1>3, <1>4 DEF IInv

\* The tenant record is read.
LEMMA AuthenticateIInv ==
  ASSUME IInv, NEW c \in Clients, Authenticate(c)
  PROVE  IInv'
<1> USE Assumed DEF Assumptions, Authenticate, Respond, batchVars
<1>a. Fields(req[c]) /\ pc[c] = "authenticate"
  BY InProgress
<1>b. /\ Code("unauthorized") \in Replies /\ Code("data_store_error") \in Replies
      /\ Code("internal_server_error") \in Replies
  BY Coded
<1>1. TypeOK'
  BY DEF IInv, TypeOK
<1>2. ReplyOK'
  BY <1>b DEF IInv, ReplyOK
<1>3. ASSUME NEW d \in Clients \ {c} PROVE Good(d)'
  <2>1. pc'[d] = pc[d] /\ reply'[d] = reply[d]
    BY DEF IInv, TypeOK, ReplyOK
  <2>2. Good(d)
    BY DEF IInv
  <2> QED
    BY <2>1, <2>2, Frame
<1>4. Good(c)'
  <2>1. Control(c)'
    BY <1>a DEF IInv, TypeOK, ReplyOK, Good, Control, Fields, Ops, Sending
  <2>2. Current(c)' /\ Collected(c)' /\ Standing(c)'
    <3>1. pc'[c] \in {"authorize", "done"} /\ Current(c)
      BY DEF IInv, TypeOK, Good
    <3>2. UNCHANGED <<table, req, seen>>
      OBVIOUS
    <3> HIDE DEF Authenticate
    <3> QED
      BY <1>a, <3>1, <3>2 DEF Current, Collected, Standing
  <2>3. Answer(c)'
    BY <1>a DEF IInv, TypeOK, ReplyOK, Good, Control, Answer, Code, NoReply
  <2> QED
    BY <2>1, <2>2, <2>3 DEF Good
<1> QED
  BY <1>1, <1>2, <1>3, <1>4 DEF IInv

\* Only the owner of the target goes on.
LEMMA AuthorizeIInv ==
  ASSUME IInv, NEW c \in Clients, Authorize(c)
  PROVE  IInv'
<1>a. Fields(req[c]) /\ pc[c] = "authorize"
  BY InProgress DEF Authorize
<1>b. Code("forbidden") \in Replies /\ Code("forbidden").code = "forbidden"
  BY Coded
<1>c. UNCHANGED <<table, active, req, live, cursor, listed, wanted, retries, seen, applied,
                  undone>>
  BY DEF Authorize, batchVars
\* A request for another tenant is answered.
<1>1. CASE /\ pc' = [pc EXCEPT ![c] = "done"]
           /\ reply' = [reply EXCEPT ![c] = Code("forbidden")]
           /\ UNCHANGED <<item, items, tries>>
  <2>1. TypeOK'
    BY <1>1, <1>c DEF IInv, TypeOK
  <2>2. ReplyOK'
    BY <1>1, <1>b DEF IInv, ReplyOK
  <2>3. ASSUME NEW d \in Clients \ {c} PROVE Good(d)'
    <3>1. pc'[d] = pc[d] /\ reply'[d] = reply[d] /\ Good(d)
      BY <1>1 DEF IInv, TypeOK, ReplyOK
    <3> QED
      BY <1>1, <1>c, <3>1, Frame
  <2>4. pc'[c] = "done" /\ reply'[c] = Code("forbidden") /\ Current(c)
    BY <1>1 DEF IInv, TypeOK, ReplyOK, Good
  <2>5. Control(c)'
    BY <1>a, <1>c, <2>4 DEF IInv, Good, Control, Ops, Sending
  <2>6. Current(c)' /\ Collected(c)' /\ Standing(c)'
    BY <1>a, <1>c, <2>4 DEF Current, Collected, Standing
  <2>7. Answer(c)'
    BY <1>b, <2>4 DEF Answer
  <2> QED
    BY <2>1, <2>2, <2>3, <2>5, <2>6, <2>7 DEF IInv, Good
\* One for the client's own tenant goes on to its first send.
<1>2. CASE /\ req[c].auth = req[c].target
           /\ \/ /\ req[c].op = "create"
                 /\ items < MaxItems
                 /\ items' = items + 1
                 /\ item' = [item EXCEPT ![c] = items + 1]
              \/ req[c].op # "create" /\ UNCHANGED <<item, items>>
           /\ tries' = [tries EXCEPT ![c] = 1]
           /\ pc' = [pc EXCEPT ![c] = req[c].op]
           /\ UNCHANGED reply
  <2>1. /\ items' \in 0..MaxItems /\ item' \in [Clients -> Ids]
        /\ \A d \in Clients \ {c} : item'[d] = item[d]
        /\ req[c].op = "create" => item'[c] # NoItem
    <3>1. /\ items \in 0..MaxItems /\ item \in [Clients -> Ids]
          /\ MaxItems \in Nat
      BY Assumed DEF Assumptions, IInv, TypeOK
    <3>2. CASE items < MaxItems /\ items' = items + 1
      <4>1. items + 1 \in 0..MaxItems /\ items + 1 \in Ids /\ items + 1 # NoItem
        BY <3>1, <3>2 DEF Ids, NoItem
      <4> QED
        BY <1>2, <3>1, <3>2, <4>1
    <3> QED
      BY <1>2, <3>1, <3>2
  <2>2. /\ tries' \in [Clients -> 0..MaxTries] /\ tries'[c] = 1
        /\ \A d \in Clients \ {c} : tries'[d] = tries[d]
    <3>1. 1 \in 0..MaxTries /\ tries \in [Clients -> 0..MaxTries]
      BY Assumed DEF Assumptions, IInv, TypeOK
    <3> QED
      BY <1>2, <3>1
  <2>3. /\ PlacesOK' /\ pc'[c] = req[c].op /\ pc'[c] \in Ops
        /\ \A d \in Clients \ {c} : pc'[d] = pc[d]
    <3>1. req[c].op \in Ops /\ PlacesOK
      BY <1>a DEF IInv, TypeOK, PlacesOK, Fields
    <3> QED
      BY <1>2, <3>1 DEF PlacesOK
  <2>4. TypeOK'
    BY <1>c, <2>1, <2>2, <2>3 DEF IInv, TypeOK, PlacesOK
  <2>5. ReplyOK'
    BY <1>2 DEF IInv, ReplyOK
  <2>6. ASSUME NEW d \in Clients \ {c} PROVE Good(d)'
    <3>1. Good(d) /\ UNCHANGED reply
      BY <1>2 DEF IInv
    <3> QED
      BY <1>c, <2>1, <2>2, <2>3, <3>1, Frame
  <2>7. /\ cursor[c] = 0 /\ applied[c] = 0 /\ reply[c] = NoReply
        /\ retries[c] <= BatchRetryLimit /\ req[c] # NoRequest
        /\ req[c].op = "batch" => wanted[c] = req[c].names
    BY <1>a DEF IInv, Good, Control, Sending
  <2>8. Control(c)'
    <3>1. NumSets > 0
      BY Assumed DEF Assumptions
    <3> QED
      BY <1>2, <1>c, <2>1, <2>2, <2>3, <2>7, <3>1 DEF Control, Ops, Sending
  <2>9. Current(c)'
    BY <1>a, <1>c, <2>3 DEF IInv, Good, Current, Ops
  <2>10. Collected(c)' /\ Standing(c)'
    BY <1>c, <2>3, <2>7 DEF Collected, Standing
  <2>11. Answer(c)'
    BY <1>2, <2>7 DEF Answer, NoReply
  <2> QED
    BY <2>4, <2>5, <2>6, <2>8, <2>9, <2>10, <2>11 DEF IInv, Good
<1> QED
  BY <1>1, <1>2 DEF Authorize, Respond

\* A send that DynamoDB does not execute uses up a try, or was the last one.
LEMMA SendLostIInv ==
  ASSUME IInv, NEW c \in Clients, SendLost(c)
  PROVE  IInv'
<1>a. pc[c] \in Ops
  BY DEF SendLost
<1>b. UNCHANGED <<table, active, items, req, live, item, cursor, listed, seen, applied,
                  undone, wanted, retries>>
  BY DEF SendLost, batchVars
<1>c. /\ PlacesOK' /\ tries' \in [Clients -> 0..MaxTries] /\ ReplyOK'
      /\ \/ pc'[c] = pc[c] /\ reply'[c] = reply[c] /\ tries'[c] = tries[c] + 1
         \/ pc'[c] = "done" /\ reply'[c] = Code("data_store_error")
      /\ \A d \in Clients \ {c} : /\ pc'[d] = pc[d]
                                  /\ tries'[d] = tries[d]
                                  /\ reply'[d] = reply[d]
  BY Untold DEF SendLost
<1>d. tries[c] \in Nat /\ applied[c] \in Nat
  BY Assumed DEF Assumptions, IInv, TypeOK
<1>1. TypeOK'
  BY <1>b, <1>c DEF IInv, TypeOK, PlacesOK
<1>2. ASSUME NEW d \in Clients \ {c} PROVE Good(d)'
  BY <1>b, <1>c, Frame DEF IInv
<1>3. Control(c)'
  BY <1>a, <1>b, <1>c, <1>d DEF IInv, Good, Control, Ops, Sending
<1>4. Current(c)' /\ Collected(c)' /\ Standing(c)'
  BY <1>a, <1>b, <1>c DEF IInv, Good, Current, Collected, Standing, Slot, Ops
<1>5. Answer(c)'
  <2>1. reply'[c].code \in {"none", "data_store_error"}
    BY <1>a, <1>c, Coded DEF IInv, Good, Control, Ops, NoReply
  <2> QED
    BY <2>1 DEF Answer
<1> QED
  BY <1>1, <1>2, <1>3, <1>4, <1>5, <1>c DEF IInv, Good

\* A conflict: the set holds an item, and the request has seen it.
LEMMA PutConflictIInv ==
  ASSUME IInv, NEW c \in Clients, PutConflict(c)
  PROVE  IInv'
<1> USE Assumed DEF Assumptions, PutConflict, Answered, Respond, batchVars
<1>a. Fields(req[c]) /\ pc[c] = "create"
  BY InProgress
<1>b. Code("conflict") \in Replies
  BY Coded
<1>1. TypeOK'
  BY <1>a DEF IInv, TypeOK
<1>2. ReplyOK'
  BY <1>b DEF IInv, ReplyOK
<1>3. ASSUME NEW d \in Clients \ {c} PROVE Good(d)'
  BY Frame DEF IInv, TypeOK, ReplyOK
<1>4. Good(c)'
  <2>1. Control(c)'
    BY <1>a DEF IInv, TypeOK, ReplyOK, Good, Control, Fields, Ops, Sending
  <2>2. Current(c)' /\ Collected(c)' /\ Standing(c)'
    BY <1>a DEF IInv, TypeOK, Good, Current, Collected, Standing
  <2>3. Answer(c)'
    BY <1>a DEF IInv, TypeOK, ReplyOK, Good, Control, Current, Answer, Code,
         Ops, Fields, Slot, Sending
  <2> QED
    BY <2>1, <2>2, <2>3 DEF Good
<1> QED
  BY <1>1, <1>2, <1>3, <1>4 DEF IInv

\* A read: what the set holds now has been seen.
LEMMA GetItemIInv ==
  ASSUME IInv, NEW c \in Clients, GetItem(c)
  PROVE  IInv'
<1> USE Assumed DEF Assumptions, GetItem, Answered, Respond, batchVars
<1>a. Fields(req[c]) /\ pc[c] = "get"
  BY InProgress
<1>b. Slot(c) \in Ids
  BY <1>a DEF IInv, TypeOK, Good, Control, Ops, Fields, Slot
<1>c. /\ Code("not_found") \in Replies
      /\ [code |-> "found", id |-> Slot(c)] \in Replies
  BY Coded, <1>b DEF Replies
<1>1. TypeOK'
  BY <1>a DEF IInv, TypeOK
<1>2. ReplyOK'
  BY <1>c DEF IInv, ReplyOK
<1>3. ASSUME NEW d \in Clients \ {c} PROVE Good(d)'
  BY Frame DEF IInv, TypeOK, ReplyOK
<1>4. Good(c)'
  <2>1. Control(c)'
    BY <1>a DEF IInv, TypeOK, ReplyOK, Good, Control, Fields, Ops, Sending
  <2>2. Current(c)' /\ Collected(c)' /\ Standing(c)'
    BY <1>a DEF IInv, TypeOK, Good, Current, Collected, Standing
  <2>3. Answer(c)'
    <3>1. Slot(c) \in seen[c][req[c].name] /\ req[c].name \in Sets
      BY <1>a DEF IInv, Good, Control, Current, Fields, Ops, Slot
    <3>2. reply'[c] = IF Slot(c) = NoItem THEN Code("not_found")
                      ELSE [code |-> "found", id |-> Slot(c)]
      BY DEF IInv, ReplyOK
    <3>3. applied'[c] = 0 /\ seen'[c] = seen[c] /\ req'[c] = req[c]
      BY <1>a DEF IInv, Good, Control, Sending
    <3> QED
      BY <3>1, <3>2, <3>3, Coded DEF Answer
  <2> QED
    BY <2>1, <2>2, <2>3 DEF Good
<1> QED
  BY <1>1, <1>2, <1>3, <1>4 DEF IInv

\* Nothing to delete: the request has seen the set without an item.
LEMMA DeleteMissingIInv ==
  ASSUME IInv, NEW c \in Clients, DeleteMissing(c)
  PROVE  IInv'
<1> USE Assumed DEF Assumptions, DeleteMissing, Answered, Respond, batchVars
<1>a. Fields(req[c]) /\ pc[c] = "delete"
  BY InProgress
<1>b. Code("not_found") \in Replies
  BY Coded
<1>1. TypeOK'
  BY <1>a DEF IInv, TypeOK
<1>2. ReplyOK'
  BY <1>b DEF IInv, ReplyOK
<1>3. ASSUME NEW d \in Clients \ {c} PROVE Good(d)'
  BY Frame DEF IInv, TypeOK, ReplyOK
<1>4. Good(c)'
  <2>1. Control(c)'
    BY <1>a DEF IInv, TypeOK, ReplyOK, Good, Control, Fields, Ops, Sending
  <2>2. Current(c)' /\ Collected(c)' /\ Standing(c)'
    BY <1>a DEF IInv, TypeOK, Good, Current, Collected, Standing
  <2>3. Answer(c)'
    BY <1>a DEF IInv, TypeOK, ReplyOK, Good, Control, Current, Answer, Code,
         Ops, Fields, Slot, Sending
  <2> QED
    BY <2>1, <2>2, <2>3 DEF Good
<1> QED
  BY <1>1, <1>2, <1>3, <1>4 DEF IInv

\* The client is idle again.
LEMMA FinishIInv ==
  ASSUME IInv, NEW c \in Clients, Finish(c)
  PROVE  IInv'
<1> USE Assumed DEF Assumptions, Finish
<1>1. TypeOK'
  BY DEF IInv, TypeOK, Empty, Nothing, Ids, NoItem
<1>2. ReplyOK'
  BY DEF IInv, ReplyOK, NoReply, Replies
<1>3. ASSUME NEW d \in Clients \ {c} PROVE Good(d)'
  <2>1. /\ UNCHANGED table /\ pc'[d] = pc[d] /\ req'[d] = req[d]
        /\ item'[d] = item[d] /\ tries'[d] = tries[d] /\ cursor'[d] = cursor[d]
        /\ listed'[d] = listed[d] /\ wanted'[d] = wanted[d]
        /\ retries'[d] = retries[d]
    BY DEF IInv, TypeOK
  <2>2. /\ reply'[d] = reply[d] /\ seen'[d] = seen[d] /\ applied'[d] = applied[d]
        /\ undone'[d] = undone[d] /\ Good(d)
    BY DEF IInv, TypeOK, ReplyOK
  <2> QED
    BY <2>1, <2>2, Frame
<1>4. Good(c)'
  BY DEF IInv, TypeOK, ReplyOK, Good, Control, Current, Collected, Standing,
         Answer, Ops, Sending, NoReply, NoRequest
<1> QED
  BY <1>1, <1>2, <1>3, <1>4 DEF IInv

\* No client depends on what a tenant record says after it was read.
LEMMA DeactivateIInv ==
  ASSUME IInv, NEW t \in Closing, Deactivate(t)
  PROVE  IInv'
<1> USE DEF Deactivate, batchVars
<1>1. TypeOK' /\ ReplyOK'
  BY DEF IInv, TypeOK, ReplyOK
<1>2. ASSUME NEW d \in Clients PROVE Good(d)'
  BY Frame DEF IInv
<1> QED
  BY <1>1, <1>2 DEF IInv

\* What a write changes, for the other clients and in the types.
LEMMA Written ==
  ASSUME IInv, NEW c \in Clients, pc[c] \in Sending, NEW i \in Ids, Write(c, i),
         UNCHANGED <<req, live, item, cursor, listed, batchVars>>,
         \A d \in Clients \ {c} : /\ pc'[d] = pc[d]
                                  /\ tries'[d] = tries[d]
                                  /\ reply'[d] = reply[d]
  PROVE  /\ table' \in [Tenants -> [Sets -> Ids]]
         /\ seen' \in [Clients -> [Sets -> SUBSET Ids]]
         /\ applied' \in [Clients -> 0..MaxTries]
         /\ undone' \in [Clients -> BOOLEAN]
         /\ applied'[c] = applied[c] + 1
         /\ Slot(c)' = i
         /\ applied[c] > 0 => ~undone'[c]
         /\ Current(c)'
         /\ seen'[c][req[c].name] = seen[c][req[c].name] \cup {i}
         /\ \A d \in Clients \ {c} : Good(d)'
<1> USE Assumed DEF Assumptions
<1>a. Fields(req[c]) /\ req[c].name \in Sets /\ req[c].target \in Tenants
  <2>1. pc[c] # "idle" /\ pc[c] \in Ops /\ pc[c] # "batch"
    BY DEF Sending, Ops
  <2>2. req[c].op = pc[c]
    BY <2>1 DEF IInv, Good, Control
  <2> QED
    BY <2>1, <2>2, InProgress DEF Fields
<1> DEFINE t == req[c].target
           n == req[c].name
<1>1. table' \in [Tenants -> [Sets -> Ids]]
  BY <1>a DEF Write, IInv, TypeOK
<1>2. /\ \A u \in Tenants, s \in Sets :
            table'[u][s] = IF u = t /\ s = n THEN i ELSE table[u][s]
      /\ Slot(c)' = i
  BY <1>a DEF Write, IInv, TypeOK, Slot
<1>3. seen' \in [Clients -> [Sets -> SUBSET Ids]]
  BY <1>a DEF Write, IInv, TypeOK
<1>4. \A d \in Clients, s \in Sets : seen[d][s] \subseteq seen'[d][s]
  BY <1>a DEF Write, IInv, TypeOK
<1>5. \A d \in Clients : pc[d] # "idle" /\ req[d].target = t =>
            seen'[d][n] = seen[d][n] \cup {i}
  BY <1>a DEF Write, IInv, TypeOK, Good, Control
<1>6. applied' \in [Clients -> 0..MaxTries] /\ applied'[c] = applied[c] + 1
  <2>1. /\ applied[c] < tries[c]
        /\ tries[c] \in 0..MaxTries /\ applied[c] \in 0..MaxTries
    BY DEF IInv, TypeOK, Good, Control
  <2>2. applied[c] + 1 \in 0..MaxTries
    BY <2>1
  <2>3. /\ applied \in [Clients -> 0..MaxTries]
        /\ applied' = [applied EXCEPT ![c] = @ + 1]
    BY DEF IInv, TypeOK, Write
  <2> QED
    BY <2>2, <2>3
<1>7. undone' \in [Clients -> BOOLEAN]
  BY DEF Write, IInv, TypeOK
<1>8. applied[c] > 0 => ~undone'[c]
  BY DEF Write
<1>9. \A d \in Clients : pc[d] # "idle" =>
            \A s \in Sets : table'[req[d].target][s] \in seen'[d][s]
  <2> SUFFICES ASSUME NEW d \in Clients, pc[d] # "idle", NEW s \in Sets
               PROVE  table'[req[d].target][s] \in seen'[d][s]
    OBVIOUS
  <2>1. req[d].target \in Tenants
    BY InProgress DEF Fields
  <2>2. table[req[d].target][s] \in seen[d][s]
    BY DEF IInv, Good, Current
  <2> QED
    BY <1>2, <1>4, <1>5, <2>1, <2>2
<1>10. ASSUME NEW d \in Clients \ {c} PROVE Good(d)'
  <2>1. /\ pc'[d] = pc[d] /\ tries'[d] = tries[d] /\ reply'[d] = reply[d]
        /\ req'[d] = req[d] /\ item'[d] = item[d] /\ cursor'[d] = cursor[d]
        /\ listed'[d] = listed[d] /\ wanted'[d] = wanted[d]
        /\ retries'[d] = retries[d] /\ applied'[d] = applied[d]
    BY DEF batchVars, Write, IInv, TypeOK
  <2>2. Control(d)'
    BY <2>1 DEF IInv, Good, Control
  <2>3. Current(d)'
    BY <1>9, <2>1 DEF Current
  <2>4. pc[d] # "idle" => Fields(req[d])
    BY InProgress
  <2>5. Collected(d)'
    <3>1. cursor[d] \in 0..NumSets
      BY DEF IInv, TypeOK
    <3>2. 1..cursor[d] \subseteq Sets
      BY <3>1 DEF Sets
    <3>3. pc[d] = "batch" => req[d].names \subseteq Sets
      BY <2>4 DEF Fields, IInv, Good, Control, Ops
    <3>4. Collected(d)
      BY DEF IInv, Good
    <3> QED
      BY <3>2, <3>3, <3>4, <1>4, <2>1 DEF Collected
  <2>6. Standing(d)'
    <3> SUFFICES ASSUME pc[d] \in Sending, applied[d] > 0, ~undone'[d]
                 PROVE  Slot(d)' = Slot(d) /\ ~undone[d]
      BY <2>1 DEF IInv, Good, Standing, Sending
    <3>1. ~(req[d].target = t /\ req[d].name = n) /\ ~undone[d]
      BY DEF Write, IInv, TypeOK
    <3>2. req[d].target \in Tenants /\ req[d].name \in Sets
      BY <2>4 DEF Fields, IInv, Good, Control, Ops, Sending
    <3> QED
      BY <1>2, <2>1, <3>1, <3>2 DEF Slot
  <2>7. Answer(d)'
    <3>1. CASE pc[d] = "idle"
      BY <2>1, <3>1 DEF IInv, Good, Control, Answer, NoReply
    <3>2. CASE pc[d] # "idle"
      <4>1. CASE reply[d].code \in {"listed", "fetched"}
        BY <1>4, <2>1, <4>1 DEF IInv, Good, Answer
      <4>2. CASE reply[d].code \in {"conflict", "not_found", "found"}
        <5>1. req[d].name \in Sets
          BY <4>2 DEF IInv, Good, Answer
        <5>2. seen[d][req[d].name] \subseteq seen'[d][req[d].name]
          BY <5>1, <1>4
        <5> QED
          BY <2>1, <4>2, <5>2 DEF IInv, Good, Answer
      <4>3. CASE reply[d].code \notin {"listed", "fetched", "conflict", "not_found",
                                    "found"}
        BY <2>1, <4>3 DEF IInv, Good, Answer
      <4> QED
        BY <4>1, <4>2, <4>3
    <3> QED
      BY <3>1, <3>2
  <2> QED
    BY <2>2, <2>3, <2>5, <2>6, <2>7 DEF Good
<1>11. Current(c)'
  BY <1>9 DEF Current, Sending
<1> QED
  BY <1>1, <1>2, <1>3, <1>5, <1>6, <1>7, <1>8, <1>10, <1>11 DEF Sending

\* A write whose answer comes, or does not, preserves the invariant.
LEMMA WriteIInv ==
  ASSUME IInv, NEW c \in Clients, pc[c] \in Sending, NEW i \in Ids, Write(c, i),
         UNCHANGED <<active, items, req, live, item, cursor, listed, batchVars>>,
         NEW k \in Replies, k.code \in {"created", "deleted"},
         Answered(c, k) \/ Unanswered(c),
         pc[c] = "create" => i = item[c],
         pc[c] = "delete" => i = NoItem
  PROVE  IInv'
<1> USE Assumed DEF Assumptions
<1>1. /\ PlacesOK'
      /\ tries' \in [Clients -> 0..MaxTries]
      /\ ReplyOK'
      /\ \/ /\ pc'[c] = pc[c] /\ reply'[c] = reply[c] /\ tries'[c] = tries[c] + 1
         \/ /\ pc'[c] = "done" /\ tries'[c] = tries[c]
            /\ reply'[c] \in {k, Code("data_store_error")}
      /\ \A d \in Clients \ {c} : /\ pc'[d] = pc[d]
                                  /\ tries'[d] = tries[d]
                                  /\ reply'[d] = reply[d]
  <2>1. CASE Answered(c, k)
    BY <2>1, Told
  <2>2. CASE Unanswered(c)
    BY <2>2, Untold
  <2> QED
    BY <2>1, <2>2
<1>2. /\ table' \in [Tenants -> [Sets -> Ids]]
      /\ seen' \in [Clients -> [Sets -> SUBSET Ids]]
      /\ applied' \in [Clients -> 0..MaxTries]
      /\ undone' \in [Clients -> BOOLEAN]
      /\ applied'[c] = applied[c] + 1
      /\ Slot(c)' = i
      /\ applied[c] > 0 => ~undone'[c]
      /\ Current(c)'
      /\ \A d \in Clients \ {c} : Good(d)'
  BY <1>1, Written
<1>3. TypeOK'
  BY <1>1, <1>2 DEF IInv, TypeOK, PlacesOK, batchVars
<1>4. /\ applied[c] \in Nat /\ tries[c] \in Nat /\ applied[c] < tries[c]
      /\ reply[c] = NoReply
      /\ retries[c] <= BatchRetryLimit /\ req[c] # NoRequest
      /\ req[c].op = pc[c]
      /\ pc[c] = "create" => item[c] # NoItem
  BY DEF IInv, TypeOK, Good, Control, Sending, Ops
<1>5. Control(c)'
  BY <1>1, <1>2, <1>4 DEF Control, Sending, Ops, batchVars
<1>6. Collected(c)'
  BY <1>1 DEF Collected, Sending
<1>7. Standing(c)'
  BY <1>1, <1>2 DEF Standing
<1>8. Answer(c)'
  <2>1. reply'[c].code \in {"none", "created", "deleted", "data_store_error"}
    BY <1>1, <1>4, Coded DEF NoReply
  <2>2. applied'[c] >= 1
    BY <1>2, <1>4
  <2> QED
    BY <2>1, <2>2 DEF Answer
<1> QED
  BY <1>1, <1>2, <1>3, <1>5, <1>6, <1>7, <1>8 DEF IInv, Good

\* The write of a create.
LEMMA PutItemIInv ==
  ASSUME IInv, NEW c \in Clients, PutItem(c)
  PROVE  IInv'
<1>1. pc[c] \in Sending /\ pc[c] = "create"
  BY DEF PutItem, Sending
<1>2. item[c] \in Ids
  BY DEF IInv, TypeOK
<1>3. [code |-> "created", id |-> item[c]] \in Replies
  BY <1>2 DEF Replies
<1> QED
  BY <1>1, <1>2, <1>3, WriteIInv DEF PutItem

\* The write of a delete.
LEMMA DeleteItemIInv ==
  ASSUME IInv, NEW c \in Clients, DeleteItem(c)
  PROVE  IInv'
<1>1. pc[c] \in Sending /\ pc[c] = "delete"
  BY DEF DeleteItem, Sending
<1>2. NoItem \in Ids
  BY Assumed DEF Assumptions, Ids, NoItem
<1>3. Code("deleted") \in Replies /\ Code("deleted").code = "deleted"
  BY Coded
<1> QED
  BY <1>1, <1>2, <1>3, WriteIInv DEF DeleteItem

\* A page of a list: all the sets up to its end hold what has been seen.
LEMMA QueryPageIInv ==
  ASSUME IInv, NEW c \in Clients, QueryPage(c)
  PROVE  IInv'
<1> USE Assumed DEF Assumptions
<1>a. /\ Fields(req[c]) /\ pc[c] = "list"
      /\ cursor[c] \in Nat /\ cursor[c] < NumSets
      /\ applied[c] = 0 /\ reply[c] = NoReply
      /\ req[c].op = pc[c]
      /\ retries[c] <= BatchRetryLimit /\ req[c] # NoRequest
  <2>1. pc[c] = "list"
    BY DEF QueryPage
  <2>2. Fields(req[c])
    BY <2>1, InProgress
  <2>3. cursor[c] \in Nat
    BY DEF IInv, TypeOK
  <2> QED
    BY <2>1, <2>2, <2>3 DEF IInv, Good, Control, Ops, Sending
<1>0. PICK last \in (cursor[c] + 1)..NumSets :
        LET page == Collect(c, (cursor[c] + 1)..last)
        IN  /\ listed' = [listed EXCEPT ![c] = page]
            /\ \/ /\ last < NumSets
                  /\ cursor' = [cursor EXCEPT ![c] = last]
                  /\ tries' = [tries EXCEPT ![c] = 1]
                  /\ UNCHANGED <<pc, reply>>
               \/ /\ last = NumSets
                  /\ Answered(c, [code |-> "listed", ids |-> page])
                  /\ UNCHANGED cursor
  BY DEF QueryPage
<1> DEFINE page == Collect(c, (cursor[c] + 1)..last)
<1>1. /\ page \in [Sets -> Ids]
      /\ \A s \in 1..last : s \in Sets /\ page[s] \in seen[c][s]
  <2>1. page \in [Sets -> Ids]
    BY <1>a DEF Collect, IInv, TypeOK, Fields
  <2>2. ASSUME NEW s \in 1..last
        PROVE  s \in Sets /\ page[s] \in seen[c][s]
    <3>1. s \in Sets /\ (s \in 1..cursor[c] \/ s \in (cursor[c] + 1)..last)
      BY <1>a DEF Sets
    <3>2. page[s] = IF s \in (cursor[c] + 1)..last THEN table[req[c].target][s]
                    ELSE listed[c][s]
      BY <3>1 DEF Collect
    <3> QED
      BY <1>a, <3>1, <3>2 DEF IInv, Good, Current, Collected
  <2> QED
    BY <2>1, <2>2
<1>2. UNCHANGED <<table, active, items, req, live, item, seen, applied, undone,
                  wanted, retries>>
  BY DEF QueryPage, batchVars
<1>3. /\ listed' = [listed EXCEPT ![c] = page]
      /\ listed' \in [Clients -> [Sets -> Ids]] /\ listed'[c] = page
  BY <1>0, <1>1 DEF IInv, TypeOK
<1>4. CASE /\ last < NumSets
           /\ cursor' = [cursor EXCEPT ![c] = last]
           /\ tries' = [tries EXCEPT ![c] = 1]
           /\ UNCHANGED <<pc, reply>>
  <2>1. 1 \in 0..MaxTries /\ last \in 0..NumSets
    BY <1>a
  <2>2. tries' \in [Clients -> 0..MaxTries] /\ tries'[c] = 1
    BY <1>4, <2>1 DEF IInv, TypeOK
  <2>3. cursor' \in [Clients -> 0..NumSets] /\ cursor'[c] = last
    BY <1>4, <2>1 DEF IInv, TypeOK
  <2>4. TypeOK' /\ ReplyOK'
    BY <1>2, <1>3, <1>4, <2>2, <2>3 DEF IInv, TypeOK, ReplyOK
  <2>5. ASSUME NEW d \in Clients \ {c} PROVE Good(d)'
    BY <1>2, <1>3, <1>4, Frame DEF IInv, TypeOK
  <2>6. Control(c)'
    BY <1>a, <1>2, <1>4, <2>2, <2>3 DEF Control, Ops, Sending
  <2>7. Current(c)'
    BY <1>a, <1>2, <1>4 DEF IInv, Good, Current
  <2>8. Collected(c)' /\ Standing(c)'
    BY <1>a, <1>1, <1>2, <1>3, <1>4, <2>3 DEF Collected, Standing
  <2>9. Answer(c)'
    BY <1>a, <1>4 DEF Answer, NoReply
  <2> QED
    BY <2>4, <2>5, <2>6, <2>7, <2>8, <2>9 DEF IInv, Good
<1>5. CASE /\ last = NumSets
           /\ Answered(c, [code |-> "listed", ids |-> page])
           /\ UNCHANGED cursor
  <2>0. [code |-> "listed", ids |-> page] \in Replies
    BY <1>1 DEF Replies
  <2>1. /\ PlacesOK'
        /\ tries' \in [Clients -> 0..MaxTries]
        /\ ReplyOK'
        /\ pc'[c] = "done" /\ reply'[c] = [code |-> "listed", ids |-> page]
        /\ \A d \in Clients \ {c} : /\ pc'[d] = pc[d]
                                    /\ tries'[d] = tries[d]
                                    /\ reply'[d] = reply[d]
    BY <1>5, <2>0, Told
  <2>2. TypeOK'
    BY <1>2, <1>3, <1>5, <2>1 DEF IInv, TypeOK, PlacesOK
  <2>3. ASSUME NEW d \in Clients \ {c} PROVE Good(d)'
    BY <1>2, <1>3, <1>5, <2>1, Frame DEF IInv, TypeOK
  <2>4. Control(c)'
    BY <1>a, <1>2, <2>1 DEF Control, Ops, Sending
  <2>5. Current(c)'
    BY <1>a, <1>2, <2>1 DEF IInv, Good, Current
  <2>6. Collected(c)' /\ Standing(c)'
    BY <2>1 DEF Collected, Standing
  <2>7. Answer(c)'
    BY <1>1, <1>2, <1>5, <2>1 DEF Answer, Sets
  <2> QED
    BY <2>1, <2>2, <2>3, <2>4, <2>5, <2>6, <2>7 DEF IInv, Good
<1> QED
  BY <1>0, <1>4, <1>5

\* A round of a batch: so do all the sets that are not wanted any more.
LEMMA BatchGetItemIInv ==
  ASSUME IInv, NEW c \in Clients, BatchGetItem(c)
  PROVE  IInv'
<1> USE Assumed DEF Assumptions
<1>a. /\ Fields(req[c]) /\ pc[c] = "batch"
      /\ applied[c] = 0 /\ reply[c] = NoReply /\ tries[c] >= 1
      /\ req[c].op = pc[c]
      /\ retries[c] \in Nat /\ retries[c] <= BatchRetryLimit /\ req[c] # NoRequest
  <2>1. pc[c] = "batch"
    BY DEF BatchGetItem
  <2>2. Fields(req[c])
    BY <2>1, InProgress
  <2>3. retries[c] \in Nat
    BY DEF IInv, TypeOK
  <2> QED
    BY <2>1, <2>2, <2>3 DEF IInv, Good, Control, Ops, Sending
<1>0. PICK read \in SUBSET wanted[c] :
        /\ listed' = [listed EXCEPT ![c] = Collect(c, read)]
        /\ wanted' = [wanted EXCEPT ![c] = @ \ read]
        /\ \/ /\ read = wanted[c]
              /\ Answered(c, [code |-> "fetched", ids |-> listed'[c]])
              /\ UNCHANGED retries
           \/ /\ read # wanted[c]
              /\ retries' = [retries EXCEPT ![c] = @ + 1]
              /\ IF retries[c] < BatchRetryLimit
                 THEN tries' = [tries EXCEPT ![c] = 1] /\ UNCHANGED <<pc, reply>>
                 ELSE Answered(c, Code("data_store_error"))
  BY DEF BatchGetItem
<1> DEFINE page == Collect(c, read)
<1>1. page \in [Sets -> Ids] /\ req[c].names \subseteq Sets
  BY <1>a DEF Collect, IInv, TypeOK, Fields
<1>2. UNCHANGED <<table, active, items, req, live, item, cursor, seen, applied,
                  undone>>
  BY DEF BatchGetItem
<1>3. /\ listed' = [listed EXCEPT ![c] = page]
      /\ listed' \in [Clients -> [Sets -> Ids]] /\ listed'[c] = page
      /\ wanted' = [wanted EXCEPT ![c] = @ \ read]
      /\ wanted' \in [Clients -> SUBSET Sets] /\ wanted'[c] = wanted[c] \ read
  BY <1>0, <1>1 DEF IInv, TypeOK
<1>4. \A s \in req[c].names \ (wanted[c] \ read) : page[s] \in seen[c][s]
  <2> SUFFICES ASSUME NEW s \in req[c].names \ (wanted[c] \ read)
               PROVE  page[s] \in seen[c][s]
    OBVIOUS
  <2>1. s \in Sets /\ (s \in read \/ s \in req[c].names \ wanted[c])
    BY <1>1
  <2>2. page[s] = IF s \in read THEN table[req[c].target][s] ELSE listed[c][s]
    BY <2>1 DEF Collect
  <2> QED
    BY <1>a, <2>1, <2>2 DEF IInv, Good, Current, Collected
<1>5. ASSUME PlacesOK',
             tries' \in [Clients -> 0..MaxTries],
             retries' \in [Clients -> 0..(BatchRetryLimit + 1)],
             ReplyOK',
             \A d \in Clients \ {c} : /\ pc'[d] = pc[d]
                                      /\ tries'[d] = tries[d]
                                      /\ reply'[d] = reply[d]
                                      /\ retries'[d] = retries[d],
             \/ /\ pc'[c] = "done"
                /\ \/ /\ reply'[c] = [code |-> "fetched", ids |-> page]
                      /\ read = wanted[c]
                   \/ reply'[c] = Code("data_store_error")
             \/ /\ pc'[c] = pc[c] /\ reply'[c] = reply[c] /\ tries'[c] = 1
                /\ retries'[c] <= BatchRetryLimit
      PROVE  IInv'
  <2>1. TypeOK'
    BY <1>2, <1>3, <1>5 DEF IInv, TypeOK, PlacesOK
  <2>2. ASSUME NEW d \in Clients \ {c} PROVE Good(d)'
    BY <1>2, <1>3, <1>5, Frame DEF IInv, TypeOK
  <2>3. Control(c)'
    BY <1>a, <1>2, <1>5 DEF Control, Ops, Sending
  <2>4. Current(c)'
    BY <1>a, <1>2, <1>5 DEF IInv, Good, Current
  <2>5. Collected(c)' /\ Standing(c)'
    BY <1>a, <1>2, <1>3, <1>4, <1>5 DEF Collected, Standing
  <2>6. Answer(c)'
    <3>1. CASE reply'[c] = [code |-> "fetched", ids |-> page] /\ read = wanted[c]
      BY <1>1, <1>2, <1>4, <3>1 DEF Answer
    <3>2. CASE reply'[c].code \in {"none", "data_store_error"}
      BY <3>2 DEF Answer
    <3> QED
      BY <1>a, <1>5, <3>1, <3>2, Coded DEF NoReply
  <2> QED
    BY <1>5, <2>1, <2>2, <2>3, <2>4, <2>5, <2>6 DEF IInv, Good
<1>6. CASE /\ read = wanted[c]
           /\ Answered(c, [code |-> "fetched", ids |-> listed'[c]])
           /\ UNCHANGED retries
  <2>1. [code |-> "fetched", ids |-> page] \in Replies
    BY <1>1 DEF Replies
  <2> HIDE DEF page
  <2> QED
    BY <1>3, <1>5, <1>6, <2>1, Told DEF IInv, TypeOK
<1>7. CASE /\ retries' = [retries EXCEPT ![c] = @ + 1]
           /\ IF retries[c] < BatchRetryLimit
              THEN tries' = [tries EXCEPT ![c] = 1] /\ UNCHANGED <<pc, reply>>
              ELSE Answered(c, Code("data_store_error"))
  <2>1. retries[c] + 1 \in 0..(BatchRetryLimit + 1) /\ 1 \in 0..MaxTries
    BY <1>a
  <2>2. /\ retries' \in [Clients -> 0..(BatchRetryLimit + 1)]
        /\ retries'[c] = retries[c] + 1
    BY <1>7, <2>1 DEF IInv, TypeOK
  <2>3. CASE retries[c] < BatchRetryLimit
    <3>1. /\ tries' \in [Clients -> 0..MaxTries] /\ tries'[c] = 1
          /\ UNCHANGED <<pc, reply>>
      BY <1>7, <2>1, <2>3 DEF IInv, TypeOK
    <3>2. retries'[c] <= BatchRetryLimit
      BY <1>a, <2>2, <2>3
    <3> HIDE DEF page
    <3> QED
      BY <1>5, <1>7, <2>2, <2>3, <3>1, <3>2
      DEF IInv, TypeOK, PlacesOK, ReplyOK
  <2>4. CASE ~(retries[c] < BatchRetryLimit)
    <3>1. Code("data_store_error") \in Replies
      BY Coded
    <3>2. Answered(c, Code("data_store_error"))
      BY <1>7, <2>4
    <3> HIDE DEF page
    <3> QED
      BY <1>5, <1>7, <2>2, <3>1, <3>2, Told DEF IInv, TypeOK
  <2> QED
    BY <2>3, <2>4
<1> QED
  BY <1>0, <1>6, <1>7

-----------------------------------------------------------------------------
\* Every step preserves the invariant.
LEMMA NextIInv == IInv /\ [Next]_vars => IInv'
<1> SUFFICES ASSUME IInv, [Next]_vars PROVE IInv'
  OBVIOUS
<1>1. CASE UNCHANGED vars
  <2>1. TypeOK' /\ ReplyOK'
    BY <1>1 DEF vars, batchVars, IInv, TypeOK, ReplyOK
  <2>2. ASSUME NEW d \in Clients PROVE Good(d)'
    BY <1>1, Frame DEF vars, batchVars, IInv
  <2> QED
    BY <2>1, <2>2 DEF IInv
<1>2. ASSUME NEW c \in Clients,
             \/ Arrive(c) \/ Authenticate(c) \/ Authorize(c) \/ SendLost(c)
             \/ PutItem(c) \/ PutConflict(c) \/ GetItem(c) \/ DeleteItem(c)
             \/ DeleteMissing(c) \/ QueryPage(c) \/ BatchGetItem(c)
             \/ Finish(c)
      PROVE  IInv'
  BY <1>2, ArriveIInv, AuthenticateIInv, AuthorizeIInv, SendLostIInv, PutItemIInv,
     PutConflictIInv, GetItemIInv, DeleteItemIInv, DeleteMissingIInv,
     QueryPageIInv, BatchGetItemIInv, FinishIInv
<1>3. ASSUME NEW t \in Closing, Deactivate(t) PROVE IInv'
  BY <1>3, DeactivateIInv
<1> QED
  BY <1>1, <1>2, <1>3 DEF Next

\* The invariant holds of every behaviour.
LEMMA Invariant == Spec => []IInv
  BY InitIInv, NextIInv, PTL DEF Spec

-----------------------------------------------------------------------------
\* What a request has been let through, or told, it was entitled to.
Own(c) ==
    /\ pc[c] = "authorize" => Entitled(c, req[c].auth)
    /\ pc[c] \in Ops => Entitled(c, req[c].target)
    /\ reply[c].code \notin Refusals => Entitled(c, req[c].target)

\* A record that is active when it is read was active while the request was there.
Alive(c) == pc[c] = "authenticate" /\ Active(req[c].auth) => live[c]

Ownership == \A c \in Clients : Own(c) /\ Alive(c)

\* A client that does nothing keeps what it was entitled to, since a record never
\* becomes active again.
LEMMA OwnFrame ==
  ASSUME NEW d, Own(d), Alive(d),
         pc'[d] = pc[d], req'[d] = req[d], reply'[d] = reply[d],
         live'[d] = live[d], \A t : Active(t)' => Active(t)
  PROVE  Own(d)' /\ Alive(d)'
  BY DEF Own, Alive, Entitled

\* A client that goes on or is answered has been let through.
LEMMA OwnGoesOn ==
  ASSUME NEW d, Own(d), pc[d] \in Ops, pc'[d] \in {pc[d], "done"},
         req'[d] = req[d], live'[d] = live[d]
  PROVE  Own(d)' /\ Alive(d)'
<1>1. Entitled(d, req[d].target) /\ pc'[d] \notin {"authorize", "authenticate"}
  BY DEF Own, Ops
<1>2. Entitled(d, req[d].target)'
  BY <1>1 DEF Entitled
<1> QED
  BY <1>1, <1>2 DEF Own, Alive

\* A reply that is none, or a refusal, tells nothing.
LEMMA OwnToldNothing ==
  ASSUME NEW d, pc'[d] \notin Ops \cup {"authenticate", "authorize"},
         NEW k \in {"none", "unauthorized", "data_store_error",
                    "internal_server_error", "forbidden"},
         reply'[d] = Code(k)
  PROVE  Own(d)' /\ Alive(d)'
  BY DEF Own, Alive, Code, Refusals

\* Every step keeps the ownership.
LEMMA NextOwn == IInv /\ Ownership /\ [Next]_vars => Ownership'
<1> SUFFICES ASSUME IInv, Ownership, [Next]_vars PROVE Ownership'
  OBVIOUS
<1>0. /\ pc \in [Clients -> Ops \cup {"idle", "authenticate", "authorize", "done"}]
      /\ reply \in [Clients -> Replies]
      /\ req \in [Clients -> Request \cup BatchRequest \cup {NoRequest}]
      /\ live \in [Clients -> BOOLEAN]
  BY DEF IInv, TypeOK, ReplyOK
<1>a. ASSUME UNCHANGED active PROVE \A t : Active(t)' => Active(t)
  BY <1>a DEF Active
<1>1. CASE UNCHANGED vars
  BY <1>1, <1>a, OwnFrame DEF vars, Ownership
<1>2. ASSUME NEW c \in Clients, Arrive(c) PROVE Ownership'
  <2>1. PICK r \in Request \cup BatchRequest :
            /\ req' = [req EXCEPT ![c] = r]
            /\ live' = [live EXCEPT ![c] = Active(r.auth)]
    BY <1>2 DEF Arrive
  <2>2. /\ UNCHANGED <<active, reply>> /\ pc[c] = "idle"
        /\ pc' = [pc EXCEPT ![c] = "authenticate"]
    BY <1>2 DEF Arrive
  <2>3. reply'[c] = NoReply
    BY <2>2 DEF IInv, Good, Control
  <2>4. Own(c)' /\ Alive(c)'
    <3>1. Active(r.auth)' <=> Active(r.auth)
      BY <2>2 DEF Active
    <3>2. req'[c] = r /\ live'[c] = Active(r.auth) /\ pc'[c] = "authenticate"
      BY <1>0, <2>1, <2>2
    <3>3. Alive(c)'
      BY <3>1, <3>2 DEF Alive, Active
    <3>4. Own(c)'
      BY <2>3, <3>2 DEF Own, NoReply, Refusals, Ops
    <3> QED
      BY <3>3, <3>4
  <2>5. ASSUME NEW d \in Clients \ {c} PROVE Own(d)' /\ Alive(d)'
    BY <1>0, <1>a, <2>1, <2>2, OwnFrame DEF Ownership
  <2> QED
    BY <2>4, <2>5 DEF Ownership
<1>3. ASSUME NEW c \in Clients, Authenticate(c) PROVE Ownership'
  <2>1. UNCHANGED <<active, req, live>> /\ pc[c] = "authenticate"
    BY <1>3 DEF Authenticate
  <2>2. \/ /\ Active(req[c].auth) /\ req[c].key = ApiKey[req[c].auth]
           /\ pc' = [pc EXCEPT ![c] = "authorize"]
           /\ UNCHANGED reply
        \/ \E k \in {"unauthorized", "data_store_error", "internal_server_error"} :
                Respond(c, Code(k))
    BY <1>3 DEF Authenticate
  <2>3. Own(c)' /\ Alive(c)'
    <3>1. CASE /\ Active(req[c].auth) /\ req[c].key = ApiKey[req[c].auth]
               /\ pc' = [pc EXCEPT ![c] = "authorize"]
               /\ UNCHANGED reply
      <4>1. live[c] /\ req[c].auth \in Registered
        BY <2>1, <3>1 DEF Ownership, Alive, Active
      <4>2. Entitled(c, req[c].auth)'
        BY <2>1, <3>1, <4>1 DEF Entitled
      <4>3. pc'[c] = "authorize" /\ reply'[c] = NoReply
        BY <1>0, <2>1, <3>1 DEF IInv, Good, Control
      <4> QED
        BY <2>1, <4>2, <4>3 DEF Own, Alive, Ops, NoReply, Refusals
    <3>2. ASSUME NEW k \in {"unauthorized", "data_store_error",
                            "internal_server_error"},
                 Respond(c, Code(k))
          PROVE  Own(c)' /\ Alive(c)'
      <4>1. pc'[c] = "done" /\ reply'[c] = Code(k)
        BY <1>0, <3>2 DEF Respond
      <4> QED
        BY <4>1, OwnToldNothing DEF Ops
    <3> QED
      BY <2>2, <3>1, <3>2
  <2>4. ASSUME NEW d \in Clients \ {c} PROVE Own(d)' /\ Alive(d)'
    <3>1. pc'[d] = pc[d] /\ reply'[d] = reply[d]
      BY <1>0, <2>2 DEF Respond
    <3> QED
      BY <1>a, <2>1, <3>1, OwnFrame DEF Ownership
  <2> QED
    BY <2>3, <2>4 DEF Ownership
<1>4. ASSUME NEW c \in Clients, Authorize(c) PROVE Ownership'
  <2>1. UNCHANGED <<active, req, live>> /\ pc[c] = "authorize"
    BY <1>4 DEF Authorize
  <2>2. \/ /\ req[c].auth = req[c].target
           /\ pc' = [pc EXCEPT ![c] = req[c].op]
           /\ UNCHANGED reply
        \/ Respond(c, Code("forbidden"))
    BY <1>4 DEF Authorize
  <2>3. Own(c)' /\ Alive(c)'
    <3>1. CASE /\ req[c].auth = req[c].target
               /\ pc' = [pc EXCEPT ![c] = req[c].op]
               /\ UNCHANGED reply
      <4>1. Entitled(c, req[c].target)'
        BY <2>1, <3>1 DEF Ownership, Own, Entitled
      <4>2. pc'[c] = req[c].op /\ req[c].op \in Ops
        BY <1>0, <2>1, <3>1, InProgress DEF Fields
      <4> QED
        BY <4>1, <4>2 DEF Own, Alive, Ops
    <3>2. CASE Respond(c, Code("forbidden"))
      <4>1. pc'[c] = "done" /\ reply'[c] = Code("forbidden")
        BY <1>0, <3>2 DEF Respond
      <4> QED
        BY <4>1, OwnToldNothing DEF Ops
    <3> QED
      BY <2>2, <3>1, <3>2
  <2>4. ASSUME NEW d \in Clients \ {c} PROVE Own(d)' /\ Alive(d)'
    <3>1. pc'[d] = pc[d] /\ reply'[d] = reply[d]
      BY <1>0, <2>2 DEF Respond
    <3> QED
      BY <1>a, <2>1, <3>1, OwnFrame DEF Ownership
  <2> QED
    BY <2>3, <2>4 DEF Ownership
<1>5. ASSUME NEW c \in Clients,
             \/ SendLost(c) \/ PutItem(c) \/ PutConflict(c) \/ GetItem(c)
             \/ DeleteItem(c) \/ DeleteMissing(c) \/ QueryPage(c)
             \/ BatchGetItem(c)
      PROVE  Ownership'
  <2>1. pc[c] \in Ops /\ UNCHANGED <<active, req, live>>
    BY <1>5 DEF SendLost, PutItem, PutConflict, GetItem, DeleteItem,
         DeleteMissing, QueryPage, BatchGetItem, Ops
  <2>2. \/ UNCHANGED <<pc, reply>>
        \/ \E r : Respond(c, r)
    BY <1>5 DEF SendLost, PutItem, PutConflict, GetItem, DeleteItem,
         DeleteMissing, QueryPage, BatchGetItem, Answered, Unanswered
  <2>3. Own(c)' /\ Alive(c)'
    <3>1. pc'[c] \in {pc[c], "done"}
      BY <1>0, <2>2 DEF Respond
    <3> QED
      BY <2>1, <3>1, OwnGoesOn DEF Ownership
  <2>4. ASSUME NEW d \in Clients \ {c} PROVE Own(d)' /\ Alive(d)'
    <3>1. pc'[d] = pc[d] /\ reply'[d] = reply[d]
      BY <1>0, <2>2 DEF Respond
    <3> QED
      BY <1>a, <2>1, <3>1, OwnFrame DEF Ownership
  <2> QED
    BY <2>3, <2>4 DEF Ownership
<1>6. ASSUME NEW c \in Clients, Finish(c) PROVE Ownership'
  <2>1. /\ UNCHANGED active /\ pc'[c] = "idle" /\ reply'[c] = Code("none")
        /\ \A d \in Clients \ {c} : /\ pc'[d] = pc[d] /\ req'[d] = req[d]
                                    /\ reply'[d] = reply[d] /\ live'[d] = live[d]
    BY <1>0, <1>6 DEF Finish, NoReply, Code
  <2>2. Own(c)' /\ Alive(c)'
    BY <2>1, OwnToldNothing DEF Ops
  <2>3. ASSUME NEW d \in Clients \ {c} PROVE Own(d)' /\ Alive(d)'
    BY <1>a, <2>1, OwnFrame DEF Ownership
  <2> QED
    BY <2>2, <2>3 DEF Ownership
<1>7. ASSUME NEW t \in Closing, Deactivate(t) PROVE Ownership'
  <2>1. UNCHANGED <<pc, req, reply, live>>
    BY <1>7 DEF Deactivate
  <2>2. \A u : Active(u)' => Active(u)
    BY <1>7 DEF Deactivate, Active, IInv, TypeOK
  <2> QED
    BY <2>1, <2>2, OwnFrame DEF Ownership
<1> QED
  BY <1>1, <1>2, <1>3, <1>4, <1>5, <1>6, <1>7 DEF Next

\* At first nobody is entitled to anything, and nobody asks.
LEMMA InitOwn == Init => Ownership
<1> SUFFICES ASSUME Init, NEW c \in Clients PROVE Own(c) /\ Alive(c)
  BY DEF Ownership
<1>1. pc[c] = "idle" /\ reply[c] = NoReply
  BY DEF Init
<1> QED
  BY <1>1 DEF Own, Alive, Ops, NoReply, Refusals

LEMMA OwnershipHolds == Spec => []Ownership
  BY InitOwn, NextOwn, Invariant, PTL DEF Spec

-----------------------------------------------------------------------------
\* Every variable keeps its type: a write is executed at most once per send, and
\* a batch goes on for at most _BATCH_RETRY_LIMIT rounds (dynamo_service.py:289).
THEOREM TypeCorrect == Spec => []TypeOK
<1>1. IInv => TypeOK
  BY DEF IInv
<1> QED
  BY <1>1, Invariant, PTL

\* A list read in pages while others write shows each set as it was at some
\* time since the request came (dynamo_service.py:185-198).
THEOREM PagedListsAreTrue == Spec => []ListBetweenStates
<1>1. IInv => ListBetweenStates
  BY DEF IInv, Good, Answer, ListBetweenStates
<1> QED
  BY <1>1, Invariant, PTL

\* So does a batch that leaves sets unprocessed and asks for them again
\* (dynamo_service.py:284-294).
THEOREM BatchesAreTrue == Spec => []BatchBetweenStates
<1>1. IInv => BatchBetweenStates
  BY DEF IInv, Good, Answer, BatchBetweenStates
<1> QED
  BY <1>1, Invariant, PTL

\* A conflict or a missing item was true at some time of the request, also
\* when botocore sent it again (dynamo_service.py:125, 164 and 228).
THEOREM RefusalsAreTrue == Spec => []RefusalJustified
<1>1. IInv => RefusalJustified
  BY DEF IInv, Good, Answer, RefusalJustified
<1> QED
  BY <1>1, Invariant, PTL

\* A write reported as done was executed, and one refused after a single send
\* was not (dynamo_service.py:125 and 228).
THEOREM AnswersTellEffects == Spec => []AnswerTellsEffect
<1>1. IInv => AnswerTellsEffect
  BY DEF IInv, Good, Answer, AnswerTellsEffect
<1> QED
  BY <1>1, Invariant, PTL

\* A tenant's sets change only by a request that names this tenant, brings the
\* key of its record and found the record active, whoever else asks at the time
\* (tenant_auth.py:37-52, feature_service.py:196).
THEOREM OwnersWrite == Spec => OnlyOwnerWrites
<1>1. IInv /\ Ownership /\ [Next]_vars =>
        [\A t \in Tenants : table'[t] # table[t] =>
            \E c \in Clients : applied'[c] > applied[c] /\ Entitled(c, t)]_vars
  <2> SUFFICES ASSUME IInv, Ownership, Next, NEW t \in Tenants, table'[t] # table[t]
               PROVE  \E c \in Clients : applied'[c] > applied[c] /\ Entitled(c, t)
    BY DEF vars
  <2>1. PICK c \in Clients : PutItem(c) \/ DeleteItem(c)
    BY DEF Next, Arrive, Authenticate, Authorize, SendLost, PutConflict, GetItem,
           DeleteMissing, QueryPage, BatchGetItem, Finish, Deactivate
  <2>2. /\ pc[c] \in Ops
        /\ \E i : table' = [table EXCEPT ![req[c].target][req[c].name] = i]
        /\ applied' = [applied EXCEPT ![c] = @ + 1]
    BY <2>1 DEF PutItem, DeleteItem, Write, Ops
  <2>3. Entitled(c, req[c].target)
    BY <2>2 DEF Ownership, Own
  <2>4. req[c].target = t
    BY <2>2 DEF IInv, TypeOK
  <2>5. applied'[c] > applied[c]
    <3>1. applied \in [Clients -> 0..MaxTries] /\ applied[c] \in Nat
      BY Assumed DEF Assumptions, IInv, TypeOK
    <3> QED
      BY <2>2, <3>1
  <2> QED
    BY <2>3, <2>4, <2>5
<1> QED
  BY <1>1, Invariant, OwnershipHolds, PTL DEF Spec, OnlyOwnerWrites

\* What a tenant's sets hold is told only to a request that names this tenant,
\* brings its key and found its record active, and an item that is read was the
\* tenant's own at some time of the request (feature_service.py:196).
THEOREM OwnersAreAnswered == Spec => []OnlyOwnerAnswered
<1>1. IInv /\ Ownership => OnlyOwnerAnswered
  BY DEF IInv, Good, Answer, Ownership, Own, OnlyOwnerAnswered
<1> QED
  BY <1>1, Invariant, OwnershipHolds, PTL

\* A write sent again is executed again only if another request has undone it
\* (dynamo_service.py:120 and 223).
THEOREM RepeatsFollowUndoing == Spec => RepeatedOnlyIfUndone
<1>1. IInv /\ [Next]_vars =>
        [\A c \in Clients :
            applied'[c] > applied[c] /\ applied[c] > 0 => undone[c]]_vars
  <2> SUFFICES ASSUME IInv, Next, NEW c \in Clients,
                      applied'[c] > applied[c], applied[c] > 0
               PROVE  undone[c]
    BY DEF vars
  <2>1. applied \in [Clients -> 0..MaxTries] /\ applied[c] \in Nat
    BY Assumed DEF Assumptions, IInv, TypeOK
  <2>2. PICK d \in Clients : PutItem(d) \/ DeleteItem(d)
    <3>1. ~UNCHANGED applied
      BY <2>1
    <3>2. ASSUME NEW d \in Clients PROVE ~Finish(d)
      BY <2>1 DEF Finish
    <3> QED
      BY <3>1, <3>2 DEF Next, Arrive, Authenticate, Authorize, SendLost,
         PutConflict, GetItem, DeleteMissing, QueryPage, BatchGetItem, Deactivate
  <2>3. d = c
    BY <2>1, <2>2 DEF PutItem, DeleteItem, Write, IInv, TypeOK
  <2>4. CASE PutItem(c)
    BY <2>4 DEF PutItem, IInv, TypeOK, Good, Control, Standing
  <2>5. CASE DeleteItem(c)
    BY <2>5 DEF DeleteItem, IInv, TypeOK, Good, Control, Standing
  <2> QED
    BY <2>2, <2>3, <2>4, <2>5
<1> QED
  BY <1>1, Invariant, PTL DEF Spec, RepeatedOnlyIfUndone
=============================================================================
