---------------------------- MODULE FeatureStore ----------------------------
(***************************************************************************)
(* The feature-set API of the host: get_current_tenant, FeatureService and *)
(* DynamoDBService over one DynamoDB table, under concurrent requests.     *)
(* DynamoDB executes each request atomically, but botocore resends one     *)
(* whose answer it did not get, so a write may be executed and still be    *)
(* sent again.  Values are not modelled: an item is told from the others   *)
(* by a number.                                                            *)
(***************************************************************************)
EXTENDS Naturals, FiniteSets

CONSTANTS
    Clients,      \* requests in progress at one time
    Tenants,      \* tenant ids that a request may name
    Registered,   \* those that have a tenant record
    Closing,      \* bound: the tenants that an operator may deactivate
    Keys,
    ApiKey,       \* api_key of each tenant record
    NonAscii,     \* the keys that compare_digest cannot compare
    Missing,      \* a header that is absent or blank
    Credentials,  \* bound: the header pairs that requests come with
    NumSets,      \* feature-set names, in the order of their sort keys
    MaxTries,     \* times botocore sends one request
    BatchRetryLimit,  \* _BATCH_RETRY_LIMIT
    Batches,      \* the sets of names that a batch may ask for (for none,
                  \* it returns without a read)
    MaxItems      \* bound: items created

ASSUME RegisteredAssumption == Registered \subseteq Tenants
ASSUME ClosingAssumption == Closing \subseteq Registered
ASSUME ApiKeyAssumption == ApiKey \in [Registered -> Keys]
ASSUME MissingAssumption == Missing \notin Tenants \cup Keys
ASSUME CredentialsAssumption ==
    Credentials \subseteq (Tenants \cup {Missing}) \X (Keys \cup {Missing})
ASSUME NumSetsAssumption == NumSets \in Nat \ {0}
ASSUME MaxTriesAssumption == MaxTries \in Nat \ {0}
ASSUME BatchRetryLimitAssumption == BatchRetryLimit \in Nat
ASSUME BatchesAssumption == Batches \subseteq SUBSET (1..NumSets) \ {{}}
ASSUME MaxItemsAssumption == MaxItems \in Nat

VARIABLES
    table,        \* the feature sets of each tenant
    active,       \* is_active of each tenant record
    items,        \* number of items created
    pc, req,
    item,         \* the item that the client's create puts
    tries,        \* sends of the current DynamoDB request
    cursor,       \* exclusive_start_key: the last set a list has read
    listed,       \* items the list or the batch has collected
    wanted,       \* request_items: sets the batch has still to read
    retries,      \* rounds of the batch that left sets unread
    reply,
    live,         \* history: whether the record of the tenant that the client's
                  \* request names was active at some time since it came
    seen,         \* history: what each set of the target tenant held at some
                  \* time since the client's request came
    applied,      \* history: times the client's write was executed
    undone        \* history: whether another client's write came after it

batchVars == <<wanted, retries>>
vars == <<table, active, items, pc, req, item, tries, cursor, listed, reply,
          live, seen, applied, undone, batchVars>>

Sets == 1..NumSets
NoItem == 0
Ids == NoItem..MaxItems
Ops == {"create", "get", "list", "delete", "batch"}
Request ==
    [op : Ops \ {"batch"}, auth : Tenants \cup {Missing},
     key : Keys \cup {Missing}, target : Tenants, name : Sets]
BatchRequest ==
    [op : {"batch"}, auth : Tenants \cup {Missing}, key : Keys \cup {Missing},
     target : Tenants, names : Batches]
NoRequest == [op |-> "none"]
NoReply == [code |-> "none"]
Code(c) == [code |-> c]
Empty == [s \in Sets |-> NoItem]
Nothing == [s \in Sets |-> {}]

Init ==
    /\ table = [t \in Tenants |-> Empty]
    /\ active = [t \in Registered |-> TRUE]
    /\ items = 0
    /\ pc = [c \in Clients |-> "idle"]
    /\ req = [c \in Clients |-> NoRequest]
    /\ item = [c \in Clients |-> NoItem]
    /\ tries = [c \in Clients |-> 0]
    /\ cursor = [c \in Clients |-> 0]
    /\ listed = [c \in Clients |-> Empty]
    /\ wanted = [c \in Clients |-> {}]
    /\ retries = [c \in Clients |-> 0]
    /\ reply = [c \in Clients |-> NoReply]
    /\ live = [c \in Clients |-> FALSE]
    /\ seen = [c \in Clients |-> Nothing]
    /\ applied = [c \in Clients |-> 0]
    /\ undone = [c \in Clients |-> FALSE]

-----------------------------------------------------------------------------
Respond(c, r) ==
    /\ reply' = [reply EXCEPT ![c] = r]
    /\ pc' = [pc EXCEPT ![c] = "done"]

\* The tenant has a record, and the record is active.
Active(t) == t \in Registered /\ active[t]

Arrive(c) ==
    /\ pc[c] = "idle"
    /\ \E r \in Request \cup BatchRequest :
        /\ <<r.auth, r.key>> \in Credentials
        /\ r.op = "list" => r.name = 1
        /\ req' = [req EXCEPT ![c] = r]
        /\ wanted' = [wanted EXCEPT ![c] = IF r.op = "batch" THEN r.names ELSE {}]
        /\ live' = [live EXCEPT ![c] = Active(r.auth)]
        /\ seen' = [seen EXCEPT ![c] = [s \in Sets |-> {table[r.target][s]}]]
    /\ pc' = [pc EXCEPT ![c] = "authenticate"]
    /\ UNCHANGED <<table, active, items, item, tries, cursor, listed, reply,
                   applied, undone, retries>>

\* Mutant of Authenticate: no comparison of the key with the record's.
AuthenticateAnyKey(c) ==
    /\ pc[c] = "authenticate"
    /\ \/ Active(req[c].auth) /\ pc' = [pc EXCEPT ![c] = "authorize"]
          /\ UNCHANGED reply
       \/ ~Active(req[c].auth) /\ Respond(c, Code("unauthorized"))
    /\ UNCHANGED <<table, active, items, req, item, tries, cursor, listed, live,
                   seen, applied, undone, batchVars>>

\* get_current_tenant: both headers are there, the tenant has a record, which is
\* active, and the key is the record's.  The comparison raises a TypeError when
\* one of the keys is not ASCII.
Authenticate(c) ==
    /\ pc[c] = "authenticate"
    /\ \/ /\ Missing \in {req[c].auth, req[c].key}
          /\ Respond(c, Code("unauthorized"))
       \/ /\ Missing \notin {req[c].auth, req[c].key}
          /\ \/ Respond(c, Code("data_store_error"))
             \/ ~Active(req[c].auth) /\ Respond(c, Code("unauthorized"))
             \/ /\ Active(req[c].auth)
                /\ NonAscii \cap {req[c].key, ApiKey[req[c].auth]} # {}
                /\ Respond(c, Code("internal_server_error"))
             \/ /\ Active(req[c].auth)
                /\ NonAscii \cap {req[c].key, ApiKey[req[c].auth]} = {}
                /\ req[c].key # ApiKey[req[c].auth]
                /\ Respond(c, Code("unauthorized"))
             \/ /\ Active(req[c].auth)
                /\ NonAscii \cap {req[c].key, ApiKey[req[c].auth]} = {}
                /\ req[c].key = ApiKey[req[c].auth]
                /\ pc' = [pc EXCEPT ![c] = "authorize"]
                /\ UNCHANGED reply
    /\ UNCHANGED <<table, active, items, req, item, tries, cursor, listed, live,
                   seen, applied, undone, batchVars>>

\* Mutant of Authorize: no check that the tenant asks for its own resources.
AuthorizeAny(c) ==
    /\ pc[c] = "authorize"
    /\ IF req[c].op = "create"
       THEN /\ items < MaxItems
            /\ items' = items + 1
            /\ item' = [item EXCEPT ![c] = items + 1]
       ELSE UNCHANGED <<item, items>>
    /\ tries' = [tries EXCEPT ![c] = 1]
    /\ pc' = [pc EXCEPT ![c] = req[c].op]
    /\ UNCHANGED <<table, active, req, live, cursor, listed, reply, seen, applied,
                   undone, batchVars>>

\* _ensure_tenant_access, and the item that put_feature_set builds.
Authorize(c) ==
    /\ pc[c] = "authorize"
    /\ \/ /\ req[c].auth # req[c].target
          /\ Respond(c, Code("forbidden"))
          /\ UNCHANGED <<item, items, tries>>
       \/ /\ req[c].auth = req[c].target
          /\ IF req[c].op = "create"
             THEN /\ items < MaxItems
                  /\ items' = items + 1
                  /\ item' = [item EXCEPT ![c] = items + 1]
             ELSE UNCHANGED <<item, items>>
          /\ tries' = [tries EXCEPT ![c] = 1]
          /\ pc' = [pc EXCEPT ![c] = req[c].op]
          /\ UNCHANGED reply
    /\ UNCHANGED <<table, active, req, live, cursor, listed, seen, applied,
                   undone, batchVars>>

\* Mutant of Unanswered: one send too many.
UnansweredLate(c) ==
    /\ tries[c] <= MaxTries
    /\ tries' = [tries EXCEPT ![c] = @ + 1]
    /\ UNCHANGED <<pc, reply>>

\* What the client sees of one send: the answer, or none.  Without one botocore
\* sends again, or gives up: after MaxTries sends, and at once when the error is
\* not one that it retries.
Answered(c, r) == Respond(c, r) /\ UNCHANGED tries
Unanswered(c) ==
    \/ /\ tries[c] < MaxTries
       /\ tries' = [tries EXCEPT ![c] = @ + 1]
       /\ UNCHANGED <<pc, reply>>
    \/ Respond(c, Code("data_store_error")) /\ UNCHANGED tries

Slot(c) == table[req[c].target][req[c].name]

\* The table changes at one set: every request in progress for that tenant may
\* see the new content.
Write(c, i) ==
    /\ table' = [table EXCEPT ![req[c].target][req[c].name] = i]
    /\ seen' = [d \in Clients |->
                    IF req[d] # NoRequest /\ req[d].target = req[c].target
                    THEN [seen[d] EXCEPT ![req[c].name] = @ \cup {i}]
                    ELSE seen[d]]
    /\ applied' = [applied EXCEPT ![c] = @ + 1]
    /\ undone' = [d \in Clients |->
                    IF applied[d] > 0 /\ req[d].target = req[c].target
                                     /\ req[d].name = req[c].name
                    THEN d # c ELSE undone[d]]

\* A send that DynamoDB never executes, or refuses with another error.
SendLost(c) ==
    /\ pc[c] \in Ops
    /\ Unanswered(c)
    /\ UNCHANGED <<table, active, items, req, live, item, cursor, listed, seen,
                   applied, undone, batchVars>>

\* Mutant of PutItem: put_item without its condition.
PutAlways(c) ==
    /\ pc[c] = "create"
    /\ Write(c, item[c])
    /\ \/ Answered(c, [code |-> "created", id |-> item[c]])
       \/ Unanswered(c)
    /\ UNCHANGED <<active, items, req, live, item, cursor, listed, batchVars>>

\* put_item on condition that there is no item.
PutItem(c) ==
    /\ pc[c] = "create"
    /\ Slot(c) = NoItem
    /\ Write(c, item[c])
    /\ \/ Answered(c, [code |-> "created", id |-> item[c]])
       \/ Unanswered(c)
    /\ UNCHANGED <<active, items, req, live, item, cursor, listed, batchVars>>

PutConflict(c) ==
    /\ pc[c] = "create"
    /\ Slot(c) # NoItem
    /\ Answered(c, Code("conflict"))
    /\ UNCHANGED <<table, active, items, req, live, item, cursor, listed, seen,
                   applied, undone, batchVars>>

\* Mutant of GetItem: a read that need not see the latest write.
GetEventually(c) ==
    /\ pc[c] = "get"
    /\ \E i \in Ids : Answered(c, IF i = NoItem THEN Code("not_found")
                                  ELSE [code |-> "found", id |-> i])
    /\ UNCHANGED <<table, active, items, req, live, item, cursor, listed, seen,
                   applied, undone, batchVars>>

\* get_item with ConsistentRead; the inference route reads its features so too.
GetItem(c) ==
    /\ pc[c] = "get"
    /\ Answered(c, IF Slot(c) = NoItem THEN Code("not_found")
                   ELSE [code |-> "found", id |-> Slot(c)])
    /\ UNCHANGED <<table, active, items, req, live, item, cursor, listed, seen,
                   applied, undone, batchVars>>

\* Mutant of DeleteItem: the reply is sent before the item is gone.
DeleteLater(c) ==
    /\ pc[c] = "delete"
    /\ Slot(c) # NoItem
    /\ Answered(c, Code("deleted"))
    /\ UNCHANGED <<table, active, items, req, live, item, cursor, listed, seen,
                   applied, undone, batchVars>>

\* delete_item on condition that there is an item.
DeleteItem(c) ==
    /\ pc[c] = "delete"
    /\ Slot(c) # NoItem
    /\ Write(c, NoItem)
    /\ Answered(c, Code("deleted")) \/ Unanswered(c)
    /\ UNCHANGED <<active, items, req, live, item, cursor, listed, batchVars>>

DeleteMissing(c) ==
    /\ pc[c] = "delete"
    /\ Slot(c) = NoItem
    /\ Answered(c, Code("not_found"))
    /\ UNCHANGED <<table, active, items, req, live, item, cursor, listed, seen,
                   applied, undone, batchVars>>

\* What c has read of its target tenant once it has read these sets too.
Collect(c, sets) == [s \in Sets |-> IF s \in sets THEN table[req[c].target][s]
                                    ELSE listed[c][s]]

\* Mutant of QueryPage: each page starts one set too late.
QuerySkips(c) ==
    /\ pc[c] = "list"
    /\ Answered(c, [code |-> "listed",
                    ids |-> Collect(c, (cursor[c] + 2)..NumSets)])
    /\ UNCHANGED <<table, active, items, req, live, item, cursor, listed, seen,
                   applied, undone, batchVars>>

\* One page of the query, up to some set; the last page has no key to go on.
QueryPage(c) ==
    /\ pc[c] = "list"
    /\ \E last \in (cursor[c] + 1)..NumSets :
        LET page == Collect(c, (cursor[c] + 1)..last)
        IN  /\ listed' = [listed EXCEPT ![c] = page]
            /\ \/ /\ last < NumSets
                  /\ cursor' = [cursor EXCEPT ![c] = last]
                  /\ tries' = [tries EXCEPT ![c] = 1]
                  /\ UNCHANGED <<pc, reply>>
               \/ /\ last = NumSets
                  /\ Answered(c, [code |-> "listed", ids |-> page])
                  /\ UNCHANGED cursor
    /\ UNCHANGED <<table, active, items, req, live, item, seen, applied, undone,
                   batchVars>>

\* Mutant of BatchGetItem: the unprocessed keys are not asked for again.
BatchDropsUnread(c) ==
    /\ pc[c] = "batch"
    /\ \E read \in SUBSET wanted[c] :
        Answered(c, [code |-> "fetched", ids |-> Collect(c, read)])
    /\ UNCHANGED <<table, active, items, req, live, item, cursor, listed, seen,
                   applied, undone, batchVars>>

\* One round of batch_get_feature_sets, with consistent reads: DynamoDB reads
\* some of the keys and returns the others as unprocessed.  The batch ends when
\* none is left and gives up, with what it read, after too many rounds.
BatchGetItem(c) ==
    /\ pc[c] = "batch"
    /\ \E read \in SUBSET wanted[c] :
        /\ listed' = [listed EXCEPT ![c] = Collect(c, read)]
        /\ wanted' = [wanted EXCEPT ![c] = @ \ read]
        /\ \/ /\ read = wanted[c]
              /\ Answered(c, [code |-> "fetched", ids |-> listed'[c]])
              /\ UNCHANGED retries
           \/ /\ read # wanted[c]
              /\ retries' = [retries EXCEPT ![c] = @ + 1]
              /\ IF retries[c] < BatchRetryLimit
                 THEN tries' = [tries EXCEPT ![c] = 1] /\ UNCHANGED <<pc, reply>>
                 ELSE Answered(c, Code("data_store_error"))
    /\ UNCHANGED <<table, active, items, req, live, item, cursor, seen, applied,
                   undone>>

Finish(c) ==
    /\ pc[c] = "done"
    /\ pc' = [pc EXCEPT ![c] = "idle"]
    /\ req' = [req EXCEPT ![c] = NoRequest]
    /\ item' = [item EXCEPT ![c] = NoItem]
    /\ tries' = [tries EXCEPT ![c] = 0]
    /\ cursor' = [cursor EXCEPT ![c] = 0]
    /\ listed' = [listed EXCEPT ![c] = Empty]
    /\ wanted' = [wanted EXCEPT ![c] = {}]
    /\ retries' = [retries EXCEPT ![c] = 0]
    /\ reply' = [reply EXCEPT ![c] = NoReply]
    /\ live' = [live EXCEPT ![c] = FALSE]
    /\ seen' = [seen EXCEPT ![c] = Nothing]
    /\ applied' = [applied EXCEPT ![c] = 0]
    /\ undone' = [undone EXCEPT ![c] = FALSE]
    /\ UNCHANGED <<table, active, items>>

\* An operator deactivates a tenant.
Deactivate(t) ==
    /\ active[t]
    /\ active' = [active EXCEPT ![t] = FALSE]
    /\ UNCHANGED <<table, items, pc, req, item, tries, cursor, listed, reply,
                   live, seen, applied, undone, batchVars>>

Next ==
    \/ \E c \in Clients :
        \/ Arrive(c) \/ Authenticate(c) \/ Authorize(c) \/ SendLost(c)
        \/ PutItem(c) \/ PutConflict(c) \/ GetItem(c) \/ DeleteItem(c)
        \/ DeleteMissing(c) \/ QueryPage(c) \/ BatchGetItem(c)
        \/ Finish(c)
    \/ \E t \in Closing : Deactivate(t)

Spec == Init /\ [][Next]_vars

-----------------------------------------------------------------------------
TypeOK ==
    /\ table \in [Tenants -> [Sets -> Ids]]
    /\ active \in [Registered -> BOOLEAN]
    /\ items \in 0..MaxItems
    /\ pc \in [Clients -> Ops \cup {"idle", "authenticate", "authorize", "done"}]
    /\ req \in [Clients -> Request \cup BatchRequest \cup {NoRequest}]
    /\ item \in [Clients -> Ids]
    /\ tries \in [Clients -> 0..MaxTries]
    /\ cursor \in [Clients -> 0..NumSets]
    /\ listed \in [Clients -> [Sets -> Ids]]
    /\ wanted \in [Clients -> SUBSET Sets]
    /\ retries \in [Clients -> 0..(BatchRetryLimit + 1)]
    /\ live \in [Clients -> BOOLEAN]
    /\ seen \in [Clients -> [Sets -> SUBSET Ids]]
    /\ applied \in [Clients -> 0..MaxTries]
    /\ undone \in [Clients -> BOOLEAN]

\* The client's request comes from the tenant: it names the tenant, brings the
\* key of its record, and that record was active while the request was there.
Entitled(c, t) ==
    t \in Registered /\ req[c].auth = t /\ req[c].key = ApiKey[t] /\ live[c]

\* The table of a tenant changes only by a request that comes from this tenant,
\* with its key and while its account is active, whoever else writes at the time
\* (tenant_auth.py:37-52; feature_service.py:196, before every DynamoDB call).
OnlyOwnerWrites ==
    [][\A t \in Tenants : table'[t] # table[t] =>
            \E c \in Clients : applied'[c] > applied[c] /\ Entitled(c, t)]_vars

\* The replies that tell nothing of a tenant's sets.
Refusals == {"none", "unauthorized", "forbidden", "internal_server_error",
             "data_store_error"}

\* What the sets of a tenant hold, or whether they are there at all, is told only
\* to a request that comes from this tenant, in a read or by the outcome of a
\* write (feature_service.py:196); an item it is given was its own at the time.
OnlyOwnerAnswered ==
    \A c \in Clients :
        /\ reply[c].code \notin Refusals => Entitled(c, req[c].target)
        /\ reply[c].code = "found" => reply[c].id \in seen[c][req[c].name]

\* A list read in pages while others write (dynamo_service.py:185-198) misses
\* nothing that was there all the time and shows nothing that never was.
ListBetweenStates ==
    \A c \in Clients : reply[c].code = "listed" =>
        \A s \in Sets : reply[c].ids[s] \in seen[c][s]

\* A batch reports each set it was asked for as it was at some time, whatever
\* DynamoDB leaves unprocessed in a round (dynamo_service.py:284-294): a set is
\* missing from the answer only if it was missing from the table.
BatchBetweenStates ==
    \A c \in Clients : reply[c].code = "fetched" =>
        \A s \in req[c].names : reply[c].ids[s] \in seen[c][s]

\* A refusal is true of some moment of the request, even when botocore resent
\* it: a conflict was found (dynamo_service.py:125), or nothing was there to
\* read or delete (164, 228).
RefusalJustified ==
    \A c \in Clients :
        /\ reply[c].code = "conflict" =>
                \E i \in seen[c][req[c].name] : i # NoItem
        /\ reply[c].code = "not_found" => NoItem \in seen[c][req[c].name]

\* A write that reports success was executed, and one that reports a conflict or
\* a missing item after a single send was not (dynamo_service.py:125 and 228).
AnswerTellsEffect ==
    \A c \in Clients :
        /\ reply[c].code \in {"created", "deleted"} => applied[c] >= 1
        /\ /\ reply[c].code \in {"conflict", "not_found"}
           /\ tries[c] = 1
           => applied[c] = 0

\* A write that botocore resends is executed again only if another request has
\* undone it in between: each send is conditional on the item's existence
\* (dynamo_service.py:120 and 223).
RepeatedOnlyIfUndone ==
    [][\A c \in Clients :
            applied'[c] > applied[c] /\ applied[c] > 0 => undone[c]]_vars
=============================================================================
