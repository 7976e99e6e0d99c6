--------------------------- MODULE InferenceRoute ---------------------------
(***************************************************************************)
(* One host process serving POST /inference/ and GET /inference/models,    *)
(* the directory of encrypted artifacts it reads, and the trainers that    *)
(* write it from processes of their own.  The enclave is seen through its  *)
(* replies: InferenceEngine and EnclaveRPC model it.  Model names are      *)
(* unique here, so that a model is a directory <tenant>/<name>.            *)
(***************************************************************************)
EXTENDS Naturals, FiniteSets

CONSTANTS
    Requests,      \* HTTP requests in progress at one time
    Trainers,      \* runs of train_model.py at one time
    Tenants,
    Models,
    Owner,         \* the tenant of each model
    MaxTrainings,  \* bound: trainings, each with a version and a key of its own
    MaxClients,    \* bound: enclave clients created
    Nobody, Absent, Empty, Torn

ASSUME OwnerAssumption == Owner \in [Models -> Tenants]
ASSUME BoundsAssumption == MaxTrainings \in Nat /\ MaxClients \in Nat
ASSUME NobodyAssumption == Nobody \notin Requests
ASSUME ContentAssumption ==
    /\ {Absent, Empty, Torn} \cap Nat = {}
    /\ Cardinality({Absent, Empty, Torn}) = 3

VARIABLES
    blob, key,     \* content of encrypted_model.bin and encrypted_data_key.bin
    job,           \* what each trainer is doing
    trainings,
    mock,          \* settings.use_mock_enclave
    client,        \* app.state.enclave_client
    created,
    loop,          \* the request whose coroutine has the event loop
    pc, req,
    mine,          \* the enclave client that a request was given
    gotBlob, gotKey,   \* what _load_model_artifacts has read
    loaded,        \* the version of each model that the enclave has cached
    reply,
    spoilt,        \* history: the last writing of a model was cut or overlapped
    calm,          \* history: since the request came its artifacts were a pair
    early,         \* history: the request came before there was a client
    shown,         \* history: models that a listing has offered
    promised       \* history: the request's model was shown before it came

fileVars == <<blob, key, job, trainings, spoilt>>
clientVars == <<mock, client, created>>
requestVars == <<loop, pc, req, mine, gotBlob, gotKey, loaded, reply, early,
                 shown, promised>>
vars == <<fileVars, clientVars, requestVars, calm>>

Versions == 1..MaxTrainings
Contents == Versions \cup {Absent, Empty, Torn}
None == 0              \* no version, no client
NoJob == [at |-> "idle"]
NoRequest == [op |-> "none"]
Ops == {"infer", "list"}
NoReply == [kind |-> "none"]
Refusal(error, code) == [kind |-> error, code |-> code]

Init ==
    /\ blob = [m \in Models |-> Absent]
    /\ key = [m \in Models |-> Absent]
    /\ job = [t \in Trainers |-> NoJob]
    /\ trainings = 0
    /\ mock \in BOOLEAN
    /\ client = None
    /\ created = 0
    /\ loop = Nobody
    /\ pc = [r \in Requests |-> "idle"]
    /\ req = [r \in Requests |-> NoRequest]
    /\ mine = [r \in Requests |-> None]
    /\ gotBlob = [r \in Requests |-> Absent]
    /\ gotKey = [r \in Requests |-> Absent]
    /\ loaded = [m \in Models |-> None]
    /\ reply = [r \in Requests |-> NoReply]
    /\ spoilt = [m \in Models |-> FALSE]
    /\ calm = [r \in Requests |-> FALSE]
    /\ early = [r \in Requests |-> FALSE]
    /\ shown = {}
    /\ promised = [r \in Requests |-> FALSE]

-----------------------------------------------------------------------------
(* The trainer: each file is truncated, written, and written to its end. *)

\* The model's file is open in "writing blob", and in "mixing blob" once two
\* trainers have had it open at one time.
Writing == {"writing blob", "mixing blob", "wrote blob", "writing key"}
FileOpen(t) == job[t].at \in {"writing blob", "mixing blob"}
\* The trainers of m that have begun to replace its files.
Writers(m) == {t \in Trainers : job[t].at \in Writing /\ job[t].model = m}

\* The two files are there and of one training.
Pair(b, k) == b = k /\ b \in Versions
Stored(m) == blob[m] # Absent /\ key[m] # Absent

\* The files change: a request on that model has been calm only if it still is.
FilesChange ==
    /\ calm' = [r \in Requests |->
                    calm[r] /\ Pair(blob'[req[r].model], key'[req[r].model])]
    /\ UNCHANGED <<trainings, clientVars, requestVars>>

At(t, label) == job' = [job EXCEPT ![t].at = label]

\* main trains the model and gets a data key bound to the tenant.
BeginTraining(t) ==
    /\ job[t].at = "idle"
    /\ trainings < MaxTrainings
    /\ trainings' = trainings + 1
    /\ \E m \in Models :
        job' = [job EXCEPT ![t] =
                    [at |-> "trained", model |-> m, version |-> trainings + 1]]
    /\ UNCHANGED <<blob, key, spoilt, clientVars, requestVars, calm>>

\* write_bytes opens the model's file, which truncates it, also under those who
\* have it open.
OpenBlob(t) ==
    /\ job[t].at = "trained"
    /\ LET m == job[t].model
           others == {u \in Writers(m) : FileOpen(u)}
           label == IF others = {} THEN "writing blob" ELSE "mixing blob"
       IN  /\ blob' = [blob EXCEPT ![m] = Empty]
           /\ spoilt' = [spoilt EXCEPT ![m] = Writers(m) # {}]
           /\ job' = [u \in Trainers |-> IF u \in others \cup {t}
                                         THEN [job[u] EXCEPT !.at = label]
                                         ELSE job[u]]
    /\ UNCHANGED key
    /\ FilesChange

\* A part of the file is written.
WritePart(t) ==
    /\ FileOpen(t)
    /\ blob' = [blob EXCEPT ![job[t].model] = Torn]
    /\ UNCHANGED <<key, job, spoilt>>
    /\ FilesChange

\* Its last bytes are written.  Of two trainers that had it open at one time each
\* may leave bytes of the other's, before, between or after its own.
WriteBlob(t) ==
    /\ FileOpen(t)
    /\ \E content \in {job[t].version}
                       \cup (IF job[t].at = "mixing blob" THEN {Torn} ELSE {}) :
            blob' = [blob EXCEPT ![job[t].model] = content]
    /\ At(t, "wrote blob")
    /\ UNCHANGED <<key, spoilt>>
    /\ FilesChange

OpenKey(t) ==
    /\ job[t].at = "wrote blob"
    /\ key' = [key EXCEPT ![job[t].model] = Empty]
    /\ At(t, "writing key")
    /\ UNCHANGED <<blob, spoilt>>
    /\ FilesChange

\* Mutant of WriteKey: a key that is already there is kept.
KeepKey(t) ==
    /\ job[t].at = "writing key"
    /\ \E k \in Versions : k < job[t].version
                           /\ key' = [key EXCEPT ![job[t].model] = k]
    /\ job' = [job EXCEPT ![t] = NoJob]
    /\ UNCHANGED <<blob, spoilt>>
    /\ FilesChange

\* The wrapped key is written, in one write.
WriteKey(t) ==
    /\ job[t].at = "writing key"
    /\ key' = [key EXCEPT ![job[t].model] = job[t].version]
    /\ job' = [job EXCEPT ![t] = NoJob]
    /\ UNCHANGED <<blob, spoilt>>
    /\ FilesChange

\* The trainer is killed.
Abort(t) ==
    /\ job[t].at # "idle"
    /\ spoilt' = [spoilt EXCEPT ![job[t].model] = @ \/ job[t].at \in Writing]
    /\ job' = [job EXCEPT ![t] = NoJob]
    /\ UNCHANGED <<blob, key, trainings, clientVars, requestVars, calm>>

TrainerStep(t) ==
    \/ BeginTraining(t) \/ OpenBlob(t) \/ WritePart(t) \/ WriteBlob(t)
    \/ OpenKey(t) \/ WriteKey(t) \/ Abort(t)

-----------------------------------------------------------------------------
(* A request: its dependencies, then the body of the coroutine. *)

Goto(r, label) == pc' = [pc EXCEPT ![r] = label]

\* The coroutine returns or raises; the event loop is free.
Respond(r, answer) ==
    /\ reply' = [reply EXCEPT ![r] = answer]
    /\ loop' = Nobody
    /\ Goto(r, "done")

\* An authenticated request for a model of its tenant, or for the tenant's list.
Arrive(r) ==
    /\ pc[r] = "idle"
    /\ \E op \in Ops, m \in Models :
        /\ req' = [req EXCEPT ![r] = [op |-> op, model |-> m]]
        /\ calm' = [calm EXCEPT ![r] = Pair(blob[m], key[m])]
        /\ promised' = [promised EXCEPT ![r] = m \in shown]
    /\ early' = [early EXCEPT ![r] = client = None]
    /\ Goto(r, "resolve client")
    /\ UNCHANGED <<fileVars, clientVars, loop, mine, gotBlob, gotKey, loaded,
                   reply, shown>>

\* Mutant of ResolveClient: the client of app.state is not looked up.
ResolveNothing(r) ==
    /\ pc[r] = "resolve client"
    /\ Goto(r, "create client")
    /\ UNCHANGED <<fileVars, clientVars, loop, req, mine, gotBlob, gotKey,
                   loaded, reply, early, shown, promised, calm>>

\* get_enclave_client, in a thread of FastAPI's pool: it looks at app.state.
ResolveClient(r) ==
    /\ pc[r] = "resolve client"
    /\ IF client # None
       THEN mine' = [mine EXCEPT ![r] = client] /\ Goto(r, "await loop")
       ELSE Goto(r, "create client") /\ UNCHANGED mine
    /\ UNCHANGED <<fileVars, clientVars, loop, req, gotBlob, gotKey, loaded,
                   reply, early, shown, promised, calm>>

\* It creates the client, real or mock, and stores it, whoever did so before.
CreateClient(r) ==
    /\ pc[r] = "create client"
    /\ created < MaxClients
    /\ created' = created + 1
    /\ client' = created'
    /\ mine' = [mine EXCEPT ![r] = created']
    /\ Goto(r, "await loop")
    /\ UNCHANGED <<fileVars, mock, loop, req, gotBlob, gotKey, loaded, reply,
                   early, shown, promised, calm>>

\* The event loop runs the body, which blocks it to its end.
EnterBody(r) ==
    /\ pc[r] = "await loop"
    /\ loop = Nobody
    /\ loop' = r
    /\ Goto(r, IF req[r].op = "list" THEN "list" ELSE "prepare vector")
    /\ UNCHANGED <<fileVars, clientVars, req, mine, gotBlob, gotKey, loaded,
                   reply, early, shown, promised, calm>>

\* prepare_feature_vector: the ownership check and the read of the features.
PrepareVector(r) ==
    /\ pc[r] = "prepare vector"
    /\ \/ Goto(r, "find files") /\ UNCHANGED <<loop, reply>>
       \/ \E error \in {"forbidden_access", "feature_set_not_found",
                        "data_store_error"} :
            Respond(r, Refusal(error, "none"))
    /\ UNCHANGED <<fileVars, clientVars, req, mine, gotBlob, gotKey, loaded,
                   early, shown, promised, calm>>

\* _load_model_artifacts: both files must be there.  Files are never removed, so
\* that its two tests are as good as one at the time of the second.
FindFiles(r) ==
    /\ pc[r] = "find files"
    /\ IF Stored(req[r].model)
       THEN Goto(r, "read blob") /\ UNCHANGED <<loop, reply>>
       ELSE Respond(r, Refusal("model_artifact_not_found", "none"))
    /\ UNCHANGED <<fileVars, clientVars, req, mine, gotBlob, gotKey, loaded,
                   early, shown, promised, calm>>

\* Mutant of ReadBlob: one read, which may be short.
ReadSome(r) ==
    /\ pc[r] = "read blob"
    /\ \E content \in {blob[req[r].model], Torn} :
            gotBlob' = [gotBlob EXCEPT ![r] = content]
    /\ Goto(r, "read key")
    /\ UNCHANGED <<fileVars, clientVars, loop, req, mine, gotKey, loaded, reply,
                   early, shown, promised, calm>>

ReadBlob(r) ==
    /\ pc[r] = "read blob"
    /\ gotBlob' = [gotBlob EXCEPT ![r] = blob[req[r].model]]
    /\ Goto(r, "read key")
    /\ UNCHANGED <<fileVars, clientVars, loop, req, mine, gotKey, loaded, reply,
                   early, shown, promised, calm>>

\* The key is read, and neither may be empty.
ReadKey(r) ==
    /\ pc[r] = "read key"
    /\ gotKey' = [gotKey EXCEPT ![r] = key[req[r].model]]
    /\ IF Empty \in {gotBlob[r], gotKey'[r]}
       THEN Respond(r, Refusal("invalid_model_artifact", "none"))
       ELSE Goto(r, "call enclave") /\ UNCHANGED <<loop, reply>>
    /\ UNCHANGED <<fileVars, clientVars, req, mine, gotBlob, loaded, early,
                   shown, promised, calm>>

\* Mutant of Normalized: the code of the enclave is passed on.
PassedOn(code) == code

\* _normalize_predict_response: the exception for an error code of the enclave.
Normalized(code) ==
    CASE code = "MODEL_NOT_FOUND" -> "remote_model_not_found"
      [] code = "FEATURE_DIMENSION_MISMATCH" -> "feature_dimension_mismatch"
      [] code = "INVALID_REQUEST" -> "invalid_enclave_request"
      [] OTHER -> "enclave_communication_error"

\* What the server answers once the model is loaded: the prediction fails, or the
\* model was evicted again.  (The mock never comes so far.)
LateCodes == {"FEATURE_DIMENSION_MISMATCH", "MODEL_NOT_FOUND", "INVALID_REQUEST",
              "INFERENCE_FAILED", "INTERNAL_ERROR"}

\* A pair opens, except in the mock of get_enclave_client: its default resolver
\* returns the wrapped key itself.
Opens(r) == Pair(gotBlob[r], gotKey[r]) /\ ~mock

\* What load_model may fail at, as its message tells: the unwrapping of the data
\* key, for which the real resolver calls KMS; the decryption of the artifact; or,
\* once it is open, the model in it, which cannot be restored or names no
\* dimension.
LoadFaults(r) ==
    (IF mock THEN {} ELSE {"data key"})
    \cup {IF Opens(r) THEN "model" ELSE "artifact"}

\* The answer to a ModelLoadError has one code, and the message as its detail.
LoadFailed(detail) ==
    [kind |-> Normalized("DECRYPTION_FAILED"), code |-> "DECRYPTION_FAILED",
     detail |-> detail]

\* predict: a cached model is used whatever the artifacts; else they are opened.
\* A mixture of two artifacts may hold text that is not base64, a ValueError
\* (inference_engine.py:158-159), which server.py:278 takes for a bad feature.
CallEnclave(r) ==
    /\ pc[r] = "call enclave"
    /\ LET m == req[r].model
           v == IF loaded[m] # None THEN loaded[m] ELSE gotBlob[r]
       IN  \/ /\ loaded[m] # None \/ Opens(r)
              /\ loaded' = [loaded EXCEPT ![m] = v]
              /\ \/ Respond(r, [kind |-> "ok", version |-> v])
                 \/ \E code \in LateCodes :
                        Respond(r, Refusal(Normalized(code), code))
           \/ /\ loaded[m] = None
              /\ \E detail \in LoadFaults(r) : Respond(r, LoadFailed(detail))
              /\ UNCHANGED loaded
           \/ /\ loaded[m] = None /\ gotBlob[r] = Torn
              /\ Respond(r, Refusal(Normalized("INVALID_REQUEST"), "INVALID_REQUEST"))
              /\ UNCHANGED loaded
           \/ /\ ~mock
              /\ \E error \in {"enclave_timeout", "enclave_communication_error",
                               "malformed_enclave_response"} :
                        Respond(r, Refusal(error, "none"))
              /\ UNCHANGED loaded
    /\ UNCHANGED <<fileVars, clientVars, req, mine, gotBlob, gotKey, early,
                   shown, promised, calm>>

\* Mutant of StoredModels: a directory with a model file is enough.
StoredBlobs(t) == {m \in Models : Owner[m] = t /\ blob[m] # Absent}

\* _list_stored_models
StoredModels(t) == {m \in Models : Owner[m] = t /\ Stored(m)}

\* list_available_models: the tenant's stored models, and the loaded models that
\* the enclave names, or none when it does not answer.
ListModels(r) ==
    /\ pc[r] = "list"
    /\ LET stored == StoredModels(Owner[req[r].model]) IN
        /\ shown' = shown \cup stored
        /\ \E names \in {{m \in Models : loaded[m] # None}}
                        \cup (IF mock THEN {} ELSE {{}}) :
                Respond(r, [kind |-> "models", available |-> stored,
                            loaded |-> names])
    /\ UNCHANGED <<fileVars, clientVars, req, mine, gotBlob, gotKey, loaded,
                   early, promised, calm>>

Finish(r) ==
    /\ pc[r] = "done"
    /\ Goto(r, "idle")
    /\ req' = [req EXCEPT ![r] = NoRequest]
    /\ mine' = [mine EXCEPT ![r] = None]
    /\ gotBlob' = [gotBlob EXCEPT ![r] = Absent]
    /\ gotKey' = [gotKey EXCEPT ![r] = Absent]
    /\ reply' = [reply EXCEPT ![r] = NoReply]
    /\ calm' = [calm EXCEPT ![r] = FALSE]
    /\ early' = [early EXCEPT ![r] = FALSE]
    /\ promised' = [promised EXCEPT ![r] = FALSE]
    /\ UNCHANGED <<fileVars, clientVars, loop, loaded, shown>>

RequestStep(r) ==
    \/ Arrive(r) \/ ResolveClient(r) \/ CreateClient(r) \/ EnterBody(r)
    \/ PrepareVector(r) \/ FindFiles(r) \/ ReadBlob(r) \/ ReadKey(r)
    \/ CallEnclave(r) \/ ListModels(r) \/ Finish(r)

\* The enclave evicts a model, or restarts.
Forget(m) ==
    /\ loaded[m] # None
    /\ loaded' = [loaded EXCEPT ![m] = None]
    /\ UNCHANGED <<fileVars, clientVars, loop, pc, req, mine, gotBlob, gotKey,
                   reply, early, shown, promised, calm>>

Next ==
    \/ \E t \in Trainers : TrainerStep(t)
    \/ \E r \in Requests : RequestStep(r)
    \/ \E m \in Models : Forget(m)

Spec == Init /\ [][Next]_vars

-----------------------------------------------------------------------------
Errors == {"forbidden_access", "feature_set_not_found", "data_store_error",
           "model_artifact_not_found", "invalid_model_artifact",
           "remote_model_not_found", "feature_dimension_mismatch",
           "invalid_enclave_request", "enclave_communication_error",
           "enclave_timeout", "malformed_enclave_response"}
Codes == {"none", "MODEL_NOT_FOUND", "FEATURE_DIMENSION_MISMATCH",
          "INVALID_REQUEST", "INFERENCE_FAILED", "INTERNAL_ERROR"}
Details == {"data key", "artifact", "model"}
Job == [at : {"trained"} \cup Writing,
        model : Models, version : Versions]
Labels == {"idle", "resolve client", "create client", "await loop", "list",
           "prepare vector", "find files", "read blob", "read key",
           "call enclave", "done"}
Replies == {NoReply}
           \cup [kind : Errors, code : Codes]
           \cup [kind : Errors, code : {"DECRYPTION_FAILED"}, detail : Details]
           \cup [kind : {"ok"}, version : Versions]
           \cup [kind : {"models"}, available : SUBSET Models,
                 loaded : SUBSET Models]

\* In particular an answer is a prediction of a trained model, a list, or an
\* error that the exception handlers know (exceptions.py:114-119).
TypeOK ==
    /\ blob \in [Models -> Contents] /\ key \in [Models -> Contents \ {Torn}]
    /\ job \in [Trainers -> Job \cup {NoJob}]
    /\ trainings \in 0..MaxTrainings
    /\ mock \in BOOLEAN
    /\ created \in 0..MaxClients /\ client \in 0..created
    /\ loop \in Requests \cup {Nobody}
    /\ pc \in [Requests -> Labels]
    /\ req \in [Requests -> [op : Ops, model : Models] \cup {NoRequest}]
    /\ mine \in [Requests -> 0..created]
    /\ gotBlob \in [Requests -> Contents] /\ gotKey \in [Requests -> Contents]
    /\ loaded \in [Models -> Versions \cup {None}]
    /\ reply \in [Requests -> Replies]
    /\ spoilt \in [Models -> BOOLEAN]
    /\ calm \in [Requests -> BOOLEAN]
    /\ early \in [Requests -> BOOLEAN]
    /\ shown \subseteq Models
    /\ promised \in [Requests -> BOOLEAN]

\* The files of a model that nobody is writing are a pair, or were never
\* written: the trainer's two writes (train_model.py:95-98) leave them otherwise
\* only if it was killed between them or another trainer overlapped with it.
QuietPairMatches ==
    \A m \in Models : Writers(m) = {} /\ ~spoilt[m] =>
        \/ Pair(blob[m], key[m])
        \/ blob[m] = Absent /\ key[m] = Absent

\* A request whose artifacts were a pair all the time is not refused because of
\* what it read of them, although it tests and reads them one after the other
\* (inference.py:151-159): it finds both, neither is empty, and the enclave does
\* not say that the artifact cannot be decrypted (inference_engine.py:157-169),
\* which the mock does, as it cannot unwrap a trainer's key.  The enclave may
\* still fail to load a pair for reasons of its own: KMS, or the model inside.
CalmArtifactsLoad ==
    \A r \in Requests : calm[r] /\ pc[r] = "done" /\ req[r].op = "infer" =>
        /\ reply[r].kind \notin {"model_artifact_not_found",
                                 "invalid_model_artifact"}
        /\ ~mock /\ "detail" \in DOMAIN reply[r] => reply[r].detail # "artifact"

\* A model that a listing offers is found by every request that comes later
\* (inference.py:151 and 178): both tests ask for the same two files.
ListedIsFound ==
    \A r \in Requests : promised[r] => reply[r].kind # "model_artifact_not_found"

\* Only requests that came before there was a client can create one, though the
\* test and the assignment are apart (enclave_client.py:576 and 594): later ones
\* share its pool of connections.
ClientsOnlyAtStart ==
    [][created' # created =>
            \E r \in Requests : early[r] /\ pc[r] = "create client"]_vars
=============================================================================
