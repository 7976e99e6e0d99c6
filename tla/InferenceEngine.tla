-------------------------- MODULE InferenceEngine --------------------------
(***************************************************************************)
(* The enclave's model cache under concurrent predict requests:            *)
(* enclave/inference_engine.py driven by VsockRPCServer._handle_predict.   *)
(* Each worker thread of the server handles one request at a time.  The    *)
(* engine's lock makes single accesses to the cache atomic and nothing     *)
(* more, so a request is a chain of steps that interleaves with the others.*)
(***************************************************************************)
EXTENDS OrderedDict, FiniteSets

CONSTANTS
    Workers,      \* threads of the server's pool
    Tenants,
    Names,        \* model names, stripped
    Stored,       \* the <<tenant, name>> pairs with artifacts on the host
    MaxModels,    \* _max_models
    MaxVersion,   \* bound: trainings of one model
    Padding,      \* whether a request may spell a name with padding blanks
    BlobOptional, \* whether a request may come without artifacts
    Unloadable    \* names that unload_model is called with

ASSUME StoredAssumption == Stored \subseteq Tenants \X Names
ASSUME MaxModelsAssumption == MaxModels \in Nat \ {0}
ASSUME MaxVersionAssumption == MaxVersion \in Nat \ {0}
ASSUME PaddingAssumption == Padding \subseteq BOOLEAN
ASSUME BlobOptionalAssumption == BlobOptional \in BOOLEAN
ASSUME UnloadableAssumption == Unloadable \subseteq Names

VARIABLES
    published,    \* version of the artifacts the trainer last wrote
    models,       \* _models: name |-> model, least recently used first
    pc,           \* where the worker is in _handle_predict
    req,          \* the request it handles
    hit,          \* its local served_from_cache
    using,        \* its local loaded_model, in predict
    reply,        \* the response it built
    touched       \* history: names put last in models since the worker's
                  \* own latest access to the cache

vars == <<published, models, pc, req, hit, using, reply, touched>>

NoBlob == 0       \* encrypted_model_blob is None
NoModel == [name |-> "none"]

Versions == 1..MaxVersion
Model == [tenant : Tenants, name : Names, version : Versions]
Request == [tenant : Tenants, name : Names, padded : BOOLEAN,
            blob : Versions \cup {NoBlob}]
NoRequest == [blob |-> NoBlob]

LoadErrors == {"DECRYPTION_FAILED", "INVALID_REQUEST"}
ComputeErrors == {"FEATURE_DIMENSION_MISMATCH", "INFERENCE_FAILED",
                  "INVALID_REQUEST", "INTERNAL_ERROR"}
ErrorCodes == LoadErrors \cup ComputeErrors \cup {"MODEL_NOT_FOUND"}
Error(code) == [status |-> "error", code |-> code]
Ok(m, cached) == [status |-> "ok", model |-> m, cached |-> cached]
NoReply == [status |-> "none"]
Reply == {Error(c) : c \in ErrorCodes}
         \cup {Ok(m, c) : m \in Model, c \in BOOLEAN} \cup {NoReply}

Init ==
    /\ published = [p \in Stored |-> 1]
    /\ models = <<>>
    /\ pc = [w \in Workers |-> "idle"]
    /\ req = [w \in Workers |-> NoRequest]
    /\ hit = [w \in Workers |-> FALSE]
    /\ using = [w \in Workers |-> NoModel]
    /\ reply = [w \in Workers |-> NoReply]
    /\ touched = [w \in Workers |-> {}]

-----------------------------------------------------------------------------
Goto(w, l) == pc' = [pc EXCEPT ![w] = l]

Respond(w, r) ==
    /\ reply' = [reply EXCEPT ![w] = r]
    /\ Goto(w, "reply")

\* Worker w put name n last in the cache.
Recently(w, n) ==
    touched' = [u \in Workers |->
                    IF u = w THEN {}
                    ELSE IF pc[u] \in {"open", "install", "predict"}
                         THEN touched[u] \cup {n}
                         ELSE {}]

\* The trainer writes a new pair of artifacts for a model.
Train(p) ==
    /\ published[p] < MaxVersion
    /\ published' = [published EXCEPT ![p] = @ + 1]
    /\ UNCHANGED <<models, pc, req, hit, using, reply, touched>>

\* A predict request arrives.  The blob is the artifact the host read, and the
\* host only calls for models it has artifacts of.  _handle_predict also takes
\* requests without a blob, which the route of the host never sends.
Arrive(w) ==
    /\ pc[w] = "idle"
    /\ \E p \in Stored, padded \in Padding :
        \E blob \in {published[p]} \cup (IF BlobOptional THEN {NoBlob} ELSE {}) :
            req' = [req EXCEPT ![w] = [tenant |-> p[1], name |-> p[2],
                                       padded |-> padded, blob |-> blob]]
    /\ Goto(w, "check")
    /\ UNCHANGED <<published, models, hit, using, reply, touched>>

\* A field of the request is missing or of the wrong type.
RejectMalformed(w) ==
    /\ pc[w] = "idle"
    /\ Respond(w, Error("INVALID_REQUEST"))
    /\ UNCHANGED <<published, models, req, hit, using, touched>>

\* served_from_cache = is_model_loaded(name), which does not strip the name.
CheckLoaded(w) ==
    /\ pc[w] = "check"
    /\ LET loaded == ~req[w].padded /\ req[w].name \in Keys(models)
       IN  /\ hit' = [hit EXCEPT ![w] = loaded]
           /\ \/ /\ req[w].blob # NoBlob
                 /\ Goto(w, "load")
                 /\ UNCHANGED reply
              \/ /\ req[w].blob = NoBlob /\ loaded
                 /\ Goto(w, "predict")
                 /\ UNCHANGED reply
              \/ /\ req[w].blob = NoBlob /\ ~loaded
                 /\ Respond(w, Error("MODEL_NOT_FOUND"))
    /\ UNCHANGED <<published, models, req, using, touched>>

\* The blob came without a key (server.py:252), or a feature is not a number or
\* an int too large for a float, an OverflowError: the conversion at
\* server.py:274 comes before predict takes the lock.
RejectFields(w) ==
    /\ \/ pc[w] \in {"load", "predict"} /\ Respond(w, Error("INVALID_REQUEST"))
       \/ pc[w] = "predict" /\ Respond(w, Error("INTERNAL_ERROR"))
    /\ UNCHANGED <<published, models, req, hit, using, touched>>

\* load_model, first critical section: the model is cached.
LoadCached(w) ==
    /\ pc[w] = "load"
    /\ req[w].name \in Keys(models)
    /\ models' = Touch(models, req[w].name)
    /\ Recently(w, req[w].name)
    /\ hit' = [hit EXCEPT ![w] = FALSE]
    /\ Goto(w, "predict")
    /\ UNCHANGED <<published, req, using, reply>>

\* Mutant of LoadMiss: load_model without its early return.
LoadAlways(w) ==
    /\ pc[w] = "load"
    /\ touched' = [touched EXCEPT ![w] = {}]
    /\ Goto(w, "open")
    /\ UNCHANGED <<published, models, req, hit, using, reply>>

\* load_model, first critical section: it is not, and the lock is released.
LoadMiss(w) ==
    /\ pc[w] = "load"
    /\ req[w].name \notin Keys(models)
    /\ touched' = [touched EXCEPT ![w] = {}]
    /\ Goto(w, "open")
    /\ UNCHANGED <<published, models, req, hit, using, reply>>

\* Parsing, unwrapping the key and decrypting succeed, without the lock.  The
\* bundle carries the name as it was spelt and must equal the stripped one.
OpenArtifact(w) ==
    /\ pc[w] = "open"
    /\ ~req[w].padded
    /\ Goto(w, "install")
    /\ UNCHANGED <<published, models, req, hit, using, reply, touched>>

OpenFails(w) ==
    /\ pc[w] = "open"
    /\ \E code \in LoadErrors : Respond(w, Error(code))
    /\ UNCHANGED <<published, models, req, hit, using, touched>>

\* load_model, second critical section.
Install(w) ==
    /\ pc[w] = "install"
    /\ LET m == [tenant |-> req[w].tenant, name |-> req[w].name,
                 version |-> req[w].blob]
       IN  models' = EvictTo(SetLast(models, m.name, m), MaxModels)
    /\ Recently(w, req[w].name)
    /\ hit' = [hit EXCEPT ![w] = FALSE]
    /\ Goto(w, "predict")
    /\ UNCHANGED <<published, req, using, reply>>

\* Mutant of FindModel: it takes the model that was loaded last.
FindNewest(w) ==
    /\ pc[w] = "predict"
    /\ models # <<>>
    /\ using' = [using EXCEPT ![w] = Last(models).value]
    /\ Goto(w, "compute")
    /\ UNCHANGED <<published, models, req, hit, reply, touched>>

\* Mutant of FindModel: it computes although the model may be gone.
FindNothing(w) ==
    /\ pc[w] = "predict"
    /\ Goto(w, "compute")
    /\ UNCHANGED <<published, models, req, hit, using, reply, touched>>

\* predict, critical section: the model is cached.
FindModel(w) ==
    /\ pc[w] = "predict"
    /\ req[w].name \in Keys(models)
    /\ using' = [using EXCEPT ![w] = Lookup(models, req[w].name)]
    /\ models' = Touch(models, req[w].name)
    /\ Recently(w, req[w].name)
    /\ Goto(w, "compute")
    /\ UNCHANGED <<published, req, hit, reply>>

\* Mutant of ModelGone: a request whose model was evicted loads it again.
LoadAgain(w) ==
    /\ pc[w] = "predict"
    /\ req[w].name \notin Keys(models)
    /\ Goto(w, "load")
    /\ UNCHANGED <<published, models, req, hit, using, reply, touched>>

\* predict, critical section: it is not.
ModelGone(w) ==
    /\ pc[w] = "predict"
    /\ req[w].name \notin Keys(models)
    /\ Respond(w, Error("MODEL_NOT_FOUND"))
    /\ UNCHANGED <<published, models, req, hit, using, touched>>

\* Mutant of Compute: it reads the cache again, without the lock.
ComputeUnlocked(w) ==
    /\ pc[w] = "compute"
    /\ models # <<>>
    /\ Respond(w, Ok(Last(models).value, hit[w]))
    /\ UNCHANGED <<published, models, req, hit, using, touched>>

\* predict, after the lock: the model computes, or the features do not fit.
Compute(w) ==
    /\ pc[w] = "compute"
    /\ \/ Respond(w, Ok(using[w], hit[w]))
       \/ \E code \in ComputeErrors : Respond(w, Error(code))
    /\ UNCHANGED <<published, models, req, hit, using, touched>>

\* The response is written and the worker's locals are gone.
Finish(w) ==
    /\ pc[w] = "reply"
    /\ Goto(w, "idle")
    /\ req' = [req EXCEPT ![w] = NoRequest]
    /\ hit' = [hit EXCEPT ![w] = FALSE]
    /\ using' = [using EXCEPT ![w] = NoModel]
    /\ reply' = [reply EXCEPT ![w] = NoReply]
    /\ touched' = [touched EXCEPT ![w] = {}]
    /\ UNCHANGED <<published, models>>

\* unload_model
Unload(n) ==
    /\ n \in Keys(models)
    /\ models' = Drop(models, n)
    /\ UNCHANGED <<published, pc, req, hit, using, reply, touched>>

\* What the worker does by itself once it has a request.
Step(w) ==
    \/ CheckLoaded(w) \/ RejectFields(w) \/ LoadCached(w) \/ LoadMiss(w)
    \/ OpenArtifact(w) \/ OpenFails(w) \/ Install(w)
    \/ FindModel(w) \/ ModelGone(w) \/ Compute(w) \/ Finish(w)

Next ==
    \/ \E w \in Workers : Arrive(w) \/ RejectMalformed(w) \/ Step(w)
    \/ \E p \in Stored : Train(p)
    \/ \E n \in Unloadable : Unload(n)

Spec == Init /\ [][Next]_vars

\* The operating system runs every thread that can run.
Fairness == \A w \in Workers : WF_vars(Step(w))
FairSpec == Spec /\ Fairness

-----------------------------------------------------------------------------
Labels == {"idle", "check", "load", "open", "install", "predict", "compute",
           "reply"}

TypeOK ==
    /\ published \in [Stored -> Versions]
    /\ models \in Seq(Items(Names, Model))
    /\ pc \in [Workers -> Labels]
    /\ req \in [Workers -> Request \cup {NoRequest}]
    /\ hit \in [Workers -> BOOLEAN]
    /\ using \in [Workers -> Model \cup {NoModel}]
    /\ reply \in [Workers -> Reply]
    /\ touched \in [Workers -> SUBSET Names]

\* _models is a dict of at most _max_models entries, each filed under the name
\* of the model it holds, whatever loads, touches and evictions overlapped.
CacheSound ==
    /\ IsDict(models)
    /\ Len(models) <= MaxModels
    /\ \A i \in DOMAIN models : models[i].value.name = models[i].key

\* Every model name belongs to one tenant.
NamesUnshared == \A p, q \in Stored : p[2] = q[2] => p = q

\* The cache is keyed by name alone (inference_engine.py:104), yet when no two
\* tenants use the same name every prediction comes from a model of the
\* requesting tenant, under the requested name.
OwnModelWhenUnshared ==
    NamesUnshared =>
        \A w \in Workers : reply[w].status = "ok" =>
            /\ reply[w].model.tenant = req[w].tenant
            /\ reply[w].model.name = req[w].name

\* README.md:11 promises isolation of every tenant's models, with no condition
\* on their names.
OwnModel ==
    \A w \in Workers :
        reply[w].status = "ok" => reply[w].model.tenant = req[w].tenant

\* A model that a request loaded stays cached until its predict looks it up,
\* unless MaxModels other models were used in between or it was unloaded: the
\* eviction at inference_engine.py:186 takes the least recently used.
SurvivesUntilDisplaced ==
    \A w \in Workers :
        /\ pc[w] = "predict" /\ req[w].blob # NoBlob
        /\ req[w].name \notin Unloadable
        => \/ req[w].name \in Keys(models)
           \/ Cardinality(touched[w] \ {req[w].name}) >= MaxModels

\* inference_engine.py:201 says predict raises ModelNotLoadedError if the model
\* has not been loaded: a request that loaded it would then never get that.
NotFoundOnlyIfNotLoaded ==
    \A w \in Workers :
        reply[w] = Error("MODEL_NOT_FOUND") => req[w].blob = NoBlob

\* A cached model is replaced while it stays cached only by a load that had
\* missed before the model was cached (inference_engine.py:136 and 183): a load
\* that starts later returns early.
ReplacedOnlyByRacingLoad ==
    [][\A n \in Keys(models) \cap Keys(models)' :
            Lookup(models, n)' # Lookup(models, n) =>
                \E w \in Workers : /\ Install(w)
                                   /\ req[w].name = n
                                   /\ n \in touched[w]]_vars

\* What the callers see of a worker.
Phase == [w \in Workers |-> CASE pc[w] = "idle" -> "free"
                             [] pc[w] = "reply" -> "answered"
                             [] OTHER -> "serving"]

Promise == INSTANCE PredictionService WITH phase <- Phase

\* The engine implements the abstract service: one response per request, from a
\* published version of the tenant's own model (server.py:227, when no two
\* tenants share a model name).
Promised == Promise!Spec

\* Each request is answered: no branch of the handler loses it.
RequestAnswered ==
    \A w \in Workers : pc[w] = "check" ~> pc[w] = "reply"
=============================================================================
