# TLA+ models of the confidential ML feature store

This directory models the concurrent and failure-prone parts of the confidential ML
feature store: the enclave's model cache, the RPC between host and enclave, the enclave's
cache of data keys, the host's feature-set API over DynamoDB, the inference route with the
artifact files, and the attestation codec. TLC checks small instances. TLAPS proves every
safety property of the passing runs for every size, and that the two detailed models
implement their abstract specifications.
`PROJECT.json` lists the runs, the mutants, the source lines behind each definition, the
hazards and the theorems.

    tlc -workers 2 -config EngineCache.cfg MCInferenceEngine.tla
    tlapm InferenceEngineProofs.tla
    tlapm EnclaveRPCProofs.tla
    tlapm KeyCacheProofs.tla
    tlapm FeatureStoreProofs.tla
    tlapm InferenceRouteProofs.tla
    tlapm OrderedDictProofs.tla
    tlapm CborProofs.tla
    tlapm AttestationProofs.tla

The proof of `CborProofs` takes about five minutes, the others at most two each.

## 1. The system

An HTTP request reaches a FastAPI route on the host (`feature_store/`). The route
authenticates the tenant, reads or writes feature sets in DynamoDB, and for an inference
reads the model's encrypted artifacts from disk and calls the enclave over vsock. In the
enclave (`enclave/`) a thread per connection serves requests: it unwraps the model's data
key through KMS, decrypts the model, caches it and computes.

| Component | State | Operations | Interacts with | What makes it correct |
|---|---|---|---|---|
| Inference engine (`enclave/inference_engine.py`) | `_models`, an LRU of decrypted models, under a lock | `load_model`, `predict`, `is_model_loaded`, `list_loaded_models`, `unload_model` | called by the server's handler threads; calls the KMS client | bounded cache; a loaded model is there when it is looked up; predictions come from the right model; each request is answered |
| RPC server (`enclave/server.py`) | listening socket, thread pool, one handler per connection | accept, read frame, dispatch, write frame, stop | host client; engine | requests are answered in order on their connection; handlers come free; a shutdown ends and loses no answer |
| Enclave client (`services/enclave_client.py`) | `_pool`, a stack of connections, under a lock | `send_request` (and `predict`, `health_check`, `list_models` over it) | server | own response only; sole use of a connection; bounded sockets and retries; every call ends |
| Enclave KMS client (`enclave/kms_client.py`) | `_cache`, an LRU with a time to live, under a lock | `decrypt_data_key`, `clear_cache`, `cache_size` | attestation, host-side KMS proxy | bounded; no expired hit; no live key lost |
| DynamoDB service (`services/dynamo_service.py`) | the table (remote) | put, get, list, delete, batch get, tenant record | boto3, which resends requests | conditional writes; truthful answers; complete lists and batches |
| Feature service, routes, authentication | none | the four feature-set operations, feature vectors | DynamoDB service | ownership is checked before every access |
| Inference route and artifact loader (`routers/inference.py`), trainer (`scripts/train_model.py`) | artifact directory, event loop | read two files, list; write two files | enclave client; KMS | the two files belong together; what is listed is found |
| Client registry (`get_enclave_client`) | `app.state.enclave_client` | lazy creation | routes | one client, one pool |
| Attestation (`enclave/attestation.py`) | none that changes | encode, decode, issue and parse documents | NSM device or its mock | what is issued is read back; one string, one document |
| KMS service, configuration, logging, scripts | none that changes | single calls, validation | | |

Where the concurrency comes from:

* *In the enclave* the server runs up to `max_workers` handlers at once. They share the
  engine and the KMS client. Two requests overlap when several host processes call, and
  also with a single caller: after a timeout the client retries on a new connection while
  the first handler still works on the request.
* *In the host* the routes are coroutines that call blocking code, so one process runs the
  body of one request at a time; only `get_enclave_client`, a plain function, runs in
  FastAPI's thread pool before it. Trainers are processes of their own. Several processes
  share the DynamoDB table. `EnclaveClient` itself locks its pool and is written for threads, and is modelled with several.
* *In DynamoDB calls* botocore resends a request whose answer it did not get (the resource
  in `dynamo_service.py:55-62` is built with the default retry configuration).

Behaviours that are hard to test: steps between two critical sections of the same call,
eviction by another request, timeouts whose answer comes late, an enclave that restarts
under pooled connections, clock readings before a lock, replies of executed writes that are
lost, lists read in pages, a shutdown signal between any two steps of the main thread, and
files replaced while they are read. `PROJECT.json` lists each of them at its line.

## 2. Modules

| Module | Models |
|---|---|
| `OrderedDict` | Python's `OrderedDict` as both caches use it: a sequence of items, oldest first |
| `InferenceEngine` | `_handle_predict` of the server driving `load_model` and `predict` of the engine, one action per critical section or stretch between them |
| `PredictionService` | abstract specification: one response per request, from a published version of the tenant's own model; no cache |
| `EnclaveRPC` | `send_request` with its pool and retries, the connections, and the server's main thread, handler threads and shutdown |
| `RemoteCalls` | abstract specification: each call ends in the answer to its own request or an error; no connections |
| `KeyCache` | `decrypt_data_key`, `clear_cache`, `cache_size` with a clock |
| `FeatureStore` | authentication, ownership check, the four feature-set operations and the batch as a series of DynamoDB sends |
| `InferenceRoute` | `run_inference`, `list_available_models` and `get_enclave_client` in one host process, and the trainers that replace the files it reads |
| `Cbor` | the CBOR codec |
| `Attestation` | the documents it carries: any string of bytes, the mock's documents, and the parser |
| `MC*` | the finite instances of the modules above |
| `OrderedDictProofs` | lemmas on the operators of `OrderedDict` |
| `InferenceEngineProofs` | the inductive invariant of `InferenceEngine`, the theorems, and that it implements `PredictionService` |
| `EnclaveRPCProofs` | the inductive invariant of `EnclaveRPC` in layers, the theorems, and that it implements `RemoteCalls` |
| `KeyCacheProofs` | the inductive invariant of `KeyCache` and the theorems |
| `FeatureStoreProofs` | the inductive invariant of `FeatureStore` and the theorems |
| `InferenceRouteProofs` | the inductive invariant of `InferenceRoute` and the theorems |
| `CborProofs` | the codec: its recursions have solutions, decoding undoes encoding, encodings are shortest |
| `AttestationProofs` | the theorems on `Attestation` |

How state and actions correspond to the code:

* **InferenceEngine.** A worker is a handler thread inside `_handle_predict`; `pc` is the
  place where it is between two accesses to the engine. `CheckLoaded` is the call of
  `is_model_loaded` and the branch after it; `LoadCached`/`LoadMiss` are the first critical
  section of `load_model`; `OpenArtifact`/`OpenFails` everything without the lock (parsing,
  key, decryption, deserialisation); `Install` the second critical section with its
  eviction; `FindModel`/`ModelGone` the critical section of `predict`; `Compute` the rest.
  `RejectFields` is the check of the key field and the conversion of the features, which
  fails for what is no number and for an integer too large. The route of the host always
  sends the artifacts; `BlobOptional` says whether requests without them come too, which
  `_handle_predict` takes. A model
  is its tenant, name and version: what tells models apart. `published` is what the trainer
  last wrote; a request carries the version of the moment it was made. `padded` says that
  the request spells the name with blanks, which `is_model_loaded` does not strip and
  `load_model` does. `touched` is history.
* **EnclaveRPC.** A caller is a thread in `send_request`. A connection has the two ends
  `client` and `server` and one queue of frames each way; a frame is the request it carries
  or answers. The server's end passes from the listener's `backlog` through `accepted` (the
  main thread holds it) and `submitting` (inside `executor.submit`, under the executor's
  lock) to `queued`, until an executor thread takes it; the variables `backlog` and `queue`
  keep the order in which connections wait at the two ends of that way. `AttemptFails`
  is the except clauses: close, then raise or back off. `Crash` resets every connection and
  may take the responses in flight with it; the host's pool keeps its stale sockets.
  `Stop` is `stop()` in the signal handler, on top of whatever the main thread is doing:
  the event is set and the listener closed, and `shutdown(wait=True)` waits (`draining`)
  or, when the frame below holds the executor's lock, never returns (`stuck`). `Exit` is
  its end. `handled` and `late` are history.
* **KeyCache.** Entries keep the time of release and of expiry. `SampleClock` and
  `GetCached` are separate because `_get_cached` reads the clock before it takes the lock,
  and so are `Stamp` and `Store`. `Refuse` is a call without a tenant or a ciphertext.
  `Purge` keeps, with `Retain`, the unexpired entries in
  their order, which is what popping the expired keys one by one leaves. `started`,
  `deadline` and `since` are history.
* **FeatureStore.** A client is a request in progress in some host process. It brings two
  headers, `auth` and `key`, and names the tenant whose sets it wants, `target`.
  `Authenticate` is `get_current_tenant` with each of its refusals: a header is missing, the
  tenant has no record (`Registered`) or an inactive one, the key is not that of the record.
  `compare_digest` raises a `TypeError` when one of the keys has characters outside ASCII
  (`NonAscii`). `Authorize` is the ownership check. A DynamoDB
  request is sent up to `MaxTries` times: `SendLost` is a send that is never executed (or
  refused with an error, which ends the request at once when botocore does not retry it),
  and `PutItem` and `DeleteItem` may be executed and their answer lost. `QueryPage` reads any number of sets, up to DynamoDB's choice of page. Items are
  numbers, so that a deleted and recreated set differs. `BatchGetItem` is one round of
  `batch_get_feature_sets`, of which DynamoDB may leave any keys unprocessed. `live`, `seen`,
  `applied` and `undone` are history.
* **InferenceRoute.** A file is absent, empty (truncated), torn, or the content of a
  training; a key and a model of one training are a pair. `OpenBlob` to `WriteKey` are the
  trainer's two `write_bytes`, `Abort` its end at any point. `ResolveClient` and
  `CreateClient` are the test and the assignment of `get_enclave_client`; `loop` is the
  request whose coroutine has the event loop, from `EnterBody` to `Respond`. The enclave is
  reduced to the versions it has cached and the replies it may give. `DECRYPTION_FAILED` is
  its code for every `ModelLoadError`; the message tells the causes apart, and so does
  `detail` in the model: the data key (KMS), the artifact, or the model in it (`LoadFaults`).
  Two trainers that have the artifact open at one time (`mixing blob`) may leave a mixture,
  which may also hold text that is not base64 and is then answered with `INVALID_REQUEST`.
  `spoilt`, `calm`, `early`, `shown` and `promised` are history.
* **Cbor, Attestation.** Operators carry the function they stand for in their name:
  `DecodeNext` is `_CBORDecoder.decode`, `CborDecode` is `_cbor_decode`, `EncodeValue` and
  `Encoder` are `_cbor_encode`, `MockDocument` is `MockNSM.get_attestation_document`. A
  reader returns a value and the offset after it, or the exception raised. What calls itself
  in the code is a recursive function: the decoder of a task (a value, or so many items or
  pairs) and its offset, since every call in it is from a later one; the encoder of the depth
  to which lists and dicts nest. `Values[d]` is the set of the values that nest `d` deep at
  most. `Extend` enumerates the strings that may arrive; `Issue` the calls of the mock, whose
  `Payload` is wrapped in the list `CoseSign1`. The mock's `pcrs` are a sequence of items, as
  `dict.items` gives them. `IndexOf` is `int()`: it takes a number, or a text with blanks, a
  sign, leading zeros and underscores; `FromHex` is `bytes.fromhex`; both may refuse, and
  `PcrsAccepted` says which `pcrs` `_normalize_pcrs` accepts. `Pcr0` is the text of
  `MOCK_NSM_PCR0`, which empty `pcrs` are replaced by. Integers are byte strings, so that all
  eight bytes of one are kept.

Definitions whose comment begins with *Mutant of* are faulty variants of the definition
they precede. No specification uses them: they exist to check that each property can fail.

## 3. Runs

| Run | Checks | Instance |
|---|---|---|
| `engine_cache` | `TypeOK`, `CacheSound`, `SurvivesUntilDisplaced`, `OwnModelWhenUnshared` | 3 workers, 3 models of 2 tenants, cache of 2 |
| `engine_promise` | refinement of `PredictionService`, `ReplacedOnlyByRacingLoad`, `RequestAnswered` | 2 workers, 2 models, cache of 1, 2 versions, padded names, `unload_model` |
| `engine_shared_name` | violates `OwnModel` | 2 workers, 2 tenants with a model of the same name, all requests with artifacts |
| `engine_evicted` | violates `NotFoundOnlyIfNotLoaded` | 2 workers, cache of 1, all requests with artifacts |
| `rpc_calls` | `TypeOK`, `SoleOwner`, `OwnResponse`, `PooledQuiet`, `ConnectionsBounded`, `HandledPerRetries` | 2 callers with 2 calls each, 3 sockets, 2 attempts, pool of 1, 2 handlers, 1 crash |
| `rpc_live` | refinement of `RemoteCalls` (`CallsImplemented`), `OneAfterStop`, `NeverClosedUnanswered`, `CallReturns`, `HandlerReleased`, `StopEnds` | 2 callers with 1 call each, 2 sockets, 1 handler, 1 crash or shutdown, undecodable responses |
| `server_hang` | violates `GracefulStop` | 1 caller, 1 shutdown |
| `keys_cached` | `TypeOK`, `CacheBounded`, `HitWasLive`, `LiveKeyKept`, `LifetimeBounded` | 2 threads, 3 keys, cache of 2, time to live 1, clock up to 2 |
| `keys_expire` | violates `ExpiredEntryLeaves` | 2 threads, 2 keys, cache of 1 |
| `feature_sets` | `TypeOK`, `ListBetweenStates`, `BatchBetweenStates`, `RefusalJustified`, `AnswerTellsEffect`, `OnlyOwnerAnswered`, `OnlyOwnerWrites`, `RepeatedOnlyIfUndone` | 2 clients with any kind of headers, a tenant whose account may be closed and one without a record, 2 sets, 2 sends, 2 items, batches of both sets with 1 further round |
| `inference_route` | `TypeOK`, `QuietPairMatches`, `CalmArtifactsLoad`, `ListedIsFound`, `ClientsOnlyAtStart` | 2 requests, 2 trainers, 1 model, 2 trainings, 2 clients, real or mock |
| `attestation` | `Reencoded`, `OneDocument`, `IssuedReadBack` | strings of up to 5 bytes over 16; 13 PCR maps of which 4 are accepted, 4 times, 4 values per field; values that nest 5 deep |

Why the bounds are enough for what they show:

* Eviction needs more models than the cache holds; the guarantee of the LRU order needs a
  cache of at least two and a third worker that displaces. A race of two loads needs two
  workers, and a stale install two versions.
* A response that could reach another request needs a second call on a pooled connection
  after a failed one: two callers, two calls, two attempts. Pool overflow needs two callers
  and a pool of one; waiting for a handler needs more connections than handlers (`rpc_live`).
  A third socket lets a caller reconnect while the server still holds its old connection.
* Expiry between a clock reading and the lock needs one tick in each place; the clock goes
  one tick past the time to live. Eviction of a live key needs one key more than the cache.
* A write of another request between two sends of the same one needs two clients and two
  sends. A list that is overtaken needs two sets and two pages, and a batch two sets and
  two rounds.
* The requests of `feature_sets` come with every kind of headers (`Credentials`: the
  tenant's own, absent, with the wrong key, with one that cannot be compared, of a tenant
  without a record), and the account is closed at any time (`Closing`). Tenants do not share
  items, so one with sets is enough; any request may ask for the sets of the other.
* A shutdown can find a connection in each stage with two of them and one handler. A crash
  and a shutdown never meet in one behaviour of `rpc_live` (`MaxEnds` bounds their sum);
  `rpc_calls` has no shutdown, which closes connections as its crash does.
* Files of two trainings can be mixed by two overlapping trainers, or by one that is killed
  and a second training. A second client needs two requests at the start. Models do not
  share files, so one is enough.
* Five bytes hold a map of two items, a list in a list, a tag over a text and a two-byte
  length with its content. The 16 bytes select each branch of the decoder except the four-
  and eight-byte lengths, which the documents of the mock contain, as they do texts, byte
  strings and lists on both sides of 24 and 256. A string of five bytes cannot nest
  deeper than five, so `MaxDepth` cuts nothing off. The PCR maps have an index as a number
  and in each kind of text that `int()` accepts or refuses, one number in two spellings,
  hexadecimal in both cases and with blanks, wrong types and a wrong length, and none at all.

`SYMMETRY` is used only in runs without liveness. `CHECK_DEADLOCK FALSE` stands in the runs
where the number of calls or items is bounded, so that the model stops when they are used up.

Fairness is weak fairness of each thread (`Step`, `CallerStep`, `HandlerStep`), of the
executor's assignment of free threads, of the server's main thread (`MainStep`), and of the
clock. The code has no step that waits
without a timeout: sockets have one on both sides (`enclave_client.py:361`,
`server.py:181`), the locks are held for bounded work, and backoff is a sleep. Callers,
the trainer, signals, crashes and restarts have no fairness, and `InferenceRoute` and
`Attestation` none at all.

## 4. What the runs show

* The cache never holds more than its limit or a model under another's name, although
  nothing is locked between lookup and install. A cached model is replaced, while cached,
  only by a load that had missed before it came in.
* A loaded model is not lost to fewer than `max_models` other models. It is lost to that
  many, between the two critical sections of one request: `engine_evicted` (the request
  fails although it brought its model; `inference_engine.py:201` documents the error for
  models that have not been loaded).
* With distinct names the engine implements the abstract service. With equal names of two
  tenants it does not: in `engine_shared_name` a request brings its own artifact, `load_model`
  finds the name cached and returns early, and the other tenant's model answers. Names are not unique across tenants anywhere in
  the code, and `README.md:11` of the repository states isolation without that condition.
* A caller never gets the response to another request or to an earlier attempt. The
  reason is `PooledQuiet`: only a connection whose response was read is pooled.
* A request is dispatched at most `max_retries` times, and at least once if it succeeds.
  `RemoteCalls` says so with no connections: it lets a request be executed also after its
  call has failed, which happens when a timeout overtakes a busy handler.
* A shutdown lets each connection serve at most the request its handler was reading for,
  closes none whose request it has read and not answered, and ends, although idle pooled
  connections hold handlers: their reads time out. It does not end when the signal arrives
  inside `executor.submit`: `server_hang`, against `server.py:154`. (In CPython
  `ThreadPoolExecutor.submit` and `shutdown` take the same lock, which is not reentrant.)
  Connections in the backlog or between `accept` and `submit` are closed unserved.
* A batch over several rounds reports every set as it was at some time of the request.
* Files that nobody is writing are a pair, unless a trainer was killed between its writes or
  overlapped with another: then the new model with the old key, or a mixture, stays until
  the next training, and requests are refused with `DECRYPTION_FAILED`. A request whose
  files were a pair from its beginning to its end finds them, neither empty, and the real
  enclave does not say that the artifact cannot be decrypted; it may say that of the data
  key, for which it calls KMS, or of the model inside. Nothing ever
  removes a file, so that what `/inference/models` lists is found later.
* Requests that come before the first client is stored may each create one. Later ones
  never do, and share the last one stored.
* What the decoder accepts is written back to the same value in no more bytes, and no
  document is the beginning of another.
  The mock's documents are read back as issued: each index as a number, with the bytes of the
  last item given for it, however either was spelt, the default PCR0 when none was given, and
  empty fields.
* Only a request with a tenant's own key, whose account was active while the request was
  there, changes the tenant's sets or learns of them. A key outside ASCII is answered with an
  internal error, never with access. A request in progress when the account is closed still completes.
* The key cache never returns a key that had expired when the call began, and removes a key
  before its time only for `max_cache_size` others. It does not remove an expired key by
  itself: `keys_expire`, against `docs/SECURITY_MODEL.md:130`.
* With lost replies a write that took effect may be reported as a conflict or as not found,
  but only after more than one send; and a resent create may bring an item back that another
  request has deleted in between (`RepeatedOnlyIfUndone` is the exact limit of that).

Differences between text and code that need no run: versions of feature sets are announced
(`README.md:54`) and always 1 (`dynamo_service.py:113`); `README.md:195` shows a condition
on the caller's tenant where the code tests that the item exists (`dynamo_service.py:120`,
`223`); `served_from_cache` is false whenever a blob is sent, cached or not
(`server.py:267`); the mock maps engine errors to `INVALID_REQUEST` (`enclave_client.py:499`)
and the server to `INFERENCE_FAILED` (`server.py:289`); `_create_inference_engine`
passes arguments that `EnclaveKMSClient` does not have (`server.py:382-387`); in mock mode
`get_enclave_client` creates a client whose key resolver returns the wrapped key itself, so
that an artifact of `train_model.py`, whose key KMS wrapped, is refused, where steps 5 and 6
of the quick start (`README.md:98-102`) and `docs/ARCHITECTURE.md:107-120` describe its use
(`Opens` in `InferenceRoute`); `GET /inference/models` lists "for the tenant"
(`inference.py:109`) but `loaded_models` names the loaded models of every tenant;
`decode` documents `AttestationError` for malformed input (`attestation.py:373`) and raises
`TypeError` for a map with a list or map as a key and `UnicodeDecodeError` for a text that
is not UTF-8 (`Raise` in `Attestation`); and an index `true` passes the test that PCR indexes are
integers (`attestation.py:295`), as `bool` is a subclass of `int`.

## 5. Proofs

`InferenceEngineProofs` proves, for every number of workers, tenants, names, versions and
cache entries,

* `TypeCorrect`: `Spec => []TypeOK`,
* `CacheSoundness`: `Spec => []CacheSound`,
* `OwnModelServed`: `Spec => []OwnModelWhenUnshared`,

from the assumptions on the constants in `InferenceEngine` (artifacts belong to known
tenants and names, and the limits are positive). The inductive invariant is

    IInv == TypeOK /\ CacheSound /\ RequestSound /\ Origin

`CacheSound` alone is not inductive: that an installed model is filed under its own name,
and is an existing one, needs what `RequestSound` says of a worker past `Arrive` (its
request names stored artifacts, and carries a version while it loads). `OwnModelWhenUnshared`
needs `Origin`: a model that a worker computes or answers with has the requested name, and
both it and the request stand for stored artifacts; when names are unshared the tenants are
then equal. `NextIInv` has one step per action. What an action does to the cache is in
`TouchOK`, `InstallOK` and `DropOK`, which rest on the lemmas of `OrderedDictProofs`:
dropping, setting, touching, retaining and evicting keep a dict a dict, keep the order of
the items that stay, and add nothing else.

A second invariant over the first, `Followed`, proves

* `LoadedModelsSurvive`: `Spec => []SurvivesUntilDisplaced`,
* `ReplacedByRacingLoads`: `Spec => ReplacedOnlyByRacingLoad`.

The first of them is not inductive: that a model is still cached says nothing of how near
it is to eviction. `Followed` says that the names after it in the cache are among those
touched since, so that when it is evicted the `MaxModels` entries that stay are that many
different touched names (`PlacedEvictTo` builds the injection). For a worker between its
two critical sections it says that a name that was missing and is now cached has been
touched since; `Install` replaces a model only then.

The refinement of `PredictionService` is the last part of the module:

* `EngineImplementsPromise`: `Spec => Promised`, assuming `NamesUnshared`,

for safety, that is without the fairness of `FairSpec`. The refinement mapping hides the
cache and a worker's locals and reduces its program counter to `Phase`. The invariant is
`RInv == IInv /\ Fresh /\ HitSound`: `Fresh` says that every cached model, every blob of a
request and the model a worker computes with is a version already published, and `HitSound`
that a worker about to predict holds `served_from_cache` exactly when its request had no
blob. `Compute` needs all of it: `Origin` and `NamesUnshared` give the tenant and name of
the abstract answer, `Fresh` its version, `HitSound` its `cached`. `NextPromise` maps each
action: `Train`, `Arrive`, `RejectMalformed` and `Finish` are `Publish`, `Submit`, `Refuse`
and `Collect`; every response is `Answer`; the rest stutter.

`FeatureStoreProofs` proves every property of `FeatureStore`, for any number of concurrent
requests, tenants, sets, sends and rounds: `TypeCorrect`, `PagedListsAreTrue`
(`ListBetweenStates`), `BatchesAreTrue` (`BatchBetweenStates`), `RefusalsAreTrue`
(`RefusalJustified`), `AnswersTellEffects` (`AnswerTellsEffect`), `OwnersWrite`
(`OnlyOwnerWrites`), `OwnersAreAnswered` (`OnlyOwnerAnswered`) and `RepeatsFollowUndoing` (`RepeatedOnlyIfUndone`). The invariant is

    IInv == TypeOK /\ ReplyOK /\ \A c \in Clients : Good(c)

`Good(c)` says of one client what its place implies: `Control` (past the ownership check the
two tenants are equal; a write has been executed fewer times than it was sent), `Current`
(what the table holds now is in `seen`), `Collected` (so is what a list or a batch has
collected: the sets up to the cursor, or no longer wanted), `Standing` (an executed write
stands until another undoes it) and `Answer` (the reply fits what was seen and done).
`Current` is what makes a page read late, or in another round, true of the request as a whole;
`Standing` is why the condition of a resent write fails unless another client came between.
`Frame` carries `Good` over for every client that a step does not touch, and `Written` shows
that a write keeps `Good` of the other clients, the only place where they interact.
TLC found no violation of `IInv` on the instance of `feature_sets` before it was proved.

Who may write and who is answered is a second invariant over the first, `Ownership`: a client
past `Authenticate` is entitled to the tenant it names (it brings the key of the tenant's
record, which was active while the request was there), one past `Authorize` asks for that
tenant, and a reply that tells anything of the sets stands only at such a client. A client
still at `Authenticate` that finds the record active came, or waited, while it was (`Alive`).
`OnlyOwnerWrites` needs it at the step that writes, which is several steps after the headers
were looked at.

`EnclaveRPCProofs` proves the safety properties of `EnclaveRPC`, for any finite set of
calling threads and any number of connections, retries, handlers, crashes and shutdowns:
`TypeCorrect`, `ConnectionOwned` (`SoleOwner`), `PoolIsQuiet` (`PooledQuiet`),
`ResponseIsOwn` (`OwnResponse`), `FewConnections` (`ConnectionsBounded`),
`RetriesBoundDelivery` (`HandledPerRetries`), `FewAfterStop` (`OneAfterStop`) and
`ClosedAfterAnswer` (`NeverClosedUnanswered`). The threads are assumed to be finitely many
(`CallersAssumption`), because connections are counted against them. The invariant is

    IInv == /\ Typed /\ SoleOwner /\ Waits /\ Flights
            /\ Served /\ Answered /\ Counted /\ Lately /\ Bounded

built in layers, each inductive given those before it:

* `Typed`: the types, and what a caller holds at each place of `send_request`.
* `SoleOwner`: as it is checked; it makes the steps of other callers leave a caller's
  connection alone.
* `Waits`: the backlog and the executor's queue hold the connections of their stage, once
  each, so that a connection taken from one is not served twice.
* `Flights`: `PooledQuiet`, and for a caller's own connection where its request is. While
  the caller waits it is unread, at work, on its way back, or lost with a closed connection;
  before and after nothing is in flight. `OwnResponse` says only what is returned, which is
  too late to say why.
* `Served`, `Answered`: what is dispatched or returned has been executed.
* `Counted`: the executions of a request and its copies not yet read are together at most
  the attempts made. The copies count because a timed-out attempt may be executed later.
* `Lately`: a connection that waits or is being read has served nothing since `stop()`.
* `Bounded`: the open connections are finitely many, and `ConnectionsBounded`.

`NeverClosedUnanswered` follows from `Flights`: the request of a waiting caller that was
read is at work, which only a crash or the writing of its answer ends, or its answer is on
the connection.

The last part of the module proves `CallsRefined`: `Spec => CallsImplemented`. The mapping reduces a caller to `Phase` and `Answer`; only `Call`, the last failed attempt, a
received response, the return and the reading of a request by a handler are abstract steps.
The reading needs `Counted`: the request was made and is not yet executed `MaxRetries` times.
The success needs `Flights` and `Served`: the response is the caller's own, and was executed.

`KeyCacheProofs` proves `TypeCorrect`, `CacheStaysBounded` (`CacheBounded`), `HitsWereLive`
(`HitWasLive`), `LiveKeysStay` (`LiveKeyKept`) and `LifetimesBounded` (`LifetimeBounded`), for
any threads, keys, limit and time to live. The invariant adds to these properties
`Recent` (the keys after a key in the cache have been used since it was; eviction then takes
a key only when `MaxSize` others have), `Dated` (a cached key expires at its deadline, so
that purging takes only keys whose deadline is past), and `InTime` (what a thread has read of
the clock is not ahead of it, and its entry has its whole time to live). `PurgedGood`,
`SetGood`, `TouchGood` and `EvictGood` carry it over the operations on the cache; `PurgedGood`
covers a purge by an old clock reading, which is what `_get_cached` does.

`InferenceRouteProofs` proves `TypeCorrect`, `QuietFilesMatch` (`QuietPairMatches`),
`CalmRequestsLoad` (`CalmArtifactsLoad`), `ListedModelsAreFound` (`ListedIsFound`) and
`LateRequestsShare` (`ClientsOnlyAtStart`), for any requests, trainers, models, trainings and
clients. The invariant is

    IInv == Typed /\ WellWritten /\ Calm /\ Shown /\ Early

`WellWritten` extends `QuietPairMatches` to files being written: an unspoilt model has one
writer at most, whose version is in the artifact before it goes on to the key. `Calm` says
that what a calm request has read so far is what the files hold, and that its answer blames
neither the files nor, from the real enclave, the artifact's decryption; `Shown` says that a listed
model stays stored and that a promised request is not told otherwise, and `Early` that a
request about to create a client came before there was one.

`CborProofs` and `AttestationProofs` prove every property of `Attestation`, for every alphabet
of bytes, every length of document and every call of the mock: `OneDocumentOnly`
(`OneDocument`), `DecodedReencoded` (`Reencoded`) and `IssuedIsReadBack` (`IssuedReadBack`). The induction theorems of the library take a predicate,
which the provers cannot instantiate. So every induction here has a set of numbers in the
place of the predicate and goes by the least number principle (`Least`, from the
well-foundedness of `<`; `Downward` for inductions from the end of a string). The argument:

* *The recursive functions exist.* TLA+ defines one by `CHOOSE`, and nothing follows from its
  equation until some function is shown to obey it. `DecoderDef`, `ValuesDef`, `EncoderDef`,
  `AssignedIs` and `Flattened` (for the library's `FlattenSeq`) do that; for the decoder because
  each task calls only later offsets (`Decent`), and none from the end of the string. Nothing
  is needed of `Utf8` but that it is a test of the bytes alone.
* *One document.* `DecoderSame`: a string and its continuation are decoded alike, as far as
  the shorter one goes. So a string that decodes ends where its continuation's value ends,
  and the continuation has trailing bytes. `OneInv` says that `complete` is one only if some
  prefix of the document decodes; no longer document does then.
* *Round trip.* `HeaderRead` shows that `ReadLength` undoes `EncodeLength` for every number
  of eight bytes; `ReadsBack` that from the place where a value's encoding stands the decoder
  returns the value and the offset after it, by induction over the nesting, and within a list
  or dict over its items from the last. It needs that a dict built from items with distinct
  keys is those items (`Keyed`). `RoundTrip` is its use at offset 0.
* *Shortest headers.* `DecodedFits`: the value that is decoded is in `Values`, and its encoding
  takes no more bytes than were read, by induction over the offset from the end. A list's
  items fit one after the other (`Fits`), and `FitsAssigned` shows that assignments to equal
  keys only make the encoding shorter. `Reencoded` follows from it and `RoundTrip`.
* *Read back.* `IssuedDecoded` is the round trip for the mock's two encodings. `IssuedParsed`
  adds what the parser finds in the dict, by the position of each name. `ItemsGiven` types
  what the conversions return for accepted items (`FromHexType`: the bytes of a hexadecimal
  text are bytes); `NormalizePcrs` keeps the last value of a number because `Assigned` does.

The invariant `DocumentInv` says that `decoded` and `parsed` belong to the document, which is
either a string of bytes from outside or that of a call. The assumptions of `Attestation` are
the types of the mock's arguments and that an
index given as a text is a number below 2^32 (`AttestationAssumption`), that `MaxDepth` is at least the
length of a string from outside, which cannot nest deeper, and that strings and lists are no
longer than `MaxLength`, the 2^31 - 1 to which TLC counts (`DocumentAssumption` for the mock's
payload); `Magnitude` spells every number below 2^32. Python's limit on recursion, which
refuses documents nested about a thousand deep, is not modelled.

TLC found no violation of any of these invariants on the instances of the runs before it
was proved; the invariants that were not inductive at first were strengthened, never the
properties weakened. Three definitions were changed so that they could be reasoned about,
without a change of behaviour: `KeyCache.Purge` was a `SelectSeq`, which the library defines
by recursion, `EnclaveRPC` kept both waiting lines in one sequence, and the codec was made of
`RECURSIVE` operators.

What remains with TLC is liveness under fairness: `RequestAnswered`, `CallReturns`,
`HandlerReleased` and `StopEnds`. The prover has no rules for `WF_` and `ENABLED`.
The four runs that expect a violation are counterexamples, and only TLC gives those.

## 6. Not modelled

* `health` of the server and `check_connectivity` change nothing. `MockEnclaveClient` is
  modelled as `get_enclave_client` creates it, not with the resolvers tests pass to it.
* A second shutdown signal during the handler of the first, which returns early
  (`server.py:155`), and the constructors that fail at start-up.
* Durations. A timeout may fire at any time, so a call that fails because all its attempts
  drew pooled connections that the server had closed as idle is not told apart from others.
* The NSM device (`get_attestation_document` of the module), the stateless wrappers of
  `KMSService`, and the dates and base64 of `as_dict`.
* Frames are atomic in `EnclaveRPC`: a partly read frame ends in the same except clause as a
  connection that closes or times out.
* Cryptography, KMS and the numbers predicted: success or an error code. The
  contents of features, and the encodings of numbers, names and dates.
* Configuration, logging, HTTP error bodies, deployment scripts.

## 7. Plan

Written so far, in this order: `OrderedDict`, `InferenceEngine` (the core behaviour of the
system: right model, bounded cache), `PredictionService`, `EnclaveRPC`, `KeyCache`,
`FeatureStore`, the first proofs; then shutdown in `EnclaveRPC`, the batch in
`FeatureStore` and its proofs, `InferenceRoute`, `Attestation` and `RemoteCalls`; and the
proofs of `EnclaveRPC`, `KeyCache`, `InferenceRoute` and the codec. Next:

1. A composition of `EnclaveRPC` with the engine: retried requests that overlap with
   themselves in the model cache.
2. The idle timeout of pooled connections, with durations: how many stale sockets one call
   may draw before its attempts are used up.
