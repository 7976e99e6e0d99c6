------------------------ MODULE InferenceRouteProofs ------------------------
(***************************************************************************)
(* The safety of InferenceRoute for any number of requests, trainers,      *)
(* models, trainings and clients.                                          *)
(***************************************************************************)
EXTENDS InferenceRoute, FiniteSetTheorems, TLAPS

\* A request that is in progress has a model, and one that works on the model's
\* files is an inference.
Asked == \A r \in Requests :
            pc[r] # "idle" => req[r] \in [op : Ops, model : Models]

Typed == TypeOK /\ Asked

\* While no writing of m was cut or overlapped, it has one writer at most, who
\* had the file to itself and has put its version in it before it goes on to the
\* key.
Written(m) ==
    ~spoilt[m] =>
        /\ \A t, u \in Writers(m) : t = u
        /\ \A t \in Writers(m) :
            /\ job[t].at # "mixing blob"
            /\ job[t].at = "writing blob" => blob[m] \in {Empty, Torn}
            /\ job[t].at # "writing blob" => blob[m] = job[t].version
        /\ Writers(m) = {} =>
            \/ Pair(blob[m], key[m])
            \/ blob[m] = Absent /\ key[m] = Absent

WellWritten == \A m \in Models : Written(m)

\* What a calm request has read is what the files hold.
CalmOf(r) ==
    calm[r] =>
        /\ pc[r] # "idle"
        /\ Pair(blob[req[r].model], key[req[r].model])
        /\ pc[r] \in {"read key", "call enclave"} => gotBlob[r] = blob[req[r].model]
        /\ pc[r] = "call enclave" => gotKey[r] = key[req[r].model]
        /\ pc[r] = "done" =>
            /\ reply[r].kind \notin {"model_artifact_not_found",
                                     "invalid_model_artifact"}
            /\ ~mock /\ "detail" \in DOMAIN reply[r] =>
                    reply[r].detail # "artifact"

Calm == \A r \in Requests : CalmOf(r)

\* What was shown is stored, and stays so.
Shown ==
    /\ \A m \in shown : Stored(m)
    /\ \A r \in Requests : promised[r] =>
        /\ pc[r] # "idle" /\ req[r].model \in shown
        /\ reply[r].kind # "model_artifact_not_found"
    /\ \A r \in Requests : pc[r] = "idle" => reply[r] = NoReply

\* A request that finds no client came before there was one.
Early ==
    \A r \in Requests :
        /\ pc[r] = "resolve client" /\ client = None => early[r]
        /\ pc[r] = "create client" => early[r]

IInv == Typed /\ WellWritten /\ Calm /\ Shown /\ Early

-----------------------------------------------------------------------------
\* The marks of files without a version: distinct, and no versions.
LEMMA ThreeContents ==
  /\ Absent # Empty /\ Absent # Torn /\ Empty # Torn
  /\ Absent \notin Nat /\ Empty \notin Nat /\ Torn \notin Nat
<1>1. ASSUME NEW a, NEW b PROVE Cardinality({a, b}) # 3
  <2>1. IsFiniteSet({a}) /\ Cardinality({a}) = 1
    <3>1. {a} = {} \cup {a}
      OBVIOUS
    <3> QED
      BY <3>1, FS_EmptySet, FS_AddElement
  <2>2. Cardinality({a} \cup {b}) \in {1, 2}
    BY <2>1, FS_AddElement
  <2>3. {a} \cup {b} = {a, b}
    OBVIOUS
  <2> QED
    BY <2>2, <2>3
<1>2. CASE Absent = Empty \/ Absent = Torn \/ Empty = Torn
  <2>1. \/ {Absent, Empty, Torn} = {Absent, Empty}
        \/ {Absent, Empty, Torn} = {Absent, Torn}
    BY <1>2
  <2> QED
    BY <1>1, <2>1, ContentAssumption
<1> QED
  BY <1>2, ContentAssumption

\* A refusal is a reply, with its error and code.
LEMMA RefusalType ==
  ASSUME NEW e \in Errors, NEW c \in Codes
  PROVE  /\ Refusal(e, c) \in Replies
         /\ Refusal(e, c).kind = e /\ Refusal(e, c).code = c
  BY DEF Refusal, Replies

\* No error code of the enclave reads as a fault of the artifact files.
LEMMA NormalizedType ==
  ASSUME NEW code \in Codes \cup {"DECRYPTION_FAILED"}
  PROVE  Normalized(code) \in
            Errors \ {"model_artifact_not_found", "invalid_model_artifact"}
  BY DEF Normalized, Errors

\* The answer to a load that failed.
LEMMA LoadFailedType ==
  ASSUME NEW d \in Details
  PROVE  /\ LoadFailed(d) \in Replies
         /\ LoadFailed(d).kind \notin {"model_artifact_not_found",
                                      "invalid_model_artifact"}
         /\ LoadFailed(d).detail = d
<1>1. Normalized("DECRYPTION_FAILED") \in
            Errors \ {"model_artifact_not_found", "invalid_model_artifact"}
  BY NormalizedType
<1> QED
  BY <1>1 DEF LoadFailed, Replies

\* Every step of a trainer keeps types.
LEMMA TrainerType ==
  ASSUME Typed, NEW t \in Trainers, TrainerStep(t)
  PROVE  Typed'
<1> USE ThreeContents, BoundsAssumption
    DEF Typed, TypeOK, Asked, FilesChange, clientVars, requestVars, At
<1>c. ASSUME FilesChange PROVE calm' \in [Requests -> BOOLEAN]
  BY <1>c DEF Pair
<1>j. job[t].at # "idle" => job[t] \in Job
  BY DEF NoJob
<1>a. ASSUME NEW l \in {"trained"} \cup Writing,
             job[t].at # "idle", At(t, l)
      PROVE  job' \in [Trainers -> Job \cup {NoJob}]
  BY <1>a, <1>j DEF Job, Writing
<1>1. CASE BeginTraining(t)
  <2>1. PICK m \in Models : job' = [job EXCEPT ![t] =
                    [at |-> "trained", model |-> m, version |-> trainings + 1]]
    BY <1>1 DEF BeginTraining
  <2>2. trainings + 1 \in Versions
    BY <1>1 DEF BeginTraining, Versions
  <2>3. job' \in [Trainers -> Job \cup {NoJob}]
    BY <2>1, <2>2 DEF Job
  <2> QED
    BY <1>1, <2>2, <2>3 DEF BeginTraining, Versions
<1>2. CASE OpenBlob(t)
  <2>1. job[t].model \in Models /\ job[t] \in Job
    BY <1>2, <1>j DEF OpenBlob, Job
  <2>2. job' \in [Trainers -> Job \cup {NoJob}]
    <3>1. PICK l \in Writing, us \in SUBSET {u \in Trainers : job[u].at # "idle"} :
            job' = [u \in Trainers |-> IF u \in us
                                      THEN [job[u] EXCEPT !.at = l] ELSE job[u]]
      <4> DEFINE us == {u \in Writers(job[t].model) : FileOpen(u)} \cup {t}
                 l == IF {u \in Writers(job[t].model) : FileOpen(u)} = {}
                      THEN "writing blob" ELSE "mixing blob"
      <4>1. us \in SUBSET {u \in Trainers : job[u].at # "idle"}
        BY <1>2 DEF OpenBlob, Writers, Writing
      <4>2. l \in Writing
        BY DEF Writing
      <4>3. job' = [u \in Trainers |-> IF u \in us
                                      THEN [job[u] EXCEPT !.at = l] ELSE job[u]]
        BY <1>2 DEF OpenBlob
      <4> HIDE DEF us, l
      <4> QED
        BY <4>1, <4>2, <4>3
    <3>2. ASSUME NEW u \in us PROVE [job[u] EXCEPT !.at = l] \in Job
      <4>1. job[u] \in Job
        BY DEF NoJob
      <4> QED
        BY <4>1 DEF Job
    <3> QED
      BY <3>1, <3>2
  <2>3. blob' \in [Models -> Contents] /\ spoilt' \in [Models -> BOOLEAN]
    BY <1>2, <2>1 DEF OpenBlob, Contents
  <2> QED
    BY <1>2, <1>c, <2>2, <2>3 DEF OpenBlob
<1>3. CASE WritePart(t)
  BY <1>3, <1>c, <1>j DEF WritePart, FileOpen, Job, Contents
<1>4. CASE WriteBlob(t)
  <2>1. blob' \in [Models -> Contents]
    <3>1. job[t].model \in Models /\ job[t].version \in Versions
      BY <1>4, <1>j DEF WriteBlob, FileOpen, Job
    <3>2. PICK content \in {job[t].version, Torn} :
            blob' = [blob EXCEPT ![job[t].model] = content]
      BY <1>4 DEF WriteBlob
    <3> QED
      BY <3>1, <3>2 DEF Contents
  <2> QED
    BY <1>4, <1>a, <1>c, <2>1 DEF WriteBlob, FileOpen, Writing
<1>5. CASE OpenKey(t)
  BY <1>5, <1>a, <1>c, <1>j DEF OpenKey, Job, Contents, Writing
<1>6. CASE WriteKey(t)
  <2>1. key' \in [Models -> Contents \ {Torn}]
    <3>1. job[t].model \in Models /\ job[t].version \in Versions
      BY <1>6, <1>j DEF WriteKey, Job
    <3>2. job[t].version \in Contents \ {Torn}
      BY <3>1 DEF Contents, Versions
    <3> QED
      BY <1>6, <3>1, <3>2 DEF WriteKey
  <2> QED
    BY <1>6, <1>c, <2>1 DEF WriteKey
<1>7. CASE Abort(t)
  BY <1>7, <1>j DEF Abort, Job
<1> QED
  BY <1>1, <1>2, <1>3, <1>4, <1>5, <1>6, <1>7 DEF TrainerStep

\* What a response changes.
LEMMA Responds ==
  ASSUME Typed, NEW r \in Requests, NEW answer \in Replies, Respond(r, answer)
  PROVE  /\ reply' \in [Requests -> Replies] /\ reply'[r] = answer
         /\ loop' \in Requests \cup {Nobody}
         /\ pc' \in [Requests -> Labels] /\ pc'[r] = "done"
         /\ \A s \in Requests \ {r} : reply'[s] = reply[s] /\ pc'[s] = pc[s]
  BY DEF Respond, Goto, Labels, Typed, TypeOK

\* Every step of a request keeps types.
LEMMA RequestType ==
  ASSUME Typed, NEW r \in Requests, RequestStep(r)
  PROVE  Typed'
<1> USE BoundsAssumption DEF Goto, fileVars, clientVars
<1>q. pc[r] # "idle" => req[r].model \in Models /\ req[r] \in [op : Ops, model : Models]
  BY DEF Typed, Asked
<1>p. ASSUME NEW l \in Labels, Goto(r, l)
      PROVE  /\ pc' \in [Requests -> Labels]
             /\ \A s \in Requests : pc'[s] # "idle" => pc[s] # "idle" \/ s = r
  BY <1>p DEF Typed, TypeOK
<1>a. ASSUME UNCHANGED req, pc[r] # "idle",
             \A s \in Requests \ {r} : pc'[s] = pc[s]
      PROVE  Asked'
  BY <1>a DEF Typed, Asked
<1>1. CASE Arrive(r)
  <2>1. PICK op \in Ops, m \in Models :
            /\ req' = [req EXCEPT ![r] = [op |-> op, model |-> m]]
            /\ calm' = [calm EXCEPT ![r] = Pair(blob[m], key[m])]
            /\ promised' = [promised EXCEPT ![r] = m \in shown]
    BY <1>1 DEF Arrive
  <2>2. [op |-> op, model |-> m] \in [op : Ops, model : Models]
    OBVIOUS
  <2>3. /\ req' \in [Requests -> [op : Ops, model : Models] \cup {NoRequest}]
        /\ req'[r] \in [op : Ops, model : Models]
    BY <2>1, <2>2 DEF Typed, TypeOK
  <2>4. /\ calm' \in [Requests -> BOOLEAN] /\ promised' \in [Requests -> BOOLEAN]
        /\ early' \in [Requests -> BOOLEAN]
    <3>1. PICK x \in BOOLEAN : calm' = [calm EXCEPT ![r] = x]
      BY <2>1 DEF Pair
    <3>2. PICK y \in BOOLEAN : promised' = [promised EXCEPT ![r] = y]
      <4>1. (m \in shown) \in BOOLEAN
        OBVIOUS
      <4> QED
        BY <2>1, <4>1, Zenon
    <3>3. PICK z \in BOOLEAN : early' = [early EXCEPT ![r] = z]
      BY <1>1 DEF Arrive
    <3> QED
      BY <3>1, <3>2, <3>3 DEF Typed, TypeOK
  <2>5. TypeOK'
    BY <1>1, <2>3, <2>4 DEF Arrive, Typed, TypeOK, Labels
  <2>6. Asked'
    BY <1>1, <2>1, <2>3 DEF Arrive, Typed, TypeOK, Asked
  <2> QED
    BY <2>5, <2>6 DEF Typed
<1>2. CASE ResolveClient(r)
  <2>1. TypeOK'
    BY <1>2 DEF ResolveClient, Typed, TypeOK, Labels
  <2>2. Asked'
    BY <1>2, <1>a DEF ResolveClient, Typed, TypeOK
  <2> QED
    BY <2>1, <2>2 DEF Typed
<1>3. CASE CreateClient(r)
  <2>1. TypeOK'
    <3>1. /\ created' \in 0..MaxClients /\ client' \in 0..created'
          /\ created' \in 0..created' /\ 0..created \subseteq 0..created'
      <4>1. created \in 0..MaxClients /\ client \in 0..created
        BY DEF Typed, TypeOK
      <4>2. created < MaxClients /\ created' = created + 1 /\ client' = created'
        BY <1>3 DEF CreateClient
      <4> QED
        BY <4>1, <4>2
    <3>2. mine' \in [Requests -> 0..created']
      BY <1>3, <3>1 DEF CreateClient, Typed, TypeOK
    <3> QED
      BY <1>3, <3>1, <3>2 DEF CreateClient, Typed, TypeOK, Labels
  <2>2. Asked'
    BY <1>3, <1>a DEF CreateClient, Typed, TypeOK
  <2> QED
    BY <2>1, <2>2 DEF Typed
<1>4. CASE EnterBody(r)
  <2>1. TypeOK'
    BY <1>4 DEF EnterBody, Typed, TypeOK, Labels
  <2>2. Asked'
    BY <1>4, <1>a DEF EnterBody, Typed, TypeOK
  <2> QED
    BY <2>1, <2>2 DEF Typed
\* A step that answers, or goes on.
<1>b. ASSUME pc[r] # "idle",
             UNCHANGED <<fileVars, clientVars, req, mine, early, promised, calm>>,
             gotBlob' \in [Requests -> Contents], gotKey' \in [Requests -> Contents],
             loaded' \in [Models -> Versions \cup {None}], shown' \subseteq Models,
             \/ \E answer \in Replies : Respond(r, answer)
             \/ UNCHANGED <<loop, reply>> /\ \E l \in Labels : Goto(r, l)
      PROVE  Typed'
  <2>1. /\ pc' \in [Requests -> Labels] /\ reply' \in [Requests -> Replies]
        /\ loop' \in Requests \cup {Nobody}
        /\ \A s \in Requests \ {r} : pc'[s] = pc[s]
    <3>1. CASE \E answer \in Replies : Respond(r, answer)
      BY <3>1, Responds
    <3>2. CASE UNCHANGED <<loop, reply>> /\ \E l \in Labels : Goto(r, l)
      BY <3>2 DEF Goto, Typed, TypeOK
    <3> QED
      BY <1>b, <3>1, <3>2
  <2>2. TypeOK'
    BY <1>b, <2>1 DEF Typed, TypeOK
  <2> QED
    BY <1>a, <1>b, <2>1, <2>2 DEF Typed
<1>e. \A e \in Errors : Refusal(e, "none") \in Replies
  BY RefusalType DEF Codes
<1>5. CASE PrepareVector(r)
  <2>1. \/ \E answer \in Replies : Respond(r, answer)
        \/ UNCHANGED <<loop, reply>> /\ \E l \in Labels : Goto(r, l)
    BY <1>5, <1>e DEF PrepareVector, Errors, Labels
  <2> QED
    BY <1>5, <1>b, <2>1 DEF PrepareVector, Typed, TypeOK
<1>6. CASE FindFiles(r)
  <2>1. \/ \E answer \in Replies : Respond(r, answer)
        \/ UNCHANGED <<loop, reply>> /\ \E l \in Labels : Goto(r, l)
    BY <1>6, <1>e DEF FindFiles, Errors, Labels
  <2> QED
    BY <1>6, <1>b, <2>1 DEF FindFiles, Typed, TypeOK
<1>7. CASE ReadBlob(r)
  <2>1. gotBlob' \in [Requests -> Contents]
    BY <1>7, <1>q DEF ReadBlob, Typed, TypeOK
  <2> QED
    BY <1>7, <1>b, <2>1 DEF ReadBlob, Typed, TypeOK, Labels
<1>8. CASE ReadKey(r)
  <2>1. gotKey' \in [Requests -> Contents]
    BY <1>8, <1>q DEF ReadKey, Typed, TypeOK
  <2>2. \/ \E answer \in Replies : Respond(r, answer)
        \/ UNCHANGED <<loop, reply>> /\ \E l \in Labels : Goto(r, l)
    BY <1>8, <1>e DEF ReadKey, Errors, Labels
  <2> QED
    BY <1>8, <1>b, <2>1, <2>2 DEF ReadKey, Typed, TypeOK
<1>9. CASE CallEnclave(r)
  <2> DEFINE m == req[r].model
             v == IF loaded[m] # None THEN loaded[m] ELSE gotBlob[r]
  <2>0. m \in Models
    BY <1>9, <1>q DEF CallEnclave
  <2>c. LateCodes \subseteq Codes /\ LoadFaults(r) \subseteq Details
    BY DEF LateCodes, Codes, LoadFaults, Details
  <2>1. CASE /\ loaded[m] # None \/ Opens(r)
             /\ loaded' = [loaded EXCEPT ![m] = v]
             /\ \/ Respond(r, [kind |-> "ok", version |-> v])
                \/ \E code \in LateCodes :
                        Respond(r, Refusal(Normalized(code), code))
    <3>1. v \in Versions
      BY <2>0, <2>1 DEF Opens, Pair, Typed, TypeOK
    <3>2. [kind |-> "ok", version |-> v] \in Replies
      BY <3>1 DEF Replies
    <3>3. \E answer \in Replies : Respond(r, answer)
      BY <2>c, <2>1, <3>2, RefusalType, NormalizedType
    <3>4. loaded' \in [Models -> Versions \cup {None}]
      BY <2>1, <3>1 DEF Typed, TypeOK
    <3> QED
      BY <1>9, <1>b, <3>3, <3>4 DEF CallEnclave, Typed, TypeOK
  <2>2. CASE /\ UNCHANGED loaded
             /\ \/ \E detail \in LoadFaults(r) : Respond(r, LoadFailed(detail))
                \/ Respond(r, Refusal(Normalized("INVALID_REQUEST"), "INVALID_REQUEST"))
                \/ \E error \in {"enclave_timeout", "enclave_communication_error",
                               "malformed_enclave_response"} :
                        Respond(r, Refusal(error, "none"))
    <3>1. \E answer \in Replies : Respond(r, answer)
      BY <2>c, <2>2, RefusalType, NormalizedType, LoadFailedType DEF Errors, Codes
    <3> QED
      BY <1>9, <1>b, <2>2, <3>1 DEF CallEnclave, Typed, TypeOK
  <2> QED
    BY <1>9, <2>1, <2>2 DEF CallEnclave
<1>10. CASE ListModels(r)
  <2>1. StoredModels(Owner[req[r].model]) \subseteq Models
    BY DEF StoredModels
  <2>2. \E answer \in Replies : Respond(r, answer)
    <3>1. PICK names \in {{m \in Models : loaded[m] # None}}
                        \cup (IF mock THEN {} ELSE {{}}) :
                Respond(r, [kind |-> "models",
                            available |-> StoredModels(Owner[req[r].model]),
                            loaded |-> names])
      BY <1>10 DEF ListModels
    <3>2. names \subseteq Models
      OBVIOUS
    <3>3. [kind |-> "models", available |-> StoredModels(Owner[req[r].model]),
           loaded |-> names] \in Replies
      BY <2>1, <3>2 DEF Replies
    <3> QED
      BY <3>1, <3>3
  <2>3. shown' \subseteq Models
    BY <1>10, <2>1 DEF ListModels, Typed, TypeOK
  <2> QED
    BY <1>10, <1>b, <2>2, <2>3 DEF ListModels, Typed, TypeOK
<1>11. CASE Finish(r)
  <2>1. NoReply \in Replies
    BY DEF Replies
  <2>2. TypeOK'
    <3>1. reply' \in [Requests -> Replies]
      BY <1>11, <2>1 DEF Finish, Typed, TypeOK
    <3>2. /\ req' \in [Requests -> [op : Ops, model : Models] \cup {NoRequest}]
          /\ pc' \in [Requests -> Labels]
      BY <1>11 DEF Finish, Typed, TypeOK, Labels
    <3>3. /\ mine' \in [Requests -> 0..created'] /\ created' = created
          /\ gotBlob' \in [Requests -> Contents] /\ gotKey' \in [Requests -> Contents]
      BY <1>11 DEF Finish, Typed, TypeOK, None, Contents
    <3>4. /\ calm' \in [Requests -> BOOLEAN] /\ early' \in [Requests -> BOOLEAN]
          /\ promised' \in [Requests -> BOOLEAN]
      BY <1>11 DEF Finish, Typed, TypeOK
    <3> QED
      BY <1>11, <3>1, <3>2, <3>3, <3>4 DEF Finish, Typed, TypeOK
  <2>3. Asked'
    BY <1>11 DEF Finish, Typed, TypeOK, Asked
  <2> QED
    BY <2>2, <2>3 DEF Typed
<1> QED
  BY <1>1, <1>2, <1>3, <1>4, <1>5, <1>6, <1>7, <1>8, <1>9, <1>10, <1>11 DEF RequestStep

\* No step breaks the types.
LEMMA TypedNext == Typed /\ [Next]_vars => Typed'
<1> SUFFICES ASSUME Typed, [Next]_vars PROVE Typed'
  OBVIOUS
<1>1. ASSUME NEW m \in Models, Forget(m) PROVE Typed'
  BY <1>1 DEF Forget, fileVars, clientVars, Typed, TypeOK, Asked
<1>2. CASE UNCHANGED vars
  BY <1>2 DEF vars, fileVars, clientVars, requestVars, Typed, TypeOK, Asked
<1> QED
  BY <1>1, <1>2, TrainerType, RequestType DEF Next

\* The initial states are typed.
LEMMA TypedInit == Init => Typed
  BY BoundsAssumption, ThreeContents
  DEF Init, Typed, TypeOK, Asked, Contents, Labels, Replies, None

-----------------------------------------------------------------------------
\* A model whose files and writers a step leaves alone.
LEMMA OtherModel ==
  ASSUME NEW m \in Models, Written(m), Writers(m)' = Writers(m),
         \A u \in Writers(m) : job'[u] = job[u],
         blob'[m] = blob[m], key'[m] = key[m], spoilt'[m] = spoilt[m]
  PROVE  Written(m)'
  BY DEF Written, Pair

\* Every step of a trainer leaves each model well written, or says it is spoilt.
LEMMA TrainerWritten ==
  ASSUME Typed, WellWritten, NEW t \in Trainers, TrainerStep(t)
  PROVE  WellWritten'
<1> SUFFICES ASSUME NEW m \in Models PROVE Written(m)'
  BY DEF WellWritten
<1> DEFINE n == job[t].model
<1>w. Written(m)
  BY DEF WellWritten
<1>o. ASSUME \A u \in Trainers \ {t} : job'[u] = job[u],
             t \in Writers(m) <=> t \in Writers(m)',
             t \in Writers(m) => job'[t] = job[t],
             blob'[m] = blob[m], key'[m] = key[m], spoilt'[m] = spoilt[m]
      PROVE  Written(m)'
  <2>1. Writers(m)' = Writers(m)
    BY <1>o DEF Writers
  <2>2. \A u \in Writers(m) : job'[u] = job[u]
    BY <1>o DEF Writers
  <2> QED
    BY <1>o, <1>w, <2>1, <2>2, OtherModel
<1>j. /\ job[t].at # "idle" => job[t] \in Job
      /\ job \in [Trainers -> Job \cup {NoJob}]
      /\ blob \in [Models -> Contents] /\ key \in [Models -> Contents \ {Torn}]
      /\ spoilt \in [Models -> BOOLEAN]
  BY DEF NoJob, Typed, TypeOK
\* The label of t moves on: the other trainers keep theirs.
<1>a. ASSUME NEW l, job[t].at # "idle", At(t, l)
      PROVE  /\ \A u \in Trainers \ {t} : job'[u] = job[u]
             /\ job'[t].at = l /\ job'[t].model = n
             /\ job'[t].version = job[t].version
  BY <1>a, <1>j DEF At, Job
<1>1. CASE BeginTraining(t)
  <2>1. /\ \A u \in Trainers \ {t} : job'[u] = job[u]
        /\ job[t].at = "idle" /\ job'[t].at = "trained"
    BY <1>1, <1>j DEF BeginTraining
  <2> QED
    BY <1>1, <1>o, <2>1 DEF BeginTraining, Writers, Writing
<1>2. CASE OpenBlob(t)
  <2> DEFINE os == {u \in Writers(n) : FileOpen(u)}
             label == IF os = {} THEN "writing blob" ELSE "mixing blob"
  <2>1. /\ job[t].at = "trained" /\ n \in Models /\ key' = key
        /\ t \notin Writers(m) /\ t \notin Writers(n)
    BY <1>2, <1>j DEF OpenBlob, Job, Writers, Writing
  <2>2. /\ blob' = [blob EXCEPT ![n] = Empty]
        /\ spoilt' = [spoilt EXCEPT ![n] = Writers(n) # {}]
        /\ job' = [u \in Trainers |-> IF u \in os \cup {t}
                                      THEN [job[u] EXCEPT !.at = label] ELSE job[u]]
    BY <1>2 DEF OpenBlob
  <2>3. CASE m # n
    <3>1. \A u \in Writers(m) : u \notin os \cup {t}
      BY <2>1, <2>3 DEF Writers
    <3>2. \A u \in Writers(m) : job'[u] = job[u]
      BY <2>2, <3>1 DEF Writers
    <3>3. \A u \in os \cup {t} : job'[u].model = n
      <4>1. \A u \in os \cup {t} : /\ u \in Trainers /\ job[u].model = n
                                  /\ job[u].at # NoJob.at
        BY <2>1 DEF Writers, Writing, NoJob
      <4>2. \A u \in os \cup {t} : job[u] \in Job
        BY <1>j, <4>1
      <4> QED
        BY <2>2, <4>1, <4>2 DEF Job
    <3>4. Writers(m)' = Writers(m)
      BY <2>2, <2>3, <3>1, <3>3 DEF Writers
    <3> QED
      BY <1>j, <1>w, <2>1, <2>2, <2>3, <3>2, <3>4, OtherModel
  <2>4. CASE m = n
    <3> SUFFICES ASSUME ~spoilt'[m] PROVE Written(m)'
      BY DEF Written
    <3>1. blob'[m] = Empty /\ Writers(m) = {}
      BY <1>j, <2>2, <2>4
    <3>2. os = {}
      BY <2>4, <3>1
    <3>3. /\ job'[t].at = "writing blob" /\ job'[t].model = n
          /\ \A u \in Trainers \ {t} : job'[u] = job[u]
      BY <1>j, <2>1, <2>2, <3>2 DEF Job
    <3>4. Writers(m)' = {t}
      <4>1. \A u \in Trainers \ {t} : u \notin Writers(m)'
        BY <3>1, <3>3 DEF Writers
      <4>2. t \in Writers(m)'
        BY <2>4, <3>3 DEF Writers, Writing
      <4> QED
        BY <4>1, <4>2 DEF Writers
    <3> QED
      BY <3>1, <3>3, <3>4 DEF Written
  <2> QED
    BY <2>3, <2>4
<1>3. CASE WritePart(t)
  <2>1. /\ job' = job /\ key' = key /\ spoilt' = spoilt
        /\ job[t].at \in {"writing blob", "mixing blob"} /\ n \in Models
    BY <1>3, <1>j DEF WritePart, FileOpen, Job
  <2>2. CASE m # n
    BY <1>3, <1>j, <1>o, <2>1, <2>2 DEF WritePart, Writers
  <2>3. CASE m = n
    <3>1. blob'[m] = Torn /\ Writers(m)' = Writers(m) /\ t \in Writers(m)
      BY <1>3, <1>j, <2>1, <2>3 DEF WritePart, Writers, Writing
    <3> QED
      BY <1>w, <2>1, <3>1 DEF Written
  <2> QED
    BY <2>2, <2>3
<1>4. CASE WriteBlob(t)
  <2>1. /\ \A u \in Trainers \ {t} : job'[u] = job[u]
        /\ job[t].at \in {"writing blob", "mixing blob"} /\ n \in Models
        /\ job'[t].model = n
        /\ job'[t].at = "wrote blob" /\ key' = key /\ spoilt' = spoilt
        /\ job'[t].version = job[t].version
    BY <1>4, <1>a, <1>j DEF WriteBlob, FileOpen, Job
  <2>2. CASE m # n
    BY <1>4, <1>j, <1>o, <2>1, <2>2 DEF WriteBlob, Writers
  <2>3. CASE m = n
    <3>1. Writers(m)' = Writers(m) /\ t \in Writers(m)
      BY <2>1, <2>3 DEF Writers, Writing
    <3> SUFFICES ASSUME ~spoilt[m] PROVE Written(m)'
      BY <2>1 DEF Written
    <3>2. job[t].at # "mixing blob" /\ \A u \in Writers(m) : u = t
      BY <1>w, <2>1, <3>1 DEF Written
    <3>3. blob'[m] = job[t].version
      BY <1>4, <1>j, <2>3, <3>2 DEF WriteBlob
    <3> QED
      BY <2>1, <3>1, <3>2, <3>3 DEF Written
  <2> QED
    BY <2>2, <2>3
<1>5. CASE OpenKey(t)
  <2>1. /\ \A u \in Trainers \ {t} : job'[u] = job[u]
        /\ job[t].at = "wrote blob" /\ n \in Models /\ job'[t].model = n
        /\ job'[t].at = "writing key" /\ blob' = blob /\ spoilt' = spoilt
        /\ job'[t].version = job[t].version
    BY <1>5, <1>a, <1>j DEF OpenKey, Job
  <2>2. CASE m # n
    BY <1>5, <1>j, <1>o, <2>1, <2>2 DEF OpenKey, Writers
  <2>3. CASE m = n
    <3>1. Writers(m)' = Writers(m) /\ t \in Writers(m)
      BY <2>1, <2>3 DEF Writers, Writing
    <3> QED
      BY <1>w, <2>1, <3>1 DEF Written
  <2> QED
    BY <2>2, <2>3
<1>6. CASE WriteKey(t)
  <2>1. /\ \A u \in Trainers \ {t} : job'[u] = job[u]
        /\ job[t].at = "writing key" /\ n \in Models
        /\ job'[t].at = "idle" /\ blob' = blob /\ spoilt' = spoilt
        /\ job[t].version \in Versions
    BY <1>6, <1>j DEF WriteKey, Job, NoJob
  <2>2. CASE m # n
    BY <1>6, <1>j, <1>o, <2>1, <2>2 DEF WriteKey, Writers, Writing
  <2>3. CASE m = n
    <3>1. Writers(m)' = Writers(m) \ {t} /\ t \in Writers(m)
      BY <2>1, <2>3 DEF Writers, Writing
    <3>2. key'[m] = job[t].version
      BY <1>6, <1>j, <2>3 DEF WriteKey
    <3> SUFFICES ASSUME ~spoilt[m] PROVE Written(m)'
      BY <2>1 DEF Written
    <3>3. blob[m] = job[t].version /\ Writers(m)' = {}
      BY <1>w, <2>1, <3>1 DEF Written
    <3> QED
      BY <2>1, <3>2, <3>3 DEF Written, Pair
  <2> QED
    BY <2>2, <2>3
<1>7. CASE Abort(t)
  <2>1. /\ \A u \in Trainers \ {t} : job'[u] = job[u]
        /\ job[t].at # "idle" /\ job'[t].at = "idle"
        /\ blob' = blob /\ key' = key
    BY <1>7, <1>j DEF Abort, NoJob
  <2>2. CASE t \in Writers(m)
    <3>1. spoilt'[m]
      BY <1>7, <1>j, <2>2 DEF Abort, Writers
    <3> QED
      BY <3>1 DEF Written
  <2>3. CASE t \notin Writers(m)
    <3>1. spoilt'[m] = spoilt[m]
      BY <1>7, <1>j, <2>3 DEF Abort, Writers
    <3>2. t \notin Writers(m)'
      BY <2>1 DEF Writers, Writing
    <3> QED
      BY <1>o, <2>1, <2>3, <3>1, <3>2
  <2> QED
    BY <2>2, <2>3
<1> QED
  BY <1>1, <1>2, <1>3, <1>4, <1>5, <1>6, <1>7 DEF TrainerStep

\* Only trainers write.
LEMMA OnlyTrainersWrite ==
  ASSUME Next, \A t \in Trainers : ~TrainerStep(t)
  PROVE  /\ UNCHANGED fileVars /\ UNCHANGED mock
         /\ \/ \E r \in Requests : RequestStep(r)
            \/ \E m \in Models : Forget(m)
<1>1. ASSUME NEW r \in Requests, RequestStep(r)
      PROVE  UNCHANGED fileVars /\ UNCHANGED mock
  BY <1>1 DEF RequestStep, Arrive, ResolveClient, CreateClient, EnterBody, PrepareVector,
              FindFiles, ReadBlob, ReadKey, CallEnclave, ListModels, Finish, clientVars
<1>2. ASSUME NEW m \in Models, Forget(m) PROVE UNCHANGED fileVars /\ UNCHANGED mock
  BY <1>2 DEF Forget, clientVars
<1> QED
  BY <1>1, <1>2 DEF Next

\* Models stay well written.
LEMMA WrittenNext ==
  ASSUME Typed, WellWritten, [Next]_vars
  PROVE  WellWritten'
<1>1. CASE UNCHANGED fileVars
  <2>1. UNCHANGED <<blob, key, job, spoilt>>
    BY <1>1 DEF fileVars
  <2> QED
    BY <2>1 DEF WellWritten, Written, Writers, Pair
<1>2. CASE UNCHANGED vars
  BY <1>1, <1>2 DEF vars
<1> QED
  BY <1>1, <1>2, TrainerWritten, OnlyTrainersWrite

-----------------------------------------------------------------------------
\* A trainer's step touches no request, and while a request stays calm it
\* leaves the files of its model as they were.
LEMMA CalmFiles ==
  ASSUME Typed, Calm, NEW t \in Trainers, TrainerStep(t)
  PROVE  /\ UNCHANGED <<clientVars, requestVars>>
         /\ \A r \in Requests : calm'[r] =>
                /\ calm[r]
                /\ blob'[req[r].model] = blob[req[r].model]
                /\ key'[req[r].model] = key[req[r].model]
<1>j. job[t].at # "idle" => job[t].model \in Models
  <2>1. job[t].at # "idle" => job[t] \in Job
    BY DEF NoJob, Typed, TypeOK
  <2> QED
    BY <2>1 DEF Job
<1>1. CASE BeginTraining(t) \/ Abort(t)
  BY <1>1 DEF BeginTraining, Abort
<1>2. CASE /\ FilesChange
           /\ \/ UNCHANGED key /\ \E c : blob' = [blob EXCEPT ![job[t].model] = c]
              \/ UNCHANGED blob /\ \E c : key' = [key EXCEPT ![job[t].model] = c]
  <2>1. ASSUME NEW r \in Requests, calm'[r]
        PROVE  /\ calm[r]
               /\ blob'[req[r].model] = blob[req[r].model]
               /\ key'[req[r].model] = key[req[r].model]
    <3>1. calm[r] /\ Pair(blob'[req[r].model], key'[req[r].model])
      BY <1>2, <2>1 DEF FilesChange
    <3>2. Pair(blob[req[r].model], key[req[r].model])
      BY <3>1 DEF Calm, CalmOf
    <3> QED
      BY <1>2, <3>1, <3>2 DEF Pair
  <2> QED
    BY <1>2, <2>1 DEF FilesChange
<1>3. CASE OpenBlob(t) \/ WritePart(t) \/ WriteBlob(t) \/ OpenKey(t) \/ WriteKey(t)
  BY <1>2, <1>3 DEF OpenBlob, WritePart, WriteBlob, OpenKey, WriteKey
<1> QED
  BY <1>1, <1>3 DEF TrainerStep

\* A step of a request touches no other request.
LEMMA OthersKept ==
  ASSUME Typed, NEW r \in Requests, RequestStep(r), NEW s \in Requests \ {r}
  PROVE  /\ pc'[s] = pc[s] /\ req'[s] = req[s] /\ reply'[s] = reply[s]
         /\ gotBlob'[s] = gotBlob[s] /\ gotKey'[s] = gotKey[s]
         /\ calm'[s] = calm[s] /\ promised'[s] = promised[s]
         /\ early'[s] = early[s]
<1>t. /\ pc \in [Requests -> Labels] /\ calm \in [Requests -> BOOLEAN]
      /\ promised \in [Requests -> BOOLEAN] /\ early \in [Requests -> BOOLEAN]
      /\ req \in [Requests -> [op : Ops, model : Models] \cup {NoRequest}]
      /\ gotBlob \in [Requests -> Contents] /\ gotKey \in [Requests -> Contents]
      /\ reply \in [Requests -> Replies]
  BY DEF Typed, TypeOK
<1>1. CASE Arrive(r)
  BY <1>t, <1>1 DEF Arrive, Goto
<1>2. CASE ResolveClient(r) \/ CreateClient(r) \/ EnterBody(r)
  BY <1>t, <1>2 DEF ResolveClient, CreateClient, EnterBody, Goto
<1>3. CASE PrepareVector(r) \/ FindFiles(r)
  BY <1>t, <1>3 DEF PrepareVector, FindFiles, Goto, Respond
<1>4. CASE ReadBlob(r) \/ ReadKey(r)
  BY <1>t, <1>4 DEF ReadBlob, ReadKey, Goto, Respond
<1>5. CASE CallEnclave(r)
  BY <1>t, <1>5 DEF CallEnclave, Goto, Respond
<1>6. CASE ListModels(r)
  BY <1>t, <1>6 DEF ListModels, Goto, Respond
<1>7. CASE Finish(r)
  BY <1>t, <1>7 DEF Finish, Goto
<1> QED
  BY <1>1, <1>2, <1>3, <1>4, <1>5, <1>6, <1>7 DEF RequestStep

\* A request that a step does not touch stays calm as it was.
LEMMA CalmKept ==
  ASSUME NEW r \in Requests, CalmOf(r), UNCHANGED mock,
         pc'[r] = pc[r], req'[r] = req[r], reply'[r] = reply[r],
         gotBlob'[r] = gotBlob[r], gotKey'[r] = gotKey[r],
         calm'[r] =>
            /\ calm[r]
            /\ blob'[req[r].model] = blob[req[r].model]
            /\ key'[req[r].model] = key[req[r].model]
  PROVE  CalmOf(r)'
  BY DEF CalmOf

\* Every step of a request keeps Calm of that request and of the others.
LEMMA RequestCalm ==
  ASSUME Typed, Calm, NEW r \in Requests, RequestStep(r)
  PROVE  Calm'
<1>v. Absent \notin Versions /\ Empty \notin Versions
  BY ThreeContents, BoundsAssumption DEF Versions
<1>f. UNCHANGED <<blob, key, mock>>
  BY DEF RequestStep, Arrive, ResolveClient, CreateClient, EnterBody, PrepareVector,
         FindFiles, ReadBlob, ReadKey, CallEnclave, ListModels, Finish, clientVars, fileVars
<1>t. /\ pc \in [Requests -> Labels] /\ calm \in [Requests -> BOOLEAN]
      /\ req \in [Requests -> [op : Ops, model : Models] \cup {NoRequest}]
      /\ gotBlob \in [Requests -> Contents] /\ gotKey \in [Requests -> Contents]
      /\ reply \in [Requests -> Replies]
  BY DEF Typed, TypeOK
<1>s. ASSUME NEW s \in Requests \ {r} PROVE CalmOf(s)'
  <2>1. CalmOf(s)
    BY DEF Calm
  <2> QED
    BY <1>f, <2>1, CalmKept, OthersKept
<1> SUFFICES CalmOf(r)'
  BY <1>s DEF Calm
<1>r. CalmOf(r)
  BY DEF Calm
\* The responses: none of them is about the files while the request is calm.
<1>a. ASSUME NEW answer \in Replies, Respond(r, answer), UNCHANGED <<req, calm>>,
             pc[r] # "idle",
             calm[r] =>
                /\ answer.kind \notin {"model_artifact_not_found", "invalid_model_artifact"}
                /\ ~mock /\ "detail" \in DOMAIN answer => answer.detail # "artifact"
      PROVE  CalmOf(r)'
  <2>1. reply'[r] = answer /\ pc'[r] = "done"
    BY <1>a, Responds
  <2> QED
    BY <1>a, <1>f, <1>r, <2>1 DEF CalmOf
<1>e. ASSUME NEW e \in Errors, NEW c \in Codes,
             Respond(r, Refusal(e, c)), UNCHANGED <<req, calm>>, pc[r] # "idle",
             calm[r] => e \notin {"model_artifact_not_found", "invalid_model_artifact"}
      PROVE  CalmOf(r)'
  BY <1>a, <1>e, RefusalType DEF Refusal
<1>1. CASE Arrive(r)
  <2>1. PICK op \in Ops, m \in Models :
            /\ req' = [req EXCEPT ![r] = [op |-> op, model |-> m]]
            /\ calm' = [calm EXCEPT ![r] = Pair(blob[m], key[m])]
    BY <1>1 DEF Arrive
  <2>2. /\ req'[r].model = m /\ calm'[r] = Pair(blob[m], key[m])
        /\ pc'[r] = "resolve client"
    BY <1>1, <1>t, <2>1 DEF Arrive, Goto
  <2> QED
    BY <1>f, <2>2 DEF CalmOf
<1>2. CASE ResolveClient(r) \/ CreateClient(r) \/ EnterBody(r)
  <2>1. /\ pc'[r] \in {"await loop", "create client", "list", "prepare vector"}
        /\ req' = req /\ calm' = calm /\ pc[r] # "idle"
    BY <1>2, <1>t DEF ResolveClient, CreateClient, EnterBody, Goto
  <2> QED
    BY <1>f, <1>r, <2>1 DEF CalmOf
<1>3. CASE PrepareVector(r)
  <2>1. CASE Goto(r, "find files")
    BY <1>3, <1>f, <1>r, <1>t, <2>1 DEF PrepareVector, Goto, CalmOf
  <2>2. CASE \E error \in {"forbidden_access", "feature_set_not_found",
                            "data_store_error"} :
                Respond(r, Refusal(error, "none"))
    BY <1>3, <1>e, <2>2 DEF PrepareVector, Errors, Codes
  <2> QED
    BY <1>3, <2>1, <2>2 DEF PrepareVector
<1>4. CASE FindFiles(r)
  <2>1. CASE Goto(r, "read blob")
    BY <1>4, <1>f, <1>r, <1>t, <2>1 DEF FindFiles, Goto, CalmOf
  <2>2. CASE ~Stored(req[r].model) /\ Respond(r, Refusal("model_artifact_not_found", "none"))
    <3>1. ~calm[r]
      BY <1>r, <1>v, <2>2 DEF CalmOf, Pair, Stored
    <3> QED
      BY <1>4, <1>e, <2>2, <3>1 DEF FindFiles, Errors, Codes
  <2> QED
    BY <1>4, <2>1, <2>2 DEF FindFiles
<1>5. CASE ReadBlob(r)
  <2>1. /\ pc'[r] = "read key" /\ gotBlob'[r] = blob[req[r].model]
        /\ req' = req /\ calm' = calm /\ pc[r] # "idle"
    BY <1>5, <1>t DEF ReadBlob, Goto
  <2> QED
    BY <1>f, <1>r, <2>1 DEF CalmOf
<1>6. CASE ReadKey(r)
  <2>1. /\ pc[r] = "read key" /\ gotKey'[r] = key[req[r].model]
        /\ req' = req /\ calm' = calm /\ gotBlob' = gotBlob
    BY <1>6, <1>t DEF ReadKey
  <2>2. CASE Goto(r, "call enclave")
    BY <1>f, <1>r, <1>t, <2>1, <2>2 DEF Goto, CalmOf
  <2>3. CASE /\ Empty \in {gotBlob[r], gotKey'[r]}
             /\ Respond(r, Refusal("invalid_model_artifact", "none"))
    <3>1. ~calm[r]
      BY <1>r, <1>v, <2>1, <2>3 DEF CalmOf, Pair
    <3> QED
      BY <1>e, <2>1, <2>3, <3>1 DEF Errors, Codes
  <2> QED
    BY <1>6, <2>2, <2>3 DEF ReadKey
<1>7. CASE CallEnclave(r)
  <2>0. /\ pc[r] = "call enclave" /\ req' = req /\ calm' = calm
        /\ LateCodes \subseteq Codes /\ "INVALID_REQUEST" \in Codes
    BY <1>7 DEF CallEnclave, LateCodes, Codes
  <2>1. CASE \E v \in Versions : Respond(r, [kind |-> "ok", version |-> v])
    <3>1. PICK v \in Versions : Respond(r, [kind |-> "ok", version |-> v])
      BY <2>1
    <3>2. [kind |-> "ok", version |-> v] \in Replies
      BY DEF Replies
    <3> QED
      BY <1>a, <2>0, <3>1, <3>2
  <2>2. CASE \E code \in Codes : Respond(r, Refusal(Normalized(code), code))
    BY <1>e, <2>0, <2>2, NormalizedType
  <2>3. CASE \E detail \in LoadFaults(r) : Respond(r, LoadFailed(detail))
    <3>1. PICK detail \in LoadFaults(r) : Respond(r, LoadFailed(detail))
      BY <2>3
    <3>2. detail \in Details
      BY DEF LoadFaults, Details
    <3>3. calm[r] => mock \/ detail # "artifact"
      BY <1>r, <2>0 DEF CalmOf, Opens, LoadFaults
    <3> QED
      BY <1>a, <2>0, <3>1, <3>2, <3>3, LoadFailedType
  <2>4. CASE \E error \in {"enclave_timeout", "enclave_communication_error",
                               "malformed_enclave_response"} :
                        Respond(r, Refusal(error, "none"))
    BY <1>e, <2>0, <2>4 DEF Errors, Codes
  <2>5. /\ loaded[req[r].model] # None \/ Opens(r) =>
              (IF loaded[req[r].model] # None THEN loaded[req[r].model] ELSE gotBlob[r])
                \in Versions
    BY <2>0 DEF Opens, Pair, Typed, TypeOK, Asked
  <2> QED
    BY <1>7, <2>0, <2>1, <2>2, <2>3, <2>4, <2>5 DEF CallEnclave
<1>8. CASE ListModels(r)
  <2>1. PICK names \in SUBSET Models :
            Respond(r, [kind |-> "models",
                        available |-> StoredModels(Owner[req[r].model]),
                        loaded |-> names])
    BY <1>8 DEF ListModels
  <2> DEFINE answer == [kind |-> "models",
                        available |-> StoredModels(Owner[req[r].model]),
                        loaded |-> names]
  <2>2. answer \in Replies
    BY DEF Replies, StoredModels
  <2> QED
    BY <1>8, <1>a, <2>1, <2>2 DEF ListModels
<1>9. CASE Finish(r)
  BY <1>9, <1>t DEF Finish, CalmOf
<1> QED
  BY <1>1, <1>2, <1>3, <1>4, <1>5, <1>6, <1>7, <1>8, <1>9 DEF RequestStep

\* Requests that saw no writing stay calm as described.
LEMMA CalmNext ==
  ASSUME Typed, Calm, [Next]_vars
  PROVE  Calm'
<1>1. ASSUME NEW t \in Trainers, TrainerStep(t) PROVE Calm'
  <2> SUFFICES ASSUME NEW r \in Requests PROVE CalmOf(r)'
    BY DEF Calm
  <2>1. CalmOf(r)
    BY DEF Calm
  <2> QED
    BY <1>1, <2>1, CalmFiles, CalmKept DEF clientVars, requestVars
<1>2. ASSUME NEW m \in Models, Forget(m) PROVE Calm'
  <2> SUFFICES ASSUME NEW r \in Requests PROVE CalmOf(r)'
    BY DEF Calm
  <2> QED
    BY <1>2, CalmKept DEF Calm, Forget, fileVars, clientVars
<1>3. CASE UNCHANGED vars
  BY <1>3 DEF vars, fileVars, clientVars, requestVars, Calm, CalmOf
<1> QED
  BY <1>1, <1>2, <1>3, RequestCalm DEF Next

-----------------------------------------------------------------------------
\* No step removes a file.
LEMMA StoredStays ==
  ASSUME Typed, [Next]_vars, NEW m \in Models, Stored(m)
  PROVE  Stored(m)'
<1>1. ASSUME NEW t \in Trainers, TrainerStep(t) PROVE Stored(m)'
  <2> DEFINE n == job[t].model
  <2>1. job[t].at # "idle" => n \in Models /\ job[t].version \in Versions
    <3>1. job[t].at # "idle" => job[t] \in Job
      BY DEF NoJob, Typed, TypeOK
    <3> QED
      BY <3>1 DEF Job
  <2>2. Absent \notin Versions \cup {Empty, Torn}
    BY ThreeContents, BoundsAssumption DEF Versions
  <2>3. blob \in [Models -> Contents] /\ key \in [Models -> Contents \ {Torn}]
    BY DEF Typed, TypeOK
  <2>4. CASE BeginTraining(t) \/ Abort(t)
    BY <2>4 DEF BeginTraining, Abort, Stored
  <2>5. CASE OpenBlob(t) \/ WritePart(t)
    BY <2>1, <2>2, <2>3, <2>5 DEF OpenBlob, WritePart, Stored
  <2>6. CASE WriteBlob(t)
    <3>1. PICK content \in {job[t].version, Torn} : blob' = [blob EXCEPT ![n] = content]
      BY <2>6 DEF WriteBlob
    <3> QED
      BY <2>1, <2>2, <2>3, <2>6, <3>1 DEF WriteBlob, FileOpen, Stored
  <2>7. CASE OpenKey(t) \/ WriteKey(t)
    BY <2>1, <2>2, <2>3, <2>7 DEF OpenKey, WriteKey, Stored
  <2> QED
    BY <1>1, <2>4, <2>5, <2>6, <2>7 DEF TrainerStep
<1>2. CASE UNCHANGED fileVars
  BY <1>2 DEF fileVars, Stored
<1> QED
  BY <1>1, <1>2, OnlyTrainersWrite DEF vars

\* Only the test of the loader answers that there are no files.
LEMMA NotFoundIsTrue ==
  ASSUME Typed, NEW r \in Requests, RequestStep(r),
         reply'[r].kind = "model_artifact_not_found"
  PROVE  \/ reply'[r] = reply[r]
         \/ pc[r] = "find files" /\ ~Stored(req[r].model)
<1>r. ASSUME NEW answer \in Replies, Respond(r, answer)
      PROVE  answer.kind = "model_artifact_not_found"
  BY <1>r, Responds
<1>e. ASSUME NEW e \in Errors, NEW c \in Codes, Respond(r, Refusal(e, c))
      PROVE  e = "model_artifact_not_found"
  BY <1>e, <1>r, RefusalType
<1>1. CASE Arrive(r) \/ ResolveClient(r) \/ CreateClient(r)
  BY <1>1 DEF Arrive, ResolveClient, CreateClient
<1>2. CASE EnterBody(r) \/ ReadBlob(r)
  BY <1>2 DEF EnterBody, ReadBlob
<1>3. CASE PrepareVector(r)
  BY <1>3, <1>e DEF PrepareVector, Errors, Codes
<1>4. CASE FindFiles(r)
  BY <1>4 DEF FindFiles
<1>5. CASE ReadKey(r)
  BY <1>5, <1>e DEF ReadKey, Errors, Codes
<1>6. CASE CallEnclave(r)
  <2> DEFINE v == IF loaded[req[r].model] # None THEN loaded[req[r].model]
                  ELSE gotBlob[r]
  <2>1. /\ LateCodes \subseteq Codes /\ LoadFaults(r) \subseteq Details
        /\ "INVALID_REQUEST" \in Codes
    BY DEF LateCodes, Codes, LoadFaults, Details
  <2>2. loaded[req[r].model] # None \/ Opens(r) => v \in Versions
    BY <1>6 DEF CallEnclave, Opens, Pair, Typed, TypeOK, Asked
  <2>3. v \in Versions => [kind |-> "ok", version |-> v] \in Replies
    BY DEF Replies
  <2>4. CASE v \in Versions /\ Respond(r, [kind |-> "ok", version |-> v])
    BY <1>r, <2>3, <2>4
  <2>5. CASE \E code \in Codes : Respond(r, Refusal(Normalized(code), code))
    BY <1>e, <2>5, NormalizedType
  <2>6. CASE \E error \in {"enclave_timeout", "enclave_communication_error",
                           "malformed_enclave_response"} :
                Respond(r, Refusal(error, "none"))
    BY <1>e, <2>6 DEF Errors, Codes
  <2>7. CASE \E detail \in Details : Respond(r, LoadFailed(detail))
    BY <1>r, <2>7, LoadFailedType
  <2> QED
    BY <1>6, <2>1, <2>2, <2>4, <2>5, <2>6, <2>7 DEF CallEnclave
<1>7. CASE ListModels(r)
  <2>1. PICK names \in SUBSET Models :
            Respond(r, [kind |-> "models",
                        available |-> StoredModels(Owner[req[r].model]),
                        loaded |-> names])
    BY <1>7 DEF ListModels
  <2> DEFINE answer == [kind |-> "models",
                        available |-> StoredModels(Owner[req[r].model]),
                        loaded |-> names]
  <2>2. answer \in Replies
    BY DEF Replies, StoredModels
  <2> QED
    BY <1>r, <2>1, <2>2
<1>8. CASE Finish(r)
  BY <1>8 DEF Finish, NoReply, Typed, TypeOK
<1> QED
  BY <1>1, <1>2, <1>3, <1>4, <1>5, <1>6, <1>7, <1>8 DEF RequestStep

\* What a step of a request does to what was shown and promised.
LEMMA RequestShown ==
  ASSUME Typed, Shown, NEW r \in Requests, RequestStep(r)
  PROVE  Shown'
<1>t. /\ pc \in [Requests -> Labels] /\ promised \in [Requests -> BOOLEAN]
      /\ req \in [Requests -> [op : Ops, model : Models] \cup {NoRequest}]
      /\ reply \in [Requests -> Replies] /\ shown \subseteq Models
  BY DEF Typed, TypeOK
<1>f. UNCHANGED <<blob, key>>
  BY DEF RequestStep, Arrive, ResolveClient, CreateClient, EnterBody, PrepareVector,
         FindFiles, ReadBlob, ReadKey, CallEnclave, ListModels, Finish, fileVars
<1>1. shown \subseteq shown' /\ \A m \in shown' : Stored(m)'
  <2>1. CASE UNCHANGED shown
    BY <1>f, <2>1 DEF Shown, Stored
  <2>2. CASE ListModels(r)
    BY <1>f, <2>2 DEF ListModels, StoredModels, Shown, Stored
  <2> QED
    BY <2>1, <2>2 DEF RequestStep, Arrive, ResolveClient, CreateClient, EnterBody,
         PrepareVector, FindFiles, ReadBlob, ReadKey, CallEnclave, Finish
<1>2. ASSUME NEW s \in Requests \ {r}
      PROVE  /\ promised'[s] =>
                 /\ pc'[s] # "idle" /\ req'[s].model \in shown'
                 /\ reply'[s].kind # "model_artifact_not_found"
             /\ pc'[s] = "idle" => reply'[s] = NoReply
  BY <1>1, OthersKept DEF Shown
<1>3. /\ promised'[r] =>
          /\ pc'[r] # "idle" /\ req'[r].model \in shown'
          /\ reply'[r].kind # "model_artifact_not_found"
      /\ pc'[r] = "idle" => reply'[r] = NoReply
  <2>1. CASE Arrive(r)
    <3>1. PICK m \in Models : /\ req'[r].model = m
                              /\ promised'[r] => m \in shown
      <4>1. PICK op \in Ops, m \in Models :
                /\ req' = [req EXCEPT ![r] = [op |-> op, model |-> m]]
                /\ promised' = [promised EXCEPT ![r] = m \in shown]
        BY <2>1 DEF Arrive
      <4>2. req'[r].model = m
        BY <1>t, <4>1
      <4>3. promised'[r] => m \in shown
        BY <1>t, <4>1, Zenon
      <4> QED
        BY <4>2, <4>3
    <3>2. pc'[r] = "resolve client" /\ reply'[r] = NoReply
      BY <1>t, <2>1 DEF Arrive, Goto, Shown
    <3>3. NoReply.kind # "model_artifact_not_found"
      BY DEF NoReply
    <3> QED
      BY <1>1, <3>1, <3>2, <3>3
  <2>2. CASE Finish(r)
    BY <1>t, <2>2 DEF Finish
  <2>3. CASE ~Arrive(r) /\ ~Finish(r)
    <3>1. /\ promised'[r] = promised[r] /\ req'[r] = req[r] /\ pc'[r] # "idle"
      <4>1. CASE ResolveClient(r) \/ CreateClient(r) \/ EnterBody(r)
        BY <1>t, <4>1 DEF ResolveClient, CreateClient, EnterBody, Goto
      <4>2. CASE PrepareVector(r) \/ FindFiles(r) \/ ReadBlob(r) \/ ReadKey(r)
        BY <1>t, <4>2 DEF PrepareVector, FindFiles, ReadBlob, ReadKey, Goto, Respond
      <4>3. CASE CallEnclave(r)
        BY <1>t, <4>3 DEF CallEnclave, Goto, Respond
      <4>4. CASE ListModels(r)
        BY <1>t, <4>4 DEF ListModels, Goto, Respond
      <4> QED
        BY <2>3, <4>1, <4>2, <4>3, <4>4 DEF RequestStep
    <3>2. promised[r] => Stored(req[r].model)
      BY DEF Shown
    <3> QED
      BY <1>1, <3>1, <3>2, NotFoundIsTrue DEF Shown
  <2> QED
    BY <2>1, <2>2, <2>3
<1> QED
  BY <1>1, <1>2, <1>3 DEF Shown

\* What was listed stays on the host, and answers say what their tests saw.
LEMMA ShownNext ==
  ASSUME Typed, Shown, [Next]_vars
  PROVE  Shown'
<1>1. CASE UNCHANGED <<shown, promised, pc, req, reply>>
  <2>1. \A m \in shown : m \in Models
    BY DEF Typed, TypeOK
  <2> QED
    BY <1>1, <2>1, StoredStays DEF Shown
<1>2. ASSUME NEW t \in Trainers, TrainerStep(t)
      PROVE  UNCHANGED <<shown, promised, pc, req, reply>>
  BY <1>2 DEF TrainerStep, BeginTraining, OpenBlob, WritePart, WriteBlob, OpenKey,
              WriteKey, Abort, FilesChange, requestVars
<1>3. ASSUME NEW m \in Models, Forget(m)
      PROVE  UNCHANGED <<shown, promised, pc, req, reply>>
  BY <1>3 DEF Forget
<1> QED
  BY <1>1, <1>2, <1>3, RequestShown DEF Next, vars, requestVars

-----------------------------------------------------------------------------
\* Once there is a client there always is one, and a request that comes then
\* never goes on to create another.
LEMMA EarlyNext ==
  ASSUME Typed, Early, [Next]_vars
  PROVE  Early'
<1>t. /\ pc \in [Requests -> Labels] /\ early \in [Requests -> BOOLEAN]
      /\ created \in Nat
  BY BoundsAssumption DEF Typed, TypeOK
<1>1. CASE UNCHANGED <<client, pc, early>>
  BY <1>1 DEF Early
<1>2. ASSUME NEW t \in Trainers, TrainerStep(t)
      PROVE  UNCHANGED <<client, pc, early>>
  BY <1>2 DEF TrainerStep, BeginTraining, OpenBlob, WritePart, WriteBlob, OpenKey,
              WriteKey, Abort, FilesChange, requestVars, clientVars
<1>3. ASSUME NEW m \in Models, Forget(m)
      PROVE  UNCHANGED <<client, pc, early>>
  BY <1>3 DEF Forget, clientVars
<1>4. ASSUME NEW r \in Requests, RequestStep(r)
      PROVE  Early'
  <2>1. client' = client \/ client' # None
    <3>1. CASE CreateClient(r)
      <4>1. client' = created + 1
        BY <3>1 DEF CreateClient
      <4> QED
        BY <1>t, <4>1 DEF None
    <3> QED
      BY <1>4, <3>1 DEF RequestStep, Arrive, ResolveClient, EnterBody, PrepareVector,
         FindFiles, ReadBlob, ReadKey, CallEnclave, ListModels, Finish, clientVars
  <2>2. /\ pc'[r] = "resolve client" /\ client' = None => early'[r]
        /\ pc'[r] = "create client" => early'[r]
    <3>1. CASE Arrive(r)
      BY <1>t, <3>1 DEF Arrive, Goto, clientVars
    <3>2. CASE ResolveClient(r)
      BY <1>t, <3>2 DEF ResolveClient, Goto, Early
    <3>3. CASE ~Arrive(r) /\ ~ResolveClient(r)
      <4>1. pc'[r] \notin {"resolve client", "create client"}
        <5>1. CASE CreateClient(r) \/ EnterBody(r) \/ Finish(r)
          BY <1>t, <5>1 DEF CreateClient, EnterBody, Finish, Goto
        <5>2. CASE PrepareVector(r) \/ FindFiles(r) \/ ReadBlob(r) \/ ReadKey(r)
          BY <1>t, <5>2 DEF PrepareVector, FindFiles, ReadBlob, ReadKey, Goto, Respond
        <5>3. CASE CallEnclave(r)
          BY <1>t, <5>3 DEF CallEnclave, Goto, Respond
        <5>4. CASE ListModels(r)
          BY <1>t, <5>4 DEF ListModels, Goto, Respond
        <5> QED
          BY <1>4, <3>3, <5>1, <5>2, <5>3, <5>4 DEF RequestStep
      <4> QED
        BY <4>1
    <3> QED
      BY <3>1, <3>2, <3>3
  <2> QED
    <3>1. ASSUME NEW s \in Requests \ {r} PROVE pc'[s] = pc[s] /\ early'[s] = early[s]
      BY <1>4, OthersKept
    <3>2. client' = None => client = None
      BY <2>1
    <3> QED
      BY <2>2, <3>1, <3>2 DEF Early
<1> QED
  BY <1>1, <1>2, <1>3, <1>4 DEF Next, vars, clientVars, requestVars

-----------------------------------------------------------------------------
\* The initial states.
LEMMA InitIInv == Init => IInv
<1> SUFFICES ASSUME Init PROVE IInv
  OBVIOUS
<1>1. Typed
  BY TypedInit
<1>2. WellWritten
  <2>1. \A m \in Models : Writers(m) = {}
    BY DEF Init, Writers, Writing, NoJob
  <2> QED
    BY <2>1 DEF Init, WellWritten, Written
<1>3. Calm /\ Shown /\ Early
  BY DEF Init, Calm, CalmOf, Shown, Early
<1> QED
  BY <1>1, <1>2, <1>3 DEF IInv

\* The invariant holds in every reachable state.
THEOREM Invariant == Spec => []IInv
<1>1. IInv /\ [Next]_vars => IInv'
  <2> SUFFICES ASSUME IInv, [Next]_vars PROVE IInv'
    OBVIOUS
  <2> QED
    BY TypedNext, WrittenNext, CalmNext, ShownNext, EarlyNext DEF IInv
<1> QED
  BY <1>1, InitIInv, PTL DEF Spec

\* Every variable keeps its type: in particular an answer is a prediction of a
\* trained model, a list, or an error that the exception handlers know.
THEOREM TypeCorrect == Spec => []TypeOK
<1>1. IInv => TypeOK
  BY DEF IInv, Typed
<1> QED
  BY <1>1, Invariant, PTL

\* The two files of a model are of one training while nobody writes them, unless
\* its last writing was cut or overlapped (train_model.py:95-98).
THEOREM QuietFilesMatch == Spec => []QuietPairMatches
<1>1. IInv => QuietPairMatches
  BY DEF IInv, WellWritten, Written, QuietPairMatches
<1> QED
  BY <1>1, Invariant, PTL

\* Whatever trainers do between its tests and reads, a request whose artifacts
\* were a pair all the time finds them and does not bring the enclave an artifact
\* that cannot be decrypted (inference.py:151-159, inference_engine.py:157-169).
THEOREM CalmRequestsLoad == Spec => []CalmArtifactsLoad
<1>1. IInv => CalmArtifactsLoad
  BY DEF IInv, Calm, CalmOf, CalmArtifactsLoad
<1> QED
  BY <1>1, Invariant, PTL

\* What a listing has offered is found by every later request (inference.py:151
\* and 178).
THEOREM ListedModelsAreFound == Spec => []ListedIsFound
<1>1. IInv => ListedIsFound
  BY DEF IInv, Shown, ListedIsFound
<1> QED
  BY <1>1, Invariant, PTL

\* A client is created only by a request that came before there was one
\* (enclave_client.py:576 and 594).
THEOREM LateRequestsShare == Spec => ClientsOnlyAtStart
<1> DEFINE Justified == created' # created =>
                \E r \in Requests : early[r] /\ pc[r] = "create client"
<1>1. IInv /\ [Next]_vars => [Justified]_vars
  <2> SUFFICES ASSUME IInv, Next, created' # created PROVE Justified
    OBVIOUS
  <2>1. ASSUME NEW t \in Trainers PROVE ~TrainerStep(t)
    BY <2>1 DEF TrainerStep, BeginTraining, OpenBlob, WritePart, WriteBlob, OpenKey,
              WriteKey, Abort, FilesChange, clientVars
  <2>2. ASSUME NEW m \in Models PROVE ~Forget(m)
    BY <2>2 DEF Forget, clientVars
  <2>3. PICK r \in Requests : CreateClient(r)
    BY <2>1, <2>2 DEF Next, RequestStep, Arrive, ResolveClient, EnterBody, PrepareVector,
         FindFiles, ReadBlob, ReadKey, CallEnclave, ListModels, Finish, clientVars
  <2> QED
    BY <2>3 DEF CreateClient, IInv, Early
<1> QED
  BY <1>1, Invariant, PTL DEF Spec, ClientsOnlyAtStart
=============================================================================
