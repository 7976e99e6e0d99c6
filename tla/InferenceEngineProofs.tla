----------------------- MODULE InferenceEngineProofs -----------------------
(***************************************************************************)
(* Proofs about InferenceEngine, for any number of workers, tenants, names *)
(* and cache entries.                                                      *)
(***************************************************************************)
EXTENDS InferenceEngine, OrderedDictProofs

\* A request has no blob or the published one (inference.py:75-81).
LEMMA BlobIs ==
    \A p : {published[p]} \cup (IF BlobOptional THEN {NoBlob} ELSE {})
            \subseteq {NoBlob, published[p]}
OBVIOUS

\* A worker past Arrive has a request of a stored model, one that loads has a
\* blob, and a worker has no response before it responds.
RequestSound ==
    \A w \in Workers :
        /\ pc[w] \notin {"idle", "reply"} =>
                req[w] \in Request /\ <<req[w].tenant, req[w].name>> \in Stored
        /\ pc[w] \in {"load", "open", "install"} => req[w].blob \in Versions
        /\ pc[w] # "reply" => reply[w] = NoReply

\* m answers request r: the requested name, and a stored model.
Serves(m, r) ==
    /\ m \in Model
    /\ <<m.tenant, m.name>> \in Stored
    /\ r \in Request
    /\ <<r.tenant, r.name>> \in Stored
    /\ m.name = r.name

\* Where models come from: cached ones are stored, and the one that a worker
\* computes or answers with has the requested name.
Origin ==
    /\ \A i \in DOMAIN models :
            <<models[i].value.tenant, models[i].value.name>> \in Stored
    /\ \A w \in Workers :
        /\ pc[w] = "compute" => Serves(using[w], req[w])
        /\ reply[w].status = "ok" => Serves(reply[w].model, req[w])

IInv == TypeOK /\ CacheSound /\ RequestSound /\ Origin

\* The part of IInv that is about the cache alone.
CacheOK(d) ==
    /\ d \in Seq(Items(Names, Model))
    /\ IsDict(d)
    /\ Len(d) <= MaxModels
    /\ \A i \in DOMAIN d :
        /\ d[i].value.name = d[i].key
        /\ <<d[i].value.tenant, d[i].value.name>> \in Stored

-----------------------------------------------------------------------------
(* The changes of the cache. *)

\* The invariants give the cache what its operations need.
LEMMA CacheOKOfIInv == TypeOK /\ CacheSound /\ Origin => CacheOK(models)
BY DEF TypeOK, CacheSound, Origin, CacheOK

\* A cached model is found under its name, and is stored.
LEMMA LookupOK ==
    ASSUME NEW d, CacheOK(d), NEW n \in Keys(d)
    PROVE  /\ n \in Names
           /\ Lookup(d, n) \in Model
           /\ Lookup(d, n).name = n
           /\ <<Lookup(d, n).tenant, n>> \in Stored
<1>1. d \in Seq(Items(Names, Model))
  BY DEF CacheOK
<1>2. /\ PositionOf(d, n) \in DOMAIN d
      /\ d[PositionOf(d, n)].key = n
      /\ Lookup(d, n) \in Model /\ n \in Names
  BY <1>1, PositionProperties, LenProperties
<1>3. QED
  BY <1>2 DEF CacheOK, Lookup

\* Moving a model to the end keeps the cache sound (inference_engine.py:139, 214).
LEMMA TouchOK ==
    ASSUME NEW d, CacheOK(d), NEW n \in Keys(d)
    PROVE  CacheOK(Touch(d, n))
<1> DEFINE e == Touch(d, n)
<1>1. d \in Seq(Items(Names, Model)) /\ IsDict(d)
  BY DEF CacheOK
<1>2. /\ e \in Seq(Items(Names, Model)) /\ IsDict(e) /\ Len(e) = Len(d)
      /\ \A i \in DOMAIN e : \E j \in DOMAIN d : e[i] = d[j]
  BY <1>1, TouchDict
<1> HIDE DEF e
<1>3. CacheOK(e)
  BY <1>2 DEF CacheOK
<1>4. QED
  BY <1>3 DEF e

\* Filing a stored model and evicting keeps it sound (inference_engine.py:184-187).
LEMMA InstallOK ==
    ASSUME NEW d, CacheOK(d), NEW m \in Model, <<m.tenant, m.name>> \in Stored
    PROVE  CacheOK(EvictTo(SetLast(d, m.name, m), MaxModels))
<1> DEFINE e == SetLast(d, m.name, m)
           f == EvictTo(e, MaxModels)
<1>1. /\ d \in Seq(Items(Names, Model)) /\ IsDict(d)
      /\ m.name \in Names /\ MaxModels \in Nat
  BY MaxModelsAssumption DEF CacheOK, Model
<1>2. /\ e \in Seq(Items(Names, Model)) /\ IsDict(e)
      /\ e[Len(e)] = [key |-> m.name, value |-> m]
      /\ \A i \in DOMAIN e :
            i = Len(e) \/ \E j \in DOMAIN d : e[i] = d[j]
  BY <1>1, SetLastDict
<1> HIDE DEF e
<1>3. \A i \in DOMAIN e :
        /\ e[i].value.name = e[i].key
        /\ <<e[i].value.tenant, e[i].value.name>> \in Stored
  <2>1. ASSUME NEW i \in DOMAIN e, i = Len(e)
        PROVE  e[i].key = m.name /\ e[i].value = m
    BY <1>2, <2>1
  <2>2. ASSUME NEW i \in DOMAIN e, NEW j \in DOMAIN d, e[i] = d[j]
        PROVE  /\ e[i].value.name = e[i].key
               /\ <<e[i].value.tenant, e[i].value.name>> \in Stored
    BY <2>2 DEF CacheOK
  <2>3. QED
    BY <1>2, <2>1, <2>2
<1>4. /\ f \in Seq(Items(Names, Model)) /\ IsDict(f) /\ Len(f) <= MaxModels
      /\ \A i \in DOMAIN f : \E j \in DOMAIN e : f[i] = e[j]
  BY <1>1, <1>2, EvictToDict
<1> HIDE DEF f
<1>5. CacheOK(f)
  BY <1>3, <1>4 DEF CacheOK
<1>6. QED
  BY <1>5 DEF e, f

\* Removing a model keeps it sound (inference_engine.py:253).
LEMMA DropOK ==
    ASSUME NEW d, CacheOK(d), NEW n
    PROVE  CacheOK(Drop(d, n))
<1> DEFINE e == Drop(d, n)
<1>1. d \in Seq(Items(Names, Model)) /\ IsDict(d) /\ Len(d) <= MaxModels
  BY DEF CacheOK
<1>2. /\ e \in Seq(Items(Names, Model)) /\ IsDict(e)
      /\ Len(e) = IF n \in Keys(d) THEN Len(d) - 1 ELSE Len(d)
      /\ \A i \in DOMAIN e : \E j \in DOMAIN d : e[i] = d[j]
  BY <1>1, DropDict
<1>3. Len(e) <= MaxModels
  BY <1>1, <1>2, LenProperties, MaxModelsAssumption
<1> HIDE DEF e
<1>4. CacheOK(e)
  BY <1>2, <1>3 DEF CacheOK
<1>5. QED
  BY <1>4 DEF e

-----------------------------------------------------------------------------
(* The inductive invariant. *)

\* The inductive invariant, arranged by what a step changes.
LEMMA IInvParts ==
    IInv <=> /\ CacheOK(models)
             /\ TypeOK
             /\ RequestSound
             /\ \A w \in Workers :
                    /\ pc[w] = "compute" => Serves(using[w], req[w])
                    /\ reply[w].status = "ok" => Serves(reply[w].model, req[w])
BY DEF IInv, CacheOK, CacheSound, Origin, TypeOK

\* The empty cache and idle workers satisfy the invariant.
LEMMA InitIInv == Init => IInv
<1> SUFFICES ASSUME Init PROVE IInv
  OBVIOUS
<1>1. TypeOK
  <2>1. published \in [Stored -> Versions]
    BY MaxVersionAssumption DEF Init, Versions
  <2>2. models \in Seq(Items(Names, Model))
    BY DEF Init
  <2>3. QED
    BY <2>1, <2>2 DEF Init, TypeOK, Labels, Reply
<1>2. CacheSound
  BY MaxModelsAssumption DEF Init, CacheSound, IsDict
<1>3. RequestSound
  BY DEF Init, RequestSound
<1>4. Origin
  BY DEF Init, Origin, NoReply
<1>5. QED
  BY <1>1, <1>2, <1>3, <1>4 DEF IInv

\* No step breaks the invariant.
LEMMA NextIInv == IInv /\ [Next]_vars => IInv'
<1> SUFFICES ASSUME IInv, [Next]_vars PROVE IInv'
  OBVIOUS
<1> USE DEF Goto, Respond
<1>0. /\ CacheOK(models) /\ TypeOK /\ RequestSound
      /\ \A w \in Workers :
            /\ pc[w] = "compute" => Serves(using[w], req[w])
            /\ reply[w].status = "ok" => Serves(reply[w].model, req[w])
  BY IInvParts
<1> DEFINE Served == \A w \in Workers :
                        /\ pc[w] = "compute" => Serves(using[w], req[w])
                        /\ reply[w].status = "ok" =>
                                Serves(reply[w].model, req[w])
<1>a. SUFFICES CacheOK(models)' /\ TypeOK' /\ RequestSound' /\ Served'
  BY DEF IInv, CacheOK, CacheSound, Origin, TypeOK
<1>1. ASSUME NEW p \in Stored, Train(p)
      PROVE  CacheOK(models)' /\ TypeOK' /\ RequestSound' /\ Served'
  <2>1. TypeOK'
    <3>1. published' \in [Stored -> Versions]
      BY <1>0, <1>1, MaxVersionAssumption DEF Train, TypeOK, Versions
    <3>2. QED
      BY <1>0, <1>1, <3>1 DEF Train, TypeOK
  <2>2. QED
    BY <2>1, <1>0, <1>1 DEF Train, RequestSound, CacheOK
<1>2. ASSUME NEW w \in Workers, Arrive(w)
      PROVE  CacheOK(models)' /\ TypeOK' /\ RequestSound' /\ Served'
  <2>1. /\ req'[w] \in Request
        /\ <<req'[w].tenant, req'[w].name>> \in Stored
        /\ req' = [req EXCEPT ![w] = req'[w]]
    <3>1. PICK p \in Stored, padded \in Padding :
            \E blob \in {NoBlob, published[p]} :
                req' = [req EXCEPT ![w] = [tenant |-> p[1], name |-> p[2],
                                           padded |-> padded, blob |-> blob]]
      BY <1>2, BlobIs DEF Arrive
    <3>2. PICK blob \in {NoBlob, published[p]} :
                req' = [req EXCEPT ![w] = [tenant |-> p[1], name |-> p[2],
                                           padded |-> padded, blob |-> blob]]
      BY <3>1
    <3>3. /\ p[1] \in Tenants /\ p[2] \in Names /\ p = <<p[1], p[2]>>
          /\ padded \in BOOLEAN /\ blob \in Versions \cup {NoBlob}
      BY <1>0, StoredAssumption, PaddingAssumption DEF TypeOK
    <3>4. QED
      BY <1>0, <3>2, <3>3 DEF TypeOK, Request
  <2>2. TypeOK'
    BY <1>0, <1>2, <2>1 DEF Arrive, TypeOK, Labels
  <2>3. RequestSound'
    BY <1>0, <1>2, <2>1 DEF Arrive, RequestSound, TypeOK
  <2>4. Served'
    <3>1. NoReply.status # "ok"
      BY DEF NoReply
    <3>2. pc' = [pc EXCEPT ![w] = "check"] /\ UNCHANGED <<using, reply>>
      BY <1>2 DEF Arrive
    <3>3. reply[w] = NoReply
      BY <1>0, <1>2 DEF Arrive, RequestSound
    <3>4. QED
      BY <1>0, <2>1, <3>1, <3>2, <3>3 DEF TypeOK
  <2>5. QED
    BY <2>2, <2>3, <2>4, <1>0, <1>2 DEF Arrive, CacheOK
<1>3. ASSUME NEW w \in Workers, RejectMalformed(w)
      PROVE  CacheOK(models)' /\ TypeOK' /\ RequestSound' /\ Served'
  BY <1>0, <1>3 DEF RejectMalformed, TypeOK, RequestSound, CacheOK, Labels,
                    Reply, Error, ErrorCodes, LoadErrors
<1>4. ASSUME NEW w \in Workers, CheckLoaded(w)
      PROVE  CacheOK(models)' /\ TypeOK' /\ RequestSound' /\ Served'
  <2>1. req[w] \in Request /\ <<req[w].tenant, req[w].name>> \in Stored
    BY <1>0, <1>4 DEF CheckLoaded, RequestSound
  <2>2. \/ /\ req[w].blob # NoBlob
           /\ pc' = [pc EXCEPT ![w] = "load"] /\ reply' = reply
        \/ pc' = [pc EXCEPT ![w] = "predict"] /\ reply' = reply
        \/ /\ pc' = [pc EXCEPT ![w] = "reply"]
           /\ reply' = [reply EXCEPT ![w] = Error("MODEL_NOT_FOUND")]
    BY <1>4 DEF CheckLoaded
  <2>3. hit' \in [Workers -> BOOLEAN]
    <3>1. PICK l : hit' = [hit EXCEPT ![w] = l] /\ l \in BOOLEAN
      BY <1>4 DEF CheckLoaded
    <3>2. QED
      BY <3>1, <1>0 DEF TypeOK
  <2>4. Error("MODEL_NOT_FOUND") \in Reply
    BY DEF Reply, ErrorCodes
  <2>5. UNCHANGED <<published, models, req, using, touched>>
    BY <1>4 DEF CheckLoaded
  <2>6. TypeOK'
    BY <1>0, <2>2, <2>3, <2>4, <2>5 DEF TypeOK, Labels
  <2>7. RequestSound'
    BY <1>0, <2>1, <2>2, <2>5, <1>4
       DEF TypeOK, RequestSound, CheckLoaded, Request
  <2>8. Served'
    BY <1>0, <2>2, <2>5 DEF TypeOK, Error
  <2>9. QED
    BY <2>5, <2>6, <2>7, <2>8, <1>0 DEF CacheOK
<1>5. ASSUME NEW w \in Workers, LoadCached(w)
      PROVE  CacheOK(models)' /\ TypeOK' /\ RequestSound' /\ Served'
  <2>1. req[w] \in Request /\ <<req[w].tenant, req[w].name>> \in Stored
    BY <1>0, <1>5 DEF LoadCached, RequestSound
  <2>2. CacheOK(models')
    BY <1>0, <1>5, TouchOK DEF LoadCached
  <2>3. touched' \in [Workers -> SUBSET Names]
    BY <1>0, <1>5, <2>1 DEF LoadCached, Recently, TypeOK, Request
  <2>4. TypeOK'
    BY <1>0, <1>5, <2>2, <2>3 DEF LoadCached, TypeOK, CacheOK, Labels
  <2>5. QED
    BY <2>1, <2>2, <2>4, <1>0, <1>5
       DEF LoadCached, TypeOK, RequestSound, CacheOK
<1>6. ASSUME NEW w \in Workers, LoadMiss(w)
      PROVE  CacheOK(models)' /\ TypeOK' /\ RequestSound' /\ Served'
  BY <1>0, <1>6 DEF LoadMiss, TypeOK, RequestSound, CacheOK, Labels
<1>7. ASSUME NEW w \in Workers, OpenArtifact(w)
      PROVE  CacheOK(models)' /\ TypeOK' /\ RequestSound' /\ Served'
  BY <1>0, <1>7 DEF OpenArtifact, TypeOK, RequestSound, CacheOK, Labels
<1>8. ASSUME NEW w \in Workers, OpenFails(w)
      PROVE  CacheOK(models)' /\ TypeOK' /\ RequestSound' /\ Served'
  <2>1. PICK code \in LoadErrors : reply' = [reply EXCEPT ![w] = Error(code)]
    BY <1>8 DEF OpenFails
  <2>2. Error(code) \in Reply
    BY DEF Reply, ErrorCodes
  <2>3. TypeOK'
    BY <1>0, <1>8, <2>1, <2>2 DEF OpenFails, TypeOK, Labels
  <2>4. RequestSound'
    BY <1>0, <1>8, <2>1 DEF OpenFails, TypeOK, RequestSound
  <2>5. Served'
    BY <1>0, <1>8, <2>1 DEF OpenFails, TypeOK, Error
  <2>6. QED
    BY <2>3, <2>4, <2>5, <1>0, <1>8 DEF OpenFails, CacheOK
<1>9. ASSUME NEW w \in Workers, Install(w)
      PROVE  CacheOK(models)' /\ TypeOK' /\ RequestSound' /\ Served'
  <2> DEFINE m == [tenant |-> req[w].tenant, name |-> req[w].name,
                   version |-> req[w].blob]
  <2>1. /\ req[w] \in Request /\ <<req[w].tenant, req[w].name>> \in Stored
        /\ req[w].blob \in Versions
    BY <1>0, <1>9 DEF Install, RequestSound
  <2>2. m \in Model /\ <<m.tenant, m.name>> \in Stored
    BY <2>1 DEF Model, Request
  <2>3. models' = EvictTo(SetLast(models, m.name, m), MaxModels)
    BY <1>9 DEF Install
  <2> HIDE DEF m
  <2>4. CacheOK(models')
    BY <1>0, <2>2, <2>3, InstallOK
  <2>5. touched' \in [Workers -> SUBSET Names]
    BY <1>0, <1>9, <2>1 DEF Install, Recently, TypeOK, Request
  <2>6. TypeOK'
    BY <1>0, <1>9, <2>4, <2>5 DEF Install, TypeOK, CacheOK, Labels
  <2>7. QED
    BY <2>1, <2>4, <2>6, <1>0, <1>9 DEF Install, TypeOK, RequestSound, CacheOK
<1>10. ASSUME NEW w \in Workers, FindModel(w)
       PROVE  CacheOK(models)' /\ TypeOK' /\ RequestSound' /\ Served'
  <2>1. req[w] \in Request /\ <<req[w].tenant, req[w].name>> \in Stored
    BY <1>0, <1>10 DEF FindModel, RequestSound
  <2>2. CacheOK(models')
    BY <1>0, <1>10, TouchOK DEF FindModel
  <2>3. touched' \in [Workers -> SUBSET Names]
    BY <1>0, <1>10, <2>1 DEF FindModel, Recently, TypeOK, Request
  <2>4. /\ using' = [using EXCEPT ![w] = Lookup(models, req[w].name)]
        /\ Serves(Lookup(models, req[w].name), req[w])
    BY <1>0, <1>10, <2>1, LookupOK DEF FindModel, Serves
  <2>5. TypeOK'
    BY <1>0, <1>10, <2>2, <2>3, <2>4
       DEF FindModel, TypeOK, CacheOK, Labels, Serves
  <2>6. RequestSound'
    BY <1>0, <1>10 DEF FindModel, TypeOK, RequestSound
  <2>7. Served'
    BY <1>0, <1>10, <2>4 DEF FindModel, TypeOK
  <2>8. QED
    BY <2>2, <2>5, <2>6, <2>7 DEF CacheOK
<1>11. ASSUME NEW w \in Workers, ModelGone(w)
       PROVE  CacheOK(models)' /\ TypeOK' /\ RequestSound' /\ Served'
  <2>1. Error("MODEL_NOT_FOUND") \in Reply
    BY DEF Reply, ErrorCodes
  <2>2. TypeOK'
    BY <1>0, <1>11, <2>1 DEF ModelGone, TypeOK, Labels
  <2>3. RequestSound'
    BY <1>0, <1>11 DEF ModelGone, TypeOK, RequestSound
  <2>4. Served'
    BY <1>0, <1>11 DEF ModelGone, TypeOK, Error
  <2>5. QED
    BY <2>2, <2>3, <2>4, <1>0, <1>11 DEF ModelGone, CacheOK
<1>12. ASSUME NEW w \in Workers, Compute(w)
       PROVE  CacheOK(models)' /\ TypeOK' /\ RequestSound' /\ Served'
  <2>1. Serves(using[w], req[w])
    BY <1>0, <1>12 DEF Compute
  <2>2. PICK r \in Reply :
                 /\ reply' = [reply EXCEPT ![w] = r]
                 /\ r.status = "ok" => r.model = using[w]
    <3>1. CASE reply' = [reply EXCEPT ![w] = Ok(using[w], hit[w])]
      <4>1. Ok(using[w], hit[w]) \in Reply
        BY <1>0, <2>1 DEF Reply, Serves, TypeOK
      <4>2. Ok(using[w], hit[w]).model = using[w]
        BY DEF Ok
      <4>3. QED
        BY <3>1, <4>1, <4>2
    <3>2. CASE \E code \in ComputeErrors :
                    reply' = [reply EXCEPT ![w] = Error(code)]
      <4>1. \A code \in ComputeErrors :
                Error(code) \in Reply /\ Error(code).status # "ok"
        BY DEF Reply, Error, ErrorCodes
      <4>2. PICK code \in ComputeErrors :
                reply' = [reply EXCEPT ![w] = Error(code)]
        BY <3>2
      <4>3. Error(code) \in Reply /\ Error(code).status # "ok"
        BY <4>1
      <4>4. QED
        BY <4>2, <4>3
    <3>3. QED
      BY <3>1, <3>2, <1>12 DEF Compute
  <2>3. pc' = [pc EXCEPT ![w] = "reply"]
    BY <1>12 DEF Compute
  <2>4. UNCHANGED <<published, models, req, hit, using, touched>>
    BY <1>12 DEF Compute
  <2>5. TypeOK'
    BY <1>0, <2>2, <2>3, <2>4 DEF TypeOK, Labels
  <2>6. RequestSound'
    BY <1>0, <2>2, <2>3, <2>4 DEF TypeOK, RequestSound
  <2>7. Served'
    BY <1>0, <2>1, <2>2, <2>3, <2>4 DEF TypeOK
  <2>8. QED
    BY <2>4, <2>5, <2>6, <2>7, <1>0 DEF CacheOK
<1>13. ASSUME NEW w \in Workers, Finish(w)
       PROVE  CacheOK(models)' /\ TypeOK' /\ RequestSound' /\ Served'
  <2>1. NoReply.status # "ok" /\ NoReply \in Reply
    BY DEF NoReply, Reply
  <2>2. TypeOK'
    BY <1>0, <1>13, <2>1 DEF Finish, TypeOK, Labels
  <2>3. RequestSound'
    BY <1>0, <1>13 DEF Finish, TypeOK, RequestSound
  <2>4. Served'
    BY <1>0, <1>13, <2>1 DEF Finish, TypeOK
  <2>5. QED
    BY <2>2, <2>3, <2>4, <1>0, <1>13 DEF Finish, CacheOK
<1>14. ASSUME NEW n \in Unloadable, Unload(n)
       PROVE  CacheOK(models)' /\ TypeOK' /\ RequestSound' /\ Served'
  <2>1. CacheOK(models')
    BY <1>0, <1>14, DropOK DEF Unload
  <2>2. QED
    BY <2>1, <1>0, <1>14 DEF Unload, TypeOK, RequestSound, CacheOK
<1>15. CASE UNCHANGED vars
  BY <1>0, <1>15 DEF vars, TypeOK, RequestSound, CacheOK
<1>16. ASSUME NEW w \in Workers, RejectFields(w)
       PROVE  CacheOK(models)' /\ TypeOK' /\ RequestSound' /\ Served'
  <2>1. Error("INVALID_REQUEST") \in Reply /\ Error("INTERNAL_ERROR") \in Reply
    BY DEF Reply, ErrorCodes, LoadErrors, ComputeErrors
  <2>2. TypeOK'
    BY <1>0, <1>16, <2>1 DEF RejectFields, TypeOK, Labels
  <2>3. RequestSound'
    BY <1>0, <1>16 DEF RejectFields, TypeOK, RequestSound
  <2>4. Served'
    BY <1>0, <1>16 DEF RejectFields, TypeOK, Error
  <2>5. QED
    BY <2>2, <2>3, <2>4, <1>0, <1>16 DEF RejectFields, CacheOK
<1>17. QED
  BY <1>1, <1>2, <1>3, <1>4, <1>5, <1>6, <1>7, <1>8, <1>9, <1>10, <1>11,
     <1>12, <1>13, <1>14, <1>15, <1>16 DEF Next, Step

-----------------------------------------------------------------------------
\* IInv holds in every reachable state.
LEMMA Invariance == Spec => []IInv
BY InitIInv, NextIInv, PTL DEF Spec

\* Every variable keeps its type (the state of enclave/inference_engine.py and
\* of the handlers of enclave/server.py).
THEOREM TypeCorrect == Spec => []TypeOK
<1>1. IInv => TypeOK
  BY DEF IInv
<1>2. QED
  BY <1>1, Invariance, PTL

\* The model cache never exceeds its limit, never holds a name twice and files
\* each model under its own name (inference_engine.py:183-187).
THEOREM CacheSoundness == Spec => []CacheSound
<1>1. IInv => CacheSound
  BY DEF IInv
<1>2. QED
  BY <1>1, Invariance, PTL

\* When no two tenants share a model name, every prediction comes from the
\* requesting tenant's model of the requested name, although the cache is keyed
\* by name alone (inference_engine.py:104).
THEOREM OwnModelServed == Spec => []OwnModelWhenUnshared
<1>1. IInv => OwnModelWhenUnshared
  <2>1. SUFFICES ASSUME IInv, NamesUnshared, NEW w \in Workers,
                        reply[w].status = "ok"
                 PROVE  /\ reply[w].model.tenant = req[w].tenant
                        /\ reply[w].model.name = req[w].name
    BY DEF OwnModelWhenUnshared
  <2> DEFINE m == reply[w].model
             r == req[w]
  <2>2. /\ <<m.tenant, m.name>> \in Stored /\ <<r.tenant, r.name>> \in Stored
        /\ m.name = r.name
    BY <2>1 DEF IInv, Origin, Serves
  <2> HIDE DEF m, r
  <2>3. <<m.tenant, m.name>> = <<r.tenant, r.name>>
    BY <2>1, <2>2 DEF NamesUnshared
  <2>4. QED
    BY <2>2, <2>3 DEF m, r
<1>2. QED
  BY <1>1, Invariance, PTL

-----------------------------------------------------------------------------
(* What the cache keeps for a request between two accesses of it. *)

\* The names that follow n in the cache are among used, and n is gone only when
\* MaxModels others are.
Placed(d, n, used) ==
    /\ \A i, j \in DOMAIN d : i < j /\ d[i].key = n => d[j].key \in used
    /\ n \notin Keys(d) => Cardinality(used \ {n}) >= MaxModels

\* Worker w has loaded the model that its predict is to look up, and nobody
\* unloads it.
Relies(w) ==
    /\ pc[w] = "predict" /\ req[w].blob # NoBlob
    /\ req[w].name \notin Unloadable

\* touched accounts for the cache, for a worker that relies on a model and for
\* one that found its model missing.
Followed ==
    \A w \in Workers :
        /\ IsFiniteSet(touched[w])
        /\ Relies(w) => Placed(models, req[w].name, touched[w])
        /\ pc[w] \in {"open", "install"} /\ req[w].name \in Keys(models) =>
                req[w].name \in touched[w]

\* Another name put last is one more of those that follow.
LEMMA PlacedSetLast ==
    ASSUME NEW d, CacheOK(d), NEW k \in Names, NEW v \in Model, NEW n \in Names,
           NEW used, IsFiniteSet(used), Placed(d, n, used)
    PROVE  Placed(SetLast(d, k, v), n, used \cup {k})
<1> DEFINE e == SetLast(d, k, v)
<1>1. d \in Seq(Items(Names, Model)) /\ IsDict(d)
  BY DEF CacheOK
<1>2. /\ e \in Seq(Items(Names, Model)) /\ Keys(e) = Keys(d) \cup {k}
      /\ e[Len(e)] = [key |-> k, value |-> v]
  BY <1>1, SetLastDict
<1>3. ASSUME NEW i \in DOMAIN e, NEW j \in DOMAIN e, i < j
      PROVE  \/ e[j].key = k
             \/ \E a, b \in DOMAIN d : a < b /\ e[i] = d[a] /\ e[j] = d[b]
  BY <1>1, <1>3, SetLastOrder
<1> HIDE DEF e
<1>4. \A i, j \in DOMAIN e :
            i < j /\ e[i].key = n => e[j].key \in used \cup {k}
  BY <1>3 DEF Placed
<1>5. n \notin Keys(e) => Cardinality((used \cup {k}) \ {n}) >= MaxModels
  <2>1. SUFFICES ASSUME n \notin Keys(e)
                 PROVE  Cardinality((used \cup {k}) \ {n}) >= MaxModels
    OBVIOUS
  <2>2. Cardinality(used \ {n}) >= MaxModels
    BY <1>2, <2>1 DEF Placed
  <2>3. /\ IsFiniteSet((used \cup {k}) \ {n})
        /\ used \ {n} \in SUBSET ((used \cup {k}) \ {n})
    BY FS_AddElement, FS_Difference
  <2>4. /\ Cardinality(used \ {n}) <= Cardinality((used \cup {k}) \ {n})
        /\ Cardinality(used \ {n}) \in Nat
        /\ Cardinality((used \cup {k}) \ {n}) \in Nat
    BY <2>3, FS_Subset, FS_CardinalityType
  <2>5. QED
    BY <2>2, <2>4, MaxModelsAssumption
<1>6. QED
  BY <1>4, <1>5 DEF Placed, e

\* Nothing follows the name that was put last.
LEMMA SetLastPlaced ==
    ASSUME NEW d, CacheOK(d), NEW k \in Names, NEW v \in Model
    PROVE  Placed(SetLast(d, k, v), k, {})
<1> DEFINE e == SetLast(d, k, v)
<1>1. d \in Seq(Items(Names, Model)) /\ IsDict(d)
  BY DEF CacheOK
<1>2. /\ e \in Seq(Items(Names, Model)) /\ Keys(e) = Keys(d) \cup {k}
      /\ e[Len(e)] = [key |-> k, value |-> v]
  BY <1>1, SetLastDict
<1>3. ASSUME NEW i \in DOMAIN e, NEW j \in DOMAIN e, i < j PROVE e[i].key # k
  BY <1>1, <1>3, SetLastOrder
<1>4. QED
  BY <1>2, <1>3 DEF Placed

\* A name leaves by eviction only with MaxModels others after it
\* (inference_engine.py:186).
LEMMA PlacedEvictTo ==
    ASSUME NEW d \in Seq(Items(Names, Model)), IsDict(d), NEW n,
           NEW used, IsFiniteSet(used), Placed(d, n, used)
    PROVE  Placed(EvictTo(d, MaxModels), n, used)
<1> DEFINE e == EvictTo(d, MaxModels)
           off == Len(d) - Len(e)
<1>1. MaxModels \in Nat /\ MaxModels > 0
  BY MaxModelsAssumption
<1>2. e \in Seq(Items(Names, Model))
  BY <1>1, EvictToDict
<1>3. /\ Len(e) = IF Len(d) > MaxModels THEN MaxModels ELSE Len(d)
      /\ \A i \in DOMAIN e : off + i \in DOMAIN d /\ e[i] = d[off + i]
  BY <1>1, EvictToItems
<1> HIDE DEF e
<1>4. /\ DOMAIN d = 1..Len(d) /\ DOMAIN e = 1..Len(e)
      /\ Len(d) \in Nat /\ Len(e) \in Nat
  BY <1>2, LenProperties
<1>5. /\ off \in Nat /\ Len(e) = Len(d) - off
      /\ off = 0 \/ Len(e) = MaxModels
  BY <1>1, <1>3, <1>4
<1> HIDE DEF off
<1>6. \A i, j \in DOMAIN e : i < j /\ e[i].key = n => e[j].key \in used
  <2>1. SUFFICES ASSUME NEW i \in DOMAIN e, NEW j \in DOMAIN e, i < j,
                        e[i].key = n
                 PROVE  e[j].key \in used
    OBVIOUS
  <2>2. off + i < off + j
    BY <1>4, <1>5, <2>1
  <2>3. QED
    BY <1>3, <2>1, <2>2 DEF Placed, off
<1>7. n \notin Keys(e) => Cardinality(used \ {n}) >= MaxModels
  <2>1. SUFFICES ASSUME n \notin Keys(e), n \in Keys(d)
                 PROVE  Cardinality(used \ {n}) >= MaxModels
    BY DEF Placed
  <2>2. PICK p \in DOMAIN d : d[p].key = n
    BY <2>1 DEF Keys
  <2>p. p \in 1..Len(d)
    BY <1>4
  <2>3. ~(p > off)
    <3>1. SUFFICES ASSUME p > off PROVE FALSE
      OBVIOUS
    <3>2. p - off \in DOMAIN e /\ off + (p - off) = p
      BY <1>4, <1>5, <3>1
    <3>3. e[p - off].key = n
      BY <1>3, <2>2, <3>2 DEF off
    <3>4. QED
      BY <2>1, <3>2, <3>3 DEF Keys
  <2> DEFINE f == [i \in 1..MaxModels |-> d[off + i].key]
  <2>4. \A i \in 1..MaxModels : off + i \in DOMAIN d /\ p < off + i
    <3>1. DOMAIN e = 1..MaxModels
      BY <1>4, <1>5, <2>3
    <3>2. \A i \in 1..MaxModels : off + i \in DOMAIN d
      BY <1>3, <3>1 DEF off
    <3>3. p \in Nat /\ p <= off
      BY <1>4, <1>5, <2>3, <2>p
    <3>4. \A i \in 1..MaxModels : p < off + i
      BY <1>1, <1>5, <3>3
    <3>5. QED
      BY <3>2, <3>4
  <2>5. \A i \in 1..MaxModels : f[i] \in used \ {n}
    <3>1. \A i \in 1..MaxModels : d[off + i].key \in used
      BY <2>2, <2>4 DEF Placed
    <3>2. \A i \in 1..MaxModels : d[off + i].key # n
      <4>1. \A i \in 1..MaxModels : off + i # p
        <5>1. p \in Nat
          BY <1>4, <2>p
        <5>2. \A i \in 1..MaxModels : off + i \in Nat
          BY <1>1, <1>5
        <5>3. QED
          BY <2>4, <5>1, <5>2
      <4>2. QED
        BY <2>2, <2>4, <4>1 DEF IsDict
    <3>3. QED
      BY <3>1, <3>2
  <2>6. ASSUME NEW i \in 1..MaxModels, NEW j \in 1..MaxModels, f[i] = f[j]
        PROVE  i = j
    <3>1. off + i = off + j
      BY <2>4, <2>6 DEF IsDict
    <3>2. QED
      BY <1>1, <1>5, <3>1
  <2> HIDE DEF f
  <2>7. f \in Injection(1..MaxModels, used \ {n})
    <3>1. f \in [1..MaxModels -> used \ {n}]
      BY <2>5 DEF f
    <3>2. QED
      BY <2>6, <3>1 DEF Injection, IsInjective
  <2>8. IsFiniteSet(used \ {n}) /\ Cardinality(1..MaxModels) = MaxModels
    <3>1. IsFiniteSet(used \ {n})
      BY FS_Difference
    <3>2. Cardinality(1..MaxModels) = MaxModels
      BY <1>1, FS_Interval
    <3>3. QED
      BY <3>1, <3>2
  <2>9. Cardinality(1..MaxModels) <= Cardinality(used \ {n})
    BY <2>7, <2>8, FS_Injection
  <2>10. QED
    BY <1>1, <2>8, <2>9, FS_CardinalityType
<1>8. QED
  BY <1>6, <1>7 DEF Placed, e

\* Unloading another model does not bring a name closer to eviction.
LEMMA PlacedDrop ==
    ASSUME NEW d, CacheOK(d), NEW k, NEW n, n # k, NEW used, Placed(d, n, used)
    PROVE  Placed(Drop(d, k), n, used)
<1> DEFINE e == Drop(d, k)
<1>1. d \in Seq(Items(Names, Model)) /\ IsDict(d)
  BY DEF CacheOK
<1>2. Keys(e) = Keys(d) \ {k}
  BY <1>1, DropDict
<1>3. ASSUME NEW i \in DOMAIN e, NEW j \in DOMAIN e, i < j
      PROVE  \E a, b \in DOMAIN d : a < b /\ e[i] = d[a] /\ e[j] = d[b]
  BY <1>1, <1>3, DropOrder
<1> HIDE DEF e
<1>4. QED
  BY <1>2, <1>3 DEF Placed, e

\* The name put last counts for every request in progress (inference_engine.py:139,
\* 184 and 214).
LEMMA FollowedUse ==
    ASSUME IInv, Followed, NEW w \in Workers, NEW n \in Names, NEW v \in Model,
           req[w].name = n, Recently(w, n), req' = req,
           NEW l \in {"predict", "compute"}, pc' = [pc EXCEPT ![w] = l],
           \/ models' = SetLast(models, n, v)
           \/ models' = EvictTo(SetLast(models, n, v), MaxModels)
    PROVE  Followed'
<1> DEFINE e == SetLast(models, n, v)
<1>1. /\ CacheOK(models) /\ pc \in [Workers -> Labels]
      /\ \A u \in Workers : pc[u] = "predict" => req[u].name \in Names
      /\ models \in Seq(Items(Names, Model)) /\ IsDict(models)
  BY CacheOKOfIInv DEF IInv, TypeOK, RequestSound, CacheSound, Request
<1>2. /\ e \in Seq(Items(Names, Model)) /\ IsDict(e)
      /\ Keys(e) = Keys(models) \cup {n}
      /\ e[Len(e)] = [key |-> n, value |-> v]
  BY <1>1, SetLastDict
<1>3. \A u \in Workers :
            /\ IsFiniteSet(touched[u])
            /\ touched'[u] = IF u = w THEN {}
                             ELSE IF pc[u] \in {"open", "install", "predict"}
                                  THEN touched[u] \cup {n}
                                  ELSE {}
  BY DEF Followed, Recently
<1>4. \A u \in Workers : IsFiniteSet(touched'[u])
  <2>1. \A u \in Workers : IsFiniteSet(touched[u] \cup {n})
    BY <1>3, FS_AddElement
  <2>2. QED
    BY <1>3, <2>1, FS_EmptySet
<1>5. Keys(models') \subseteq Keys(models) \cup {n}
  <2>1. CASE models' = e
    BY <1>2, <2>1
  <2>2. CASE models' = EvictTo(e, MaxModels)
    <3>1. \A i \in DOMAIN models' : \E j \in DOMAIN e : models'[i] = e[j]
      BY <1>2, <2>2, EvictToDict, MaxModelsAssumption
    <3>2. Keys(models') \subseteq Keys(e)
      <4> HIDE DEF e
      <4>1. QED
        BY <3>1 DEF Keys
    <3>3. QED
      BY <1>2, <3>2
  <2>3. QED
    BY <2>1, <2>2
<1>6. ASSUME NEW u \in Workers, Relies(u)'
      PROVE  Placed(models', req[u].name, touched'[u])
  <2> DEFINE k == req[u].name
  <2>1. Placed(e, k, touched'[u])
    <3>1. CASE u = w
      BY <1>1, <1>3, <3>1, SetLastPlaced
    <3>2. CASE u # w
      <4>1. pc[u] = "predict" /\ Relies(u) /\ k \in Names
        BY <1>1, <1>6, <3>2 DEF Relies
      <4>2. Placed(models, k, touched[u])
        BY <4>1 DEF Followed
      <4>3. touched'[u] = touched[u] \cup {n} /\ IsFiniteSet(touched[u])
        BY <1>3, <3>2, <4>1
      <4> HIDE DEF k
      <4>4. QED
        BY <1>1, <4>1, <4>2, <4>3, PlacedSetLast
    <3>3. QED
      BY <3>1, <3>2
  <2> HIDE DEF e, k
  <2>2. CASE models' = e
    BY <2>1, <2>2 DEF k
  <2>3. CASE models' = EvictTo(e, MaxModels)
    BY <1>2, <1>4, <2>1, <2>3, PlacedEvictTo DEF k
  <2>4. QED
    BY <2>2, <2>3 DEF e
<1>7. ASSUME NEW u \in Workers, pc'[u] \in {"open", "install"},
             req[u].name \in Keys(models')
      PROVE  req[u].name \in touched'[u]
  <2>1. u # w /\ pc[u] \in {"open", "install"}
    BY <1>1, <1>7
  <2>2. touched'[u] = touched[u] \cup {n}
    BY <1>3, <2>1
  <2>3. req[u].name = n \/ req[u].name \in Keys(models)
    BY <1>5, <1>7
  <2>4. QED
    BY <2>1, <2>2, <2>3 DEF Followed
<1>8. QED
  BY <1>4, <1>6, <1>7 DEF Followed, Relies

\* A step that leaves the cache alone, and brings no worker to rely on a model
\* or to miss one.
LEMMA FollowedStays ==
    ASSUME Followed, UNCHANGED <<models, touched>>,
           \A u \in Workers :
              /\ Relies(u)' => Relies(u) /\ req'[u] = req[u]
              /\ pc'[u] \in {"open", "install"} =>
                    pc[u] \in {"open", "install"} /\ req'[u] = req[u]
    PROVE  Followed'
<1>1. SUFFICES ASSUME NEW u \in Workers
               PROVE  /\ IsFiniteSet(touched'[u])
                      /\ Relies(u)' => Placed(models', req'[u].name, touched'[u])
                      /\ pc'[u] \in {"open", "install"}
                         /\ req'[u].name \in Keys(models') =>
                            req'[u].name \in touched'[u]
  BY DEF Followed
<1>2. QED
  BY DEF Followed

\* A step of worker w that starts its account anew, with nothing to account for.
LEMMA FollowedAnew ==
    ASSUME Followed, NEW w \in Workers, UNCHANGED models,
           touched' = [touched EXCEPT ![w] = {}],
           touched \in [Workers -> SUBSET Names],
           \A u \in Workers \ {w} : pc'[u] = pc[u] /\ req'[u] = req[u],
           pc'[w] # "predict",
           pc'[w] \in {"open", "install"} => req'[w].name \notin Keys(models)
    PROVE  Followed'
<1>1. SUFFICES ASSUME NEW u \in Workers
               PROVE  /\ IsFiniteSet(touched'[u])
                      /\ Relies(u)' => Placed(models', req'[u].name, touched'[u])
                      /\ pc'[u] \in {"open", "install"}
                         /\ req'[u].name \in Keys(models') =>
                            req'[u].name \in touched'[u]
  BY DEF Followed
<1>2. CASE u = w
  BY <1>2, FS_EmptySet DEF Relies
<1>3. CASE u # w
  BY <1>3 DEF Followed, Relies
<1>4. QED
  BY <1>2, <1>3

\* No step breaks the account.
LEMMA NextFollowed == IInv /\ Followed /\ [Next]_vars => Followed'
<1> SUFFICES ASSUME IInv, Followed, [Next]_vars PROVE Followed'
  OBVIOUS
<1>0. /\ TypeOK /\ RequestSound /\ CacheOK(models)
      /\ pc \in [Workers -> Labels] /\ touched \in [Workers -> SUBSET Names]
      /\ req \in [Workers -> Request \cup {NoRequest}]
  BY CacheOKOfIInv DEF IInv, TypeOK
<1>1. ASSUME NEW p \in Stored, Train(p) PROVE Followed'
  BY <1>1, FollowedStays DEF Train, Relies
<1>2. ASSUME NEW w \in Workers,
             Arrive(w) \/ RejectMalformed(w) \/ RejectFields(w) \/ OpenFails(w)
             \/ ModelGone(w) \/ Compute(w)
      PROVE  Followed'
  <2>1. /\ UNCHANGED <<models, touched>>
        /\ \A u \in Workers \ {w} : pc'[u] = pc[u] /\ req'[u] = req[u]
        /\ pc'[w] \in {"check", "reply"}
    BY <1>0, <1>2 DEF Arrive, RejectMalformed, RejectFields, OpenFails, ModelGone,
                      Compute, Goto, Respond
  <2>2. QED
    BY <2>1, FollowedStays DEF Relies
<1>3. ASSUME NEW w \in Workers, CheckLoaded(w) PROVE Followed'
  <2>1. /\ UNCHANGED <<models, touched, req>>
        /\ \A u \in Workers \ {w} : pc'[u] = pc[u]
        /\ \/ pc'[w] \in {"load", "reply"}
           \/ pc'[w] = "predict" /\ req[w].blob = NoBlob
    BY <1>0, <1>3 DEF CheckLoaded, Goto, Respond
  <2>2. QED
    BY <2>1, FollowedStays DEF Relies
<1>4. ASSUME NEW w \in Workers, OpenArtifact(w) PROVE Followed'
  <2>1. /\ UNCHANGED <<models, touched, req>>
        /\ \A u \in Workers \ {w} : pc'[u] = pc[u]
        /\ pc[w] = "open" /\ pc'[w] = "install"
    BY <1>0, <1>4 DEF OpenArtifact, Goto
  <2>2. QED
    BY <2>1, FollowedStays DEF Relies
<1>5. ASSUME NEW w \in Workers, LoadMiss(w) PROVE Followed'
  <2>1. /\ UNCHANGED <<models, req>> /\ touched' = [touched EXCEPT ![w] = {}]
        /\ \A u \in Workers \ {w} : pc'[u] = pc[u]
        /\ pc'[w] = "open" /\ req[w].name \notin Keys(models)
    BY <1>0, <1>5 DEF LoadMiss, Goto
  <2>2. QED
    BY <1>0, <2>1, FollowedAnew
<1>6. ASSUME NEW w \in Workers, Finish(w) PROVE Followed'
  <2>1. /\ UNCHANGED models /\ touched' = [touched EXCEPT ![w] = {}]
        /\ \A u \in Workers \ {w} : pc'[u] = pc[u] /\ req'[u] = req[u]
        /\ pc'[w] = "idle"
    BY <1>0, <1>6 DEF Finish, Goto
  <2>2. QED
    BY <1>0, <2>1, FollowedAnew
<1>7. ASSUME NEW w \in Workers, LoadCached(w) \/ FindModel(w) PROVE Followed'
  <2>1. /\ pc[w] \in {"load", "predict"} /\ req[w].name \in Keys(models)
        /\ models' = Touch(models, req[w].name)
        /\ Recently(w, req[w].name) /\ req' = req
        /\ \E l \in {"predict", "compute"} : pc' = [pc EXCEPT ![w] = l]
    BY <1>7 DEF LoadCached, FindModel, Goto
  <2>2. Lookup(models, req[w].name) \in Model /\ req[w].name \in Names
    BY <1>0, <2>1, LookupOK
  <2>3. QED
    BY <2>1, <2>2, FollowedUse DEF Touch
<1>8. ASSUME NEW w \in Workers, Install(w) PROVE Followed'
  <2> DEFINE m == [tenant |-> req[w].tenant, name |-> req[w].name,
                   version |-> req[w].blob]
  <2>1. req[w] \in Request /\ req[w].blob \in Versions
    BY <1>0, <1>8 DEF Install, RequestSound
  <2>2. m \in Model /\ m.name = req[w].name /\ req[w].name \in Names
    BY <2>1 DEF Model, Request
  <2>3. models' = EvictTo(SetLast(models, m.name, m), MaxModels)
    BY <1>8 DEF Install
  <2> HIDE DEF m
  <2>4. /\ Recently(w, req[w].name) /\ req' = req
        /\ pc' = [pc EXCEPT ![w] = "predict"]
    BY <1>8 DEF Install, Goto
  <2>5. QED
    BY <2>2, <2>3, <2>4, FollowedUse
<1>9. ASSUME NEW n \in Unloadable, Unload(n) PROVE Followed'
  <2>1. models' = Drop(models, n) /\ UNCHANGED <<pc, req, touched>>
    BY <1>9 DEF Unload
  <2>2. Keys(models') \subseteq Keys(models)
    BY <1>0, <2>1, DropDict DEF CacheOK
  <2>3. SUFFICES ASSUME NEW u \in Workers
                 PROVE  /\ IsFiniteSet(touched[u])
                        /\ Relies(u) => Placed(models', req[u].name, touched[u])
                        /\ pc[u] \in {"open", "install"}
                           /\ req[u].name \in Keys(models') =>
                              req[u].name \in touched[u]
    BY <2>1 DEF Followed, Relies
  <2>4. Relies(u) => Placed(models', req[u].name, touched[u])
    BY <1>0, <2>1, PlacedDrop DEF Followed, Relies
  <2>5. QED
    BY <2>2, <2>4 DEF Followed
<1>10. CASE UNCHANGED vars
  BY <1>10, FollowedStays DEF vars, Relies
<1>11. QED
  BY <1>1, <1>2, <1>3, <1>4, <1>5, <1>6, <1>7, <1>8, <1>9, <1>10 DEF Next, Step

\* The account starts empty.
LEMMA InitFollowed == Init => Followed
BY FS_EmptySet DEF Init, Followed, Relies

\* Followed holds in every reachable state.
LEMMA FollowedAlways == Spec => []Followed
BY InitFollowed, NextFollowed, Invariance, PTL DEF Spec

\* A model that a request loaded stays cached until its predict looks it up,
\* unless MaxModels other models were used in between or it was unloaded
\* (inference_engine.py:186).
THEOREM LoadedModelsSurvive == Spec => []SurvivesUntilDisplaced
<1>1. Followed => SurvivesUntilDisplaced
  BY DEF Followed, Relies, Placed, SurvivesUntilDisplaced
<1>2. QED
  BY <1>1, FollowedAlways, PTL

-----------------------------------------------------------------------------
(* What a step does to the value of a cached name. *)

\* Installing a model leaves the other cached names their models.
LEMMA InstallKeepsOthers ==
    ASSUME NEW d, CacheOK(d), NEW k \in Names, NEW v \in Model, NEW n, n # k,
           n \in Keys(EvictTo(SetLast(d, k, v), MaxModels))
    PROVE  Lookup(EvictTo(SetLast(d, k, v), MaxModels), n) = Lookup(d, n)
<1> DEFINE s == SetLast(d, k, v)
           e == EvictTo(s, MaxModels)
<1>1. d \in Seq(Items(Names, Model)) /\ IsDict(d)
  BY DEF CacheOK
<1>2. /\ s \in Seq(Items(Names, Model)) /\ IsDict(s)
      /\ s[Len(s)] = [key |-> k, value |-> v]
      /\ \A i \in DOMAIN s : i = Len(s) \/ \E j \in DOMAIN d : s[i] = d[j]
  BY <1>1, SetLastDict
<1> HIDE DEF s
<1>3. \A i \in DOMAIN s : s[i].key = n => \E j \in DOMAIN d : s[i] = d[j]
  BY <1>2
<1>4. /\ e \in Seq(Items(Names, Model))
      /\ \A i \in DOMAIN e : \E j \in DOMAIN s : e[i] = s[j]
  BY <1>2, EvictToDict, MaxModelsAssumption
<1>5. n \in Keys(e)
  BY DEF s
<1> HIDE DEF e
<1>6. \A i \in DOMAIN e : e[i].key = n => \E j \in DOMAIN d : e[i] = d[j]
  BY <1>3, <1>4
<1>7. Lookup(e, n) = Lookup(d, n)
  BY <1>1, <1>4, <1>5, <1>6, LookupKept
<1>8. QED
  BY <1>7 DEF e, s

\* A cached model is replaced while it stays cached only by a load that had
\* missed before it was cached (inference_engine.py:136 and 183).
THEOREM ReplacedByRacingLoads == Spec => ReplacedOnlyByRacingLoad
<1> DEFINE Replaced(n) == Lookup(models, n)' # Lookup(models, n)
           Racing(n) == \E w \in Workers : /\ Install(w)
                                           /\ req[w].name = n
                                           /\ n \in touched[w]
           Justified == \A n \in Keys(models) \cap Keys(models)' :
                            Replaced(n) => Racing(n)
<1>1. IInv /\ Followed /\ [Next]_vars => [Justified]_vars
  <2>1. SUFFICES ASSUME IInv, Followed, Next,
                        NEW n \in Keys(models) \cap Keys(models')
                 PROVE  Lookup(models', n) = Lookup(models, n) \/ Racing(n)
    BY DEF vars
  <2>2. CacheOK(models) /\ RequestSound
    BY <2>1, CacheOKOfIInv DEF IInv
  <2>3. CASE UNCHANGED models
    BY <2>3
  <2>4. ASSUME NEW w \in Workers, LoadCached(w) \/ FindModel(w)
        PROVE  Lookup(models', n) = Lookup(models, n)
    <3>1. /\ req[w].name \in Keys(models)
          /\ models' = Touch(models, req[w].name)
      BY <2>4 DEF LoadCached, FindModel
    <3>2. models \in Seq(Items(Names, Model)) /\ IsDict(models)
      BY <2>2 DEF CacheOK
    <3>3. /\ models' \in Seq(Items(Names, Model))
          /\ \A i \in DOMAIN models' : \E j \in DOMAIN models : models'[i] = models[j]
      BY <3>1, <3>2, TouchDict
    <3>4. QED
      BY <2>1, <3>2, <3>3, LookupKept
  <2>5. ASSUME NEW w \in Workers, Install(w)
        PROVE  Lookup(models', n) = Lookup(models, n) \/ Racing(n)
    <3> DEFINE m == [tenant |-> req[w].tenant, name |-> req[w].name,
                     version |-> req[w].blob]
    <3>1. req[w] \in Request /\ req[w].blob \in Versions /\ pc[w] = "install"
      BY <2>2, <2>5 DEF Install, RequestSound
    <3>2. m \in Model /\ m.name = req[w].name /\ m.name \in Names
      BY <3>1 DEF Model, Request
    <3>3. models' = EvictTo(SetLast(models, m.name, m), MaxModels)
      BY <2>5 DEF Install
    <3> HIDE DEF m
    <3>4. CASE n = m.name
      BY <2>1, <2>5, <3>1, <3>2, <3>4 DEF Followed
    <3>5. CASE n # m.name
      BY <2>1, <2>2, <3>2, <3>3, <3>5, InstallKeepsOthers
    <3>6. QED
      BY <3>4, <3>5
  <2>6. ASSUME NEW k \in Unloadable, Unload(k)
        PROVE  Lookup(models', n) = Lookup(models, n)
    <3>1. models' = Drop(models, k)
      BY <2>6 DEF Unload
    <3>2. models \in Seq(Items(Names, Model)) /\ IsDict(models)
      BY <2>2 DEF CacheOK
    <3>3. /\ models' \in Seq(Items(Names, Model))
          /\ \A i \in DOMAIN models' : \E j \in DOMAIN models : models'[i] = models[j]
      BY <3>1, <3>2, DropDict
    <3>4. QED
      BY <2>1, <3>2, <3>3, LookupKept
  <2>7. QED
    BY <2>1, <2>3, <2>4, <2>5, <2>6
       DEF Next, Step, Train, Arrive, RejectMalformed, CheckLoaded, RejectFields,
           LoadMiss, OpenArtifact, OpenFails, ModelGone, Compute, Finish
<1>2. QED
  BY <1>1, Invariance, FollowedAlways, PTL DEF Spec, ReplacedOnlyByRacingLoad

-----------------------------------------------------------------------------
(* InferenceEngine implements PredictionService when no two tenants use the *)
(* same model name.                                                         *)

\* m is a version of its model that has been published, for pub = published.
PublishedIn(m, pub) == m.version <= pub[<<m.tenant, m.name>>]

AllPublished(d, pub) == \A i \in DOMAIN d : PublishedIn(d[i].value, pub)

BlobPublished(r, pub) == r.blob <= pub[<<r.tenant, r.name>>]

\* Models and blobs are versions that the trainer has published.
Fresh ==
    /\ AllPublished(models, published)
    /\ \A w \in Workers :
        /\ pc[w] \notin {"idle", "reply"} => BlobPublished(req[w], published)
        /\ pc[w] = "compute" => PublishedIn(using[w], published)

\* A request will be told that its model was cached iff it had no blob.
HitSound ==
    \A w \in Workers :
        pc[w] \in {"predict", "compute"} => hit[w] = (req[w].blob = NoBlob)

RInv == IInv /\ Fresh /\ HitSound

-----------------------------------------------------------------------------
(* The changes of the cache bring in no other versions. *)

\* Moving a model to the end (inference_engine.py:139, 214).
LEMMA TouchPublished ==
    ASSUME NEW d, CacheOK(d), NEW n \in Keys(d), NEW pub, AllPublished(d, pub)
    PROVE  AllPublished(Touch(d, n), pub)
<1>1. d \in Seq(Items(Names, Model)) /\ IsDict(d)
  BY DEF CacheOK
<1>2. \A i \in DOMAIN Touch(d, n) : \E j \in DOMAIN d : Touch(d, n)[i] = d[j]
  BY <1>1, TouchDict
<1>3. QED
  BY <1>2 DEF AllPublished

\* Filing a model and evicting others (inference_engine.py:184-187).
LEMMA InstallPublished ==
    ASSUME NEW d, CacheOK(d), NEW m \in Model, NEW pub,
           AllPublished(d, pub), PublishedIn(m, pub)
    PROVE  AllPublished(EvictTo(SetLast(d, m.name, m), MaxModels), pub)
<1> DEFINE e == SetLast(d, m.name, m)
           f == EvictTo(e, MaxModels)
<1>1. /\ d \in Seq(Items(Names, Model)) /\ IsDict(d)
      /\ m.name \in Names /\ MaxModels \in Nat
  BY MaxModelsAssumption DEF CacheOK, Model
<1>2. /\ e \in Seq(Items(Names, Model)) /\ IsDict(e)
      /\ e[Len(e)] = [key |-> m.name, value |-> m]
      /\ \A i \in DOMAIN e :
            i = Len(e) \/ \E j \in DOMAIN d : e[i] = d[j]
  BY <1>1, SetLastDict
<1> HIDE DEF e
<1>3. \A i \in DOMAIN e : PublishedIn(e[i].value, pub)
  BY <1>2 DEF AllPublished
<1>4. \A i \in DOMAIN f : \E j \in DOMAIN e : f[i] = e[j]
  <2>1. e \in Seq(Items(Names, Model)) /\ IsDict(e) /\ MaxModels \in Nat
    BY <1>1, <1>2
  <2> QED
    BY <2>1, EvictToDict
<1> HIDE DEF f
<1>5. AllPublished(f, pub)
  BY <1>3, <1>4 DEF AllPublished
<1>6. QED
  BY <1>5 DEF e, f

\* Removing a model (inference_engine.py:253).
LEMMA DropPublished ==
    ASSUME NEW d, CacheOK(d), NEW n, NEW pub, AllPublished(d, pub)
    PROVE  AllPublished(Drop(d, n), pub)
<1>1. d \in Seq(Items(Names, Model)) /\ IsDict(d)
  BY DEF CacheOK
<1>2. \A i \in DOMAIN Drop(d, n) : \E j \in DOMAIN d : Drop(d, n)[i] = d[j]
  BY <1>1, DropDict
<1>3. QED
  BY <1>2 DEF AllPublished

\* A cached model is published.
LEMMA LookupPublished ==
    ASSUME NEW d, CacheOK(d), NEW n \in Keys(d), NEW pub, AllPublished(d, pub)
    PROVE  PublishedIn(Lookup(d, n), pub)
<1>1. d \in Seq(Items(Names, Model)) /\ DOMAIN d = 1..Len(d)
  BY LenProperties DEF CacheOK
<1>2. PositionOf(d, n) \in DOMAIN d
  BY <1>1, PositionProperties
<1>3. QED
  BY <1>2 DEF AllPublished, Lookup

-----------------------------------------------------------------------------
(* The invariant of the refinement. *)

\* The empty cache and idle workers satisfy it.
LEMMA InitRInv == Init => RInv
<1> SUFFICES ASSUME Init PROVE RInv
  OBVIOUS
<1>1. Fresh
  BY DEF Init, Fresh, AllPublished
<1>2. HitSound
  BY DEF Init, HitSound
<1>3. QED
  BY <1>1, <1>2, InitIInv DEF RInv

\* What a step of a worker needs of the invariant.
LEMMA RInvParts ==
    ASSUME RInv
    PROVE  /\ CacheOK(models) /\ TypeOK /\ RequestSound
           /\ AllPublished(models, published)
           /\ \A w \in Workers :
                /\ pc[w] \notin {"idle", "reply"} =>
                        BlobPublished(req[w], published)
                /\ pc[w] = "compute" =>
                        /\ PublishedIn(using[w], published)
                        /\ Serves(using[w], req[w])
                /\ pc[w] \in {"predict", "compute"} =>
                        hit[w] = (req[w].blob = NoBlob)
BY IInvParts DEF RInv, Fresh, HitSound

\* No step makes a model, a blob or a hit unsound.
LEMMA NextFresh == RInv /\ [Next]_vars => Fresh' /\ HitSound'
<1> SUFFICES ASSUME RInv, [Next]_vars PROVE Fresh' /\ HitSound'
  OBVIOUS
<1> USE DEF Goto, Respond
<1>0. /\ CacheOK(models) /\ TypeOK /\ RequestSound
      /\ AllPublished(models, published)
      /\ \A w \in Workers :
            /\ pc[w] \notin {"idle", "reply"} =>
                    BlobPublished(req[w], published)
            /\ pc[w] = "compute" => /\ PublishedIn(using[w], published)
                                    /\ Serves(using[w], req[w])
            /\ pc[w] \in {"predict", "compute"} =>
                    hit[w] = (req[w].blob = NoBlob)
  BY RInvParts
<1>1. ASSUME NEW p \in Stored, Train(p)
      PROVE  Fresh' /\ HitSound'
  <2>1. /\ published' = [published EXCEPT ![p] = @ + 1]
        /\ UNCHANGED <<models, pc, req, hit, using, reply>>
    BY <1>1 DEF Train
  <2>2. \A q \in Stored : /\ published[q] \in Nat /\ published'[q] \in Nat
                          /\ published[q] <= published'[q]
    BY <1>0, <2>1 DEF TypeOK, Versions
  <2>3. ASSUME NEW m \in Model, <<m.tenant, m.name>> \in Stored,
               PublishedIn(m, published)
        PROVE  PublishedIn(m, published')
    BY <2>2, <2>3 DEF PublishedIn, Model, Versions
  <2>4. AllPublished(models, published')
    <3>1. ASSUME NEW i \in DOMAIN models
          PROVE  /\ models[i].value \in Model
                 /\ <<models[i].value.tenant, models[i].value.name>> \in Stored
      <4>1. models \in Seq(Items(Names, Model))
        BY <1>0 DEF CacheOK
      <4>2. models[i] \in Items(Names, Model)
        BY <4>1, ElementOfSeq, LenProperties
      <4>3. QED
        BY <1>0, <4>2 DEF CacheOK, Items
    <3>2. QED
      BY <1>0, <2>3, <3>1 DEF AllPublished
  <2>5. ASSUME NEW w \in Workers, pc[w] \notin {"idle", "reply"}
        PROVE  BlobPublished(req[w], published')
    <3>1. req[w] \in Request /\ <<req[w].tenant, req[w].name>> \in Stored
      BY <1>0, <2>5 DEF RequestSound
    <3>2. QED
      BY <1>0, <2>2, <2>5, <3>1 DEF BlobPublished, Request, Versions, NoBlob
  <2>6. ASSUME NEW w \in Workers, pc[w] = "compute"
        PROVE  PublishedIn(using[w], published')
    BY <1>0, <2>3, <2>6 DEF Serves
  <2>7. QED
    BY <1>0, <2>1, <2>4, <2>5, <2>6 DEF Fresh, HitSound
<1>2. ASSUME NEW w \in Workers, Arrive(w)
      PROVE  Fresh' /\ HitSound'
  <2>1. PICK p \in Stored, padded \in Padding :
            \E blob \in {NoBlob, published[p]} :
                req' = [req EXCEPT ![w] = [tenant |-> p[1], name |-> p[2],
                                           padded |-> padded, blob |-> blob]]
    BY <1>2, BlobIs DEF Arrive
  <2>2. PICK blob \in {NoBlob, published[p]} :
            req' = [req EXCEPT ![w] = [tenant |-> p[1], name |-> p[2],
                                       padded |-> padded, blob |-> blob]]
    BY <2>1
  <2>3. /\ p = <<p[1], p[2]>> /\ published[p] \in Nat /\ blob <= published[p]
    BY <1>0, StoredAssumption DEF TypeOK, Versions, NoBlob
  <2>4. BlobPublished(req'[w], published)
    BY <1>0, <2>2, <2>3 DEF TypeOK, BlobPublished
  <2>5. /\ pc' = [pc EXCEPT ![w] = "check"]
        /\ UNCHANGED <<published, models, hit, using>>
    BY <1>2 DEF Arrive
  <2>6. QED
    BY <1>0, <2>2, <2>4, <2>5 DEF TypeOK, Fresh, HitSound
<1>3. ASSUME NEW w \in Workers, RejectMalformed(w)
      PROVE  Fresh' /\ HitSound'
  BY <1>0, <1>3 DEF RejectMalformed, TypeOK, Fresh, HitSound
<1>4. ASSUME NEW w \in Workers, CheckLoaded(w)
      PROVE  Fresh' /\ HitSound'
  <2> DEFINE loaded == ~req[w].padded /\ req[w].name \in Keys(models)
  <2>1. /\ pc[w] = "check"
        /\ hit' = [hit EXCEPT ![w] = loaded]
        /\ \/ /\ req[w].blob # NoBlob
              /\ pc' = [pc EXCEPT ![w] = "load"]
           \/ /\ req[w].blob = NoBlob /\ loaded
              /\ pc' = [pc EXCEPT ![w] = "predict"]
           \/ pc' = [pc EXCEPT ![w] = "reply"]
        /\ UNCHANGED <<published, models, req, using>>
    BY <1>4 DEF CheckLoaded
  <2> HIDE DEF loaded
  <2>2. Fresh'
    BY <1>0, <2>1 DEF TypeOK, Fresh
  <2>3. HitSound'
    BY <1>0, <2>1 DEF TypeOK, HitSound
  <2>4. QED
    BY <2>2, <2>3
<1>5. ASSUME NEW w \in Workers, RejectFields(w)
      PROVE  Fresh' /\ HitSound'
  BY <1>0, <1>5 DEF RejectFields, TypeOK, Fresh, HitSound
<1>6. ASSUME NEW w \in Workers, LoadCached(w)
      PROVE  Fresh' /\ HitSound'
  <2>1. AllPublished(models', published)
    BY <1>0, <1>6, TouchPublished DEF LoadCached
  <2>2. req[w].blob \in Versions
    BY <1>0, <1>6 DEF LoadCached, RequestSound
  <2>3. req[w].blob # NoBlob
    BY <2>2 DEF Versions, NoBlob
  <2>4. QED
    BY <1>0, <1>6, <2>1, <2>3 DEF LoadCached, TypeOK, Fresh, HitSound
<1>7. ASSUME NEW w \in Workers, LoadMiss(w)
      PROVE  Fresh' /\ HitSound'
  BY <1>0, <1>7 DEF LoadMiss, TypeOK, Fresh, HitSound
<1>8. ASSUME NEW w \in Workers, OpenArtifact(w)
      PROVE  Fresh' /\ HitSound'
  BY <1>0, <1>8 DEF OpenArtifact, TypeOK, Fresh, HitSound
<1>9. ASSUME NEW w \in Workers, OpenFails(w)
      PROVE  Fresh' /\ HitSound'
  BY <1>0, <1>9 DEF OpenFails, TypeOK, Fresh, HitSound
<1>10. ASSUME NEW w \in Workers, Install(w)
       PROVE  Fresh' /\ HitSound'
  <2> DEFINE m == [tenant |-> req[w].tenant, name |-> req[w].name,
                   version |-> req[w].blob]
  <2>1. req[w] \in Request /\ req[w].blob \in Versions
    BY <1>0, <1>10 DEF Install, RequestSound
  <2>2. m \in Model /\ PublishedIn(m, published)
    BY <1>0, <1>10, <2>1
       DEF Install, Model, Request, PublishedIn, BlobPublished
  <2>3. models' = EvictTo(SetLast(models, m.name, m), MaxModels)
    BY <1>10 DEF Install
  <2> HIDE DEF m
  <2>4. AllPublished(models', published)
    BY <1>0, <2>2, <2>3, InstallPublished
  <2>5. req[w].blob # NoBlob
    BY <2>1 DEF Versions, NoBlob
  <2>6. QED
    BY <1>0, <1>10, <2>4, <2>5 DEF Install, TypeOK, Fresh, HitSound
<1>11. ASSUME NEW w \in Workers, FindModel(w)
       PROVE  Fresh' /\ HitSound'
  <2>1. /\ req[w].name \in Keys(models) /\ pc[w] = "predict"
        /\ models' = Touch(models, req[w].name)
        /\ using' = [using EXCEPT ![w] = Lookup(models, req[w].name)]
        /\ pc' = [pc EXCEPT ![w] = "compute"]
        /\ UNCHANGED <<published, req, hit>>
    BY <1>11 DEF FindModel
  <2>2. AllPublished(models', published)
    BY <1>0, <2>1, TouchPublished
  <2>3. PublishedIn(Lookup(models, req[w].name), published)
    BY <1>0, <2>1, LookupPublished
  <2>4. Fresh'
    BY <1>0, <2>1, <2>2, <2>3 DEF TypeOK, Fresh
  <2>5. HitSound'
    BY <1>0, <2>1 DEF TypeOK, HitSound
  <2>6. QED
    BY <2>4, <2>5
<1>12. ASSUME NEW w \in Workers, ModelGone(w)
       PROVE  Fresh' /\ HitSound'
  BY <1>0, <1>12 DEF ModelGone, TypeOK, Fresh, HitSound
<1>13. ASSUME NEW w \in Workers, Compute(w)
       PROVE  Fresh' /\ HitSound'
  <2>1. /\ pc' = [pc EXCEPT ![w] = "reply"]
        /\ UNCHANGED <<published, models, req, hit, using>>
    BY <1>13 DEF Compute
  <2>2. QED
    BY <1>0, <2>1 DEF TypeOK, Fresh, HitSound
<1>14. ASSUME NEW w \in Workers, Finish(w)
       PROVE  Fresh' /\ HitSound'
  BY <1>0, <1>14 DEF Finish, TypeOK, Fresh, HitSound
<1>15. ASSUME NEW n \in Unloadable, Unload(n)
       PROVE  Fresh' /\ HitSound'
  <2>1. AllPublished(models', published)
    BY <1>0, <1>15, DropPublished DEF Unload
  <2>2. QED
    BY <1>0, <1>15, <2>1 DEF Unload, Fresh, HitSound
<1>16. CASE UNCHANGED vars
  BY <1>0, <1>16 DEF vars, Fresh, HitSound
<1>17. QED
  BY <1>1, <1>2, <1>3, <1>4, <1>5, <1>6, <1>7, <1>8, <1>9, <1>10, <1>11,
     <1>12, <1>13, <1>14, <1>15, <1>16 DEF Next, Step

\* RInv holds in every reachable state.
LEMMA RInvariance == Spec => []RInv
<1>1. RInv /\ [Next]_vars => RInv'
  BY NextIInv, NextFresh DEF RInv
<1>2. QED
  BY <1>1, InitRInv, PTL DEF Spec
-----------------------------------------------------------------------------
(* The steps of the abstract service. *)

\* What a worker's program counter tells the callers.
PhaseOf(l) == CASE l = "idle" -> "free"
                [] l = "reply" -> "answered"
                [] OTHER -> "serving"

\* A worker's move changes its phase alone.
LEMMA PhaseStep ==
    ASSUME NEW w \in Workers, NEW l, TypeOK, pc' = [pc EXCEPT ![w] = l]
    PROVE  Phase' = [Phase EXCEPT ![w] = PhaseOf(l)]
BY DEF TypeOK, Phase, PhaseOf

\* A worker that has a request and has not answered stays in its phase.
LEMMA PhaseKept ==
    ASSUME NEW w \in Workers, NEW l, TypeOK, pc' = [pc EXCEPT ![w] = l],
           pc[w] \notin {"idle", "reply"}, l \notin {"idle", "reply"}
    PROVE  Phase' = Phase
BY DEF TypeOK, Phase

\* The workers start free.
LEMMA InitPromise == Init => Promise!Init
BY DEF Init, Promise!Init, Phase, NoRequest, NoReply, NoBlob,
       Promise!NoRequest, Promise!NoReply, Promise!NoBlob

\* An error response is an answer of the service.
LEMMA ErrorAnswers ==
    ASSUME NEW w \in Workers, NEW code \in ErrorCodes, TypeOK,
           pc[w] \notin {"idle", "reply"}, Respond(w, Error(code)),
           UNCHANGED <<published, req>>
    PROVE  Promise!Answer(w)
<1>1. Error(code) \in Promise!Errors
  BY DEF Error, ErrorCodes, LoadErrors, ComputeErrors,
         Promise!Errors, Promise!ErrorCodes
<1>2. reply' = [reply EXCEPT ![w] = Error(code)]
  BY DEF Respond
<1>3. Phase' = [Phase EXCEPT ![w] = "answered"]
  BY PhaseStep DEF Respond, Goto, PhaseOf
<1>4. Phase[w] = "serving"
  BY DEF Phase
<1>5. QED
  BY <1>1, <1>2, <1>3, <1>4 DEF Promise!Answer

\* The output of a published model of the request's tenant is one too.
LEMMA OkAnswers ==
    ASSUME NEW w \in Workers, NEW m, RInv, NamesUnshared,
           pc[w] = "compute", m = using[w], Respond(w, Ok(m, hit[w])),
           UNCHANGED <<published, req>>
    PROVE  Promise!Answer(w)
<1> DEFINE r == req[w]
<1>1. /\ TypeOK /\ Serves(m, r) /\ PublishedIn(m, published)
      /\ hit[w] = (r.blob = NoBlob)
  BY RInvParts
<1>2. <<m.tenant, m.name>> = <<r.tenant, r.name>>
  BY <1>1 DEF Serves, NamesUnshared
<1>3. m = [tenant |-> r.tenant, name |-> r.name, version |-> m.version]
  BY <1>1, <1>2 DEF Serves, Model
<1>4. m.version \in 1..published[<<r.tenant, r.name>>]
  <2>1. m.version \in Versions /\ published[<<r.tenant, r.name>>] \in Versions
    BY <1>1 DEF Serves, Model, TypeOK
  <2>2. m.version <= published[<<r.tenant, r.name>>]
    BY <1>1, <1>2 DEF PublishedIn
  <2>3. QED
    BY <2>1, <2>2 DEF Versions
<1>5. Ok(m, hit[w]) \in Promise!Answers(r)
  BY <1>1, <1>3, <1>4 DEF Ok, NoBlob, Promise!Answers, Promise!NoBlob
<1>6. reply' = [reply EXCEPT ![w] = Ok(m, hit[w])]
  BY DEF Respond
<1>7. Phase' = [Phase EXCEPT ![w] = "answered"]
  BY <1>1, PhaseStep DEF Respond, Goto, PhaseOf
<1>8. Phase[w] = "serving"
  BY DEF Phase
<1>9. QED
  BY <1>5, <1>6, <1>7, <1>8 DEF Promise!Answer

\* Every step of the engine is one of the service, or none.
LEMMA NextPromise ==
    RInv /\ NamesUnshared /\ [Next]_vars => [Promise!Next]_(Promise!svars)
<1> SUFFICES ASSUME RInv, NamesUnshared, [Next]_vars
             PROVE  Promise!Next \/ UNCHANGED <<published, Phase, req, reply>>
  BY DEF Promise!svars
<1>0. TypeOK /\ RequestSound
  BY RInvParts
<1>1. ASSUME NEW p \in Stored, Train(p)
      PROVE  Promise!Next
  BY <1>1 DEF Train, Phase, Promise!Publish, Promise!Next
<1>2. ASSUME NEW w \in Workers, Arrive(w)
      PROVE  Promise!Next
  <2>1. /\ Phase' = [Phase EXCEPT ![w] = PhaseOf("check")]
        /\ PhaseOf("check") = "serving"
    BY <1>0, <1>2, PhaseStep DEF Arrive, Goto, PhaseOf
  <2>2. Phase[w] = "free"
    BY <1>2 DEF Arrive, Phase
  <2>3. Promise!Submit(w)
    BY <1>2, <2>1, <2>2 DEF Arrive, Promise!Submit, NoBlob, Promise!NoBlob
  <2>4. QED
    BY <2>3 DEF Promise!Next
<1>3. ASSUME NEW w \in Workers, RejectMalformed(w)
      PROVE  Promise!Next
  <2>1. Phase' = [Phase EXCEPT ![w] = "answered"] /\ Phase[w] = "free"
    BY <1>0, <1>3, PhaseStep
       DEF RejectMalformed, Respond, Goto, Phase, PhaseOf
  <2>2. Promise!Refuse(w)
    BY <1>3, <2>1 DEF RejectMalformed, Respond, Error, Promise!Refuse
  <2>3. QED
    BY <2>2 DEF Promise!Next
<1>4. ASSUME NEW w \in Workers, CheckLoaded(w)
      PROVE  Promise!Next \/ UNCHANGED <<published, Phase, req, reply>>
  <2>1. CASE Respond(w, Error("MODEL_NOT_FOUND"))
    BY <1>0, <1>4, <2>1, ErrorAnswers DEF CheckLoaded, ErrorCodes, Promise!Next
  <2>0. pc[w] = "check" /\ UNCHANGED <<published, req>>
    BY <1>4 DEF CheckLoaded
  <2>2. CASE Goto(w, "load") /\ UNCHANGED reply
    BY <1>0, <2>0, <2>2, PhaseKept DEF Goto
  <2>3. CASE Goto(w, "predict") /\ UNCHANGED reply
    BY <1>0, <2>0, <2>3, PhaseKept DEF Goto
  <2>4. QED
    BY <1>4, <2>1, <2>2, <2>3 DEF CheckLoaded
<1>5. ASSUME NEW w \in Workers, RejectFields(w)
      PROVE  Promise!Next
  BY <1>0, <1>5, ErrorAnswers
     DEF RejectFields, ErrorCodes, LoadErrors, ComputeErrors, Promise!Next
<1>6. ASSUME NEW w \in Workers, LoadCached(w)
      PROVE  UNCHANGED <<published, Phase, req, reply>>
  BY <1>0, <1>6, PhaseKept DEF LoadCached, Goto
<1>7. ASSUME NEW w \in Workers, LoadMiss(w)
      PROVE  UNCHANGED <<published, Phase, req, reply>>
  BY <1>0, <1>7, PhaseKept DEF LoadMiss, Goto
<1>8. ASSUME NEW w \in Workers, OpenArtifact(w)
      PROVE  UNCHANGED <<published, Phase, req, reply>>
  BY <1>0, <1>8, PhaseKept DEF OpenArtifact, Goto
<1>9. ASSUME NEW w \in Workers, OpenFails(w)
      PROVE  Promise!Next
  <2>1. PICK code \in LoadErrors : Respond(w, Error(code))
    BY <1>9 DEF OpenFails
  <2>2. code \in ErrorCodes
    BY DEF ErrorCodes
  <2>3. QED
    BY <1>0, <1>9, <2>1, <2>2, ErrorAnswers DEF OpenFails, Promise!Next
<1>10. ASSUME NEW w \in Workers, Install(w)
       PROVE  UNCHANGED <<published, Phase, req, reply>>
  BY <1>0, <1>10, PhaseKept DEF Install, Goto
<1>11. ASSUME NEW w \in Workers, FindModel(w)
       PROVE  UNCHANGED <<published, Phase, req, reply>>
  BY <1>0, <1>11, PhaseKept DEF FindModel, Goto
<1>12. ASSUME NEW w \in Workers, ModelGone(w)
       PROVE  Promise!Next
  BY <1>0, <1>12, ErrorAnswers DEF ModelGone, ErrorCodes, Promise!Next
<1>13. ASSUME NEW w \in Workers, Compute(w)
       PROVE  Promise!Next
  <2>1. CASE Respond(w, Ok(using[w], hit[w]))
    BY <1>13, <2>1, OkAnswers DEF Compute, Promise!Next
  <2>2. CASE \E code \in ComputeErrors : Respond(w, Error(code))
    <3>1. PICK code \in ComputeErrors : Respond(w, Error(code))
      BY <2>2
    <3>2. code \in ErrorCodes
      BY DEF ErrorCodes
    <3>3. QED
      BY <1>0, <1>13, <3>1, <3>2, ErrorAnswers DEF Compute, Promise!Next
  <2>3. QED
    BY <1>13, <2>1, <2>2 DEF Compute
<1>14. ASSUME NEW w \in Workers, Finish(w)
       PROVE  Promise!Next
  <2>1. Phase' = [Phase EXCEPT ![w] = "free"] /\ Phase[w] = "answered"
    BY <1>0, <1>14, PhaseStep DEF Finish, Goto, Phase, PhaseOf
  <2>2. Promise!Collect(w)
    BY <1>14, <2>1 DEF Finish, Promise!Collect, NoRequest, NoReply, NoBlob,
                       Promise!NoRequest, Promise!NoReply, Promise!NoBlob
  <2>3. QED
    BY <2>2 DEF Promise!Next
<1>15. ASSUME NEW n \in Unloadable, Unload(n)
       PROVE  UNCHANGED <<published, Phase, req, reply>>
  BY <1>15 DEF Unload, Phase
<1>16. CASE UNCHANGED vars
  BY <1>16 DEF vars, Phase
<1>17. QED
  BY <1>1, <1>2, <1>3, <1>4, <1>5, <1>6, <1>7, <1>8, <1>9, <1>10, <1>11,
     <1>12, <1>13, <1>14, <1>15, <1>16 DEF Next, Step

-----------------------------------------------------------------------------
\* When no two tenants share a model name, the engine with its cache, its
\* races between check, load and predict and its evictions (server.py:227-279)
\* is the service that answers every request with a published version of the
\* tenant's own model.
THEOREM EngineImplementsPromise ==
    ASSUME NamesUnshared
    PROVE  Spec => Promised
<1>1. RInv /\ [Next]_vars => [Promise!Next]_(Promise!svars)
  BY NamesUnshared, NextPromise
<1>2. QED
  BY <1>1, InitPromise, RInvariance, PTL DEF Spec, Promised, Promise!Spec
=============================================================================
