------------------------- MODULE PredictionService -------------------------
(***************************************************************************)
(* What the enclave promises its callers, with no cache in sight: each     *)
(* request gets one response, and a successful one is the output of a      *)
(* version of the requested model, of the requesting tenant, that the      *)
(* trainer has published.  InferenceEngine implements it when no two       *)
(* tenants use the same model name.                                        *)
(***************************************************************************)
EXTENDS Naturals

CONSTANTS Workers, Stored, MaxVersion, Padding

VARIABLES published, phase, req, reply

svars == <<published, phase, req, reply>>

NoBlob == 0
NoRequest == [blob |-> NoBlob]
NoReply == [status |-> "none"]

ErrorCodes == {"DECRYPTION_FAILED", "INVALID_REQUEST", "MODEL_NOT_FOUND",
               "FEATURE_DIMENSION_MISMATCH", "INFERENCE_FAILED",
               "INTERNAL_ERROR"}
Errors == {[status |-> "error", code |-> c] : c \in ErrorCodes}

\* The successful responses that a request allows.  One that brought a blob is
\* never told that the model was cached.
Answers(r) ==
    {[status |-> "ok",
      model |-> [tenant |-> r.tenant, name |-> r.name, version |-> v],
      cached |-> r.blob = NoBlob] : v \in 1..published[<<r.tenant, r.name>>]}

Init ==
    /\ published = [p \in Stored |-> 1]
    /\ phase = [w \in Workers |-> "free"]
    /\ req = [w \in Workers |-> NoRequest]
    /\ reply = [w \in Workers |-> NoReply]

Publish(p) ==
    /\ published[p] < MaxVersion
    /\ published' = [published EXCEPT ![p] = @ + 1]
    /\ UNCHANGED <<phase, req, reply>>

Submit(w) ==
    /\ phase[w] = "free"
    /\ \E p \in Stored, padded \in Padding :
        \E blob \in {NoBlob, published[p]} :
            req' = [req EXCEPT ![w] = [tenant |-> p[1], name |-> p[2],
                                       padded |-> padded, blob |-> blob]]
    /\ phase' = [phase EXCEPT ![w] = "serving"]
    /\ UNCHANGED <<published, reply>>

Refuse(w) ==
    /\ phase[w] = "free"
    /\ reply' = [reply EXCEPT ![w] = [status |-> "error",
                                      code |-> "INVALID_REQUEST"]]
    /\ phase' = [phase EXCEPT ![w] = "answered"]
    /\ UNCHANGED <<published, req>>

Answer(w) ==
    /\ phase[w] = "serving"
    /\ \E r \in Errors \cup Answers(req[w]) : reply' = [reply EXCEPT ![w] = r]
    /\ phase' = [phase EXCEPT ![w] = "answered"]
    /\ UNCHANGED <<published, req>>

Collect(w) ==
    /\ phase[w] = "answered"
    /\ phase' = [phase EXCEPT ![w] = "free"]
    /\ req' = [req EXCEPT ![w] = NoRequest]
    /\ reply' = [reply EXCEPT ![w] = NoReply]
    /\ UNCHANGED published

Next ==
    \/ \E p \in Stored : Publish(p)
    \/ \E w \in Workers : Submit(w) \/ Refuse(w) \/ Answer(w) \/ Collect(w)

Spec == Init /\ [][Next]_svars
=============================================================================
