------------------------------ MODULE KeyCache ------------------------------
(***************************************************************************)
(* EnclaveKMSClient: the enclave's cache of decrypted data keys, with a    *)
(* time to live and a size limit, used by concurrent threads.  A cache key *)
(* stands for a (tenant, ciphertext) pair; its plaintext is unique, so an  *)
(* entry records only the time it expires and when KMS released it.        *)
(***************************************************************************)
EXTENDS OrderedDict

CONSTANTS
    Threads,
    DataKeys,      \* (tenant, wrapped key) pairs
    NoKey,
    TTL,           \* _cache_ttl_seconds
    MaxSize,       \* _max_cache_size
    MaxClock       \* bound: the clock stops there

ASSUME NoKeyAssumption == NoKey \notin DataKeys
ASSUME TTLAssumption == TTL \in Nat \ {0}
ASSUME MaxSizeAssumption == MaxSize \in Nat \ {0}
ASSUME MaxClockAssumption == MaxClock \in Nat

VARIABLES
    clock,         \* time.monotonic()
    cache,         \* _cache: key |-> entry, least recently used first
    pc,            \* where the thread is in decrypt_data_key
    want,          \* the key it asks for
    started,       \* history: the clock when the call began
    now,           \* its sample of the clock
    got,           \* the entry it returns or is about to store
    deadline,      \* history: until when the last stored entry of a key lives
    since          \* history: the other keys used since a key was last used

vars == <<clock, cache, pc, want, started, now, got, deadline, since>>

Times == 0..(MaxClock + TTL)
Entry == [released : Times, expires : Times]
NoEntry == [released |-> 0, expires |-> 0]
Labels == {"idle", "sample", "lookup", "fetch", "stamp", "store", "hit",
           "stored", "failed"}

Init ==
    /\ clock = 0
    /\ cache = <<>>
    /\ pc = [t \in Threads |-> "idle"]
    /\ want = [t \in Threads |-> NoKey]
    /\ started = [t \in Threads |-> 0]
    /\ now = [t \in Threads |-> 0]
    /\ got = [t \in Threads |-> NoEntry]
    /\ deadline = [k \in DataKeys |-> 0]
    /\ since = [k \in DataKeys |-> {}]

-----------------------------------------------------------------------------
Goto(t, l) == pc' = [pc EXCEPT ![t] = l]

\* Mutant of Purge: an entry lives until its expiry is past.
PurgeLate(d, time) == Retain(d, {i \in DOMAIN d : d[i].value.expires >= time})

\* _purge_expired_locked
Purge(d, time) == Retain(d, {i \in DOMAIN d : d[i].value.expires > time})

\* Key k becomes the most recently used one.
Used(k) ==
    since' = [j \in DataKeys |-> IF j = k THEN {} ELSE since[j] \cup {k}]

Tick ==
    /\ clock < MaxClock
    /\ clock' = clock + 1
    /\ UNCHANGED <<cache, pc, want, started, now, got, deadline, since>>

\* decrypt_data_key is called; force_refresh skips the cache.
Call(t) ==
    /\ pc[t] = "idle"
    /\ \E k \in DataKeys : want' = [want EXCEPT ![t] = k]
    /\ started' = [started EXCEPT ![t] = clock]
    /\ \E force_refresh \in BOOLEAN :
            Goto(t, IF force_refresh THEN "fetch" ELSE "sample")
    /\ UNCHANGED <<clock, cache, now, got, deadline, since>>

\* decrypt_data_key is called with an empty tenant_id or ciphertext_blob: a
\* ValueError.
Refuse(t) ==
    /\ pc[t] = "idle"
    /\ Goto(t, "failed")
    /\ UNCHANGED <<clock, cache, want, started, now, got, deadline, since>>

\* _get_cached reads the clock before it takes the lock.
SampleClock(t) ==
    /\ pc[t] = "sample"
    /\ now' = [now EXCEPT ![t] = clock]
    /\ Goto(t, "lookup")
    /\ UNCHANGED <<clock, cache, want, started, got, deadline, since>>

\* _get_cached under the lock, with the clock read before.
GetCached(t) ==
    /\ pc[t] = "lookup"
    /\ LET live == Purge(cache, now[t])
           k == want[t]
       IN  \/ /\ k \in Keys(live)
              /\ got' = [got EXCEPT ![t] = Lookup(live, k)]
              /\ cache' = Touch(live, k)
              /\ Used(k)
              /\ Goto(t, "hit")
           \/ /\ k \notin Keys(live)
              /\ cache' = live
              /\ Goto(t, "fetch")
              /\ UNCHANGED <<got, since>>
    /\ UNCHANGED <<clock, want, started, now, deadline>>

\* The attestation document is obtained and KMS, through the host-side proxy,
\* releases the plaintext.
Fetch(t) ==
    /\ pc[t] = "fetch"
    /\ got' = [got EXCEPT ![t] = [released |-> clock, expires |-> 0]]
    /\ Goto(t, "stamp")
    /\ UNCHANGED <<clock, cache, want, started, now, deadline, since>>

\* The attestation, the proxy or the response fails.
FetchFails(t) ==
    /\ pc[t] = "fetch"
    /\ Goto(t, "failed")
    /\ UNCHANGED <<clock, cache, want, started, now, got, deadline, since>>

\* Mutant of Stamp: the time to live is added twice.
StampTwice(t) ==
    /\ pc[t] = "stamp"
    /\ got' = [got EXCEPT ![t].expires = clock + TTL + TTL]
    /\ Goto(t, "store")
    /\ UNCHANGED <<clock, cache, want, started, now, deadline, since>>

\* Mutant of Stamp: the lifetime starts at the lookup, before KMS answers.
StampEarly(t) ==
    /\ pc[t] = "stamp"
    /\ got' = [got EXCEPT ![t].expires = now[t] + TTL]
    /\ Goto(t, "store")
    /\ UNCHANGED <<clock, cache, want, started, now, deadline, since>>

\* _store_cache_entry computes expires_at before it takes the lock.
Stamp(t) ==
    /\ pc[t] = "stamp"
    /\ got' = [got EXCEPT ![t].expires = clock + TTL]
    /\ Goto(t, "store")
    /\ UNCHANGED <<clock, cache, want, started, now, deadline, since>>

\* _store_cache_entry under the lock, where it reads the clock again.
Store(t) ==
    /\ pc[t] = "store"
    /\ cache' = EvictTo(SetLast(Purge(cache, clock), want[t], got[t]), MaxSize)
    /\ deadline' = [deadline EXCEPT ![want[t]] = got[t].expires]
    /\ Used(want[t])
    /\ Goto(t, "stored")
    /\ UNCHANGED <<clock, want, started, now, got>>

\* The call returns its plaintext or raises.
Return(t) ==
    /\ pc[t] \in {"hit", "stored", "failed"}
    /\ Goto(t, "idle")
    /\ want' = [want EXCEPT ![t] = NoKey]
    /\ started' = [started EXCEPT ![t] = 0]
    /\ now' = [now EXCEPT ![t] = 0]
    /\ got' = [got EXCEPT ![t] = NoEntry]
    /\ UNCHANGED <<clock, cache, deadline, since>>

\* clear_cache
ClearCache ==
    /\ cache' = <<>>
    /\ deadline' = [k \in DataKeys |-> 0]
    /\ UNCHANGED <<clock, pc, want, started, now, got, since>>

\* cache_size
CacheSize ==
    /\ cache' = Purge(cache, clock)
    /\ UNCHANGED <<clock, pc, want, started, now, got, deadline, since>>

Step(t) ==
    \/ SampleClock(t) \/ GetCached(t) \/ Fetch(t) \/ FetchFails(t)
    \/ Stamp(t) \/ Store(t) \/ Return(t)

Next ==
    \/ \E t \in Threads : Call(t) \/ Refuse(t) \/ Step(t)
    \/ Tick \/ ClearCache \/ CacheSize

Spec == Init /\ [][Next]_vars

\* Threads run and time passes; nobody has to call.
Fairness == WF_vars(Tick) /\ \A t \in Threads : WF_vars(Step(t))
FairSpec == Spec /\ Fairness

-----------------------------------------------------------------------------
TypeOK ==
    /\ clock \in 0..MaxClock
    /\ cache \in Seq(Items(DataKeys, Entry))
    /\ pc \in [Threads -> Labels]
    /\ want \in [Threads -> DataKeys \cup {NoKey}]
    /\ started \in [Threads -> Times]
    /\ now \in [Threads -> Times]
    /\ got \in [Threads -> Entry]
    /\ deadline \in [DataKeys -> Times]
    /\ since \in [DataKeys -> SUBSET DataKeys]

\* One entry per key and at most MaxSize of them, whatever the overlap.
CacheBounded == IsDict(cache) /\ Len(cache) <= MaxSize

\* A call never gets a key from the cache whose time to live was over when the
\* call began, although the clock is read outside the lock (kms_client.py:225).
HitWasLive ==
    \A t \in Threads : pc[t] = "hit" => got[t].expires > started[t]

\* A key stays cached for its whole time to live, unless the cache is cleared
\* or MaxSize other keys are used after it: purging (kms_client.py:258) removes
\* only what has expired, and eviction (kms_client.py:249) takes the least
\* recently used.
LiveKeyKept ==
    \A k \in DataKeys :
        /\ deadline[k] > clock
        /\ Cardinality(since[k]) < MaxSize
        => k \in Keys(cache)

\* Every lifetime of a cached key starts no earlier than KMS released it and
\* ends within TTL of the present.
LifetimeBounded ==
    \A i \in DOMAIN cache :
        /\ cache[i].value.expires <= clock + TTL
        /\ cache[i].value.expires >= cache[i].value.released + TTL

\* docs/SECURITY_MODEL.md: "entries expire automatically after the configured
\* TTL": an expired entry would then leave the enclave's memory.
ExpiredEntryLeaves ==
    \A k \in DataKeys :
        (k \in Keys(cache) /\ Lookup(cache, k).expires <= clock)
            ~> (k \notin Keys(cache) \/ Lookup(cache, k).expires > clock)
=============================================================================
