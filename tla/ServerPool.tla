----------------------------- MODULE ServerPool -----------------------------
(***************************************************************************)
(* How a window is generated by servers: generate_many of                  *)
(* Finetuning/server_pool.py, whose threads send the requests to endpoints *)
(* that each take a few at a time, and the one-by-one second try of        *)
(* flush_window in generate_targets.py when a request has failed.          *)
(*                                                                         *)
(* An endpoint is up or down; some requests no server answers (a prompt it *)
(* refuses, an answer that cannot be parsed); and a post may fail for once.*)
(* The pauses between attempts are left out.                               *)
(***************************************************************************)
EXTENDS Integers, FiniteSets, FiniteSetsExt

CONSTANTS
    Requests,      \* number of requests of the window
    Endpoints,     \* number of servers
    Concurrency,   \* requests a server is sent at a time
    MaxRetries,    \* further attempts at a request
    MaxGlitches    \* bound on the posts that fail for once

ASSUME PoolAssumption ==
    /\ Requests \in Nat \ {0} /\ Endpoints \in Nat \ {0} /\ Concurrency \in Nat \ {0}
    /\ MaxRetries \in Nat /\ MaxGlitches \in Nat

VARIABLES
    up,        \* endpoints that answer
    bad,       \* requests that no server answers
    serving,   \* "many", "single" (the second try) or "served"
    request,   \* request -> where it is
    attempt,   \* request -> attempts before the present one
    taken,     \* endpoint -> permits taken of its semaphore
    glitches

poolVars == <<up, bad, serving, request, attempt, taken, glitches>>

Indices == 0 .. Requests - 1
Urls == 0 .. Endpoints - 1
Workers == IF serving = "single" THEN 1 ELSE Min({Requests, Endpoints * Concurrency})
Active == {i \in Indices : request[i] \in {"waiting", "posted"}}
Queued == {i \in Indices : request[i] = "queued"}

PoolInit ==
    /\ up \in SUBSET Urls /\ bad \in SUBSET Indices
    /\ serving = "many"
    /\ request = [i \in Indices |-> "queued"] /\ attempt = [i \in Indices |-> 0]
    /\ taken = [e \in Urls |-> 0] /\ glitches = 0

Becomes(i, label) == request' = [request EXCEPT ![i] = label]

Endpoint_Fixed(i) == (IF serving = "single" THEN 0 ELSE i) % Endpoints

\* The next endpoint for every attempt; the second try begins with the first
\* endpoint for every request.
Endpoint(i) == ((IF serving = "single" THEN 0 ELSE i) + attempt[i]) % Endpoints

\* A thread of the pool takes the next request.
Begin(i) ==
    /\ i \in Queued /\ i = Min(Queued) /\ Cardinality(Active) < Workers
    /\ Becomes(i, "waiting")
    /\ UNCHANGED <<up, bad, serving, attempt, taken, glitches>>

Acquire(i) ==
    /\ request[i] = "waiting" /\ taken[Endpoint(i)] < Concurrency
    /\ taken' = [taken EXCEPT ![Endpoint(i)] = @ + 1]
    /\ Becomes(i, "posted")
    /\ UNCHANGED <<up, bad, serving, attempt, glitches>>

Released(i) == taken' = [taken EXCEPT ![Endpoint(i)] = @ - 1]

Answer(i) ==
    /\ request[i] = "posted" /\ Endpoint(i) \in up /\ i \notin bad
    /\ Released(i) /\ Becomes(i, "answered")
    /\ UNCHANGED <<up, bad, serving, attempt, glitches>>

Refused(i) ==
    \/ (Endpoint(i) \notin up \/ i \in bad) /\ UNCHANGED glitches
    \/ glitches < MaxGlitches /\ glitches' = glitches + 1

Error_KeepsPermit(i) ==
    /\ request[i] = "posted" /\ Refused(i) /\ UNCHANGED taken
    /\ IF attempt[i] < MaxRetries
       THEN attempt' = [attempt EXCEPT ![i] = @ + 1] /\ Becomes(i, "waiting")
       ELSE Becomes(i, "failed") /\ UNCHANGED attempt
    /\ UNCHANGED <<up, bad, serving>>

Error(i) ==
    /\ request[i] = "posted" /\ Refused(i) /\ Released(i)
    /\ IF attempt[i] < MaxRetries
       THEN attempt' = [attempt EXCEPT ![i] = @ + 1] /\ Becomes(i, "waiting")
       ELSE Becomes(i, "failed") /\ UNCHANGED attempt
    /\ UNCHANGED <<up, bad, serving>>

\* generate_many returns or raises when all of its threads have ended.  One
\* failure sends every request of the window again, one by one; what fails
\* then is an empty answer.
Collect ==
    /\ serving # "served" /\ Active = {} /\ Queued = {}
    /\ IF serving = "many" /\ \E i \in Indices : request[i] = "failed"
       THEN /\ serving' = "single"
            /\ request' = [i \in Indices |-> "queued"] /\ attempt' = [i \in Indices |-> 0]
       ELSE serving' = "served" /\ UNCHANGED <<request, attempt>>
    /\ UNCHANGED <<up, bad, taken, glitches>>

Serve == Collect \/ \E i \in Indices : Begin(i) \/ Acquire(i) \/ Answer(i) \/ Error(i)

----------------------------------------------------------------------------
\* A bad request, or a server that is down, costs no other request its
\* answer, as long as the attempts reach a server that is up.
OnlyBadLost ==
    serving = "served" /\ glitches = 0 /\ up # {} /\ MaxRetries + 1 >= Endpoints =>
        \A i \in Indices : request[i] = "failed" <=> i \in bad

\* The permits out are those of the requests that are posted: none is lost by
\* an error and no server is sent more than its share.
PermitsExact ==
    \A e \in Urls :
        /\ taken[e] = Cardinality({i \in Indices : request[i] = "posted" /\ Endpoint(i) = e})
        /\ taken[e] <= Concurrency
=============================================================================
