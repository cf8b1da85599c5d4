----------------------------- MODULE LlmAccess -----------------------------
(***************************************************************************)
(* How the supervisor reaches its model: the response cache                *)
(* (services/llm_cache.py), the token bucket (services/rate_limiter.py)    *)
(* and the call between them (services/supervisor.py).                     *)
(*                                                                         *)
(* The unit of time is the limiter's polling interval; a token is cut into *)
(* PollsPerToken parts, one of which is earned per unit.  A caller that    *)
(* polled MaxPolls times calls without a token: the limiter is soft.       *)
(* Callers of one key do not know of each other: all of them call.         *)
(***************************************************************************)
EXTENDS Integers, Sequences

CONSTANTS
    Callers, Keys,
    Capacity, PollsPerToken, MaxPolls, TTL,   \* 10, 4, 100 and 300 s in the code
    LastMoment, MaxSwitches                   \* bounds

ASSUME LlmAssumption == /\ Capacity \in Nat \ {0} /\ PollsPerToken \in Nat \ {0}
                        /\ TTL \in Nat \ {0}

VARIABLES
    clock,
    bucket,    \* [parts, refilled]
    caller,    \* [caller -> pc, key, polls, wake]
    grants,    \* times tokens were given, in order
    redis,     \* "unchecked", "never" (checked once, absent), "up", "down"
    cache,     \* ["redis" and "memory" -> [key -> [born, expires]]]
    served,    \* the last answer taken from the cache: [age], or NotServed
    switches   \* outages so far

llmVars == <<clock, bucket, caller, grants, redis, cache, served, switches>>

NoAnswer == [born |-> 0, expires |-> 0]
NotServed == 0
Resting == [pc |-> "idle", key |-> "none", polls |-> 0, wake |-> 0]

LlmInit ==
    /\ clock = 1 /\ grants = <<>> /\ served = NotServed /\ switches = 0
    /\ bucket = [parts |-> Capacity * PollsPerToken, refilled |-> 1]
    /\ caller = [c \in Callers |-> Resting]
    /\ redis = "unchecked"
    /\ cache = [s \in {"redis", "memory"} |-> [k \in Keys |-> NoAnswer]]

-----------------------------------------------------------------------------
(* TokenBucketLimiter *)

\* Mutant: tokens pile up past the capacity.
MutRefill(b) == [parts |-> b.parts + (clock - b.refilled), refilled |-> clock]
Refill(b) ==
    LET earned == b.parts + (clock - b.refilled)
        full   == Capacity * PollsPerToken
    IN  [parts |-> IF earned > full THEN full ELSE earned, refilled |-> clock]

\* try_acquire for caller c, which has polled n times; ask is its state if it
\* is refused, after which it sleeps.
TryAcquire(c, n, key) ==
    LET b == Refill(bucket)
    IN  IF b.parts >= PollsPerToken
        THEN /\ bucket' = [b EXCEPT !.parts = @ - PollsPerToken]
             /\ grants' = Append(grants, clock)
             /\ caller' = [caller EXCEPT ![c] = [pc |-> "calling", key |-> key,
                                                 polls |-> n, wake |-> 0]]
        ELSE /\ bucket' = b
             /\ caller' = [caller EXCEPT ![c] = [pc |-> "sleeping", key |-> key,
                                                 polls |-> n, wake |-> clock + 1]]
             /\ UNCHANGED grants

-----------------------------------------------------------------------------
(* LLMResponseCache *)

\* Redis is looked for once, by the first get or set of the process.
Checked == IF redis = "unchecked" THEN {"up", "never"} ELSE {redis}

Live(store, k) == cache[store][k].expires > clock

\* A miss in Redis is a miss: memory is for a Redis that does not answer.
StoreFor(state) == IF state = "up" THEN "redis" ELSE "memory"

Hit(c, k) ==
    /\ caller[c].pc = "idle"
    /\ redis' \in Checked
    /\ Live(StoreFor(redis'), k)
    /\ served' = clock - cache[StoreFor(redis')][k].born
    /\ UNCHANGED <<clock, bucket, caller, grants, cache, switches>>

\* Not cached: the caller goes on to the limiter without being suspended.
Miss(c, k) ==
    /\ caller[c].pc = "idle"
    /\ redis' \in Checked
    /\ ~Live(StoreFor(redis'), k)
    /\ cache' = [cache EXCEPT ![StoreFor(redis')][k] = NoAnswer]
    /\ TryAcquire(c, 0, k)
    /\ served' = NotServed
    /\ UNCHANGED <<clock, switches>>

\* acquire's loop: a poll, or the wait is over and the model is called anyway.
Poll(c) ==
    LET me == caller[c]
    IN  /\ me.pc = "sleeping" /\ clock >= me.wake
        /\ IF me.polls + 1 < MaxPolls THEN TryAcquire(c, me.polls + 1, me.key)
           ELSE /\ caller' = [caller EXCEPT ![c] = [me EXCEPT !.pc = "calling"]]
                /\ UNCHANGED <<bucket, grants>>
        /\ served' = NotServed
        /\ UNCHANGED <<clock, redis, cache, switches>>

\* The model answered and the answer is cached, or it failed and the
\* supervisor falls back on its heuristic.
Answered(c) ==
    /\ caller[c].pc = "calling"
    /\ caller' = [caller EXCEPT ![c] = Resting]
    /\ \/ cache' = [cache EXCEPT ![StoreFor(redis)][caller[c].key] =
                        [born |-> clock, expires |-> clock + TTL]]
       \/ UNCHANGED cache
    /\ served' = NotServed
    /\ UNCHANGED <<clock, bucket, grants, redis, switches>>

Moment ==
    /\ clock < LastMoment
    /\ clock' = clock + 1 /\ served' = NotServed
    /\ UNCHANGED <<bucket, caller, grants, redis, cache, switches>>

\* An outage does not lose what Redis holds.
RedisSwitches ==
    /\ switches < MaxSwitches /\ redis \in {"up", "down"}
    /\ redis' = IF redis = "up" THEN "down" ELSE "up"
    /\ switches' = switches + 1 /\ served' = NotServed
    /\ UNCHANGED <<clock, bucket, caller, grants, cache>>

LlmNext ==
    \/ \E c \in Callers, k \in Keys : Hit(c, k) \/ Miss(c, k)
    \/ \E c \in Callers : Poll(c) \/ Answered(c)
    \/ Moment \/ RedisSwitches

LlmSpec == LlmInit /\ [][LlmNext]_llmVars

-----------------------------------------------------------------------------
(***************************************************************************)
(* Properties                                                              *)
(***************************************************************************)

\* What the grants i..m are worth beyond a full bucket.
Paid(m, i) == (m - i + 1 - Capacity) * PollsPerToken

\* In every stretch of time the callers together are given at most a full
\* bucket and what that stretch earned, however long the bucket rested
\* before and however the callers' polls interleave.
BurstBounded ==
    \A i, j \in DOMAIN grants :
        i <= j => Paid(j, i) <= grants[j] - grants[i]

\* An answer from the cache was given by the model within the time to live,
\* also when Redis came and went in between and the memory that stood in for
\* it still holds what was stored during an earlier outage.
ServedFresh == served < TTL

\* Both: callers that share the limiter and the cache are neither served more
\* than the bucket allows nor an answer past its time.
CallersServed == BurstBounded /\ ServedFresh

LlmTypeOK ==
    /\ clock \in Nat \ {0}
    /\ bucket \in [parts : 0..(Capacity * PollsPerToken), refilled : 1..clock]
    /\ grants \in Seq(Nat)
    /\ redis \in {"unchecked", "never", "up", "down"}
    /\ cache \in [{"redis", "memory"} -> [Keys -> [born : Nat, expires : Nat]]]

\* What was paid for since a grant, and what is left in the bucket, was in a
\* full bucket or has been earned since.
GrantsPaid ==
    \A i \in DOMAIN grants :
        Paid(Len(grants), i) + bucket.parts <= bucket.refilled - grants[i]

\* An entry expires a time to live after the model gave it.
EntriesExpire ==
    \A s \in {"redis", "memory"}, k \in Keys :
        cache[s][k] = NoAnswer \/ cache[s][k].expires = cache[s][k].born + TTL

\* The inductive strengthening behind CallersServed.
LlmInvariant == /\ LlmTypeOK
                /\ GrantsPaid
                /\ BurstBounded
                /\ EntriesExpire
                /\ ServedFresh

=============================================================================
