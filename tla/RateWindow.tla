----------------------------- MODULE RateWindow -----------------------------
(***************************************************************************)
(* The rate limit of the public routes (services/public_cafe.py,           *)
(* enforce_public_rate_limit) for one purpose and one identity.  A request *)
(* takes the time before it waits for the lock on its bucket, so the time  *)
(* it decides with may be older than the window it finds.                  *)
(***************************************************************************)
EXTENDS Integers

CONSTANTS Hit,       \* requests
          Limit,     \* requests admitted in a window
          Window,    \* PUBLIC_RATE_WINDOW_SECONDS
          LastTick,  \* bound: the clock stops
          NoBucket, Away \* no row yet; a request that is not under way

ASSUME RateAssumption ==
    /\ Limit \in Nat \ {0} /\ Window \in Nat \ {0} /\ LastTick \in Nat
    /\ NoBucket \notin [start : Nat, count : Nat]

VARIABLES
    tick,   \* the clock
    bucket, \* public_rate_limit_buckets: window_started_at, request_count
    hit,    \* the requests under way: `current` and how far they are
    passed  \* history: requests admitted into the window the bucket shows

rateVars == <<tick, bucket, hit, passed>>

RateTypeOK ==
    /\ tick \in 0..LastTick
    /\ bucket \in [start : 0..LastTick, count : 1..Limit] \cup {NoBucket}
    /\ hit \in [Hit -> [at : 0..LastTick, step : {"look", "insert", "decide"},
                        count : 0..Limit] \cup {Away}]
    /\ passed \in 0..Limit

RateInit == tick = 0 /\ bucket = NoBucket /\ hit = [h \in Hit |-> Away] /\ passed = 0

At(h, step) == hit[h] # Away /\ hit[h].step = step

(* A slip: the row is read without FOR UPDATE.                             *)
BucketFreeSlip == TRUE

(* Nobody holds the bucket's row.                                          *)
BucketFree == \A h \in Hit : ~At(h, "decide")

(* A slip: a time that is older than the window counts as a new window.    *)
ElapsedSlip(h) == IF hit[h].at < bucket.start THEN Window
                  ELSE hit[h].at - bucket.start

Elapsed(h) == hit[h].at - bucket.start

(* A slip: one request more than the limit.                                *)
FullSlip(h) == hit[h].count > Limit

Full(h) == hit[h].count >= Limit

Tick == /\ tick < LastTick /\ tick' = tick + 1
        /\ UNCHANGED <<bucket, hit, passed>>

Arrive(h) ==
    /\ hit[h] = Away
    /\ hit' = [hit EXCEPT ![h] = [at |-> tick, step |-> "look", count |-> 0]]
    /\ UNCHANGED <<tick, bucket, passed>>

(* The locking read: nothing there, or the row, held to the commit.        *)
LookAtBucket(h) ==
    /\ At(h, "look")
    /\ \/ /\ bucket = NoBucket
          /\ hit' = [hit EXCEPT ![h].step = "insert"]
       \/ /\ bucket # NoBucket /\ BucketFree
          /\ hit' = [hit EXCEPT ![h].step = "decide", ![h].count = bucket.count]
    /\ UNCHANGED <<tick, bucket, passed>>

(* The first request inserts the row; one that comes second looks again.   *)
InsertBucket(h) ==
    /\ At(h, "insert")
    /\ IF bucket = NoBucket
       THEN /\ bucket' = [start |-> hit[h].at, count |-> 1]
            /\ hit' = [hit EXCEPT ![h] = Away]
            /\ passed' = 1
       ELSE /\ hit' = [hit EXCEPT ![h].step = "look"]
            /\ UNCHANGED <<bucket, passed>>
    /\ UNCHANGED tick

(* A new window, a refusal, or one more in this window.                    *)
Decide(h) ==
    /\ At(h, "decide")
    /\ \/ /\ Elapsed(h) >= Window
          /\ bucket' = [start |-> hit[h].at, count |-> 1]
          /\ passed' = 1
       \/ /\ Elapsed(h) < Window /\ Full(h)
          /\ UNCHANGED <<bucket, passed>>
       \/ /\ Elapsed(h) < Window /\ ~Full(h)
          /\ bucket' = [bucket EXCEPT !.count = hit[h].count + 1]
          /\ passed' = passed + 1
    /\ hit' = [hit EXCEPT ![h] = Away]
    /\ UNCHANGED tick

RateNext == \/ Tick
            \/ \E h \in Hit : \/ Arrive(h) \/ LookAtBucket(h)
                              \/ InsertBucket(h) \/ Decide(h)

RateSpec == RateInit /\ [][RateNext]_rateVars

-----------------------------------------------------------------------------
(* The bucket counts every request it admitted into its window, so no more *)
(* than Limit pass, whatever their order and however long they waited.     *)
WindowHoldsLimit == bucket # NoBucket => passed = bucket.count

(* A window never starts before the last one has run its length, although  *)
(* requests bring times older than the window they find.                   *)
WindowsApart ==
    [][bucket # NoBucket /\ bucket'.start # bucket.start
         => bucket'.start >= bucket.start + Window]_rateVars

(* The limit holds: the bucket misses no request of its window, and one  *)
(* window does not begin before the last has ended.                      *)
LimitHolds == [](RateTypeOK /\ WindowHoldsLimit) /\ WindowsApart
=============================================================================
