---------------------------- MODULE AuditLimiter ----------------------------
(***************************************************************************)
(* The limiter of audit events about rejected connections and streams      *)
(* (audit_limiter.rs).  A key is an endpoint, a resource and an error      *)
(* code.  Each key has a bucket of tokens; keys beyond max_buckets share   *)
(* one overflow bucket.  A bucket counts the events it suppressed and the  *)
(* next event it lets through carries that count.                          *)
(***************************************************************************)
EXTENDS Integers, FiniteSets, FiniteSetsExt

CONSTANTS
  Burst,             \* rejected_peer_log_burst
  RefillPerSec,      \* rejected_peer_log_refill_per_sec
  MaxBuckets,        \* rejected_peer_log_max_buckets
  BucketTtl,         \* rejected_peer_log_bucket_ttl_seconds, in clock units
  AggregateInterval, \* rejected_peer_log_aggregate_interval_seconds, in clock units
  UnitsPerSec        \* clock units per second: refill counts whole seconds

ASSUME LimiterAssumption ==
  {Burst, RefillPerSec, MaxBuckets, BucketTtl, AggregateInterval, UnitsPerSec} \subseteq Nat \ {0}

VARIABLES
  buckets,   \* from the keys that have one to their buckets
  overflow,  \* the shared bucket, as a set of none or one
  events     \* history: rejections seen, events written, suppressions reported by
             \* them, evicted, and gone with an event whose write failed

limiterVars == <<buckets, overflow, events>>

LimiterInit ==
  /\ buckets = [k \in {} |-> {}]
  /\ overflow = {}
  /\ events = [seen |-> 0, written |-> 0, reported |-> 0, evicted |-> 0, failed |-> 0]

NoWrite == -1

(* Bucket::new.  born and writes are history: when the bucket was made, and *)
(* how many events it has let through.                                      *)
NewBucket(now) ==
  [tokens |-> Burst, suppressed |-> 0, last_refill |-> now, last_seen |-> now,
   last_write |-> NoWrite, born |-> now, writes |-> 0]

(* Bucket::refill                                                           *)
Refill(b, now) ==
  LET secs == (now - b.last_refill) \div UnitsPerSec
  IN  IF secs = 0 THEN b
      ELSE [b EXCEPT !.tokens = Min({@ + secs * RefillPerSec, Burst}), !.last_refill = now]

Suppress(b, now) == [b EXCEPT !.last_seen = now, !.suppressed = @ + 1]

LetThrough(b, now) ==
  [b EXCEPT !.last_seen = now, !.tokens = @ - 1, !.suppressed = 0,
            !.last_write = now, !.writes = @ + 1]

(* check_bucket writes when there is a token, unless suppressed events wait *)
(* and the last event was written less than an aggregation interval ago.    *)
Writes(b, now) ==
  /\ b.tokens > 0
  /\ ~(b.suppressed > 0 /\ b.last_write # NoWrite /\ now - b.last_write < AggregateInterval)

(* Fault: a suppression inside the aggregation interval is not counted.     *)
CheckBucketForgets(b, now) ==
  LET f == Refill(b, now)
  IN  IF Writes(f, now) THEN LetThrough(f, now)
      ELSE IF f.tokens > 0 THEN [f EXCEPT !.last_seen = now]
      ELSE Suppress(f, now)

CheckBucket(b, now) ==
  LET f == Refill(b, now)
  IN  IF Writes(f, now) THEN LetThrough(f, now) ELSE Suppress(f, now)

Stale(b, now) == now - b.last_seen > BucketTtl

Bump(b, now) == IF Writes(Refill(b, now), now) THEN 1 ELSE 0

(* The counters after the bucket b was asked, when `gone` suppressions were *)
(* evicted with stale buckets.  The bucket has already been charged when    *)
(* the event is written: if audit.write_async fails, the rejection and the  *)
(* count the event carried are gone, and only a warning says so.            *)
Counted(b, now, gone, ok) ==
  LET one   == Bump(b, now)
      count == Bump(b, now) * b.suppressed
  IN  [seen |-> events.seen + 1,
       written |-> events.written + (IF ok THEN one ELSE 0),
       reported |-> events.reported + (IF ok THEN count ELSE 0),
       evicted |-> events.evicted + gone,
       failed |-> events.failed + (IF ok THEN 0 ELSE one + count)]

(* The rejections the buckets bs hold back, one by one, and their number:   *)
(* the sum of the counts of the buckets.                                    *)
Waiting(bs) == UNION {{k} \X (1..bs[k].suppressed) : k \in DOMAIN bs}
Suppressed(bs) == Cardinality(Waiting(bs))

(* The shared bucket, in its own set, as a table.                           *)
Shared(bs) == [b \in bs |-> b]

(* RejectedAuditLimiter::check: prune stale buckets, then ask the key's     *)
(* bucket, or the shared one when the table is full; then                   *)
(* write_limited_audit_event writes what was let through, or fails to.      *)
LimitedAudit(key, now) ==
  LET keep  == {k \in DOMAIN buckets : ~Stale(buckets[k], now)}
      kept  == Restrict(buckets, keep)
      over  == {b \in overflow : ~Stale(b, now)}
      gone  == Suppressed(Restrict(buckets, DOMAIN buckets \ keep))
                 + Suppressed(Shared(overflow \ over))
      own   == key \in keep \/ Cardinality(keep) < MaxBuckets
      asked == IF own THEN IF key \in keep THEN kept[key] ELSE NewBucket(now)
                      ELSE IF over = {} THEN NewBucket(now) ELSE CHOOSE b \in over : TRUE
  IN  /\ buckets' = IF own THEN [k \in keep \cup {key} |->
                                   IF k = key THEN CheckBucket(asked, now) ELSE kept[k]]
                           ELSE kept
      /\ overflow' = IF own THEN over ELSE {CheckBucket(asked, now)}
      /\ \E ok \in BOOLEAN : events' = Counted(asked, now, gone, ok)

LiveBuckets == {buckets[k] : k \in DOMAIN buckets} \cup overflow

(* Rejected peers cannot flood the audit log, however their attempts are    *)
(* spaced: no bucket lets through more than its burst and the whole seconds *)
(* since it was made allow, and the table keeps its limit.  And every       *)
(* rejection is accounted for: it is in the log, or in the count of a       *)
(* logged event, or waits in a live bucket, or went with a bucket idle      *)
(* beyond its TTL, or with an event that was let through and could not be   *)
(* written.  The last two are all the log ever misses.                      *)
RejectionsAccounted ==
  /\ Cardinality(DOMAIN buckets) <= MaxBuckets
  /\ \A b \in LiveBuckets :
       b.writes + b.tokens <= Burst + RefillPerSec * ((b.last_refill - b.born) \div UnitsPerSec)
  /\ events.seen = events.written + events.reported + events.evicted + events.failed
                     + Suppressed(buckets) + Suppressed(Shared(overflow))

-----------------------------------------------------------------------------
(* The inductive invariant: at the time now, a bucket has a token for each  *)
(* event it may still let through, and was refilled and made in the past.   *)

Bucket ==
  [tokens : Nat, suppressed : Nat, last_refill : Nat, last_seen : Nat,
   last_write : Nat \cup {NoWrite}, born : Nat, writes : Nat]

BucketOK(b, now) ==
  /\ b \in Bucket
  /\ b.born <= b.last_refill
  /\ b.last_refill <= now
  /\ b.writes + b.tokens <= Burst + RefillPerSec * ((b.last_refill - b.born) \div UnitsPerSec)

LimiterInv(now) ==
  /\ buckets = Restrict(buckets, DOMAIN buckets)
  /\ IsFiniteSet(DOMAIN buckets)
  /\ \A b, c \in overflow : b = c
  /\ \A b \in LiveBuckets : BucketOK(b, now)
  /\ events \in [seen : Nat, written : Nat, reported : Nat, evicted : Nat, failed : Nat]
  /\ RejectionsAccounted
=============================================================================
