----------------------------- MODULE RateLimit -----------------------------
(***************************************************************************)
(* The rate limiter in front of every handler: a counter in Redis with an  *)
(* expiry, or, for a request whose INCR fails, a counter in the process.   *)
(* Clients of different addresses never meet here, so there is one address.*)
(*                                                                         *)
(* A counter is one window from its creation to its end; windows are       *)
(* numbered, so that what was counted in one can be told from the next.    *)
(***************************************************************************)
EXTENDS Integers, Sequences, FiniteSets

CONSTANTS
  Requests,    \* HTTP requests of one address
  Limit,       \* perMinute
  Window,      \* time.Minute
  MaxTime,     \* bound: time modelled
  Nil          \* no window, no expiry

ASSUME LimitAssumption == Limit \in Nat \ {0} /\ Window \in Nat \ {0} /\ MaxTime \in Nat
ASSUME NoWindow == Nil \notin Nat \cup ({"redis", "process"} \X Nat)

VARIABLES
  clock,       \* of the process and of Redis alike
  counter,     \* the Redis key of the address: its window, count (0: no key) and expiry
  buckets,     \* every bucketItem made so far, oldest first
  current,     \* the one in fallbackBucket.count, 0 if none
  counted,     \* history: who was counted in which window
  unset,       \* history: windows whose EXPIRE failed
  req          \* req[r]: where request r is

limiterVars == <<clock, counter, buckets, current, counted, unset>>

-----------------------------------------------------------------------------
RedisWindow(n)  == <<"redis", n>>
BucketWindow(n) == <<"process", n>>
Windows == {"redis", "process"} \X Nat

Counters == [life : Nat, count : Nat, expire : Nat \cup {Nil}]
Buckets  == [count : Nat, resetAt : Nat]

(* The limiter's steps, then those of the handlers behind it. *)
Labels  == {"new", "expire", "bucket", "compare", "admitted", "audit", "answer",
            "auditRefusal", "refusal", "joining", "reading", "leaving", "done"}
Answers == {"none", "limited", "ok", "forbidden", "error", "dead"}
RequestStates ==
  [pc : Labels, ans : Answers, via : Windows \cup {Nil}, n : Nat, panicked : BOOLEAN]
NewRequest ==
  [pc |-> "new", ans |-> "none", via |-> Nil, n |-> 0, panicked |-> FALSE]

Goto(r, label)  == req' = [req EXCEPT ![r].pc = label]
Answer(r, what) == req' = [req EXCEPT ![r].pc = "done", ![r].ans = what]
InFlight(r)     == req[r].pc \notin {"new", "done"}

-----------------------------------------------------------------------------
(* Faulty: one request more than the limit. *)
OverByOne(n) == n > Limit + 1

(* Faulty: the last request of the limit is refused. *)
AtLimit(n) == n >= Limit

OverLimit(n) == n > Limit

(* Let r through, or answer 429, by the count n it was told in window w. *)
Decide(r, w, n) ==
  req' = [req EXCEPT ![r].via = w, ![r].n = 0,
            ![r].pc  = IF OverLimit(n) THEN "done" ELSE "admitted",
            ![r].ans = IF OverLimit(n) THEN "limited" ELSE "none"]

(* INCR reaches Redis `times` times: the client library sends a command again whose reply *)
(* does not come, so one request may be counted twice.                                    *)
Incremented(r, times) ==
  LET life == IF counter.count = 0 THEN counter.life + 1 ELSE counter.life
  IN  /\ counter' = [counter EXCEPT !.life = life, !.count = @ + times]
      /\ counted' = counted \cup {[in |-> RedisWindow(life), who |-> r, times |-> times]}

(* Faulty: not the first but the second sets the expiry. *)
SetsExpiryLate(n) == n = 2

(* The first request of a window goes on to set the expiry. *)
SetsExpiry(n) == n = 1

(* rdb.Incr answers n. *)
Incr(r) ==
  /\ req[r].pc = "new"
  /\ \E times \in 1..2 :
       /\ Incremented(r, times)
       /\ LET n == counter'.count  w == RedisWindow(counter'.life) IN
            IF SetsExpiry(n) THEN req' = [req EXCEPT ![r].pc = "expire", ![r].via = w, ![r].n = n]
                             ELSE Decide(r, w, n)
  /\ UNCHANGED <<clock, buckets, current, unset>>

(* rdb.Incr fails, though Redis may have counted all the same. *)
IncrFails(r) ==
  /\ req[r].pc = "new"
  /\ \/ UNCHANGED <<counter, counted>>
     \/ Incremented(r, 1)
  /\ Goto(r, "bucket")
  /\ UNCHANGED <<clock, buckets, current, unset>>

(* rdb.Expire, whose error nobody looks at. *)
Expire(r) ==
  /\ req[r].pc = "expire"
  /\ \/ counter' = [counter EXCEPT !.expire = clock + Window] /\ UNCHANGED unset
     \/ unset' = unset \cup {req[r].via} /\ UNCHANGED counter
  /\ Decide(r, req[r].via, req[r].n)
  /\ UNCHANGED <<clock, buckets, current, counted>>

(* Under the mutex: a fresh item if there is none or its time is over; count r in it. *)
Bucket(r) ==
  LET fresh == current = 0 \/ clock > buckets[current].resetAt
      i     == IF fresh THEN Len(buckets) + 1 ELSE current
      n     == IF fresh THEN 1 ELSE buckets[current].count + 1
  IN  /\ req[r].pc = "bucket"
      /\ buckets' = IF fresh THEN Append(buckets, [count |-> 1, resetAt |-> clock + Window])
                             ELSE [buckets EXCEPT ![i].count = n]
      /\ current' = i
      /\ counted' = counted \cup {[in |-> BucketWindow(i), who |-> r, times |-> 1]}
      /\ req' = [req EXCEPT ![r].pc = "compare", ![r].via = BucketWindow(i), ![r].n = n]
      /\ UNCHANGED <<clock, counter, unset>>

(* After the unlock item.count is read again, without the mutex: any value it has had *)
(* since then.                                                                        *)
Compare(r) ==
  /\ req[r].pc = "compare"
  /\ \E n \in req[r].n .. buckets[req[r].via[2]].count : Decide(r, req[r].via, n)
  /\ UNCHANGED limiterVars

Limiter(r) == Incr(r) \/ IncrFails(r) \/ Expire(r) \/ Bucket(r) \/ Compare(r)

(* Time passes, and Redis drops the key when it expires. *)
Tick ==
  /\ clock < MaxTime
  /\ clock' = clock + 1
  /\ counter' = IF counter.expire # Nil /\ counter.expire =< clock'
                THEN [counter EXCEPT !.count = 0, !.expire = Nil] ELSE counter
  /\ UNCHANGED <<buckets, current, counted, unset, req>>

-----------------------------------------------------------------------------
LimiterTypeOK ==
  /\ clock \in 0..MaxTime /\ counter \in Counters
  /\ buckets \in Seq(Buckets) /\ current \in 0..Len(buckets)
  /\ counted \subseteq [in : Windows, who : Requests, times : 1..2]
  /\ unset \subseteq Windows
  /\ req \in [Requests -> RequestStates]

LetThrough(w) == {r \in Requests : /\ req[r].via = w /\ req[r].ans # "limited"
                                   /\ req[r].pc \notin {"expire", "compare"}
                                   /\ req[r].ans # "dead"}

(* rate_limit.go: no window, in Redis or in the process, lets more than perMinute requests *)
(* through, although increments and comparisons of several requests interleave, INCR may   *)
(* be repeated or counted without an answer, and the comparison reads the count unlocked.  *)
NoWindowAboveLimit ==
  \A w \in {req[r].via : r \in Requests} \ {Nil} : Cardinality(LetThrough(w)) =< Limit

(* By the time a request is refused perMinute others at least are counted in its window,    *)
(* unless INCR was repeated for one of them: nobody is refused while the window has room.   *)
(* Some of them may have come after it, for the count in the process is read again unlocked.*)
RefusedOnlyWhenFull ==
  \A r \in Requests : req[r].ans = "limited" =>
    LET same == {k \in counted : k.in = req[r].via} IN
      \/ Cardinality({k.who : k \in same} \ {r}) >= Limit
      \/ \E k \in same : k.times > 1

(* A window in Redis ends: it has an expiry, or the request that began it is about to set  *)
(* one, unless that request died first, its EXPIRE failed, or its INCR was repeated or     *)
(* counted without an answer.  Only then is the address refused for ever.                  *)
WindowsEnd ==
  LET w == RedisWindow(counter.life) IN
    counter.count > 0 /\ counter.expire = Nil =>
      \/ \E r \in Requests : req[r].via = w /\ req[r].n = 1
      \/ w \in unset
      \/ \E k \in counted : k.in = w /\ (k.times > 1 \/ req[k.who].via # w)
=============================================================================
