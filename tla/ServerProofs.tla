----------------------------- MODULE ServerProofs -----------------------------
(***************************************************************************)
(* Proofs about Server, for every limit, window and channel capacity and   *)
(* any number of requests, snapshots and restarts.                         *)
(***************************************************************************)
EXTENDS Server, FiniteSetTheorems, SequenceTheorems, TLAPS

(* A window that has begun. *)
Opened(w) == \/ \E l \in 1..counter.life : w = RedisWindow(l)
             \/ \E i \in DOMAIN buckets : w = BucketWindow(i)

(* What a request knows at each step of the limiter. *)
Place(r) ==
  /\ req[r].pc = "new" => req[r].via = Nil
  /\ req[r].pc = "bucket" => req[r].via = Nil
  /\ req[r].pc = "expire" => req[r].n = 1 /\ \E l \in 1..counter.life : req[r].via = RedisWindow(l)
  /\ req[r].pc = "compare" => \E i \in DOMAIN buckets : /\ req[r].via = BucketWindow(i)
                                                        /\ req[r].n \in 1..buckets[i].count
  /\ req[r].pc # "done" => req[r].ans = "none"
  /\ req[r].pc \notin {"new", "bucket", "done"} => req[r].via # Nil
PlacesInv == \A r \in Requests : Place(r)

(* What is known of those who were counted. *)
CountedInv ==
  /\ \A k \in counted : Opened(k.in) /\ (k.in[1] = "process" => k.times = 1)
  /\ \A r \in Requests : req[r].via # Nil => \E k \in counted : k.who = r /\ k.in = req[r].via
  /\ \A k \in counted : /\ req[k.who].pc # "new"
                        /\ req[k.who].pc = "bucket" => k.in[1] = "redis"

(* Those who were told a number of window w, those who were counted in it, and those who *)
(* have been let through or will be.                                                     *)
Told(w)     == {r \in Requests : req[r].via = w}
Who(w)      == {r \in Requests : \E k \in counted : k.in = w /\ k.who = r}
Claimed(w)  == {r \in Told(w) : /\ req[r].ans \notin {"limited", "dead"}
                                /\ req[r].pc = "compare" => req[r].n =< Limit}
Repeated(w) == \E k \in counted : k.in = w /\ k.times > 1

SetsInv == \A w \in Windows : /\ IsFiniteSet(Told(w)) /\ IsFiniteSet(Who(w))
                              /\ Cardinality(Claimed(w)) =< Limit

(* A count is at least the number of those who were told one, and at most the number of *)
(* those who were counted.                                                              *)
Counts(w, n) == /\ Cardinality(Told(w)) =< n
                /\ Repeated(w) \/ n =< Cardinality(Who(w))
CountsInv ==
  /\ counter.count > 0 => counter.life > 0 /\ Counts(RedisWindow(counter.life), counter.count)
  /\ \A i \in DOMAIN buckets : Counts(BucketWindow(i), buckets[i].count)

(* Enough others were counted in w for r to be refused. *)
Full(r, w) == Cardinality(Who(w) \ {r}) >= Limit \/ Repeated(w)
RefusedInv == \A r \in Requests : req[r].ans = "limited" => /\ req[r].via \in Windows
                                                            /\ Full(r, req[r].via)

LimiterInv == /\ LimiterTypeOK /\ PlacesInv /\ CountedInv
              /\ SetsInv /\ CountsInv /\ RefusedInv /\ WindowsEnd

-----------------------------------------------------------------------------
(* Facts about windows and sets. *)

LEMMA WindowsDiffer ==
  /\ \A m, n \in Nat : RedisWindow(m) # BucketWindow(n)
  /\ \A m, n \in Nat : RedisWindow(m) = RedisWindow(n) => m = n
  /\ \A m, n \in Nat : BucketWindow(m) = BucketWindow(n) => m = n
  /\ \A n \in Nat : RedisWindow(n) \in Windows /\ RedisWindow(n)[1] = "redis"
  /\ \A n \in Nat : BucketWindow(n) \in Windows /\ BucketWindow(n)[1] = "process"
  /\ Nil \notin Windows
  BY NoWindow DEF RedisWindow, BucketWindow, Windows

LEMMA AddOne ==
  ASSUME NEW S, IsFiniteSet(S), NEW x, x \notin S
  PROVE  IsFiniteSet(S \cup {x}) /\ Cardinality(S \cup {x}) = Cardinality(S) + 1
  BY FS_AddElement

LEMMA AddAtMostOne ==
  ASSUME NEW S, IsFiniteSet(S), NEW x
  PROVE  /\ IsFiniteSet(S \cup {x}) /\ Cardinality(S \cup {x}) =< Cardinality(S) + 1
         /\ Cardinality(S) \in Nat /\ Cardinality(S \cup {x}) \in Nat
  <1>1. Cardinality(S) \in Nat
    BY FS_CardinalityType
  <1>2. CASE x \in S
    <2>1. S \cup {x} = S
      BY <1>2
    <2> QED
      BY <1>1, <2>1
  <1>3. CASE x \notin S
    BY <1>1, <1>3, AddOne
  <1> QED
    BY <1>2, <1>3

LEMMA TakeOne ==
  ASSUME NEW S, IsFiniteSet(S), NEW x \in S
  PROVE  Cardinality(S \ {x}) = Cardinality(S) - 1
  BY FS_RemoveElement

LEMMA SubsetIsSmaller ==
  ASSUME NEW S, IsFiniteSet(S), NEW T, T \subseteq S
  PROVE  IsFiniteSet(T) /\ Cardinality(T) \in Nat /\ Cardinality(T) =< Cardinality(S)
  BY FS_Subset, FS_CardinalityType

LEMMA BucketCounts ==
  ASSUME NEW b \in Seq(Buckets)
  PROVE  \A i \in DOMAIN b : i \in Nat /\ b[i].count \in Nat
  <1>1. \A i \in DOMAIN b : i \in Nat /\ b[i] \in Buckets
    OBVIOUS
  <1> QED
    BY <1>1 DEF Buckets

(* The operators above are local: they change only with what they look at. *)
LEMMA ClaimedIsTold == \A w : Claimed(w) \subseteq Told(w)
  BY DEF Claimed

LEMMA FullStays ==
  ASSUME NEW r, NEW w \in Windows, Full(r, w), counted \subseteq counted',
         IsFiniteSet(Who(w)'), Who(w) \subseteq Who(w)'
  PROVE  Full(r, w)'
  <1>1. CASE Repeated(w)
    BY <1>1 DEF Repeated, Full
  <1>2. CASE Cardinality(Who(w) \ {r}) >= Limit
    <2>1. IsFiniteSet(Who(w)' \ {r})
      BY SubsetIsSmaller
    <2>2. Who(w) \ {r} \subseteq Who(w)' \ {r}
      OBVIOUS
    <2>3. /\ Cardinality(Who(w) \ {r}) \in Nat /\ Cardinality(Who(w)' \ {r}) \in Nat
          /\ Cardinality(Who(w) \ {r}) =< Cardinality(Who(w)' \ {r})
      BY <2>1, <2>2, SubsetIsSmaller, FS_CardinalityType
    <2> QED
      BY <1>2, <2>3, LimitAssumption DEF Full
  <1> QED
    BY <1>1, <1>2 DEF Full

-----------------------------------------------------------------------------
(* Type correctness of the limiter. *)

LEMMA GotoType ==
  ASSUME req \in [Requests -> RequestStates], NEW r \in Requests, NEW label \in Labels,
         Goto(r, label)
  PROVE  req' \in [Requests -> RequestStates]
  BY DEF Goto, RequestStates

LEMMA AnswerType ==
  ASSUME req \in [Requests -> RequestStates], NEW r \in Requests, NEW what \in Answers,
         Answer(r, what)
  PROVE  req' \in [Requests -> RequestStates]
  <1>1. "done" \in Labels
    BY DEF Labels
  <1>2. [req[r] EXCEPT !.pc = "done", !.ans = what] \in RequestStates
    BY <1>1 DEF RequestStates
  <1>3. req' = [req EXCEPT ![r] = [req[r] EXCEPT !.pc = "done", !.ans = what]]
    BY DEF Answer, RequestStates
  <1> QED
    BY <1>2, <1>3

LEMMA DecideType ==
  ASSUME req \in [Requests -> RequestStates], NEW r \in Requests,
         NEW w \in Windows, NEW n \in Nat, Decide(r, w, n)
  PROVE  req' \in [Requests -> RequestStates]
  <1>1. /\ req[r] \in RequestStates /\ DOMAIN req' = Requests /\ req' = [q \in Requests |-> req'[q]]
        /\ \A q \in Requests \ {r} : req'[q] = req[q]
    BY DEF Decide
  <1>2. req'[r] = [pc  |-> IF OverLimit(n) THEN "done" ELSE "admitted",
                   ans |-> IF OverLimit(n) THEN "limited" ELSE "none",
                   via |-> w, n |-> 0, panicked |-> req[r].panicked]
    BY <1>1 DEF Decide, RequestStates
  <1>3. req'[r] \in RequestStates
    BY <1>1, <1>2 DEF RequestStates, Labels, Answers
  <1> QED
    BY <1>1, <1>3

LEMMA ToldType ==
  ASSUME req \in [Requests -> RequestStates], NEW r \in Requests, NEW label \in Labels,
         NEW w \in Windows, NEW n \in Nat,
         req' = [req EXCEPT ![r].pc = label, ![r].via = w, ![r].n = n]
  PROVE  req' \in [Requests -> RequestStates]
  <1>1. /\ req[r] \in RequestStates /\ DOMAIN req' = Requests /\ req' = [q \in Requests |-> req'[q]]
        /\ \A q \in Requests \ {r} : req'[q] = req[q]
    OBVIOUS
  <1>2. req'[r] = [pc |-> label, ans |-> req[r].ans, via |-> w, n |-> n,
                   panicked |-> req[r].panicked]
    BY <1>1 DEF RequestStates
  <1>3. req'[r] \in RequestStates
    BY <1>1, <1>2 DEF RequestStates
  <1> QED
    BY <1>1, <1>3

LEMMA IncrementedType ==
  ASSUME LimiterTypeOK, NEW r \in Requests, NEW times \in 1..2, Incremented(r, times)
  PROVE  /\ counter' \in Counters
         /\ counted' \subseteq [in : Windows, who : Requests, times : 1..2]
         /\ counter'.count = counter.count + times
         /\ counter'.life = IF counter.count = 0 THEN counter.life + 1 ELSE counter.life
         /\ counter'.expire = counter.expire
         /\ counted' = counted \cup {[in |-> RedisWindow(counter'.life), who |-> r, times |-> times]}
         /\ RedisWindow(counter'.life) \in Windows
  <1> DEFINE life == IF counter.count = 0 THEN counter.life + 1 ELSE counter.life
  <1>1. counter \in Counters /\ life \in Nat
    BY DEF LimiterTypeOK, Counters
  <1>2. /\ counter' = [counter EXCEPT !.life = life, !.count = @ + times]
        /\ counted' = counted \cup {[in |-> RedisWindow(life), who |-> r, times |-> times]}
    BY DEF Incremented
  <1>3. counter' = [life |-> life, count |-> counter.count + times, expire |-> counter.expire]
    BY <1>1, <1>2 DEF Counters
  <1>4. /\ counter' \in Counters /\ counter'.count = counter.count + times
        /\ counter'.life = life /\ counter'.expire = counter.expire
    <2> HIDE DEF life
    <2> QED
      BY <1>1, <1>3 DEF Counters
  <1>5. RedisWindow(life) \in Windows
    BY <1>1, WindowsDiffer
  <1> QED
    BY <1>2, <1>4, <1>5 DEF LimiterTypeOK

(* A step of the limiter keeps the types. *)
LEMMA LimiterType ==
  ASSUME LimiterTypeOK, PlacesInv, NEW r \in Requests, Limiter(r)
  PROVE  LimiterTypeOK'
  <1>0. req[r] \in RequestStates
    BY DEF LimiterTypeOK
  <1>1. CASE Incr(r)
    <2>1. PICK times \in 1..2 :
            /\ Incremented(r, times)
            /\ LET n == counter'.count  w == RedisWindow(counter'.life) IN
                 IF SetsExpiry(n) THEN req' = [req EXCEPT ![r].pc = "expire", ![r].via = w, ![r].n = n]
                                  ELSE Decide(r, w, n)
      BY <1>1 DEF Incr
    <2>2. counter'.count \in Nat
      BY <2>1, IncrementedType DEF Counters
    <2>3. req' \in [Requests -> RequestStates]
      <3>1. CASE SetsExpiry(counter'.count)
        <4>1. PICK w \in Windows, n \in Nat : w = RedisWindow(counter'.life) /\ n = counter'.count
          BY <2>1, <2>2, IncrementedType
        <4>2. req' = [req EXCEPT ![r].pc = "expire", ![r].via = w, ![r].n = n]
          BY <2>1, <3>1, <4>1
        <4> QED
          BY <4>2, ToldType DEF LimiterTypeOK, Labels
      <3>2. CASE ~SetsExpiry(counter'.count)
        BY <2>1, <2>2, <3>2, IncrementedType, DecideType DEF LimiterTypeOK
      <3> QED
        BY <3>1, <3>2
    <2> QED
      BY <1>1, <2>1, <2>3, IncrementedType DEF Incr, LimiterTypeOK
  <1>2. CASE IncrFails(r)
    <2>1. counter' \in Counters /\ counted' \subseteq [in : Windows, who : Requests, times : 1..2]
      BY <1>2, IncrementedType DEF IncrFails, LimiterTypeOK
    <2>2. req' \in [Requests -> RequestStates]
      BY <1>2, GotoType DEF IncrFails, LimiterTypeOK, Labels
    <2> QED
      BY <1>2, <2>1, <2>2 DEF IncrFails, LimiterTypeOK
  <1>3. CASE Expire(r)
    <2>1. counter' \in Counters
      BY <1>3, LimitAssumption DEF Expire, LimiterTypeOK, Counters
    <2>2. req[r].via \in Windows /\ req[r].n \in Nat
      <3>1. \E l \in 1..counter.life : req[r].via = RedisWindow(l)
        BY <1>3 DEF Expire, PlacesInv, Place
      <3>2. counter.life \in Nat
        BY DEF LimiterTypeOK, Counters
      <3> QED
        BY <1>0, <3>1, <3>2, WindowsDiffer DEF RequestStates
    <2>3. req' \in [Requests -> RequestStates]
      BY <1>3, <2>2, DecideType DEF Expire, LimiterTypeOK
    <2>4. unset' \subseteq Windows
      BY <1>3, <2>2 DEF Expire, LimiterTypeOK
    <2> QED
      BY <1>3, <2>1, <2>3, <2>4 DEF Expire, LimiterTypeOK
  <1>4. CASE Bucket(r)
    <2> DEFINE fresh == current = 0 \/ clock > buckets[current].resetAt
               i     == IF fresh THEN Len(buckets) + 1 ELSE current
               n     == IF fresh THEN 1 ELSE buckets[current].count + 1
    <2>1. ~fresh => current \in DOMAIN buckets /\ buckets[current] \in Buckets
      BY DEF LimiterTypeOK
    <2>2. i \in Nat /\ n \in Nat
      BY <2>1 DEF LimiterTypeOK, Buckets
    <2>3. buckets' \in Seq(Buckets) /\ i \in 1..Len(buckets')
      <3>1. CASE fresh
        <4>1. [count |-> 1, resetAt |-> clock + Window] \in Buckets
          BY LimitAssumption DEF LimiterTypeOK, Buckets
        <4>2. buckets' = Append(buckets, [count |-> 1, resetAt |-> clock + Window])
          BY <1>4, <3>1 DEF Bucket
        <4> QED
          BY <3>1, <4>1, <4>2 DEF LimiterTypeOK
      <3>2. CASE ~fresh
        <4>1. buckets' = [buckets EXCEPT ![current].count = n]
          BY <1>4, <3>2 DEF Bucket
        <4>2. [buckets[current] EXCEPT !.count = n] \in Buckets
          BY <2>1, <2>2, <3>2 DEF Buckets
        <4> QED
          BY <2>1, <3>2, <4>1, <4>2 DEF LimiterTypeOK
      <3> QED
        BY <3>1, <3>2
    <2>4. BucketWindow(i) \in Windows
      BY <2>2, WindowsDiffer
    <2>5. req' = [req EXCEPT ![r].pc = "compare", ![r].via = BucketWindow(i), ![r].n = n]
      BY <1>4 DEF Bucket
    <2>6. req' \in [Requests -> RequestStates]
      BY <2>2, <2>4, <2>5, ToldType, ZenonT(30) DEF LimiterTypeOK, Labels
    <2>7. counted' = counted \cup {[in |-> BucketWindow(i), who |-> r, times |-> 1]} /\ current' = i
      BY <1>4 DEF Bucket
    <2> QED
      BY <1>4, <2>3, <2>4, <2>6, <2>7 DEF Bucket, LimiterTypeOK
  <1>5. CASE Compare(r)
    <2>1. PICK i \in DOMAIN buckets : req[r].via = BucketWindow(i)
      BY <1>5 DEF Compare, PlacesInv, Place
    <2>2. req[r].via \in Windows /\ req[r].via[2] = i /\ req[r].n \in Nat
      BY <1>0, <2>1, WindowsDiffer DEF BucketWindow, RequestStates, LimiterTypeOK
    <2>3. buckets[i] \in Buckets
      BY <2>1 DEF LimiterTypeOK
    <2>4. PICK m \in req[r].n .. buckets[i].count : Decide(r, req[r].via, m)
      BY <1>5, <2>2 DEF Compare
    <2>5. m \in Nat
      BY <2>2, <2>3, <2>4 DEF Buckets
    <2> QED
      BY <1>5, <2>2, <2>4, <2>5, DecideType DEF Compare, LimiterTypeOK, limiterVars
  <1> QED
    BY <1>1, <1>2, <1>3, <1>4, <1>5 DEF Limiter

-----------------------------------------------------------------------------
(* What a step of the limiter does to the windows. *)

(* r is told that it is the n-th of window w, and nobody else hears anything. *)
IsTold(r, w, n) ==
  /\ \A q \in Requests \ {r} : req'[q] = req[q]
  /\ req'[r].via = w
  /\ \/ req'[r].pc = "expire" /\ req'[r].ans = "none" /\ req'[r].n = 1 /\ n = 1
     \/ req'[r].pc = "compare" /\ req'[r].ans = "none" /\ req'[r].n = n
     \/ req'[r].pc = "admitted" /\ req'[r].ans = "none" /\ n =< Limit
     \/ req'[r].pc = "done" /\ req'[r].ans = "limited" /\ n > Limit

LEMMA DecideTells ==
  ASSUME req \in [Requests -> RequestStates], NEW r \in Requests, NEW w, NEW n \in Nat,
         Decide(r, w, n)
  PROVE  /\ \A q \in Requests \ {r} : req'[q] = req[q]
         /\ req'[r].via = w /\ req'[r].n = 0
         /\ \/ req'[r].pc = "admitted" /\ req'[r].ans = "none" /\ n =< Limit
            \/ req'[r].pc = "done" /\ req'[r].ans = "limited" /\ n > Limit
  <1>1. req[r] \in RequestStates
    OBVIOUS
  <1>2. req'[r] = [pc  |-> IF OverLimit(n) THEN "done" ELSE "admitted",
                   ans |-> IF OverLimit(n) THEN "limited" ELSE "none",
                   via |-> w, n |-> 0, panicked |-> req[r].panicked]
    BY <1>1 DEF Decide, RequestStates
  <1>3. OverLimit(n) <=> ~(n =< Limit)
    BY LimitAssumption DEF OverLimit
  <1>4. n =< Limit \/ n > Limit
    BY LimitAssumption
  <1>5. \A q \in Requests \ {r} : req'[q] = req[q]
    BY DEF Decide
  <1> QED
    BY <1>2, <1>3, <1>4, <1>5

(* One more is counted in w, and hears of it or does not. *)
LEMMA OneMoreCounted ==
  ASSUME SetsInv, NEW w \in Windows, NEW r \in Requests, NEW before \in Nat, NEW times \in 1..2,
         Counts(w, before), r \notin Who(w),
         Told(w) \subseteq Told(w)', Told(w)' \subseteq Told(w) \cup {r},
         counted' = counted \cup {[in |-> w, who |-> r, times |-> times]}
  PROVE  /\ Counts(w, before + times)'
         /\ IsFiniteSet(Told(w)') /\ IsFiniteSet(Who(w)')
         /\ Cardinality(Told(w)') =< before + times
         /\ Who(w)' = Who(w) \cup {r}
         /\ Repeated(w)' \/ before + times =< Cardinality(Who(w)')
  <1>1. Who(w)' = Who(w) \cup {r}
    <2> DEFINE new == [in |-> w, who |-> r, times |-> times]
    <2>1. new.in = w /\ new.who = r /\ new \in counted' /\ \A k \in counted' : k \in counted \/ k = new
      OBVIOUS
    <2>2. counted \subseteq counted'
      OBVIOUS
    <2> HIDE DEF new
    <2> QED
      BY <2>1, <2>2 DEF Who
  <1>2. IsFiniteSet(Told(w)) /\ IsFiniteSet(Who(w))
    BY DEF SetsInv
  <1>3. /\ IsFiniteSet(Told(w) \cup {r}) /\ Cardinality(Told(w) \cup {r}) =< Cardinality(Told(w)) + 1
        /\ Cardinality(Told(w)) \in Nat /\ Cardinality(Told(w) \cup {r}) \in Nat
    BY <1>2, AddAtMostOne
  <1>4. /\ IsFiniteSet(Told(w)') /\ Cardinality(Told(w)') =< before + 1
        /\ Cardinality(Told(w)') \in Nat
    <2>1. /\ IsFiniteSet(Told(w)') /\ Cardinality(Told(w)') \in Nat
          /\ Cardinality(Told(w)') =< Cardinality(Told(w) \cup {r})
      BY <1>3, SubsetIsSmaller
    <2>2. Cardinality(Told(w)) =< before
      BY DEF Counts
    <2> QED
      BY <1>3, <2>1, <2>2
  <1>5. /\ IsFiniteSet(Who(w)') /\ Cardinality(Who(w)') = Cardinality(Who(w)) + 1
        /\ Cardinality(Who(w)) \in Nat
    BY <1>1, <1>2, AddOne, FS_CardinalityType
  <1>6. Repeated(w)' \/ before + times =< Cardinality(Who(w)')
    <2>1. CASE times = 2
      <3>1. PICK k \in counted' : k = [in |-> w, who |-> r, times |-> times]
        OBVIOUS
      <3>2. k.in = w /\ k.times > 1
        BY <2>1, <3>1
      <3> QED
        BY <3>2 DEF Repeated
    <2>2. CASE times = 1
      <3>1. CASE Repeated(w)
        BY <3>1 DEF Repeated
      <3>2. CASE before =< Cardinality(Who(w))
        BY <2>2, <3>2, <1>5
      <3> QED
        BY <3>1, <3>2 DEF Counts
    <2>3. times = 1 \/ times = 2
      OBVIOUS
    <2> QED
      BY <2>1, <2>2, <2>3
  <1>7. Cardinality(Told(w)') =< before + times
    BY <1>4
  <1>8. Counts(w, before + times)'
    BY <1>6, <1>7 DEF Counts
  <1> QED
    BY <1>1, <1>4, <1>5, <1>6, <1>7, <1>8

(* The other windows do not notice. *)
LEMMA OthersStay ==
  ASSUME NEW w \in Windows, NEW r \in Requests, NEW times \in 1..2,
         \A q \in Requests \ {r} : req'[q] = req[q],
         req[r].via = Nil, req'[r].via \in {w, Nil},
         counted' = counted \cup {[in |-> w, who |-> r, times |-> times]}
  PROVE  \A v \in Windows \ {w} :
           /\ Told(v)' = Told(v) /\ Who(v)' = Who(v) /\ Claimed(v)' = Claimed(v)
           /\ Repeated(v)' = Repeated(v)
           /\ \A n : Counts(v, n) => Counts(v, n)'
  <1> SUFFICES ASSUME NEW v \in Windows \ {w}
               PROVE  /\ Told(v)' = Told(v) /\ Who(v)' = Who(v) /\ Claimed(v)' = Claimed(v)
                      /\ Repeated(v)' = Repeated(v)
                      /\ \A n : Counts(v, n) => Counts(v, n)'
    OBVIOUS
  <1>0. v # Nil
    BY WindowsDiffer
  <1>1. Told(v)' = Told(v)
    BY <1>0 DEF Told
  <1>2. Who(v)' = Who(v)
    BY DEF Who
  <1>3. Repeated(v)' = Repeated(v)
    BY DEF Repeated
  <1>4. Claimed(v)' = Claimed(v)
    <2>1. r \notin Told(v) /\ r \notin Told(v)'
      BY <1>0, <1>1 DEF Told
    <2> QED
      BY <1>1, <2>1 DEF Claimed, Told
  <1>5. \A n : Counts(v, n) => Counts(v, n)'
    BY <1>1, <1>2, <1>3 DEF Counts
  <1> QED
    BY <1>1, <1>2, <1>3, <1>4, <1>5

(* Who is told a number is let through within the limit, or refused for a reason. *)
LEMMA ToldKeeps ==
  ASSUME LimiterInv, NEW w \in Windows, NEW r \in Requests, NEW before \in Nat, NEW times \in 1..2,
         Counts(w, before), r \notin Who(w), req[r].via = Nil, req[r].ans = "none",
         IsTold(r, w, before + times),
         counted' = counted \cup {[in |-> w, who |-> r, times |-> times]}
  PROVE  /\ SetsInv' /\ RefusedInv' /\ Counts(w, before + times)'
         /\ \A v \in Windows \ {w} : \A n : Counts(v, n) => Counts(v, n)'
  <1> DEFINE n == before + times
  <1>0. /\ \A q \in Requests \ {r} : req'[q] = req[q]
        /\ req'[r].via = w /\ SetsInv /\ w # Nil
    BY WindowsDiffer DEF IsTold, LimiterInv
  <1>1. r \notin Told(w) /\ Told(w)' = Told(w) \cup {r}
    BY <1>0 DEF Told
  <1>2. /\ Counts(w, n)'
        /\ IsFiniteSet(Told(w)') /\ IsFiniteSet(Who(w)') /\ Cardinality(Told(w)') =< n
        /\ Who(w)' = Who(w) \cup {r}
        /\ Repeated(w)' \/ n =< Cardinality(Who(w)')
    BY <1>0, <1>1, OneMoreCounted
  <1>3. \A v \in Windows \ {w} :
           /\ Told(v)' = Told(v) /\ Who(v)' = Who(v) /\ Claimed(v)' = Claimed(v)
           /\ Repeated(v)' = Repeated(v)
           /\ \A m : Counts(v, m) => Counts(v, m)'
    BY <1>0, OthersStay
  <1>4. Cardinality(Claimed(w)') =< Limit
    <2>0. Claimed(w) \subseteq Claimed(w)' /\ Claimed(w)' \subseteq Claimed(w) \cup {r}
      BY <1>0, <1>1 DEF Claimed, Told
    <2>1. CASE r \in Claimed(w)'
      <3>1. n =< Limit
        BY <2>1, LimitAssumption DEF Claimed, IsTold
      <3>2. Claimed(w)' \subseteq Told(w)'
        BY DEF Claimed
      <3>3. /\ Cardinality(Claimed(w)') \in Nat /\ Cardinality(Told(w)') \in Nat
            /\ Cardinality(Claimed(w)') =< Cardinality(Told(w)')
        BY <1>2, <3>2, SubsetIsSmaller, FS_CardinalityType
      <3> QED
        BY <1>2, <3>1, <3>3, LimitAssumption
    <2>2. CASE r \notin Claimed(w)'
      <3>1. Claimed(w)' = Claimed(w)
        BY <2>0, <2>2
      <3> QED
        BY <1>0, <3>1 DEF SetsInv
    <2> QED
      BY <2>1, <2>2
  <1>5. SetsInv'
    <2> SUFFICES ASSUME NEW v \in Windows
                 PROVE  /\ IsFiniteSet(Told(v)') /\ IsFiniteSet(Who(v)')
                        /\ Cardinality(Claimed(v)') =< Limit
      BY DEF SetsInv
    <2>1. CASE v = w
      BY <1>2, <1>4, <2>1
    <2>2. CASE v # w
      BY <1>0, <1>3, <2>2 DEF SetsInv
    <2> QED
      BY <2>1, <2>2
  <1>6. RefusedInv'
    <2> SUFFICES ASSUME NEW q \in Requests, req'[q].ans = "limited"
                 PROVE  req'[q].via \in Windows /\ Full(q, req[q].via)'
      BY DEF RefusedInv
    <2>1. CASE q = r
      <3>1. n > Limit
        BY <2>1, <1>0 DEF IsTold
      <3>2. CASE Repeated(w)'
        BY <1>0, <2>1, <3>2 DEF Full, Repeated
      <3>3. CASE n =< Cardinality(Who(w)')
        <4>1. Cardinality(Who(w)' \ {r}) = Cardinality(Who(w)') - 1 /\ Cardinality(Who(w)') \in Nat
          BY <1>2, TakeOne, FS_CardinalityType
        <4>2. Cardinality(Who(w)' \ {r}) >= Limit
          BY <3>1, <3>3, <4>1, LimitAssumption
        <4>3. Full(r, w)'
          BY <4>2 DEF Full
        <4> QED
          BY <1>0, <2>1, <4>3 DEF Full, Who, Repeated
      <3> QED
        BY <1>2, <3>2, <3>3
    <2>2. CASE q # r
      <3>1. PICK v \in Windows : v = req[q].via /\ Full(q, v) /\ req'[q] = req[q]
        BY <2>2, <1>0 DEF LimiterInv, RefusedInv
      <3>2. Who(v) \subseteq Who(v)' /\ IsFiniteSet(Who(v)')
        BY <1>5 DEF SetsInv, Who
      <3>3. Full(q, v)'
        BY <3>1, <3>2, FullStays
      <3> QED
        BY <3>1, <3>3 DEF Full, Who, Repeated
    <2> QED
      BY <2>1, <2>2
  <1> QED
    BY <1>2, <1>3, <1>5, <1>6

(* What was known of a window or a request stays known. *)
LEMMA OpenedStays ==
  ASSUME counter.life \in Nat, counter'.life \in Nat, counter'.life >= counter.life,
         DOMAIN buckets \subseteq DOMAIN buckets'
  PROVE  \A w : Opened(w) => Opened(w)'
  BY DEF Opened

LEMMA PlaceStays ==
  ASSUME LimiterTypeOK, LimiterTypeOK', counter'.life >= counter.life,
         \A i \in DOMAIN buckets : i \in DOMAIN buckets' /\ buckets'[i].count >= buckets[i].count,
         NEW q \in Requests, Place(q), req'[q] = req[q]
  PROVE  Place(q)'
  <1>1. counter.life \in Nat /\ counter'.life \in Nat /\ counter'.life >= counter.life
    BY DEF LimiterTypeOK, Counters
  <1>2. req[q].pc = "expire" => /\ req[q].n = 1
                                /\ \E l \in 1..counter'.life : req[q].via = RedisWindow(l)
    BY <1>1 DEF Place
  <1>3. req[q].pc = "compare" => \E i \in DOMAIN buckets' : /\ req[q].via = BucketWindow(i)
                                                            /\ req[q].n \in 1..buckets'[i].count
    <2>1. SUFFICES ASSUME req[q].pc = "compare"
                   PROVE  \E i \in DOMAIN buckets' : /\ req[q].via = BucketWindow(i)
                                                     /\ req[q].n \in 1..buckets'[i].count
      OBVIOUS
    <2>2. PICK i \in DOMAIN buckets : req[q].via = BucketWindow(i) /\ req[q].n \in 1..buckets[i].count
      BY <2>1 DEF Place
    <2>3. i \in DOMAIN buckets' /\ buckets'[i].count \in Nat /\ buckets[i].count \in Nat
      BY BucketCounts DEF LimiterTypeOK
    <2>4. req[q].n \in 1..buckets'[i].count
      BY <2>2, <2>3
    <2> QED
      BY <2>2, <2>3, <2>4
  <1> QED
    BY <1>2, <1>3 DEF Place

(* Nobody was told a number of a window that has not begun. *)
LEMMA NewWindow ==
  ASSUME LimiterInv, NEW w \in Windows, ~Opened(w)
  PROVE  Counts(w, 0)
  <1>1. Told(w) = {}
    <2> SUFFICES ASSUME NEW q \in Requests, req[q].via = w
                 PROVE  FALSE
      BY DEF Told
    <2> QED
      BY WindowsDiffer DEF LimiterInv, CountedInv
  <1>2. Cardinality(Told(w)) = 0 /\ Cardinality(Who(w)) \in Nat
    BY <1>1, FS_EmptySet, FS_CardinalityType DEF LimiterInv, SetsInv
  <1>3. Cardinality(Told(w)) =< 0 /\ 0 =< Cardinality(Who(w))
    BY <1>2
  <1> QED
    BY <1>3 DEF Counts

(* The window an INCR counts in: the one that is open, or a new one. *)
LEMMA CounterWindow ==
  ASSUME LimiterInv, NEW life \in Nat,
         life = IF counter.count = 0 THEN counter.life + 1 ELSE counter.life
  PROVE  life > 0 /\ life >= counter.life /\ Counts(RedisWindow(life), counter.count)
  <1>1. counter.count \in Nat /\ counter.life \in Nat
    BY DEF LimiterInv, LimiterTypeOK, Counters
  <1>2. CASE counter.count # 0
    BY <1>1, <1>2 DEF LimiterInv, CountsInv
  <1>3. CASE counter.count = 0
    <2>1. RedisWindow(life) \in Windows /\ ~Opened(RedisWindow(life))
      BY <1>1, <1>3, WindowsDiffer DEF Opened, LimiterInv, LimiterTypeOK
    <2> QED
      BY <1>1, <1>3, <2>1, NewWindow
  <1> QED
    BY <1>2, <1>3

LEMMA IncrKeeps ==
  ASSUME LimiterInv, NEW r \in Requests, Incr(r)
  PROVE  LimiterInv'
  <1>0. /\ LimiterTypeOK /\ PlacesInv /\ CountedInv /\ SetsInv /\ CountsInv /\ RefusedInv /\ WindowsEnd
        /\ req \in [Requests -> RequestStates] /\ req[r].pc = "new"
    BY DEF LimiterInv, LimiterTypeOK, Incr
  <1>1. LimiterTypeOK'
    BY <1>0, LimiterType DEF Limiter
  <1>2. PICK times \in 1..2 :
          /\ Incremented(r, times)
          /\ LET n == counter'.count  w == RedisWindow(counter'.life) IN
               IF SetsExpiry(n) THEN req' = [req EXCEPT ![r].pc = "expire", ![r].via = w, ![r].n = n]
                                ELSE Decide(r, w, n)
    BY DEF Incr
  <1>3. /\ counter'.count = counter.count + times /\ counter.count \in Nat /\ counter'.count \in Nat
        /\ counter'.life = IF counter.count = 0 THEN counter.life + 1 ELSE counter.life
        /\ counter'.expire = counter.expire /\ counter'.life \in Nat /\ counter.life \in Nat
        /\ counted' = counted \cup {[in |-> RedisWindow(counter'.life), who |-> r, times |-> times]}
        /\ RedisWindow(counter'.life) \in Windows
    BY <1>0, <1>1, <1>2, IncrementedType DEF LimiterTypeOK, Counters
  <1>4. PICK w \in Windows, life \in Nat, before \in Nat :
          w = RedisWindow(life) /\ life = counter'.life /\ before = counter.count
    BY <1>3
  <1>5. life > 0 /\ life >= counter.life /\ Counts(w, before)
    BY <1>3, <1>4, CounterWindow
  <1>6. IsTold(r, w, before + times)
    <2>1. CASE SetsExpiry(counter'.count)
      <3>1. req' = [req EXCEPT ![r].pc = "expire", ![r].via = w, ![r].n = 1]
        BY <1>2, <1>4, <2>1 DEF SetsExpiry
      <3>2. before + times = 1
        BY <1>3, <1>4, <2>1 DEF SetsExpiry
      <3>3. req[r].ans = "none"
        BY <1>0 DEF PlacesInv, Place
      <3> QED
        BY <1>0, <3>1, <3>2, <3>3 DEF IsTold, RequestStates
    <2>2. CASE ~SetsExpiry(counter'.count)
      <3>1. Decide(r, w, before + times)
        BY <1>2, <1>3, <1>4, <2>2
      <3> QED
        BY <1>0, <3>1, DecideTells DEF IsTold
    <2> QED
      BY <2>1, <2>2
  <1>7. req[r].via = Nil /\ req[r].ans = "none" /\ \A k \in counted : k.who # r
    BY <1>0 DEF PlacesInv, Place, CountedInv
  <1>8. r \notin Who(w)
    BY <1>7 DEF Who
  <1>9. counted' = counted \cup {[in |-> w, who |-> r, times |-> times]}
    BY <1>3, <1>4
  <1>10. /\ SetsInv' /\ RefusedInv' /\ Counts(w, before + times)'
         /\ \A v \in Windows \ {w} : \A n : Counts(v, n) => Counts(v, n)'
    BY <1>5, <1>6, <1>7, <1>8, <1>9, ToldKeeps
  <1>11. UNCHANGED <<clock, buckets, current, unset>>
    BY DEF Incr
  <1>12. PlacesInv'
    <2>1. ASSUME NEW q \in Requests \ {r}
          PROVE  Place(q)'
      <3>1. \A i \in DOMAIN buckets : buckets[i].count \in Nat
        BY <1>0, BucketCounts DEF LimiterTypeOK
      <3> QED
        BY <1>0, <1>1, <1>4, <1>5, <1>6, <1>11, <3>1, PlaceStays DEF PlacesInv, IsTold
    <2>2. Place(r)'
      <3>1. w # Nil /\ \E l \in 1..counter'.life : w = RedisWindow(l)
        BY <1>4, <1>5, WindowsDiffer
      <3>2. req'[r].via = w
        BY <1>6 DEF IsTold
      <3>3. /\ req'[r].pc \in {"expire", "admitted", "done"}
            /\ req'[r].pc # "done" => req'[r].ans = "none"
            /\ req'[r].pc = "expire" => req'[r].n = 1
        <4>1. CASE SetsExpiry(counter'.count)
          <5>1. req' = [req EXCEPT ![r].pc = "expire", ![r].via = w, ![r].n = 1]
            BY <1>2, <1>4, <4>1 DEF SetsExpiry
          <5> QED
            BY <1>0, <1>7, <5>1 DEF RequestStates
        <4>2. CASE ~SetsExpiry(counter'.count)
          <5>1. Decide(r, w, before + times)
            BY <1>2, <1>3, <1>4, <4>2
          <5> QED
            BY <1>0, <5>1, DecideTells
        <4> QED
          BY <4>1, <4>2
      <3> QED
        BY <3>1, <3>2, <3>3 DEF Place
    <2> QED
      BY <2>1, <2>2 DEF PlacesInv
  <1>13. CountedInv'
    <2>1. \A v : Opened(v) => Opened(v)'
      BY <1>3, <1>4, <1>5, <1>11, OpenedStays
    <2>2. Opened(w)'
      BY <1>4, <1>5 DEF Opened
    <2>3. PICK new \in counted' : new = [in |-> w, who |-> r, times |-> times]
      BY <1>9
    <2>4. new.in = w /\ new.who = r /\ w[1] = "redis"
      BY <1>4, <2>3, WindowsDiffer
    <2>5. \A k \in counted' : k \in counted \/ k = new
      BY <1>9, <2>3
    <2>6. req'[r].via = w /\ req'[r].pc \notin {"new", "bucket"}
          /\ \A q \in Requests \ {r} : req'[q] = req[q]
      BY <1>6 DEF IsTold
    <2>7. \A k \in counted' : Opened(k.in)' /\ (k.in[1] = "process" => k.times = 1)
      BY <1>0, <2>1, <2>2, <2>4, <2>5 DEF CountedInv
    <2>8. \A q \in Requests : req'[q].via # Nil => \E k \in counted' : k.who = q /\ k.in = req'[q].via
      <3>1. ASSUME NEW q \in Requests \ {r}, req'[q].via # Nil
            PROVE  \E k \in counted' : k.who = q /\ k.in = req'[q].via
        BY <1>0, <1>9, <2>6, <3>1 DEF CountedInv
      <3> QED
        BY <2>4, <2>6, <3>1
    <2>9. \A k \in counted' : /\ req'[k.who].pc # "new"
                              /\ req'[k.who].pc = "bucket" => k.in[1] = "redis"
      <3>1. \A k \in counted : k.who \in Requests \ {r}
        BY <1>0, <1>7 DEF LimiterTypeOK
      <3> QED
        BY <1>0, <2>4, <2>5, <2>6, <3>1 DEF CountedInv
    <2> QED
      BY <2>7, <2>8, <2>9 DEF CountedInv
  <1>14. CountsInv'
    <2>1. counter'.count > 0 => counter'.life > 0 /\ Counts(RedisWindow(counter.life), counter.count)'
      BY <1>3, <1>4, <1>5, <1>10 DEF Counts, Told, Who, Repeated
    <2>2. ASSUME NEW i \in DOMAIN buckets
          PROVE  Counts(BucketWindow(i), buckets[i].count)'
      <3>1. i \in Nat
        BY <1>0 DEF LimiterTypeOK
      <3>2. BucketWindow(i) \in Windows \ {w}
        BY <1>4, <3>1, WindowsDiffer
      <3>3. PICK m : m = buckets[i].count
        OBVIOUS
      <3>4. Counts(BucketWindow(i), m)'
        BY <1>0, <1>10, <3>2, <3>3 DEF CountsInv
      <3> QED
        BY <1>11, <3>3, <3>4 DEF Counts, Told, Who, Repeated
    <2> QED
      BY <1>11, <2>1, <2>2 DEF CountsInv
  <1>15. WindowsEnd'
    <2> SUFFICES ASSUME counter'.count > 0, counter'.expire = Nil
                 PROVE  \/ \E q \in Requests : req'[q].via = w /\ req'[q].n = 1
                        \/ w \in unset'
                        \/ \E k \in counted' : k.in = w /\ (k.times > 1 \/ req'[k.who].via # w)
      BY <1>4 DEF WindowsEnd
    <2>1. CASE times = 2
      <3>1. PICK k \in counted' : k = [in |-> w, who |-> r, times |-> times]
        BY <1>9
      <3>2. k.in = w /\ k.times > 1
        BY <2>1, <3>1
      <3> QED
        BY <3>2
    <2>2. CASE times = 1 /\ before = 0
      <3>1. req' = [req EXCEPT ![r].pc = "expire", ![r].via = w, ![r].n = 1]
        BY <1>2, <1>3, <1>4, <2>2 DEF SetsExpiry
      <3>2. req'[r].via = w /\ req'[r].n = 1
        BY <1>0, <3>1 DEF RequestStates
      <3> QED
        BY <3>2
    <2>3. CASE times = 1 /\ before # 0
      <3>1. w = RedisWindow(counter.life) /\ counter.count > 0 /\ counter.expire = Nil
        BY <1>3, <1>4, <2>3
      <3>2. \A q \in Requests \ {r} : req'[q] = req[q]
        BY <1>6 DEF IsTold
      <3>3. CASE \E q \in Requests : req[q].via = w /\ req[q].n = 1
        <4>1. w # Nil
          BY WindowsDiffer
        <4> QED
          BY <1>7, <3>2, <3>3, <4>1
      <3>4. CASE w \in unset
        BY <1>11, <3>4
      <3>5. CASE \E k \in counted : k.in = w /\ (k.times > 1 \/ req[k.who].via # w)
        <4>1. PICK k \in counted : k.in = w /\ (k.times > 1 \/ req[k.who].via # w)
          BY <3>5
        <4>2. k \in counted' /\ k.who \in Requests \ {r}
          BY <1>0, <1>7, <1>9 DEF LimiterTypeOK
        <4> QED
          BY <3>2, <4>1, <4>2
      <3> QED
        BY <1>0, <3>1, <3>3, <3>4, <3>5 DEF WindowsEnd
    <2>4. times = 1 \/ times = 2
      OBVIOUS
    <2> QED
      BY <2>1, <2>2, <2>3, <2>4
  <1> QED
    BY <1>1, <1>10, <1>12, <1>13, <1>14, <1>15 DEF LimiterInv

(* A step in which nobody is counted or told anything keeps the sets and the counts. *)
LEMMA SetsStay ==
  ASSUME SetsInv, RefusedInv, counted' = counted,
         \A q \in Requests : req'[q].via = req[q].via,
         \A w \in Windows : Claimed(w)' \subseteq Claimed(w),
         \A q \in Requests : req'[q].ans = "limited" =>
            \/ req[q].ans = "limited"
            \/ req[q].via \in Windows /\ Full(q, req[q].via)
  PROVE  /\ SetsInv' /\ RefusedInv'
         /\ \A w \in Windows : \A n : Counts(w, n) => Counts(w, n)'
  <1>1. \A w : Told(w)' = Told(w) /\ Who(w)' = Who(w) /\ Repeated(w)' = Repeated(w)
    BY DEF Told, Who, Repeated
  <1>2. SetsInv'
    <2> SUFFICES ASSUME NEW w \in Windows
                 PROVE  /\ IsFiniteSet(Told(w)') /\ IsFiniteSet(Who(w)')
                        /\ Cardinality(Claimed(w)') =< Limit
      BY DEF SetsInv
    <2>1. IsFiniteSet(Told(w)) /\ IsFiniteSet(Who(w)) /\ Cardinality(Claimed(w)) =< Limit
      BY DEF SetsInv
    <2>2. IsFiniteSet(Claimed(w))
      BY <2>1, ClaimedIsTold, SubsetIsSmaller
    <2>3. /\ Cardinality(Claimed(w)') =< Cardinality(Claimed(w))
          /\ Cardinality(Claimed(w)') \in Nat /\ Cardinality(Claimed(w)) \in Nat
      BY <2>2, SubsetIsSmaller, FS_CardinalityType
    <2>4. Cardinality(Claimed(w)') =< Limit
      BY <2>1, <2>3, LimitAssumption
    <2> QED
      BY <1>1, <2>1, <2>4
  <1>3. RefusedInv'
    <2> SUFFICES ASSUME NEW q \in Requests, req'[q].ans = "limited"
                 PROVE  req'[q].via \in Windows /\ Full(q, req[q].via)'
      BY DEF RefusedInv
    <2>1. req[q].via \in Windows /\ Full(q, req[q].via) /\ req'[q].via = req[q].via
      BY DEF RefusedInv
    <2> QED
      BY <2>1 DEF Full, Who, Repeated
  <1>4. \A w \in Windows : \A n : Counts(w, n) => Counts(w, n)'
    BY <1>1 DEF Counts
  <1> QED
    BY <1>2, <1>3, <1>4

(* The counts hold on while counters and buckets stay. *)
LEMMA CountsStay ==
  ASSUME LimiterTypeOK, CountsInv, UNCHANGED buckets,
         counter'.life = counter.life, counter'.count \in {0, counter.count},
         \A w \in Windows : \A n : Counts(w, n) => Counts(w, n)'
  PROVE  CountsInv'
  <1>1. counter'.count > 0 => counter'.life > 0 /\ Counts(RedisWindow(counter.life), counter.count)'
    <2> SUFFICES ASSUME counter'.count > 0
                 PROVE  counter'.life > 0 /\ Counts(RedisWindow(counter.life), counter.count)'
      OBVIOUS
    <2>1. PICK life \in Nat, n \in Nat : life = counter.life /\ n = counter.count
      BY DEF LimiterTypeOK, Counters
    <2>2. n > 0 /\ counter'.count = n /\ counter'.life = life
      BY <2>1
    <2>3. life > 0 /\ Counts(RedisWindow(life), n)
      BY <2>1, <2>2 DEF CountsInv
    <2>4. Counts(RedisWindow(life), n)'
      BY <2>3, WindowsDiffer
    <2> QED
      BY <2>2, <2>3, <2>4 DEF Counts, Told, Who, Repeated
  <1>2. ASSUME NEW i \in DOMAIN buckets
        PROVE  Counts(BucketWindow(i), buckets[i].count)'
    <2>1. BucketWindow(i) \in Windows
      BY WindowsDiffer DEF LimiterTypeOK
    <2>2. PICK m : m = buckets[i].count
      OBVIOUS
    <2>3. Counts(BucketWindow(i), m)'
      BY <2>1, <2>2 DEF CountsInv
    <2> QED
      BY <2>2, <2>3 DEF Counts, Told, Who, Repeated
  <1> QED
    BY <1>1, <1>2 DEF CountsInv

(* INCR failed: r is told nothing, whether or not it was counted. *)
LEMMA IncrFailsKeeps ==
  ASSUME LimiterInv, NEW r \in Requests, IncrFails(r)
  PROVE  LimiterInv'
  <1>0. /\ LimiterTypeOK /\ PlacesInv /\ CountedInv /\ SetsInv /\ CountsInv /\ RefusedInv /\ WindowsEnd
        /\ req \in [Requests -> RequestStates] /\ req[r].pc = "new"
        /\ UNCHANGED <<clock, buckets, current, unset>>
    BY DEF LimiterInv, LimiterTypeOK, IncrFails
  <1>1. LimiterTypeOK'
    BY <1>0, LimiterType DEF Limiter
  <1>2. req[r].via = Nil /\ req[r].ans = "none" /\ \A k \in counted : k.who \in Requests \ {r}
    BY <1>0 DEF PlacesInv, Place, CountedInv, LimiterTypeOK
  <1>3. /\ \A q \in Requests \ {r} : req'[q] = req[q]
        /\ req'[r].via = Nil /\ req'[r].ans = "none" /\ req'[r].pc = "bucket"
    BY <1>0, <1>2 DEF IncrFails, Goto, RequestStates
  <1>4. /\ counter.life \in Nat /\ counter'.life \in Nat /\ counter'.life >= counter.life
        /\ counter.count \in Nat /\ counter'.count \in Nat
    <2>1. counter.life \in Nat /\ counter'.life \in Nat /\ counter.count \in Nat /\ counter'.count \in Nat
      BY <1>0, <1>1 DEF LimiterTypeOK, Counters
    <2>2. counter' = counter \/ counter'.life = IF counter.count = 0 THEN counter.life + 1 ELSE counter.life
      BY <1>0, IncrementedType DEF IncrFails
    <2> QED
      BY <2>1, <2>2
  <1>5. PlacesInv'
    <2>1. ASSUME NEW q \in Requests \ {r}
          PROVE  Place(q)'
      BY <1>0, <1>1, <1>3, <1>4, BucketCounts, PlaceStays DEF PlacesInv, LimiterTypeOK
    <2>2. Place(r)'
      BY <1>3 DEF Place
    <2> QED
      BY <2>1, <2>2 DEF PlacesInv
  <1>6. \A v : Opened(v) => Opened(v)'
    BY <1>0, <1>4, OpenedStays
  <1>7. CASE UNCHANGED <<counter, counted>>
    <2>1. \A v \in Windows : Claimed(v)' \subseteq Claimed(v)
      BY <1>2, <1>3, WindowsDiffer DEF Claimed, Told
    <2>2. SetsInv' /\ RefusedInv' /\ \A v \in Windows : \A n : Counts(v, n) => Counts(v, n)'
      BY <1>0, <1>2, <1>3, <1>7, <2>1, SetsStay
    <2>3. CountsInv'
      BY <1>0, <1>7, <2>2, CountsStay
    <2>4. CountedInv'
      BY <1>0, <1>2, <1>3, <1>6, <1>7 DEF CountedInv
    <2>5. WindowsEnd'
      <3> DEFINE w == RedisWindow(counter.life)
      <3>1. w # Nil
        BY <1>4, WindowsDiffer
      <3>2. \A q \in Requests : req[q].via = w => req'[q] = req[q]
        BY <1>2, <1>3, <3>1
      <3>3. \A k \in counted : req'[k.who] = req[k.who]
        BY <1>2, <1>3
      <3> QED
        BY <1>0, <1>7, <3>2, <3>3 DEF WindowsEnd
    <2> QED
      BY <1>1, <1>5, <2>2, <2>3, <2>4, <2>5 DEF LimiterInv
  <1>8. CASE Incremented(r, 1)
    <2>1. PICK w \in Windows, life \in Nat, before \in Nat :
            /\ w = RedisWindow(life) /\ life = counter'.life /\ before = counter.count
            /\ counter'.count = before + 1
            /\ life = IF counter.count = 0 THEN counter.life + 1 ELSE counter.life
            /\ counted' = counted \cup {[in |-> w, who |-> r, times |-> 1]}
      BY <1>0, <1>4, <1>8, IncrementedType
    <2>2. life > 0 /\ Counts(w, before)
      BY <2>1, CounterWindow
    <2>3. r \notin Who(w) /\ w # Nil
      BY <1>2, WindowsDiffer DEF Who
    <2>4. Told(w)' = Told(w) /\ Claimed(w)' = Claimed(w)
      BY <1>2, <1>3, <2>3 DEF Told, Claimed
    <2>5. /\ Counts(w, before + 1)' /\ IsFiniteSet(Told(w)') /\ IsFiniteSet(Who(w)')
          /\ Who(w)' = Who(w) \cup {r}
      BY <1>0, <2>1, <2>2, <2>3, <2>4, OneMoreCounted
    <2>6. \A v \in Windows \ {w} :
            /\ Told(v)' = Told(v) /\ Who(v)' = Who(v) /\ Claimed(v)' = Claimed(v)
            /\ Repeated(v)' = Repeated(v)
            /\ \A m : Counts(v, m) => Counts(v, m)'
      BY <1>2, <1>3, <2>1, OthersStay
    <2>7. SetsInv'
      <3> SUFFICES ASSUME NEW v \in Windows
                   PROVE  /\ IsFiniteSet(Told(v)') /\ IsFiniteSet(Who(v)')
                          /\ Cardinality(Claimed(v)') =< Limit
        BY DEF SetsInv
      <3>1. CASE v = w
        BY <1>0, <2>4, <2>5, <3>1 DEF SetsInv
      <3>2. CASE v # w
        BY <1>0, <2>6, <3>2 DEF SetsInv
      <3> QED
        BY <3>1, <3>2
    <2>8. RefusedInv'
      <3> SUFFICES ASSUME NEW q \in Requests, req'[q].ans = "limited"
                   PROVE  req'[q].via \in Windows /\ Full(q, req[q].via)'
        BY DEF RefusedInv
      <3>1. PICK v \in Windows : v = req[q].via /\ Full(q, v) /\ req'[q] = req[q]
        BY <1>0, <1>3 DEF RefusedInv
      <3>2. Who(v) \subseteq Who(v)' /\ IsFiniteSet(Who(v)') /\ counted \subseteq counted'
        BY <2>1, <2>7 DEF SetsInv, Who
      <3>3. Full(q, v)'
        BY <3>1, <3>2, FullStays
      <3> QED
        BY <3>1, <3>3 DEF Full, Who, Repeated
    <2>9. CountsInv'
      <3>1. counter'.count > 0 => counter'.life > 0 /\ Counts(RedisWindow(counter.life), counter.count)'
        BY <2>1, <2>2, <2>5 DEF Counts, Told, Who, Repeated
      <3>2. ASSUME NEW i \in DOMAIN buckets
            PROVE  Counts(BucketWindow(i), buckets[i].count)'
        <4>1. BucketWindow(i) \in Windows \ {w}
          BY <1>0, <2>1, WindowsDiffer DEF LimiterTypeOK
        <4>2. PICK m : m = buckets[i].count
          OBVIOUS
        <4>3. Counts(BucketWindow(i), m)'
          BY <1>0, <2>6, <4>1, <4>2 DEF CountsInv
        <4> QED
          BY <1>0, <4>2, <4>3 DEF Counts, Told, Who, Repeated
      <3> QED
        BY <1>0, <3>1, <3>2 DEF CountsInv
    <2>10. PICK new \in counted' : new = [in |-> w, who |-> r, times |-> 1]
      BY <2>1
    <2>11. new.in = w /\ new.who = r /\ w[1] = "redis" /\ Opened(w)'
      BY <2>1, <2>2, <2>10, WindowsDiffer DEF Opened
    <2>12. \A k \in counted' : k \in counted \/ k = new
      BY <2>1, <2>10
    <2>13. CountedInv'
      <3>1. \A k \in counted' : Opened(k.in)' /\ (k.in[1] = "process" => k.times = 1)
        BY <1>0, <1>6, <2>11, <2>12 DEF CountedInv
      <3>2. \A q \in Requests : req'[q].via # Nil => \E k \in counted' : k.who = q /\ k.in = req'[q].via
        BY <1>0, <1>3, <2>1 DEF CountedInv
      <3>3. \A k \in counted' : /\ req'[k.who].pc # "new"
                                /\ req'[k.who].pc = "bucket" => k.in[1] = "redis"
        BY <1>0, <1>2, <1>3, <2>11, <2>12 DEF CountedInv
      <3> QED
        BY <3>1, <3>2, <3>3 DEF CountedInv
    <2>14. WindowsEnd'
      <3>1. new \in counted' /\ new.in = w /\ req'[new.who].via # w
        BY <1>3, <2>3, <2>10, <2>11
      <3> QED
        BY <2>1, <3>1 DEF WindowsEnd
    <2> QED
      BY <1>1, <1>5, <2>7, <2>8, <2>9, <2>13, <2>14 DEF LimiterInv
  <1> QED
    BY <1>7, <1>8 DEF IncrFails

(* Facts about r that Expire and Compare share: the window it was told of stays its own. *)
LEMMA CountedStays ==
  ASSUME CountedInv, LimiterTypeOK, UNCHANGED <<counted, buckets>>, counter'.life = counter.life,
         NEW r \in Requests, \A q \in Requests \ {r} : req'[q] = req[q],
         req'[r].via = req[r].via, req'[r].pc \notin {"new", "bucket"}
  PROVE  CountedInv'
  <1>1. \A v : Opened(v)' = Opened(v)
    BY DEF Opened
  <1>2. \A k \in counted : k.who \in Requests
    BY DEF LimiterTypeOK
  <1> QED
    BY <1>1, <1>2 DEF CountedInv

(* r sets the expiry of the window it began, or fails to. *)
LEMMA ExpireKeeps ==
  ASSUME LimiterInv, NEW r \in Requests, Expire(r)
  PROVE  LimiterInv'
  <1>0. /\ LimiterTypeOK /\ PlacesInv /\ CountedInv /\ SetsInv /\ CountsInv /\ RefusedInv /\ WindowsEnd
        /\ req \in [Requests -> RequestStates] /\ req[r].pc = "expire"
        /\ UNCHANGED <<clock, buckets, current, counted>>
    BY DEF LimiterInv, LimiterTypeOK, Expire
  <1>1. LimiterTypeOK'
    BY <1>0, LimiterType DEF Limiter
  <1>2. req[r].n = 1 /\ req[r].ans = "none" /\ req[r].via # Nil
    BY <1>0 DEF PlacesInv, Place
  <1>3. /\ \A q \in Requests \ {r} : req'[q] = req[q]
        /\ req'[r].via = req[r].via /\ req'[r].ans = "none" /\ req'[r].pc = "admitted"
    <2>1. Decide(r, req[r].via, 1)
      BY <1>2 DEF Expire
    <2>2. ~(1 > Limit)
      BY LimitAssumption
    <2> QED
      BY <1>0, <2>1, <2>2, DecideTells
  <1>4. counter'.life = counter.life /\ counter'.count = counter.count /\ counter.life \in Nat
    BY <1>0 DEF Expire, LimiterTypeOK, Counters
  <1>5. PlacesInv'
    <2>1. ASSUME NEW q \in Requests \ {r}
          PROVE  Place(q)'
      BY <1>0, <1>1, <1>3, <1>4, BucketCounts, PlaceStays DEF PlacesInv, LimiterTypeOK
    <2>2. Place(r)'
      BY <1>2, <1>3 DEF Place
    <2> QED
      BY <2>1, <2>2 DEF PlacesInv
  <1>6. CountedInv'
    BY <1>0, <1>3, <1>4, CountedStays
  <1>7. \A v \in Windows : Claimed(v)' \subseteq Claimed(v)
    BY <1>0, <1>2, <1>3 DEF Claimed, Told
  <1>8. SetsInv' /\ RefusedInv' /\ \A v \in Windows : \A n : Counts(v, n) => Counts(v, n)'
    BY <1>0, <1>3, <1>7, SetsStay
  <1>9. CountsInv'
    BY <1>0, <1>4, <1>8, CountsStay
  <1>10. WindowsEnd'
    <2> DEFINE w == RedisWindow(counter.life)
    <2>1. CASE counter' = [counter EXCEPT !.expire = clock + Window]
      <3>1. counter'.expire = clock + Window /\ clock + Window \in Nat
        BY <1>0, <2>1, LimitAssumption DEF LimiterTypeOK, Counters
      <3>2. counter'.expire # Nil
        BY <3>1, NoWindow
      <3> QED
        BY <3>2 DEF WindowsEnd
    <2>2. CASE unset' = unset \cup {req[r].via} /\ UNCHANGED counter
      <3>1. SUFFICES ASSUME counter.count > 0, counter.expire = Nil
                     PROVE  \/ \E q \in Requests : req'[q].via = w /\ req'[q].n = 1
                            \/ w \in unset'
                            \/ \E k \in counted : k.in = w /\ (k.times > 1 \/ req'[k.who].via # w)
        BY <1>0, <2>2 DEF WindowsEnd
      <3>2. CASE \E q \in Requests : req[q].via = w /\ req[q].n = 1
        BY <1>3, <2>2, <3>2
      <3>3. CASE w \in unset
        BY <2>2, <3>3
      <3>4. CASE \E k \in counted : k.in = w /\ (k.times > 1 \/ req[k.who].via # w)
        <4>1. \A q \in Requests : req'[q].via = req[q].via
          BY <1>3
        <4>2. \A k \in counted : k.who \in Requests
          BY <1>0 DEF LimiterTypeOK
        <4> QED
          BY <3>4, <4>1, <4>2
      <3> QED
        BY <1>0, <3>1, <3>2, <3>3, <3>4 DEF WindowsEnd
    <2> QED
      BY <2>1, <2>2 DEF Expire
  <1> QED
    BY <1>1, <1>5, <1>6, <1>8, <1>9, <1>10 DEF LimiterInv

(* r is counted in the process. *)
LEMMA BucketKeeps ==
  ASSUME LimiterInv, NEW r \in Requests, Bucket(r)
  PROVE  LimiterInv'
  <1> DEFINE fresh == current = 0 \/ clock > buckets[current].resetAt
  <1>0. /\ LimiterTypeOK /\ PlacesInv /\ CountedInv /\ SetsInv /\ CountsInv /\ RefusedInv /\ WindowsEnd
        /\ req \in [Requests -> RequestStates] /\ req[r].pc = "bucket"
        /\ UNCHANGED <<clock, counter, unset>>
    BY DEF LimiterInv, LimiterTypeOK, Bucket
  <1>1. LimiterTypeOK'
    BY <1>0, LimiterType DEF Limiter
  <1>2. PICK i \in Nat, n \in Nat, before \in Nat, w \in Windows :
          /\ i = IF fresh THEN Len(buckets) + 1 ELSE current
          /\ before = IF fresh THEN 0 ELSE buckets[i].count
          /\ n = before + 1 /\ w = BucketWindow(i)
    <2>1. ~fresh => current \in DOMAIN buckets /\ buckets[current].count \in Nat
      BY <1>0, BucketCounts DEF LimiterTypeOK
    <2> DEFINE j == IF fresh THEN Len(buckets) + 1 ELSE current
               b == IF fresh THEN 0 ELSE buckets[j].count
    <2>2. j \in Nat /\ b \in Nat /\ b + 1 \in Nat
      BY <1>0, <2>1 DEF LimiterTypeOK
    <2>3. BucketWindow(j) \in Windows
      BY <2>2, WindowsDiffer
    <2> HIDE DEF j, b
    <2> QED
      BY <2>2, <2>3 DEF j, b
  <1>3. /\ buckets' = IF fresh THEN Append(buckets, [count |-> 1, resetAt |-> clock + Window])
                               ELSE [buckets EXCEPT ![i].count = n]
        /\ counted' = counted \cup {[in |-> w, who |-> r, times |-> 1]}
        /\ req' = [req EXCEPT ![r].pc = "compare", ![r].via = w, ![r].n = n]
    BY <1>2 DEF Bucket
  <1>4. /\ i \in DOMAIN buckets' /\ buckets'[i].count = n /\ n > 0
        /\ \A j \in DOMAIN buckets : /\ j \in DOMAIN buckets' /\ buckets'[j].count >= buckets[j].count
                                     /\ j # i => buckets'[j] = buckets[j]
        /\ \A j \in DOMAIN buckets' : j \in DOMAIN buckets \/ j = i
    <2>1. \A j \in DOMAIN buckets : j \in Nat /\ buckets[j].count \in Nat /\ buckets[j] \in Buckets
      BY <1>0, BucketCounts DEF LimiterTypeOK
    <2>2. CASE fresh
      <3>1. buckets' = Append(buckets, [count |-> 1, resetAt |-> clock + Window])
        BY <1>3, <2>2
      <3>2. buckets \in Seq(Buckets) /\ i = Len(buckets) + 1 /\ n = 1
        BY <1>0, <1>2, <2>2 DEF LimiterTypeOK
      <3>3. /\ Len(buckets') = Len(buckets) + 1 /\ DOMAIN buckets' = 1..(Len(buckets) + 1)
            /\ buckets'[i] = [count |-> 1, resetAt |-> clock + Window]
            /\ \A j \in 1..Len(buckets) : buckets'[j] = buckets[j]
        BY <3>1, <3>2
      <3>4. DOMAIN buckets = 1..Len(buckets) /\ Len(buckets) \in Nat
        BY <3>2
      <3> QED
        BY <2>1, <3>2, <3>3, <3>4
    <2>3. CASE ~fresh
      <3>1. buckets' = [buckets EXCEPT ![i].count = n] /\ i \in DOMAIN buckets /\ n = buckets[i].count + 1
        BY <1>0, <1>2, <1>3, <2>3 DEF LimiterTypeOK
      <3>2. buckets'[i] = [buckets[i] EXCEPT !.count = n] /\ DOMAIN buckets' = DOMAIN buckets
            /\ \A j \in DOMAIN buckets : j # i => buckets'[j] = buckets[j]
        BY <3>1
      <3>3. buckets'[i].count = n
        BY <2>1, <3>1, <3>2 DEF Buckets
      <3> QED
        BY <2>1, <3>1, <3>2, <3>3
    <2> QED
      BY <2>2, <2>3
  <1>5. Counts(w, before)
    <2>1. CASE fresh
      <3>1. ~Opened(w)
        BY <1>0, <1>2, <2>1, WindowsDiffer DEF Opened, LimiterTypeOK, Counters
      <3> QED
        BY <1>2, <2>1, <3>1, NewWindow
    <2>2. CASE ~fresh
      BY <1>0, <1>2, <2>2 DEF CountsInv, LimiterTypeOK
    <2> QED
      BY <2>1, <2>2
  <1>6. req[r].via = Nil /\ req[r].ans = "none" /\ \A k \in counted : k.who = r => k.in[1] = "redis"
    BY <1>0 DEF PlacesInv, Place, CountedInv
  <1>7. r \notin Who(w) /\ w[1] = "process"
    BY <1>2, <1>6, WindowsDiffer DEF Who
  <1>8. /\ \A q \in Requests \ {r} : req'[q] = req[q]
        /\ req'[r].via = w /\ req'[r].pc = "compare" /\ req'[r].ans = "none" /\ req'[r].n = n
    BY <1>0, <1>3, <1>6 DEF RequestStates
  <1>9. IsTold(r, w, before + 1)
    BY <1>2, <1>8 DEF IsTold
  <1>10. /\ SetsInv' /\ RefusedInv' /\ Counts(w, n)'
         /\ \A v \in Windows \ {w} : \A m : Counts(v, m) => Counts(v, m)'
    <2>1. 1 \in 1..2
      OBVIOUS
    <2>2. /\ SetsInv' /\ RefusedInv' /\ Counts(w, before + 1)'
          /\ \A v \in Windows \ {w} : \A m : Counts(v, m) => Counts(v, m)'
      BY <1>3, <1>5, <1>6, <1>7, <1>9, <2>1, ToldKeeps
    <2> QED
      BY <1>2, <2>2
  <1>11. PlacesInv'
    <2>1. ASSUME NEW q \in Requests \ {r}
          PROVE  Place(q)'
      <3>1. counter'.life >= counter.life
        BY <1>0 DEF LimiterTypeOK, Counters
      <3> QED
        BY <1>0, <1>1, <1>4, <1>8, <3>1, PlaceStays DEF PlacesInv
    <2>2. Place(r)'
      <3>1. w # Nil /\ n \in 1..buckets'[i].count
        BY <1>4, WindowsDiffer
      <3> QED
        BY <1>2, <1>4, <1>8, <3>1 DEF Place
    <2> QED
      BY <2>1, <2>2 DEF PlacesInv
  <1>12. CountedInv'
    <2>1. \A v : Opened(v) => Opened(v)'
      BY <1>0, <1>4 DEF Opened
    <2>2. Opened(w)'
      BY <1>2, <1>4 DEF Opened
    <2>3. PICK new \in counted' : new = [in |-> w, who |-> r, times |-> 1]
      BY <1>3
    <2>4. new.in = w /\ new.who = r /\ new.times = 1
      BY <2>3
    <2>5. \A k \in counted' : k \in counted \/ k = new
      BY <1>3, <2>3
    <2>6. \A k \in counted' : Opened(k.in)' /\ (k.in[1] = "process" => k.times = 1)
      BY <1>0, <2>1, <2>2, <2>4, <2>5 DEF CountedInv
    <2>7. \A q \in Requests : req'[q].via # Nil => \E k \in counted' : k.who = q /\ k.in = req'[q].via
      <3>1. ASSUME NEW q \in Requests \ {r}, req'[q].via # Nil
            PROVE  \E k \in counted' : k.who = q /\ k.in = req'[q].via
        BY <1>0, <1>3, <1>8, <3>1 DEF CountedInv
      <3> QED
        BY <1>8, <2>4, <3>1
    <2>8. \A k \in counted' : req'[k.who].pc # "new" /\ (req'[k.who].pc = "bucket" => k.in[1] = "redis")
      <3>1. \A k \in counted : k.who \in Requests
        BY <1>0 DEF LimiterTypeOK
      <3> QED
        BY <1>0, <1>8, <2>4, <2>5, <3>1 DEF CountedInv
    <2> QED
      BY <2>6, <2>7, <2>8 DEF CountedInv
  <1>13. CountsInv'
    <2>1. counter'.count > 0 => counter'.life > 0 /\ Counts(RedisWindow(counter.life), counter.count)'
      <3>1. PICK v, m : v = RedisWindow(counter.life) /\ m = counter.count
        OBVIOUS
      <3>2. v \in Windows \ {w}
        BY <1>0, <1>2, <3>1, WindowsDiffer DEF LimiterTypeOK, Counters
      <3>3. counter.count > 0 => counter.life > 0 /\ Counts(v, m)'
        BY <1>0, <1>10, <3>1, <3>2 DEF CountsInv
      <3> QED
        BY <1>0, <3>1, <3>3 DEF Counts, Told, Who, Repeated
    <2>2. ASSUME NEW j \in DOMAIN buckets'
          PROVE  Counts(BucketWindow(j), buckets[j].count)'
      <3>1. CASE j = i
        BY <1>2, <1>4, <1>10, <3>1 DEF Counts, Told, Who, Repeated
      <3>2. CASE j # i
        <4>1. j \in DOMAIN buckets /\ buckets'[j] = buckets[j] /\ BucketWindow(j) \in Windows \ {w}
          BY <1>0, <1>2, <1>4, <3>2, WindowsDiffer DEF LimiterTypeOK
        <4>2. PICK m : m = buckets[j].count
          OBVIOUS
        <4>3. Counts(BucketWindow(j), m)'
          BY <1>0, <1>10, <4>1, <4>2 DEF CountsInv
        <4> QED
          BY <4>1, <4>2, <4>3 DEF Counts, Told, Who, Repeated
      <3> QED
        BY <3>1, <3>2
    <2> QED
      BY <2>1, <2>2 DEF CountsInv
  <1>14. WindowsEnd'
    <2> DEFINE v == RedisWindow(counter.life)
    <2>1. v # Nil /\ v # w
      BY <1>0, <1>2, WindowsDiffer DEF LimiterTypeOK, Counters
    <2>2. \A q \in Requests : req[q].via = v => req'[q] = req[q]
      BY <1>6, <1>8, <2>1
    <2>3. \A q \in Requests : req[q].via # v => req'[q].via # v
      BY <1>8, <2>1
    <2>4. \A k \in counted : k.who \in Requests /\ k \in counted'
      BY <1>0, <1>3 DEF LimiterTypeOK
    <2> HIDE DEF v
    <2> QED
      BY <1>0, <2>2, <2>3, <2>4 DEF WindowsEnd, v
  <1> QED
    BY <1>1, <1>10, <1>11, <1>12, <1>13, <1>14 DEF LimiterInv

(* r reads a count that is at least the number it was given. *)
LEMMA CompareKeeps ==
  ASSUME LimiterInv, NEW r \in Requests, Compare(r)
  PROVE  LimiterInv'
  <1>0. /\ LimiterTypeOK /\ PlacesInv /\ CountedInv /\ SetsInv /\ CountsInv /\ RefusedInv /\ WindowsEnd
        /\ req \in [Requests -> RequestStates] /\ req[r].pc = "compare"
        /\ UNCHANGED <<clock, counter, buckets, current, counted, unset>>
    BY DEF LimiterInv, LimiterTypeOK, Compare, limiterVars
  <1>1. LimiterTypeOK'
    BY <1>0, LimiterType DEF Limiter
  <1>2. PICK i \in DOMAIN buckets : req[r].via = BucketWindow(i) /\ req[r].n \in 1..buckets[i].count
    BY <1>0 DEF PlacesInv, Place
  <1>3. i \in Nat /\ buckets[i].count \in Nat /\ req[r].ans = "none"
    BY <1>0, BucketCounts DEF LimiterTypeOK, PlacesInv, Place
  <1>4. PICK w \in Windows : w = BucketWindow(i) /\ w[1] = "process" /\ w[2] = i
    BY <1>3, WindowsDiffer DEF BucketWindow
  <1>5. PICK n \in req[r].n .. buckets[i].count : Decide(r, w, n)
    BY <1>2, <1>4 DEF Compare
  <1>6. n \in Nat /\ req[r].n =< n /\ n =< buckets[i].count
    BY <1>2, <1>3, <1>5
  <1>7. /\ \A q \in Requests \ {r} : req'[q] = req[q]
        /\ req'[r].via = w /\ req'[r].n = 0
        /\ \/ req'[r].pc = "admitted" /\ req'[r].ans = "none" /\ n =< Limit
           \/ req'[r].pc = "done" /\ req'[r].ans = "limited" /\ n > Limit
    BY <1>0, <1>5, <1>6, DecideTells
  <1>8. req[r].via = w /\ w # Nil
    BY <1>2, <1>4, WindowsDiffer
  <1>9. PlacesInv'
    <2>1. ASSUME NEW q \in Requests \ {r}
          PROVE  Place(q)'
      <3>1. counter'.life >= counter.life /\ \A j \in DOMAIN buckets : buckets'[j].count >= buckets[j].count
        BY <1>0, BucketCounts DEF LimiterTypeOK, Counters
      <3> QED
        BY <1>0, <1>1, <1>7, <3>1, PlaceStays DEF PlacesInv
    <2>2. Place(r)'
      BY <1>7, <1>8 DEF Place
    <2> QED
      BY <2>1, <2>2 DEF PlacesInv
  <1>10. CountedInv'
    BY <1>0, <1>7, <1>8, CountedStays
  <1>11. \A v \in Windows : Claimed(v)' \subseteq Claimed(v)
    <2> SUFFICES ASSUME NEW v \in Windows, NEW q \in Claimed(v)'
                 PROVE  q \in Claimed(v)
      OBVIOUS
    <2>1. CASE q = r
      <3>1. req'[r].ans # "limited" /\ v = w
        BY <1>7, <2>1 DEF Claimed, Told
      <3>2. req[r].n =< Limit
        BY <1>2, <1>3, <1>6, <1>7, <3>1, LimitAssumption
      <3> QED
        BY <1>3, <1>8, <2>1, <3>1, <3>2 DEF Claimed, Told
    <2>2. CASE q # r
      BY <1>7, <2>2 DEF Claimed, Told
    <2> QED
      BY <2>1, <2>2
  <1>12. req'[r].ans = "limited" => Full(r, w)
    <2>1. SUFFICES ASSUME n > Limit PROVE Full(r, w)
      BY <1>7
    <2>2. CASE Repeated(w)
      BY <2>2 DEF Full
    <2>3. CASE buckets[i].count =< Cardinality(Who(w))
      <3>1. r \in Who(w) /\ IsFiniteSet(Who(w))
        BY <1>0, <1>8 DEF Who, CountedInv, SetsInv
      <3>2. Cardinality(Who(w) \ {r}) = Cardinality(Who(w)) - 1 /\ Cardinality(Who(w)) \in Nat
        BY <3>1, TakeOne, FS_CardinalityType
      <3>3. Cardinality(Who(w) \ {r}) >= Limit
        BY <1>3, <1>6, <2>1, <2>3, <3>2, LimitAssumption
      <3> QED
        BY <3>3 DEF Full
    <2> QED
      BY <1>0, <1>4, <2>2, <2>3 DEF CountsInv, Counts
  <1>13. SetsInv' /\ RefusedInv' /\ \A v \in Windows : \A m : Counts(v, m) => Counts(v, m)'
    BY <1>0, <1>7, <1>8, <1>11, <1>12, SetsStay
  <1>14. CountsInv'
    BY <1>0, <1>13, CountsStay
  <1>15. WindowsEnd'
    <2> DEFINE v == RedisWindow(counter.life)
    <2>1. v # w
      BY <1>0, <1>3, <1>4, WindowsDiffer DEF LimiterTypeOK, Counters
    <2>2. \A q \in Requests : req[q].via = v => req'[q] = req[q]
      BY <1>7, <1>8, <2>1
    <2>3. \A q \in Requests : req'[q].via = req[q].via
      BY <1>7, <1>8
    <2>4. \A k \in counted : k.who \in Requests
      BY <1>0 DEF LimiterTypeOK
    <2> HIDE DEF v
    <2> QED
      BY <1>0, <2>2, <2>3, <2>4 DEF WindowsEnd, v
  <1> QED
    BY <1>1, <1>9, <1>10, <1>13, <1>14, <1>15 DEF LimiterInv

(* Time passes; the counter may end. *)
LEMMA TickKeeps ==
  ASSUME LimiterInv, Tick
  PROVE  LimiterInv'
  <1>0. /\ LimiterTypeOK /\ PlacesInv /\ CountedInv /\ SetsInv /\ CountsInv /\ RefusedInv /\ WindowsEnd
        /\ UNCHANGED <<buckets, current, counted, unset, req>>
    BY DEF LimiterInv, Tick
  <1>1. /\ counter \in Counters /\ counter' \in Counters
        /\ counter'.life = counter.life /\ counter'.count \in {0, counter.count}
        /\ counter' = counter \/ counter'.count = 0
    BY <1>0 DEF Tick, LimiterTypeOK, Counters
  <1>2. LimiterTypeOK'
    BY <1>0, <1>1, LimitAssumption DEF Tick, LimiterTypeOK
  <1>3. PlacesInv'
    <2>1. counter'.life >= counter.life /\ \A j \in DOMAIN buckets : buckets'[j].count >= buckets[j].count
      BY <1>0, <1>1, BucketCounts DEF LimiterTypeOK, Counters
    <2> QED
      BY <1>0, <1>2, <2>1, PlaceStays DEF PlacesInv
  <1>4. CountedInv'
    BY <1>0, <1>1 DEF CountedInv, Opened
  <1>5. SetsInv' /\ RefusedInv' /\ \A v \in Windows : \A m : Counts(v, m) => Counts(v, m)'
    <2>1. \A v \in Windows : Claimed(v)' \subseteq Claimed(v)
      BY <1>0 DEF Claimed, Told
    <2> QED
      BY <1>0, <2>1, SetsStay
  <1>6. CountsInv'
    BY <1>0, <1>1, <1>5, CountsStay
  <1>7. WindowsEnd'
    BY <1>0, <1>1 DEF WindowsEnd
  <1> QED
    BY <1>2, <1>3, <1>4, <1>5, <1>6, <1>7 DEF LimiterInv

(* What is done behind the limiter: requests that were let through move on, and those in *)
(* flight may die.                                                                       *)
Behind ==
  /\ UNCHANGED <<counter, buckets, counted, unset>>
  /\ \A q \in Requests : \/ req'[q] = req[q]
                         \/ /\ req[q].pc \notin {"new", "done"}
                            /\ req'[q].via = req[q].via /\ req'[q].n = req[q].n
                            /\ \/ req'[q].pc = "done" /\ req'[q].ans = "dead"
                               \/ /\ req[q].pc \notin {"expire", "bucket", "compare"}
                                  /\ req'[q].pc \notin {"new", "expire", "bucket", "compare"}
                                  /\ req'[q].ans # "limited"
                                  /\ req'[q].pc # "done" => req'[q].ans = "none"

LEMMA BehindKeeps ==
  ASSUME LimiterInv, LimiterTypeOK', Behind
  PROVE  LimiterInv'
  <1>0. /\ LimiterTypeOK /\ PlacesInv /\ CountedInv /\ SetsInv /\ CountsInv /\ RefusedInv /\ WindowsEnd
        /\ UNCHANGED <<counter, buckets, counted, unset>>
    BY DEF LimiterInv, Behind
  <1>1. \A q \in Requests : req'[q].via = req[q].via /\ req'[q].n = req[q].n
    BY DEF Behind
  <1>2. PlacesInv'
    <2> SUFFICES ASSUME NEW q \in Requests PROVE Place(q)'
      BY DEF PlacesInv
    <2>1. CASE req'[q] = req[q]
      BY <1>0, <2>1 DEF PlacesInv, Place
    <2>2. CASE req'[q] # req[q]
      BY <1>0, <1>1, <2>2 DEF PlacesInv, Place, Behind
    <2> QED
      BY <2>1, <2>2
  <1>3. CountedInv'
    <2>1. \A k \in counted : k.who \in Requests
      BY <1>0 DEF LimiterTypeOK
    <2>2. \A k \in counted : /\ req'[k.who].pc # "new"
                             /\ req'[k.who].pc = "bucket" => k.in[1] = "redis"
      BY <1>0, <2>1 DEF CountedInv, Behind
    <2> QED
      BY <1>0, <1>1, <2>2 DEF CountedInv, Opened
  <1>4. \A v \in Windows : Claimed(v)' \subseteq Claimed(v)
    <2> SUFFICES ASSUME NEW v \in Windows, NEW q \in Claimed(v)'
                 PROVE  q \in Claimed(v)
      OBVIOUS
    <2>1. q \in Requests /\ q \in Told(v) /\ req'[q].ans \notin {"limited", "dead"}
      BY <1>1 DEF Claimed, Told
    <2>2. CASE req'[q] = req[q]
      BY <2>1, <2>2 DEF Claimed
    <2>3. CASE req'[q] # req[q]
      <3>1. req[q].pc \notin {"new", "done", "compare"}
        BY <2>1, <2>3 DEF Behind
      <3>2. req[q].ans = "none"
        BY <1>0, <2>1, <3>1 DEF PlacesInv, Place
      <3> QED
        BY <2>1, <3>1, <3>2 DEF Claimed
    <2> QED
      BY <2>2, <2>3
  <1>5. SetsInv' /\ RefusedInv' /\ \A v \in Windows : \A m : Counts(v, m) => Counts(v, m)'
    <2>1. \A q \in Requests : req'[q].ans = "limited" => req[q].ans = "limited"
      BY DEF Behind
    <2> QED
      BY <1>0, <1>1, <1>4, <2>1, SetsStay
  <1>6. CountsInv'
    <2>1. counter'.count \in {0, counter.count}
      BY <1>0
    <2> QED
      BY <1>0, <1>5, <2>1, CountsStay
  <1>7. WindowsEnd'
    <2>1. \A k \in counted : k.who \in Requests
      BY <1>0 DEF LimiterTypeOK
    <2> QED
      BY <1>0, <1>1, <2>1 DEF WindowsEnd
  <1> QED
    BY <1>2, <1>3, <1>5, <1>6, <1>7 DEF LimiterInv

-----------------------------------------------------------------------------
(* The feed: the snapshots read, less the one that waits and those in the channel, have *)
(* been sent; the channel holds the next ones, without a gap.                           *)
LastSent == snapshots - (IF pending THEN 1 ELSE 0) - Len(broadcast)

QueueInv == /\ pending => snapshots > 0
            /\ \A j \in DOMAIN broadcast : broadcast[j] = LastSent + j
WalkInv  == Walking => walk.snapshot = LastSent
GotInv   == \A r \in clients :
              got[r] = 0 \/ got[r] = IF r \in walk.todo THEN LastSent - 1 ELSE LastSent
NewcomerInv == \A r \in Requests :
  req[r].pc \notin {"reading", "leaving", "done"} => got[r] = 0 /\ r \notin clients

HubInv == HubTypeOK /\ QueueInv /\ WalkInv /\ GotInv /\ NewcomerInv

LEMMA LastSentType ==
  ASSUME HubTypeOK
  PROVE  LastSent \in Int /\ snapshots \in Nat /\ Len(broadcast) \in Nat
  BY HubAssumption DEF HubTypeOK, LastSent

(* The snapshots are read and published. *)
LEMMA PublisherKeeps ==
  ASSUME HubInv, ReadStations \/ Publish, UNCHANGED req
  PROVE  HubInv'
  <1>0. HubTypeOK /\ QueueInv /\ WalkInv /\ GotInv /\ NewcomerInv /\ UNCHANGED <<clients, walk, got>>
    BY DEF HubInv, ReadStations, Publish
  <1>1. CASE ReadStations
    <2>1. ~pending /\ pending' /\ snapshots' = snapshots + 1 /\ UNCHANGED broadcast /\ snapshots < MaxSnapshots
          /\ pending' \in BOOLEAN
      BY <1>1 DEF ReadStations
    <2>2. HubTypeOK' /\ snapshots' > 0
      BY <1>0, <2>1, HubAssumption DEF HubTypeOK
    <2>3. LastSent' = LastSent
      BY <1>0, <2>1, LastSentType DEF LastSent
    <2> QED
      BY <1>0, <2>1, <2>2, <2>3 DEF HubInv, QueueInv, WalkInv, GotInv, NewcomerInv, Walking
  <1>2. CASE Publish
    <2>1. /\ pending /\ ~pending' /\ broadcast' = Append(broadcast, snapshots) /\ UNCHANGED snapshots
          /\ Len(broadcast) < Capacity /\ pending' \in BOOLEAN
      BY <1>2 DEF Publish
    <2>2. broadcast \in Seq(1..MaxSnapshots) /\ snapshots \in 1..MaxSnapshots /\ Len(broadcast) \in Nat
      BY <1>0, <2>1 DEF HubTypeOK, QueueInv
    <2>3. /\ broadcast' \in Seq(1..MaxSnapshots) /\ Len(broadcast') = Len(broadcast) + 1
          /\ DOMAIN broadcast' = 1..(Len(broadcast) + 1)
          /\ broadcast'[Len(broadcast) + 1] = snapshots
          /\ \A j \in 1..Len(broadcast) : broadcast'[j] = broadcast[j]
      BY <2>1, <2>2
    <2>4. HubTypeOK'
      BY <1>0, <2>1, <2>2, <2>3, HubAssumption DEF HubTypeOK
    <2>5. LastSent' = LastSent /\ LastSent + (Len(broadcast) + 1) = snapshots
      BY <1>0, <2>1, <2>2, <2>3 DEF LastSent
    <2>6. \A j \in DOMAIN broadcast' : broadcast'[j] = LastSent' + j
      <3>1. DOMAIN broadcast = 1..Len(broadcast)
        BY <2>2
      <3> QED
        BY <1>0, <2>2, <2>3, <2>5, <3>1 DEF QueueInv
    <2> QED
      BY <1>0, <2>1, <2>2, <2>4, <2>5, <2>6 DEF HubInv, QueueInv, WalkInv, GotInv, NewcomerInv, Walking
  <1> QED
    BY <1>1, <1>2

(* The next snapshot goes to those who are there. *)
LEMMA ReceiveKeeps ==
  ASSUME HubInv, Receive, UNCHANGED req
  PROVE  HubInv'
  <1>0. /\ HubTypeOK /\ QueueInv /\ WalkInv /\ GotInv /\ NewcomerInv
        /\ UNCHANGED <<clients, snapshots, pending, got>>
        /\ walk.todo = {} /\ broadcast # <<>>
        /\ walk' = [snapshot |-> Head(broadcast), todo |-> clients] /\ broadcast' = Tail(broadcast)
    BY DEF HubInv, Receive, Walking
  <1>1. broadcast \in Seq(1..MaxSnapshots) /\ Len(broadcast) \in Nat \ {0}
    BY <1>0 DEF HubTypeOK
  <1>2. /\ Head(broadcast) = broadcast[1] /\ Head(broadcast) \in 1..MaxSnapshots
        /\ broadcast' \in Seq(1..MaxSnapshots) /\ Len(broadcast') = Len(broadcast) - 1
        /\ \A j \in 1..Len(broadcast') : broadcast'[j] = broadcast[j + 1]
        /\ DOMAIN broadcast = 1..Len(broadcast) /\ DOMAIN broadcast' = 1..Len(broadcast')
    <2>1. Head(broadcast) = broadcast[1] /\ broadcast[1] \in 1..MaxSnapshots
      <3>1. 1 \in 1..Len(broadcast)
        BY <1>1
      <3>2. Head(broadcast) = broadcast[1]
        OBVIOUS
      <3>3. broadcast[1] \in 1..MaxSnapshots
        BY <1>1, <3>1, ElementOfSeq
      <3> QED
        BY <3>2, <3>3
    <2>2. broadcast' \in Seq(1..MaxSnapshots) /\ Len(broadcast') = Len(broadcast) - 1
      BY <1>0, <1>1
    <2>3. \A j \in 1..Len(broadcast') : broadcast'[j] = broadcast[j + 1]
      BY <1>0, <1>1
    <2>4. DOMAIN broadcast = 1..Len(broadcast) /\ DOMAIN broadcast' = 1..Len(broadcast')
      BY <1>1, <2>2
    <2> QED
      BY <2>1, <2>2, <2>3, <2>4
  <1>3. LastSent' = LastSent + 1 /\ LastSent \in Int
    BY <1>0, <1>1, <1>2, LastSentType DEF LastSent
  <1>4. HubTypeOK'
    <2>1. walk' \in [snapshot : 0..MaxSnapshots, todo : SUBSET clients']
      BY <1>0, <1>2, HubAssumption
    <2>2. Len(broadcast') =< Capacity
      BY <1>0, <1>1, <1>2, HubAssumption DEF HubTypeOK
    <2> QED
      BY <1>0, <1>2, <2>1, <2>2 DEF HubTypeOK
  <1>5. \A j \in DOMAIN broadcast' : broadcast'[j] = LastSent' + j
    BY <1>0, <1>1, <1>2, <1>3 DEF QueueInv
  <1>6. walk'.snapshot = LastSent' /\ walk'.todo = clients
    BY <1>0, <1>1, <1>2, <1>3 DEF QueueInv
  <1>7. GotInv'
    BY <1>0, <1>3, <1>6 DEF GotInv
  <1> QED
    BY <1>0, <1>4, <1>5, <1>6, <1>7 DEF HubInv, QueueInv, WalkInv, NewcomerInv

(* One client is sent the snapshot, or taken off the map. *)
LEMMA WriteKeeps ==
  ASSUME HubInv, NEW r \in Requests, Write(r), UNCHANGED req
  PROVE  HubInv' /\ \A q \in Requests : got'[q] # got[q] => got[q] = 0 \/ got'[q] = got[q] + 1
  <1>0. /\ HubTypeOK /\ QueueInv /\ WalkInv /\ GotInv /\ NewcomerInv
        /\ UNCHANGED <<broadcast, snapshots, pending>>
        /\ r \in walk.todo /\ r \in clients
        /\ walk \in [snapshot : 0..MaxSnapshots, todo : SUBSET clients]
        /\ got \in [Requests -> 0..MaxSnapshots]
    BY DEF HubInv, Write, HubTypeOK
  <1>1. /\ walk' = [snapshot |-> walk.snapshot, todo |-> walk.todo \ {r}]
        /\ walk'.snapshot = walk.snapshot /\ walk'.todo = walk.todo \ {r}
    BY <1>0 DEF Write
  <1>2. /\ LastSent' = LastSent /\ LastSent \in Int /\ walk.snapshot = LastSent
        /\ walk.snapshot \in 0..MaxSnapshots
    BY <1>0, LastSentType DEF LastSent, WalkInv, Walking
  <1>3. got[r] = 0 \/ got[r] = LastSent - 1
    BY <1>0 DEF GotInv
  <1>4. CASE got' = [got EXCEPT ![r] = walk.snapshot] /\ UNCHANGED clients
    <2>1. got' \in [Requests -> 0..MaxSnapshots] /\ got'[r] = LastSent
          /\ \A q \in Requests \ {r} : got'[q] = got[q]
      BY <1>0, <1>2, <1>4
    <2>2. HubTypeOK'
      BY <1>0, <1>1, <1>4, <2>1 DEF HubTypeOK
    <2>3. GotInv'
      BY <1>0, <1>1, <1>2, <1>4, <2>1 DEF GotInv, HubTypeOK
    <2>4. NewcomerInv'
      BY <1>0, <1>4, <2>1 DEF NewcomerInv
    <2>5. \A q \in Requests : got'[q] # got[q] => got[q] = 0 \/ got'[q] = got[q] + 1
      BY <1>2, <1>3, <2>1
    <2> QED
      BY <1>0, <1>1, <1>2, <2>2, <2>3, <2>4, <2>5 DEF HubInv, QueueInv, WalkInv, Walking
  <1>5. CASE clients' = clients \ {r} /\ UNCHANGED got
    <2>1. HubTypeOK'
      BY <1>0, <1>1, <1>5 DEF HubTypeOK
    <2>2. GotInv'
      BY <1>0, <1>1, <1>2, <1>5 DEF GotInv
    <2> QED
      BY <1>0, <1>1, <1>2, <1>5, <2>1, <2>2 DEF HubInv, QueueInv, WalkInv, NewcomerInv, Walking
  <1> QED
    BY <1>4, <1>5 DEF Write

(* A connection joins and leaves. *)
LEMMA ConnectionKeeps ==
  ASSUME HubInv, LimiterTypeOK, NEW r \in Requests, Connection(r)
  PROVE  HubInv' /\ UNCHANGED got
  <1>0. /\ HubTypeOK /\ QueueInv /\ WalkInv /\ GotInv /\ NewcomerInv
        /\ UNCHANGED <<broadcast, snapshots, pending, got>>
        /\ req \in [Requests -> RequestStates]
        /\ walk \in [snapshot : 0..MaxSnapshots, todo : SUBSET clients]
        /\ LastSent' = LastSent
    BY DEF HubInv, HubTypeOK, LimiterTypeOK, Connection, Join, ReadFails, Leave, hubVars, LastSent
  <1>1. \A q \in Requests \ {r} : req'[q] = req[q]
    BY <1>0 DEF Connection, Join, ReadFails, Leave, Goto, Answer
  <1>2. CASE Join(r)
    <2>1. req'[r].pc = "reading"
      BY <1>0, <1>2 DEF Join, Goto, RequestStates
    <2>2. got[r] = 0 /\ clients' = clients \cup {r}
      BY <1>0, <1>2 DEF Join, NewcomerInv
    <2>3. NewcomerInv'
      BY <1>0, <1>1, <2>1, <2>2 DEF NewcomerInv
    <2>4. CASE walk' = [walk EXCEPT !.todo = @ \cup {r}] /\ Walking
      <3>1. /\ walk' = [snapshot |-> walk.snapshot, todo |-> walk.todo \cup {r}]
            /\ walk'.snapshot = walk.snapshot /\ walk'.todo = walk.todo \cup {r}
        BY <1>0, <2>4
      <3>2. HubTypeOK'
        BY <1>0, <2>2, <3>1 DEF HubTypeOK
      <3>3. GotInv'
        BY <1>0, <2>2, <3>1 DEF GotInv
      <3> QED
        BY <1>0, <2>3, <2>4, <3>1, <3>2, <3>3 DEF HubInv, QueueInv, WalkInv, Walking
    <2>5. CASE UNCHANGED walk
      <3>1. HubTypeOK'
        BY <1>0, <2>2, <2>5 DEF HubTypeOK
      <3>2. GotInv'
        BY <1>0, <2>2, <2>5 DEF GotInv
      <3> QED
        BY <1>0, <2>3, <2>5, <3>1, <3>2 DEF HubInv, QueueInv, WalkInv, Walking
    <2> QED
      BY <1>2, <2>4, <2>5 DEF Join
  <1>3. CASE ReadFails(r)
    <2>1. UNCHANGED hubVars /\ req'[r].pc = "leaving"
      BY <1>0, <1>3 DEF ReadFails, Goto, RequestStates
    <2>2. NewcomerInv'
      BY <1>0, <1>1, <2>1 DEF NewcomerInv, hubVars
    <2> QED
      BY <1>0, <2>1, <2>2 DEF HubInv, HubTypeOK, QueueInv, WalkInv, GotInv, Walking, hubVars
  <1>4. CASE Leave(r)
    <2>1. req'[r].pc = "done" /\ clients' = clients \ {r}
      BY <1>0, <1>4 DEF Leave, Answer, RequestStates
    <2>2. /\ walk' = [snapshot |-> walk.snapshot, todo |-> walk.todo \ {r}]
          /\ walk'.snapshot = walk.snapshot /\ walk'.todo = walk.todo \ {r}
      BY <1>0, <1>4 DEF Leave
    <2>3. HubTypeOK'
      BY <1>0, <2>1, <2>2 DEF HubTypeOK
    <2>4. GotInv'
      BY <1>0, <2>1, <2>2 DEF GotInv
    <2>5. NewcomerInv'
      BY <1>0, <1>1, <2>1 DEF NewcomerInv
    <2> QED
      BY <1>0, <2>2, <2>3, <2>4, <2>5 DEF HubInv, QueueInv, WalkInv, Walking
  <1> QED
    BY <1>0, <1>2, <1>3, <1>4 DEF Connection

-----------------------------------------------------------------------------
(* The process: the limiter, the feed and the audit log together. *)

(* A handler that panicked is done, and so is one that left an audit row, or about to be. *)
AuditInv ==
  /\ \A r \in Requests : req[r].panicked => req[r].pc = "done"
  /\ AuditFollowsChain

ServerInv == /\ LimiterInv /\ HubInv /\ AuditInv
             /\ process \in {"up", "stopping", "down"} /\ audited \subseteq Requests

LEMMA LetThroughIs ==
  ASSUME NEW r \in Requests
  PROVE  r \in LetThrough(req[r].via) <=> /\ req[r].ans \notin {"limited", "dead"}
                                          /\ req[r].pc \notin {"expire", "compare"}
  BY DEF LetThrough

(* A step that keeps the audit log, the counting, and the requests in it. *)
LEMMA AuditStays ==
  ASSUME AuditInv, NEW r \in Requests, \A q \in Requests \ {r} : req'[q] = req[q],
         r \notin audited, req'[r].panicked => req'[r].pc = "done",
         UNCHANGED audited, counted \subseteq counted', audited \subseteq Requests
  PROVE  AuditInv'
  <1>1. \A q \in audited : q \in Requests /\ req'[q] = req[q]
    OBVIOUS
  <1>2. \A q \in audited : q \in LetThrough(req[q].via)' <=> q \in LetThrough(req[q].via)
    BY <1>1 DEF LetThrough
  <1> QED
    BY <1>1, <1>2 DEF AuditInv, AuditFollowsChain

LEMMA ServerTypes ==
  ASSUME ServerInv
  PROVE  /\ LimiterInv /\ HubInv /\ AuditInv /\ LimiterTypeOK /\ HubTypeOK
         /\ PlacesInv /\ CountedInv /\ AuditFollowsChain
         /\ req \in [Requests -> RequestStates] /\ audited \subseteq Requests
         /\ process \in {"up", "stopping", "down"}
  BY DEF ServerInv, LimiterInv, HubInv, AuditInv, LimiterTypeOK

(* A step of the limiter touches neither the feed nor the log. *)
LEMMA LimiterStepKeeps ==
  ASSUME ServerInv, NEW r \in Requests, Limiter(r), UNCHANGED <<hubVars, serverVars>>
  PROVE  ServerInv'
  <1>1. LimiterInv'
    BY ServerTypes, IncrKeeps, IncrFailsKeeps, ExpireKeeps, BucketKeeps, CompareKeeps DEF Limiter
  <1>2. req[r].pc \in {"new", "expire", "bucket", "compare"}
    BY ZenonT(30) DEF Limiter, Incr, IncrFails, Expire, Bucket, Compare
  <1>3. /\ \A q \in Requests \ {r} : req'[q] = req[q]
        /\ req'[r].panicked = req[r].panicked
    <2>1. ASSUME NEW w, NEW n, Decide(r, w, n)
          PROVE  /\ \A q \in Requests \ {r} : req'[q] = req[q]
                 /\ req'[r].panicked = req[r].panicked
      BY <2>1, ServerTypes DEF Decide, RequestStates
    <2>2. CASE Incr(r)
      <3>1. PICK w, n : \/ Decide(r, w, n)
                        \/ req' = [req EXCEPT ![r].pc = "expire", ![r].via = w, ![r].n = n]
        BY <2>2 DEF Incr
      <3> QED
        BY <2>1, <3>1, ServerTypes DEF RequestStates
    <2>3. CASE IncrFails(r)
      BY <2>3, ServerTypes DEF IncrFails, Goto, RequestStates
    <2>4. CASE Expire(r)
      BY <2>1, <2>4 DEF Expire
    <2>5. CASE Bucket(r)
      <3>1. PICK w, n : req' = [req EXCEPT ![r].pc = "compare", ![r].via = w, ![r].n = n]
        BY <2>5 DEF Bucket
      <3> QED
        BY <3>1, ServerTypes DEF RequestStates
    <2>6. CASE Compare(r)
      BY <2>1, <2>6 DEF Compare
    <2> QED
      BY <2>2, <2>3, <2>4, <2>5, <2>6 DEF Limiter
  <1>4. HubInv'
    <2>1. NewcomerInv'
      BY <1>2, <1>3, ServerTypes DEF HubInv, NewcomerInv, hubVars
    <2> QED
      BY <2>1, ServerTypes DEF HubInv, HubTypeOK, QueueInv, WalkInv, GotInv, Walking, LastSent, hubVars
  <1>5. AuditInv'
    <2>1. counted \subseteq counted'
      BY ZenonT(30) DEF Limiter, Incr, IncrFails, Expire, Bucket, Compare, Incremented, limiterVars
    <2>2. r \notin audited /\ ~req'[r].panicked
      BY <1>2, <1>3, ServerTypes DEF AuditInv, AuditFollowsChain
    <2> QED
      BY <1>3, <2>1, <2>2, ServerTypes, AuditStays DEF serverVars
  <1> QED
    BY <1>1, <1>4, <1>5, ServerTypes DEF ServerInv, serverVars

(* What a step behind the limiter does to its request. *)
MovesOn(r) ==
  /\ \A q \in Requests \ {r} : req'[q] = req[q]
  /\ req'[r].via = req[r].via /\ req'[r].n = req[r].n
  /\ req'[r].pc \in {"joining", "audit", "answer", "auditRefusal", "refusal", "reading", "leaving",
                     "done"}
  /\ req'[r].ans \in {"none", "ok", "forbidden", "error"}
  /\ req'[r].pc # "done" => req'[r].ans = "none"
  /\ req'[r].panicked => req'[r].pc = "done"

LEMMA GotoMovesOn ==
  ASSUME ServerInv, NEW r \in Requests, req[r].pc \notin {"new", "done"},
         NEW label \in {"joining", "audit", "answer", "auditRefusal", "refusal", "reading", "leaving"},
         Goto(r, label)
  PROVE  MovesOn(r) /\ req' \in [Requests -> RequestStates] /\ req'[r].pc = label
         /\ req'[r].ans = req[r].ans /\ ~req'[r].panicked
  <1>1. req[r].ans = "none" /\ ~req[r].panicked
    BY ServerTypes DEF PlacesInv, Place, AuditInv
  <1>2. req' \in [Requests -> RequestStates]
    BY ServerTypes, GotoType DEF Labels
  <1>3. req'[r] = [req[r] EXCEPT !.pc = label] /\ \A q \in Requests \ {r} : req'[q] = req[q]
    BY ServerTypes DEF Goto
  <1> QED
    BY <1>1, <1>2, <1>3, ServerTypes DEF MovesOn, RequestStates

LEMMA AnswerMovesOn ==
  ASSUME ServerInv, NEW r \in Requests, NEW what \in {"ok", "forbidden", "error"},
         Answer(r, what)
  PROVE  MovesOn(r) /\ req' \in [Requests -> RequestStates] /\ req'[r].pc = "done"
         /\ req'[r].ans = what /\ req'[r].panicked = req[r].panicked
  <1>1. req' \in [Requests -> RequestStates]
    BY ServerTypes, AnswerType DEF Answers
  <1>2. /\ req'[r] = [req[r] EXCEPT !.pc = "done", !.ans = what]
        /\ \A q \in Requests \ {r} : req'[q] = req[q]
    BY ServerTypes DEF Answer
  <1> QED
    BY <1>1, <1>2, ServerTypes DEF MovesOn, RequestStates

LEMMA PanicMovesOn ==
  ASSUME ServerInv, NEW r \in Requests, HandlePanic(r)
  PROVE  MovesOn(r) /\ req' \in [Requests -> RequestStates]
  <1>1. /\ DOMAIN req' = Requests /\ req' = [q \in Requests |-> req'[q]]
        /\ \A q \in Requests \ {r} : req'[q] = req[q]
    BY ServerTypes DEF HandlePanic
  <1>2. req'[r] = [pc |-> "done", ans |-> "error", via |-> req[r].via, n |-> req[r].n, panicked |-> TRUE]
    BY ServerTypes DEF HandlePanic, RequestStates
  <1>3. req'[r] \in RequestStates
    BY <1>2, ServerTypes DEF RequestStates, Labels, Answers
  <1>4. req' \in [Requests -> RequestStates]
    BY <1>1, <1>3, ServerTypes
  <1>5. MovesOn(r)
    <2>1. /\ req'[r].via = req[r].via /\ req'[r].n = req[r].n
          /\ req'[r].pc = "done" /\ req'[r].ans = "error"
      BY <1>2
    <2> QED
      BY <1>1, <2>1 DEF MovesOn
  <1> QED
    BY <1>4, <1>5

(* The limiter does not mind it. *)
LEMMA MovesOnKeeps ==
  ASSUME ServerInv, NEW r \in Requests, MovesOn(r), req' \in [Requests -> RequestStates],
         req[r].pc \notin {"new", "expire", "bucket", "compare", "done"}, UNCHANGED limiterVars
  PROVE  LimiterInv'
  <1>1. LimiterTypeOK'
    BY ServerTypes DEF LimiterTypeOK, limiterVars
  <1>2. Behind
    BY DEF Behind, MovesOn, limiterVars
  <1> QED
    BY <1>1, <1>2, ServerTypes, BehindKeeps

(* A step of a handler. *)
LEMMA HandleKeeps ==
  ASSUME ServerInv, NEW r \in Requests, Handle(r)
  PROVE  ServerInv' /\ UNCHANGED hubVars
  <1>1. /\ UNCHANGED <<limiterVars, hubVars, process>>
        /\ req[r].pc \in {"admitted", "audit", "answer", "auditRefusal", "refusal"}
    BY DEF Handle, HandlePlain, HandleWrite, Forbid, HandlePanic, Upgrade, Audit, SendAnswer, serverVars
  <1>2. MovesOn(r) /\ req' \in [Requests -> RequestStates]
    <2>1. CASE HandlePlain(r) \/ SendAnswer(r)
      BY <2>1, AnswerMovesOn DEF HandlePlain, SendAnswer
    <2>2. CASE HandleWrite(r) \/ Audit(r)
      BY <1>1, <2>2, GotoMovesOn DEF HandleWrite, Audit
    <2>3. CASE Forbid(r) \/ Upgrade(r)
      BY <1>1, <2>3, GotoMovesOn, AnswerMovesOn DEF Forbid, Upgrade
    <2>4. CASE HandlePanic(r)
      BY <2>4, PanicMovesOn
    <2> QED
      BY <2>1, <2>2, <2>3, <2>4 DEF Handle
  <1>3. LimiterInv'
    BY <1>1, <1>2, MovesOnKeeps
  <1>4. HubInv'
    <2>1. NewcomerInv'
      BY <1>1, <1>2, ServerTypes DEF HubInv, NewcomerInv, hubVars, MovesOn
    <2> QED
      BY <1>1, <2>1, ServerTypes DEF HubInv, HubTypeOK, QueueInv, WalkInv, GotInv, Walking, LastSent, hubVars
  <1>5. AuditInv' /\ audited' \subseteq Requests
    <2>1. CASE req[r].pc = "admitted"
      <3>1. r \notin audited /\ UNCHANGED audited /\ counted \subseteq counted'
        BY <1>1, <2>1, ServerTypes
           DEF AuditFollowsChain, Handle, HandlePlain, HandleWrite, Forbid, HandlePanic, Upgrade,
               Audit, SendAnswer, serverVars, limiterVars
      <3> QED
        BY <1>2, <3>1, ServerTypes, AuditStays DEF MovesOn
    <2>2. CASE Audit(r)
      <3>1. req'[r].pc \in {"answer", "refusal"} /\ req'[r].ans = "none" /\ ~req'[r].panicked
        BY <1>1, <1>2, <2>2, GotoMovesOn DEF Audit, MovesOn
      <3>2. req'[r].via = req[r].via /\ \E k \in counted' : k.who = r /\ k.in = req[r].via
        BY <1>1, <1>2, ServerTypes DEF MovesOn, PlacesInv, Place, CountedInv, limiterVars
      <3>3. \A q \in audited' : q \in Requests /\ (q # r => q \in audited /\ req'[q] = req[q])
        BY <1>2, <2>2, ServerTypes DEF Audit, MovesOn
      <3>4. r \in LetThrough(req[r].via)'
        BY <3>1 DEF LetThrough
      <3>5. \A q \in audited \ {r} : q \in LetThrough(req[q].via)' <=> q \in LetThrough(req[q].via)
        BY <3>3, <1>2, ServerTypes DEF LetThrough, MovesOn
      <3>6. ASSUME NEW q \in audited'
            PROVE  /\ q \in LetThrough(req[q].via)' \/ req'[q].ans = "dead"
                   /\ req'[q].pc \in {"answer", "refusal", "done"} /\ ~req'[q].panicked
                   /\ \E k \in counted' : k.who = q /\ k.in = req'[q].via
        <4>1. CASE q = r
          BY <3>1, <3>2, <3>4, <4>1 DEF LetThrough
        <4>2. CASE q # r
          BY <1>1, <3>3, <3>5, <3>6, <4>2, ServerTypes DEF AuditFollowsChain, limiterVars
        <4> QED
          BY <4>1, <4>2
      <3>7. AuditFollowsChain'
        BY <3>6 DEF AuditFollowsChain
      <3>8. \A q \in Requests : req'[q].panicked => req'[q].pc = "done"
        BY <1>2, ServerTypes DEF MovesOn, AuditInv
      <3> QED
        BY <3>3, <3>7, <3>8 DEF AuditInv
    <2>3. CASE SendAnswer(r)
      <3>1. /\ req'[r].pc = "done" /\ req'[r].ans \in {"ok", "forbidden"}
            /\ req'[r].panicked = req[r].panicked /\ UNCHANGED audited
        BY <2>3, AnswerMovesOn DEF SendAnswer, serverVars
      <3>2. \A q \in audited : /\ q \in Requests /\ req'[q].via = req[q].via
                               /\ q # r => req'[q] = req[q]
        BY <1>2, ServerTypes DEF MovesOn
      <3>3. ASSUME NEW q \in audited
            PROVE  /\ q \in LetThrough(req[q].via)' \/ req'[q].ans = "dead"
                   /\ req'[q].pc \in {"answer", "refusal", "done"} /\ ~req'[q].panicked
                   /\ \E k \in counted' : k.who = q /\ k.in = req'[q].via
        <4>1. \E k \in counted' : k.who = q /\ k.in = req'[q].via
          BY <1>1, <3>2, <3>3, ServerTypes DEF AuditFollowsChain, limiterVars
        <4>2. CASE q = r
          <5>1. r \in LetThrough(req[r].via)'
            BY <3>1 DEF LetThrough
          <5>2. ~req'[r].panicked
            BY <3>1, <3>3, <4>2, ServerTypes DEF AuditFollowsChain
          <5> QED
            BY <3>1, <4>1, <4>2, <5>1, <5>2 DEF LetThrough
        <4>3. CASE q # r
          <5>1. q \in LetThrough(req[q].via)' <=> q \in LetThrough(req[q].via)
            BY <3>2, <3>3, <4>3 DEF LetThrough
          <5> QED
            BY <3>2, <3>3, <4>1, <4>3, <5>1, ServerTypes DEF AuditFollowsChain
        <4> QED
          BY <4>2, <4>3
      <3>4. AuditFollowsChain'
        BY <3>1, <3>3 DEF AuditFollowsChain
      <3>5. \A q \in Requests : req'[q].panicked => req'[q].pc = "done"
        BY <1>2, ServerTypes DEF MovesOn, AuditInv
      <3> QED
        BY <3>1, <3>4, <3>5, ServerTypes DEF AuditInv
    <2> QED
      BY <1>1, <2>1, <2>2, <2>3 DEF Handle, HandlePlain, HandleWrite, Forbid, HandlePanic, Upgrade
  <1> QED
    BY <1>1, <1>3, <1>4, <1>5, ServerTypes DEF ServerInv

(* A step of a connection. *)
LEMMA ConnectionStepKeeps ==
  ASSUME ServerInv, NEW r \in Requests, Connection(r), UNCHANGED serverVars
  PROVE  ServerInv'
  <1>1. /\ UNCHANGED <<limiterVars, process, audited>>
        /\ req[r].pc \in {"joining", "reading", "leaving"}
    BY DEF Connection, Join, ReadFails, Leave, serverVars
  <1>2. MovesOn(r) /\ req' \in [Requests -> RequestStates]
    <2>1. CASE Join(r) \/ ReadFails(r)
      BY <1>1, <2>1, GotoMovesOn DEF Join, ReadFails
    <2>2. CASE Leave(r)
      BY <2>2, AnswerMovesOn DEF Leave
    <2> QED
      BY <2>1, <2>2 DEF Connection
  <1>3. LimiterInv'
    BY <1>1, <1>2, MovesOnKeeps
  <1>4. HubInv'
    BY ServerTypes, ConnectionKeeps
  <1>5. AuditInv'
    <2>1. r \notin audited /\ counted \subseteq counted'
      BY <1>1, ServerTypes DEF AuditFollowsChain, limiterVars
    <2> QED
      BY <1>1, <1>2, <2>1, ServerTypes, AuditStays DEF MovesOn
  <1> QED
    BY <1>1, <1>3, <1>4, <1>5, ServerTypes DEF ServerInv

(* A step of the feed. *)
LEMMA HubStepKeeps ==
  ASSUME ServerInv, Hub, UNCHANGED <<limiterVars, req, serverVars>>
  PROVE  ServerInv'
  <1>1. HubInv'
    <2>1. CASE ReadStations \/ Publish
      BY <2>1, ServerTypes, PublisherKeeps
    <2>2. CASE Receive
      BY <2>2, ServerTypes, ReceiveKeeps
    <2>3. ASSUME NEW r \in Requests, Write(r)
          PROVE  HubInv'
      BY <2>3, ServerTypes, WriteKeeps
    <2> QED
      BY <2>1, <2>2, <2>3 DEF Hub
  <1>2. LimiterTypeOK'
    BY ServerTypes DEF LimiterTypeOK, limiterVars
  <1>3. LimiterInv'
    BY <1>2, ServerTypes, BehindKeeps DEF Behind, limiterVars
  <1>4. AuditInv'
    BY ServerTypes DEF AuditInv, AuditFollowsChain, LetThrough, limiterVars, serverVars
  <1> QED
    BY <1>1, <1>3, <1>4, ServerTypes DEF ServerInv, serverVars

(* The process dies, and every request in flight with it. *)
LEMMA DieKeeps ==
  ASSUME ServerInv, Die
  PROVE  ServerInv' /\ UNCHANGED got
  <1>1. /\ UNCHANGED <<clock, counter, buckets, counted, unset, snapshots, got, audited>>
        /\ process' = "down" /\ current' = 0 /\ clients' = {} /\ broadcast' = <<>> /\ pending' = FALSE
        /\ walk' = [walk EXCEPT !.todo = {}]
        /\ req' = [r \in Requests |-> IF InFlight(r)
                                      THEN [req[r] EXCEPT !.pc = "done", !.ans = "dead"] ELSE req[r]]
    BY DEF Die
  <1>2. ASSUME NEW q \in Requests
        PROVE  /\ req'[q] \in RequestStates
               /\ \/ req'[q] = req[q] /\ req[q].pc \in {"new", "done"}
                  \/ /\ req[q].pc \notin {"new", "done"}
                     /\ req'[q].pc = "done" /\ req'[q].ans = "dead"
                     /\ req'[q].via = req[q].via /\ req'[q].n = req[q].n
                     /\ req'[q].panicked = req[q].panicked
    <2>1. req[q] \in RequestStates
      BY ServerTypes
    <2>2. CASE InFlight(q)
      <3>1. req'[q] = [pc |-> "done", ans |-> "dead", via |-> req[q].via, n |-> req[q].n,
                       panicked |-> req[q].panicked]
        BY <1>1, <2>1, <2>2 DEF RequestStates
      <3>2. req[q].pc \notin {"new", "done"}
        BY <2>2 DEF InFlight
      <3> QED
        BY <2>1, <3>1, <3>2 DEF RequestStates, Labels, Answers
    <2>3. CASE ~InFlight(q)
      BY <1>1, <2>1, <2>3 DEF InFlight
    <2> QED
      BY <2>2, <2>3
  <1>3. LimiterTypeOK'
    <2>1. req' \in [Requests -> RequestStates]
      BY <1>1, <1>2, ZenonT(30)
    <2>2. LimiterTypeOK /\ Len(buckets) \in Nat
      BY ServerTypes DEF LimiterTypeOK
    <2>3. 0 \in 0..Len(buckets)
      BY <2>2
    <2> QED
      BY <1>1, <2>1, <2>2, <2>3, ZenonT(30) DEF LimiterTypeOK
  <1>4. LimiterInv'
    <2>1. Behind
      BY <1>1, <1>2, ZenonT(30) DEF Behind
    <2> QED
      BY <1>3, <2>1, ServerTypes, BehindKeeps
  <1>5. HubInv'
    <2>1. walk' = [snapshot |-> walk.snapshot, todo |-> {}] /\ walk'.todo = {} /\ walk.snapshot \in 0..MaxSnapshots
      BY <1>1, ServerTypes DEF HubTypeOK
    <2>2. broadcast' \in Seq(1..MaxSnapshots) /\ Len(broadcast') = 0 /\ DOMAIN broadcast' = {}
      <3>1. broadcast' = <<>>
        BY <1>1
      <3>2. broadcast' \in Seq(1..MaxSnapshots) /\ Len(broadcast') = 0
        BY <3>1, EmptySeq
      <3> QED
        BY <3>1, <3>2
    <2>3. HubTypeOK'
      <3>1. HubTypeOK /\ 0 =< Capacity
        BY HubAssumption, ServerTypes
      <3> QED
        BY <1>1, <2>1, <2>2, <3>1 DEF HubTypeOK
    <2>4. NewcomerInv'
      BY <1>1, <1>2, ServerTypes, ZenonT(30) DEF HubInv, NewcomerInv
    <2> QED
      BY <1>1, <2>1, <2>2, <2>3, <2>4 DEF HubInv, QueueInv, WalkInv, GotInv, Walking
  <1>6. AuditInv'
    <2>1. ASSUME NEW q \in audited
          PROVE  /\ q \in LetThrough(req[q].via)' \/ req'[q].ans = "dead"
                 /\ req'[q].pc \in {"answer", "refusal", "done"} /\ ~req'[q].panicked
                 /\ \E k \in counted' : k.who = q /\ k.in = req'[q].via
      <3>1. q \in Requests /\ req'[q].via = req[q].via
        BY <1>2, ServerTypes
      <3>2. \E k \in counted' : k.who = q /\ k.in = req'[q].via
        <4>1. PICK k \in counted : k.who = q /\ k.in = req[q].via
          BY <2>1, ServerTypes DEF AuditFollowsChain
        <4> QED
          BY <1>1, <3>1, <4>1
      <3>3. CASE req'[q] = req[q] /\ req[q].pc \in {"new", "done"}
        <4>1. q \in LetThrough(req[q].via)' <=> q \in LetThrough(req[q].via)
          BY <3>3 DEF LetThrough
        <4> QED
          BY <2>1, <3>2, <3>3, <4>1, ServerTypes DEF AuditFollowsChain
      <3>4. CASE req'[q].pc = "done" /\ req'[q].ans = "dead" /\ req'[q].panicked = req[q].panicked
        BY <2>1, <3>2, <3>4, ServerTypes DEF AuditFollowsChain
      <3> QED
        BY <1>2, <3>1, <3>3, <3>4
    <2>2. AuditFollowsChain'
      BY <1>1, <2>1 DEF AuditFollowsChain
    <2>3. \A q \in Requests : req'[q].panicked => req'[q].pc = "done"
      BY <1>2, ServerTypes DEF AuditInv
    <2> QED
      BY <2>2, <2>3 DEF AuditInv
  <1> QED
    BY <1>1, <1>4, <1>5, <1>6, ServerTypes DEF ServerInv

LEMMA ServerStart ==
  ASSUME ServerInit
  PROVE  ServerInv
  <1>1. /\ clock = 0 /\ counter = [life |-> 0, count |-> 0, expire |-> Nil]
        /\ buckets = <<>> /\ current = 0 /\ counted = {} /\ unset = {}
        /\ clients = {} /\ broadcast = <<>> /\ snapshots = 0 /\ pending = FALSE
        /\ walk = [snapshot |-> 0, todo |-> {}] /\ got = [r \in Requests |-> 0]
        /\ process = "up" /\ audited = {}
        /\ req = [r \in Requests |-> NewRequest]
    BY DEF ServerInit
  <1>2. /\ NewRequest \in RequestStates /\ NewRequest.pc = "new" /\ NewRequest.ans = "none"
        /\ NewRequest.via = Nil /\ NewRequest.panicked = FALSE
    BY DEF NewRequest, RequestStates, Labels, Answers
  <1>3. LimiterTypeOK
    BY <1>1, <1>2, LimitAssumption DEF LimiterTypeOK, Counters
  <1>4. PlacesInv /\ CountedInv /\ RefusedInv
    BY <1>1, <1>2 DEF PlacesInv, Place, CountedInv, RefusedInv
  <1>5. SetsInv
    <2> SUFFICES ASSUME NEW w \in Windows
                 PROVE  /\ IsFiniteSet(Told(w)) /\ IsFiniteSet(Who(w))
                        /\ Cardinality(Claimed(w)) =< Limit
      BY DEF SetsInv
    <2>1. Told(w) = {} /\ Who(w) = {} /\ Claimed(w) = {}
      BY <1>1, <1>2, WindowsDiffer DEF Told, Who, Claimed
    <2> QED
      BY <2>1, FS_EmptySet, LimitAssumption
  <1>6. CountsInv /\ WindowsEnd
    BY <1>1 DEF CountsInv, WindowsEnd
  <1>7. HubInv
    <2>1. HubTypeOK
      <3>1. broadcast \in Seq(1..MaxSnapshots) /\ Len(broadcast) = 0 /\ 0 =< Capacity
        BY <1>1, EmptySeq, HubAssumption
      <3>2. 0 \in 0..MaxSnapshots
        BY HubAssumption
      <3>3. walk \in [snapshot : 0..MaxSnapshots, todo : SUBSET clients]
        BY <1>1, <3>2
      <3> QED
        BY <1>1, <3>1, <3>2, <3>3 DEF HubTypeOK
    <2> QED
      BY <1>1, <2>1 DEF HubInv, QueueInv, WalkInv, GotInv, NewcomerInv, Walking
  <1>8. AuditInv
    BY <1>1, <1>2 DEF AuditInv, AuditFollowsChain
  <1> QED
    BY <1>1, <1>3, <1>4, <1>5, <1>6, <1>7, <1>8 DEF ServerInv, LimiterInv

LEMMA ServerStep ==
  ASSUME ServerInv, [ServerNext]_vars
  PROVE  ServerInv'
  <1>1. ASSUME NEW r \in Requests, Serve(r)
        PROVE  ServerInv'
    BY <1>1, LimiterStepKeeps, HandleKeeps, ConnectionStepKeeps DEF Serve
  <1>2. CASE Hub /\ UNCHANGED <<limiterVars, req, serverVars>>
    BY <1>2, HubStepKeeps
  <1>3. CASE Tick /\ UNCHANGED <<hubVars, serverVars>>
    <2>1. LimiterInv' /\ UNCHANGED <<counted, req>>
      BY <1>3, ServerTypes, TickKeeps DEF Tick
    <2> QED
      BY <1>3, <2>1, ServerTypes
         DEF ServerInv, HubInv, HubTypeOK, QueueInv, WalkInv, GotInv, NewcomerInv, Walking, LastSent,
             AuditInv, AuditFollowsChain, LetThrough, hubVars, serverVars
  <1>4. CASE UNCHANGED <<limiterVars, req, hubVars, audited>> /\ process' \in {"up", "stopping", "down"}
    <2>1. LimiterInv'
      <3>1. LimiterTypeOK' /\ Behind
        BY <1>4, ServerTypes DEF LimiterTypeOK, limiterVars, Behind
      <3> QED
        BY <3>1, ServerTypes, BehindKeeps
    <2> QED
      BY <1>4, <2>1, ServerTypes
         DEF ServerInv, HubInv, HubTypeOK, QueueInv, WalkInv, GotInv, NewcomerInv, Walking, LastSent,
             AuditInv, AuditFollowsChain, LetThrough, hubVars, limiterVars
  <1>5. CASE Exit \/ Crash
    BY <1>5, DieKeeps DEF Exit, Crash
  <1>6. CASE UNCHANGED vars
    BY <1>4, <1>6, ServerTypes DEF vars, serverVars
  <1> QED
    BY <1>1, <1>2, <1>3, <1>4, <1>5, <1>6 DEF ServerNext, Signal, Restart

LEMMA ServerInvariant == ServerSpec => []ServerInv
  <1>1. ServerInit => ServerInv
    BY ServerStart
  <1>2. ServerInv /\ [ServerNext]_vars => ServerInv'
    BY ServerStep
  <1> QED
    BY <1>1, <1>2, PTL DEF ServerSpec

-----------------------------------------------------------------------------
(* Every state of the server is of the declared kind: Redis, the process and the *)
(* connections (rate_limit.go, hub.go, main.go).                                 *)
THEOREM ServerTypeOK == ServerSpec => []TypeOK
  <1>1. ServerInv => TypeOK
    BY ServerTypes DEF TypeOK
  <1> QED
    BY <1>1, ServerInvariant, PTL

(* rate_limit.go: no window, in Redis or in the process, ever lets more than perMinute     *)
(* requests through, however increments, fallbacks, comparisons, deaths and restarts meet. *)
THEOREM ServerNoWindowAboveLimit == ServerSpec => []NoWindowAboveLimit
  <1>1. ServerInv => NoWindowAboveLimit
    <2> SUFFICES ASSUME ServerInv, NEW w \in {req[r].via : r \in Requests} \ {Nil}
                 PROVE  Cardinality(LetThrough(w)) =< Limit
      BY DEF NoWindowAboveLimit
    <2>1. w \in Windows
      BY ServerTypes DEF RequestStates
    <2>2. IsFiniteSet(Told(w)) /\ Cardinality(Claimed(w)) =< Limit
      BY <2>1 DEF ServerInv, LimiterInv, SetsInv
    <2>3. LetThrough(w) \subseteq Claimed(w) /\ IsFiniteSet(Claimed(w))
      <3>1. LetThrough(w) \subseteq Claimed(w)
        BY DEF LetThrough, Claimed, Told
      <3>2. IsFiniteSet(Claimed(w))
        BY <2>2, ClaimedIsTold, SubsetIsSmaller
      <3> QED
        BY <3>1, <3>2
    <2>4. /\ Cardinality(LetThrough(w)) =< Cardinality(Claimed(w))
          /\ Cardinality(LetThrough(w)) \in Nat /\ Cardinality(Claimed(w)) \in Nat
      BY <2>3, SubsetIsSmaller, FS_CardinalityType
    <2> QED
      BY <2>2, <2>4, LimitAssumption
  <1> QED
    BY <1>1, ServerInvariant, PTL

(* rate_limit.go: when a request is refused, and ever after, perMinute others at least are   *)
(* counted in its window, unless INCR was repeated for one of them.                         *)
THEOREM ServerRefusedOnlyWhenFull == ServerSpec => []RefusedOnlyWhenFull
  <1>1. ServerInv => RefusedOnlyWhenFull
    <2> SUFFICES ASSUME ServerInv, NEW r \in Requests, req[r].ans = "limited"
                 PROVE  LET same == {k \in counted : k.in = req[r].via} IN
                          \/ Cardinality({k.who : k \in same} \ {r}) >= Limit
                          \/ \E k \in same : k.times > 1
      BY DEF RefusedOnlyWhenFull
    <2> DEFINE w == req[r].via
               same == {k \in counted : k.in = w}
    <2>1. Full(r, w)
      BY DEF ServerInv, LimiterInv, RefusedInv
    <2>2. {k.who : k \in same} = Who(w)
      BY ServerTypes DEF Who, LimiterTypeOK
    <2>3. Repeated(w) <=> \E k \in same : k.times > 1
      BY DEF Repeated
    <2> HIDE DEF same, w
    <2>4. Cardinality({k.who : k \in same} \ {r}) >= Limit \/ \E k \in same : k.times > 1
      BY <2>1, <2>2, <2>3 DEF Full
    <2> QED
      BY <2>4 DEF same, w
  <1> QED
    BY <1>1, ServerInvariant, PTL

(* rate_limit.go: a Redis window without an expiry is about to get one, or the request that *)
(* began it died, its EXPIRE failed, or its INCR was repeated or went unanswered.           *)
THEOREM ServerWindowsEnd == ServerSpec => []WindowsEnd
  <1>1. ServerInv => WindowsEnd
    BY DEF ServerInv, LimiterInv
  <1> QED
    BY <1>1, ServerInvariant, PTL

(* hub.go: what is being sent lags at most the channel and the snapshot that waits behind *)
(* what was read.                                                                         *)
THEOREM ServerFeedIsFresh == ServerSpec => []FeedIsFresh
  <1>1. ServerInv => FeedIsFresh
    BY HubAssumption, ServerTypes, LastSentType
       DEF HubInv, WalkInv, FeedIsFresh, LastSent, HubTypeOK
  <1> QED
    BY <1>1, ServerInvariant, PTL

(* hub.go: a connection gets every snapshot once and in order from its first on. *)
THEOREM ServerNoSnapshotSkipped == ServerSpec => NoSnapshotSkipped
  <1> DEFINE InOrder == \A r \in Requests : got'[r] # got[r] => got[r] = 0 \/ got'[r] = got[r] + 1
  <1>1. ServerInv /\ [ServerNext]_vars => [InOrder]_hubVars
    <2> SUFFICES ASSUME ServerInv, [ServerNext]_vars
                 PROVE  InOrder \/ UNCHANGED hubVars
      OBVIOUS
    <2>1. CASE UNCHANGED got
      BY <2>1
    <2>2. ASSUME NEW r \in Requests, Write(r), UNCHANGED req
          PROVE  InOrder
      BY <2>2, ServerTypes, WriteKeeps
    <2>3. ASSUME NEW r \in Requests, Serve(r)
          PROVE  UNCHANGED got
      BY <2>3, ServerTypes, HandleKeeps, ConnectionKeeps DEF Serve, hubVars
    <2>4. CASE Hub /\ UNCHANGED req
      BY <2>1, <2>2, <2>4 DEF Hub, ReadStations, Publish, Receive
    <2>5. CASE Exit \/ Crash
      BY <2>1, <2>5, DieKeeps DEF Exit, Crash
    <2> QED
      BY <2>1, <2>3, <2>4, <2>5 DEF ServerNext, Tick, Signal, Restart, vars, hubVars
  <1> QED
    BY <1>1, ServerInvariant, PTL DEF ServerSpec, NoSnapshotSkipped

(* audit.go, rate_limit.go, main.go: an audit row stands for a request that was counted, let *)
(* through, and whose chain came back without a panic, by its handler or from the role      *)
(* check, wherever the process was stopped.                                                  *)
THEOREM ServerAuditFollowsChain == ServerSpec => []AuditFollowsChain
  <1>1. ServerInv => AuditFollowsChain
    BY ServerTypes
  <1> QED
    BY <1>1, ServerInvariant, PTL
=============================================================================
