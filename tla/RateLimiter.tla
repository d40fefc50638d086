---------------------------- MODULE RateLimiter ----------------------------
(***************************************************************************)
(* PairRateLimiter of sessiontap-hub/src/service.rs: a token bucket per    *)
(* peer address for pair.* calls, in a table of bounded size. Time is in   *)
(* ticks and a call costs COST of them, so a bucket of burst calls holds   *)
(* BURST * COST. `limit` is the limiter the table stands for: one bucket   *)
(* per address that is never evicted.                                      *)
(***************************************************************************)
EXTENDS Naturals, FiniteSets, TLAPS, FiniteSetTheorems

CONSTANTS Addresses, BURST, COST, PAIR_RATE_MAX_ENTRIES, MaxTime

ASSUME RateAssumption ==
  /\ IsFiniteSet(Addresses)
  /\ {BURST, COST, PAIR_RATE_MAX_ENTRIES} \subseteq Nat \ {0} /\ MaxTime \in Nat

VARIABLES
  now,      \* bounded by MaxTime
  buckets,  \* the table: [tokens, updated] of the addresses in it
  limit,    \* the same per address, without a table
  refused   \* the last call: the address refused for want of a place, or none

vars == <<now, buckets, limit, refused>>

Full == BURST * COST
NoAddress == "none"

Init ==
  /\ now = 0 /\ buckets = [a \in {} |-> 0]
  /\ limit = [a \in Addresses |-> [tokens |-> Full, updated |-> 0]]
  /\ refused = NoAddress

Tick == now < MaxTime /\ now' = now + 1 /\ UNCHANGED <<buckets, limit, refused>>

refilled(bucket) ==
  LET tokens == bucket.tokens + (now - bucket.updated)
  IN IF tokens < Full THEN tokens ELSE Full

(* A call against one bucket: what is left. *)
Take(bucket) ==
  LET tokens == refilled(bucket)
  IN [tokens |-> IF tokens >= COST THEN tokens - COST ELSE tokens, updated |-> now]

(* Mutant: any bucket may go. *)
retained_None == {}

(* A full table keeps the addresses that are still limited. *)
retained == {a \in DOMAIN buckets : refilled(buckets[a]) < Full}

Kept(a) ==
  IF a \notin DOMAIN buckets /\ Cardinality(DOMAIN buckets) >= PAIR_RATE_MAX_ENTRIES
  THEN retained ELSE DOMAIN buckets

(* allow: refused outright when the table is full of limited addresses. *)
allow(a) ==
  LET kept == Kept(a)
      entry == IF a \in kept THEN buckets[a] ELSE [tokens |-> Full, updated |-> now]
  IN IF a \notin kept /\ Cardinality(kept) >= PAIR_RATE_MAX_ENTRIES
     THEN /\ buckets' = [k \in kept |-> buckets[k]]
          /\ refused' = a
          /\ UNCHANGED <<now, limit>>
     ELSE /\ buckets' = [k \in kept \cup {a} |-> IF k = a THEN Take(entry) ELSE buckets[k]]
          /\ limit' = [limit EXCEPT ![a] = Take(@)]
          /\ refused' = NoAddress
          /\ UNCHANGED now

Next == Tick \/ \E a \in Addresses : allow(a)

Spec == Init /\ [][Next]_vars

-----------------------------------------------------------------------------
(* The state has its declared shape; the table never grows past its limit.  *)
TypeOK ==
  /\ DOMAIN buckets \subseteq Addresses /\ Cardinality(DOMAIN buckets) <= PAIR_RATE_MAX_ENTRIES
  /\ \A a \in DOMAIN buckets : buckets[a].tokens \in 0..Full /\ buckets[a].updated \in 0..now

(* Eviction forgets nothing: an address that was thrown out of the table    *)
(* and comes back is let through exactly when a limiter that never forgets  *)
(* would let it through, for every sequence of calls and pauses.            *)
EvictionForgetsNothing ==
  \A a \in Addresses :
    refilled(limit[a]) = IF a \in DOMAIN buckets THEN refilled(buckets[a]) ELSE Full

(* Refusing for want of a place happens only while every place is held by   *)
(* an address that has used up some of its burst: service.rs:137 "Fails     *)
(* closed when the table is full of addresses that are still limited".      *)
RefusedOnlyWhenAllLimited ==
  [][refused' # NoAddress /\ refused' # refused =>
       /\ Cardinality(DOMAIN buckets) = PAIR_RATE_MAX_ENTRIES
       /\ \A a \in DOMAIN buckets : refilled(limit[a]) < Full]_vars

(* All of the above: to a caller, a bounded table of buckets is a limiter     *)
(* that keeps one for every address, but for refusals while it is full of     *)
(* limited ones (service.rs:132-158 PairRateLimiter.allow).                   *)
EvictionIsInvisible == [](TypeOK /\ EvictionForgetsNothing) /\ RefusedOnlyWhenAllLimited

-----------------------------------------------------------------------------
(* Proofs, for every number of addresses, every burst and cost and every size *)
(* of the table.                                                              *)

(* A bucket's tokens are within the burst and its time is not ahead. *)
Bucket == [tokens : 0..Full, updated : Nat]

IInv ==
  /\ now \in Nat
  /\ limit \in [Addresses -> Bucket]
  /\ \A a \in Addresses : limit[a].updated <= now
  /\ DOMAIN buckets \subseteq Addresses
  /\ buckets = [a \in DOMAIN buckets |-> buckets[a]]
  /\ \A a \in DOMAIN buckets : buckets[a] \in Bucket /\ buckets[a].updated <= now
  /\ Cardinality(DOMAIN buckets) <= PAIR_RATE_MAX_ENTRIES
  /\ EvictionForgetsNothing

(* A burst is a natural number of ticks, as is what a call costs. *)
LEMMA FullIsNat == Full \in Nat /\ COST \in Nat /\ COST > 0 /\ PAIR_RATE_MAX_ENTRIES \in Nat
  BY RateAssumption DEF Full

(* Refilling keeps a bucket within the burst. *)
LEMMA RefilledBound ==
  ASSUME now \in Nat, NEW b \in Bucket, b.updated <= now
  PROVE  refilled(b) \in 0..Full
  BY FullIsNat DEF refilled, Bucket

(* What a call leaves is a bucket of this moment. *)
LEMMA TakeIsBucket ==
  ASSUME now \in Nat, NEW b \in Bucket, b.updated <= now
  PROVE  Take(b) \in Bucket /\ Take(b).updated <= now
  BY FullIsNat, RefilledBound DEF Take, Bucket

(* Two buckets that would refill to the same are left with the same by a call. *)
LEMMA TakeAgrees ==
  ASSUME NEW b, NEW c, refilled(b) = refilled(c)
  PROVE  Take(b) = Take(c)
  BY DEF Take

(* The address is in the table of the set it is added to. *)
LEMMA RoomForOne ==
  ASSUME NEW S, IsFiniteSet(S), NEW a, Cardinality(S) <= PAIR_RATE_MAX_ENTRIES,
         a \in S \/ ~ (Cardinality(S) >= PAIR_RATE_MAX_ENTRIES)
  PROVE  Cardinality(S \cup {a}) <= PAIR_RATE_MAX_ENTRIES
<1>1. Cardinality(S) \in Nat
  BY FS_CardinalityType
<1>2. CASE a \in S
  <2>1. S \cup {a} = S
    BY <1>2
  <2> QED
    BY <2>1
<1>3. CASE a \notin S
  <2>1. Cardinality(S \cup {a}) = Cardinality(S) + 1
    BY <1>3, FS_AddElement
  <2> QED
    BY <1>1, <1>3, <2>1, FullIsNat
<1> QED
  BY <1>2, <1>3

-----------------------------------------------------------------------------
(* The initial table is empty and every bucket full. *)
LEMMA InitIInv == Init => IInv
<1> SUFFICES ASSUME Init PROVE IInv
  OBVIOUS
<1>1. DOMAIN buckets = {} /\ buckets = [a \in DOMAIN buckets |-> buckets[a]]
  BY DEF Init
<1>2. Cardinality(DOMAIN buckets) = 0
  BY <1>1, FS_EmptySet
<1>3. limit \in [Addresses -> Bucket] /\ now = 0
  BY FullIsNat DEF Init, Bucket
<1>4. \A a \in Addresses : limit[a].tokens = Full /\ limit[a].updated = 0
  BY DEF Init
<1>5. EvictionForgetsNothing
  BY <1>1, <1>3, <1>4, FullIsNat DEF EvictionForgetsNothing, refilled
<1> QED
  BY <1>1, <1>2, <1>3, <1>4, <1>5, FullIsNat DEF IInv

(* Time passes for the table and for the limiter it stands for alike. *)
LEMMA TickIInv == IInv /\ Tick => IInv'
<1> SUFFICES ASSUME IInv, Tick PROVE IInv'
  OBVIOUS
<1>1. now \in Nat /\ now' = now + 1 /\ buckets' = buckets /\ limit' = limit
  BY DEF IInv, Tick
<1>2. ASSUME NEW b \in Bucket, NEW c \in Bucket, b.updated <= now, c.updated <= now, refilled(b) = refilled(c)
      PROVE  refilled(b)' = refilled(c)'
  BY <1>1, <1>2, FullIsNat DEF refilled, Bucket
<1>3. ASSUME NEW b \in Bucket, b.updated <= now, refilled(b) = Full
      PROVE  refilled(b)' = Full
  BY <1>1, <1>3, FullIsNat DEF refilled, Bucket
<1>4. EvictionForgetsNothing'
  <2> SUFFICES ASSUME NEW a \in Addresses
               PROVE  refilled(limit[a])' = IF a \in DOMAIN buckets THEN refilled(buckets[a])' ELSE Full
    BY <1>1 DEF EvictionForgetsNothing
  <2>1. limit[a] \in Bucket /\ limit[a].updated <= now
    BY DEF IInv
  <2>2. refilled(limit[a]) = IF a \in DOMAIN buckets THEN refilled(buckets[a]) ELSE Full
    BY DEF IInv, EvictionForgetsNothing
  <2>3. CASE a \in DOMAIN buckets
    BY <1>1, <1>2, <2>1, <2>2, <2>3 DEF IInv, refilled
  <2>4. CASE a \notin DOMAIN buckets
    BY <1>1, <1>3, <2>1, <2>2, <2>4 DEF refilled
  <2> QED
    BY <2>3, <2>4
<1>5. \A a \in Addresses : limit'[a].updated <= now'
  BY <1>1 DEF IInv, Bucket
<1>6. \A a \in DOMAIN buckets' : buckets'[a] \in Bucket /\ buckets'[a].updated <= now'
  BY <1>1 DEF IInv, Bucket
<1> QED
  BY <1>1, <1>4, <1>5, <1>6 DEF IInv, Bucket, Full

(* What a full table keeps is part of it, and what it drops is full again. *)
LEMMA KeptIsLimited ==
  ASSUME IInv, NEW a \in Addresses
  PROVE  /\ Kept(a) \subseteq DOMAIN buckets
         /\ IsFiniteSet(Kept(a)) /\ Cardinality(Kept(a)) <= PAIR_RATE_MAX_ENTRIES
         /\ \A k \in DOMAIN buckets \ Kept(a) : refilled(buckets[k]) = Full
         /\ a \in DOMAIN buckets => a \in Kept(a)
<1>1. Kept(a) \subseteq DOMAIN buckets /\ (a \in DOMAIN buckets => a \in Kept(a))
  BY DEF Kept, retained
<1>2. IsFiniteSet(DOMAIN buckets)
  BY FS_Subset, RateAssumption DEF IInv
<1>3. IsFiniteSet(Kept(a)) /\ Cardinality(Kept(a)) <= Cardinality(DOMAIN buckets)
  BY <1>1, <1>2, FS_Subset
<1>4. Cardinality(Kept(a)) \in Nat /\ Cardinality(DOMAIN buckets) \in Nat
  BY <1>2, <1>3, FS_CardinalityType
<1>5. Cardinality(Kept(a)) <= PAIR_RATE_MAX_ENTRIES
  BY <1>3, <1>4, FullIsNat DEF IInv
<1>6. ASSUME NEW k \in DOMAIN buckets \ Kept(a) PROVE refilled(buckets[k]) = Full
  <2>1. ~ (refilled(buckets[k]) < Full)
    BY <1>6 DEF Kept, retained
  <2>2. refilled(buckets[k]) \in 0..Full
    BY RefilledBound DEF IInv
  <2> QED
    BY <2>1, <2>2, FullIsNat
<1> QED
  BY <1>1, <1>3, <1>5, <1>6

(* A call leaves the table and the limiter it stands for in agreement. *)
LEMMA AllowIInv == ASSUME IInv, NEW a \in Addresses, allow(a) PROVE IInv'
<1> DEFINE kept == Kept(a)
           entry == IF a \in kept THEN buckets[a] ELSE [tokens |-> Full, updated |-> now]
           refuses == a \notin kept /\ Cardinality(kept) >= PAIR_RATE_MAX_ENTRIES
<1>1. /\ kept \subseteq DOMAIN buckets /\ kept \subseteq Addresses
      /\ IsFiniteSet(kept) /\ Cardinality(kept) <= PAIR_RATE_MAX_ENTRIES
      /\ \A k \in DOMAIN buckets \ kept : refilled(buckets[k]) = Full
      /\ a \in DOMAIN buckets => a \in kept
  BY KeptIsLimited DEF IInv
<1>2. \A k \in Addresses : refilled(limit[k]) = IF k \in kept THEN refilled(buckets[k]) ELSE Full
  BY <1>1 DEF IInv, EvictionForgetsNothing
<1>3. \A k \in kept : buckets[k] \in Bucket /\ buckets[k].updated <= now
  BY <1>1 DEF IInv
<1>4. now \in Nat /\ limit \in [Addresses -> Bucket] /\ \A k \in Addresses : limit[k].updated <= now
  BY DEF IInv
<1>5. CASE refuses
  <2>1. buckets' = [k \in kept |-> buckets[k]] /\ now' = now /\ limit' = limit
    BY <1>5 DEF allow
  <2>2. DOMAIN buckets' = kept /\ \A k \in kept : buckets'[k] = buckets[k]
    BY <2>1
  <2>3. EvictionForgetsNothing'
    BY <1>2, <2>1, <2>2 DEF EvictionForgetsNothing, refilled, Full
  <2> QED
    BY <1>1, <1>3, <1>4, <2>1, <2>2, <2>3 DEF IInv, Bucket, Full
<1>6. CASE ~ refuses
  <2>1. /\ buckets' = [k \in kept \cup {a} |-> IF k = a THEN Take(entry) ELSE buckets[k]]
        /\ limit' = [limit EXCEPT ![a] = Take(@)] /\ now' = now
    BY <1>6 DEF allow
  <2>2. DOMAIN buckets' = kept \cup {a}
    BY <2>1
  <2>3. buckets'[a] = Take(entry) /\ \A k \in kept \ {a} : buckets'[k] = buckets[k]
    BY <2>1
  <2>4. limit'[a] = Take(limit[a]) /\ \A k \in Addresses \ {a} : limit'[k] = limit[k]
    BY <1>4, <2>1
  <2>5. entry \in Bucket /\ entry.updated <= now
    BY <1>3, <1>4, FullIsNat DEF Bucket
  <2>6. refilled(entry) = refilled(limit[a])
    <3>1. CASE a \in kept
      BY <1>2, <3>1
    <3>2. CASE a \notin kept
      <4>1. entry.tokens = Full /\ entry.updated = now
        BY <3>2
      <4>2. refilled(entry) = Full
        BY <1>4, <4>1, FullIsNat DEF refilled
      <4> QED
        BY <1>2, <3>2, <4>2
    <3> QED
      BY <3>1, <3>2
  <2>7. Take(entry) = Take(limit[a])
    BY <2>6, TakeAgrees
  <2>8. Take(entry) \in Bucket /\ Take(entry).updated <= now
    BY <1>4, <2>5, TakeIsBucket
  <2>9. EvictionForgetsNothing'
    <3> SUFFICES ASSUME NEW k \in Addresses
                 PROVE  refilled(limit'[k]) = IF k \in kept \cup {a} THEN refilled(buckets'[k]) ELSE Full
      BY <2>1, <2>2 DEF EvictionForgetsNothing, refilled, Full
    <3>1. CASE k = a
      BY <2>3, <2>4, <2>7, <3>1
    <3>2. CASE k # a
      BY <1>2, <2>3, <2>4, <3>2
    <3> QED
      BY <3>1, <3>2
  <2>10. Cardinality(kept \cup {a}) <= PAIR_RATE_MAX_ENTRIES
    BY <1>1, <1>6, RoomForOne
  <2>11. limit' \in [Addresses -> Bucket]
    BY <1>4, <2>1, <2>7, <2>8
  <2>12. \A k \in Addresses : limit'[k].updated <= now
    BY <1>4, <2>4, <2>7, <2>8
  <2>13. \A k \in kept \cup {a} : buckets'[k] \in Bucket /\ buckets'[k].updated <= now
    BY <1>3, <2>3, <2>8
  <2> QED
    BY <1>1, <1>4, <2>1, <2>2, <2>9, <2>10, <2>11, <2>12, <2>13 DEF IInv, Bucket, Full
<1> QED
  BY <1>5, <1>6

-----------------------------------------------------------------------------
(* The strengthened invariant: the table is well formed and every address  *)
(* out of it has a full bucket.                                            *)
THEOREM LimiterInvariant == Spec => []IInv
<1>1. ASSUME IInv, [Next]_vars PROVE IInv'
  <2>1. CASE Tick
    BY <1>1, <2>1, TickIInv
  <2>2. CASE \E a \in Addresses : allow(a)
    BY <1>1, <2>2, AllowIInv
  <2>3. CASE UNCHANGED vars
    BY <1>1, <2>3 DEF vars, IInv, EvictionForgetsNothing, refilled, Full, Bucket
  <2> QED
    BY <1>1, <2>1, <2>2, <2>3 DEF Next
<1> QED
  BY <1>1, InitIInv, PTL DEF Spec

(* PairRateLimiter::allow answers as a limiter that never evicts would:    *)
(* the bounded table costs no address its limit, for every sequence of     *)
(* calls, any burst and any size of the table.                             *)
THEOREM NothingForgotten == Spec => []EvictionForgetsNothing
<1>1. IInv => EvictionForgetsNothing
  BY DEF IInv
<1> QED
  BY <1>1, LimiterInvariant, PTL

(* The table stays within PAIR_RATE_MAX_ENTRIES and its buckets within the *)
(* burst.                                                                  *)
THEOREM TableIsBounded == Spec => []TypeOK
<1>1. IInv => TypeOK
  BY DEF IInv, TypeOK, Bucket
<1> QED
  BY <1>1, LimiterInvariant, PTL

(* allow "Fails closed when the table is full of addresses that are still  *)
(* limited" (service.rs:137), and refuses for want of a place only then.   *)
THEOREM RefusalIsJustified == Spec => RefusedOnlyWhenAllLimited
<1>1. ASSUME IInv, [Next]_vars, refused' # NoAddress /\ refused' # refused
      PROVE  /\ Cardinality(DOMAIN buckets) = PAIR_RATE_MAX_ENTRIES
             /\ \A a \in DOMAIN buckets : refilled(limit[a]) < Full
  <2>1. PICK a \in Addresses : allow(a)
    BY <1>1 DEF Next, Tick, vars
  <2>2. a \notin Kept(a) /\ Cardinality(Kept(a)) >= PAIR_RATE_MAX_ENTRIES
    BY <1>1, <2>1 DEF allow
  <2>3. IsFiniteSet(DOMAIN buckets)
    BY <1>1, FS_Subset, RateAssumption DEF IInv
  <2>4. /\ Kept(a) \subseteq DOMAIN buckets /\ IsFiniteSet(Kept(a))
        /\ a \notin DOMAIN buckets
    BY <1>1, <2>2, KeptIsLimited
  <2>5. Cardinality(Kept(a)) <= Cardinality(DOMAIN buckets)
    BY <2>3, <2>4, FS_Subset
  <2>6. Cardinality(DOMAIN buckets) \in Nat /\ Cardinality(Kept(a)) \in Nat
    BY <2>3, <2>4, FS_CardinalityType
  <2>7. Cardinality(DOMAIN buckets) = PAIR_RATE_MAX_ENTRIES /\ Cardinality(Kept(a)) = Cardinality(DOMAIN buckets)
    BY <1>1, <2>2, <2>5, <2>6, FullIsNat DEF IInv
  <2>8. Kept(a) = retained
    BY <2>4, <2>6, <2>7, FullIsNat DEF Kept
  <2>9. retained = DOMAIN buckets
    BY <2>3, <2>4, <2>7, <2>8, FS_Subset
  <2> QED
    BY <1>1, <2>7, <2>9 DEF IInv, EvictionForgetsNothing, retained
<1> QED
  BY <1>1, LimiterInvariant, PTL DEF Spec, RefusedOnlyWhenAllLimited

(* For any number of addresses, burst, cost and table size, a caller cannot *)
(* tell PairRateLimiter's bounded table from one that never evicts, except  *)
(* by the refusals that a table full of limited addresses justifies.        *)
THEOREM LimiterIsExact == Spec => EvictionIsInvisible
  BY NothingForgotten, TableIsBounded, RefusalIsJustified, PTL DEF EvictionIsInvisible
=============================================================================
