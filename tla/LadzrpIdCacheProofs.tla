------------------------- MODULE LadzrpIdCacheProofs -------------------------
(***************************************************************************)
(* What MCIdCache checks on two pairs and seven instants, proved for every *)
(* set of pairs, every set of lifetimes and every run length.              *)
(***************************************************************************)
EXTENDS LadzrpIdCache, TLAPS

(***************************************************************************)
(* Every method keeps the fields of the ID cache within their types.       *)
(***************************************************************************)
THEOREM TypeCorrect == Spec => []TypeOK
<1> USE IdCacheAssumption
<1>1. Init => TypeOK
  BY DEF Init, TypeOK, UniqueId
<1>2. TypeOK /\ [Next]_vars => TypeOK'
  <2> SUFFICES ASSUME TypeOK, [Next]_vars PROVE TypeOK'
    OBVIOUS
  <2> USE DEF TypeOK, UniqueId
  <2>1. ASSUME NEW k \in Key, IsDuplicate(k) PROVE TypeOK'
    <3>1. Purged \subseteq UniqueId
      BY DEF Purged
    <3>2. now + lifetime \in Nat
      OBVIOUS
    <3>3. cache' \subseteq UniqueId
      <4>1. \/ cache' = Purged
            \/ cache' = Purged \union {[key |-> k, expire |-> now + lifetime]}
        BY <2>1 DEF IsDuplicate
      <4> QED
        BY <3>1, <3>2, <4>1
    <3>4. /\ reply' \subseteq [key : Key, dup : BOOLEAN]
          /\ now' = now /\ lifetime' = lifetime
      <4>1. PICK b \in BOOLEAN : reply' = {[key |-> k, dup |-> b]}
        BY <2>1 DEF IsDuplicate
      <4>2. [key |-> k, dup |-> b] \in [key : Key, dup : BOOLEAN]
        OBVIOUS
      <4>3. now' = now /\ lifetime' = lifetime
        BY <2>1 DEF IsDuplicate
      <4> QED
        BY <4>1, <4>2, <4>3
    <3>5. accepts' \in [Key -> Nat] /\ until' \in [Key -> Nat \union {-1}]
      BY <2>1 DEF IsDuplicate
    <3> QED
      BY <3>3, <3>4, <3>5
  <2>2. CASE GetSize
    BY <2>2 DEF GetSize, Purged
  <2>3. ASSUME NEW l \in Lifetimes, SetLifetime(l) PROVE TypeOK'
    BY <2>3 DEF SetLifetime
  <2>4. CASE Tick
    BY <2>4 DEF Tick
  <2>5. CASE UNCHANGED vars
    BY <2>5 DEF vars
  <2> QED
    BY <2>1, <2>2, <2>3, <2>4, <2>5 DEF Next
<1> QED
  BY <1>1, <1>2, PTL DEF Spec

(***************************************************************************)
(* The vector never holds two records of one pair (ladzrp-id-cache.cc:     *)
(* 9-18), and a pair whose lifetime has not run out has its record there.  *)
(***************************************************************************)
THEOREM CacheInvariant == Spec => [](OneRecordPerKey /\ RecordKept)
<1> DEFINE Inv == OneRecordPerKey /\ RecordKept
<1> USE IdCacheAssumption
<1>1. Init => Inv
  BY DEF Init, OneRecordPerKey, RecordKept
<1>2. TypeOK /\ Inv /\ [Next]_vars => Inv'
  <2> SUFFICES ASSUME TypeOK, Inv, [Next]_vars PROVE Inv'
    OBVIOUS
  <2> USE DEF TypeOK, UniqueId, OneRecordPerKey, RecordKept
  <2>1. ASSUME NEW k \in Key, IsDuplicate(k) PROVE Inv'
    <3>1. CASE \E u \in Purged : u.key = k
      BY <2>1, <3>1 DEF IsDuplicate, Purged, IsExpired
    <3>2. CASE \A u \in Purged : u.key # k
      <4>1. /\ cache' = Purged \union {[key |-> k, expire |-> now + lifetime]}
            /\ until' = [until EXCEPT ![k] = now + lifetime]
            /\ now' = now
        BY <2>1, <3>2 DEF IsDuplicate
      <4>2. OneRecordPerKey'
        BY <3>2, <4>1 DEF Purged
      <4>3. RecordKept'
        <5> SUFFICES ASSUME NEW j \in Key, until'[j] >= now
                     PROVE  [key |-> j, expire |-> until'[j]] \in cache'
          BY <4>1
        <5>1. CASE j = k
          BY <4>1, <5>1
        <5>2. CASE j # k
          <6>1. until'[j] = until[j]
            BY <4>1, <5>2
          <6>2. [key |-> j, expire |-> until[j]] \in Purged
            BY <6>1 DEF Purged, IsExpired
          <6> QED
            BY <4>1, <6>1, <6>2
        <5> QED
          BY <5>1, <5>2
      <4> QED
        BY <4>2, <4>3
    <3> QED
      BY <3>1, <3>2
  <2>2. CASE GetSize
    BY <2>2 DEF GetSize, Purged, IsExpired
  <2>3. ASSUME NEW l \in Lifetimes, SetLifetime(l) PROVE Inv'
    BY <2>3 DEF SetLifetime
  <2>4. CASE Tick
    BY <2>4 DEF Tick
  <2>5. CASE UNCHANGED vars
    BY <2>5 DEF vars
  <2> QED
    BY <2>1, <2>2, <2>3, <2>4, <2>5 DEF Next
<1> QED
  BY <1>1, <1>2, TypeCorrect, PTL DEF Spec

(***************************************************************************)
(* No pair is called new a second time before its lifetime has passed.     *)
(***************************************************************************)
THEOREM FilterHolds == Spec => NoEarlyReaccept
<1>1. TypeOK /\ RecordKept /\ [Next]_vars
        => [\A k \in Key : accepts'[k] # accepts[k] => until[k] < now]_vars
  <2> SUFFICES ASSUME TypeOK, RecordKept, Next,
                      NEW j \in Key, accepts'[j] # accepts[j]
               PROVE  until[j] < now
    OBVIOUS
  <2> USE DEF TypeOK
  <2>1. ASSUME NEW k \in Key, IsDuplicate(k) PROVE until[j] < now
    <3>1. \A u \in Purged : u.key # k
      BY <2>1 DEF IsDuplicate
    <3>2. j = k
      BY <2>1 DEF IsDuplicate
    <3>3. [key |-> j, expire |-> until[j]] \notin Purged
      BY <3>1, <3>2
    <3>4. until[j] \in Int /\ now \in Int
      BY IdCacheAssumption
    <3> QED
      BY <3>3, <3>4 DEF RecordKept, Purged, IsExpired
  <2> QED
    BY <2>1 DEF Next, GetSize, SetLifetime, Tick
<1> QED
  BY <1>1, TypeCorrect, CacheInvariant, PTL DEF Spec, NoEarlyReaccept

(***************************************************************************)
(* Lazy purging implements the abstract filter: every method maps to one   *)
(* step of it, or to a stutter when it only sweeps out dead records.       *)
(***************************************************************************)
THEOREM LazyPurgeImplementsFilter == Spec => ImplementsDupFilter
<1> USE IdCacheAssumption
<1>1. Init => Filter!Init
  BY DEF Init, Filter!Init, LiveRecords
<1>2. TypeOK /\ [Next]_vars => [Filter!Next]_(Filter!absVars)
  <2> SUFFICES ASSUME TypeOK, [Next]_vars
               PROVE  Filter!Next \/ UNCHANGED Filter!absVars
    OBVIOUS
  <2> USE DEF TypeOK, UniqueId
  <2>1. ASSUME NEW k \in Key, IsDuplicate(k) PROVE Filter!Ask(k)
    BY <2>1 DEF IsDuplicate, Filter!Ask, LiveRecords, Purged, IsExpired
  <2>2. CASE GetSize
    BY <2>2 DEF GetSize, Filter!absVars, LiveRecords, Purged, IsExpired
  <2>3. ASSUME NEW l \in Lifetimes, SetLifetime(l) PROVE Filter!Configure(l)
    BY <2>3 DEF SetLifetime, Filter!Configure, LiveRecords, IsExpired
  <2>4. CASE Tick
    <3>1. LiveRecords' = {r \in LiveRecords : r.expire >= now + 1}
      BY <2>4 DEF Tick, LiveRecords, IsExpired
    <3>2. Filter!Pass
      BY <2>4, <3>1 DEF Tick, Filter!Pass
    <3> QED
      BY <3>2 DEF Filter!Next
  <2>5. CASE UNCHANGED vars
    BY <2>5 DEF vars, Filter!absVars, LiveRecords, IsExpired
  <2> QED
    BY <2>1, <2>2, <2>3, <2>4, <2>5 DEF Next, Filter!Next
<1> QED
  BY <1>1, <1>2, TypeCorrect, PTL DEF Spec, ImplementsDupFilter, Filter!Spec
=============================================================================
