---------------------------- MODULE LadzrpIdCache ----------------------------
(***************************************************************************)
(* The duplicate filter of the control-plane floods: class IdCache of      *)
(* src/model/ladzrp-id-cache.{h,cc}.  The vector m_idCache is a set of     *)
(* records: the code never looks at their order.  Each method is one       *)
(* action; simulation events run one at a time, so a method is atomic.     *)
(***************************************************************************)
EXTENDS Integers, FiniteSets

CONSTANTS Key,          \* the (m_context, m_id) pairs callers ask about
          Lifetimes,    \* values given to the constructor and to SetLifetime
          MaxTime       \* bound on the clock

ASSUME IdCacheAssumption ==
    /\ Lifetimes \subseteq Nat
    /\ MaxTime \in Nat

VARIABLES now,          \* Simulator::Now ()
          lifetime,     \* m_lifetime
          cache,        \* m_idCache
          reply,        \* the last pair given to IsDuplicate, and its result
          accepts,      \* history: how often IsDuplicate said "new" of a pair
          until         \* history: the m_expire of the pair's last "new"

vars == <<now, lifetime, cache, reply, accepts, until>>

UniqueId == [key : Key, expire : Nat]

TypeOK ==
    /\ now \in 0..MaxTime
    /\ lifetime \in Lifetimes
    /\ cache \subseteq UniqueId
    /\ reply \subseteq [key : Key, dup : BOOLEAN]
    /\ accepts \in [Key -> Nat]
    /\ until \in [Key -> Nat \union {-1}]

Init ==
    /\ now = 0
    /\ lifetime \in Lifetimes
    /\ cache = {}
    /\ reply = {}
    /\ accepts = [k \in Key |-> 0]
    /\ until = [k \in Key |-> -1]

-----------------------------------------------------------------------------
\* A careless comparison loses a record one instant early.
IsExpiredEarly_Mutant(u) == u.expire =< now

\* A record is still good at the very instant it runs out.
IsExpired(u) == u.expire < now

\* What a purge leaves in the vector.
Purged == {u \in cache : ~IsExpired(u)}

\* The lifetime counts from the last hit, not from the insertion.
RefreshOnHit_Mutant(k) ==
    LET hit == \E u \in Purged : u.key = k IN
    /\ cache' = {u \in Purged : u.key # k} \union {[key |-> k, expire |-> now + lifetime]}
    /\ reply' = {[key |-> k, dup |-> hit]}
    /\ IF hit THEN UNCHANGED <<accepts, until>>
       ELSE /\ accepts' = [accepts EXCEPT ![k] = @ + 1]
            /\ until' = [until EXCEPT ![k] = now + lifetime]
    /\ UNCHANGED <<now, lifetime>>

\* IsDuplicate purges, answers a hit, and inserts (InsertId) on a miss.
IsDuplicate(k) ==
    \/ /\ \E u \in Purged : u.key = k
       /\ cache' = Purged
       /\ reply' = {[key |-> k, dup |-> TRUE]}
       /\ UNCHANGED <<now, lifetime, accepts, until>>
    \/ /\ \A u \in Purged : u.key # k
       /\ cache' = Purged \union {[key |-> k, expire |-> now + lifetime]}
       /\ reply' = {[key |-> k, dup |-> FALSE]}
       /\ accepts' = [accepts EXCEPT ![k] = @ + 1]
       /\ until' = [until EXCEPT ![k] = now + lifetime]
       /\ UNCHANGED <<now, lifetime>>

\* GetSize purges before it counts; a bare call of Purge has the same effect.
GetSize ==
    /\ cache' = Purged
    /\ UNCHANGED <<now, lifetime, reply, accepts, until>>

\* The new lifetime is added to the old one.
AddLifetime_Mutant(l) ==
    /\ lifetime' = lifetime + l
    /\ UNCHANGED <<now, cache, reply, accepts, until>>

\* SetLifetime leaves the records already in the vector alone.
SetLifetime(l) ==
    /\ lifetime' = l
    /\ UNCHANGED <<now, cache, reply, accepts, until>>

\* The simulator's clock advances between events.
Tick ==
    /\ now < MaxTime
    /\ now' = now + 1
    /\ UNCHANGED <<lifetime, cache, reply, accepts, until>>

Next ==
    \/ \E k \in Key : IsDuplicate(k)
    \/ GetSize
    \/ \E l \in Lifetimes : SetLifetime(l)
    \/ Tick

Spec == Init /\ [][Next]_vars

-----------------------------------------------------------------------------
(***************************************************************************)
(* The vector holds at most one record of a pair, live or dead: GetSize    *)
(* counts pairs, although nothing but the purge before the search stops a  *)
(* second push_back (ladzrp-id-cache.cc:9-18).                             *)
(***************************************************************************)
OneRecordPerKey ==
    \A u, v \in cache : u.key = v.key => u = v

(***************************************************************************)
(* A pair IsDuplicate called new is not called new again until the instant *)
(* its record ran out has passed, whatever calls came between and whatever *)
(* lifetime was set meanwhile.                                             *)
(***************************************************************************)
NoEarlyReaccept ==
    [][\A k \in Key : accepts'[k] # accepts[k] => until[k] < now]_vars

(***************************************************************************)
(* Purging lazily, at the next call, cannot be told from forgetting on     *)
(* time: the cache implements the abstract filter, a pair being known as   *)
(* long as its record has not run out.                                     *)
(***************************************************************************)
LiveRecords == {u \in cache : ~IsExpired(u)}

Filter == INSTANCE LadzrpDupFilter WITH known <- LiveRecords

ImplementsDupFilter == Filter!Spec

(***************************************************************************)
(* What makes NoEarlyReaccept inductive: a pair whose lifetime has not run *)
(* out still has its record in the vector.                                 *)
(***************************************************************************)
RecordKept ==
    \A k \in Key : until[k] >= now =>
        [key |-> k, expire |-> until[k]] \in cache

IInv == TypeOK /\ OneRecordPerKey /\ RecordKept
=============================================================================
