--------------------------- MODULE LadzrpDupFilter ---------------------------
(***************************************************************************)
(* What the flood code relies on when it asks the ID cache whether a       *)
(* (source, sequence number) pair is a duplicate: the first question about *)
(* a pair is answered "no", and from then on the pair is known for exactly *)
(* one lifetime, however often it is asked about meanwhile.                *)
(*                                                                         *)
(* There are no records to purge here: what has run out vanishes with the  *)
(* passing of time itself.  LadzrpIdCache implements this lazily.          *)
(***************************************************************************)
EXTENDS Integers

CONSTANTS Key,          \* the pairs the flood code asks about
          Lifetimes,    \* the lifetimes an owner may configure
          MaxTime       \* bound on the clock

VARIABLES now,          \* the simulator's clock
          lifetime,     \* how long a pair is known from its first question on
          known,        \* the pairs known at this instant, with their last instant
          reply         \* the last question and its answer

absVars == <<now, lifetime, known, reply>>

Init ==
    /\ now = 0
    /\ lifetime \in Lifetimes
    /\ known = {}
    /\ reply = {}

\* A pair is asked about.
Ask(k) ==
    \/ /\ \E r \in known : r.key = k
       /\ reply' = {[key |-> k, dup |-> TRUE]}
       /\ UNCHANGED <<now, lifetime, known>>
    \/ /\ \A r \in known : r.key # k
       /\ known' = known \union {[key |-> k, expire |-> now + lifetime]}
       /\ reply' = {[key |-> k, dup |-> FALSE]}
       /\ UNCHANGED <<now, lifetime>>

\* A new lifetime concerns the pairs first asked about from now on.
Configure(l) ==
    /\ lifetime' = l
    /\ UNCHANGED <<now, known, reply>>

\* Time passes, and takes with it what is known no longer.
Pass ==
    /\ now < MaxTime
    /\ now' = now + 1
    /\ known' = {r \in known : r.expire >= now + 1}
    /\ UNCHANGED <<lifetime, reply>>

Next ==
    \/ \E k \in Key : Ask(k)
    \/ \E l \in Lifetimes : Configure(l)
    \/ Pass

Spec == Init /\ [][Next]_absVars
=============================================================================
