-------------------------- MODULE LadzrpRequestQueue --------------------------
(***************************************************************************)
(* The buffer for packets that wait for a route: class RequestQueue of     *)
(* src/model/ladzrp-rqueue.{h,cc}.  Nothing in the module instantiates it; *)
(* it is modelled from its own interface.  Every operation but Find purges *)
(* the vector first, and a packet that leaves without being dequeued has   *)
(* its ErrorCallback called.                                               *)
(*                                                                         *)
(* The callback is taken not to call the queue back: it would invalidate   *)
(* the iterators of the loop it is called from.                            *)
(***************************************************************************)
EXTENDS Integers, Sequences, FiniteSets

CONSTANTS Uids,         \* GetUid of the packets
          Dsts,         \* GetDestination of the headers
          MaxLens,      \* values given to the constructor and SetMaxQueueLen
          Timeouts,     \* values given to the constructor and SetQueueTimeout
          MaxTime,      \* bound on the clock
          MaxAccepted   \* bound on the packets queued

\* A queue of length 0 has no front to drop: Enqueue would read past its end.
ASSUME RequestQueueAssumption ==
    /\ MaxLens \subseteq Nat \ {0}
    /\ Timeouts \subseteq Nat
    /\ MaxTime \in Nat /\ MaxAccepted \in Nat

VARIABLES now,          \* Simulator::Now ()
          queue,        \* m_queue
          maxLen,       \* m_maxLen
          timeout,      \* m_queueTimeout
          accepted,     \* how many packets were queued; numbers the entries
          handed,       \* history: entries dequeued, and when
          errors        \* history: entries whose ErrorCallback was called

vars == <<now, queue, maxLen, timeout, accepted, handed, errors>>

QueueEntry == [uid : Uids, dst : Dsts, expire : Nat, number : 1..MaxAccepted]

TypeOK ==
    /\ now \in 0..MaxTime
    /\ queue \in Seq(QueueEntry)
    /\ maxLen \in MaxLens
    /\ timeout \in Timeouts
    /\ accepted \in 0..MaxAccepted
    /\ handed \in Seq([entry : QueueEntry, at : 0..MaxTime])
    /\ errors \in Seq(QueueEntry)

Init ==
    /\ now = 0
    /\ queue = <<>>
    /\ maxLen \in MaxLens
    /\ timeout \in Timeouts
    /\ accepted = 0
    /\ handed = <<>>
    /\ errors = <<>>

-----------------------------------------------------------------------------
\* What has expired is kept.
NeverExpired_Mutant(e) == FALSE

IsExpired(e) == e.expire < now

\* What is left of the vector q when all but the entries at the positions S are erased.
Remaining(q, S) ==
    LET left[n \in 0..Len(q)] ==
            IF n = 0 THEN <<>>
            ELSE IF n \in S THEN Append(left[n - 1], q[n])
            ELSE left[n - 1]
    IN  left[Len(q)]

\* The calls of Drop that Purge makes, and what it leaves.
Outdated == Remaining(queue, {i \in DOMAIN queue : IsExpired(queue[i])})

\* A purge that reports what has expired, and erases nothing.
ReportOnly_Mutant == queue

Purged == Remaining(queue, {i \in DOMAIN queue : ~IsExpired(queue[i])})

\* The newest entry is dropped in place of the oldest.
MakeRoomAtBack_Mutant(q) ==
    IF Len(q) = maxLen THEN [kept |-> SubSeq(q, 1, Len(q) - 1), dropped |-> <<q[Len(q)]>>]
    ELSE [kept |-> q, dropped |-> <<>>]

\* A vector that is exactly full loses its front, the most aged packet.
MakeRoom(q) ==
    IF Len(q) = maxLen THEN [kept |-> Remaining(q, DOMAIN q \ {1}), dropped |-> <<q[1]>>]
    ELSE [kept |-> q, dropped |-> <<>>]

Holds(q, uid, dst) == \E i \in DOMAIN q : q[i].uid = uid /\ q[i].dst = dst

\* A second copy of a packet is refused ...
Refuse(uid, dst) ==
    /\ Holds(Purged, uid, dst)
    /\ queue' = Purged
    /\ errors' = errors \o Outdated
    /\ UNCHANGED <<now, maxLen, timeout, accepted, handed>>

\* ... and any other is queued, for the timeout set at that time.
Accept(uid, dst) ==
    /\ ~Holds(Purged, uid, dst)
    /\ accepted < MaxAccepted
    /\ accepted' = accepted + 1
    /\ queue' = Append(MakeRoom(Purged).kept,
                       [uid |-> uid, dst |-> dst, expire |-> now + timeout,
                        number |-> accepted + 1])
    /\ errors' = errors \o Outdated \o MakeRoom(Purged).dropped
    /\ UNCHANGED <<now, maxLen, timeout, handed>>

Enqueue(uid, dst) == Refuse(uid, dst) \/ Accept(uid, dst)

\* The positions of the entries for a destination.
For(q, dst) == {i \in DOMAIN q : q[i].dst = dst}

DropPacketWithDst(dst) ==
    /\ queue' = Remaining(Purged, DOMAIN Purged \ For(Purged, dst))
    /\ errors' = errors \o Outdated \o Remaining(Purged, For(Purged, dst))
    /\ UNCHANGED <<now, maxLen, timeout, accepted, handed>>

LastFor_Mutant(q, dst) == {i \in For(q, dst) : \A j \in For(q, dst) : j =< i}

FirstFor(q, dst) == {i \in For(q, dst) : \A j \in For(q, dst) : i =< j}

\* Dequeue takes the first entry for the destination, if there is one.
Dequeue(dst) ==
    /\ \/ \E i \in FirstFor(Purged, dst) :
             /\ handed' = Append(handed, [entry |-> Purged[i], at |-> now])
             /\ queue' = Remaining(Purged, DOMAIN Purged \ {i})
       \/ /\ FirstFor(Purged, dst) = {}
          /\ queue' = Purged
          /\ UNCHANGED handed
    /\ errors' = errors \o Outdated
    /\ UNCHANGED <<now, maxLen, timeout, accepted>>

GetSize ==
    /\ queue' = Purged
    /\ errors' = errors \o Outdated
    /\ UNCHANGED <<now, maxLen, timeout, accepted, handed>>

\* Neither setter looks at what is queued.
SetMaxQueueLen(len) ==
    /\ maxLen' = len
    /\ UNCHANGED <<now, queue, timeout, accepted, handed, errors>>

\* The new timeout is added to the old one.
AddTimeout_Mutant(t) ==
    /\ timeout' = timeout + t
    /\ UNCHANGED <<now, queue, maxLen, accepted, handed, errors>>

SetQueueTimeout(t) ==
    /\ timeout' = t
    /\ UNCHANGED <<now, queue, maxLen, accepted, handed, errors>>

Tick ==
    /\ now < MaxTime
    /\ now' = now + 1
    /\ UNCHANGED <<queue, maxLen, timeout, accepted, handed, errors>>

Next ==
    \/ \E uid \in Uids, dst \in Dsts : Enqueue(uid, dst)
    \/ \E dst \in Dsts : DropPacketWithDst(dst)
    \/ \E dst \in Dsts : Dequeue(dst)
    \/ GetSize
    \/ \E len \in MaxLens : SetMaxQueueLen(len)
    \/ \E t \in Timeouts : SetQueueTimeout(t)
    \/ Tick

Spec == Init /\ [][Next]_vars

-----------------------------------------------------------------------------
(***************************************************************************)
(* Every packet Enqueue accepted has one fate: it is still queued, or was  *)
(* dequeued, or had its ErrorCallback called, each once, although purging, *)
(* overflow and DropPacketWithDst report in one loop and erase in another  *)
(* (ladzrp-rqueue.cc:32-38, 49-58, 104-113).                               *)
(***************************************************************************)
OneFate ==
    \A n \in 1..accepted :
        Cardinality({i \in DOMAIN queue : queue[i].number = n})
        + Cardinality({i \in DOMAIN handed : handed[i].entry.number = n})
        + Cardinality({i \in DOMAIN errors : errors[i].number = n}) = 1

(***************************************************************************)
(* Packets for a destination leave in the order they came, whatever was    *)
(* purged, refused or dropped between ("first found (the earliest) entry   *)
(* for given destination", ladzrp-rqueue.h:143).                           *)
(***************************************************************************)
InOrder ==
    \A i, j \in DOMAIN handed :
        i < j /\ handed[i].entry.dst = handed[j].entry.dst
            => handed[i].entry.number < handed[j].entry.number

(***************************************************************************)
(* No packet is handed out after its timeout, whichever timeout applied    *)
(* when it was queued.                                                     *)
(***************************************************************************)
NeverHandedLate ==
    \A i \in DOMAIN handed : handed[i].at =< handed[i].entry.expire

(***************************************************************************)
(* A packet is given up before its time only for its destination or, when  *)
(* the queue is full, if no older one is left in it ("drop the most aged   *)
(* packet", ladzrp-rqueue.cc:37).                                          *)
(***************************************************************************)
OldestMakesRoom ==
    [][accepted' # accepted =>
         \A i \in DOMAIN errors' \ DOMAIN errors :
             errors'[i].expire >= now =>
                 \A j \in DOMAIN queue' : errors'[i].number < queue'[j].number]_vars
=============================================================================
