----------------------------- MODULE SharedDeque ----------------------------
(***************************************************************************)
(* scl::details::SharedDeque: a deque behind a mutex and a condition       *)
(* variable.  Producers call PushBack; consumers call Pop, PopFront and    *)
(* Peek, which sleep on the condition variable while the deque is empty.   *)
(*                                                                         *)
(* Granularity: every body runs under the mutex and blocks only in         *)
(* mCond.wait, so that a body up to its wait or its end is one step;       *)
(* notify_one comes after the unlock and is a step of its own.  A wait may *)
(* also end without a notification (a spurious wakeup).                    *)
(***************************************************************************)
EXTENDS Naturals, Sequences, FiniteSets

CONSTANTS
    Producers,       \* threads that push
    Groups,          \* the sets of threads that may share a deque as consumers
    Peekers,         \* the consumers that use Peek before PopFront
    MaxPush          \* bound: items pushed over a run

Consumers == UNION Groups

ASSUME ThreadsAssumption ==
    /\ Producers \cap Consumers = {}
    /\ Peekers \subseteq Consumers
    /\ MaxPush \in Nat

\* A thread that peeks has the deque's consuming end to itself, as the sender
\* thread of a ThreadedSenderChannel does.
ASSUME PeekersAlone == \A group \in Groups : \A c \in group \cap Peekers : group = {c}

VARIABLES
    users,           \* the consumers of this deque, one of Groups
    mDeck,           \* the items, numbered in the order they were pushed
    notifying,       \* producers between unlock and notify_one
    call,            \* call[c]: the function consumer c is in, or "none"
    sleeping,        \* consumers waiting on mCond
    peeked,          \* peeked[c]: the item c last saw with Peek, 0 if none
    pushed,          \* history: how many items were pushed
    removed          \* history: the items removed, in order

vars == <<users, mDeck, notifying, call, sleeping, peeked, pushed, removed>>

Functions == {"Pop", "PopFront", "Peek"}

Init ==
    /\ users \in Groups
    /\ mDeck = <<>>
    /\ notifying = {}
    /\ call = [c \in Consumers |-> "none"]
    /\ sleeping = {}
    /\ peeked = [c \in Consumers |-> 0]
    /\ pushed = 0
    /\ removed = <<>>

-----------------------------------------------------------------------------

\* Mutant of PushBack: the item goes to the front.
PushFront(p) ==
    /\ p \notin notifying
    /\ pushed < MaxPush
    /\ pushed' = pushed + 1
    /\ mDeck' = <<pushed + 1>> \o mDeck
    /\ notifying' = notifying \cup {p}
    /\ UNCHANGED <<users, call, sleeping, peeked, removed>>

\* Mutant of PushBack: only a push on an empty deque notifies.
PushBackNotifiesIfEmpty(p) ==
    /\ p \notin notifying
    /\ pushed < MaxPush
    /\ pushed' = pushed + 1
    /\ mDeck' = Append(mDeck, pushed + 1)
    /\ notifying' = IF mDeck = <<>> THEN notifying \cup {p} ELSE notifying
    /\ UNCHANGED <<users, call, sleeping, peeked, removed>>

\* PushBack(item), up to the unlock.
PushBack(p) ==
    /\ p \notin notifying
    /\ pushed < MaxPush
    /\ pushed' = pushed + 1
    /\ mDeck' = Append(mDeck, pushed + 1)
    /\ notifying' = notifying \cup {p}
    /\ UNCHANGED <<users, call, sleeping, peeked, removed>>

\* The end of PushBack: at most one sleeper wakes.
NotifyOne(p) ==
    /\ p \in notifying
    /\ notifying' = notifying \ {p}
    /\ \/ /\ sleeping = {}
          /\ UNCHANGED sleeping
       \/ \E c \in sleeping : sleeping' = sleeping \ {c}
    /\ UNCHANGED <<users, mDeck, call, peeked, pushed, removed>>

\* A consumer calls f.  A peeking consumer removes what it has looked at
\* before it looks again, as the sender thread of ThreadedSenderChannel does.
Call(c, f) ==
    /\ c \in users
    /\ call[c] = "none"
    /\ \/ f = "Pop" /\ c \notin Peekers
       \/ f = "Peek" /\ c \in Peekers /\ peeked[c] = 0
       \/ f = "PopFront" /\ (c \in Peekers => peeked[c] # 0)
    /\ call' = [call EXCEPT ![c] = f]
    /\ UNCHANGED <<users, mDeck, notifying, sleeping, peeked, pushed, removed>>

\* while (mDeck.empty()) mCond.wait(lock): the consumer goes to sleep,
\* the first time or after a wakeup that came too late.
Wait(c) ==
    /\ call[c] # "none"
    /\ c \notin sleeping
    /\ mDeck = <<>>
    /\ sleeping' = sleeping \cup {c}
    /\ UNCHANGED <<users, mDeck, notifying, call, peeked, pushed, removed>>

\* Pop and PopFront, once the deque is not empty.
Remove(c) ==
    /\ call[c] \in {"Pop", "PopFront"}
    /\ c \notin sleeping
    /\ mDeck # <<>>
    /\ removed' = Append(removed, Head(mDeck))
    /\ mDeck' = Tail(mDeck)
    /\ peeked' = [peeked EXCEPT ![c] = 0]
    /\ call' = [call EXCEPT ![c] = "none"]
    /\ UNCHANGED <<users, notifying, sleeping, pushed>>

\* Peek, once the deque is not empty.
Look(c) ==
    /\ call[c] = "Peek"
    /\ c \notin sleeping
    /\ mDeck # <<>>
    /\ peeked' = [peeked EXCEPT ![c] = Head(mDeck)]
    /\ call' = [call EXCEPT ![c] = "none"]
    /\ UNCHANGED <<users, mDeck, notifying, sleeping, pushed, removed>>

\* mCond.wait returns without a notification.
SpuriousWakeup(c) ==
    /\ c \in sleeping
    /\ sleeping' = sleeping \ {c}
    /\ UNCHANGED <<users, mDeck, notifying, call, peeked, pushed, removed>>

Next ==
    \/ \E p \in Producers : PushBack(p) \/ NotifyOne(p)
    \/ \E c \in Consumers :
          \/ \E f \in Functions : Call(c, f)
          \/ Wait(c)
          \/ Remove(c)
          \/ Look(c)
          \/ SpuriousWakeup(c)

Spec == Init /\ [][Next]_vars

\* Threads inside a call keep running; nobody has to push or to call, and
\* nothing depends on spurious wakeups.
Fairness ==
    /\ \A p \in Producers : WF_vars(NotifyOne(p))
    /\ \A c \in Consumers : WF_vars(Wait(c)) /\ WF_vars(Remove(c)) /\ WF_vars(Look(c))

FairSpec == Spec /\ Fairness

-----------------------------------------------------------------------------
(* Properties *)

\* The types of the state: items are the numbers of the pushes.
TypeOK ==
    /\ mDeck \in Seq(1 .. MaxPush)
    /\ notifying \subseteq Producers
    /\ call \in [Consumers -> Functions \cup {"none"}]
    /\ sleeping \subseteq Consumers
    /\ peeked \in [Consumers -> 0 .. MaxPush]
    /\ pushed \in 0 .. MaxPush
    /\ removed \in Seq(1 .. MaxPush)

\* Items leave the deque in the order they entered it, each exactly once,
\* whichever consumers remove them (SharedDeque::Pop and PopFront).
NothingLost ==
    /\ Len(removed) + Len(mDeck) = pushed
    /\ \A i \in 1 .. Len(removed) : removed[i] = i
    /\ \A i \in 1 .. Len(mDeck) : mDeck[i] = Len(removed) + i

\* Only a consumer inside a call sleeps.
SleepersCalled == \A c \in sleeping : call[c] # "none"

\* The inductive invariant behind the safety properties.
IndInv == TypeOK /\ NothingLost /\ SleepersCalled

\* Peek hands out a reference that is used after the mutex is released:
\* when the thread that peeks is the only consumer, the item stays at the
\* front until that thread removes it, whatever is pushed meanwhile
\* (threaded_sender.cc: Peek, use, PopFront).
PeekStable ==
    \A c \in Consumers :
        peeked[c] # 0 => mDeck # <<>> /\ Head(mDeck) = peeked[c]

\* What makes PeekStable inductive: the other consumers of the deque, if any,
\* do not peek, and who peeks has no others.
PeekInd ==
    /\ users \in Groups
    /\ \A c \in Consumers :
          /\ call[c] # "none" => c \in users
          /\ call[c] = "Peek" => c \in Peekers
          /\ peeked[c] # 0 => c \in users \cap Peekers
    /\ PeekStable

\* The consumers inside a call that are not asleep: each of them still looks
\* at the deque.
Awake == {c \in Consumers : call[c] # "none" /\ c \notin sleeping}

\* The mutex is released before notify_one, so that another consumer may take
\* the item a notification was for, and a notification may come when nobody
\* sleeps (PushBack, Pop).  Still, while a consumer sleeps, every item in the
\* deque has somebody who will look at it: a push that has not notified yet or
\* a consumer that is awake.
ItemsAttended ==
    sleeping # {} => Len(mDeck) <= Cardinality(notifying) + Cardinality(Awake)

\* What makes it inductive: at any time, finitely many threads are in a call.
AttendInd == IsFiniteSet(notifying) /\ IsFiniteSet(Awake) /\ ItemsAttended

\* notify_one is called after the unlock, and once per push: a consumer
\* does not sleep forever next to a deque that stays non-empty.
NoLostWakeup ==
    \A c \in Consumers :
        (c \in sleeping /\ mDeck # <<>>) ~> (c \notin sleeping \/ mDeck = <<>>)

=============================================================================
