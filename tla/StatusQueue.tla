---------------------------- MODULE StatusQueue -----------------------------
(***************************************************************************)
(* The status queue of dash_receiver.c: the UART loop and the control      *)
(* server offer messages to a ring guarded by g_status_mutex and never     *)
(* wait; one thread drains it and posts each message over HTTP.            *)
(*                                                                         *)
(* A critical section is one action. A message is the number of its offer. *)
(* No name is one of DashThreads: the proofs about dash_receiver extend    *)
(* both.                                                                   *)
(***************************************************************************)
EXTENDS Integers, Sequences

CONSTANTS
  Size,       \* STATUS_QUEUE_SIZE: 32 in the code
  Garbage,    \* a slot never written
  MaxOffered  \* bound: messages offered

ASSUME QueueAssumption ==
  Size \in Nat \ {0} /\ MaxOffered \in Nat /\ Garbage \notin Nat

VARIABLES
  queue,      \* g_status_queue, slots 0 .. Size - 1
  head,       \* g_status_head
  tail,       \* g_status_tail
  count,      \* g_status_count
  pc,         \* status_reporter_thread: "check", "asleep" or "post"
  message,    \* its local copy
  offered,    \* messages offered so far
  backlog,    \* history: messages accepted and not taken, oldest first
  delivered   \* history: messages posted, oldest first

queueVars == <<queue, head, tail, count, pc, message, offered, backlog, delivered>>

Slots == 0 .. Size - 1

(* A bug the code avoids: the waiter is not told.                          *)
NoCondSignal == pc

(* pthread_cond_signal: a waiting thread will look again.                  *)
CondSignal == IF pc = "asleep" THEN "check" ELSE pc

(* A bug the code avoids: a full queue takes one message more.             *)
HasRoomOffByOne == count <= Size

HasRoom == count < Size

(* reporter_post_status_message: queued, or dropped when the ring is full. *)
Offer ==
  /\ offered < MaxOffered
  /\ offered' = offered + 1
  /\ IF HasRoom
       THEN /\ queue' = [queue EXCEPT ![tail] = offered']
            /\ tail' = (tail + 1) % Size
            /\ count' = count + 1
            /\ pc' = CondSignal
            /\ backlog' = Append(backlog, offered')
       ELSE UNCHANGED <<queue, tail, count, pc, backlog>>
  /\ UNCHANGED <<head, message, delivered>>

(* pthread_cond_wait on an empty queue.                                    *)
CondWait ==
  /\ pc = "check"
  /\ count = 0
  /\ pc' = "asleep"
  /\ UNCHANGED <<queue, head, tail, count, message, offered, backlog, delivered>>

(* A condition variable may wake its waiter unasked.                       *)
WakeUnasked ==
  /\ pc = "asleep"
  /\ pc' = "check"
  /\ UNCHANGED <<queue, head, tail, count, message, offered, backlog, delivered>>

(* A bug the code avoids: the newest message is taken.                     *)
NewestMessage == queue[(tail + Size - 1) % Size]

OldestMessage == queue[head]

(* Bugs the code avoids: a head that sticks, or runs past the ring.        *)
SameHead == head

HeadPastEnd == head + 1

NextHead == (head + 1) % Size

TakeMessage ==
  /\ pc = "check"
  /\ count > 0
  /\ message' = OldestMessage
  /\ head' = NextHead
  /\ count' = count - 1
  /\ pc' = "post"
  /\ backlog' = Tail(backlog)
  /\ UNCHANGED <<queue, tail, offered, delivered>>

(* The HTTP post, outside the mutex; a post that fails is not repeated.    *)
Post ==
  /\ pc = "post"
  /\ pc' = "check"
  /\ delivered' = Append(delivered, message)
  /\ UNCHANGED <<queue, head, tail, count, message, offered, backlog>>

QueueInit ==
  /\ queue = [s \in Slots |-> Garbage]
  /\ head = 0 /\ tail = 0 /\ count = 0
  /\ pc = "check" /\ message = Garbage
  /\ offered = 0 /\ backlog = <<>> /\ delivered = <<>>

StatusReporter == CondWait \/ TakeMessage \/ Post

QueueNext == Offer \/ StatusReporter \/ WakeUnasked

(* A thread that can run is scheduled; nothing is assumed of the offers.   *)
QueueSpec == QueueInit /\ [][QueueNext]_queueVars /\ WF_queueVars(StatusReporter)

-----------------------------------------------------------------------------
(* Properties                                                              *)

Message == 1 .. MaxOffered

QueueTypeOK ==
  /\ queue \in [Slots -> Message \cup {Garbage}]
  /\ head \in Slots /\ tail \in Slots
  /\ count \in 0 .. Size
  /\ pc \in {"check", "asleep", "post"}
  /\ message \in Message \cup {Garbage}
  /\ offered \in 0 .. MaxOffered
  /\ backlog \in Seq(Message)
  /\ delivered \in Seq(Message)

(* The slot d places after head, for d below Size.                         *)
SlotAt(d) == IF head + d < Size THEN head + d ELSE head + d - Size

(* The ring holds what was accepted and not yet taken, in order: head,     *)
(* tail and count agree, and no message overwrites one that waits.         *)
RingIsBacklog ==
  /\ count = Len(backlog)
  /\ tail = (IF count = Size THEN head ELSE SlotAt(count))
  /\ \A d \in 0 .. count - 1 : queue[SlotAt(d)] = backlog[d + 1]

(* The thread sleeps only on an empty queue: no interleaving of an offer   *)
(* with its check loses the wake-up.                                       *)
NoLostWakeup == pc = "asleep" => count = 0

(* Messages reach the dashboard in the order they were offered, none of    *)
(* them twice, whatever was dropped in between.                            *)
InOrder ==
  \A i, j \in DOMAIN delivered : i < j => delivered[i] < delivered[j]

(* Every message that was queued is posted.                                *)
QueuedIsPosted ==
  \A m \in Message :
    (\E i \in DOMAIN backlog : backlog[i] = m)
      ~> (\E i \in DOMAIN delivered : delivered[i] = m)
=============================================================================
