------------------------------ MODULE QueuePack ------------------------------
(***************************************************************************)
(* mpmc_queue_pack.h: G queues behind one interface.  A producer object is *)
(* bound to one queue when it is made.  A consumer object stays with one   *)
(* queue for K pops, then moves to the next; when its queue is empty it    *)
(* tries the others in turn.  The queues are the sequences MpmcQueue       *)
(* implements; each access to one of them is a step.                       *)
(***************************************************************************)
EXTENDS Integers, Sequences

CONSTANTS
  Producers, Consumers,  \* the objects, each used by a thread of its own
  LiveConsumers,         \* the consumers whose threads never stop
  G, K,                  \* queues in the pack, pops before moving on
  N,                     \* capacity of a queue
  Items                  \* what each producer pushes: 1 .. Items

ASSUME PackAssumption == /\ G \in Nat \ {0} /\ K \in Nat \ {0}
                         /\ N \in Nat \ {0} /\ Items \in Nat
                         /\ LiveConsumers \subseteq Consumers

VARIABLES
  queues,                  \* queues[g]
  writers_count, readers_count,
  write_queue,             \* write_queue[p]: the queue of p, or Unbound
  read_queue, pop_count,   \* of each consumer
  pc, k,                   \* pc[c], and its loop counter in the scan
  sent, taken,             \* sent[p], taken[p]: elements of p pushed, popped
  passed,                  \* history, see Passed
  full                     \* history, see StillFull

objects == <<write_queue, writers_count, readers_count>>
reader == <<read_queue, pop_count, pc, k>>
kvars == <<queues, objects, reader, sent, taken, passed, full>>

Queues == 0 .. G - 1
Unbound == -1

KInit == /\ queues = [g \in Queues |-> << >>]
         /\ writers_count = 0 /\ readers_count = 0
         /\ write_queue = [p \in Producers |-> Unbound]
         /\ read_queue = [c \in Consumers |-> Unbound]
         /\ pop_count = [c \in Consumers |-> 0]
         /\ pc = [c \in Consumers |-> "new"]
         /\ k = [c \in Consumers |-> 0]
         /\ sent = [p \in Producers |-> 0]
         /\ taken = [p \in Producers |-> 0]
         /\ passed = [c \in Consumers |-> [g \in Queues |-> 0]]
         /\ full = [c \in Consumers |-> {}]

(* Faults. *)
(* the queue is chosen anew for every push *)
Bound_Anew(p) == sent[p] % G
(* one pop too many before moving on *)
Enough_Late(n) == n > K
(* the scan forgets one queue *)
ScanEnds_Early(i) == i + 1 >= G
(* the scan tries the same queue again *)
Beside_Same(g) == g
------------------------------------------------------------------------------
(* Producers. *)

MakeProducer(p) ==
  /\ write_queue[p] = Unbound
  /\ write_queue' = [write_queue EXCEPT ![p] = writers_count % G]
  /\ writers_count' = writers_count + 1
  /\ UNCHANGED <<queues, readers_count, reader, sent, taken, passed, full>>

Bound(p) == write_queue[p]

(* push fails on a full queue and the caller tries again.                  *)
Push(p) ==
  /\ write_queue[p] # Unbound
  /\ sent[p] < Items
  /\ Len(queues[Bound(p)]) < N
  /\ queues' = [queues EXCEPT ![Bound(p)] = Append(@, [from |-> p, n |-> sent[p] + 1])]
  /\ sent' = [sent EXCEPT ![p] = @ + 1]
  /\ UNCHANGED <<objects, reader, taken, passed, full>>
------------------------------------------------------------------------------
(* Consumers. *)

MakeConsumer(c) ==
  /\ pc[c] = "new"
  /\ read_queue' = [read_queue EXCEPT ![c] = readers_count % G]
  /\ readers_count' = readers_count + 1
  /\ pc' = [pc EXCEPT ![c] = "idle"]
  /\ UNCHANGED <<queues, write_queue, writers_count, pop_count, k,
                 sent, taken, passed, full>>

Beside(g) == (g + 1) % G
Enough(n) == n >= K

(* How many pops consumer c has made since queue h was last empty or last  *)
(* visited by c.                                                           *)
Passed(c, g) ==
  [d \in Consumers |-> [h \in Queues |->
     IF queues'[h] = << >> \/ (d = c /\ h = g) THEN 0
     ELSE IF d = c THEN passed[d][h] + 1 ELSE passed[d][h]]]

(* The queues that have had an element all through the current call of c.  *)
StillFull == [c \in Consumers |-> { g \in full[c] : queues'[g] # << >> }]

Take(c, g) ==
  LET e == Head(queues[g]) IN
  /\ queues[g] # << >>
  /\ queues' = [queues EXCEPT ![g] = Tail(@)]
  /\ taken' = [taken EXCEPT ![e.from] = @ + 1]
  /\ passed' = Passed(c, g)
  /\ full' = StillFull
  /\ pc' = [pc EXCEPT ![c] = "idle"]

PopCall(c) == /\ pc[c] = "idle"
              /\ pc' = [pc EXCEPT ![c] = "own"]
              /\ full' = [full EXCEPT ![c] = { g \in Queues : queues[g] # << >> }]
              /\ UNCHANGED <<queues, objects, read_queue, pop_count, k,
                             sent, taken, passed>>

PopOwn(c) ==
  LET n == pop_count[c] + 1 IN
  /\ pc[c] = "own"
  /\ Take(c, read_queue[c])
  /\ IF Enough(n)
     THEN /\ pop_count' = [pop_count EXCEPT ![c] = 0]
          /\ read_queue' = [read_queue EXCEPT ![c] = Beside(@)]
     ELSE /\ pop_count' = [pop_count EXCEPT ![c] = n]
          /\ UNCHANGED read_queue
  /\ UNCHANGED <<objects, k, sent>>

(* pop returns false when the loop over the other queues is through.       *)
ScanEnds(i) == i >= G
Scan(c, i) == /\ k' = [k EXCEPT ![c] = i]
              /\ pc' = [pc EXCEPT ![c] = IF ScanEnds(i) THEN "idle" ELSE "scan"]

OwnEmpty(c) ==
  /\ pc[c] = "own"
  /\ queues[read_queue[c]] = << >>
  /\ pop_count' = [pop_count EXCEPT ![c] = 0]
  /\ Scan(c, 1)
  /\ UNCHANGED <<queues, objects, read_queue, sent, taken, passed, full>>

(* A pop in the scan does not count towards K.                             *)
ScanTake(c) ==
  /\ pc[c] = "scan"
  /\ read_queue' = [read_queue EXCEPT ![c] = Beside(@)]
  /\ Take(c, Beside(read_queue[c]))
  /\ UNCHANGED <<objects, pop_count, k, sent>>

ScanEmpty(c) ==
  /\ pc[c] = "scan"
  /\ queues[Beside(read_queue[c])] = << >>
  /\ read_queue' = [read_queue EXCEPT ![c] = Beside(@)]
  /\ Scan(c, k[c] + 1)
  /\ UNCHANGED <<queues, objects, pop_count, sent, taken, passed, full>>
------------------------------------------------------------------------------
Produce(p) == MakeProducer(p) \/ Push(p)
Consume(c) == \/ MakeConsumer(c) \/ PopCall(c) \/ PopOwn(c) \/ OwnEmpty(c)
              \/ ScanTake(c) \/ ScanEmpty(c)

KNext == (\E p \in Producers : Produce(p)) \/ (\E c \in Consumers : Consume(c))

KSpec == KInit /\ [][KNext]_kvars

(* Producers and live consumers keep running, the latter polling for ever; *)
(* another consumer may stop at any moment, in a call or between two.      *)
KFairSpec == /\ KSpec
             /\ \A p \in Producers : WF_kvars(Produce(p))
             /\ \A c \in LiveConsumers : WF_kvars(Consume(c))
------------------------------------------------------------------------------
(* Where the elements of producer p are in queue g.                        *)
At(g, p) == { i \in DOMAIN queues[g] : queues[g][i].from = p }

(* The elements of a producer leave the pack in the order in which it      *)
(* pushed them, each once, whatever the consumers do: those still inside   *)
(* are the ones after the last one taken, all in one queue, in order.      *)
InOrder ==
  \A p \in Producers : \E g \in Queues :
    /\ \A h \in Queues \ {g} : At(h, p) = {}
    /\ { queues[g][i].n : i \in At(g, p) } = taken[p] + 1 .. sent[p]
    /\ \A i, j \in At(g, p) : i < j => queues[g][i].n < queues[g][j].n

(* pop answers "nothing there" only if every queue was empty at some       *)
(* moment of the call, though hardly ever all of them at the same moment.  *)
EmptySeen ==
  [][\A c \in Consumers :
       pc[c] \in {"own", "scan"} /\ pc'[c] = "idle" /\ taken' = taken => full[c] = {}
    ]_kvars

(* No queue starves: a consumer comes to a queue that holds an element     *)
(* after at most K + 1 pops from each of the others ("K - every how many   *)
(* successful pop, do a scan of the other queues", and one more, because   *)
(* the pop that found a queue by scanning is not counted).                 *)
Rotates ==
  \A c \in Consumers : \A g \in Queues : passed[c][g] <= (G - 1) * (K + 1)

(* Every element is delivered in the end, from whichever queue, as long as *)
(* one consumer goes on.                                                   *)
Delivered == <>(\A p \in Producers : taken[p] = Items)
==============================================================================
