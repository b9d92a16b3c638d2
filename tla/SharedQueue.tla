----------------------------- MODULE SharedQueue -----------------------------
(***************************************************************************)
(* shared_mpmc_queue.h: processes that share an mpmc_queue in a file, each *)
(* running the program of shared_q_test.cpp.  The first one to come lays   *)
(* out the file, the others attach; any of them may be killed at any       *)
(* moment and started anew.                                                *)
(*                                                                         *)
(* The memory of the queue is modelled word by word, because processes can *)
(* meet it before it has been constructed (it is zero-filled then), or in  *)
(* the middle.  A call that finds what it looks for takes one step here:   *)
(* its single accesses are in MpmcQueue.  So is the wrap-around of the     *)
(* indexes, which only grow here.                                          *)
(***************************************************************************)
EXTENDS Integers, Sequences, FiniteSets

CONSTANTS
  Procs,      \* processes
  Roles,      \* what a process may be started as
  N,          \* capacity of the queue
  Data,       \* the values a producer pushes, a sequence
  MaxStarts,  \* bound on the number of processes started (for TLC)
  Overlap     \* may a process open the file while another creates it?

ASSUME SharedAssumption == /\ IsFiniteSet(Procs)
                           /\ N \in Nat \ {0}
                           /\ Data \in Seq(Nat) /\ MaxStarts \in Nat
                           /\ Overlap \in BOOLEAN
                           /\ Roles \subseteq {"producer", "consumer", "viewer"}

VARIABLES
  header,          \* of the file: "short", "zero" or "valid"
  producer_count, consumer_count,
  write_index, read_index,
  slots,           \* the entries of the queue
  pc, role,
  next,            \* next[p]: the position in Data of p's next push, or the
                   \* next entry of the constructor's loop, from 1
  starts,          \* processes started so far
  leaked,          \* history: the counts processes took along when killed
  pushed, popped   \* history: all elements ever pushed and popped

counters == <<producer_count, consumer_count>>
memory == <<write_index, read_index, slots>>
file == <<header, counters, memory>>
history == <<leaked, pushed, popped>>
svars == <<file, pc, role, next, starts, history>>

Slots == 0 .. N - 1
Blank == [seq |-> 0, data |-> 0]                    \* zero-filled memory
Vacant(i) == [seq |-> 2 * i, data |-> 0]            \* ready for the i-th push
Filled(i, d) == [seq |-> 2 * i + 1, data |-> d]     \* what that push leaves
IsFull(e) == e.seq % 2 = 1

SInit == /\ header = "short"
         /\ producer_count = 0 /\ consumer_count = 0
         /\ write_index = 0 /\ read_index = 0
         /\ slots = [i \in Slots |-> Blank]
         /\ pc = [p \in Procs |-> "off"]
         /\ role = [p \in Procs |-> "viewer"]
         /\ next = [p \in Procs |-> 1]
         /\ starts = 0
         /\ leaked = [r \in {"producer", "consumer"} |-> 0]
         /\ pushed = << >> /\ popped = << >>

Goto(p, l) == pc' = [pc EXCEPT ![p] = l]
At(p, l) == pc[p] = l

(* Faults. *)
(* every process constructs the queue it has mapped *)
AfterHeader_Create(h) == IF h = "zero" THEN "off" ELSE "truncate"
(* the destructor of the producer forgets the counter *)
Leaving_Keeps(r) == UNCHANGED <<producer_count, consumer_count>>
(* a consumer is counted as a producer *)
Entering_Producer(r) ==
  /\ producer_count' = producer_count + 1 /\ UNCHANGED consumer_count
------------------------------------------------------------------------------
(* The constructor. *)

Creating == {"truncate", "write", "construct", "clear", "lay"}

(* main, with -p, -c or no argument. *)
Start(p) == /\ At(p, "off")
            /\ starts < MaxStarts
            /\ Overlap \/ \A q \in Procs : pc[q] \notin Creating \cup {"open"}
            /\ starts' = starts + 1
            /\ \E r \in Roles : role' = [role EXCEPT ![p] = r]
            /\ next' = [next EXCEPT ![p] = 1]
            /\ Goto(p, "open")
            /\ UNCHANGED <<file, history>>

(* What a process does with the header it has read: a short read makes it  *)
(* the creator; a header that does not match ends it, exit(1).             *)
AfterHeader(h) == CASE h = "short" -> "truncate"
                    [] h = "zero" -> "off"
                    [] h = "valid" -> "map"

Open(p) == /\ At(p, "open")
           /\ Goto(p, AfterHeader(header))
           /\ UNCHANGED <<file, role, next, starts, history>>

(* ftruncate fills a new file with zeros and leaves an old one as it is.   *)
Truncate(p) == /\ At(p, "truncate")
               /\ header' = IF header = "short" THEN "zero" ELSE header
               /\ Goto(p, "write")
               /\ UNCHANGED <<counters, memory, role, next, starts, history>>

WriteHeader(p) == /\ At(p, "write")
                  /\ header' = "valid"
                  /\ producer_count' = 0 /\ consumer_count' = 0
                  /\ Goto(p, "construct")
                  /\ UNCHANGED <<memory, role, next, starts, history>>

(* Placement new: the indexes, then the entries, each first cleared by the *)
(* constructor of the array and then given its sequence word.              *)
ConstructIndexes(p) == /\ At(p, "construct")
                       /\ write_index' = 0 /\ read_index' = 0
                       /\ Goto(p, "clear")
                       /\ UNCHANGED <<header, counters, slots, role, next,
                                      starts, history>>

(* One round of a loop over the entries.                                   *)
Loop(p, from, to, e) ==
  /\ At(p, from)
  /\ slots' = [slots EXCEPT ![next[p] - 1] = e]
  /\ next' = [next EXCEPT ![p] = IF @ = N THEN 1 ELSE @ + 1]
  /\ Goto(p, IF next[p] = N THEN to ELSE from)
  /\ UNCHANGED <<header, counters, write_index, read_index, role, starts, history>>

ClearEntry(p) == Loop(p, "clear", "lay", Blank)
LayEntry(p) == Loop(p, "lay", "ready", Vacant(next[p] - 1))

Attach(p) == /\ At(p, "map")
             /\ Goto(p, "ready")
             /\ UNCHANGED <<file, role, next, starts, history>>
------------------------------------------------------------------------------
(* The program. *)

Entering(r) ==
  /\ producer_count' = producer_count + (IF r = "producer" THEN 1 ELSE 0)
  /\ consumer_count' = consumer_count + (IF r = "consumer" THEN 1 ELSE 0)

Leaving(r) ==
  /\ producer_count' = producer_count - (IF r = "producer" THEN 1 ELSE 0)
  /\ consumer_count' = consumer_count - (IF r = "consumer" THEN 1 ELSE 0)

(* get_producer, get_consumer, or only a look at the queue. *)
Enter(p) == /\ At(p, "ready")
            /\ Entering(role[p])
            /\ Goto(p, CASE role[p] = "producer" -> "push"
                         [] role[p] = "consumer" -> "pop"
                         [] role[p] = "viewer" -> "off")
            /\ UNCHANGED <<header, memory, role, next, starts, history>>

(* push, whose result the program ignores.                                 *)
WriteWord == slots[write_index % N].seq
Pushing(p) == At(p, "push") /\ next[p] <= Len(Data)

Push(p) == /\ Pushing(p)
           /\ WriteWord = 2 * write_index
           /\ slots' = [slots EXCEPT ![write_index % N] = Filled(write_index, Data[next[p]])]
           /\ write_index' = write_index + 1
           /\ pushed' = Append(pushed, Data[next[p]])
           /\ next' = [next EXCEPT ![p] = @ + 1]
           /\ UNCHANGED <<header, counters, read_index, pc, role, starts, leaked, popped>>

(* One that does not find room: it gives up on a full queue, moves on an   *)
(* index that is behind, and otherwise looks again.  In memory nobody has  *)
(* constructed it does so for ever, at any slot but the first.             *)
WriteBehind == WriteWord \in {2 * write_index + 1, 2 * (write_index + N)}
WriteFull == WriteWord + 2 * N = 2 * write_index + 1

PushMisses(p) ==
  /\ Pushing(p)
  /\ WriteWord # 2 * write_index
  /\ write_index' = IF WriteBehind THEN write_index + 1 ELSE write_index
  /\ next' = IF WriteFull THEN [next EXCEPT ![p] = @ + 1] ELSE next
  /\ UNCHANGED <<header, counters, read_index, slots, pc, role, starts, history>>

PushedAll(p) == /\ At(p, "push") /\ next[p] > Len(Data)
                /\ Goto(p, "leave")
                /\ UNCHANGED <<file, role, next, starts, history>>

ReadWord == slots[read_index % N].seq
Emptied(i) == Vacant(i + N)

Pop(p) == /\ At(p, "pop")
          /\ ReadWord = 2 * read_index + 1
          /\ popped' = Append(popped, slots[read_index % N].data)
          /\ slots' = [slots EXCEPT ![read_index % N] = Emptied(read_index)]
          /\ read_index' = read_index + 1
          /\ UNCHANGED <<header, counters, write_index,
                         pc, role, next, starts, leaked, pushed>>

(* The same for pop, which gives up on an empty queue.                     *)
ReadBehind == ReadWord \in {2 * (read_index + N), 2 * (read_index + N) + 1}

PopMisses(p) ==
  /\ At(p, "pop")
  /\ ReadWord # 2 * read_index + 1
  /\ read_index' = IF ReadBehind THEN read_index + 1 ELSE read_index
  /\ Goto(p, IF ReadWord = 2 * read_index THEN "check" ELSE "pop")
  /\ UNCHANGED <<header, counters, write_index, slots, role, next, starts, history>>

(* get_producers_count() is a size_t: a negative count is not <= 0.        *)
Check(p) == /\ At(p, "check")
            /\ Goto(p, IF producer_count = 0 THEN "leave" ELSE "pop")
            /\ UNCHANGED <<file, role, next, starts, history>>

Leave(p) == /\ At(p, "leave")
            /\ Leaving(role[p])
            /\ Goto(p, "off")
            /\ UNCHANGED <<header, memory, role, next, starts, history>>

Registered(p) == pc[p] \in {"push", "pop", "check", "leave"}

(* The process is killed: its destructors do not run.                      *)
Kill(p) == /\ pc[p] # "off"
           /\ Goto(p, "off")
           /\ leaked' = IF Registered(p) THEN [leaked EXCEPT ![role[p]] = @ + 1]
                                         ELSE leaked
           /\ UNCHANGED <<file, role, next, starts, pushed, popped>>
------------------------------------------------------------------------------
Create(p) == \/ Truncate(p) \/ WriteHeader(p)
             \/ ConstructIndexes(p) \/ ClearEntry(p) \/ LayEntry(p)

Run(p) == \/ Open(p) \/ Create(p) \/ Attach(p) \/ Enter(p)
          \/ Push(p) \/ PushMisses(p) \/ PushedAll(p)
          \/ Pop(p) \/ PopMisses(p) \/ Check(p) \/ Leave(p)

AllOff == /\ starts = MaxStarts /\ \A p \in Procs : At(p, "off")
          /\ UNCHANGED svars

SNext == (\E p \in Procs : Start(p) \/ Run(p) \/ Kill(p)) \/ AllOff

SSpec == SInit /\ [][SNext]_svars

(* Every process runs until it ends or is killed.                          *)
SFairSpec == SSpec /\ \A p \in Procs : WF_svars(Run(p))
------------------------------------------------------------------------------
(* What is in the file: the elements from the oldest to the newest.        *)
Inside == { (slots[s].seq - 1) \div 2 : s \in { s \in Slots : IsFull(slots[s]) } }
Oldest == CHOOSE i \in Inside : \A j \in Inside : i <= j
Newest == CHOOSE i \in Inside : \A j \in Inside : j <= i

Queued == IF Inside = {} THEN << >>
          ELSE [k \in 1 .. Newest - Oldest + 1 |-> slots[(Oldest + k - 1) % N].data]

(* Whatever processes come, go and are killed, the elements left in the    *)
(* file by one are there for the next, in order: what has been popped and  *)
(* what is still queued is what has been pushed (README: "multiple         *)
(* processes and their threads can access a shared queue").                *)
NothingLost == popped \o Queued = pushed

(* Even if the file is created twice, under the feet of the processes that *)
(* use it, and read in the middle of it, no value comes out of the queue   *)
(* more often than it went in: cleared indexes lead nobody to an entry     *)
(* that has been popped before.                                            *)
Times(q, d) == Cardinality({ i \in 1 .. Len(q) : q[i] = d })
Copies(d) == Cardinality({ s \in Slots : IsFull(slots[s]) /\ slots[s].data = d })

NoneTwice ==
  \A d \in { popped[i] : i \in 1 .. Len(popped) } :
    Times(popped, d) + Copies(d) <= Times(pushed, d)

(* The counters in the file are the live producers and consumers and those *)
(* that were killed, which nobody ever takes off again.                    *)
Live(r) == { p \in Procs : Registered(p) /\ role[p] = r }

CountsAgree ==
  /\ producer_count = Cardinality(Live("producer")) + leaked["producer"]
  /\ consumer_count = Cardinality(Live("consumer")) + leaked["consumer"]

(* A consumer ends once the producers have, unless one of them was killed, *)
(* or the creator was before it had constructed the queue.                 *)
Unlaid == \E s \in Slots \ {0} : slots[s].seq = 0

ConsumersEnd ==
  \A p \in Procs :
    pc[p] \in {"pop", "check"}
      ~> pc[p] \notin {"pop", "check"} \/ leaked["producer"] > 0 \/ Unlaid
==============================================================================
