----------------------------- MODULE HarnessQueue -----------------------------
(***************************************************************************)
(* What the test and benchmark programs of src/src have in common: a main  *)
(* thread that starts producers and consumers and joins them, one queue    *)
(* between them, and a few shared atomics.  One run is one program.        *)
(*                                                                         *)
(* The queue is the sequence MpmcQueue implements, with one thing more:    *)
(* behind says that its read index lags, when empty() says no whatever the *)
(* queue holds.  A pop leaves it behind (for an eager queue, until the     *)
(* popping thread gets to its second compare-and-exchange).                *)
(***************************************************************************)
EXTENDS Integers, Sequences, FiniteSets

CONSTANTS
  Producers, Consumers, Main,  \* threads
  N,                           \* capacity of the queue
  Items,                       \* what each producer pushes
  Programs                     \* the programs to look at

ASSUME HarnessAssumption == /\ IsFiniteSet(Producers) /\ IsFiniteSet(Consumers)
                            /\ N \in Nat \ {0} /\ Items \in Nat \ {0}
                            /\ Main \notin Producers \cup Consumers
                            /\ Producers \cap Consumers = {}
                            /\ "none" \notin Consumers

VARIABLES
  program,          \* the program that runs
  queue, behind,
  pc,               \* pc[t]: where thread t is in it
  state,            \* the shared flag of the benchmarks
  producers_counter, consumers_counter,  \* shared counters of active threads
  sent, got,        \* sent[p], got[c]: local counts of pushes and pops
  push_counter, pop_counter,  \* the counts the threads have reported
  held,             \* held[c]: the element c has popped and not yet used
  lock,             \* lock[p]: who holds the spin lock of p's hash, or None
  out,              \* out[p]: what has been put into the hash of p's output
  hash_count        \* hash_count[p]: the number of elements it has counted

channel == <<queue, behind>>
flags == <<state, producers_counter, consumers_counter>>
counts == <<sent, got>>
reports == <<push_counter, pop_counter>>
hashing == <<held, lock, out, hash_count>>
hvars == <<program, channel, pc, flags, counts, reports, hashing>>

None == "none"
Threads == Producers \cup Consumers \cup {Main}
Element(p, i) == [from |-> p, n |-> i]
Zeros(S) == [t \in S |-> 0]
First(S) == CHOOSE t \in S : TRUE

(* Some of the programs have one producer, or one consumer.                *)
Team(prog) == CASE prog = "timing" -> {First(Producers), First(Consumers)}
                [] prog = "hash2" -> Producers \cup {First(Consumers)}
                [] OTHER -> Producers \cup Consumers

HInit == /\ program \in Programs
         /\ queue = << >> /\ behind = FALSE
         /\ pc = [t \in Threads |-> IF t = Main THEN "main"
                                    ELSE IF t \in Team(program) THEN "new" ELSE "done"]
         /\ state = 0 /\ producers_counter = 0 /\ consumers_counter = 0
         /\ sent = Zeros(Producers) /\ got = Zeros(Consumers)
         /\ push_counter = Zeros(Producers) /\ pop_counter = Zeros(Consumers)
         /\ held = [c \in Consumers |-> None]
         /\ lock = [p \in Producers |-> None]
         /\ out = [p \in Producers |-> << >>] /\ hash_count = Zeros(Producers)

Go(t, from, to) == pc[t] = from /\ pc' = [pc EXCEPT ![t] = to]

(* Main creates threads and goes on.  When each of them gets to run is the *)
(* scheduler's choice, so all of them are created in one step.             *)
Spawn(ts, from, to) ==
  /\ pc[Main] = from
  /\ pc' = [t \in Threads |-> IF t = Main THEN to
                              ELSE IF t \in ts /\ pc[t] = "new" THEN "start"
                              ELSE pc[t]]

Join(from) == /\ \A t \in Threads \ {Main} : pc[t] = "done"
              /\ Go(Main, from, "done")
------------------------------------------------------------------------------
(* The queue. *)

Push(p, e) == /\ Len(queue) < N
              /\ queue' = Append(queue, e)
              /\ sent' = [sent EXCEPT ![p] = @ + 1]
              /\ UNCHANGED <<behind, got>>

Pop(c) == /\ queue # << >>
          /\ queue' = Tail(queue) /\ behind' = TRUE
          /\ got' = [got EXCEPT ![c] = @ + 1]
          /\ UNCHANGED sent

(* A pop that finds nothing has brought the read index up to date.         *)
PopFails == queue = << >> /\ behind' = FALSE /\ UNCHANGED queue

SaysEmpty == queue = << >> /\ ~behind

(* The popping thread advances the index itself, unless the queue is lazy. *)
Advance == /\ behind /\ behind' = FALSE
           /\ UNCHANGED <<program, queue, pc, flags, counts, reports, hashing>>
==============================================================================
