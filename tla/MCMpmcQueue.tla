----------------------------- MODULE MCMpmcQueue -----------------------------
(* Small instances of MpmcQueue: which threads run, what they may call and *)
(* how often.  Values are 1 and 2; 0 is the data of a cleared entry.       *)
EXTENDS MpmcQueue, TLC

CONSTANTS t1, t2, t3   \* threads

MCValues == {0, 1, 2}

Req(op, v) == [op |-> op, data |-> v, old |-> 0, index |-> 0]
Reads(ops) == { Req(op, 0) : op \in ops }

(* exchange at index i, of a 1 for a 2. *)
Swap(i) == [op |-> "exchange", data |-> 2, old |-> 1, index |-> Wrap(i)]

(* A producer, a consumer that may also push, and a thread that uses the   *)
(* other operations.                                                       *)
EveryRequests ==
  t1 :> {Req("push", 1)} @@ t2 :> {Req("push", 2)} \cup Reads({"pop"})
  @@ t3 :> Reads({"pop", "peek", "pop_if", "consume", "empty"}) \cup {Swap(First)}
EveryCalls == t1 :> 3 @@ t2 :> 3 @@ t3 :> 2

(* A producer that may keep the last N, a thread that may push or pop and  *)
(* may die, and one on the read side.                                      *)
MixRequests == t1 :> {Req("push", 1), Req("push_keep_n", 2)}
               @@ t2 :> {Req("push", 2)} \cup Reads({"pop", "pop_if"})
               @@ t3 :> Reads({"peek", "empty", "pop_if"})
MixCalls == t1 :> 3 @@ t2 :> 1 @@ t3 :> 2

(* Producers that discard the oldest element of a full queue, and one that *)
(* does not.                                                               *)
KeepRequests == t1 :> {Req("push_keep_n", 1), Req("push_keep_n", 2)}
                @@ t2 :> {Req("push_keep_n", 2)} @@ t3 :> {Req("push", 1)}
KeepCalls == t1 :> 3 @@ t2 :> 2 @@ t3 :> 1

(* Two producers and a consumer. *)
PushersRequests == t1 :> {Req("push", 1)} @@ t2 :> {Req("push", 2)}
                   @@ t3 :> Reads({"pop"})
PushersCalls == t1 :> 3 @@ t2 :> 2 @@ t3 :> 4

(* One thread on its own. *)
AloneRequests == t1 :> {Req("push", 1)} \cup Reads({"pop", "peek", "empty"})
AloneCalls == t1 :> 5
==============================================================================
