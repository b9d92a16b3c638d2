-------------------------- MODULE SharedQueueProofs --------------------------
(* Safety of SharedQueue for any number of processes and starts: that no   *)
(* value is popped more often than it was pushed, and, as long as no       *)
(* process opens the file while another creates it, that nothing is lost   *)
(* and that the counters count.                                            *)
EXTENDS SharedQueue, ModularArithmetic, SequenceTheorems, FiniteSetTheorems

Ends == {"producer", "consumer"}
Places == Creating \cup {"off", "open", "map", "ready", "push", "pop", "check", "leave"}
Constructing == {"construct", "clear", "lay"}

STypeOK == /\ header \in {"short", "zero", "valid"}
           /\ producer_count \in Int /\ consumer_count \in Int
           /\ write_index \in Nat /\ read_index \in Nat
           /\ slots \in [Slots -> [seq : Nat, data : Nat]]
           /\ pushed \in Seq(Nat) /\ popped \in Seq(Nat)
           /\ pc \in [Procs -> Places]
           /\ role \in [Procs -> Ends \cup {"viewer"}]
           /\ next \in [Procs -> Nat \ {0}]
           /\ leaked \in [Ends -> Nat]

(* Only producers and consumers are counted, and the loops of the          *)
(* constructor stay within the array.                                      *)
Counted == \A p \in Procs : Registered(p) => role[p] \in Ends
InLoop == \A p \in Procs : pc[p] \in Creating \cup {"open"} => next[p] <= N

SShape == STypeOK /\ Counted /\ InLoop

(* One process at a time is in the constructor.                            *)
Alone == \A p, q \in Procs :
           pc[p] \in Creating \cup {"open"} /\ pc[q] \in Creating \cup {"open"} => p = q

(* What the creator knows of the header, having found it short.            *)
CreatorSees == \A p \in Procs : /\ At(p, "truncate") => header = "short"
                                /\ At(p, "write") => header = "zero"
                                /\ pc[p] \in Constructing => header = "valid"

(* Until the creator has constructed the queue (or died doing so), nobody  *)
(* has got as far as the queue, and nothing has happened to it.            *)
Early == header # "valid" \/ \E p \in Procs : pc[p] \in Constructing

Untouched == Early => /\ \A q \in Procs : pc[q] \in Creating \cup {"off", "open"}
                      /\ pushed = << >> /\ popped = << >>
                      /\ leaked = [r \in Ends |-> 0]

(* The memory: the slots serve the N numbers from the read index.  Those   *)
(* pushed are full; the others wait for their push, or, if the creator was *)
(* killed, may have been left blank for ever.                              *)
Serves(j) == IF j < write_index THEN slots[j % N] = Filled(j, pushed[j + 1])
             ELSE slots[j % N] \in {Vacant(j), Blank}

Kept == /\ write_index = Len(pushed) /\ read_index = Len(popped)
        /\ read_index <= write_index /\ write_index <= read_index + N
        /\ \A i \in 1 .. read_index : popped[i] = pushed[i]
        /\ \A j \in read_index .. read_index + N - 1 : Serves(j)

SInv == SShape /\ Alone /\ CreatorSees /\ Untouched /\ Kept /\ CountsAgree

Act(p) == Start(p) \/ Run(p) \/ Kill(p)
------------------------------------------------------------------------------
(* Shape. *)

LEMMA Capacity == N \in Nat \ {0}
BY SharedAssumption

LEMMA SlotOf ==
  ASSUME NEW i \in Nat
  PROVE  i % N \in Slots /\ i % N \in Nat
BY Capacity, Division DEF Slots

LEMMA ShapeInit == SInit => SShape
<1> SUFFICES ASSUME SInit PROVE SShape
  OBVIOUS
<1>1. STypeOK
  BY DEF SInit, STypeOK, Places, Ends, Slots, Blank
<1>2. Counted /\ InLoop
  BY Capacity DEF SInit, Counted, InLoop, Registered, Creating
<1> QED
  BY <1>1, <1>2 DEF SShape

LEMMA EntryTypes ==
  ASSUME NEW i \in Nat, NEW d \in Nat
  PROVE  /\ Vacant(i) \in [seq : Nat, data : Nat] /\ Filled(i, d) \in [seq : Nat, data : Nat]
         /\ Emptied(i) \in [seq : Nat, data : Nat] /\ Blank \in [seq : Nat, data : Nat]
BY Capacity DEF Vacant, Filled, Emptied, Blank

(* What each kind of step leaves in the queue's memory and histories.      *)
LEMMA TypeStep ==
  ASSUME SShape, NEW p \in Procs, Act(p)
  PROVE  STypeOK'
<1> USE DEF SShape, STypeOK, file, counters, memory, history
<1> DEFINE E == [seq : Nat, data : Nat]
<1>0. /\ \A l \in Places : Goto(p, l) => pc' \in [Procs -> Places]
      /\ {"truncate", "write", "construct", "clear", "lay"} \subseteq Places
      /\ {"off", "open", "map", "ready", "push", "pop", "check", "leave"} \subseteq Places
  BY DEF Goto, Places, Creating
<1>1. CASE Start(p)
  BY <1>0, <1>1, SharedAssumption DEF Start, Ends
<1>2. CASE Open(p)
  <2>1. AfterHeader(header) \in Places
    BY <1>0 DEF AfterHeader
  <2> QED
    BY <1>0, <1>2, <2>1 DEF Open
<1>3. CASE Truncate(p) \/ WriteHeader(p)
  BY <1>0, <1>3 DEF Truncate, WriteHeader
<1>4. CASE ConstructIndexes(p)
  BY <1>0, <1>4 DEF ConstructIndexes
<1>5. CASE ClearEntry(p) \/ LayEntry(p)
  <2>1. PICK from \in Places, to \in Places, e \in E : Loop(p, from, to, e)
    <3>1. next[p] - 1 \in Nat /\ "clear" \in Places /\ "lay" \in Places /\ "ready" \in Places
      BY <1>0
    <3>2. Vacant(next[p] - 1) \in E /\ Blank \in E
      BY <3>1, EntryTypes
    <3> QED
      BY <1>5, <3>1, <3>2 DEF ClearEntry, LayEntry
  <2>2. slots' \in [Slots -> E]
    BY <2>1 DEF Loop
  <2>3. next' \in [Procs -> Nat \ {0}]
    BY <2>1 DEF Loop
  <2>4. pc' \in [Procs -> Places]
    BY <1>0, <2>1 DEF Loop
  <2> QED
    BY <2>1, <2>2, <2>3, <2>4 DEF Loop
<1>6. CASE Attach(p)
  BY <1>0, <1>6 DEF Attach
<1>7. CASE Enter(p)
  <2>1. pc' \in [Procs -> Places]
    BY <1>0, <1>7 DEF Enter, Ends
  <2>2. producer_count' \in Int /\ consumer_count' \in Int
    BY <1>7 DEF Enter, Entering
  <2> QED
    BY <1>7, <2>1, <2>2 DEF Enter
<1>8. CASE Push(p)
  <2>1. Data[next[p]] \in Nat
    BY <1>8, SharedAssumption, ElementOfSeq DEF Push, Pushing
  <2>2. Filled(write_index, Data[next[p]]) \in E
    BY <2>1, EntryTypes
  <2>3. slots' \in [Slots -> E]
    BY <1>8, <2>2 DEF Push
  <2>4. pushed' \in Seq(Nat)
    BY <1>8, <2>1 DEF Push
  <2>5. next' \in [Procs -> Nat \ {0}]
    BY <1>8 DEF Push
  <2> QED
    BY <1>8, <2>3, <2>4, <2>5 DEF Push
<1>9. CASE PushMisses(p)
  BY <1>9 DEF PushMisses
<1>10. CASE PopMisses(p)
  BY <1>0, <1>10 DEF PopMisses
<1>11. CASE PushedAll(p)
  BY <1>0, <1>11 DEF PushedAll
<1>12. CASE Check(p)
  BY <1>0, <1>12 DEF Check
<1>13. CASE Pop(p)
  <2>1. slots[read_index % N] \in E
    BY SlotOf
  <2>2. popped' \in Seq(Nat)
    BY <1>13, <2>1 DEF Pop
  <2>3. slots' \in [Slots -> E]
    <3>1. Emptied(read_index) \in E
      BY EntryTypes
    <3> QED
      BY <1>13, <3>1 DEF Pop
  <2> QED
    BY <1>13, <2>2, <2>3 DEF Pop
<1>15. CASE Leave(p)
  <2>1. producer_count' \in Int /\ consumer_count' \in Int
    BY <1>15 DEF Leave, Leaving
  <2> QED
    BY <1>0, <1>15, <2>1 DEF Leave
<1>16. CASE Kill(p)
  <2>1. leaked' \in [Ends -> Nat]
    <3>1. CASE Registered(p)
      <4>1. role[p] \in Ends /\ leaked' = [leaked EXCEPT ![role[p]] = @ + 1]
        BY <3>1, <1>16 DEF Kill, Counted
      <4> QED
        BY <4>1
    <3>2. CASE ~Registered(p)
      BY <3>2, <1>16 DEF Kill
    <3> QED
      BY <3>1, <3>2
  <2> QED
    BY <1>0, <2>1, <1>16 DEF Kill
<1> QED
  BY <1>1, <1>2, <1>3, <1>4, <1>5, <1>6, <1>7, <1>8, <1>9, <1>10, <1>11, <1>12, <1>13,
     <1>15, <1>16 DEF Act, Run, Create

LEMMA CountedStep ==
  ASSUME SShape, NEW p \in Procs, Act(p)
  PROVE  Counted' /\ InLoop'
<1> USE Capacity DEF SShape, STypeOK, Counted, InLoop, Registered, Creating, At, Goto,
                 Ends, file, counters, memory, history
<1>1. CASE Start(p)
  BY <1>1 DEF Start
<1>2. CASE Open(p)
  BY <1>2 DEF Open, AfterHeader
<1>3. CASE Truncate(p) \/ WriteHeader(p) \/ ConstructIndexes(p)
  BY <1>3 DEF Truncate, WriteHeader, ConstructIndexes
<1>5. CASE ClearEntry(p)
  BY <1>5 DEF ClearEntry, Loop
<1>6. CASE LayEntry(p)
  BY <1>6 DEF LayEntry, Loop
<1>7. CASE Attach(p) \/ Leave(p)
  BY <1>7 DEF Attach, Leave
<1>8. CASE Enter(p)
  BY <1>8 DEF Enter
<1>9. CASE Push(p) \/ PushMisses(p)
  BY <1>9 DEF Push, PushMisses, Pushing
<1>10. CASE Pop(p) \/ PopMisses(p)
  BY <1>10 DEF Pop, PopMisses
<1>11. CASE PushedAll(p)
  BY <1>11 DEF PushedAll
<1>12. CASE Check(p)
  BY <1>12 DEF Check
<1>14. CASE Kill(p)
  BY <1>14 DEF Kill
<1> QED
  BY <1>1, <1>2, <1>3, <1>5, <1>6, <1>7, <1>8, <1>9, <1>10, <1>11, <1>12, <1>14
  DEF Act, Run, Create

(* Who is in the constructor, and what the others have done meanwhile.     *)
LEMMA CreationStep ==
  ASSUME ~Overlap, SShape, Alone, CreatorSees, Untouched, NEW p \in Procs, Act(p)
  PROVE  Alone' /\ CreatorSees' /\ Untouched'
<1> USE DEF SShape, STypeOK, Alone, CreatorSees, Untouched, Early, Constructing, Creating,
            At, Goto, Ends, file, counters, memory, history
<1>1. CASE Start(p)
  BY <1>1 DEF Start
<1>2. CASE Open(p)
  <2>1. CASE header = "short"
    BY <1>2, <2>1 DEF Open, AfterHeader
  <2>2. CASE header = "zero"
    BY <1>2, <2>2 DEF Open, AfterHeader
  <2>3. CASE header = "valid"
    BY <1>2, <2>3 DEF Open, AfterHeader
  <2> QED
    BY <2>1, <2>2, <2>3
<1>3. CASE Truncate(p)
  BY <1>3 DEF Truncate
<1>4. CASE WriteHeader(p)
  BY <1>4 DEF WriteHeader
<1>5. CASE ConstructIndexes(p)
  BY <1>5 DEF ConstructIndexes
<1>6. CASE ClearEntry(p)
  BY <1>6 DEF ClearEntry, Loop
<1>7. CASE LayEntry(p)
  BY <1>7 DEF LayEntry, Loop
<1>8. CASE Attach(p)
  BY <1>8 DEF Attach
<1>9. CASE Enter(p)
  <2>1. pc'[p] \in {"push", "pop", "off"} /\ \A q \in Procs \ {p} : pc'[q] = pc[q]
    BY <1>9 DEF Enter
  <2> QED
    BY <1>9, <2>1 DEF Enter
<1>10. CASE Push(p) \/ PushMisses(p)
  BY <1>10 DEF Push, PushMisses, Pushing
<1>11. CASE Pop(p) \/ PopMisses(p)
  BY <1>11 DEF Pop, PopMisses
<1>12. CASE PushedAll(p)
  BY <1>12 DEF PushedAll
<1>13. CASE Check(p)
  BY <1>13 DEF Check
<1>15. CASE Leave(p)
  BY <1>15 DEF Leave
<1>16. CASE Kill(p)
  <2>1. Alone' /\ CreatorSees'
    BY <1>16 DEF Kill
  <2>2. ASSUME Early' PROVE Untouched'
    <3>1. Early
      BY <1>16, <2>2 DEF Kill
    <3>2. leaked' = leaked
      BY <3>1, <1>16 DEF Kill, Registered
    <3> QED
      BY <3>1, <3>2, <1>16 DEF Kill
  <2> QED
    BY <2>1, <2>2
<1> QED
  BY <1>1, <1>2, <1>3, <1>4, <1>5, <1>6, <1>7, <1>8, <1>9, <1>10, <1>11, <1>12, <1>13,
     <1>15, <1>16 DEF Act, Run, Create
------------------------------------------------------------------------------
(* Memory. *)

LEMMA Distinct ==
  ASSUME NEW i \in Int, NEW j \in Int, i # j, i - j < N, j - i < N
  PROVE  i % N # j % N
BY Capacity, SameAndNear

LEMMA NextRound ==
  ASSUME NEW i \in Nat
  PROVE  (i + N) % N = i % N
<1>1. (i + N * 1) % N = i % N
  <2>1. i \in Int /\ N \in Nat \ {0} /\ 1 \in Int
    BY Capacity
  <2> QED
    BY <2>1, AddMultiple
<1>2. i + N * 1 = i + N
  BY Capacity
<1> QED
  BY <1>1, <1>2

LEMMA OwnSlot ==
  ASSUME NEW i \in 0 .. N - 1
  PROVE  i % N = i
BY Capacity

(* What the words at the two indexes can be.                               *)
LEMMA Words ==
  ASSUME SShape, Kept
  PROVE  /\ ReadWord \in {2 * read_index, 2 * read_index + 1, 0}
         /\ ReadWord = 2 * read_index + 1
              => /\ read_index < write_index
                 /\ slots[read_index % N] = Filled(read_index, pushed[read_index + 1])
         /\ write_index < read_index + N => WriteWord \in {2 * write_index, 0}
         /\ ~(write_index < read_index + N) => WriteWord = 2 * read_index + 1
<1> USE DEF SShape, STypeOK
<1>1. N \in Nat \ {0}
  BY Capacity
<1>2. Serves(read_index)
  BY <1>1 DEF Kept
<1>3. ReadWord = slots[read_index % N].seq
  BY DEF ReadWord
<1>4. CASE read_index < write_index
  <2>1. slots[read_index % N] = Filled(read_index, pushed[read_index + 1])
    BY <1>2, <1>4 DEF Serves
  <2>2. ReadWord = 2 * read_index + 1
    BY <1>3, <2>1 DEF Filled
  <2>3. ~(write_index < read_index + N) => WriteWord = ReadWord
    <3> SUFFICES ASSUME ~(write_index < read_index + N) PROVE WriteWord = ReadWord
      OBVIOUS
    <3>1. write_index = read_index + N
      <4>1. /\ write_index \in Nat /\ read_index \in Nat /\ N \in Nat
            /\ write_index <= read_index + N /\ ~(write_index < read_index + N)
        BY <1>1 DEF Kept
      <4> HIDE DEF STypeOK, SShape
      <4> QED
        BY <4>1
    <3> QED
      BY <3>1, NextRound DEF WriteWord, ReadWord
  <2>4. write_index < read_index + N => WriteWord \in {2 * write_index, 0}
    <3> SUFFICES ASSUME write_index < read_index + N PROVE WriteWord \in {2 * write_index, 0}
      OBVIOUS
    <3>1. Serves(write_index)
      BY <1>1, <1>4 DEF Kept
    <3>2. slots[write_index % N] \in {Vacant(write_index), Blank}
      BY <3>1 DEF Serves
    <3> QED
      BY <3>2 DEF WriteWord, Vacant, Blank
  <2> QED
    BY <1>4, <2>1, <2>2, <2>3, <2>4
<1>5. CASE ~(read_index < write_index)
  <2>1. write_index = read_index
    BY <1>5 DEF Kept
  <2>2. slots[read_index % N] \in {Vacant(read_index), Blank}
    BY <1>2, <1>5 DEF Serves
  <2>3. ReadWord \in {2 * read_index, 0} /\ WriteWord = ReadWord
    BY <2>1, <2>2 DEF Vacant, Blank, WriteWord, ReadWord
  <2> QED
    BY <1>1, <2>1, <2>3
<1> QED
  BY <1>4, <1>5

LEMMA KeptPush ==
  ASSUME SShape, Kept, NEW p \in Procs, Push(p)
  PROVE  Kept'
<1> DEFINE d == Data[next[p]]
<1>0. /\ write_index \in Nat /\ read_index \in Nat
      /\ slots \in [Slots -> [seq : Nat, data : Nat]]
      /\ pushed \in Seq(Nat) /\ popped \in Seq(Nat) /\ next[p] \in Nat \ {0}
      /\ read_index <= write_index /\ write_index <= read_index + N
      /\ write_index = Len(pushed) /\ read_index = Len(popped)
  BY DEF SShape, STypeOK, Kept
<1>1. N \in Nat \ {0} /\ d \in Nat
  BY <1>0, Capacity, SharedAssumption, ElementOfSeq DEF Push, Pushing
<1>2. /\ pushed' = Append(pushed, d) /\ popped' = popped
      /\ write_index' = write_index + 1 /\ read_index' = read_index
      /\ slots' = [slots EXCEPT ![write_index % N] = Filled(write_index, d)]
      /\ WriteWord = 2 * write_index
  BY DEF Push
<1> HIDE DEF d
<1>3. write_index < read_index + N
  <2> SUFFICES ASSUME ~(write_index < read_index + N) PROVE FALSE
    OBVIOUS
  <2>1. 2 * write_index = 2 * read_index + 1
    BY <1>2, Words
  <2> QED
    BY <1>0, <2>1
<1>4. /\ Len(pushed') = write_index + 1 /\ pushed'[write_index + 1] = d
      /\ \A i \in 1 .. write_index : pushed'[i] = pushed[i]
  BY <1>0, <1>1, <1>2, AppendProperties
<1>5. \A i \in 1 .. read_index : popped'[i] = pushed'[i]
  BY <1>0, <1>2, <1>4 DEF Kept
<1>6. ASSUME NEW j \in read_index .. read_index + N - 1 PROVE Serves(j)'
  <2>1. Serves(j) /\ j \in Nat
    BY <1>0, <1>1 DEF Kept
  <2>2. CASE j = write_index
    <3>1. slots'[j % N] = Filled(j, d)
      BY <1>0, <1>2, <2>2, SlotOf
    <3> QED
      BY <1>0, <1>2, <1>4, <2>2, <3>1 DEF Serves
  <2>3. CASE j # write_index
    <3>1. j % N # write_index % N
      <4>1. j - write_index < N /\ write_index - j < N /\ write_index \in Int /\ j \in Int
        BY <1>0, <1>1, <1>3
      <4> QED
        BY <4>1, <2>3, Distinct
    <3>2. slots'[j % N] = slots[j % N]
      BY <1>0, <1>2, <2>1, <3>1, SlotOf
    <3>3. j < write_index => pushed'[j + 1] = pushed[j + 1]
      BY <1>0, <1>4, <2>1
    <3>4. j < write_index' <=> j < write_index
      BY <1>0, <1>2, <2>1, <2>3
    <3> QED
      BY <2>1, <3>2, <3>3, <3>4 DEF Serves
  <2> QED
    BY <2>2, <2>3
<1>7. \A j \in read_index' .. read_index' + N - 1 : Serves(j)'
  BY <1>2, <1>6
<1>8. Len(popped') = read_index' /\ Len(pushed') = write_index'
      /\ read_index' <= write_index' /\ write_index' <= read_index' + N
  BY <1>0, <1>1, <1>2, <1>3, <1>4
<1> QED
  BY <1>2, <1>5, <1>7, <1>8 DEF Kept

LEMMA KeptPop ==
  ASSUME SShape, Kept, NEW p \in Procs, Pop(p)
  PROVE  Kept'
<1> DEFINE d == slots[read_index % N].data
<1>0. /\ write_index \in Nat /\ read_index \in Nat
      /\ slots \in [Slots -> [seq : Nat, data : Nat]]
      /\ pushed \in Seq(Nat) /\ popped \in Seq(Nat)
      /\ read_index <= write_index /\ write_index <= read_index + N
      /\ write_index = Len(pushed) /\ read_index = Len(popped)
  BY DEF SShape, STypeOK, Kept
<1>1. N \in Nat \ {0} /\ read_index % N \in Slots
  BY <1>0, Capacity, SlotOf
<1>2. /\ popped' = Append(popped, d) /\ pushed' = pushed
      /\ write_index' = write_index /\ read_index' = read_index + 1
      /\ slots' = [slots EXCEPT ![read_index % N] = Vacant(read_index + N)]
      /\ ReadWord = 2 * read_index + 1
  BY DEF Pop, Emptied
<1>3. read_index < write_index /\ d = pushed[read_index + 1] /\ d \in Nat
  <2>1. slots[read_index % N] = Filled(read_index, pushed[read_index + 1])
    BY <1>2, Words
  <2> QED
    <3>1. d = pushed[read_index + 1]
      BY <2>1 DEF Filled
    <3>2. slots[read_index % N] \in [seq : Nat, data : Nat]
      BY <1>0, <1>1
    <3>3. d \in Nat
      BY <3>2
    <3>4. read_index < write_index
      BY <1>2, Words
    <3> QED
      BY <3>1, <3>3, <3>4
<1> HIDE DEF d
<1>4. /\ Len(popped') = read_index + 1 /\ popped'[read_index + 1] = d
      /\ \A i \in 1 .. read_index : popped'[i] = popped[i]
  BY <1>0, <1>2, <1>3, AppendProperties
<1>5. \A i \in 1 .. read_index' : popped'[i] = pushed'[i]
  BY <1>0, <1>2, <1>3, <1>4 DEF Kept
<1>6. ASSUME NEW j \in read_index + 1 .. read_index + N PROVE Serves(j)'
  <2>1. CASE j = read_index + N
    <3>1. slots'[j % N] = Vacant(j)
      BY <1>0, <1>1, <1>2, <2>1, NextRound
    <3>2. ~(j < write_index')
      BY <1>0, <1>1, <1>2, <2>1
    <3> QED
      BY <3>1, <3>2 DEF Serves
  <2>2. CASE j < read_index + N
    <3>1. Serves(j) /\ j \in Nat /\ j # read_index
      <4>1. j \in read_index .. read_index + N - 1
        BY <1>0, <1>1, <2>2
      <4> QED
        BY <1>0, <4>1 DEF Kept
    <3>2. j % N # read_index % N
      <4>1. j - read_index < N /\ read_index - j < N /\ read_index \in Int /\ j \in Int
        BY <1>0, <1>1, <2>2, <3>1
      <4> QED
        BY <4>1, <3>1, Distinct
    <3>3. slots'[j % N] = slots[j % N]
      BY <1>0, <1>1, <1>2, <3>1, <3>2, SlotOf
    <3> QED
      BY <1>2, <3>1, <3>3 DEF Serves
  <2>3. ASSUME ~(j < read_index + N) PROVE j = read_index + N
    <3>1. j \in Int /\ j <= read_index + N /\ read_index \in Int /\ N \in Int
      BY <1>0, <1>1
    <3> QED
      BY <2>3, <3>1
  <2> QED
    BY <2>1, <2>2, <2>3
<1>7. \A j \in read_index' .. read_index' + N - 1 : Serves(j)'
  BY <1>0, <1>1, <1>2, <1>6
<1>8. Len(popped') = read_index' /\ Len(pushed') = write_index'
      /\ read_index' <= write_index' /\ write_index' <= read_index' + N
  BY <1>0, <1>1, <1>2, <1>3, <1>4
<1> QED
  BY <1>5, <1>7, <1>8 DEF Kept

(* The constructor finds and leaves the queue empty.                       *)
LEMMA KeptLoop ==
  ASSUME SShape, Untouched, Kept, NEW p \in Procs, ClearEntry(p) \/ LayEntry(p)
  PROVE  Kept'
<1> USE DEF SShape, STypeOK
<1>1. PICK e \in {Blank, Vacant(next[p] - 1)} :
        slots' = [slots EXCEPT ![next[p] - 1] = e]
  BY DEF ClearEntry, LayEntry, Loop
<1>2. UNCHANGED <<write_index, read_index, pushed, popped>> /\ pc[p] \in Constructing
  BY DEF ClearEntry, LayEntry, Loop, history, At, Constructing
<1>3. pushed = << >> /\ popped = << >>
  BY <1>2 DEF Untouched, Early
<1>4. write_index = 0 /\ read_index = 0
  BY <1>3 DEF Kept
<1>5. next[p] - 1 \in Slots
  BY <1>2, Capacity DEF InLoop, Creating, Constructing, Slots
<1>6. ASSUME NEW j \in 0 .. N - 1 PROVE Serves(j)'
  <2>1. Serves(j) /\ j % N = j
    BY <1>4, Capacity, OwnSlot DEF Kept
  <2>2. slots[j] \in {Vacant(j), Blank}
    BY <1>4, <2>1 DEF Serves
  <2>3. slots'[j] \in {Vacant(j), Blank}
    BY <1>1, <1>5, <2>2 DEF Slots
  <2> QED
    BY <1>2, <1>4, <2>1, <2>3 DEF Serves
<1>7. \A j \in read_index' .. read_index' + N - 1 : Serves(j)'
  BY <1>2, <1>4, <1>6, Capacity
<1> QED
  BY <1>2, <1>7 DEF Kept

LEMMA KeptStep ==
  ASSUME SShape, Untouched, Kept, NEW p \in Procs, Act(p)
  PROVE  Kept'
<1> USE DEF SShape, STypeOK, file, memory, history
<1>1. CASE Push(p) \/ Pop(p) \/ ClearEntry(p) \/ LayEntry(p)
  BY <1>1, KeptPush, KeptPop, KeptLoop
<1>2. ~WriteBehind /\ ~ReadBehind
  <2>1. /\ N \in Nat \ {0} /\ write_index \in Nat /\ read_index \in Nat
        /\ write_index <= read_index + N
    BY Capacity DEF Kept
  <2>2. WriteWord \notin {2 * write_index + 1, 2 * (write_index + N)}
    <3>1. CASE ~(write_index < read_index + N)
      <4>1. WriteWord = 2 * read_index + 1 /\ write_index = read_index + N
        BY <2>1, <3>1, Words
      <4> QED
        BY <2>1, <3>1, <4>1
    <3>2. CASE write_index < read_index + N
      <4>1. WriteWord \in {2 * write_index, 0}
        BY <3>2, Words
      <4> QED
        BY <2>1, <4>1
    <3> QED
      BY <2>1, <3>1, <3>2
  <2>3. ReadWord \notin {2 * (read_index + N), 2 * (read_index + N) + 1}
    <3>1. ReadWord \in {2 * read_index, 2 * read_index + 1, 0}
      BY Words
    <3> QED
      BY <2>1, <3>1
  <2> QED
    BY <2>2, <2>3 DEF WriteBehind, ReadBehind
<1>3. ASSUME UNCHANGED <<write_index, read_index, slots, pushed, popped>>
      PROVE  Kept'
  BY <1>3 DEF Kept, Serves
<1>4. CASE ConstructIndexes(p)
  <2>1. pushed = << >> /\ popped = << >>
    BY <1>4 DEF ConstructIndexes, Untouched, Early, Constructing, At
  <2>2. write_index = 0 /\ read_index = 0
    BY <2>1 DEF Kept
  <2> QED
    BY <1>3, <1>4, <2>2 DEF ConstructIndexes
<1>5. CASE \/ Start(p) \/ Open(p) \/ Truncate(p) \/ WriteHeader(p) \/ Attach(p)
           \/ Enter(p) \/ PushMisses(p) \/ PushedAll(p) \/ PopMisses(p) \/ Check(p)
           \/ Leave(p) \/ Kill(p)
  <2>1. UNCHANGED <<write_index, read_index, slots, pushed, popped>>
    BY <1>2, <1>5 DEF Start, Open, Truncate, WriteHeader, Attach, Enter, PushMisses,
                      PushedAll, PopMisses, Check, Leave, Kill
  <2> QED
    BY <1>3, <2>1
<1> QED
  BY <1>1, <1>2, <1>4, <1>5 DEF Act, Run, Create

(* The words of full entries are the odd ones.                             *)
LEMMA Parity ==
  ASSUME NEW i \in Nat, NEW d
  PROVE  /\ IsFull(Filled(i, d)) /\ (Filled(i, d).seq - 1) \div 2 = i
         /\ ~IsFull(Vacant(i)) /\ ~IsFull(Blank)
<1>1. /\ (2 * i + 1) % 2 = 1 /\ (2 * i) % 2 # 1 /\ 0 % 2 # 1
      /\ ((2 * i + 1) - 1) \div 2 = i
  OBVIOUS
<1>2. Filled(i, d).seq = 2 * i + 1 /\ Vacant(i).seq = 2 * i /\ Blank.seq = 0
  BY DEF Filled, Vacant, Blank
<1> QED
  BY <1>1, <1>2 DEF IsFull

(* Each slot serves one of the N numbers from the read index.              *)
LEMMA ServedBy ==
  ASSUME NEW r \in Nat, NEW s \in Slots
  PROVE  \E j \in r .. r + N - 1 : j % N = s
<1> DEFINE q == (s - r) \div N
           m == (s - r) % N
<1>1. N \in Nat \ {0} /\ s \in Int /\ s - r \in Int /\ s \in 0 .. N - 1
  BY Capacity DEF Slots
<1>2. q \in Int /\ m \in 0 .. N - 1 /\ s - r = N * q + m
  BY <1>1, Division
<1> HIDE DEF q, m
<1>3. N * q \in Int /\ s = (r + m) + N * q /\ r + m \in r .. r + N - 1 /\ r + m \in Int
  <2>1. N * q \in Int
    BY <1>1, <1>2
  <2> QED
    BY <1>1, <1>2, <2>1
<1>4. s % N = (r + m) % N
  BY <1>1, <1>2, <1>3, Congruent
<1>5. s % N = s
  BY <1>1, OwnSlot
<1> QED
  BY <1>3, <1>4, <1>5

LEMMA KeptInside ==
  ASSUME SShape, Kept
  PROVE  Inside = read_index .. write_index - 1
<1>0. /\ write_index \in Nat /\ read_index \in Nat /\ N \in Nat \ {0}
      /\ write_index <= read_index + N
  BY Capacity DEF SShape, STypeOK, Kept
<1>1. ASSUME NEW j \in read_index .. write_index - 1 PROVE j \in Inside
  <2>1. j \in read_index .. read_index + N - 1 /\ j \in Nat /\ j < write_index
    BY <1>0
  <2>2. slots[j % N] = Filled(j, pushed[j + 1])
    BY <2>1 DEF Kept, Serves
  <2>3. IsFull(slots[j % N]) /\ (slots[j % N].seq - 1) \div 2 = j /\ j % N \in Slots
    BY <2>1, <2>2, Parity, SlotOf
  <2> QED
    BY <2>3 DEF Inside
<1>2. ASSUME NEW s \in Slots, IsFull(slots[s])
      PROVE  (slots[s].seq - 1) \div 2 \in read_index .. write_index - 1
  <2>1. PICK j \in read_index .. read_index + N - 1 : j % N = s
    BY <1>0, ServedBy
  <2>2. Serves(j) /\ j \in Nat
    BY <1>0 DEF Kept
  <2>3. j < write_index
    <3> SUFFICES ASSUME ~(j < write_index) PROVE FALSE
      OBVIOUS
    <3>1. slots[s] \in {Vacant(j), Blank}
      BY <2>1, <2>2 DEF Serves
    <3> QED
      BY <1>2, <2>2, <3>1, Parity
  <2>4. slots[s] = Filled(j, pushed[j + 1])
    BY <2>1, <2>2, <2>3 DEF Serves
  <2>5. (slots[s].seq - 1) \div 2 = j
    BY <2>2, <2>4, Parity
  <2> QED
    BY <1>0, <2>1, <2>3, <2>5
<1> QED
  BY <1>1, <1>2 DEF Inside

LEMMA KeptMeans ==
  ASSUME SShape, Kept
  PROVE  NothingLost
<1>0. /\ write_index \in Nat /\ read_index \in Nat /\ N \in Nat \ {0}
      /\ read_index <= write_index /\ write_index <= read_index + N
      /\ pushed \in Seq(Nat) /\ popped \in Seq(Nat)
      /\ write_index = Len(pushed) /\ read_index = Len(popped)
      /\ \A i \in 1 .. read_index : popped[i] = pushed[i]
  BY Capacity DEF SShape, STypeOK, Kept
<1>1. Inside = read_index .. write_index - 1
  BY KeptInside
<1>2. CASE read_index = write_index
  <2>1. Inside = {}
    BY <1>0, <1>1, <1>2
  <2>2. Queued = << >>
    BY <2>1 DEF Queued
  <2>3. popped = pushed
    BY <1>0, <1>2, SeqEqual
  <2> QED
    BY <1>0, <2>2, <2>3, ConcatEmptySeq DEF NothingLost
<1>3. CASE read_index < write_index
  <2>1. read_index \in Inside /\ write_index - 1 \in Inside
    BY <1>0, <1>1, <1>3
  <2>2. Oldest = read_index
    <3>1. \A j \in Inside : read_index <= j
      BY <1>0, <1>1
    <3>2. Oldest \in Inside /\ \A j \in Inside : Oldest <= j
      BY <2>1, <3>1 DEF Oldest
    <3>3. Oldest <= read_index /\ read_index <= Oldest
      BY <2>1, <3>1, <3>2
    <3> QED
      BY <1>0, <1>1, <3>2, <3>3
  <2>3. Newest = write_index - 1
    <3>1. \A j \in Inside : j <= write_index - 1
      BY <1>0, <1>1
    <3>2. Newest \in Inside /\ \A j \in Inside : j <= Newest
      BY <2>1, <3>1 DEF Newest
    <3>3. Newest <= write_index - 1 /\ write_index - 1 <= Newest
      BY <2>1, <3>1, <3>2
    <3> QED
      BY <1>0, <1>1, <3>2, <3>3
  <2> DEFINE n == write_index - read_index
             t == [k \in 1 .. n |-> pushed[read_index + k]]
  <2>4. n \in Nat /\ Newest - Oldest + 1 = n
    BY <1>0, <2>2, <2>3
  <2>5. ASSUME NEW k \in 1 .. n
        PROVE  slots[(Oldest + k - 1) % N].data = pushed[read_index + k]
    <3> DEFINE j == read_index + k - 1
    <3>1. j \in read_index .. read_index + N - 1 /\ j < write_index
          /\ j + 1 = read_index + k /\ Oldest + k - 1 = j
      BY <1>0, <2>2
    <3> HIDE DEF j
    <3>2. slots[j % N] = Filled(j, pushed[j + 1])
      BY <3>1 DEF Kept, Serves
    <3> QED
      BY <3>1, <3>2 DEF Filled
  <2>6. Queued = t
    <3>1. Inside # {}
      BY <2>1
    <3> QED
      BY <2>4, <2>5, <3>1 DEF Queued
  <2>7. t \in Seq(Nat) /\ Len(t) = n /\ \A k \in 1 .. n : t[k] = pushed[read_index + k]
    <3>1. \A k \in 1 .. n : pushed[read_index + k] \in Nat
      BY <1>0, ElementOfSeq
    <3>2. t \in [1 .. n -> Nat]
      BY <3>1
    <3> QED
      BY <2>4, <3>2, IsASeq
  <2> HIDE DEF t
  <2> DEFINE c == popped \o t
  <2>8. c \in Seq(Nat) /\ Len(c) = Len(popped) + Len(t)
        /\ \A i \in 1 .. Len(popped) + Len(t) :
             c[i] = IF i <= Len(popped) THEN popped[i] ELSE t[i - Len(popped)]
    BY <1>0, <2>7, ConcatProperties
  <2> HIDE DEF c
  <2>9. Len(c) = Len(pushed)
    BY <1>0, <2>4, <2>7, <2>8
  <2>10. ASSUME NEW i \in 1 .. Len(c) PROVE c[i] = pushed[i]
    <3>1. CASE i <= read_index
      BY <1>0, <2>8, <3>1
    <3>2. CASE i > read_index
      <4> DEFINE k == i - read_index
      <4>1. k \in 1 .. n /\ read_index + k = i
        BY <1>0, <2>9, <3>2
      <4>2. c[i] = t[k]
        BY <1>0, <2>8, <3>2
      <4> HIDE DEF k
      <4> QED
        BY <2>7, <4>1, <4>2
    <3> QED
      BY <1>0, <3>1, <3>2
  <2>11. c = pushed
    BY <1>0, <2>8, <2>9, <2>10, SeqEqual
  <2> QED
    BY <2>6, <2>11 DEF NothingLost, c
<1> QED
  BY <1>0, <1>2, <1>3
------------------------------------------------------------------------------
(* Counts. *)

(* How the set of live producers, or consumers, changes.                   *)
LEMMA Joins ==
  ASSUME STypeOK, NEW p \in Procs, ~Registered(p), Registered(p)',
         NEW r \in Ends, UNCHANGED role, \A q \in Procs \ {p} : pc'[q] = pc[q]
  PROVE  Cardinality(Live(r))' = Cardinality(Live(r)) + (IF role[p] = r THEN 1 ELSE 0)
<1>1. IsFiniteSet(Live(r))
  BY SharedAssumption, FS_Subset DEF Live
<1>2. CASE role[p] = r
  <2>1. Live(r)' = Live(r) \cup {p} /\ p \notin Live(r)
    BY <1>2 DEF Live, Registered, STypeOK
  <2> QED
    BY <1>1, <1>2, <2>1, FS_AddElement
<1>3. CASE role[p] # r
  <2>1. Live(r)' = Live(r)
    BY <1>3 DEF Live, Registered, STypeOK
  <2>2. Cardinality(Live(r)) \in Nat
    BY <1>1, FS_CardinalityType
  <2> QED
    BY <1>3, <2>1, <2>2
<1> QED
  BY <1>2, <1>3

LEMMA Quits ==
  ASSUME STypeOK, NEW p \in Procs, Registered(p), ~Registered(p)',
         NEW r \in Ends, UNCHANGED role, \A q \in Procs \ {p} : pc'[q] = pc[q]
  PROVE  Cardinality(Live(r))' = Cardinality(Live(r)) - (IF role[p] = r THEN 1 ELSE 0)
<1>1. IsFiniteSet(Live(r))
  BY SharedAssumption, FS_Subset DEF Live
<1>2. CASE role[p] = r
  <2>1. Live(r)' = Live(r) \ {p} /\ p \in Live(r)
    BY <1>2 DEF Live, Registered, STypeOK
  <2> QED
    BY <1>1, <1>2, <2>1, FS_RemoveElement
<1>3. CASE role[p] # r
  <2>1. Live(r)' = Live(r)
    BY <1>3 DEF Live, Registered, STypeOK
  <2>2. Cardinality(Live(r)) \in Nat
    BY <1>1, FS_CardinalityType
  <2> QED
    BY <1>3, <2>1, <2>2
<1> QED
  BY <1>2, <1>3

LEMMA CountStep ==
  ASSUME SShape, CreatorSees, Untouched, CountsAgree, NEW p \in Procs, Act(p)
  PROVE  CountsAgree'
<1> DEFINE n == Cardinality(Live("producer"))
           m == Cardinality(Live("consumer"))
<1> STypeOK /\ Counted
  BY DEF SShape
<1>0. n \in Nat /\ m \in Nat
  BY SharedAssumption, FS_Subset, FS_CardinalityType DEF Live
<1>1. CASE Enter(p)
  <2>1. CASE role[p] = "viewer"
    <3>0. pc' = [pc EXCEPT ![p] = "off"] /\ role' = role
      BY <1>1, <2>1 DEF Enter, Goto
    <3>1. Live("producer")' = Live("producer") /\ Live("consumer")' = Live("consumer")
      BY <1>1, <3>0 DEF Enter, At, Live, Registered, STypeOK
    <3> QED
      BY <3>1, <1>0, <1>1, <2>1 DEF Enter, Entering, CountsAgree, history, STypeOK
  <2>2. CASE role[p] # "viewer"
    <3>0. pc' \in {[pc EXCEPT ![p] = "push"], [pc EXCEPT ![p] = "pop"]} /\ role[p] \in Ends
      <4>1. role[p] \in Ends
        BY <2>2 DEF STypeOK
      <4>2. CASE role[p] = "producer"
        BY <1>1, <4>1, <4>2 DEF Enter, Goto
      <4>3. CASE role[p] = "consumer"
        BY <1>1, <4>1, <4>3 DEF Enter, Goto
      <4> QED
        BY <4>1, <4>2, <4>3 DEF Ends
    <3>1. role[p] \in Ends /\ ~Registered(p) /\ Registered(p)' /\ UNCHANGED role
          /\ \A q \in Procs \ {p} : pc'[q] = pc[q]
      BY <1>1, <3>0 DEF Enter, At, Registered, STypeOK
    <3>2. n' = n + (IF role[p] = "producer" THEN 1 ELSE 0)
          /\ m' = m + (IF role[p] = "consumer" THEN 1 ELSE 0)
      BY <3>1, Joins DEF Ends
    <3> HIDE DEF n, m
    <3>3. producer_count = n + leaked["producer"] /\ consumer_count = m + leaked["consumer"]
      BY DEF CountsAgree, n, m
    <3>4. producer_count' = n' + leaked'["producer"] /\ consumer_count' = m' + leaked'["consumer"]
      BY <1>0, <1>1, <3>2, <3>3 DEF Enter, Entering, history, STypeOK, Ends
    <3> QED
      BY <3>4 DEF CountsAgree, n, m
  <2> QED
    BY <2>1, <2>2
<1>2. CASE Leave(p) \/ (Kill(p) /\ Registered(p))
  <2>1. role[p] \in Ends /\ Registered(p) /\ ~Registered(p)' /\ UNCHANGED role
        /\ \A q \in Procs \ {p} : pc'[q] = pc[q]
    BY <1>2 DEF Leave, Kill, Goto, At, Registered, STypeOK, Ends, Counted, history
  <2>2. n' = n - (IF role[p] = "producer" THEN 1 ELSE 0)
        /\ m' = m - (IF role[p] = "consumer" THEN 1 ELSE 0)
    BY <2>1, Quits DEF Ends
  <2> HIDE DEF n, m
  <2>3. producer_count = n + leaked["producer"] /\ consumer_count = m + leaked["consumer"]
    BY DEF CountsAgree, n, m
  <2>4. CASE Leave(p)
    <3>1. producer_count' = n' + leaked'["producer"] /\ consumer_count' = m' + leaked'["consumer"]
      BY <1>0, <2>2, <2>3, <2>4 DEF Leave, Leaving, history, STypeOK, Ends
    <3> QED
      BY <3>1 DEF CountsAgree, n, m
  <2>5. CASE Kill(p)
    <3>1. UNCHANGED <<producer_count, consumer_count>>
          /\ leaked' = [leaked EXCEPT ![role[p]] = @ + 1]
      BY <2>1, <2>5 DEF Kill, file, counters
    <3>2. /\ leaked'["producer"] = leaked["producer"] + (IF role[p] = "producer" THEN 1 ELSE 0)
          /\ leaked'["consumer"] = leaked["consumer"] + (IF role[p] = "consumer" THEN 1 ELSE 0)
      BY <2>1, <3>1 DEF STypeOK, Ends
    <3>3. leaked["producer"] \in Nat /\ leaked["consumer"] \in Nat
      BY DEF STypeOK, Ends
    <3>4. producer_count' = n' + leaked'["producer"] /\ consumer_count' = m' + leaked'["consumer"]
      BY <1>0, <2>2, <2>3, <3>1, <3>2, <3>3
    <3> QED
      BY <3>4 DEF CountsAgree, n, m
  <2> QED
    BY <1>2, <2>4, <2>5
<1>3. CASE WriteHeader(p)
  <2>1. Live("producer")' = {} /\ Live("consumer")' = {}
        /\ leaked'["producer"] = 0 /\ leaked'["consumer"] = 0
    BY <1>3 DEF WriteHeader, CreatorSees, Untouched, Early, Live, Registered, At, Goto,
                Creating, STypeOK, Ends, history
  <2>2. n' = 0 /\ m' = 0
    BY <2>1, FS_EmptySet
  <2> QED
    BY <2>1, <2>2, <1>3 DEF WriteHeader, CountsAgree
<1>4. CASE \/ Start(p) \/ Open(p) \/ Truncate(p) \/ ConstructIndexes(p)
           \/ ClearEntry(p) \/ LayEntry(p) \/ Attach(p) \/ Push(p) \/ PushMisses(p)
           \/ PushedAll(p) \/ Pop(p) \/ PopMisses(p) \/ Check(p) \/ (Kill(p) /\ ~Registered(p))
  <2>1. UNCHANGED <<producer_count, consumer_count, leaked>>
    BY <1>4 DEF Start, Open, Truncate, ConstructIndexes, ClearEntry, LayEntry, Loop, Attach,
                Push, PushMisses, PushedAll, Pop, PopMisses, Check, Kill,
                file, counters, history
  <2>2. /\ \A q \in Procs : Registered(q)' <=> Registered(q)
        /\ \A q \in Procs : Registered(q) => role'[q] = role[q]
    <3>1. CASE Start(p)
      BY <3>1 DEF Start, Goto, At, Registered, STypeOK
    <3>2. CASE Open(p)
      BY <3>2 DEF Open, AfterHeader, Goto, At, Registered, STypeOK
    <3>3. CASE Truncate(p) \/ ConstructIndexes(p) \/ Attach(p)
      BY <3>3 DEF Truncate, ConstructIndexes, Attach, Goto, At, Registered, STypeOK
    <3>4. CASE ClearEntry(p) \/ LayEntry(p)
      BY <3>4 DEF ClearEntry, LayEntry, Loop, Goto, At, Registered, STypeOK
    <3>5. CASE Push(p) \/ PushMisses(p) \/ Pop(p)
      BY <3>5 DEF Push, PushMisses, Pop, Registered
    <3>6. CASE PushedAll(p) \/ PopMisses(p) \/ Check(p)
      BY <3>6 DEF PushedAll, PopMisses, Check, Goto, At, Registered, STypeOK
    <3>8. CASE Kill(p) /\ ~Registered(p)
      BY <3>8 DEF Kill, Goto, Registered, STypeOK
    <3> QED
      BY <1>4, <3>1, <3>2, <3>3, <3>4, <3>5, <3>6, <3>8
  <2>3. Live("producer")' = Live("producer") /\ Live("consumer")' = Live("consumer")
    BY <2>2 DEF Live
  <2> QED
    BY <2>1, <2>3 DEF CountsAgree
<1> QED
  BY <1>1, <1>2, <1>3, <1>4 DEF Act, Run, Create
------------------------------------------------------------------------------
(* Copies. *)

LEMMA TimesAppend ==
  ASSUME NEW q \in Seq(Nat), NEW e \in Nat, NEW d \in Nat
  PROVE  /\ Times(q, d) \in Nat
         /\ Times(Append(q, e), d) = Times(q, d) + (IF e = d THEN 1 ELSE 0)
<1> DEFINE S == { i \in 1 .. Len(q) : q[i] = d }
           T == { i \in 1 .. Len(Append(q, e)) : Append(q, e)[i] = d }
<1>1. /\ Len(q) \in Nat /\ Len(Append(q, e)) = Len(q) + 1
      /\ \A i \in 1 .. Len(q) : Append(q, e)[i] = q[i]
      /\ Append(q, e)[Len(q) + 1] = e
  BY AppendProperties, LenProperties
<1>2. IsFiniteSet(S)
  <2>1. IsFiniteSet(1 .. Len(q)) /\ S \in SUBSET (1 .. Len(q))
    BY <1>1, FS_Interval
  <2> QED
    BY <2>1, FS_Subset
<1>3. Cardinality(S) \in Nat
  BY <1>2, FS_CardinalityType
<1>4. CASE e = d
  <2>1. T = S \cup {Len(q) + 1} /\ Len(q) + 1 \notin S
    BY <1>1, <1>4
  <2> HIDE DEF S, T
  <2>2. Cardinality(T) = Cardinality(S) + 1
    BY <1>2, <2>1, FS_AddElement
  <2> QED
    BY <1>3, <1>4, <2>2 DEF Times, S, T
<1>5. CASE e # d
  <2>1. T = S
    BY <1>1, <1>5
  <2> HIDE DEF S, T
  <2>2. Cardinality(T) = Cardinality(S) + 0
    BY <1>3, <2>1
  <2> QED
    BY <1>3, <1>5, <2>2 DEF Times, S, T
<1> QED
  BY <1>4, <1>5

LEMMA CopiesType ==
  ASSUME NEW d
  PROVE  /\ IsFiniteSet({ s \in Slots : IsFull(slots[s]) /\ slots[s].data = d })
         /\ Copies(d) \in Nat
<1>1. IsFiniteSet(Slots)
  BY Capacity, FS_Interval DEF Slots
<1>2. IsFiniteSet({ s \in Slots : IsFull(slots[s]) /\ slots[s].data = d })
  BY <1>1, FS_Subset
<1> QED
  BY <1>2, FS_CardinalityType DEF Copies

(* Writing an entry that is not full, and one that is.                     *)
LEMMA CopiesLess ==
  ASSUME STypeOK, NEW d, NEW s \in Slots, NEW e, ~IsFull(e),
         slots' = [slots EXCEPT ![s] = e]
  PROVE  Copies(d)' = Copies(d) - (IF IsFull(slots[s]) /\ slots[s].data = d THEN 1 ELSE 0)
<1> DEFINE S == { x \in Slots : IsFull(slots[x]) /\ slots[x].data = d }
           T == { x \in Slots : IsFull(slots'[x]) /\ slots'[x].data = d }
<1>1. T = S \ {s}
  <2>1. \A x \in Slots : slots'[x] = IF x = s THEN e ELSE slots[x]
    BY DEF STypeOK
  <2> QED
    BY <2>1
<1>2. IsFiniteSet(S) /\ Cardinality(S) \in Nat
  BY CopiesType DEF Copies
<1>3. s \in S <=> IsFull(slots[s]) /\ slots[s].data = d
  OBVIOUS
<1>4. Copies(d) = Cardinality(S) /\ Copies(d)' = Cardinality(T)
  BY DEF Copies, IsFull
<1> HIDE DEF S, T
<1>5. Cardinality(T) = IF s \in S THEN Cardinality(S) - 1 ELSE Cardinality(S)
  BY <1>1, <1>2, FS_RemoveElement
<1> QED
  BY <1>2, <1>3, <1>4, <1>5

LEMMA CopiesMore ==
  ASSUME STypeOK, NEW d, NEW s \in Slots, NEW e, slots' = [slots EXCEPT ![s] = e]
  PROVE  Copies(d)' \in Nat /\ Copies(d)' <= Copies(d) + (IF e.data = d THEN 1 ELSE 0)
<1> DEFINE S == { x \in Slots : IsFull(slots[x]) /\ slots[x].data = d }
           T == { x \in Slots : IsFull(slots'[x]) /\ slots'[x].data = d }
<1>1. \A x \in Slots : slots'[x] = IF x = s THEN e ELSE slots[x]
  BY DEF STypeOK
<1>2. IsFiniteSet(S) /\ Cardinality(S) \in Nat
  BY CopiesType DEF Copies
<1>3. Copies(d) = Cardinality(S) /\ Copies(d)' = Cardinality(T)
  BY DEF Copies, IsFull
<1>4. T \subseteq S \cup {s} /\ (e.data # d => T \subseteq S)
  BY <1>1
<1> HIDE DEF S, T
<1>5. CASE e.data = d
  <2>1. /\ IsFiniteSet(S \cup {s})
        /\ Cardinality(S \cup {s}) = IF s \in S THEN Cardinality(S) ELSE Cardinality(S) + 1
    BY <1>2, FS_AddElement
  <2>2. Cardinality(T) <= Cardinality(S \cup {s})
    BY <1>4, <2>1, FS_Subset
  <2>3. Cardinality(T) \in Nat
    BY <1>4, <2>1, FS_Subset, FS_CardinalityType
  <2> QED
    BY <1>2, <1>3, <1>5, <2>1, <2>2, <2>3
<1>6. CASE e.data # d
  <2>1. IsFiniteSet(T) /\ Cardinality(T) <= Cardinality(S)
    BY <1>2, <1>4, <1>6, FS_Subset
  <2>2. Cardinality(T) \in Nat
    BY <2>1, FS_CardinalityType
  <2> QED
    BY <1>2, <1>3, <1>6, <2>1, <2>2
<1> QED
  BY <1>5, <1>6

(* No value is in the file and in somebody's hands more often than it was  *)
(* pushed.                                                                 *)
NoMore == \A d \in Nat : Times(popped, d) + Copies(d) <= Times(pushed, d)

LEMMA NoMoreInit == SInit => NoMore
<1> SUFFICES ASSUME SInit, NEW d \in Nat PROVE Times(popped, d) + Copies(d) <= Times(pushed, d)
  BY DEF NoMore
<1>1. { s \in Slots : IsFull(slots[s]) /\ slots[s].data = d } = {}
  <2>1. \A s \in Slots : slots[s] = Blank
    BY DEF SInit
  <2>2. 0 \in Nat
    OBVIOUS
  <2>3. ~IsFull(Blank)
    BY <2>2, Parity
  <2> QED
    BY <2>1, <2>3
<1>2. Copies(d) = 0
  BY <1>1, FS_EmptySet DEF Copies
<1>3. popped = pushed /\ pushed \in Seq(Nat)
  BY DEF SInit
<1>4. Times(popped, d) = Times(pushed, d) /\ Times(pushed, d) \in Nat
  BY <1>3, TimesAppend
<1> QED
  BY <1>2, <1>4

LEMMA NoMoreStep ==
  ASSUME SShape, NoMore, NEW p \in Procs, Act(p)
  PROVE  NoMore'
<1> SUFFICES ASSUME NEW d \in Nat
             PROVE  Times(popped, d)' + Copies(d)' <= Times(pushed, d)'
  BY DEF NoMore
<1>0. /\ STypeOK /\ pushed \in Seq(Nat) /\ popped \in Seq(Nat)
      /\ slots \in [Slots -> [seq : Nat, data : Nat]]
      /\ write_index \in Nat /\ read_index \in Nat
      /\ Times(popped, d) + Copies(d) <= Times(pushed, d)
      /\ Times(popped, d) \in Nat /\ Times(pushed, d) \in Nat /\ Copies(d) \in Nat
  BY CopiesType, TimesAppend DEF SShape, STypeOK, NoMore
<1>1. CASE Push(p)
  <2> DEFINE v == Data[next[p]]
             e == Filled(write_index, v)
  <2>1. v \in Nat
    BY <1>1, SharedAssumption, ElementOfSeq DEF Push, Pushing, SShape, STypeOK
  <2>2. e.data = v /\ pushed' = Append(pushed, v) /\ popped' = popped
        /\ slots' = [slots EXCEPT ![write_index % N] = e]
    BY <1>1 DEF Push, Filled
  <2> HIDE DEF v, e
  <2>3. Copies(d)' \in Nat /\ Copies(d)' <= Copies(d) + (IF v = d THEN 1 ELSE 0)
    <3>1. write_index % N \in Slots
      BY <1>0, SlotOf
    <3>2. Copies(d)' \in Nat /\ Copies(d)' <= Copies(d) + (IF e.data = d THEN 1 ELSE 0)
      BY <1>0, <2>2, <3>1, CopiesMore
    <3> QED
      BY <2>2, <3>2
  <2>4. Times(pushed', d) = Times(pushed, d) + (IF v = d THEN 1 ELSE 0)
    BY <1>0, <2>1, <2>2, TimesAppend
  <2>5. Times(pushed, d)' = Times(pushed', d) /\ Times(popped, d)' = Times(popped, d)
    BY <2>2 DEF Times
  <2> QED
    BY <1>0, <2>3, <2>4, <2>5
<1>2. CASE Pop(p)
  <2> DEFINE v == slots[read_index % N].data
  <2>1. read_index % N \in Slots
    BY <1>0, SlotOf
  <2>2. v \in Nat /\ IsFull(slots[read_index % N])
    <3>1. slots[read_index % N] \in [seq : Nat, data : Nat]
      BY <1>0, <2>1
    <3>2. slots[read_index % N].seq = 2 * read_index + 1
      BY <1>2 DEF Pop, ReadWord
    <3>3. (2 * read_index + 1) % 2 = 1
      BY <1>0
    <3> QED
      BY <3>1, <3>2, <3>3 DEF IsFull
  <2>3. popped' = Append(popped, v) /\ pushed' = pushed
        /\ slots' = [slots EXCEPT ![read_index % N] = Vacant(read_index + N)]
    BY <1>2 DEF Pop, Emptied
  <2>4. ~IsFull(Vacant(read_index + N))
    <3>1. read_index + N \in Nat
      BY <1>0, Capacity
    <3> QED
      BY <3>1, Parity
  <2>5. Copies(d)' = Copies(d) - (IF v = d THEN 1 ELSE 0)
    <3>1. Copies(d)' = Copies(d) - (IF IsFull(slots[read_index % N]) /\ v = d THEN 1 ELSE 0)
      BY <1>0, <2>1, <2>3, <2>4, CopiesLess
    <3> QED
      BY <2>2, <3>1
  <2> HIDE DEF v
  <2>6. Times(popped', d) = Times(popped, d) + (IF v = d THEN 1 ELSE 0)
    BY <1>0, <2>2, <2>3, TimesAppend
  <2>7. Times(popped, d)' = Times(popped', d) /\ Times(pushed, d)' = Times(pushed, d)
    BY <2>3 DEF Times
  <2> QED
    BY <1>0, <2>5, <2>6, <2>7
<1>3. ASSUME UNCHANGED <<pushed, popped>>
      PROVE  Times(popped, d)' = Times(popped, d) /\ Times(pushed, d)' = Times(pushed, d)
  BY <1>3 DEF Times
<1>4. CASE ClearEntry(p) \/ LayEntry(p)
  <2>1. PICK e \in {Blank, Vacant(next[p] - 1)} :
          slots' = [slots EXCEPT ![next[p] - 1] = e]
    BY <1>4 DEF ClearEntry, LayEntry, Loop
  <2>2. next[p] - 1 \in Slots /\ next[p] - 1 \in Nat
    BY <1>4, Capacity DEF ClearEntry, LayEntry, Loop, At, SShape, STypeOK, InLoop, Creating,
                          Slots
  <2>3. ~IsFull(e)
    BY <2>1, <2>2, Parity
  <2>4. Copies(d)' = Copies(d) - (IF IsFull(slots[next[p] - 1])
                                     /\ slots[next[p] - 1].data = d THEN 1 ELSE 0)
    BY <1>0, <2>1, <2>2, <2>3, CopiesLess
  <2>5. UNCHANGED <<pushed, popped>>
    BY <1>4 DEF ClearEntry, LayEntry, Loop, history
  <2> QED
    BY <1>0, <1>3, <2>4, <2>5
<1>5. CASE \/ Start(p) \/ Open(p) \/ Truncate(p) \/ WriteHeader(p) \/ ConstructIndexes(p)
           \/ Attach(p) \/ Enter(p) \/ PushMisses(p) \/ PushedAll(p)
           \/ PopMisses(p) \/ Check(p) \/ Leave(p) \/ Kill(p)
  <2>1. UNCHANGED <<slots, pushed, popped>>
    BY <1>5 DEF Start, Open, Truncate, WriteHeader, ConstructIndexes, Attach, Enter,
                PushMisses, PushedAll, PopMisses, Check, Leave, Kill, file, memory, history
  <2>2. Copies(d)' = Copies(d)
    BY <2>1 DEF Copies, IsFull
  <2> QED
    BY <1>0, <1>3, <2>1, <2>2
<1> QED
  BY <1>1, <1>2, <1>4, <1>5 DEF Act, Run, Create
------------------------------------------------------------------------------
(* Theorems. *)

LEMMA ShapeStutter == ASSUME SShape, UNCHANGED svars PROVE SShape'
BY DEF svars, file, counters, memory, history, SShape, STypeOK, Counted, InLoop, Registered

LEMMA ShapeStep == ASSUME SShape, [SNext]_svars PROVE SShape'
<1>1. CASE UNCHANGED svars
  BY <1>1, ShapeStutter
<1>2. ASSUME NEW p \in Procs, Act(p) PROVE SShape'
  <2>1. STypeOK'
    BY <1>2, TypeStep
  <2>2. Counted' /\ InLoop'
    BY <1>2, CountedStep
  <2> QED
    BY <2>1, <2>2 DEF SShape
<1> QED
  BY <1>1, <1>2 DEF SNext, Act, AllOff

(* The file is well formed, whoever creates it and however often.          *)
THEOREM SharedTypes == SSpec => []SShape
<1>1. SShape /\ [SNext]_svars => SShape'
  BY ShapeStep
<1> QED
  BY <1>1, ShapeInit, PTL DEF SSpec

(* No value comes out of the shared queue more often than it went in, even *)
(* if the queue is constructed again while processes use it.               *)
THEOREM SharedNoneTwice == SSpec => []NoneTwice
<1>1. SShape /\ NoMore /\ [SNext]_svars => NoMore'
  <2> SUFFICES ASSUME SShape, NoMore, [SNext]_svars PROVE NoMore'
    OBVIOUS
  <2>1. CASE UNCHANGED svars
    BY <2>1 DEF svars, file, memory, history, NoMore, Times, Copies, IsFull
  <2>2. CASE \E p \in Procs : Act(p)
    BY <2>2, NoMoreStep
  <2> QED
    BY <2>1, <2>2 DEF SNext, Act, AllOff
<1>2. SShape /\ NoMore => NoneTwice
  <2> SUFFICES ASSUME SShape, NoMore, NEW i \in 1 .. Len(popped)
               PROVE  Times(popped, popped[i]) + Copies(popped[i]) <= Times(pushed, popped[i])
    BY DEF NoneTwice
  <2>1. popped[i] \in Nat
    BY ElementOfSeq DEF SShape, STypeOK
  <2> QED
    BY <2>1 DEF NoMore
<1> QED
  BY <1>1, <1>2, NoMoreInit, SharedTypes, PTL DEF SSpec

LEMMA Initially == SInit => SInv
<1> SUFFICES ASSUME SInit PROVE SInv
  OBVIOUS
<1>1. SShape
  BY ShapeInit
<1>2. Alone /\ CreatorSees /\ Untouched
  BY DEF SInit, Alone, CreatorSees, Untouched, At, Creating, Constructing, Ends
<1>3. Kept
  <2>1. Len(popped) = 0 /\ Len(pushed) = 0 /\ write_index = 0 /\ read_index = 0
    BY DEF SInit
  <2>2. ASSUME NEW j \in 0 .. N - 1 PROVE Serves(j)
    <3>1. slots[j % N] = Blank
      <4>1. j \in Nat
        BY Capacity
      <4>2. j % N \in Slots
        BY <4>1, SlotOf
      <4> QED
        BY <4>2 DEF SInit
    <3> QED
      BY <2>1, <3>1, Capacity DEF Serves
  <2> QED
    BY <2>1, <2>2, Capacity DEF Kept
<1>4. CountsAgree
  <2>1. Live("producer") = {} /\ Live("consumer") = {}
    BY DEF SInit, Live, Registered
  <2>2. Cardinality(Live("producer")) = 0 /\ Cardinality(Live("consumer")) = 0
    BY <2>1, FS_EmptySet
  <2> QED
    BY <2>2 DEF SInit, CountsAgree
<1> QED
  BY <1>1, <1>2, <1>3, <1>4 DEF SInv

LEMMA Stutter == ASSUME SInv, UNCHANGED svars PROVE SInv'
<1> USE DEF svars, file, counters, memory, history
<1>1. SShape'
  BY ShapeStutter DEF SInv
<1>2. Alone' /\ CreatorSees' /\ Untouched'
  BY DEF SInv, Alone, CreatorSees, Untouched, Early, At
<1>3. Kept'
  BY DEF SInv, Kept, Serves
<1>4. CountsAgree'
  BY DEF SInv, CountsAgree, Live, Registered
<1> QED
  BY <1>1, <1>2, <1>3, <1>4 DEF SInv

(* The invariant is inductive if no two processes open the file at once.   *)
THEOREM SharedSafety == ASSUME ~Overlap PROVE SSpec => []SInv
<1>1. SInv /\ [SNext]_svars => SInv'
  <2> SUFFICES ASSUME SInv, [SNext]_svars PROVE SInv'
    OBVIOUS
  <2>1. CASE UNCHANGED svars
    BY <2>1, Stutter
  <2>2. CASE \E p \in Procs : Act(p)
    <3>1. PICK p \in Procs : Act(p)
      BY <2>2
    <3>2. SShape'
      BY ShapeStep DEF SInv
    <3> QED
      BY <3>1, <3>2, CreationStep, KeptStep, CountStep DEF SInv
  <2> QED
    BY <2>1, <2>2 DEF SNext, Act, AllOff
<1> QED
  BY <1>1, Initially, PTL DEF SSpec

(* If no two processes open the file at once: whatever processes come, go  *)
(* and are killed, what has been popped and what is queued is what has     *)
(* been pushed, for the creator constructs the queue before anybody gets   *)
(* to it, and nobody constructs it again.                                  *)
THEOREM SharedNothingLost == ASSUME ~Overlap PROVE SSpec => []NothingLost
<1>1. SInv => NothingLost
  BY KeptMeans DEF SInv
<1> QED
  BY <1>1, SharedSafety, PTL

(* Under the same premise, producer_count and consumer_count are the       *)
(* numbers of live producers and consumers, and of those that were killed. *)
THEOREM SharedCounts == ASSUME ~Overlap PROVE SSpec => []CountsAgree
<1>1. SInv => CountsAgree
  BY DEF SInv
<1> QED
  BY <1>1, SharedSafety, PTL
==============================================================================
