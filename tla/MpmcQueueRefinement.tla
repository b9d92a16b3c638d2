------------------------- MODULE MpmcQueueRefinement -------------------------
(* MpmcQueue implements FifoQueue, for any number of threads, any capacity *)
(* and any index width: where a thread is in its call, the elements of the *)
(* window as a sequence, and one step of the abstract queue for each step  *)
(* of the detailed one.                                                    *)
EXTENDS MpmcQueueProofs, FiniteSetTheorems

Seqs == INSTANCE SequenceTheorems

------------------------------------------------------------------------------
(* Where a thread is in its call. *)

Running(t) == res[t].is = "pending"

Pushes == {"push", "push_keep_n"}
Repeats == {"push_keep_n", "consume"}  \* go on after a pop

(* The access a thread makes next fits the operation it is in, and its     *)
(* call has a result exactly from the compare-and-exchange (or the look at *)
(* the entry) that decides it.                                             *)
AtPlace(t) ==
  /\ pc[t] \in {"wr_load", "wr_seq", "wr_cas", "wr_help"} =>
       Running(t) /\ req[t].op \in Pushes
  /\ pc[t] \in {"rd_load", "rd_entry", "rd_cas", "rd_help"} =>
       Running(t) /\ req[t].op \notin {"push", "exchange"}
  /\ pc[t] \in {"rd_cas", "rd_adv"} => req[t].op \in Taking
  /\ pc[t] = "rd_adv" => (Running(t) <=> req[t].op \in Repeats)
  /\ pc[t] = "callback" => Running(t) /\ req[t].op = "consume"
  /\ pc[t] = "exchange" => Running(t) /\ req[t].op = "exchange"
  /\ pc[t] \in {"idle", "wr_adv"} => ~Running(t)

Calls == \A t \in Threads : AtPlace(t)

LEMMA CallsInit == Init => Calls
<1> SUFFICES ASSUME Init, NEW t \in Threads PROVE AtPlace(t)
  BY DEF Calls
<1>1. pc[t] = "idle" /\ res[t].is = "false"
  BY DEF Init, False, Result
<1> QED
  BY <1>1 DEF AtPlace, Running

(* A step of thread t leaves the calls of the others alone.                *)
LEMMA OthersCalls ==
  ASSUME TypeOK, NEW t \in Threads, Call(t) \/ Step(t), NEW u \in Threads \ {t}
  PROVE  pc'[u] = pc[u] /\ req'[u] = req[u] /\ res'[u] = res[u]
<1>1. /\ pc \in [Threads -> PCs] /\ req \in [Threads -> Request]
      /\ res \in [Threads -> Results]
  BY DEF TypeOK
<1>2. CASE Call(t)
  BY <1>1, <1>2 DEF Call, Goto, Sets
<1>3. CASE Pushing(t)
  BY <1>1, <1>3
  DEF Pushing, WrLoad, WrReady, WrBehind, WrMoved, WrFull, KeepFull, WrCas,
      WrCasFails, WrAdv, WrHelp, Goto, Sets, Leave
<1>4. CASE Popping(t)
  BY <1>1, <1>4
  DEF Popping, RdLoad, RdReady, Refuse, Peek, RdBehind, RdMoved, RdEmpty,
      KeepEmpty, EmptyTest, RdCas, RdCasFails, RdAdv, RdHelp, Stop, Continue,
      AfterPop, Goto, Sets, Leave
<1>5. CASE Exchange(t) \/ ExchangeFails(t)
  BY <1>1, <1>5 DEF Exchange, ExchangeFails, Goto, Sets, Leave
<1> QED
  BY <1>2, <1>3, <1>4, <1>5 DEF Step

(* A step of thread t keeps its own call in order.                         *)
LEMMA OwnCall ==
  ASSUME TypeOK, NEW t \in Threads, AtPlace(t), Call(t) \/ Step(t)
  PROVE  AtPlace(t)'
<1>1. /\ pc \in [Threads -> PCs] /\ req \in [Threads -> Request]
      /\ res \in [Threads -> Results] /\ req[t].op \in Ops
  BY DEF TypeOK, Request
<1>2. CASE Call(t)
  <2>1. PICK r \in Requests[t] : /\ req' = [req EXCEPT ![t] = r]
                                 /\ Goto(t, Start(r.op))
    BY <1>2 DEF Call
  <2>2. /\ req'[t].op = r.op /\ pc'[t] = Start(r.op) /\ res'[t] = Pending
    BY <1>1, <1>2, <2>1 DEF Call, Goto, Sets
  <2> QED
    BY <2>2 DEF AtPlace, Start, Running, Pending, Result, Pushes
<1>3. CASE Pushing(t)
  <2>1. CASE WrLoad(t) \/ WrReady(t) \/ WrBehind(t) \/ WrMoved(t) \/ WrCasFails(t) \/ WrHelp(t)
    BY <1>1, <2>1
    DEF WrLoad, WrReady, WrBehind, WrMoved, WrCasFails, WrHelp, Sees, Goto,
        AtPlace, Running
  <2>2. CASE WrFull(t) \/ WrAdv(t)
    BY <1>1, <2>2
    DEF WrFull, WrAdv, Sees, Goto, Sets, Leave, AtPlace, Running, False, Result
  <2>3. CASE KeepFull(t)
    BY <1>1, <2>3 DEF KeepFull, Sees, Goto, AtPlace, Running
  <2>4. CASE WrCas(t)
    BY <1>1, <2>4 DEF WrCas, Goto, Sets, Leave, AtPlace, Running, Result
  <2> QED
    BY <1>3, <2>1, <2>2, <2>3, <2>4 DEF Pushing
<1>4. CASE Popping(t)
  <2>1. CASE RdLoad(t) \/ RdReady(t) \/ RdBehind(t) \/ RdMoved(t) \/ RdCasFails(t) \/ RdHelp(t)
    BY <1>1, <2>1
    DEF RdLoad, RdReady, RdBehind, RdMoved, RdCasFails, RdHelp, Finds, Goto,
        AtPlace, Running
  <2>2. CASE Refuse(t) \/ Peek(t) \/ RdEmpty(t) \/ EmptyTest(t)
    BY <1>1, <2>2
    DEF Refuse, Peek, RdEmpty, EmptyTest, Goto, Sets, Leave, AtPlace, Running,
        False, Result
  <2>3. CASE KeepEmpty(t)
    BY <1>1, <2>3 DEF KeepEmpty, Finds, Goto, AtPlace, Running, Pushes
  <2>4. CASE RdCas(t)
    <3>1. /\ Running(t) /\ req[t].op \in Taking /\ req' = req /\ res'[t] = Popped(t)
          /\ pc'[t] = "rd_adv" \/ AfterPop(t)
      BY <1>1, <2>4 DEF RdCas, AtPlace, Goto, Sets
    <3>2. Running(t)' <=> req[t].op \in Repeats
      BY <3>1 DEF Running, Popped, Result, Taking, Repeats
    <3>3. CASE pc'[t] = "rd_adv"
      BY <3>1, <3>2, <3>3 DEF AtPlace
    <3>4. CASE AfterPop(t)
      BY <1>1, <3>1, <3>2, <3>4
      DEF AtPlace, AfterPop, Goto, Leave, Taking, Repeats, Pushes
    <3> QED
      BY <3>1, <3>3, <3>4
  <2>5. CASE RdAdv(t)
    BY <1>1, <2>5
    DEF RdAdv, AtPlace, AfterPop, Goto, Leave, Running, Taking, Repeats, Pushes
  <2>6. CASE Stop(t)
    BY <1>1, <2>6 DEF Stop, Goto, Sets, Leave, AtPlace, Running, Results
  <2>7. CASE Continue(t)
    BY <1>1, <2>7 DEF Continue, Goto, AtPlace, Running
  <2> QED
    BY <1>4, <2>1, <2>2, <2>3, <2>4, <2>5, <2>6, <2>7 DEF Popping
<1>5. CASE Exchange(t) \/ ExchangeFails(t)
  BY <1>1, <1>5
  DEF Exchange, ExchangeFails, Goto, Sets, Leave, AtPlace, Running, False, Result
<1> QED
  BY <1>2, <1>3, <1>4, <1>5 DEF Step

LEMMA CallsStep == ASSUME TypeOK, Calls, [Next]_vars PROVE Calls'
<1>1. CASE UNCHANGED vars
  BY <1>1 DEF vars, Calls, AtPlace, Running
<1>2. ASSUME NEW t \in Threads, Call(t) \/ Step(t) PROVE Calls'
  <2>1. ASSUME NEW u \in Threads \ {t} PROVE AtPlace(u)'
    BY <1>2, <2>1, OthersCalls DEF Calls, AtPlace, Running
  <2>2. AtPlace(t)'
    BY <1>2, OwnCall DEF Calls
  <2> QED
    BY <2>1, <2>2 DEF Calls
<1> QED
  BY <1>1, <1>2 DEF Next, Done

(* At every access the thread is at a place of the operation it runs, and  *)
(* has a result exactly if the call has taken effect: pop_if and peek      *)
(* never reach a push, an exchange never a loop, and no operation returns  *)
(* while it still owes its effect.                                         *)
THEOREM CallSafety == ASSUME NoAba PROVE Spec => []Calls
<1>1. Init => Calls
  BY CallsInit
<1>2. IInv /\ Calls /\ [Next]_vars => Calls'
  BY CallsStep DEF IInv
<1> QED
  BY <1>1, <1>2, Safety, PTL DEF Spec
------------------------------------------------------------------------------
(* The elements as a sequence. *)

LEMMA Subtraction == ASSUME NEW a \in Nat, NEW b \in Nat, a <= b PROVE b - a \in Nat
OBVIOUS

(* The data of n entries from number h on.                                 *)
LEMMA ElementData ==
  ASSUME NEW a \in [0 .. N - 1 -> Entry], NEW h \in Int, NEW n \in Nat
  PROVE  \A k \in 1 .. n : a[Slot(h + k - 1)].data \in Values
<1> SUFFICES ASSUME NEW k \in 1 .. n PROVE a[Slot(h + k - 1)].data \in Values
  OBVIOUS
<1>1. Slot(h + k - 1) \in 0 .. N - 1
  BY SlotRange
<1> QED
  BY <1>1 DEF Entry

(* The contents are the data of the entries from the head to the tail,     *)
(* before and after a step.                                                *)
LEMMA ContentsSeq ==
  ASSUME IInv
  PROVE  /\ Contents \in Seq(Values)
         /\ Len(Contents) = tail - head /\ DOMAIN Contents = 1 .. tail - head
         /\ \A k \in 1 .. tail - head : Contents[k] = array[Slot(head + k - 1)].data
<1> DEFINE n == tail - head
<1>1. n \in Nat /\ head \in Int /\ array \in [0 .. N - 1 -> Entry]
  BY Numbers DEF IInv, TypeOK
<1>2. Contents = [k \in 1 .. n |-> array[Slot(head + k - 1)].data]
  BY DEF Contents
<1> HIDE DEF n
<1>3. /\ DOMAIN Contents = 1 .. n
      /\ \A k \in 1 .. n : Contents[k] = array[Slot(head + k - 1)].data
  BY <1>2
<1>4. Contents \in [1 .. n -> Values]
  BY <1>1, <1>2, ElementData
<1>5. Contents \in Seq(Values) /\ Len(Contents) = n
  BY <1>1, <1>4
<1> QED
  BY <1>3, <1>5 DEF n

LEMMA NextContents ==
  ASSUME IInv'
  PROVE  /\ Contents' \in Seq(Values)
         /\ Len(Contents') = tail' - head'
         /\ \A k \in 1 .. tail' - head' : Contents'[k] = array'[Slot(head' + k - 1)].data
<1> DEFINE n == tail - head
<1>1. /\ head' \in Nat /\ tail' \in Nat /\ head' <= tail'
      /\ array' \in [0 .. N - 1 -> Entry]
  BY DEF IInv, TypeOK, Window
<1>2. tail' - head' \in Nat
  BY <1>1, Subtraction, Zenon
<1>3. n' \in Nat
  BY <1>2 DEF n
<1>4. head' \in Int
  BY <1>1
<1>5. Contents' = [k \in 1 .. n' |-> array'[Slot(head' + k - 1)].data]
  BY DEF Contents
<1> HIDE DEF n
<1>6. \A k \in 1 .. n' : Contents'[k] = array'[Slot(head' + k - 1)].data
  BY <1>5
<1>7. Contents' \in [1 .. n' -> Values]
  BY <1>1, <1>3, <1>4, <1>5, ElementData
<1>8. Contents' \in Seq(Values) /\ Len(Contents') = n'
  BY <1>3, <1>7
<1> QED
  BY <1>6, <1>8 DEF n

(* In the window, different numbers have different slots.                  *)
LEMMA OtherSlot ==
  ASSUME IInv, NEW j \in Int, NEW i \in Int, j # i, i - j < N, j - i < N
  PROVE  Slot(j) # Slot(i)
BY SameSlot

(* A push appends its data, in a queue that is not full; its index is the  *)
(* number of the new element.                                              *)
LEMMA PushContents ==
  ASSUME NoAba, IInv, IInv', NEW t \in Threads, WrCas(t)
  PROVE  /\ Len(Contents) < N
         /\ reg[t].idx = (head + Len(Contents)) % R
         /\ Contents' = Append(Contents, req[t].data)
<1> DEFINE d == req[t].data
           c == Contents
           n == tail - head
<1>1. /\ head \in Int /\ tail \in Int /\ n \in Nat /\ N \in Int
      /\ tail < head + N /\ reg[t].idx = Wrap(tail) /\ Slot(reg[t].idx) = Slot(tail)
  BY Numbers, PushAtTail
<1>2. /\ array \in [0 .. N - 1 -> Entry] /\ d \in Values /\ Slot(tail) \in 0 .. N - 1
  BY <1>1, SlotRange DEF IInv, TypeOK, Request
<1>3. /\ head' = head /\ tail' = tail + 1
      /\ array' = [array EXCEPT ![Slot(tail)] = FullEntry(reg[t].idx, d)]
  BY <1>1 DEF WrCas
<1>4. /\ c \in Seq(Values) /\ Len(c) = n
      /\ \A k \in 1 .. n : c[k] = array[Slot(head + k - 1)].data
  BY ContentsSeq
<1>5. /\ c' \in Seq(Values) /\ Len(c') = n + 1
      /\ \A k \in 1 .. n + 1 : c'[k] = array'[Slot(head + k - 1)].data
  BY <1>1, <1>3, NextContents
<1>6. ASSUME NEW k \in 1 .. n PROVE c'[k] = c[k]
  <2>1. Slot(head + k - 1) # Slot(tail)
    BY <1>1, OtherSlot
  <2> QED
    BY <1>2, <1>3, <1>4, <1>5, <2>1
<1>7. c'[n + 1] = d
  BY <1>1, <1>2, <1>3, <1>5 DEF FullEntry
<1>8. Len(c) < N /\ reg[t].idx = (head + Len(c)) % R
  BY <1>1, <1>4 DEF Wrap
<1> HIDE DEF c, d, n
<1>9. /\ Append(c, d) \in Seq(Values) /\ Len(Append(c, d)) = n + 1
      /\ \A k \in 1 .. n : Append(c, d)[k] = c[k]
      /\ Append(c, d)[n + 1] = d
  BY <1>1, <1>2, <1>4, Seqs!AppendProperties
<1>10. c' = Append(c, d)
  <2>1. \A k \in 1 .. n + 1 : c'[k] = Append(c, d)[k]
    BY <1>1, <1>6, <1>7, <1>9
  <2> QED
    BY <1>5, <1>9, <2>1, Seqs!SeqEqual
<1> QED
  BY <1>8, <1>10 DEF c, d

(* A pop takes the first element, the very one whose data it had loaded;   *)
(* its index is the number of that element.                                *)
LEMMA PopContents ==
  ASSUME NoAba, IInv, IInv', NEW t \in Threads, RdCas(t)
  PROVE  /\ Contents # << >> /\ Head(Contents) = reg[t].data
         /\ reg[t].idx = head % R
         /\ Contents' = Tail(Contents) /\ head' = head + 1
<1> DEFINE c == Contents
           n == tail - head
<1>1. /\ head \in Int /\ tail \in Int /\ n \in Nat /\ N \in Int /\ n > 0
      /\ tail <= head + N /\ reg[t].idx = Wrap(head) /\ Slot(reg[t].idx) = Slot(head)
  BY Numbers, PopAtHead
<1>2. array \in [0 .. N - 1 -> Entry] /\ Slot(head) \in 0 .. N - 1
  BY <1>1, SlotRange DEF IInv, TypeOK
<1>3. /\ head' = head + 1 /\ tail' = tail
      /\ array' = [array EXCEPT ![Slot(head)] = Cleared(reg[t].idx)]
      /\ array[Slot(head)] = Loaded(t)
  BY <1>1 DEF RdCas
<1>4. /\ c \in Seq(Values) /\ Len(c) = n
      /\ \A k \in 1 .. n : c[k] = array[Slot(head + k - 1)].data
  BY ContentsSeq
<1>5. /\ c' \in Seq(Values) /\ Len(c') = n - 1
      /\ \A k \in 1 .. n - 1 : c'[k] = array'[Slot(head + k)].data
  <2>1. tail' - head' = n - 1
    BY <1>1, <1>3
  <2>2. \A k \in 1 .. n - 1 : head' + k - 1 = head + k
    BY <1>1, <1>3
  <2> QED
    BY <2>1, <2>2, NextContents
<1>6. ASSUME NEW k \in 1 .. n - 1 PROVE c'[k] = c[k + 1]
  <2>1. k \in Int /\ head + k \in Int /\ k + 1 \in 1 .. n
    BY <1>1
  <2>2. Slot(head + k) # Slot(head)
    BY <1>1, <2>1, OtherSlot
  <2>3. array'[Slot(head + k)] = array[Slot(head + k)]
    BY <1>2, <1>3, <2>1, <2>2, SlotRange
  <2>4. head + (k + 1) - 1 = head + k
    BY <1>1, <2>1
  <2> QED
    BY <1>4, <1>5, <2>1, <2>3, <2>4
<1>7. c[1] = reg[t].data
  <2>1. 1 \in 1 .. n /\ head + 1 - 1 = head
    BY <1>1
  <2> QED
    BY <1>3, <1>4, <2>1 DEF Loaded, FullEntry
<1>8. reg[t].idx = head % R
  BY <1>1 DEF Wrap
<1> HIDE DEF c, n
<1>9. c # << >> /\ Head(c) = c[1]
  BY <1>1, <1>4
<1>10. c' = Tail(c)
  <2>1. /\ Tail(c) \in Seq(Values) /\ Len(Tail(c)) = n - 1
        /\ \A k \in 1 .. n - 1 : Tail(c)[k] = c[k + 1]
    BY <1>1, <1>4, <1>9, Seqs!HeadTailProperties
  <2>2. \A k \in 1 .. n - 1 : c'[k] = Tail(c)[k]
    BY <1>6, <2>1
  <2> QED
    BY <1>5, <2>1, <2>2, Seqs!SeqEqual
<1> QED
  BY <1>3, <1>7, <1>8, <1>9, <1>10 DEF c

(* Two numbers have the same word for a full entry exactly if they are     *)
(* equal modulo half the index range, and then they have the same slot.    *)
LEMMA SameFull ==
  ASSUME NEW i \in Int, NEW j \in Int
  PROVE  /\ FullSeq(j) = FullSeq(i) <=> (j - i) % Half = 0
         /\ FullSeq(j) = FullSeq(i) => Slot(j) = Slot(i)
         /\ FullSeq(j) # EmptySeq(i)
<1>1. Half \in Nat \ {0} /\ N \in Nat \ {0} /\ j - i \in Int /\ 0 \in Int
  BY HalfRange
<1> DEFINE x == i % Half
           y == j % Half
           d == j - i
<1>2. x \in Int /\ y \in Int
  BY <1>1, Division
<1>3. FullSeq(i) = 2 * x + 1 /\ FullSeq(j) = 2 * y + 1 /\ EmptySeq(i) = 2 * x
  BY SeqWord
<1>4. ASSUME y = x PROVE d % Half = 0 /\ Slot(j) = Slot(i)
  <2>1. PICK q \in Int : j = i + Half * q
    BY <1>1, <1>4, SameRemainder
  <2>2. d = 0 + Half * q
    BY <1>1, <2>1
  <2>3. d % Half = 0
    <3> HIDE DEF d
    <3>1. d \in Int
      BY <1>1 DEF d
    <3>2. d % Half = 0 % Half
      BY <1>1, <2>2, <3>1, Congruent
    <3> QED
      BY <1>1, <3>2
  <2>4. PICK m \in Nat : Half = N * m
    BY HalfRange
  <2>5. m * q \in Int /\ j = i + N * (m * q)
    BY <1>1, <2>1, <2>4
  <2>6. Slot(j) = Slot(i)
    <3> DEFINE z == m * q
    <3>1. z \in Int /\ j = i + N * z
      BY <2>5
    <3> HIDE DEF z
    <3>2. \A r \in Nat \ {0}, k \in Int : j = i + r * k => j % r = i % r
      BY Congruent, Zenon
    <3>3. j % N = i % N
      BY <1>1, <3>1, <3>2, Zenon
    <3> QED
      BY <3>3 DEF Slot
  <2> QED
    BY <2>3, <2>6
<1>5. ASSUME d % Half = 0 PROVE y = x
  <2>1. d = Half * (d \div Half) + (d % Half) /\ d \div Half \in Int
    BY <1>1, Division
  <2> DEFINE q == d \div Half
  <2>2. q \in Int /\ j = i + Half * q
    BY <1>1, <1>5, <2>1
  <2> HIDE DEF q
  <2> QED
    BY <1>1, <2>2, Congruent
<1> HIDE DEF x, y
<1>6. (FullSeq(j) = FullSeq(i) <=> y = x) /\ FullSeq(j) # EmptySeq(i)
  BY <1>2, <1>3
<1> QED
  BY <1>4, <1>5, <1>6 DEF d

(* An element number j has the number the caller gave, and its old data,   *)
(* exactly if its entry is the one exchange compares with.                 *)
LEMMA TargetOf ==
  ASSUME IInv, NEW t \in Threads, NEW j \in Int, head <= j, j < tail
  PROVE  (/\ (j - req[t].index) % Half = 0
          /\ array[Slot(j)].data = req[t].old)
         <=> /\ Slot(j) = Slot(req[t].index)
             /\ array[Slot(req[t].index)] = Target(t)
<1> DEFINE i == req[t].index
           e == array[Slot(j)]
<1>1. /\ i \in Int /\ head \in Int /\ tail \in Int /\ N \in Int
      /\ tail <= head + N
  BY HalfRange, Numbers DEF IInv, TypeOK, Request
<1>2. Serves(j) /\ e \in Entry
  <2>1. j \in head .. head + N - 1 /\ Slot(j) \in 0 .. N - 1
    BY <1>1, SlotRange
  <2> QED
    BY <2>1 DEF IInv, TypeOK, Window
<1>3. e.seq = FullSeq(j) /\ e = [seq |-> e.seq, data |-> e.data]
  BY <1>2 DEF Serves, Entry
<1>4. Target(t) = [seq |-> FullSeq(i), data |-> req[t].old]
  BY DEF Target, FullEntry
<1>5. /\ FullSeq(j) = FullSeq(i) <=> (j - i) % Half = 0
      /\ FullSeq(j) = FullSeq(i) => Slot(j) = Slot(i)
  BY <1>1, SameFull
<1> HIDE DEF i
<1>6. e = Target(t) <=> FullSeq(j) = FullSeq(i) /\ e.data = req[t].old
  BY <1>3, <1>4
<1> QED
  BY <1>5, <1>6 DEF i

(* exchange replaces the data of one element, the one it was told to.      *)
LEMMA SwapContents ==
  ASSUME NoAba, IInv, IInv', NEW t \in Threads, Exchange(t)
  PROVE  \E k \in DOMAIN Contents :
           /\ (head + k - 1 - req[t].index) % Half = 0
           /\ Contents[k] = req[t].old
           /\ Contents' = [Contents EXCEPT ![k] = req[t].data]
<1> DEFINE i == req[t].index
           d == req[t].data
           c == Contents
           n == tail - head
<1>1. /\ i \in Int /\ head \in Int /\ tail \in Int /\ N \in Int /\ n \in Nat
      /\ tail <= head + N /\ d \in Values
  BY HalfRange, Numbers DEF IInv, TypeOK, Request
<1>2. PICK j \in head .. head + N - 1 : Slot(j) = Slot(i)
  BY <1>1, WindowHasSlot
<1>3. /\ array[Slot(i)] = Target(t) /\ head' = head /\ tail' = tail
      /\ array' = [array EXCEPT ![Slot(i)] = FullEntry(i, d)]
  BY DEF Exchange
<1>4. j \in Int /\ head <= j /\ j < head + N
  BY <1>1
<1>5. j < tail
  <2>1. Serves(j)
    BY <1>1, <1>4 DEF IInv, Window
  <2>2. FullSeq(i) # EmptySeq(j)
    BY <1>1, <1>4, SameFull
  <2>3. array[Slot(j)].seq = FullSeq(i)
    BY <1>2, <1>3 DEF Target, FullEntry
  <2> QED
    BY <1>1, <1>4, <2>1, <2>2, <2>3 DEF Serves
<1>6. (j - i) % Half = 0 /\ array[Slot(j)].data = req[t].old
  BY <1>2, <1>3, <1>4, <1>5, TargetOf
<1> DEFINE k == j - head + 1
<1>7. k \in 1 .. n /\ head + k - 1 = j
  BY <1>1, <1>4, <1>5
<1>8. /\ c \in Seq(Values) /\ Len(c) = n /\ DOMAIN c = 1 .. n
      /\ \A m \in 1 .. n : c[m] = array[Slot(head + m - 1)].data
  BY ContentsSeq
<1>9. /\ c' \in Seq(Values) /\ Len(c') = n
      /\ \A m \in 1 .. n : c'[m] = array'[Slot(head + m - 1)].data
  BY <1>3, NextContents
<1>10. array \in [0 .. N - 1 -> Entry] /\ Slot(i) \in 0 .. N - 1
  BY <1>1, SlotRange DEF IInv, TypeOK
<1>11. c'[k] = d
  BY <1>2, <1>3, <1>7, <1>9, <1>10 DEF FullEntry
<1>12. ASSUME NEW m \in 1 .. n, m # k PROVE c'[m] = c[m]
  <2>1. head + m - 1 \in Int /\ head + m - 1 # j
    BY <1>1, <1>7, <1>12
  <2>2. Slot(head + m - 1) # Slot(j)
    BY <1>1, <1>4, <1>5, <2>1, OtherSlot
  <2>3. array'[Slot(head + m - 1)] = array[Slot(head + m - 1)]
    BY <1>2, <1>3, <1>10, <2>1, <2>2, SlotRange
  <2> QED
    BY <1>8, <1>9, <2>3
<1>13. k \in DOMAIN c /\ c[k] = req[t].old
  BY <1>6, <1>7, <1>8
<1> HIDE DEF c, d, n, k
<1>14. c' = [c EXCEPT ![k] = d]
  <2> DEFINE x == [c EXCEPT ![k] = d]
  <2>1. /\ x \in Seq(Values) /\ Len(x) = n
        /\ \A m \in 1 .. n : x[m] = IF m = k THEN d ELSE c[m]
    BY <1>1, <1>7, <1>8, Seqs!ExceptSeq
  <2> HIDE DEF x
  <2>2. \A m \in 1 .. n : c'[m] = x[m]
    BY <1>11, <1>12, <2>1
  <2>3. c' = x
    BY <1>9, <2>1, <2>2, Seqs!SeqEqual
  <2> QED
    BY <2>3 DEF x
<1>15. (head + k - 1 - i) % Half = 0
  <2>1. k \in Int /\ head + k - 1 - i = j - i
    BY <1>1, <1>4, <1>7
  <2> QED
    BY <1>6, <2>1
<1> HIDE DEF i
<1>16. \E m \in DOMAIN c : /\ (head + m - 1 - i) % Half = 0 /\ c[m] = req[t].old
                           /\ c' = [c EXCEPT ![m] = d]
  BY <1>13, <1>14, <1>15
<1> QED
  BY <1>16 DEF c, d, i

(* exchange fails only if no element answers to number and data.           *)
LEMMA SwapFails ==
  ASSUME IInv, NEW t \in Threads, ExchangeFails(t), NEW k \in DOMAIN Contents
  PROVE  ~ /\ (head + k - 1 - req[t].index) % Half = 0
           /\ Contents[k] = req[t].old
<1> DEFINE j == head + k - 1
<1>1. /\ k \in 1 .. tail - head /\ Contents[k] = array[Slot(j)].data
      /\ head \in Int /\ tail \in Int
  BY ContentsSeq, Numbers
<1>2. j \in Int /\ head <= j /\ j < tail
  BY <1>1
<1>3. array[Slot(req[t].index)] # Target(t)
  BY DEF ExchangeFails
<1> HIDE DEF j
<1>4. ~ ((j - req[t].index) % Half = 0 /\ array[Slot(j)].data = req[t].old)
  BY <1>2, <1>3, TargetOf
<1>5. head + k - 1 - req[t].index = j - req[t].index
  <2>1. req[t].index \in Int
    BY HalfRange DEF IInv, TypeOK, Request
  <2> QED
    BY <1>1, <2>1 DEF j
<1> QED
  BY <1>1, <1>4, <1>5
------------------------------------------------------------------------------
(* What the looks at an entry tell about the whole queue. *)

LEMMA SameContents ==
  ASSUME UNCHANGED <<array, head, tail>> PROVE Contents' = Contents
BY DEF Contents

LEMMA EmptyContents == ASSUME IInv PROVE Contents = << >> <=> head = tail
<1>1. head \in Int /\ tail \in Int
  BY Numbers
<1>2. Contents \in Seq(Values) /\ Len(Contents) = tail - head
  BY ContentsSeq
<1>3. Contents = << >> <=> Len(Contents) = 0
  BY <1>2
<1> QED
  BY <1>1, <1>2, <1>3

(* A push that is told "full" has looked at a full queue.                  *)
LEMMA SeesFull ==
  ASSUME NoAba, IInv, NEW t \in Threads, Sees(t, "full")
  PROVE  Len(Contents) = N
<1> DEFINE b == reg[t].base
           seq == array[Slot(reg[t].idx)].seq
<1>1. WriteRegister(t)
  BY DEF IInv, Registers, Sees, WritePCs
<1>2. /\ Counts /\ Window /\ b \in Int /\ b <= tail /\ tail - b <= MaxLag
      /\ reg[t].idx = Wrap(b)
  BY <1>1, Numbers DEF WriteRegister, IInv
<1>3. WriteView(Wrap(b), seq) = "full" /\ seq = array[Slot(Wrap(b))].seq
  BY <1>2 DEF Sees
<1> HIDE DEF b, seq
<1>4. tail = head + N
  BY <1>2, <1>3, WriteLookup
<1> QED
  BY <1>4, ContentsSeq, Numbers

(* A reader that finds an element looks at the head; one that is told      *)
(* "empty" has looked at an empty queue.                                   *)
LEMMA FindsHead ==
  ASSUME NoAba, IInv, NEW t \in Threads, pc[t] = "rd_entry",
         NEW e, e = array[Slot(reg[t].idx)]
  PROVE  /\ e.seq = FullSeq(reg[t].idx) =>
              /\ Contents # << >> /\ Head(Contents) = e.data
              /\ e.seq = (2 * head + 1) % R
         /\ e.seq = EmptySeq(reg[t].idx) => Contents = << >>
<1> DEFINE b == reg[t].base
           seq == array[Slot(reg[t].idx)].seq
<1>1. ReadRegister(t)
  BY DEF IInv, Registers, ReadPCs
<1>2. /\ Counts /\ Window /\ b \in Int /\ b <= head /\ head - b <= MaxLag
      /\ reg[t].idx = Wrap(b)
  BY <1>1, Numbers DEF ReadRegister, IInv
<1>3. seq = array[Slot(Wrap(b))].seq
  BY <1>2
<1> HIDE DEF b, seq
<1>4. /\ seq = FullSeq(Wrap(b)) => b = head /\ head < tail
      /\ seq = EmptySeq(Wrap(b)) => b = head /\ head = tail
  BY <1>2, <1>3, ReadLookup
<1>5. /\ FullSeq(Wrap(b)) = FullSeq(b) /\ Slot(Wrap(b)) = Slot(b)
  BY <1>2, Wrapped
<1>6. ASSUME seq = FullSeq(Wrap(b))
      PROVE  /\ Contents # << >> /\ Head(Contents) = e.data
             /\ e.seq = (2 * head + 1) % R
  <2>1. b = head /\ head < tail /\ head \in Int /\ tail \in Int
    BY <1>4, <1>6, Numbers
  <2>2. Contents # << >>
    BY <2>1, EmptyContents
  <2>3. Contents[1] = array[Slot(head)].data /\ Head(Contents) = Contents[1]
    <3>1. 1 \in 1 .. tail - head /\ head + 1 - 1 = head
      BY <2>1
    <3>2. Contents[1] = array[Slot(head)].data
      BY <3>1, ContentsSeq
    <3>3. Head(Contents) = Contents[1]
      BY <2>2, ContentsSeq
    <3> QED
      BY <3>2, <3>3
  <2>4. e.seq = FullSeq(head)
    BY <1>2, <1>3, <1>5, <1>6, <2>1
  <2> QED
    BY <1>2, <1>5, <2>1, <2>2, <2>3, <2>4 DEF FullSeq, Wrap
<1> QED
  BY <1>2, <1>3, <1>4, <1>6, EmptyContents

LEMMA ViewMeans ==
  ASSUME NEW op, NEW i, NEW seq
  PROVE  /\ View(op, i, seq) = "ready" => seq = FullSeq(i)
         /\ View(op, i, seq) = "empty" => seq = EmptySeq(i)
BY DEF View, ReadView, PeekView
------------------------------------------------------------------------------
(* Each step of MpmcQueue is a step of FifoQueue, or leaves it alone. *)

LEMMA RefinesInit == Init => Fifo!Init
<1> SUFFICES ASSUME Init PROVE Fifo!Init
  OBVIOUS
<1>1. Contents = << >>
  BY InitInv, EmptyContents DEF Init
<1> QED
  BY <1>1
  DEF Init, Fifo!Init, False, Result, Fifo!False, Fifo!Result, NoRequest,
      Fifo!NoRequest

(* Steps that change neither elements nor calls.                           *)
LEMMA QuietSteps ==
  ASSUME NEW t \in Threads,
         \/ WrLoad(t) \/ WrReady(t) \/ WrBehind(t) \/ WrMoved(t) \/ KeepFull(t)
         \/ WrCasFails(t) \/ WrAdv(t) \/ WrHelp(t)
         \/ RdLoad(t) \/ RdReady(t) \/ RdBehind(t) \/ RdMoved(t) \/ KeepEmpty(t)
         \/ RdCasFails(t) \/ RdAdv(t) \/ RdHelp(t) \/ Continue(t)
  PROVE  UNCHANGED Fifo!vars
<1>1. UNCHANGED <<array, head, tail, req, res>>
  BY DEF WrLoad, WrReady, WrBehind, WrMoved, KeepFull, WrCasFails, WrAdv,
         WrHelp, RdLoad, RdReady, RdBehind, RdMoved, KeepEmpty, RdCasFails,
         RdAdv, RdHelp, Continue, shared
<1> QED
  BY <1>1, SameContents DEF Fifo!vars

(* Result, Pending and False are those of FifoQueue.                       *)
LEMMA SameResults ==
  /\ Fifo!Pending = Pending /\ Fifo!False = False
  /\ \A is, d, i : Fifo!Result(is, d, i) = Result(is, d, i)
BY DEF Pending, False, Result, Fifo!Pending, Fifo!False, Fifo!Result

LEMMA CallRefines ==
  ASSUME NEW t \in Threads, AtPlace(t), Call(t) PROVE Fifo!Begin(t)
<1>1. Contents' = Contents
  BY SameContents DEF Call, shared
<1>2. ~Running(t)
  BY DEF AtPlace, Call
<1> QED
  BY <1>1, <1>2, SameResults DEF Call, Running, Sets, Fifo!Begin

LEMMA PushRefines ==
  ASSUME NoAba, IInv, IInv', NEW t \in Threads, AtPlace(t),
         WrCas(t) \/ WrFull(t)
  PROVE  Fifo!Push(t) \/ Fifo!PushFull(t)
<1>1. CASE WrCas(t)
  <2>1. Running(t) /\ req[t].op \in Pushes
    BY <1>1 DEF AtPlace, WrCas
  <2>2. /\ Len(Contents) < N /\ reg[t].idx = (head + Len(Contents)) % R
        /\ Contents' = Append(Contents, req[t].data)
    BY <1>1, PushContents
  <2>3. /\ res' = [res EXCEPT ![t] = Result("true", Zero, reg[t].idx)]
        /\ req' = req /\ head' = head
    BY <1>1 DEF WrCas, Sets
  <2> QED
    BY <2>1, <2>2, <2>3, SameResults
    DEF Fifo!Push, Fifo!InCall, Fifo!Returns, Running, Pushes
<1>2. CASE WrFull(t)
  <2>1. Running(t) /\ req[t].op = "push" /\ Len(Contents) = N
    BY <1>2, SeesFull DEF AtPlace, WrFull, Sees
  <2>2. Contents' = Contents /\ head' = head
    BY <1>2, SameContents DEF WrFull, shared
  <2>3. res' = [res EXCEPT ![t] = False] /\ req' = req
    BY <1>2 DEF WrFull, Sets
  <2> QED
    BY <2>1, <2>2, <2>3, SameResults
    DEF Fifo!PushFull, Fifo!InCall, Fifo!Returns, Running
<1> QED
  BY <1>1, <1>2

LEMMA PopRefines ==
  ASSUME NoAba, IInv, IInv', NEW t \in Threads, AtPlace(t), RdCas(t)
  PROVE  Fifo!Pop(t) \/ Fifo!PopIf(t) \/ Fifo!Hand(t) \/ Fifo!Discard(t)
<1>1. Running(t) /\ req[t].op \in Taking
  BY DEF AtPlace, RdCas
<1>2. /\ Contents # << >> /\ Head(Contents) = reg[t].data
      /\ reg[t].idx = head % R
      /\ Contents' = Tail(Contents) /\ head' = head + 1
  BY PopContents
<1>3. res' = [res EXCEPT ![t] = Popped(t)] /\ req' = req
  BY DEF RdCas, Sets
<1>4. Fifo!TakeHead
  BY <1>2 DEF Fifo!TakeHead
<1>5. CASE req[t].op = "pop"
  BY <1>1, <1>2, <1>3, <1>4, <1>5, SameResults
  DEF Fifo!Pop, Fifo!InCall, Fifo!Returns, Running, Popped
<1>6. CASE req[t].op = "pop_if"
  BY <1>1, <1>2, <1>3, <1>4, <1>6, SameResults
  DEF Fifo!PopIf, Fifo!InCall, Fifo!Returns, Running, Popped
<1>7. CASE req[t].op = "consume"
  BY <1>1, <1>2, <1>3, <1>4, <1>7, SameResults
  DEF Fifo!Hand, Fifo!InCall, Fifo!Returns, Running, Popped
<1>8. CASE req[t].op = "push_keep_n"
  <2>1. Popped(t) = res[t]
    BY <1>8 DEF Popped
  <2>2. res' = res
    BY <1>3, <2>1 DEF IInv, TypeOK
  <2> QED
    BY <1>1, <1>3, <1>4, <1>8, <2>2 DEF Fifo!Discard, Fifo!InCall, Running
<1> QED
  BY <1>1, <1>5, <1>6, <1>7, <1>8 DEF Taking

LEMMA LookRefines ==
  ASSUME NoAba, IInv, NEW t \in Threads, AtPlace(t),
         Refuse(t) \/ Peek(t) \/ RdEmpty(t) \/ EmptyTest(t)
  PROVE  Fifo!Refuse(t) \/ Fifo!Peek(t) \/ Fifo!NothingThere(t) \/ Fifo!Empty(t)
<1> DEFINE e == array[Slot(reg[t].idx)]
<1>1. pc[t] = "rd_entry" /\ Running(t)
  BY DEF AtPlace, Refuse, Peek, RdEmpty, EmptyTest, Finds
<1>2. /\ Contents' = Contents /\ head' = head /\ req' = req
  BY SameContents DEF Refuse, Peek, RdEmpty, EmptyTest, shared
<1>3. /\ e.seq = FullSeq(reg[t].idx) =>
           /\ Contents # << >> /\ Head(Contents) = e.data
           /\ e.seq = (2 * head + 1) % R
      /\ e.seq = EmptySeq(reg[t].idx) => Contents = << >>
  BY <1>1, FindsHead
<1>4. CASE Refuse(t)
  <2>1. /\ req[t].op = "pop_if" /\ e.seq = FullSeq(reg[t].idx)
        /\ res' = [res EXCEPT ![t] = False]
    BY <1>4, ViewMeans DEF Refuse, Finds, Sets
  <2> QED
    BY <1>1, <1>2, <1>3, <2>1, SameResults
    DEF Fifo!Refuse, Fifo!InCall, Fifo!Returns, Running
<1>5. CASE Peek(t)
  <2>1. /\ req[t].op = "peek" /\ e.seq = FullSeq(reg[t].idx)
        /\ res' = [res EXCEPT ![t] = Result("true", e.data, e.seq)]
    BY <1>5, ViewMeans DEF Peek, Finds, Sets
  <2> HIDE DEF e
  <2> QED
    BY <1>1, <1>2, <1>3, <2>1, SameResults
    DEF Fifo!Peek, Fifo!InCall, Fifo!Returns, Running
<1>6. CASE RdEmpty(t)
  <2>1. /\ req[t].op \in {"pop", "peek", "pop_if", "consume"}
        /\ e.seq = EmptySeq(reg[t].idx) /\ res' = [res EXCEPT ![t] = False]
    BY <1>6, ViewMeans DEF RdEmpty, Finds, Sets
  <2> QED
    BY <1>1, <1>2, <1>3, <2>1, SameResults
    DEF Fifo!NothingThere, Fifo!InCall, Fifo!Returns, Running
<1>7. CASE EmptyTest(t)
  <2>1. /\ req[t].op = "empty"
        /\ \/ /\ e.seq = EmptySeq(reg[t].idx)
              /\ res' = [res EXCEPT ![t] = Result("true", Zero, 0)]
           \/ res' = [res EXCEPT ![t] = False]
    BY <1>7 DEF EmptyTest, Sets
  <2> QED
    BY <1>1, <1>2, <1>3, <2>1, SameResults
    DEF Fifo!Empty, Fifo!InCall, Fifo!Returns, Running
<1> QED
  BY <1>4, <1>5, <1>6, <1>7

LEMMA StopRefines ==
  ASSUME NEW t \in Threads, AtPlace(t), Stop(t) PROVE Fifo!Stop(t)
<1>1. Running(t) /\ req[t].op = "consume"
  BY DEF AtPlace, Stop
<1>2. Contents' = Contents
  BY SameContents DEF Stop, shared
<1> QED
  BY <1>1, <1>2 DEF Stop, Sets, Running, Fifo!Stop, Fifo!InCall, Fifo!Returns

LEMMA ExchangeRefines ==
  ASSUME NoAba, IInv, IInv', NEW t \in Threads, AtPlace(t),
         Exchange(t) \/ ExchangeFails(t)
  PROVE  Fifo!Exchange(t)
<1> DEFINE found == { k \in DOMAIN Contents :
                        /\ Fifo!Numbered(k, req[t].index)
                        /\ Contents[k] = req[t].old }
<1>1. Running(t) /\ req[t].op = "exchange" /\ head' = head /\ req' = req
  BY DEF AtPlace, Exchange, ExchangeFails, shared
<1>2. \A k \in DOMAIN Contents :
        k \in found <=> /\ (head + k - 1 - req[t].index) % Half = 0
                        /\ Contents[k] = req[t].old
  BY DEF Fifo!Numbered, Half
<1> HIDE DEF found
<1>3. \/ \E k \in found : /\ Contents' = [Contents EXCEPT ![k] = req[t].data]
                          /\ Fifo!Returns(t, Fifo!Result("true", Zero, 0))
      \/ found = {} /\ Fifo!Returns(t, Fifo!False) /\ UNCHANGED Contents
  <2>1. CASE Exchange(t)
    <3>1. PICK k \in DOMAIN Contents :
            /\ (head + k - 1 - req[t].index) % Half = 0
            /\ Contents[k] = req[t].old
            /\ Contents' = [Contents EXCEPT ![k] = req[t].data]
      BY <2>1, SwapContents
    <3>2. k \in found
      BY <1>2, <3>1
    <3>3. Fifo!Returns(t, Fifo!Result("true", Zero, 0))
      BY <1>1, <2>1, SameResults DEF Exchange, Sets, Fifo!Returns
    <3> QED
      BY <3>1, <3>2, <3>3
  <2>2. CASE ExchangeFails(t)
    <3>1. found \subseteq DOMAIN Contents
      BY DEF found
    <3>2. \A k \in DOMAIN Contents : k \notin found
      BY <1>2, <2>2, SwapFails
    <3>3. UNCHANGED Contents
      BY <2>2, SameContents DEF ExchangeFails, shared
    <3>4. Fifo!Returns(t, Fifo!False)
      BY <1>1, <2>2, SameResults DEF ExchangeFails, Sets, Fifo!Returns
    <3> QED
      BY <3>1, <3>2, <3>3, <3>4
  <2> QED
    BY <2>1, <2>2
<1> QED
  BY <1>1, <1>3 DEF found, Running, Fifo!Exchange, Fifo!InCall

LEMMA RefinesStep ==
  ASSUME NoAba, IInv, IInv', Calls, [Next]_vars
  PROVE  [Fifo!Next]_(Fifo!vars)
<1>1. CASE UNCHANGED vars
  BY <1>1, SameContents DEF vars, Fifo!vars
<1>2. ASSUME NEW t \in Threads, Call(t) PROVE Fifo!Next
  BY <1>2, CallRefines DEF Calls, Fifo!Next
<1>3. ASSUME NEW t \in Threads, Pushing(t) PROVE [Fifo!Next]_(Fifo!vars)
  <2>1. CASE WrCas(t) \/ WrFull(t)
    <3>1. Fifo!Push(t) \/ Fifo!PushFull(t)
      BY <2>1, PushRefines DEF Calls
    <3> QED
      BY <3>1 DEF Fifo!Next, Fifo!Effect
  <2>2. CASE ~ (WrCas(t) \/ WrFull(t))
    BY <1>3, <2>2, QuietSteps DEF Pushing
  <2> QED
    BY <2>1, <2>2
<1>4. ASSUME NEW t \in Threads, Popping(t) PROVE [Fifo!Next]_(Fifo!vars)
  <2>1. CASE RdCas(t)
    <3>1. Fifo!Pop(t) \/ Fifo!PopIf(t) \/ Fifo!Hand(t) \/ Fifo!Discard(t)
      BY <2>1, PopRefines DEF Calls
    <3> QED
      BY <3>1 DEF Fifo!Next, Fifo!Effect
  <2>2. CASE Refuse(t) \/ Peek(t) \/ RdEmpty(t) \/ EmptyTest(t)
    <3>1. Fifo!Refuse(t) \/ Fifo!Peek(t) \/ Fifo!NothingThere(t) \/ Fifo!Empty(t)
      BY <2>2, LookRefines DEF Calls
    <3> QED
      BY <3>1 DEF Fifo!Next, Fifo!Effect
  <2>3. CASE Stop(t)
    BY <2>3, StopRefines DEF Calls, Fifo!Next, Fifo!Effect
  <2>4. CASE ~ (RdCas(t) \/ Refuse(t) \/ Peek(t) \/ RdEmpty(t) \/ EmptyTest(t) \/ Stop(t))
    BY <1>4, <2>4, QuietSteps DEF Popping
  <2> QED
    BY <2>1, <2>2, <2>3, <2>4
<1>5. ASSUME NEW t \in Threads, Exchange(t) \/ ExchangeFails(t) PROVE Fifo!Next
  BY <1>5, ExchangeRefines DEF Calls, Fifo!Next, Fifo!Effect
<1> QED
  BY <1>1, <1>2, <1>3, <1>4, <1>5 DEF Next, Step, Done

(* The queue is linearizable: whatever its threads do, each call of push,  *)
(* push_keep_n, pop, peek, pop_if, consume, empty and exchange takes       *)
(* effect once, as the bounded FIFO queue says, at one of its own accesses *)
(* between its start and its return, as long as no thread holds a loaded   *)
(* index for half the index range.                                         *)
THEOREM Linearizable == ASSUME NoAba PROVE Spec => Implements
<1>1. Init => Fifo!Init
  BY RefinesInit
<1>2. IInv /\ IInv' /\ Calls /\ [Next]_vars => [Fifo!Next]_(Fifo!vars)
  BY RefinesStep
<1> QED
  BY <1>1, <1>2, Safety, CallSafety, PTL DEF Spec, Implements, Fifo!Spec
------------------------------------------------------------------------------
(* push_keep_n keeps the last N elements. *)

(* Nothing but push_keep_n removes elements.                               *)
Removals == {"pop", "pop_if", "consume"}
OnlyKeepers == \A t \in Threads : \A r \in Requests[t] : r.op \notin Removals

(* The calls of push_keep_n on their way from a pop they have made, or may *)
(* do without, to the push that makes up for it; and those in their pop.   *)
Keeping(t) == req[t].op = "push_keep_n"
Owes(t) ==
  Keeping(t) /\ pc[t] \in {"wr_load", "wr_seq", "wr_cas", "wr_help", "rd_adv"}
Discards(t) == Keeping(t) /\ pc[t] \in {"rd_load", "rd_entry", "rd_cas", "rd_help"}
Owing == { t \in Threads : Owes(t) }

(* Until the queue has been full for the first time, nobody discards.      *)
(* After that it lacks at most one element per call that owes one.         *)
Kept == /\ \A t \in Threads : req[t].op \notin Removals
        /\ \/ /\ tail - First < N /\ head = First
              /\ \A t \in Threads : ~Discards(t)
           \/ tail - head + Cardinality(Owing) >= N

(* Any other step of a thread leaves it owing what it owed.                *)
LEMMA OwingKept ==
  ASSUME TypeOK, NEW t \in Threads, AtPlace(t), req[t].op \notin Removals,
         Call(t) \/ Step(t), ~KeepFull(t), ~WrCas(t), ~RdCas(t)
  PROVE  /\ UNCHANGED <<head, tail>>
         /\ Owes(t) => Owes(t)'
         /\ Discards(t)' => Discards(t)
<1>1. /\ pc \in [Threads -> PCs] /\ req \in [Threads -> Request]
  BY DEF TypeOK
<1>2. CASE Call(t)
  <2>1. PICK r \in Requests[t] : /\ req' = [req EXCEPT ![t] = r]
                                 /\ Goto(t, Start(r.op))
    BY <1>2 DEF Call
  <2>2. req'[t].op = r.op /\ pc'[t] = Start(r.op) /\ pc[t] = "idle"
    BY <1>1, <1>2, <2>1 DEF Call, Goto
  <2> QED
    BY <1>2, <2>2 DEF Call, Start, Owes, Discards, Keeping
<1>3. CASE Pushing(t)
  BY <1>1, <1>3
  DEF Pushing, WrLoad, WrReady, WrBehind, WrMoved, WrFull, WrCasFails, WrAdv,
      WrHelp, Sees, Goto, Leave, Owes, Discards, Keeping
<1>4. CASE Popping(t)
  BY <1>1, <1>4
  DEF Popping, RdLoad, RdReady, Refuse, Peek, RdBehind, RdMoved, RdEmpty,
      KeepEmpty, EmptyTest, RdCasFails, RdAdv, RdHelp, Stop, Continue, Finds,
      AfterPop, Goto, Leave, Owes, Discards, Keeping, AtPlace
<1>5. CASE Exchange(t) \/ ExchangeFails(t)
  BY <1>1, <1>5 DEF Exchange, ExchangeFails, Goto, Leave, Owes, Discards, Keeping
<1> QED
  BY <1>2, <1>3, <1>4, <1>5 DEF Step

LEMMA OwingFinite ==
  ASSUME IsFiniteSet(Threads)
  PROVE  IsFiniteSet(Owing) /\ Cardinality(Owing) \in Nat
BY FS_Subset, FS_CardinalityType DEF Owing

(* What the other threads owe does not change in a step of t.              *)
LEMMA OthersOwe ==
  ASSUME TypeOK, NEW t \in Threads, Call(t) \/ Step(t)
  PROVE  /\ Owing' \ {t} = Owing \ {t}
         /\ \A u \in Threads \ {t} : Discards(u)' <=> Discards(u)
<1>1. ASSUME NEW u \in Threads \ {t}
      PROVE  (Owes(u)' <=> Owes(u)) /\ (Discards(u)' <=> Discards(u))
  BY <1>1, OthersCalls DEF Owes, Discards, Keeping
<1> QED
  BY <1>1 DEF Owing

(* Sums of the queue's length and of what is owed, for any numbers.        *)
LEMMA Sums ==
  ASSUME NEW h \in Int, NEW k \in Int, NEW n \in Int, NEW f \in Int,
         NEW a \in Nat, NEW b \in Nat
  PROVE  /\ k - h + a >= n /\ a <= b => k - h + b >= n
         /\ k - h = n => k - h + b >= n
         /\ k - h + a >= n /\ a <= b + 1 => (k + 1) - h + b >= n
         /\ k - f < n /\ h = f => (k + 1) - f < n \/ (k + 1) - h + b >= n
         /\ k - h + a >= n /\ b = a + 1 => k - (h + 1) + b >= n
OBVIOUS

LEMMA OneMore ==
  ASSUME NEW S, IsFiniteSet(S), NEW x, NEW Q \in SUBSET (S \cup {x})
  PROVE  Cardinality(Q) \in Nat /\ Cardinality(Q) <= Cardinality(S) + 1
<1>1. Cardinality(S) \in Nat
  BY FS_CardinalityType
<1>2. IsFiniteSet(S \cup {x}) /\ Cardinality(S \cup {x}) <= Cardinality(S) + 1
  BY <1>1, FS_AddElement
<1>3. Cardinality(Q) <= Cardinality(S \cup {x}) /\ IsFiniteSet(Q)
  BY <1>2, FS_Subset
<1>4. Cardinality(S \cup {x}) \in Nat /\ Cardinality(Q) \in Nat
  BY <1>2, <1>3, FS_CardinalityType
<1> QED
  BY <1>1, <1>2, <1>3, <1>4

LEMMA KeptStep ==
  ASSUME NoAba, OnlyKeepers, IsFiniteSet(Threads), IInv, IInv', Calls, Kept, [Next]_vars
  PROVE  Kept'
<1> DEFINE m == Cardinality(Owing)
<1>1. /\ head \in Int /\ tail \in Int /\ First \in Int /\ N \in Int
      /\ head <= tail /\ tail <= head + N /\ First <= head /\ TypeOK
  BY Numbers DEF IInv
<1>2. IsFiniteSet(Owing) /\ m \in Nat
  BY OwingFinite
<1>3. m' \in Nat /\ IsFiniteSet(Owing')
  BY FS_Subset, FS_CardinalityType DEF Owing
<1>4. ASSUME NEW t \in Threads, Call(t) \/ Step(t)
      PROVE  \A u \in Threads : req'[u].op \notin Removals
  <2>1. \A u \in Threads \ {t} : req'[u].op \notin Removals
    BY <1>1, <1>4, OthersCalls DEF Kept
  <2>2. CASE Call(t)
    <3>1. PICK r \in Requests[t] : req' = [req EXCEPT ![t] = r]
      BY <2>2 DEF Call
    <3>2. req'[t] = r
      BY <1>1, <3>1 DEF TypeOK
    <3> QED
      BY <2>1, <3>2 DEF OnlyKeepers
  <2>3. CASE Step(t)
    <3>1. req' = req
      BY <2>3
      DEF Step, Pushing, WrLoad, WrReady, WrBehind, WrMoved, WrFull, KeepFull,
          WrCas, WrCasFails, WrAdv, WrHelp, Popping, RdLoad, RdReady, Refuse,
          Peek, RdBehind, RdMoved, RdEmpty, KeepEmpty, EmptyTest, RdCas,
          RdCasFails, RdAdv, RdHelp, Stop, Continue, Exchange, ExchangeFails
    <3> QED
      BY <3>1 DEF Kept
  <2> QED
    BY <1>4, <2>2, <2>3
<1>5. CASE UNCHANGED vars
  BY <1>5 DEF vars, Kept, Owing, Owes, Discards, Keeping
<1>6. ASSUME NEW t \in Threads, Call(t) \/ Step(t),
             ~KeepFull(t), ~WrCas(t), ~RdCas(t)
      PROVE  Kept'
  <2>1. /\ UNCHANGED <<head, tail>> /\ (Owes(t) => Owes(t)')
        /\ (Discards(t)' => Discards(t))
    BY <1>1, <1>6, OwingKept DEF Calls, Kept
  <2>2. Owing \subseteq Owing'
    BY <1>1, <1>6, <2>1, OthersOwe DEF Owing
  <2>3. m <= m'
    BY <1>3, <2>2, FS_Subset
  <2>4. (\A u \in Threads : ~Discards(u)) => \A u \in Threads : ~Discards(u)'
    BY <1>1, <1>6, <2>1, OthersOwe
  <2> HIDE DEF m
  <2>5. tail - head + m >= N => tail' - head' + m' >= N
    BY <1>1, <1>2, <1>3, <2>1, <2>3, Sums, Zenon
  <2> QED
    BY <1>4, <1>6, <2>1, <2>4, <2>5 DEF Kept, m
<1>7. ASSUME NEW t \in Threads, KeepFull(t) PROVE Kept'
  <2>1. UNCHANGED <<head, tail>> /\ tail - head = N
    <3>1. Sees(t, "full")
      BY <1>7 DEF KeepFull
    <3>2. Len(Contents) = N
      BY <3>1, SeesFull
    <3> QED
      BY <1>7, <3>2, ContentsSeq DEF KeepFull, shared
  <2> HIDE DEF m
  <2>2. tail' - head' + m' >= N
    BY <1>1, <1>3, <2>1, Sums, Zenon
  <2> QED
    BY <1>4, <1>7, <2>2 DEF Kept, m, Step, Pushing
<1>8. ASSUME NEW t \in Threads, WrCas(t) PROVE Kept'
  <2>1. head' = head /\ tail' = tail + 1 /\ tail < head + N
    BY <1>8, PushAtTail DEF WrCas
  <2>2. Owing \subseteq Owing' \cup {t} /\ ~Discards(t)'
    <3>1. Step(t)
      BY <1>8 DEF Step, Pushing
    <3>2. Owing' \ {t} = Owing \ {t}
      BY <1>1, <3>1, OthersOwe
    <3>3. ~Discards(t)'
      BY <1>1, <1>8 DEF WrCas, Leave, Goto, Discards, TypeOK
    <3> QED
      BY <3>2, <3>3
  <2>3. m <= m' + 1
    BY <1>3, <2>2, OneMore
  <2>4. (\A u \in Threads : ~Discards(u)) => \A u \in Threads : ~Discards(u)'
    BY <1>1, <1>8, <2>2, OthersOwe DEF Step, Pushing
  <2> HIDE DEF m
  <2>5. tail - head + m >= N => tail' - head' + m' >= N
    <3>1. tail - head + m >= N => (tail + 1) - head + m' >= N
      BY <1>1, <1>2, <1>3, <2>3, Sums, Zenon
    <3> QED
      BY <2>1, <3>1, Zenon
  <2>6. /\ tail - First < N /\ head = First
        => \/ tail' - First < N /\ head' = First
           \/ tail' - head' + m' >= N
    <3>1. /\ tail - First < N /\ head = First
          => (tail + 1) - First < N \/ (tail + 1) - head + m' >= N
      BY <1>1, <1>2, <1>3, Sums, Zenon
    <3> QED
      BY <2>1, <3>1, Zenon
  <2> QED
    BY <1>4, <1>8, <2>4, <2>5, <2>6 DEF Kept, m, Step, Pushing
<1>9. ASSUME NEW t \in Threads, RdCas(t) PROVE Kept'
  <2>1. head' = head + 1 /\ tail' = tail /\ pc[t] = "rd_cas" /\ Step(t)
    BY <1>9 DEF RdCas, Step, Popping
  <2>2. Keeping(t)
    BY <2>1 DEF Calls, AtPlace, Taking, Kept, Removals, Keeping
  <2>3. Discards(t) /\ t \notin Owing
    BY <2>1, <2>2 DEF Discards, Owing, Owes
  <2>4. Owes(t)'
    BY <1>1, <1>9, <2>2 DEF RdCas, AfterPop, Goto, Keeping, Owes, TypeOK
  <2>5. Owing' = Owing \cup {t}
    BY <1>1, <2>1, <2>4, OthersOwe DEF Owing
  <2>6. m' = m + 1
    BY <1>2, <2>3, <2>5, FS_AddElement
  <2>7. tail - head + m >= N
    BY <2>3 DEF Kept
  <2> HIDE DEF m
  <2>8. tail' - head' + m' >= N
    BY <1>1, <1>2, <1>3, <2>1, <2>6, <2>7, Sums, Zenon
  <2> QED
    BY <1>4, <2>1, <2>8 DEF Kept, m
<1> QED
  BY <1>5, <1>6, <1>7, <1>8, <1>9 DEF Next, Done

(* push_keep_n keeps the last N elements, however many threads discard at  *)
(* the same time: if nothing else removes elements, a queue that has been  *)
(* full is full again whenever no call is running.                         *)
THEOREM KeepsLast ==
  ASSUME NoAba, OnlyKeepers, IsFiniteSet(Threads)
  PROVE  Spec => []KeepsLastN
<1>1. Init => Kept
  <2> SUFFICES ASSUME Init PROVE Kept
    OBVIOUS
  <2>1. \A t \in Threads : req[t].op = "none"
    BY DEF Init, NoRequest
  <2>2. head = First /\ tail = First /\ First \in Int /\ N \in Int /\ 1 <= N
    BY HalfRange, QueueAssumption DEF Init
  <2>3. tail - First < N
    BY <2>2
  <2> QED
    BY <2>1, <2>2, <2>3 DEF Kept, Removals, Discards, Keeping
<1>2. IInv /\ IInv' /\ Calls /\ Kept /\ [Next]_vars => Kept'
  BY KeptStep
<1>3. IInv /\ Kept => KeepsLastN
  <2> SUFFICES ASSUME IInv, Kept, \A t \in Threads : pc[t] = "idle", tail - First >= N
               PROVE  tail - head = N
    BY DEF KeepsLastN
  <2>1. /\ head \in Int /\ tail \in Int /\ First \in Int /\ N \in Int
        /\ tail <= head + N
    BY Numbers
  <2>2. Owing = {}
    BY DEF Owing, Owes
  <2>3. Cardinality(Owing) = 0
    BY <2>2, FS_EmptySet
  <2> QED
    BY <2>1, <2>3 DEF Kept
<1> QED
  BY <1>1, <1>2, <1>3, Safety, CallSafety, PTL DEF Spec
==============================================================================
