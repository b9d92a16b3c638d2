-------------------------- MODULE PointerQueueProofs --------------------------
(* Theorems about pointer_mpmc_queue, size() and the queue used by one     *)
(* producer and one consumer.  What MpmcQueueProofs and                    *)
(* MpmcQueueRefinement prove holds of the queue inside, since every step   *)
(* here is one of its steps or leaves it alone.                            *)
EXTENDS PointerQueue, MpmcQueueRefinement

LEMMA StepInside == ASSUME [PNext]_pvars PROVE [Next]_vars
<1>1. ASSUME NEW t \in Threads, PointerStep(t) PROVE [Next]_vars
  BY <1>1
  DEF PointerStep, Make, Drop, PushCall, PopCall, Inside, PushReturns,
      PopReturns, ClosePop, CloseDestroy, CloseEnd, Next
<1> QED
  BY <1>1 DEF PNext, pvars, Observe, Closed

(* pointer_mpmc_queue and size() use the queue and do nothing else to it:  *)
(* every theorem about mpmc_queue holds of the queue inside.               *)
THEOREM QueueInside == PSpec => Spec
<1>1. PInit => Init
  BY DEF PInit
<1>2. [PNext]_pvars => [Next]_vars
  BY StepInside
<1> QED
  BY <1>1, <1>2, PTL DEF PSpec, Spec
------------------------------------------------------------------------------
(* Who owns an object. *)

Stages == {"ready", "push", "pop", "closing", "close_pop", "closed"}

OwnersOK == /\ hand \in [Threads -> Values] /\ stage \in [Threads -> Stages]
            /\ made \subseteq Objects /\ destroyed \in [Objects -> Nat]

(* A thread is in a push of the pointer it holds, in a pop, or outside the *)
(* queue; a pop that still has to advance the read index has succeeded.    *)
InStage(t) ==
  /\ stage[t] \in {"closing", "close_pop", "closed"} => t = Closer
  /\ stage[t] = "push" =>
       req[t].op = "push" /\ req[t].data = hand[t] /\ hand[t] # Zero
  /\ stage[t] \in {"pop", "close_pop"} =>
       req[t].op = "pop" /\ pc[t] # "wr_adv" /\ (pc[t] = "rd_adv" => Succeeded(t))
  /\ stage[t] \notin {"push", "pop", "close_pop"} => pc[t] = "idle"

(* The owners of an object: pointers, pops that have taken it, places in   *)
(* the queue.  An object has one of them, until it is destroyed, once.     *)
Hands(o) == { t \in Threads : hand[t] = o /\ ~Given(t) }
Pops(o) == { t \in Threads : Taken(t) /\ res[t].data = o }
Places(o) == { k \in DOMAIN Contents : Contents[k] = o }

Nowhere(o) == Hands(o) = {} /\ Pops(o) = {} /\ Places(o) = {}
Sole(o) ==
  \/ \E t \in Threads : Hands(o) = {t} /\ Pops(o) = {} /\ Places(o) = {}
  \/ \E t \in Threads : Hands(o) = {} /\ Pops(o) = {t} /\ Places(o) = {}
  \/ \E k \in Nat : Hands(o) = {} /\ Pops(o) = {} /\ Places(o) = {k}

Owned(o) == IF o \in made
            THEN (Sole(o) /\ destroyed[o] = 0) \/ (Nowhere(o) /\ destroyed[o] = 1)
            ELSE Nowhere(o) /\ destroyed[o] = 0

(* From the destructor on nobody else is in a call; once its pop has found *)
(* nothing, nothing is there.                                              *)
Alone == ~Open => \A u \in Threads \ {Closer} : stage[u] = "ready"
Drained ==
  \/ stage[Closer] = "closed"
  \/ stage[Closer] = "close_pop" /\ pc[Closer] = "idle" /\ ~Succeeded(Closer)
  => Contents = << >>

Stagings == \A t \in Threads : InStage(t)
Ownership == \A o \in Objects : Owned(o)
PInv == OwnersOK /\ Stagings /\ Ownership /\ Alone /\ Drained

(* What holds of the queue inside.                                         *)
Sound == IInv /\ Calls
------------------------------------------------------------------------------
LEMMA PInvInit == PInit => PInv
<1> SUFFICES ASSUME PInit PROVE PInv
  OBVIOUS
<1>1. /\ Init /\ hand = [t \in Threads |-> Zero]
      /\ stage = [t \in Threads |-> "ready"]
      /\ made = {} /\ destroyed = [o \in Objects |-> 0] /\ Zero \in Values
  BY QueueAssumption DEF PInit
<1>2. OwnersOK
  BY <1>1 DEF OwnersOK, Stages
<1>3. Stagings
  BY <1>1 DEF Stagings, InStage, Init
<1>4. Contents = << >>
  BY <1>1, InitInv, EmptyContents DEF Init
<1>5. ASSUME NEW o \in Objects PROVE Owned(o)
  <2>1. DOMAIN Contents = {}
    BY <1>4
  <2> QED
    BY <1>1, <1>5, <2>1 DEF Owned, Nowhere, Hands, Pops, Places, Taken, Objects
<1> QED
  BY <1>1, <1>2, <1>3, <1>4, <1>5, CloserAssumption
  DEF PInv, Ownership, Alone, Drained

(* A thread that makes a step in the queue is in a push or in a pop.       *)
LEMMA Inner ==
  ASSUME Sound, PInv, NEW t \in Threads, Step(t)
  PROVE  /\ pc[t] # "idle" /\ stage[t] \in {"push", "pop", "close_pop"}
         /\ req[t].op = IF stage[t] = "push" THEN "push" ELSE "pop"
<1>1. pc[t] # "idle"
  BY DEF Step, Pushing, WrLoad, WrReady, WrBehind, WrMoved, WrFull, KeepFull,
     WrCas, WrCasFails, WrAdv, WrHelp, Sees, Popping, RdLoad, RdReady, Refuse,
     Peek, RdBehind, RdMoved, RdEmpty, KeepEmpty, EmptyTest, RdCas, RdCasFails,
     RdAdv, RdHelp, Stop, Continue, Finds, Exchange, ExchangeFails
<1> QED
  BY <1>1 DEF PInv, Stagings, InStage

(* Between its compare-and-exchange and its return, and before it, a push  *)
(* or a pop changes neither the elements nor what the call has achieved.   *)
LEMMA InnerQuiet ==
  ASSUME TypeOK, NEW t \in Threads, AtPlace(t), Step(t),
         req[t].op \in {"push", "pop"}, ~WrCas(t), ~RdCas(t)
  PROVE  /\ UNCHANGED <<array, head, tail, req>>
         /\ \/ res' = res
            \/ res' = [res EXCEPT ![t] = False] /\ Running(t)
<1>1. CASE Pushing(t)
  BY <1>1
  DEF Pushing, WrLoad, WrReady, WrBehind, WrMoved, WrFull, KeepFull, WrCasFails,
      WrAdv, WrHelp, Sees, Sets, shared, AtPlace
<1>2. CASE Popping(t)
  <2>1. ~Refuse(t) /\ ~Peek(t) /\ ~EmptyTest(t) /\ ~Stop(t)
    BY DEF Refuse, Peek, EmptyTest, Stop, Finds, AtPlace
  <2> QED
    BY <1>2, <2>1
    DEF Popping, RdLoad, RdReady, RdBehind, RdMoved, RdEmpty, KeepEmpty,
        RdCasFails, RdAdv, RdHelp, Continue, Finds, Sets, shared, AtPlace
<1>3. ~Exchange(t) /\ ~ExchangeFails(t)
  BY DEF Exchange, ExchangeFails, AtPlace
<1> QED
  BY <1>1, <1>2, <1>3 DEF Step
------------------------------------------------------------------------------
(* What the steps do to the owners of an object. *)

(* Nobody gets or loses anything.                                          *)
LEMMA SameOwners ==
  ASSUME UNCHANGED <<hand, made, destroyed, Contents>>,
         \A t \in Threads : /\ Given(t)' <=> Given(t)
                            /\ Taken(t)' <=> Taken(t)
                            /\ Taken(t) => res'[t].data = res[t].data,
         Ownership
  PROVE  Ownership'
<1> SUFFICES ASSUME NEW o \in Objects PROVE Owned(o)'
  BY DEF Ownership
<1>1. Hands(o)' = Hands(o) /\ Pops(o)' = Pops(o) /\ Places(o)' = Places(o)
  BY DEF Hands, Pops, Places
<1> QED
  BY <1>1 DEF Ownership, Owned, Sole, Nowhere

(* The same, for a step of t that enters or leaves no successful call.     *)
LEMMA OutsideOwners ==
  ASSUME OwnersOK, TypeOK, NEW t \in Threads, NEW s \in Stages, Enter(t, s),
         UNCHANGED <<hand, made, destroyed, Contents>>,
         \A u \in Threads \ {t} : res'[u] = res[u],
         ~ (stage[t] \in {"push", "pop", "close_pop"} /\ Succeeded(t)),
         ~ (s \in {"push", "pop", "close_pop"} /\ Succeeded(t)'),
         Ownership
  PROVE  Ownership'
<1>1. \A u \in Threads : stage'[u] = IF u = t THEN s ELSE stage[u]
  BY DEF OwnersOK, Enter
<1>2. \A u \in Threads : /\ Given(u)' <=> Given(u)
                         /\ Taken(u)' <=> Taken(u)
                         /\ Taken(u) => res'[u].data = res[u].data
  BY <1>1 DEF Given, Taken, Succeeded
<1> QED
  BY <1>2, SameOwners

LEMMA AppendPlaces ==
  ASSUME NEW c \in Seq(Values), NEW d \in Values, NEW o
  PROVE  { k \in DOMAIN Append(c, d) : Append(c, d)[k] = o }
           = { k \in DOMAIN c : c[k] = o } \cup IF d = o THEN {Len(c) + 1} ELSE {}
<1>1. /\ Append(c, d) \in Seq(Values) /\ Len(Append(c, d)) = Len(c) + 1
      /\ \A k \in 1 .. Len(c) : Append(c, d)[k] = c[k]
      /\ Append(c, d)[Len(c) + 1] = d
  BY Seqs!AppendProperties
<1>2. /\ DOMAIN c = 1 .. Len(c) /\ DOMAIN Append(c, d) = 1 .. Len(c) + 1
      /\ Len(c) \in Nat
  BY <1>1
<1> QED
  BY <1>1, <1>2

LEMMA TailPlaces ==
  ASSUME NEW c \in Seq(Values), c # << >>, NEW o
  PROVE  { k \in DOMAIN Tail(c) : Tail(c)[k] = o }
           = { k - 1 : k \in { j \in DOMAIN c : c[j] = o } \ {1} }
<1>1. /\ Tail(c) \in Seq(Values) /\ Len(Tail(c)) = Len(c) - 1
      /\ \A k \in 1 .. Len(c) - 1 : Tail(c)[k] = c[k + 1]
      /\ Len(c) \in Nat /\ Len(c) >= 1
  BY Seqs!HeadTailProperties
<1>2. DOMAIN c = 1 .. Len(c) /\ DOMAIN Tail(c) = 1 .. Len(c) - 1
  BY <1>1
<1>3. ASSUME NEW k \in DOMAIN Tail(c), Tail(c)[k] = o
      PROVE  \E j \in DOMAIN c \ {1} : c[j] = o /\ k = j - 1
  <2>1. k \in 1 .. Len(c) - 1 /\ k + 1 \in 1 .. Len(c) /\ k + 1 # 1 /\ k = (k + 1) - 1
    BY <1>1, <1>2, <1>3
  <2>2. c[k + 1] = o
    BY <1>1, <1>3, <2>1
  <2> QED
    BY <1>2, <2>1, <2>2
<1>4. ASSUME NEW j \in DOMAIN c \ {1}, c[j] = o
      PROVE  j - 1 \in DOMAIN Tail(c) /\ Tail(c)[j - 1] = o
  <2>1. j - 1 \in 1 .. Len(c) - 1 /\ (j - 1) + 1 = j
    BY <1>1, <1>2, <1>4
  <2> QED
    BY <1>1, <1>2, <1>4, <2>1
<1> QED
  BY <1>3, <1>4

(* The compare-and-exchange of a push hands the object over to the queue.  *)
LEMMA PushOwners ==
  ASSUME NoAba, Sound, IInv', PInv, NEW t \in Threads, WrCas(t), UNCHANGED owners
  PROVE  Ownership'
<1> DEFINE c == Contents
           h == hand[t]
<1>1. stage[t] = "push" /\ req[t].data = h /\ h # Zero /\ h \in Values /\ ~Succeeded(t)
  <2>1. Step(t)
    BY DEF Step, Pushing
  <2>2. stage[t] = "push"
    BY <2>1, Inner DEF WrCas, Sound, Calls, AtPlace, Pushes
  <2>3. ~Succeeded(t)
    BY DEF WrCas, Sound, Calls, AtPlace, Running, Succeeded
  <2> QED
    BY <2>2, <2>3 DEF PInv, Stagings, InStage, OwnersOK
<1>2. c \in Seq(Values) /\ c' = Append(c, h)
  BY <1>1, ContentsSeq, PushContents DEF Sound
<1>3. /\ Succeeded(t)' /\ UNCHANGED <<hand, stage, made, destroyed>>
      /\ \A u \in Threads \ {t} : res'[u] = res[u]
  BY DEF WrCas, Sets, Result, Succeeded, Sound, IInv, TypeOK, owners
<1> HIDE DEF c
<1>4. ASSUME NEW o \in Objects PROVE Owned(o)'
  <2>1. Hands(o)' = Hands(o) \ {t} /\ (t \in Hands(o) <=> h = o)
    BY <1>1, <1>3 DEF Hands, Given, Succeeded
  <2>2. Pops(o)' = Pops(o)
    BY <1>1, <1>3 DEF Pops, Taken, Succeeded
  <2>3. Places(o)' = Places(o) \cup (IF h = o THEN {Len(c) + 1} ELSE {})
    <3>1. Places(o) = { k \in DOMAIN c : c[k] = o }
      BY DEF Places, c
    <3>2. Places(o)' = { k \in DOMAIN Append(c, h) : Append(c, h)[k] = o }
      BY <1>2 DEF Places, c
    <3> HIDE DEF h
    <3> QED
      BY <1>1, <1>2, <3>1, <3>2, AppendPlaces
  <2>4. Len(c) + 1 \in Nat
    BY <1>2
  <2>5. Owned(o)
    BY DEF PInv, Ownership
  <2> HIDE DEF h
  <2>6. CASE h = o
    BY <1>3, <2>1, <2>2, <2>3, <2>4, <2>5, <2>6 DEF Owned, Sole, Nowhere
  <2>7. CASE h # o
    BY <1>3, <2>1, <2>2, <2>3, <2>5, <2>7 DEF Owned, Sole, Nowhere
  <2> QED
    BY <2>6, <2>7
<1> QED
  BY <1>4 DEF Ownership

(* The compare-and-exchange of a pop takes it out of the queue.            *)
LEMMA PopOwners ==
  ASSUME NoAba, Sound, IInv', PInv, NEW t \in Threads, RdCas(t), UNCHANGED owners
  PROVE  Ownership'
<1> DEFINE c == Contents
           d == reg[t].data
<1>1. stage[t] \in {"pop", "close_pop"} /\ req[t].op = "pop" /\ ~Succeeded(t)
  <2>1. Step(t)
    BY DEF Step, Popping
  <2>2. stage[t] # "push" /\ req[t].op = "pop"
    BY <2>1, Inner DEF RdCas, Sound, Calls, AtPlace
  <2>3. ~Succeeded(t)
    BY DEF RdCas, Sound, Calls, AtPlace, Running, Succeeded
  <2> QED
    BY <2>1, <2>2, <2>3, Inner
<1>2. /\ c \in Seq(Values) /\ c # << >> /\ c' = Tail(c) /\ Head(c) = d
  BY ContentsSeq, PopContents DEF Sound
<1>3. /\ Succeeded(t)' /\ res'[t].data = d /\ UNCHANGED <<hand, stage, made, destroyed>>
      /\ \A u \in Threads \ {t} : res'[u] = res[u]
  BY <1>1 DEF RdCas, Popped, Sets, Result, Succeeded, Sound, IInv, TypeOK, owners
<1>4. 1 \in DOMAIN c /\ c[1] = d /\ DOMAIN c \subseteq Nat \ {0}
  BY <1>2
<1> HIDE DEF c, d
<1>5. ASSUME NEW o \in Objects PROVE Owned(o)'
  <2>1. Hands(o)' = Hands(o)
    BY <1>1, <1>3 DEF Hands, Given, Succeeded
  <2>2. Pops(o)' = Pops(o) \cup (IF d = o THEN {t} ELSE {}) /\ t \notin Pops(o)
    BY <1>1, <1>3 DEF Pops, Taken, Succeeded
  <2>3. /\ Places(o)' = { k - 1 : k \in Places(o) \ {1} }
        /\ 1 \in Places(o) <=> d = o
        /\ Places(o) \subseteq Nat \ {0}
    <3>1. Places(o) = { k \in DOMAIN c : c[k] = o }
      BY DEF Places, c
    <3>2. Places(o)' = { k \in DOMAIN Tail(c) : Tail(c)[k] = o }
      BY <1>2 DEF Places, c
    <3> QED
      BY <1>2, <1>4, <3>1, <3>2, TailPlaces
  <2>4. Owned(o)
    BY DEF PInv, Ownership
  <2>5. CASE d = o
    <3>1. Places(o) = {1} => Places(o)' = {}
      BY <2>3
    <3>2. Hands(o) = {} /\ Pops(o) = {} /\ Places(o) = {1} /\ o \in made /\ destroyed[o] = 0
      BY <2>3, <2>4, <2>5 DEF Owned, Sole, Nowhere
    <3> QED
      BY <1>3, <2>1, <2>2, <2>5, <3>1, <3>2 DEF Owned, Sole
  <2>6. CASE d # o
    <3>1. Places(o) = {} => Places(o)' = {}
      BY <2>3
    <3>2. ASSUME NEW k \in Nat, Places(o) = {k} PROVE Places(o)' = {k - 1} /\ k - 1 \in Nat
      BY <2>3, <2>6, <3>2
    <3> QED
      BY <1>3, <2>1, <2>2, <2>4, <2>6, <3>1, <3>2 DEF Owned, Sole, Nowhere
  <2> QED
    BY <2>5, <2>6
<1> QED
  BY <1>5 DEF Ownership
------------------------------------------------------------------------------
(* One lemma per kind of step of a thread. *)

LEMMA Plain == ASSUME Sound, PInv
  PROVE /\ TypeOK /\ OwnersOK /\ Ownership
        /\ \A t \in Threads : InStage(t) /\ AtPlace(t)
BY DEF Sound, IInv, PInv, Stagings, Calls

(* A call of push, of pop, or the destructor's.                            *)
LEMMA CallStep ==
  ASSUME Sound, PInv, NEW t \in Threads, PushCall(t) \/ PopCall(t) \/ ClosePop(t)
  PROVE  OwnersOK' /\ Stagings' /\ Ownership'
<1>1. Call(t) /\ UNCHANGED <<hand, made, destroyed, array, head, tail>>
  BY DEF PushCall, PopCall, ClosePop, Call, shared
<1>2. PICK s \in {"push", "pop", "close_pop"} :
        /\ Enter(t, s)
        /\ s = "push" => /\ req'[t].op = "push" /\ req'[t].data = hand[t]
                         /\ hand[t] # Zero
        /\ s # "push" => req'[t].op = "pop"
        /\ s = "close_pop" => t = Closer
  BY DEF PushCall, PopCall, ClosePop
<1>3. /\ pc[t] = "idle" /\ res' = [res EXCEPT ![t] = Pending]
      /\ pc'[t] = Start(req'[t].op)
      /\ \A u \in Threads \ {t} : pc'[u] = pc[u] /\ req'[u] = req[u] /\ res'[u] = res[u]
  <2>1. pc[t] = "idle" /\ Sets(t, Pending)
    BY <1>1 DEF Call
  <2>2. PICK r \in Requests[t] : /\ req' = [req EXCEPT ![t] = r]
                                 /\ Goto(t, Start(r.op))
    BY <1>1 DEF Call
  <2>3. \A u \in Threads \ {t} : pc'[u] = pc[u] /\ req'[u] = req[u] /\ res'[u] = res[u]
    BY <1>1, Plain, OthersCalls
  <2> QED
    BY <2>1, <2>2, <2>3, Plain DEF Sets, Goto, TypeOK
<1>4. stage[t] \in {"ready", "closing"}
  BY <1>3, Plain, CloserAssumption
  DEF PushCall, PopCall, ClosePop, Free, OwnersOK, Stages
<1>5. OwnersOK'
  BY <1>1, <1>2, Plain DEF OwnersOK, Enter, Stages
<1>6. \A u \in Threads : stage'[u] = IF u = t THEN s ELSE stage[u]
  BY <1>2, Plain DEF OwnersOK, Enter
<1>7. pc'[t] \notin {"wr_adv", "rd_adv"} /\ ~Succeeded(t)'
  BY <1>3, Plain DEF Start, Pending, Result, Succeeded, TypeOK
<1>8. Stagings'
  BY <1>1, <1>2, <1>3, <1>6, <1>7, Plain DEF Stagings, InStage, Succeeded
<1>9. Ownership'
  <2>1. Contents' = Contents
    BY <1>1, SameContents
  <2>2. s \in Stages
    BY DEF Stages
  <2> QED
    BY <1>1, <1>2, <1>3, <1>4, <1>7, <2>1, <2>2, Plain, OutsideOwners
<1> QED
  BY <1>5, <1>8, <1>9

(* An access of the queue inside.                                          *)
LEMMA InsideStep ==
  ASSUME NoAba, Sound, IInv', PInv, NEW t \in Threads, Inside(t)
  PROVE  OwnersOK' /\ Stagings' /\ Ownership'
<1>1. Step(t) /\ UNCHANGED <<hand, stage, made, destroyed>>
  BY DEF Inside, owners
<1>2. /\ pc[t] # "idle" /\ stage[t] \in {"push", "pop", "close_pop"}
      /\ req[t].op = IF stage[t] = "push" THEN "push" ELSE "pop"
  BY <1>1, Inner
<1>3. OwnersOK'
  BY <1>1, Plain DEF OwnersOK
<1>4. \A u \in Threads \ {t} : pc'[u] = pc[u] /\ req'[u] = req[u] /\ res'[u] = res[u]
  BY <1>1, Plain, OthersCalls
<1>5. CASE WrCas(t)
  <2>1. req' = req /\ stage[t] = "push"
    BY <1>2, <1>5, Plain DEF WrCas, AtPlace, Pushes
  <2>2. Stagings'
    BY <1>1, <1>2, <1>4, <2>1, Plain DEF Stagings, InStage, Succeeded
  <2> QED
    BY <1>3, <1>5, <2>2, PushOwners DEF Inside
<1>6. CASE RdCas(t)
  <2>1. req' = req /\ Succeeded(t)' /\ pc'[t] # "wr_adv"
    <3>1. req[t].op = "pop"
      BY <1>6, <1>2, Plain DEF RdCas, AtPlace
    <3> QED
      BY <1>6, <3>1, Plain
      DEF RdCas, Popped, Sets, Result, Succeeded, AfterPop, Leave, Goto, TypeOK
  <2>2. Stagings'
    BY <1>1, <1>2, <1>4, <2>1, Plain DEF Stagings, InStage, Succeeded
  <2> QED
    BY <1>3, <1>6, <2>2, PopOwners DEF Inside
<1>7. CASE ~WrCas(t) /\ ~RdCas(t)
  <2>1. /\ UNCHANGED <<array, head, tail, req>>
        /\ \/ res' = res
           \/ res' = [res EXCEPT ![t] = False] /\ Running(t)
    BY <1>1, <1>2, <1>7, Plain, InnerQuiet
  <2>2. pc'[t] \notin {"wr_adv", "rd_adv"}
    BY <1>1, <1>7, Plain
    DEF Step, Pushing, WrLoad, WrReady, WrBehind, WrMoved, WrFull, KeepFull,
        WrCasFails, WrAdv, WrHelp, Popping, RdLoad, RdReady, Refuse, Peek,
        RdBehind, RdMoved, RdEmpty, KeepEmpty, EmptyTest, RdCasFails, RdAdv,
        RdHelp, Stop, Continue, Exchange, ExchangeFails, AfterPop, Leave, Goto,
        TypeOK
  <2>3. Stagings'
    BY <1>1, <1>2, <1>4, <2>1, <2>2, Plain DEF Stagings, InStage, Succeeded
  <2>4. /\ ~Succeeded(t)' <=> ~Succeeded(t)
        /\ Succeeded(t) => res' = res
    BY <2>1, Plain DEF Succeeded, Running, False, Result, TypeOK
  <2>5. \A u \in Threads : /\ Given(u)' <=> Given(u)
                           /\ Taken(u)' <=> Taken(u)
                           /\ Taken(u) => res'[u].data = res[u].data
    BY <1>1, <1>4, <2>4 DEF Given, Taken, Succeeded
  <2>6. Contents' = Contents
    BY <2>1, SameContents
  <2> QED
    BY <1>1, <1>3, <2>3, <2>5, <2>6, Plain, SameOwners
<1> QED
  BY <1>5, <1>6, <1>7

(* The caller makes an object.                                             *)
LEMMA MakeStep ==
  ASSUME Sound, PInv, NEW t \in Threads, Make(t)
  PROVE  OwnersOK' /\ Stagings' /\ Ownership'
<1>1. PICK o \in Objects \ made :
        /\ hand' = [hand EXCEPT ![t] = o] /\ made' = made \cup {o}
  BY DEF Make, Holds
<1>2. /\ hand[t] = Zero /\ stage[t] = "ready" /\ o # Zero /\ o \in Values
      /\ UNCHANGED <<stage, destroyed, pc, req, res, array, head, tail>>
  BY DEF Make, Free, vars, Objects
<1>3. OwnersOK'
  BY <1>1, <1>2, Plain DEF OwnersOK
<1>4. Stagings'
  BY <1>1, <1>2, Plain DEF Stagings, InStage, Succeeded, OwnersOK
<1>5. ASSUME NEW x \in Objects PROVE Owned(x)'
  <2>1. Pops(x)' = Pops(x) /\ Places(x)' = Places(x)
    BY <1>2, SameContents DEF Pops, Places, Taken, Succeeded
  <2>2. Hands(x)' = Hands(x) \cup IF x = o THEN {t} ELSE {}
    BY <1>1, <1>2, Plain DEF Hands, Given, Succeeded, OwnersOK, Objects
  <2>3. Owned(x)
    BY Plain DEF Ownership
  <2>4. CASE x = o
    BY <1>1, <1>2, <2>1, <2>2, <2>3, <2>4 DEF Owned, Nowhere, Sole
  <2>5. CASE x # o
    BY <1>1, <1>2, <2>1, <2>2, <2>3, <2>5 DEF Owned, Nowhere, Sole
  <2> QED
    BY <2>4, <2>5
<1> QED
  BY <1>3, <1>4, <1>5 DEF Ownership

(* The caller destroys what its pointer holds.                             *)
LEMMA DropStep ==
  ASSUME Sound, PInv, NEW t \in Threads, Drop(t)
  PROVE  OwnersOK' /\ Stagings' /\ Ownership'
<1> DEFINE o == hand[t]
<1>1. /\ hand' = [hand EXCEPT ![t] = Zero] /\ o \in Objects
      /\ destroyed' = [destroyed EXCEPT ![o] = @ + 1]
      /\ UNCHANGED <<stage, made, pc, req, res, array, head, tail>>
      /\ stage[t] \in {"ready", "closed"}
  BY Plain DEF Drop, Holds, Destroy, vars, Objects, OwnersOK
<1>2. OwnersOK'
  BY <1>1, Plain, QueueAssumption DEF OwnersOK
<1>3. Stagings'
  BY <1>1, Plain DEF Stagings, InStage, Succeeded, OwnersOK
<1>4. ASSUME NEW x \in Objects PROVE Owned(x)'
  <2>1. Pops(x)' = Pops(x) /\ Places(x)' = Places(x)
    BY <1>1, SameContents DEF Pops, Places, Taken, Succeeded
  <2>2. Hands(x)' = Hands(x) \ {t} /\ (t \in Hands(x) <=> x = o)
    BY <1>1, <1>4, Plain DEF Hands, Given, Succeeded, OwnersOK, Objects
  <2>3. Owned(x) /\ destroyed[x] \in Nat
    BY Plain DEF Ownership, OwnersOK
  <2>4. destroyed'[x] = IF x = o THEN destroyed[x] + 1 ELSE destroyed[x]
    BY <1>1, Plain DEF OwnersOK
  <2> HIDE DEF o
  <2>5. CASE x = o
    <3>1. Hands(x) = {t} /\ x \in made /\ destroyed[x] = 0 /\ Pops(x) = {} /\ Places(x) = {}
      BY <2>2, <2>3, <2>5 DEF Owned, Nowhere, Sole
    <3> QED
      BY <1>1, <2>1, <2>2, <2>4, <2>5, <3>1 DEF Owned, Nowhere
  <2>6. CASE x # o
    BY <1>1, <2>1, <2>2, <2>3, <2>4, <2>6 DEF Owned, Nowhere, Sole
  <2> QED
    BY <2>5, <2>6
<1> QED
  BY <1>2, <1>3, <1>4 DEF Ownership

(* push returns: only a pointer that is no longer an owner is released.    *)
LEMMA PushReturnsStep ==
  ASSUME Sound, PInv, NEW t \in Threads, PushReturns(t)
  PROVE  OwnersOK' /\ Stagings' /\ Ownership'
<1>1. /\ stage[t] = "push" /\ pc[t] = "idle" /\ Enter(t, "ready")
      /\ hand' = IF Succeeded(t) THEN [hand EXCEPT ![t] = Zero] ELSE hand
      /\ UNCHANGED <<made, destroyed, pc, req, res, array, head, tail>>
  BY DEF PushReturns, Returned, Release, Holds, vars
<1>2. \A u \in Threads : stage'[u] = IF u = t THEN "ready" ELSE stage[u]
  BY <1>1, Plain DEF Enter, OwnersOK
<1>3. OwnersOK'
  BY <1>1, Plain, QueueAssumption DEF OwnersOK, Enter, Stages
<1>4. Stagings'
  BY <1>1, <1>2, Plain DEF Stagings, InStage, Succeeded, OwnersOK
<1>5. ASSUME NEW o \in Objects PROVE Owned(o)'
  <2>1. Pops(o)' = Pops(o) /\ Places(o)' = Places(o)
    BY <1>1, <1>2, SameContents DEF Pops, Places, Taken, Succeeded
  <2>2. Hands(o)' = Hands(o)
    BY <1>1, <1>2, <1>5, Plain DEF Hands, Given, Succeeded, OwnersOK, Objects
  <2> QED
    BY <1>1, <2>1, <2>2, Plain DEF Ownership, Owned, Nowhere, Sole
<1> QED
  BY <1>3, <1>4, <1>5 DEF Ownership

(* pop returns: what its pointer held is destroyed, what it took replaces  *)
(* that.                                                                   *)
LEMMA PopReturnsStep ==
  ASSUME Sound, PInv, NEW t \in Threads, PopReturns(t)
  PROVE  OwnersOK' /\ Stagings' /\ Ownership'
<1> DEFINE g == hand[t]
           d == res[t].data
<1>1. /\ stage[t] = "pop" /\ pc[t] = "idle" /\ Enter(t, "ready")
      /\ UNCHANGED <<made, pc, req, res, array, head, tail>>
      /\ g \in Values /\ d \in Values
  BY Plain DEF PopReturns, Returned, vars, OwnersOK, TypeOK, Results
<1>2. \A u \in Threads : stage'[u] = IF u = t THEN "ready" ELSE stage[u]
  BY <1>1, Plain DEF Enter, OwnersOK
<1>3. CASE ~Succeeded(t)
  <2>1. UNCHANGED <<hand, destroyed>> /\ Contents' = Contents
    BY <1>1, <1>3, SameContents DEF PopReturns
  <2>2. OwnersOK'
    BY <1>1, <2>1, Plain DEF OwnersOK, Enter, Stages
  <2>3. Stagings'
    BY <1>1, <1>2, <2>1, Plain DEF Stagings, InStage, Succeeded
  <2>4. Ownership'
    BY <1>1, <1>3, <2>1, Plain, OutsideOwners DEF Stages
  <2> QED
    BY <2>2, <2>3, <2>4
<1>4. CASE Succeeded(t)
  <2>1. /\ hand' = [hand EXCEPT ![t] = d]
        /\ destroyed' = IF g = Zero THEN destroyed ELSE [destroyed EXCEPT ![g] = @ + 1]
    BY <1>4 DEF PopReturns, Reset, Holds, Destroy
  <2>2. OwnersOK'
    BY <1>1, <2>1, Plain DEF OwnersOK, Enter, Stages, Objects
  <2>3. Stagings'
    BY <1>1, <1>2, <2>1, Plain DEF Stagings, InStage, Succeeded, OwnersOK
  <2>4. ASSUME NEW o \in Objects PROVE Owned(o)'
    <3>1. Places(o)' = Places(o)
      BY <1>1, SameContents DEF Places
    <3>2. Pops(o)' = Pops(o) \ {t} /\ (t \in Pops(o) <=> d = o)
      BY <1>1, <1>2, <1>4 DEF Pops, Taken, Succeeded
    <3>3. Hands(o)' = (Hands(o) \ {t}) \cup IF d = o THEN {t} ELSE {}
      BY <1>1, <1>2, <2>1, Plain DEF Hands, Given, Succeeded, OwnersOK
    <3>4. t \in Hands(o) <=> g = o
      BY <1>1 DEF Hands, Given
    <3>5. /\ destroyed'[o] = IF g = o THEN destroyed[o] + 1 ELSE destroyed[o]
          /\ destroyed[o] \in Nat
      BY <1>1, <2>1, <2>4, Plain DEF OwnersOK, Objects
    <3>6. Owned(o)
      BY Plain DEF Ownership
    <3> HIDE DEF g, d
    <3>7. CASE g = o
      <4>1. /\ Hands(o) = {t} /\ Pops(o) = {} /\ Places(o) = {} /\ o \in made
            /\ destroyed[o] = 0
        BY <3>4, <3>6, <3>7 DEF Owned, Sole, Nowhere
      <4>2. d # o
        BY <3>2, <4>1
      <4> QED
        BY <1>1, <3>1, <3>2, <3>3, <3>5, <3>7, <4>1, <4>2 DEF Owned, Nowhere
    <3>8. CASE d = o /\ g # o
      <4>1. /\ Hands(o) = {} /\ Pops(o) = {t} /\ Places(o) = {} /\ o \in made
            /\ destroyed[o] = 0
        BY <3>2, <3>6, <3>8 DEF Owned, Sole, Nowhere
      <4> QED
        BY <1>1, <3>1, <3>2, <3>3, <3>5, <3>8, <4>1 DEF Owned, Sole
    <3>9. CASE d # o /\ g # o
      BY <1>1, <3>1, <3>2, <3>3, <3>4, <3>5, <3>6, <3>9 DEF Owned, Sole, Nowhere
    <3> QED
      BY <3>7, <3>8, <3>9
  <2> QED
    BY <2>2, <2>3, <2>4 DEF Ownership
<1> QED
  BY <1>3, <1>4

(* The destructor destroys what it popped.                                 *)
LEMMA CloseDestroyStep ==
  ASSUME Sound, PInv, NEW t \in Threads, CloseDestroy(t)
  PROVE  OwnersOK' /\ Stagings' /\ Ownership'
<1> DEFINE d == res[t].data
<1>1. /\ stage[t] = "close_pop" /\ pc[t] = "idle" /\ Enter(t, "closing")
      /\ UNCHANGED <<hand, made, pc, req, res, array, head, tail>>
      /\ d \in Values /\ Succeeded(t)
      /\ destroyed' = IF d = Zero THEN destroyed ELSE [destroyed EXCEPT ![d] = @ + 1]
  BY Plain DEF CloseDestroy, CloseNext, Returned, Destroy, vars, TypeOK, Results
<1>2. \A u \in Threads : stage'[u] = IF u = t THEN "closing" ELSE stage[u]
  BY <1>1, Plain DEF Enter, OwnersOK
<1>3. OwnersOK'
  BY <1>1, Plain DEF OwnersOK, Enter, Stages, Objects
<1>4. Stagings'
  BY <1>1, <1>2, Plain DEF Stagings, InStage, Succeeded, OwnersOK
<1>5. ASSUME NEW o \in Objects PROVE Owned(o)'
  <2>1. Places(o)' = Places(o)
    BY <1>1, SameContents DEF Places
  <2>2. Pops(o)' = Pops(o) \ {t} /\ (t \in Pops(o) <=> d = o)
    BY <1>1, <1>2 DEF Pops, Taken, Succeeded
  <2>3. Hands(o)' = Hands(o)
    BY <1>1, <1>2, Plain DEF Hands, Given, Succeeded
  <2>4. /\ destroyed'[o] = IF d = o THEN destroyed[o] + 1 ELSE destroyed[o]
        /\ destroyed[o] \in Nat
    BY <1>1, <1>5, Plain DEF OwnersOK, Objects
  <2>5. Owned(o)
    BY Plain DEF Ownership
  <2> HIDE DEF d
  <2>6. CASE d = o
    <3>1. /\ Hands(o) = {} /\ Pops(o) = {t} /\ Places(o) = {} /\ o \in made
          /\ destroyed[o] = 0
      BY <2>2, <2>5, <2>6 DEF Owned, Sole, Nowhere
    <3> QED
      BY <1>1, <2>1, <2>2, <2>3, <2>4, <2>6, <3>1 DEF Owned, Nowhere
  <2>7. CASE d # o
    BY <1>1, <2>1, <2>2, <2>3, <2>4, <2>5, <2>7 DEF Owned, Sole, Nowhere
  <2> QED
    BY <2>6, <2>7
<1> QED
  BY <1>3, <1>4, <1>5 DEF Ownership

LEMMA CloseEndStep ==
  ASSUME Sound, PInv, NEW t \in Threads, CloseEnd(t)
  PROVE  OwnersOK' /\ Stagings' /\ Ownership'
<1>1. /\ stage[t] = "close_pop" /\ pc[t] = "idle" /\ Enter(t, "closed")
      /\ UNCHANGED <<hand, made, destroyed, pc, req, res, array, head, tail>>
      /\ ~Succeeded(t)
  BY DEF CloseEnd, Returned, vars
<1>2. OwnersOK'
  BY <1>1, Plain DEF OwnersOK, Enter, Stages
<1>3. Stagings'
  BY <1>1, Plain DEF Stagings, InStage, Succeeded, OwnersOK, Enter
<1>4. Contents' = Contents
  BY <1>1, SameContents
<1>5. Ownership'
  BY <1>1, <1>4, Plain, OutsideOwners DEF Stages
<1> QED
  BY <1>2, <1>3, <1>5
------------------------------------------------------------------------------
(* The destructor. *)

LEMMA AloneStep ==
  ASSUME Sound, PInv, NEW t \in Threads, PointerStep(t)
  PROVE  Alone'
<1> DEFINE closing == {"close_pop", "closing", "closed"}
<1>1. stage \in [Threads -> Stages] /\ Closer \in Threads /\ Alone
  BY Plain, CloserAssumption DEF OwnersOK, PInv
<1>2. CASE ClosePop(t)
  <2>1. \A u \in Threads \ {Closer} : stage[u] = "ready" /\ stage'[u] = stage[u]
    BY <1>1, <1>2 DEF ClosePop, Enter, Alone, Open
  <2> QED
    BY <2>1 DEF Alone
<1>3. CASE CloseDestroy(t) \/ CloseEnd(t)
  <2>1. stage[t] = "close_pop" /\ t = Closer
    BY <1>3, Plain DEF CloseDestroy, CloseEnd, Returned, InStage
  <2>2. \A u \in Threads \ {Closer} : stage'[u] = stage[u]
    BY <1>1, <1>3, <2>1 DEF CloseDestroy, CloseNext, CloseEnd, Enter
  <2> QED
    BY <1>1, <2>1, <2>2 DEF Alone, Open
<1>4. CASE Make(t) \/ Drop(t) \/ Inside(t)
  BY <1>1, <1>4 DEF Make, Drop, Inside, owners, Alone, Open
<1>5. CASE PushCall(t) \/ PopCall(t)
  <2>1. Open /\ stage'[Closer] \in {stage[Closer], "push", "pop"}
    BY <1>1, <1>5 DEF PushCall, PopCall, Free, Enter
  <2> QED
    BY <2>1 DEF Alone, Open
<1>6. CASE PushReturns(t) \/ PopReturns(t)
  <2>1. stage[t] \in {"push", "pop"} /\ stage' = [stage EXCEPT ![t] = "ready"]
    BY <1>6 DEF PushReturns, PopReturns, Returned, Enter
  <2> QED
    BY <1>1, <2>1 DEF Alone, Open
<1> QED
  BY <1>2, <1>3, <1>4, <1>5, <1>6 DEF PointerStep

(* The access that ends a pop without an element has found none.           *)
LEMMA NothingPopped ==
  ASSUME NoAba, Sound, PInv, NEW t \in Threads, Step(t), stage[t] = "close_pop",
         pc'[t] = "idle", ~Succeeded(t)'
  PROVE  Contents' = << >>
<1>1. pc[t] # "idle" /\ req[t].op = "pop"
  BY Inner
<1>2. ~RdCas(t)
  BY <1>1, Plain DEF RdCas, Popped, Sets, Result, Succeeded, TypeOK
<1>3. ~RdAdv(t)
  BY <1>1, Plain DEF RdAdv, InStage, Succeeded
<1>4. RdEmpty(t)
  <2>1. pc[t] \in {"rd_load", "rd_entry", "rd_cas", "rd_help", "callback"}
    BY <1>1, Plain, <1>3
    DEF InStage, AtPlace, Pushes, Step, Pushing, WrLoad, WrReady, WrBehind,
        WrMoved, WrFull, KeepFull, WrCas, WrCasFails, WrAdv, WrHelp, Sees,
        Popping, RdLoad, RdReady, Refuse, Peek, RdBehind, RdMoved, RdEmpty,
        KeepEmpty, EmptyTest, RdCas, RdCasFails, RdHelp, Stop, Continue, Finds,
        Exchange, ExchangeFails
  <2> QED
    BY <1>1, <1>2, <1>3, <2>1, Plain
    DEF Step, Pushing, WrLoad, WrReady, WrBehind, WrMoved, WrFull, KeepFull,
        WrCas, WrCasFails, WrAdv, WrHelp, Sees, Popping, RdLoad, RdReady, Refuse,
        Peek, RdBehind, RdMoved, KeepEmpty, EmptyTest, RdCasFails, RdHelp,
        Stop, Continue, Finds, Exchange, ExchangeFails, Goto, AtPlace, TypeOK
<1>5. array[Slot(reg[t].idx)].seq = EmptySeq(reg[t].idx) /\ pc[t] = "rd_entry"
  BY <1>4, ViewMeans DEF RdEmpty, Finds
<1>6. Contents = << >>
  BY <1>5, FindsHead DEF Sound
<1> QED
  BY <1>4, <1>6, SameContents DEF RdEmpty, shared

LEMMA DrainedStep ==
  ASSUME NoAba, Sound, PInv, NEW t \in Threads, PointerStep(t)
  PROVE  Drained'
<1>1. stage \in [Threads -> Stages] /\ Closer \in Threads /\ Alone /\ Drained
  BY Plain, CloserAssumption DEF OwnersOK, PInv
<1>2. CASE ClosePop(t)
  <2>1. t = Closer /\ stage'[t] = "close_pop" /\ Call(t) /\ req'[t].op = "pop"
    BY <1>1, <1>2 DEF ClosePop, Enter
  <2>2. pc'[t] = "rd_load"
    BY <2>1, Plain DEF Call, Goto, Start, TypeOK
  <2> QED
    BY <2>1, <2>2 DEF Drained
<1>3. CASE Inside(t)
  <2>1. Step(t) /\ stage' = stage /\ stage[t] \in {"push", "pop", "close_pop"}
    BY <1>3, Inner DEF Inside, owners
  <2>2. ASSUME stage[Closer] \in {"close_pop", "closed"} PROVE t = Closer
    BY <1>1, <2>1, <2>2 DEF Alone, Open
  <2> QED
    BY <1>1, <2>1, <2>2, NothingPopped DEF Drained
<1>4. CASE \/ Make(t) \/ Drop(t) \/ PushCall(t) \/ PopCall(t)
           \/ PushReturns(t) \/ PopReturns(t) \/ CloseDestroy(t) \/ CloseEnd(t)
  <2>1. UNCHANGED <<array, head, tail>>
    BY <1>4
    DEF Make, Drop, PushCall, PopCall, Call, PushReturns, PopReturns,
        CloseDestroy, CloseEnd, vars, shared
  <2>2. stage'[Closer] = "closed" =>
          \/ stage[Closer] = "closed"
          \/ stage[Closer] = "close_pop" /\ pc[Closer] = "idle" /\ ~Succeeded(Closer)
    BY <1>1, <1>4, Plain
    DEF Make, Drop, PushCall, PopCall, PushReturns, PopReturns, CloseDestroy,
        CloseNext, CloseEnd, Returned, Enter, InStage
  <2>3. stage'[Closer] = "close_pop" =>
          stage[Closer] = "close_pop" /\ pc'[Closer] = pc[Closer]
          /\ res'[Closer] = res[Closer]
    <3>1. CASE PushCall(t) \/ PopCall(t)
      <4>1. Open /\ stage'[Closer] \in {stage[Closer], "push", "pop"}
        BY <1>1, <3>1 DEF PushCall, PopCall, Free, Enter
      <4> QED
        BY <4>1 DEF Open
    <3>2. CASE \/ Make(t) \/ Drop(t) \/ PushReturns(t) \/ PopReturns(t)
               \/ CloseDestroy(t) \/ CloseEnd(t)
      BY <1>1, <3>2
      DEF Make, Drop, PushReturns, PopReturns, CloseDestroy, CloseNext, CloseEnd,
          Enter, vars
    <3> QED
      BY <1>4, <3>1, <3>2
  <2> QED
    BY <1>1, <2>1, <2>2, <2>3, SameContents DEF Drained, Succeeded
<1> QED
  BY <1>2, <1>3, <1>4 DEF PointerStep
------------------------------------------------------------------------------
LEMMA PInvStep ==
  ASSUME NoAba, Sound, IInv', PInv, [PNext]_pvars
  PROVE  PInv'
<1>1. CASE UNCHANGED <<vars, owners>>
  <2>1. /\ UNCHANGED <<hand, stage, made, destroyed, pc, req, res>>
        /\ Contents' = Contents
    BY <1>1, SameContents DEF vars, owners
  <2>2. Ownership'
    BY <2>1, Plain, SameOwners DEF Given, Taken, Succeeded
  <2> QED
    BY <2>1, <2>2
    DEF PInv, OwnersOK, Stagings, InStage, Alone, Open, Drained, Succeeded
<1>2. ASSUME NEW t \in Threads, PointerStep(t) PROVE PInv'
  <2>1. OwnersOK' /\ Stagings' /\ Ownership'
    BY <1>2, CallStep, InsideStep, MakeStep, DropStep, PushReturnsStep,
       PopReturnsStep, CloseDestroyStep, CloseEndStep DEF PointerStep
  <2> QED
    BY <1>2, <2>1, AloneStep, DrainedStep DEF PInv
<1> QED
  BY <1>1, <1>2 DEF PNext, pvars, Observe, Closed

(* What holds of the queue inside holds at every access, and so does where *)
(* each object is: in one hand, in one slot, in one pop that has not       *)
(* returned, or destroyed once; and the destructor is alone.               *)
THEOREM PointerSafety == ASSUME NoAba PROVE PSpec => [](Sound /\ PInv)
<1>1. PInit => PInv
  BY PInvInit
<1>2. Sound /\ IInv' /\ PInv /\ [PNext]_pvars => PInv'
  BY PInvStep
<1> QED
  BY <1>1, <1>2, QueueInside, Safety, CallSafety, PTL DEF PSpec, Sound

(* Ownership passes from the caller's pointer to the queue at the compare- *)
(* and-exchange of push and to the caller of pop at the one of pop: at     *)
(* every access an object has exactly one owner or has been destroyed      *)
(* exactly once, for any number of threads, objects and calls.             *)
THEOREM SingleOwner == ASSUME NoAba PROVE PSpec => []OneOwner
<1>1. PInv => OneOwner
  <2> SUFFICES ASSUME PInv, NEW o \in made
               PROVE  OwnerCount(o) + destroyed[o] = 1
    BY DEF OneOwner
  <2>1. Owned(o)
    BY DEF PInv, Ownership, OwnersOK
  <2> DEFINE H == Hands(o)
             P == Pops(o)
             Q == Places(o)
             d == destroyed[o]
  <2>2. \/ /\ d = 0
           /\ \/ \E t : H = {t} /\ P = {} /\ Q = {}
              \/ \E t : H = {} /\ P = {t} /\ Q = {}
              \/ \E k : H = {} /\ P = {} /\ Q = {k}
        \/ d = 1 /\ H = {} /\ P = {} /\ Q = {}
    BY <2>1 DEF Owned, Sole, Nowhere
  <2> HIDE DEF H, P, Q, d
  <2>3. Cardinality(H) + Cardinality(P) + Cardinality(Q) + d = 1
    <3>1. Cardinality({}) = 0 /\ \A x : Cardinality({x}) = 1
      BY FS_EmptySet, FS_Singleton
    <3>2. \/ Cardinality(H) = 1 /\ Cardinality(P) = 0 /\ Cardinality(Q) = 0 /\ d = 0
          \/ Cardinality(H) = 0 /\ Cardinality(P) = 1 /\ Cardinality(Q) = 0 /\ d = 0
          \/ Cardinality(H) = 0 /\ Cardinality(P) = 0 /\ Cardinality(Q) = 1 /\ d = 0
          \/ Cardinality(H) = 0 /\ Cardinality(P) = 0 /\ Cardinality(Q) = 0 /\ d = 1
      BY <2>2, <3>1, Zenon
    <3> QED
      BY <3>2
  <2> QED
    BY <2>3, Zenon DEF OwnerCount, Hands, Pops, Places, H, P, Q, d
<1> QED
  BY <1>1, PointerSafety, PTL

(* The destructor's loop, which stops at the first pop that finds nothing, *)
(* leaves no object behind in a slot.                                      *)
THEOREM NoneLeftBehind == ASSUME NoAba PROVE PSpec => []AllDestroyed
<1>1. PInv => AllDestroyed
  <2> SUFFICES ASSUME PInv, stage[Closer] = "closed", NEW o \in made
               PROVE  destroyed[o] = 1 \/ \E t \in Threads : hand[t] = o
    BY DEF AllDestroyed
  <2>1. Owned(o)
    BY DEF PInv, Ownership, OwnersOK
  <2>2. DOMAIN Contents = {}
    <3>1. Contents = << >>
      BY DEF PInv, Drained
    <3> QED
      BY <3>1
  <2>3. Places(o) = {} /\ Pops(o) = {}
    BY <2>2, CloserAssumption DEF Places, Pops, Taken, PInv, Alone, Open
  <2> QED
    BY <2>1, <2>3 DEF Owned, Sole, Hands
<1> QED
  BY <1>1, PointerSafety, PTL
------------------------------------------------------------------------------
(* One producer and one consumer. *)

(* Only p pushes, only c pops; anybody may ask whether the queue is empty. *)
OnePair(p, c) ==
  \A t \in Threads : \A r \in Requests[t] :
    r.op = "empty" \/ (r.op = "push" /\ t = p) \/ (r.op = "pop" /\ t = c)

Allowed(p, c) ==
  \A t \in Threads :
    /\ \/ req[t].op \in {"none", "empty"}
       \/ req[t].op = "push" /\ t = p
       \/ req[t].op = "pop" /\ t = c
    /\ pc[t] \in {"wr_load", "wr_seq", "wr_cas", "wr_help", "wr_adv"} =>
         req[t].op = "push"
    /\ pc[t] \in {"rd_cas", "rd_help", "rd_adv"} => req[t].op = "pop"
    /\ pc[t] \notin {"callback", "exchange"}

(* The index the producer works with is the tail; the lazy one, whose last *)
(* advance is still to be made, may first see the number before it.        *)
WriteSide(p) ==
  LET b == reg[p].base IN
  /\ pc[p] = "wr_seq" => b = tail \/ (LazyPush /\ b = tail - 1)
  /\ pc[p] = "wr_cas" => b = tail /\ tail < head + N
  /\ pc[p] = "wr_help" => LazyPush /\ b = tail - 1
  /\ pc[p] = "wr_adv" => b = tail - 1
  /\ LazyPush \/ pc[p] = "wr_adv" \/ Current(write_index, tail)

(* The same for the consumer and the head; the entry it has loaded stays.  *)
ReadSide(c) ==
  LET b == reg[c].base IN
  /\ pc[c] = "rd_entry" => b = head \/ (LazyPop /\ b = head - 1)
  /\ pc[c] = "rd_cas" => /\ b = head /\ head < tail
                         /\ array[Slot(reg[c].idx)] = Loaded(c)
  /\ pc[c] = "rd_help" => LazyPop /\ b = head - 1
  /\ pc[c] = "rd_adv" => b = head - 1
  /\ LazyPop \/ pc[c] = "rd_adv" \/ Current(read_index, head)

Pair(p, c) == Allowed(p, c) /\ WriteSide(p) /\ ReadSide(c)

(* The next number for a slot is N further on.                             *)
LEMMA NextRound == ASSUME NEW j \in Int PROVE Slot(j + N) = Slot(j)
<1> DEFINE i == j + N
           z == 1
<1>1. N \in Nat \ {0} /\ z \in Int /\ i \in Int /\ i = j + N * z
  BY HalfRange
<1> HIDE DEF i, z
<1>2. \A r \in Nat \ {0}, k \in Int : i = j + r * k => i % r = j % r
  BY <1>1, Congruent, Zenon
<1>3. i % N = j % N
  BY <1>1, <1>2, Zenon
<1> QED
  BY <1>3 DEF Slot, i

(* What the slot of the tail, or of the number before it, says to a push   *)
(* is never that the index is from another round.                          *)
LEMMA WriteNear ==
  ASSUME IInv, NEW b \in {tail, tail - 1}
  PROVE  WriteView(Wrap(b), array[Slot(Wrap(b))].seq) # "moved"
<1> DEFINE seq == array[Slot(Wrap(b))].seq
<1>1. /\ head \in Int /\ tail \in Int /\ N \in Int /\ b \in Int /\ b + N \in Int
      /\ 1 <= N /\ head <= tail /\ tail <= head + N
  BY Numbers
<1>2. /\ Slot(Wrap(b)) = Slot(b)
      /\ EmptySeq(Wrap(b)) = EmptySeq(b) /\ FullSeq(Wrap(b)) = FullSeq(b)
      /\ EmptySeq(Wrap(b) + N) = EmptySeq(b + N)
  BY <1>1, Wrapped
<1>3. \A j \in Int : j + N \in Int /\ Slot(j + N) = Slot(j)
  BY <1>1, NextRound
<1>4. ASSUME NEW j \in Int, head <= j, j < head + N, Slot(j) = Slot(b)
      PROVE  seq = IF j < tail THEN FullSeq(j) ELSE EmptySeq(j)
  <2>1. Serves(j)
    BY <1>1, <1>4 DEF IInv, Window
  <2> QED
    BY <1>2, <1>4, <2>1 DEF Serves
<1>5. CASE b = tail /\ tail < head + N
  BY <1>1, <1>2, <1>4, <1>5 DEF WriteView
<1>6. CASE b = tail /\ tail = head + N
  <2>1. seq = FullSeq(head)
    BY <1>1, <1>3, <1>4, <1>6
  <2>2. Wrap(Wrap(2 * head + 1) + 2 * N) = Wrap((2 * head + 1) + 2 * N)
    <3>1. 2 * head + 1 \in Int /\ 2 * N \in Int
      BY <1>1
    <3> QED
      BY <3>1, Wrapped
  <2>3. (2 * head + 1) + 2 * N = 2 * b + 1
    BY <1>1, <1>6
  <2>4. Wrap(seq + 2 * N) = FullSeq(Wrap(b))
    BY <1>2, <2>1, <2>2, <2>3 DEF FullSeq
  <2> QED
    BY <2>4 DEF WriteView
<1>7. CASE b = tail - 1 /\ head < tail
  <2>1. seq = FullSeq(b)
    BY <1>1, <1>4, <1>7
  <2> QED
    BY <1>2, <2>1 DEF WriteView
<1>8. CASE b = tail - 1 /\ head = tail
  <2>1. head <= b + N /\ b + N < head + N /\ ~ (b + N < tail)
    BY <1>1, <1>8
  <2>2. seq = EmptySeq(b + N)
    BY <1>1, <1>3, <1>4, <2>1
  <2> QED
    BY <1>2, <2>2 DEF WriteView
<1> QED
  BY <1>1, <1>5, <1>6, <1>7, <1>8

LEMMA ReadNear ==
  ASSUME IInv, NEW b \in {head, head - 1}
  PROVE  ReadView(Wrap(b), array[Slot(Wrap(b))].seq) # "moved"
<1> DEFINE seq == array[Slot(Wrap(b))].seq
<1>1. /\ head \in Int /\ tail \in Int /\ N \in Int /\ b \in Int /\ b + N \in Int
      /\ 1 <= N /\ head <= tail /\ tail <= head + N
  BY Numbers
<1>2. /\ Slot(Wrap(b)) = Slot(b)
      /\ EmptySeq(Wrap(b)) = EmptySeq(b) /\ FullSeq(Wrap(b)) = FullSeq(b)
      /\ FullSeq(Wrap(b) + N) = FullSeq(b + N)
  BY <1>1, Wrapped
<1>3. Slot(b + N) = Slot(b)
  BY <1>1, NextRound
<1>4. ASSUME NEW j \in Int, head <= j, j < head + N, Slot(j) = Slot(b)
      PROVE  seq = FullSeq(j) \/ seq = EmptySeq(j)
  <2>1. Serves(j)
    BY <1>1, <1>4 DEF IInv, Window
  <2> QED
    BY <1>2, <1>4, <2>1 DEF Serves
<1>5. CASE b = head
  <2>1. seq = FullSeq(b) \/ seq = EmptySeq(b)
    BY <1>1, <1>4, <1>5
  <2> QED
    BY <1>2, <2>1 DEF ReadView
<1>6. CASE b = head - 1
  <2>1. head <= b + N /\ b + N < head + N
    BY <1>1, <1>6
  <2>2. seq = FullSeq(b + N) \/ seq = EmptySeq(b + N)
    BY <1>1, <1>3, <1>4, <2>1
  <2> DEFINE x == (b + N) % Half
  <2>3. x \in Int /\ (seq = 2 * x + 1 \/ seq = 2 * x) /\ FullSeq(b + N) = 2 * x + 1
    BY <1>1, <2>2, SeqWord
  <2> HIDE DEF x, seq
  <2>4. seq \div 2 = x
    BY <2>3, Halving
  <2>5. LowBitSet(seq) = FullSeq(Wrap(b) + N)
    BY <1>2, <2>3, <2>4 DEF LowBitSet
  <2> QED
    BY <2>5 DEF ReadView, seq
<1> QED
  BY <1>5, <1>6

LEMMA PairInit == ASSUME NEW p \in Threads, NEW c \in Threads, Init PROVE Pair(p, c)
BY DEF Init, Pair, Allowed, WriteSide, ReadSide, NoRequest, Current

(* Only the producer changes the tail and its index, only the consumer the *)
(* head and its index, and no entry is exchanged.                          *)
LEMMA PairActs ==
  ASSUME NEW p \in Threads, NEW c \in Threads, Allowed(p, c), NEW t \in Threads
  PROVE  /\ WrCas(t) \/ WrAdv(t) \/ WrHelp(t) \/ WrLoad(t) \/ WrReady(t)
            \/ WrBehind(t) \/ WrMoved(t) \/ WrFull(t) \/ WrCasFails(t) => t = p
         /\ RdCas(t) \/ RdAdv(t) \/ RdHelp(t) \/ RdReady(t) \/ RdBehind(t)
            \/ RdMoved(t) \/ RdCasFails(t) => t = c /\ req[t].op = "pop"
         /\ ~Exchange(t) /\ ~ExchangeFails(t) /\ ~KeepFull(t) /\ ~KeepEmpty(t)
         /\ ~Refuse(t) /\ ~Peek(t) /\ ~Stop(t) /\ ~Continue(t)
<1>1. /\ \/ req[t].op \in {"none", "empty"}
         \/ req[t].op = "push" /\ t = p
         \/ req[t].op = "pop" /\ t = c
      /\ pc[t] \in {"wr_load", "wr_seq", "wr_cas", "wr_help", "wr_adv"} =>
           req[t].op = "push"
      /\ pc[t] \in {"rd_cas", "rd_help", "rd_adv"} => req[t].op = "pop"
      /\ pc[t] \notin {"callback", "exchange"}
  BY DEF Allowed
<1> QED
  BY <1>1
  DEF WrCas, WrAdv, WrHelp, WrLoad, WrReady, WrBehind, WrMoved, WrFull, WrCasFails,
      RdCas, RdAdv, RdHelp, RdReady, RdBehind, RdMoved, RdCasFails, Exchange,
      ExchangeFails, KeepFull, KeepEmpty, Refuse, Peek, Stop, Continue, Sees,
      Finds, Taking

LEMMA OthersRegs ==
  ASSUME TypeOK, NEW t \in Threads, Call(t) \/ Step(t), NEW u \in Threads \ {t}
  PROVE  reg'[u] = reg[u]
<1>1. reg \in [Threads -> Regs]
  BY DEF TypeOK
<1>2. CASE Call(t) \/ Exchange(t) \/ ExchangeFails(t)
  BY <1>1, <1>2 DEF Call, Exchange, ExchangeFails, Leave
<1>3. CASE Pushing(t)
  BY <1>1, <1>3
  DEF Pushing, WrLoad, WrReady, WrBehind, WrMoved, WrFull, KeepFull, WrCas,
      WrCasFails, WrAdv, WrHelp, Leave
<1>4. CASE Popping(t)
  BY <1>1, <1>4
  DEF Popping, RdLoad, RdReady, Refuse, Peek, RdBehind, RdMoved, RdEmpty,
      KeepEmpty, EmptyTest, RdCas, RdCasFails, RdAdv, RdHelp, Stop, Continue,
      AfterPop, Leave
<1> QED
  BY <1>2, <1>3, <1>4 DEF Step

LEMMA AllowedStep ==
  ASSUME TypeOK, Calls, NEW p \in Threads, NEW c \in Threads, OnePair(p, c),
         Allowed(p, c), NEW t \in Threads, Call(t) \/ Step(t)
  PROVE  Allowed(p, c)'
<1>1. /\ pc \in [Threads -> PCs] /\ req \in [Threads -> Request]
      /\ \A u \in Threads \ {t} : pc'[u] = pc[u] /\ req'[u] = req[u]
  BY OthersCalls DEF TypeOK
<1> DEFINE Own == /\ \/ req'[t].op \in {"none", "empty"}
                     \/ req'[t].op = "push" /\ t = p
                     \/ req'[t].op = "pop" /\ t = c
                  /\ pc'[t] \in {"wr_load", "wr_seq", "wr_cas", "wr_help", "wr_adv"} =>
                       req'[t].op = "push"
                  /\ pc'[t] \in {"rd_cas", "rd_help", "rd_adv"} => req'[t].op = "pop"
                  /\ pc'[t] \notin {"callback", "exchange"}
<1>2. CASE Call(t)
  <2>1. PICK r \in Requests[t] : /\ req' = [req EXCEPT ![t] = r]
                                 /\ Goto(t, Start(r.op))
    BY <1>2 DEF Call
  <2>2. req'[t] = r /\ pc'[t] = Start(r.op)
    BY <1>1, <2>1 DEF Goto
  <2>3. Own
    BY <2>2 DEF OnePair, Start
  <2> QED
    BY <1>1, <2>3 DEF Allowed
<1>3. CASE Pushing(t)
  <2>1. req' = req
    BY <1>3
    DEF Pushing, WrLoad, WrReady, WrBehind, WrMoved, WrFull, KeepFull, WrCas,
        WrCasFails, WrAdv, WrHelp
  <2>2. Own
    BY <1>1, <1>3, <2>1, PairActs
    DEF Pushing, WrLoad, WrReady, WrBehind, WrMoved, WrFull, WrCas, WrCasFails,
        WrAdv, WrHelp, Sees, Leave, Goto, Allowed
  <2> QED
    BY <1>1, <2>2 DEF Allowed
<1>4. CASE Popping(t)
  <2>1. req' = req
    BY <1>4
    DEF Popping, RdLoad, RdReady, Refuse, Peek, RdBehind, RdMoved, RdEmpty,
        KeepEmpty, EmptyTest, RdCas, RdCasFails, RdAdv, RdHelp, Stop, Continue
  <2>2. Own
    <3>1. \/ RdLoad(t) \/ RdReady(t) \/ RdBehind(t) \/ RdMoved(t) \/ RdEmpty(t)
          \/ EmptyTest(t) \/ RdCas(t) \/ RdCasFails(t) \/ RdAdv(t) \/ RdHelp(t)
      BY <1>4, PairActs DEF Popping
    <3>2. /\ RdReady(t) \/ RdBehind(t) \/ RdCas(t) \/ RdAdv(t) => req[t].op = "pop"
      BY PairActs
    <3>3. AfterPop(t) /\ req[t].op = "pop" => pc'[t] = "idle"
      BY <1>1 DEF AfterPop, Leave, Goto
    <3>4. \/ pc'[t] \in {"idle", "rd_load", "rd_entry"}
          \/ pc'[t] \in {"rd_cas", "rd_help", "rd_adv"} /\ req[t].op = "pop"
      BY <1>1, <3>1, <3>2, <3>3
      DEF RdLoad, RdReady, RdBehind, RdMoved, RdEmpty, EmptyTest, RdCas,
          RdCasFails, RdAdv, RdHelp, Leave, Goto
    <3> QED
      BY <2>1, <3>4 DEF Allowed
  <2> QED
    BY <1>1, <2>2 DEF Allowed
<1> QED
  BY <1>2, <1>3, <1>4, PairActs DEF Step

(* What a load of an index finds, and what an advance from the number      *)
(* before the current one leaves.                                          *)
LEMMA LoadNear ==
  ASSUME NEW index, NEW count \in Nat,
         Current(index, count) \/ OneBehind(index, count)
  PROVE  LET b == count - Wrap(count - index)
         IN b = count \/ (b = count - 1 /\ ~Current(index, count))
<1> DEFINE b == count - Wrap(count - index)
<1>1. /\ count - Wrap(count - Wrap(count - 0)) = count - 0
      /\ count - Wrap(count - Wrap(count - 1)) = count - 1
      /\ count - 0 = count
  BY BaseOf
<1>2. Current(index, count) => b = count
  BY <1>1 DEF Current
<1>3. OneBehind(index, count) => b = count - 1
  BY <1>1 DEF OneBehind
<1> QED
  BY <1>2, <1>3

LEMMA AdvanceNear ==
  ASSUME NEW index, NEW count \in Nat, NEW b, b = count - 1,
         Current(index, count) \/ OneBehind(index, count),
         NEW new, new = IF index = Wrap(b) THEN Wrap(Wrap(b) + 1) ELSE index
  PROVE  Current(new, count)
<1>1. b \in Int /\ b + 1 = count
  OBVIOUS
<1>2. Wrap(Wrap(b) + 1) = Wrap(count)
  BY <1>1, Wrapped
<1> QED
  BY <1>2 DEF Current, OneBehind

(* The facts the two sides start from.                                     *)
LEMMA SideFacts ==
  ASSUME IInv, NEW p \in Threads
  PROVE  /\ TypeOK /\ Counts /\ Window /\ MaxLag \in Int /\ 1 <= MaxLag
         /\ head \in Int /\ tail \in Int /\ head \in Nat /\ tail \in Nat /\ N \in Int
         /\ pc \in [Threads -> PCs] /\ reg \in [Threads -> Regs]
         /\ Current(write_index, tail) \/ OneBehind(write_index, tail)
         /\ Current(read_index, head) \/ OneBehind(read_index, head)
         /\ pc[p] \in WritePCs => WriteRegister(p)
         /\ pc[p] \in ReadPCs => ReadRegister(p)
         /\ reg[p].base \in Int
<1>1. TypeOK /\ Window /\ IndexLag /\ Registers
  BY DEF IInv
<1> QED
  BY <1>1, Numbers DEF TypeOK, IndexLag, Registers, Counts

LEMMA WriteSideStep ==
  ASSUME NoAba, IInv, NEW p \in Threads, NEW c \in Threads, Pair(p, c),
         NEW t \in Threads, Call(t) \/ Step(t)
  PROVE  WriteSide(p)'
<1> DEFINE b == reg[p].base
<1>1. WriteSide(p) /\ Allowed(p, c)
  BY DEF Pair
<1>2. CASE t # p
  <2>1. pc'[p] = pc[p] /\ reg'[p] = reg[p]
    BY <1>2, SideFacts, OthersCalls, OthersRegs
  <2>2. UNCHANGED <<write_index, tail>> /\ head' \in {head, head + 1}
    <3>1. ~WrCas(t) /\ ~WrAdv(t) /\ ~WrHelp(t) /\ ~Exchange(t)
      BY <1>1, <1>2, PairActs
    <3> QED
      BY <3>1
      DEF Call, Step, Pushing, WrLoad, WrReady, WrBehind, WrMoved, WrFull,
          KeepFull, WrCasFails, Popping, RdLoad, RdReady, Refuse, Peek, RdBehind,
          RdMoved, RdEmpty, KeepEmpty, EmptyTest, RdCas, RdCasFails, RdAdv,
          RdHelp, Stop, Continue, ExchangeFails, shared
  <2>3. tail < head + N => tail < head' + N
    BY <2>2, SideFacts
  <2> QED
    BY <1>1, <2>1, <2>2, <2>3 DEF WriteSide, Current
<1>3. CASE t = p /\ WrLoad(p)
  <2>1. /\ pc'[p] = "wr_seq" /\ UNCHANGED <<write_index, tail>>
        /\ reg'[p].base = tail - Wrap(tail - write_index) /\ pc[p] = "wr_load"
    BY <1>3, SideFacts DEF WrLoad, Goto, shared, Reg
  <2> DEFINE x == tail - Wrap(tail - write_index)
  <2>2. x = tail \/ (x = tail - 1 /\ ~Current(write_index, tail))
    BY SideFacts, LoadNear
  <2> HIDE DEF x
  <2>3. reg'[p].base = x
    BY <2>1 DEF x
  <2> QED
    BY <1>1, <2>1, <2>2, <2>3 DEF WriteSide, Current
<1>4. CASE t = p /\ (WrReady(p) \/ WrBehind(p))
  <2>1. /\ pc[p] = "wr_seq" /\ UNCHANGED <<write_index, tail, head, reg>>
        /\ b = tail \/ (LazyPush /\ b = tail - 1)
    BY <1>1, <1>4 DEF WrReady, WrBehind, Sees, shared, WriteSide
  <2>2. b \in Int /\ b <= tail /\ tail - b <= MaxLag /\ reg[p].idx = Wrap(b)
    BY <2>1, SideFacts DEF WriteRegister, WritePCs
  <2> DEFINE seq == array[Slot(Wrap(b))].seq
  <2>3. /\ seq = EmptySeq(Wrap(b)) => b = tail /\ tail < head + N
        /\ WriteView(Wrap(b), seq) = "behind" => b < tail
    BY <2>2, SideFacts, WriteLookup
  <2>4. CASE WrReady(p)
    <3>1. WriteView(Wrap(b), seq) = "ready" /\ pc'[p] = "wr_cas"
      BY <2>2, <2>4, SideFacts DEF WrReady, Sees, Goto
    <3>2. seq = EmptySeq(Wrap(b))
      BY <3>1 DEF WriteView
    <3> HIDE DEF seq
    <3> QED
      BY <1>1, <2>1, <2>3, <3>1, <3>2 DEF WriteSide, Current
  <2>5. CASE WrBehind(p)
    <3>1. WriteView(Wrap(b), seq) = "behind" /\ pc'[p] = "wr_help"
      BY <2>2, <2>5, SideFacts DEF WrBehind, Sees, Goto
    <3>2. b # tail
      BY <2>2, <2>3, <3>1, SideFacts
    <3> HIDE DEF seq
    <3> QED
      BY <1>1, <2>1, <3>1, <3>2 DEF WriteSide, Current
  <2> QED
    BY <1>4, <2>4, <2>5
<1>5. CASE t = p /\ WrCas(p)
  <2>1. /\ b = tail /\ tail' = tail + 1
        /\ IF LazyPush THEN pc'[p] = "idle" ELSE pc'[p] = "wr_adv" /\ reg' = reg
    BY <1>1, <1>5, SideFacts DEF WrCas, WriteSide, Leave, Goto
  <2>2. tail' - 1 = tail
    BY <2>1, SideFacts
  <2> QED
    BY <2>1, <2>2, QueueAssumption DEF WriteSide
<1>6. CASE t = p /\ (WrAdv(p) \/ WrHelp(p))
  <2>1. /\ b = tail - 1 /\ reg[p].idx = Wrap(b) /\ tail' = tail
        /\ write_index' = IF write_index = Wrap(b) THEN Wrap(Wrap(b) + 1) ELSE write_index
        /\ pc'[p] \in {"idle", "wr_load"}
    BY <1>1, <1>6, SideFacts
    DEF WrAdv, WrHelp, WriteSide, WriteRegister, WritePCs, AdvanceWrite, Leave, Goto
  <2>2. Current(write_index', tail)
    BY <2>1, SideFacts, AdvanceNear
  <2> QED
    BY <2>1, <2>2 DEF WriteSide, Current
<1>7. CASE t = p /\ (Call(p) \/ WrMoved(p) \/ WrFull(p) \/ WrCasFails(p) \/ Popping(p))
  <2>1. /\ UNCHANGED <<write_index, tail>> /\ pc[p] # "wr_adv"
        /\ pc'[p] \notin {"wr_seq", "wr_cas", "wr_help", "wr_adv"}
    <3>1. CASE Call(p) \/ WrMoved(p) \/ WrFull(p) \/ WrCasFails(p)
      BY <3>1, SideFacts
      DEF Call, WrMoved, WrFull, WrCasFails, Sees, Goto, Leave, Start, shared
    <3>2. CASE Popping(p)
      BY <3>2, SideFacts
      DEF Popping, RdLoad, RdReady, Refuse, Peek, RdBehind, RdMoved, RdEmpty,
          KeepEmpty, EmptyTest, RdCas, RdCasFails, RdAdv, RdHelp, Stop, Continue,
          Finds, AfterPop, Goto, Leave, shared
    <3> QED
      BY <1>7, <3>1, <3>2
  <2> QED
    BY <1>1, <2>1 DEF WriteSide, Current
<1> QED
  BY <1>1, <1>2, <1>3, <1>4, <1>5, <1>6, <1>7, PairActs DEF Step, Pushing

LEMMA ReadSideStep ==
  ASSUME NoAba, IInv, NEW p \in Threads, NEW c \in Threads, Pair(p, c),
         NEW t \in Threads, Call(t) \/ Step(t)
  PROVE  ReadSide(c)'
<1> DEFINE b == reg[c].base
<1>1. ReadSide(c) /\ Allowed(p, c)
  BY DEF Pair
<1>2. CASE t # c
  <2>1. pc'[c] = pc[c] /\ reg'[c] = reg[c]
    BY <1>2, SideFacts, OthersCalls, OthersRegs
  <2>2. /\ UNCHANGED <<read_index, head>>
        /\ \/ UNCHANGED <<array, tail>>
           \/ WrCas(t)
    <3>1. ~RdCas(t) /\ ~RdAdv(t) /\ ~RdHelp(t) /\ ~Exchange(t)
      BY <1>1, <1>2, PairActs
    <3> QED
      BY <3>1
      DEF Call, Step, Pushing, WrLoad, WrReady, WrBehind, WrMoved, WrFull,
          KeepFull, WrCas, WrCasFails, WrAdv, WrHelp, Popping, RdLoad, RdReady,
          Refuse, Peek, RdBehind, RdMoved, RdEmpty, KeepEmpty, EmptyTest,
          RdCasFails, Stop, Continue, ExchangeFails, shared
  <2>3. ASSUME WrCas(t), pc[c] = "rd_cas"
        PROVE  /\ head < tail' /\ array'[Slot(reg[c].idx)] = array[Slot(reg[c].idx)]
    <3>1. /\ tail' = tail + 1 /\ Slot(reg[t].idx) = Slot(tail) /\ tail < head + N
          /\ array' = [array EXCEPT ![Slot(tail)] = FullEntry(reg[t].idx, req[t].data)]
      BY <2>3, PushAtTail DEF WrCas
    <3>2. b = head /\ head < tail /\ reg[c].idx = Wrap(head)
      BY <1>1, <2>3, SideFacts DEF ReadSide, ReadRegister, ReadPCs
    <3>3. Slot(reg[c].idx) = Slot(head) /\ Slot(head) # Slot(tail)
      <4>1. /\ head # tail /\ head - tail < N /\ tail - head < N
            /\ head \in Int /\ tail \in Int
        BY <3>1, <3>2, SideFacts
      <4>2. Slot(head) # Slot(tail)
        BY <4>1, OtherSlot
      <4> QED
        BY <3>2, <4>1, <4>2, Wrapped
    <3>4. head < tail'
      BY <3>1, <3>2, SideFacts
    <3> QED
      BY <3>1, <3>3, <3>4
  <2> QED
    BY <1>1, <2>1, <2>2, <2>3 DEF ReadSide, Current, Loaded
<1>3. CASE t = c /\ RdLoad(c)
  <2>1. /\ pc'[c] = "rd_entry" /\ UNCHANGED <<read_index, head>>
        /\ reg'[c].base = head - Wrap(head - read_index) /\ pc[c] = "rd_load"
    BY <1>3, SideFacts DEF RdLoad, Goto, shared, Reg
  <2> DEFINE x == head - Wrap(head - read_index)
  <2>2. x = head \/ (x = head - 1 /\ ~Current(read_index, head))
    BY SideFacts, LoadNear
  <2> HIDE DEF x
  <2>3. reg'[c].base = x
    BY <2>1 DEF x
  <2> QED
    BY <1>1, <2>1, <2>2, <2>3 DEF ReadSide, Current
<1>4. CASE t = c /\ (RdReady(c) \/ RdBehind(c))
  <2>1. /\ pc[c] = "rd_entry" /\ UNCHANGED <<read_index, tail, head, array>>
        /\ b = head \/ (LazyPop /\ b = head - 1)
        /\ reg'[c].idx = reg[c].idx /\ reg'[c].base = b
    <3>1. /\ pc[c] = "rd_entry" /\ UNCHANGED <<read_index, tail, head, array>>
          /\ \/ reg' = reg
             \/ \E d : reg' = [reg EXCEPT ![c].data = d]
      BY <1>4 DEF RdReady, RdBehind, Finds, shared
    <3>2. reg'[c].idx = reg[c].idx /\ reg'[c].base = b
      BY <3>1, SideFacts DEF Regs
    <3> QED
      BY <1>1, <3>1, <3>2 DEF ReadSide
  <2>2. b \in Int /\ b <= head /\ head - b <= MaxLag /\ reg[c].idx = Wrap(b)
    BY <2>1, SideFacts DEF ReadRegister, ReadPCs
  <2> DEFINE e == array[Slot(Wrap(b))]
             seq == e.seq
  <2>3. /\ seq = FullSeq(Wrap(b)) => b = head /\ head < tail
        /\ \A op : View(op, Wrap(b), seq) = "behind" => b < head
    BY <2>2, SideFacts, ReadLookup
  <2>4. CASE RdReady(c)
    <3>1. View(req[c].op, Wrap(b), seq) = "ready" /\ pc'[c] = "rd_cas"
      BY <2>2, <2>4, SideFacts DEF RdReady, Finds, Goto
    <3>2. seq = FullSeq(Wrap(b))
      BY <3>1, ViewMeans
    <3>3. reg'[c].data = e.data
      BY <2>2, <2>4, SideFacts DEF RdReady
    <3>4. e = [seq |-> seq, data |-> e.data]
      <4>1. Slot(Wrap(b)) \in 0 .. N - 1
        BY <2>2, SideFacts, Wrapped, SlotRange
      <4> QED
        BY <4>1, SideFacts DEF TypeOK, Entry
    <3> HIDE DEF seq, e
    <3>5. array'[Slot(reg'[c].idx)] = FullEntry(reg'[c].idx, reg'[c].data)
      BY <2>1, <2>2, <3>2, <3>3, <3>4 DEF FullEntry, e
    <3> QED
      BY <1>1, <2>1, <2>3, <3>1, <3>2, <3>5 DEF ReadSide, Current, Loaded
  <2>5. CASE RdBehind(c)
    <3>1. View(req[c].op, Wrap(b), seq) = "behind" /\ pc'[c] = "rd_help"
      BY <2>2, <2>5, SideFacts DEF RdBehind, Finds, Goto
    <3>2. b # head
      BY <2>2, <2>3, <3>1, SideFacts
    <3> HIDE DEF seq, e
    <3> QED
      BY <1>1, <2>1, <3>1, <3>2 DEF ReadSide, Current
  <2> QED
    BY <1>4, <2>4, <2>5
<1>5. CASE t = c /\ RdCas(c)
  <2>1. req[c].op = "pop"
    BY <1>1, <1>5, PairActs
  <2>2. /\ b = head /\ head' = head + 1
        /\ IF LazyPop THEN pc'[c] = "idle" ELSE pc'[c] = "rd_adv" /\ reg' = reg
    BY <1>1, <1>5, <2>1, SideFacts DEF RdCas, ReadSide, AfterPop, Leave, Goto
  <2>3. head' - 1 = head
    BY <2>2, SideFacts
  <2> QED
    BY <2>2, <2>3, QueueAssumption DEF ReadSide
<1>6. CASE t = c /\ (RdAdv(c) \/ RdHelp(c))
  <2>1. req[c].op = "pop"
    BY <1>1, <1>6, PairActs
  <2>2. /\ b = head - 1 /\ reg[c].idx = Wrap(b) /\ head' = head
        /\ read_index' = IF read_index = Wrap(b) THEN Wrap(Wrap(b) + 1) ELSE read_index
        /\ pc'[c] \in {"idle", "rd_load"}
    BY <1>1, <1>6, <2>1, SideFacts
    DEF RdAdv, RdHelp, ReadSide, ReadRegister, ReadPCs, AdvanceRead, AfterPop, Leave, Goto
  <2>3. Current(read_index', head)
    BY <2>2, SideFacts, AdvanceNear
  <2> QED
    BY <2>2, <2>3 DEF ReadSide, Current
<1>7. CASE /\ t = c
           /\ \/ Call(c) \/ Pushing(c) \/ RdMoved(c) \/ RdEmpty(c) \/ EmptyTest(c)
              \/ RdCasFails(c)
  <2>1. /\ UNCHANGED <<read_index, head>> /\ pc[c] # "rd_adv"
        /\ pc'[c] \notin {"rd_entry", "rd_cas", "rd_help", "rd_adv"}
    <3>1. CASE Call(c) \/ RdMoved(c) \/ RdEmpty(c) \/ EmptyTest(c) \/ RdCasFails(c)
      BY <3>1, SideFacts
      DEF Call, RdMoved, RdEmpty, EmptyTest, RdCasFails, Finds, Goto, Leave, Start,
          shared
    <3>2. CASE Pushing(c)
      BY <3>2, SideFacts
      DEF Pushing, WrLoad, WrReady, WrBehind, WrMoved, WrFull, KeepFull, WrCas,
          WrCasFails, WrAdv, WrHelp, Sees, Goto, Leave, shared
    <3> QED
      BY <1>7, <3>1, <3>2
  <2> QED
    BY <1>1, <2>1 DEF ReadSide, Current
<1> QED
  BY <1>1, <1>2, <1>3, <1>4, <1>5, <1>6, <1>7, PairActs DEF Step, Popping

LEMMA PairStep ==
  ASSUME NoAba, IInv, Calls, NEW p \in Threads, NEW c \in Threads, OnePair(p, c),
         Pair(p, c), [Next]_vars
  PROVE  Pair(p, c)'
<1>1. CASE UNCHANGED vars
  BY <1>1 DEF vars, Pair, Allowed, WriteSide, ReadSide, Current, Loaded
<1>2. ASSUME NEW t \in Threads, Call(t) \/ Step(t) PROVE Pair(p, c)'
  BY <1>2, AllowedStep, WriteSideStep, ReadSideStep DEF Pair, IInv
<1> QED
  BY <1>1, <1>2 DEF Next, Done

(* A producer or a consumer that has loaded its index never has to start   *)
(* again because of the other.                                             *)
LEMMA NeverRetries ==
  ASSUME NoAba, IInv, NEW p \in Threads, NEW c \in Threads, Pair(p, c)
  PROVE  ~WrMoved(p) /\ ~WrCasFails(p) /\ ~RdMoved(c) /\ ~RdCasFails(c)
<1>1. WriteSide(p) /\ ReadSide(c) /\ Allowed(p, c)
  BY DEF Pair
<1>2. ~WrMoved(p)
  <2> SUFFICES ASSUME WrMoved(p) PROVE FALSE
    OBVIOUS
  <2>1. /\ reg[p].base \in {tail, tail - 1} /\ reg[p].idx = Wrap(reg[p].base)
        /\ WriteView(reg[p].idx, array[Slot(reg[p].idx)].seq) = "moved"
    BY <1>1, SideFacts DEF WrMoved, Sees, WriteSide, WriteRegister, WritePCs
  <2> QED
    BY <2>1, WriteNear
<1>3. ~WrCasFails(p)
  <2> SUFFICES ASSUME WrCasFails(p) PROVE FALSE
    OBVIOUS
  <2>1. reg[p].base = tail /\ tail < head + N /\ reg[p].idx = Wrap(tail)
    BY <1>1, SideFacts DEF WrCasFails, WriteSide, WriteRegister, WritePCs
  <2>2. Serves(tail) /\ Slot(tail) \in 0 .. N - 1
    BY <2>1, SideFacts, SlotRange DEF Window
  <2>3. array[Slot(tail)] = [seq |-> EmptySeq(tail), data |-> Zero]
    BY <2>2, SideFacts DEF Serves, TypeOK, Entry
  <2>4. Slot(Wrap(tail)) = Slot(tail) /\ EmptySeq(Wrap(tail)) = EmptySeq(tail)
    BY SideFacts, Wrapped
  <2> QED
    BY <2>1, <2>3, <2>4 DEF WrCasFails, EmptyEntry
<1>4. ~RdMoved(c)
  <2> SUFFICES ASSUME RdMoved(c) PROVE FALSE
    OBVIOUS
  <2>1. req[c].op = "pop"
    BY <1>1, PairActs
  <2>2. /\ reg[c].base \in {head, head - 1} /\ reg[c].idx = Wrap(reg[c].base)
        /\ ReadView(reg[c].idx, array[Slot(reg[c].idx)].seq) = "moved"
    BY <1>1, <2>1, SideFacts DEF RdMoved, Finds, View, ReadSide, ReadRegister, ReadPCs
  <2> QED
    BY <2>2, ReadNear
<1>5. ~RdCasFails(c)
  BY <1>1 DEF RdCasFails, ReadSide
<1> QED
  BY <1>2, <1>3, <1>4, <1>5

(* What WaitFree says of one thread.                                       *)
GoesOn(t) ==
  pc'[t] # pc[t] =>
    /\ pc[t] = "wr_help" => LazyPush /\ write_index' = Wrap(tail')
    /\ pc[t] = "rd_help" => LazyPop /\ read_index' = Wrap(head')
    /\ pc'[t] \in {"wr_load", "rd_load"} => pc[t] \in {"idle", "wr_help", "rd_help"}

LEMMA GoesOnStep ==
  ASSUME NoAba, IInv, NEW p \in Threads, NEW c \in Threads, Pair(p, c), Pair(p, c)',
         NEW t \in Threads, Call(t) \/ Step(t)
  PROVE  GoesOn(t)
<1>1. /\ WriteSide(p) /\ ReadSide(c) /\ Allowed(p, c)
      /\ pc \in [Threads -> PCs] /\ req \in [Threads -> Request]
  BY SideFacts DEF Pair, TypeOK
<1>2. CASE WrHelp(t)
  <2>1. /\ t = p /\ pc[t] = "wr_help" /\ LazyPush /\ reg[p].base = tail - 1
        /\ reg[p].idx = Wrap(reg[p].base) /\ tail' = tail
        /\ AdvanceWrite(reg[p].idx)
    BY <1>1, <1>2, PairActs, SideFacts
    DEF WrHelp, WriteSide, WriteRegister, WritePCs
  <2>2. Current(write_index', tail)
    BY <2>1, SideFacts, AdvanceNear DEF AdvanceWrite
  <2> QED
    BY <2>1, <2>2 DEF GoesOn, Current
<1>3. CASE RdHelp(t)
  <2>1. /\ t = c /\ pc[t] = "rd_help" /\ LazyPop /\ reg[c].base = head - 1
        /\ reg[c].idx = Wrap(reg[c].base) /\ head' = head
        /\ AdvanceRead(reg[c].idx)
    BY <1>1, <1>3, PairActs, SideFacts
    DEF RdHelp, ReadSide, ReadRegister, ReadPCs
  <2>2. Current(read_index', head)
    BY <2>1, SideFacts, AdvanceNear DEF AdvanceRead
  <2> QED
    BY <2>1, <2>2 DEF GoesOn, Current
<1>4. CASE Call(t)
  BY <1>4 DEF Call, GoesOn
<1>5. CASE Step(t) /\ ~WrHelp(t) /\ ~RdHelp(t)
  <2>1. \/ WrLoad(t) \/ WrReady(t) \/ WrBehind(t) \/ WrFull(t) \/ WrCas(t) \/ WrAdv(t)
        \/ RdLoad(t) \/ RdReady(t) \/ RdBehind(t) \/ RdEmpty(t)
        \/ EmptyTest(t) \/ RdCas(t) \/ RdAdv(t)
    BY <1>1, <1>5, PairActs, NeverRetries DEF Step, Pushing, Popping
  <2>2. pc'[t] \notin {"wr_load", "rd_load"} /\ pc[t] \notin {"wr_help", "rd_help"}
    <3>1. CASE RdCas(t) \/ RdAdv(t)
      <4>1. req[t].op = "pop"
        BY <1>1, <3>1, PairActs
      <4> QED
        BY <1>1, <3>1, <4>1 DEF RdCas, RdAdv, AfterPop, Goto, Leave
    <3>2. CASE \/ WrLoad(t) \/ WrReady(t) \/ WrBehind(t) \/ WrFull(t) \/ WrCas(t)
               \/ WrAdv(t)
      BY <1>1, <3>2 DEF WrLoad, WrReady, WrBehind, WrFull, WrCas, WrAdv, Sees, Goto, Leave
    <3>3. CASE RdLoad(t) \/ RdReady(t) \/ RdBehind(t) \/ RdEmpty(t) \/ EmptyTest(t)
      BY <1>1, <3>3 DEF RdLoad, RdReady, RdBehind, RdEmpty, EmptyTest, Finds, Goto, Leave
    <3> QED
      BY <2>1, <3>1, <3>2, <3>3
  <2> QED
    BY <2>2 DEF GoesOn
<1> QED
  BY <1>2, <1>3, <1>4, <1>5

(* README: with one producer and one consumer push and pop are wait-free.  *)
(* Neither ever starts again because of the other; the lazy variants start *)
(* again once, with the shared index brought up to date, for any capacity  *)
(* and any number of calls.                                                *)
THEOREM PairIsWaitFree ==
  ASSUME NoAba, NEW p \in Threads, NEW c \in Threads, OnePair(p, c)
  PROVE  Spec => WaitFree
<1> DEFINE w == <<pc, write_index, read_index, head, tail>>
<1>1. Init => Pair(p, c)
  BY PairInit
<1>2. IInv /\ Calls /\ Pair(p, c) /\ [Next]_vars => Pair(p, c)'
  BY PairStep
<1>3. IInv /\ Pair(p, c) /\ Pair(p, c)' /\ [Next]_vars =>
        [\A t \in Threads : GoesOn(t)]_w
  <2> SUFFICES ASSUME IInv, Pair(p, c), Pair(p, c)', [Next]_vars, w' # w,
                      NEW t \in Threads
               PROVE  GoesOn(t)
    OBVIOUS
  <2>1. PICK u \in Threads : Call(u) \/ Step(u)
    BY DEF Next, Done, vars
  <2>2. CASE u = t
    BY <2>1, <2>2, GoesOnStep
  <2>3. CASE u # t
    BY <2>1, <2>3, SideFacts, OthersCalls DEF GoesOn
  <2> QED
    BY <2>2, <2>3
<1>4. WaitFree <=> [][\A t \in Threads : GoesOn(t)]_w
  BY DEF WaitFree, GoesOn
<1> QED
  BY <1>1, <1>2, <1>3, <1>4, Safety, CallSafety, PTL DEF Spec
------------------------------------------------------------------------------
(* size(). *)

(* The push or pop number a shared index stands for.                       *)
NumberOf(index, count) == count - Wrap(count - index)
ReadNumber == NumberOf(read_index, head)
WriteNumber == NumberOf(write_index, tail)

ObsOK ==
  obs \in [at : {"idle", "index", "entry", "compare", "subtract"}, read : Int,
           w : Int, r : Int, order : BOOLEAN, size : Int, least : Int,
           most : Int, still : BOOLEAN]

(* A loaded write index is near a length the queue had during the call.    *)
Plausible(v) == /\ ReadNumber <= v /\ v <= WriteNumber
                /\ obs.least - 1 <= v - ReadNumber
                /\ v - ReadNumber <= obs.most + 1

(* What the observer knows while the read index stands still: the element  *)
(* it points at has been pushed, and once the write index has been seen to *)
(* have wrapped around and the read index not, that stays so.              *)
Sight ==
  obs.at # "idle" /\ obs.still =>
    /\ obs.least <= Length /\ Length <= obs.most
    /\ obs.at # "index" => obs.read = read_index
    /\ obs.at \in {"compare", "subtract"} => ReadNumber < tail
    /\ obs.w # Unread => \E v \in Int : Plausible(v) /\ obs.w = Wrap(v)
    /\ obs.r # Unread => obs.r = read_index
    /\ obs.at = "subtract" /\ ~obs.order =>
         write_index < read_index /\ (obs.w # Unread => obs.w < read_index)

LEMMA Numbered ==
  ASSUME NEW index, NEW count \in Nat,
         Current(index, count) \/ OneBehind(index, count)
  PROVE  /\ NumberOf(index, count) \in Int /\ index = Wrap(NumberOf(index, count))
         /\ NumberOf(index, count) = count \/ NumberOf(index, count) = count - 1
         /\ Current(index, count) => NumberOf(index, count) = count
<1>1. LET b == count - Wrap(count - index) IN b \in Nat /\ index = Wrap(b)
  BY Loads
<1>2. LET b == count - Wrap(count - index)
      IN b = count \/ (b = count - 1 /\ ~Current(index, count))
  BY LoadNear
<1> QED
  BY <1>1, <1>2 DEF NumberOf

(* An index that does not move keeps its number.                           *)
LEMMA NumberStays ==
  ASSUME NEW index, NEW a \in Nat, NEW b \in Nat, b = a \/ b = a + 1,
         Current(index, a) \/ OneBehind(index, a),
         Current(index, b) \/ OneBehind(index, b)
  PROVE  NumberOf(index, b) = NumberOf(index, a)
<1> DEFINE x == NumberOf(index, a)
           y == NumberOf(index, b)
<1>1. /\ x \in Int /\ (x = a \/ x = a - 1) /\ index = Wrap(x)
      /\ y \in Int /\ (y = b \/ y = b - 1) /\ index = Wrap(y)
  BY Numbered
<1> HIDE DEF x, y
<1>2. R \in Nat \ {0} /\ R >= 4 /\ x - y < R /\ y - x < R
  BY <1>1, HalfRange
<1>3. x % R = y % R
  BY <1>1 DEF Wrap
<1>4. x = y
  BY <1>1, <1>2, <1>3, SameAndNear
<1> QED
  BY <1>4 DEF x, y

(* Indexes less than R apart: their words differ by as much, or by R less. *)
LEMMA WordDistance ==
  ASSUME NEW h \in Int, NEW v \in Int, h <= v, v < h + R
  PROVE  /\ Wrap(h) \in 0 .. R - 1 /\ Wrap(v) \in 0 .. R - 1
         /\ Wrap(v) = IF Wrap(h) + (v - h) < R THEN Wrap(h) + (v - h)
                                               ELSE Wrap(h) + (v - h) - R
         /\ Wrap(Wrap(v) - Wrap(h)) = v - h
<1> DEFINE a == v - h
           x == h % R
           y == h \div R
<1>1. R \in Nat \ {0} /\ a \in Int /\ 0 <= a /\ a < R /\ v = h + a
  BY HalfRange
<1>2. x \in 0 .. R - 1 /\ y \in Int /\ h = R * y + x
  BY <1>1, Division
<1> HIDE DEF a, x, y
<1> DEFINE z == IF x + a < R THEN x + a ELSE x + a - R
<1>3. z \in 0 .. R - 1 /\ z \in Int /\ z % R = z
  BY <1>1, <1>2
<1>4. \E q \in Int : v = z + R * q
  <2>1. CASE x + a < R
    BY <1>1, <1>2, <2>1
  <2>2. CASE ~ (x + a < R)
    <3> DEFINE q == y + 1
    <3>1. q \in Int /\ R * q = R * y + R
      BY <1>1, <1>2
    <3>2. v = z + R * q
      BY <1>1, <1>2, <2>2, <3>1
    <3> QED
      BY <3>1, <3>2
  <2> QED
    BY <2>1, <2>2
<1>5. v % R = z
  <2>1. PICK q \in Int : v = z + R * q
    BY <1>4
  <2> HIDE DEF z
  <2>2. z \in Int /\ v \in Int
    BY <1>3
  <2>3. \A r \in Nat \ {0}, k \in Int : v = z + r * k => v % r = z % r
    BY <2>2, Congruent, Zenon
  <2>4. v % R = z % R
    BY <1>1, <2>1, <2>3, Zenon
  <2> QED
    BY <1>3, <2>4
<1>6. (z - x) % R = a
  <2>1. CASE x + a < R
    BY <1>1, <1>2, <2>1
  <2>2. CASE ~ (x + a < R)
    <3> DEFINE d == z - x
               q == -1
    <3>1. d \in Int /\ q \in Int /\ d = a + R * q
      BY <1>1, <1>2, <2>2
    <3> HIDE DEF d, q
    <3>2. d % R = a % R
      BY <1>1, <3>1, Congruent
    <3> QED
      BY <1>1, <3>2 DEF d
  <2> QED
    BY <2>1, <2>2
<1>7. Wrap(h) = x /\ Wrap(v) = z
  BY <1>5 DEF Wrap, x
<1>8. Wrap(Wrap(v) - Wrap(h)) = a
  BY <1>6, <1>7 DEF Wrap
<1> HIDE DEF z
<1>9. /\ x \in 0 .. R - 1 /\ z \in 0 .. R - 1
      /\ z = IF x + a < R THEN x + a ELSE x + a - R
  BY <1>2, <1>3 DEF z
<1> QED
  BY <1>7, <1>8, <1>9 DEF a

(* Once wrapped around, an index stays behind one that has not been.       *)
LEMMA StaysWrapped ==
  ASSUME NEW h \in Int, NEW v \in Int, NEW u \in Int, h <= v, v <= u, u < h + R,
         Wrap(v) < Wrap(h)
  PROVE  Wrap(u) < Wrap(h)
<1> DEFINE a == Wrap(h)
           b == Wrap(v)
           c == Wrap(u)
<1>1. R \in Int /\ v < h + R /\ h <= u
  BY HalfRange
<1>2. /\ a \in 0 .. R - 1 /\ b \in 0 .. R - 1 /\ c \in 0 .. R - 1 /\ b < a
      /\ b = IF a + (v - h) < R THEN a + (v - h) ELSE a + (v - h) - R
      /\ c = IF a + (u - h) < R THEN a + (u - h) ELSE a + (u - h) - R
  BY <1>1, WordDistance
<1> HIDE DEF a, b, c
<1>3. c < a
  BY <1>1, <1>2
<1> QED
  BY <1>3 DEF a, c

(* The numbers of the two indexes, whatever the indexes and the counts.    *)
LEMMA TwoNumbers ==
  ASSUME NEW wi, NEW ri, NEW hd \in Nat, NEW tl \in Nat, hd <= tl, tl <= hd + N,
         Current(wi, tl) \/ OneBehind(wi, tl), Current(ri, hd) \/ OneBehind(ri, hd)
  PROVE  /\ NumberOf(wi, tl) \in Int /\ wi = Wrap(NumberOf(wi, tl))
         /\ NumberOf(ri, hd) \in Int /\ ri = Wrap(NumberOf(ri, hd))
         /\ NumberOf(wi, tl) = tl \/ NumberOf(wi, tl) = tl - 1
         /\ NumberOf(ri, hd) = hd \/ NumberOf(ri, hd) = hd - 1
         /\ NumberOf(wi, tl) < NumberOf(ri, hd) + R
<1> DEFINE w == NumberOf(wi, tl)
           h == NumberOf(ri, hd)
<1>1. /\ w \in Int /\ wi = Wrap(w) /\ (w = tl \/ w = tl - 1)
      /\ h \in Int /\ ri = Wrap(h) /\ (h = hd \/ h = hd - 1)
  BY Numbered
<1> HIDE DEF w, h
<1>2. R \in Int /\ N \in Int /\ 1 <= N /\ R >= 4 * N
  BY QueueAssumption
<1>3. w < h + R
  BY <1>1, <1>2
<1> QED
  BY <1>1, <1>3 DEF w, h

LEMMA NumbersNow ==
  ASSUME IInv
  PROVE  /\ WriteNumber \in Int /\ write_index = Wrap(WriteNumber)
         /\ ReadNumber \in Int /\ read_index = Wrap(ReadNumber)
         /\ WriteNumber = tail \/ WriteNumber = tail - 1
         /\ ReadNumber = head \/ ReadNumber = head - 1
         /\ WriteNumber < ReadNumber + R
BY Numbers, TwoNumbers DEF Counts, IInv, IndexLag, WriteNumber, ReadNumber

LEMMA NumbersNext ==
  ASSUME IInv'
  PROVE  /\ WriteNumber' \in Int /\ write_index' = Wrap(WriteNumber')
         /\ WriteNumber' < ReadNumber' + R
<1>1. /\ head' \in Nat /\ tail' \in Nat /\ head' <= tail' /\ tail' <= head' + N
      /\ Current(write_index', tail') \/ OneBehind(write_index', tail')
      /\ Current(read_index', head') \/ OneBehind(read_index', head')
  BY DEF IInv, TypeOK, Window, IndexLag, Current, OneBehind
<1>2. /\ NumberOf(write_index', tail') \in Int
      /\ write_index' = Wrap(NumberOf(write_index', tail'))
      /\ NumberOf(write_index', tail') < NumberOf(read_index', head') + R
  <2> DEFINE wi == write_index'
             ri == read_index'
             hd == head'
             tl == tail'
  <2>1. /\ hd \in Nat /\ tl \in Nat /\ hd <= tl /\ tl <= hd + N
        /\ Current(wi, tl) \/ OneBehind(wi, tl)
        /\ Current(ri, hd) \/ OneBehind(ri, hd)
    BY <1>1
  <2> HIDE DEF wi, ri, hd, tl
  <2>2. /\ NumberOf(wi, tl) \in Int /\ wi = Wrap(NumberOf(wi, tl))
        /\ NumberOf(wi, tl) < NumberOf(ri, hd) + R
    BY <2>1, TwoNumbers
  <2> QED
    BY <2>2 DEF wi, ri, hd, tl
<1>3. /\ WriteNumber' = NumberOf(write_index', tail')
      /\ ReadNumber' = NumberOf(read_index', head')
  BY DEF WriteNumber, ReadNumber
<1> QED
  BY <1>2, <1>3

LEMMA NumbersMove ==
  ASSUME NoAba, IInv, IInv', [Next]_vars
  PROVE  /\ read_index' = read_index => ReadNumber' = ReadNumber
         /\ WriteNumber <= WriteNumber'
         /\ tail' = tail \/ tail' = tail + 1
<1>1. /\ head \in Nat /\ tail \in Nat /\ head' \in Nat /\ tail' \in Nat
      /\ Current(write_index, tail) \/ OneBehind(write_index, tail)
      /\ Current(read_index, head) \/ OneBehind(read_index, head)
      /\ Current(write_index', tail') \/ OneBehind(write_index', tail')
      /\ Current(read_index', head') \/ OneBehind(read_index', head')
  BY DEF IInv, TypeOK, IndexLag, Current, OneBehind
<1>2. WriteNumber \in Int
  BY NumbersNow
<1>3. CASE UNCHANGED <<write_index, read_index, head, tail>>
  BY <1>2, <1>3 DEF WriteNumber, ReadNumber
<1>4. ASSUME NEW t \in Threads, WrCas(t)
      PROVE  UNCHANGED <<write_index, read_index, head>> /\ tail' = tail + 1
  BY <1>4 DEF WrCas
<1>5. ASSUME NEW t \in Threads, RdCas(t)
      PROVE  UNCHANGED <<write_index, read_index, tail>> /\ head' = head + 1
  BY <1>5 DEF RdCas
<1>6. CASE \E t \in Threads : WrCas(t)
  <2>1. NumberOf(write_index, tail') = WriteNumber
    BY <1>1, <1>4, <1>6, NumberStays DEF WriteNumber
  <2> QED
    BY <1>2, <1>4, <1>6, <2>1 DEF WriteNumber, ReadNumber
<1>7. CASE \E t \in Threads : RdCas(t)
  <2>1. NumberOf(read_index, head') = ReadNumber
    BY <1>1, <1>5, <1>7, NumberStays DEF ReadNumber
  <2> QED
    BY <1>2, <1>5, <1>7, <2>1 DEF WriteNumber, ReadNumber
<1>8. CASE \E t \in Threads : WrAdv(t) \/ WrHelp(t)
  <2>1. /\ UNCHANGED <<read_index, head, tail>>
        /\ Current(write_index, tail) => Current(write_index', tail)
    BY <1>8, WriteAdvance
  <2> DEFINE x == NumberOf(write_index', tail)
  <2>2. /\ x \in Int /\ (x = tail \/ x = tail - 1)
        /\ Current(write_index', tail) => x = tail
    BY <1>1, <2>1, Numbered
  <2>3. /\ (WriteNumber = tail \/ WriteNumber = tail - 1)
        /\ Current(write_index, tail) \/ WriteNumber = tail - 1
    <3>1. OneBehind(write_index, tail) => WriteNumber = tail - 1
      BY <1>1, BaseOf DEF OneBehind, WriteNumber, NumberOf
    <3> QED
      BY <1>1, <3>1, NumbersNow
  <2> HIDE DEF x
  <2>4. WriteNumber <= x
    BY <1>1, <1>2, <2>1, <2>2, <2>3
  <2>5. WriteNumber' = x /\ ReadNumber' = NumberOf(read_index', head)
    BY <2>1 DEF x, WriteNumber, ReadNumber
  <2> QED
    BY <2>1, <2>4, <2>5 DEF ReadNumber
<1>9. CASE \E t \in Threads : RdAdv(t) \/ RdHelp(t)
  <2>1. UNCHANGED <<write_index, head, tail>>
    BY <1>9, ReadAdvance
  <2> QED
    BY <1>2, <2>1 DEF WriteNumber, ReadNumber
<1> QED
  BY <1>3, <1>6, <1>7, <1>8, <1>9, IndexSteps

(* The window of lengths seen only widens.                                 *)
LEMMA Widened ==
  ASSUME NEW n \in Int, NEW l \in Int, NEW m \in Int
  PROVE  /\ (IF n < l THEN n ELSE l) \in Int /\ (IF n > m THEN n ELSE m) \in Int
         /\ (IF n < l THEN n ELSE l) <= n /\ (IF n < l THEN n ELSE l) <= l
         /\ n <= (IF n > m THEN n ELSE m) /\ m <= (IF n > m THEN n ELSE m)
OBVIOUS

(* A step of the queue is added to the history of the observer's call.     *)
LEMMA WatchedStep ==
  ASSUME IInv', ObsOK, Watched
  PROVE  /\ ObsOK'
         /\ \A f \in {"at", "read", "w", "r", "order", "size"} : obs'[f] = obs[f]
         /\ obs.at # "idle" =>
              /\ Length' \in Int /\ obs'.least <= Length' /\ Length' <= obs'.most
              /\ obs'.least <= obs.least /\ obs.most <= obs'.most
              /\ obs'.still => obs.still /\ read_index' = read_index
<1> DEFINE n == tail' - head'
<1>1. n \in Int /\ Length' = n
  BY DEF IInv, TypeOK, Length
<1> HIDE DEF n
<1>2. CASE obs.at = "idle"
  BY <1>2 DEF Watched, ObsOK
<1>3. CASE obs.at # "idle"
  <2> DEFINE l == IF n < obs.least THEN n ELSE obs.least
             m == IF n > obs.most THEN n ELSE obs.most
             s == obs.still /\ read_index' = read_index
  <2>1. obs.least \in Int /\ obs.most \in Int
    BY DEF ObsOK
  <2>2. /\ l \in Int /\ m \in Int /\ l <= n /\ n <= m
        /\ l <= obs.least /\ obs.most <= m
    BY <1>1, <2>1, Widened
  <2>3. s \in BOOLEAN
    OBVIOUS
  <2>4. obs' = [obs EXCEPT !.least = l, !.most = m, !.still = s]
    BY <1>3 DEF Watched, n
  <2> HIDE DEF l, m
  <2>5. /\ obs'.least = l /\ obs'.most = m /\ obs'.still = s
        /\ \A f \in {"at", "read", "w", "r", "order", "size"} : obs'[f] = obs[f]
    BY <2>4 DEF ObsOK
  <2>6. ObsOK'
    BY <2>2, <2>3, <2>4 DEF ObsOK
  <2> QED
    BY <1>1, <2>2, <2>5, <2>6
<1> QED
  BY <1>2, <1>3

LEMMA SightQueue ==
  ASSUME NoAba, IInv, IInv', ObsOK, Sight, [Next]_vars, Watched
  PROVE  Sight'
<1> SUFFICES ASSUME obs'.at # "idle", obs'.still
             PROVE  Sight'
  BY DEF Sight
<1>1. \A f \in {"at", "read", "w", "r", "order", "size"} : obs'[f] = obs[f]
  BY WatchedStep
<1>2. /\ obs'.at = obs.at /\ obs'.read = obs.read /\ obs'.w = obs.w
      /\ obs'.r = obs.r /\ obs'.order = obs.order
  BY <1>1
<1>3. /\ obs.still /\ read_index' = read_index /\ ObsOK'
      /\ Length' \in Int /\ obs'.least <= Length' /\ Length' <= obs'.most
      /\ obs'.least <= obs.least /\ obs.most <= obs'.most
  BY <1>2, WatchedStep
<1>4. /\ ReadNumber' = ReadNumber /\ WriteNumber <= WriteNumber'
      /\ tail' = tail \/ tail' = tail + 1
  BY <1>3, NumbersMove
<1>5. /\ WriteNumber' \in Int /\ write_index' = Wrap(WriteNumber')
      /\ WriteNumber' < ReadNumber + R
  BY <1>4, NumbersNext
<1> DEFINE h == ReadNumber
           v == WriteNumber
           u == WriteNumber'
           l == obs.least
           m == obs.most
           l2 == obs'.least
           m2 == obs'.most
           wi2 == write_index'
           tl2 == tail'
<1>6. /\ h \in Int /\ v \in Int /\ u \in Int /\ v <= u /\ u < h + R
      /\ l \in Int /\ m \in Int /\ l2 \in Int /\ m2 \in Int /\ l2 <= l /\ m <= m2
      /\ tail \in Int /\ (tl2 = tail \/ tl2 = tail + 1)
      /\ (v = tail \/ v = tail - 1) /\ wi2 = Wrap(u)
      /\ write_index = Wrap(v) /\ read_index = Wrap(h)
  BY <1>3, <1>4, <1>5, NumbersNow, Numbers DEF ObsOK
<1>7. /\ obs.at # "index" => obs.read = read_index
      /\ obs.at \in {"compare", "subtract"} => h < tail
      /\ obs.w # Unread =>
           \E x \in Int : /\ h <= x /\ x <= v /\ l - 1 <= x - h /\ x - h <= m + 1
                          /\ obs.w = Wrap(x)
      /\ obs.r # Unread => obs.r = read_index
      /\ obs.at = "subtract" /\ ~obs.order =>
           write_index < read_index /\ (obs.w # Unread => obs.w < read_index)
  BY <1>2, <1>3 DEF Sight, Plausible
<1> HIDE DEF h, v, u, l, m, l2, m2, wi2, tl2
<1>8. obs.at \in {"compare", "subtract"} => h < tl2
  BY <1>6, <1>7
<1>9. obs.w # Unread =>
        \E x \in Int : /\ h <= x /\ x <= u /\ l2 - 1 <= x - h /\ x - h <= m2 + 1
                       /\ obs.w = Wrap(x)
  <2> SUFFICES ASSUME obs.w # Unread
               PROVE  \E x \in Int : /\ h <= x /\ x <= u /\ l2 - 1 <= x - h
                                     /\ x - h <= m2 + 1 /\ obs.w = Wrap(x)
    OBVIOUS
  <2>1. PICK x \in Int : /\ h <= x /\ x <= v /\ l - 1 <= x - h /\ x - h <= m + 1
                         /\ obs.w = Wrap(x)
    BY <1>7
  <2>2. /\ h <= x /\ x <= u /\ l2 - 1 <= x - h /\ x - h <= m2 + 1
    BY <1>6, <2>1
  <2> QED
    BY <2>1, <2>2
<1>10. ASSUME obs.at = "subtract", ~obs.order
       PROVE  wi2 < read_index /\ (obs.w # Unread => obs.w < read_index)
  <2>1. h < tail /\ Wrap(v) < Wrap(h)
    BY <1>6, <1>7, <1>10
  <2>2. h <= v
    BY <1>6, <2>1
  <2>3. Wrap(u) < Wrap(h)
    BY <1>6, <2>1, <2>2, StaysWrapped
  <2> QED
    BY <1>6, <1>7, <1>10, <2>3
<1>11. /\ obs'.at # "index" => obs'.read = read_index'
       /\ obs'.at \in {"compare", "subtract"} => ReadNumber' < tail'
       /\ obs'.w # Unread => \E x \in Int : Plausible(x)' /\ obs'.w = Wrap(x)
       /\ obs'.r # Unread => obs'.r = read_index'
       /\ obs'.at = "subtract" /\ ~obs'.order =>
            write_index' < read_index' /\ (obs'.w # Unread => obs'.w < read_index')
  <2>1. obs'.w # Unread => \E x \in Int : Plausible(x)' /\ obs'.w = Wrap(x)
    BY <1>2, <1>4, <1>9 DEF Plausible, h, u, l2, m2
  <2>2. obs'.at \in {"compare", "subtract"} => ReadNumber' < tail'
    BY <1>2, <1>4, <1>8 DEF h, tl2
  <2> QED
    BY <1>2, <1>3, <1>7, <1>10, <2>1, <2>2 DEF wi2
<1> QED
  BY <1>3, <1>11 DEF Sight

(* While the read index stands still and the queue was not empty when the  *)
(* call looked, the write index is at or after the read index, and as far  *)
(* from it as the queue is long, give or take one.                         *)
LEMMA WriteIsPlausible ==
  ASSUME IInv, ObsOK, Sight, obs.still, obs.at \in {"compare", "subtract"}
  PROVE  Plausible(WriteNumber)
<1>1. ReadNumber < tail /\ obs.least <= tail - head /\ tail - head <= obs.most
  BY DEF Sight, Length
<1>2. obs.least \in Int /\ obs.most \in Int
  BY DEF ObsOK
<1> QED
  BY <1>1, <1>2, NumbersNow, Numbers DEF Plausible

(* Behind in words once, behind until the read index moves.                *)
LEMMA WrappedWrite ==
  ASSUME IInv, NEW x \in Int, Plausible(x), Wrap(x) < read_index
  PROVE  write_index < read_index
BY NumbersNow, StaysWrapped DEF Plausible

LEMMA NotEmptyNow ==
  ASSUME IInv, array[Slot(read_index)].seq # EmptySeq(read_index)
  PROVE  ReadNumber < tail
<1>1. ASSUME ~(ReadNumber < tail)
      PROVE  FALSE
  <2>1. /\ ReadNumber = head /\ head = tail /\ head \in Int
        /\ head \in head .. head + N - 1 /\ ~(head < tail)
    BY <1>1, NumbersNow, Numbers
  <2>2. read_index = Wrap(head)
    BY <2>1, NumbersNow
  <2>3. Slot(Wrap(head)) = Slot(head) /\ EmptySeq(Wrap(head)) = EmptySeq(head)
    BY <2>1, Wrapped
  <2>4. array[Slot(head)].seq = EmptySeq(head)
    BY <2>1 DEF IInv, Window, Serves
  <2> QED
    BY <2>2, <2>3, <2>4
<1> QED
  BY <1>1

LEMMA ObsOKObserve == ASSUME IInv, ObsOK, Observe PROVE ObsOK'
<1>1. /\ Length \in Int /\ write_index \in Int /\ read_index \in Int /\ N \in Int
      /\ Unread \in Int
  BY Numbers, HalfRange DEF Length, IInv, TypeOK, Unread
<1>2. \A w \in Int, r \in Int : Wrap(w - r) \in Int /\ InOrder(w, r) \in BOOLEAN
  BY Wrapped, HalfRange DEF InOrder
<1> DEFINE T == [at : {"idle", "index", "entry", "compare", "subtract"},
                 read : Int, w : Int, r : Int, order : BOOLEAN, size : Int,
                 least : Int, most : Int, still : BOOLEAN]
<1>10. NoCall \in T
  BY <1>1 DEF NoCall
<1>11. \A o \in T, n \in Int :
        /\ [o EXCEPT !.size = n] \in T
        /\ [o EXCEPT !.at = "index", !.least = n, !.most = n] \in T
  OBVIOUS
<1>12. obs' \in T => ObsOK'
  BY DEF ObsOK
<1> HIDE DEF T
<1>3. \A n \in Int : Returns(n) => ObsOK'
  BY <1>10, <1>11, <1>12 DEF Returns
<1>4. \A w \in Int, r \in Int : Operands(w, r) => ObsOK'
  <2> SUFFICES ASSUME NEW w \in Int, NEW r \in Int, Operands(w, r)
               PROVE  ObsOK'
    OBVIOUS
  <2>1. Difference(obs.order, w, r) \in Int
    BY <1>1, <1>2 DEF Difference
  <2>2. CASE obs.at = "compare"
    BY <1>1, <1>2, <2>2 DEF Operands, ObsOK
  <2>3. CASE obs.at # "compare"
    BY <1>3, <2>1, <2>3 DEF Operands
  <2> QED
    BY <2>2, <2>3
<1>5. CASE SizeCall
  BY <1>1, <1>5, <1>10, <1>11, <1>12 DEF SizeCall
<1>6. CASE SizeIndex
  BY <1>1, <1>6 DEF SizeIndex, ObsOK
<1>7. CASE SizeEntry
  BY <1>3, <1>7 DEF SizeEntry, ObsOK
<1>8. CASE SizeWrite
  BY <1>1, <1>4, <1>8 DEF SizeWrite, ObsOK
<1>9. CASE SizeRead
  BY <1>1, <1>4, <1>9 DEF SizeRead, ObsOK
<1> QED
  BY <1>5, <1>6, <1>7, <1>8, <1>9 DEF Observe

LEMMA SightObserve == ASSUME IInv, ObsOK, Sight, Observe PROVE Sight'
<1> SUFFICES ASSUME obs'.at # "idle", obs'.still
             PROVE  Sight'
  BY DEF Sight
<1>1. /\ UNCHANGED vars /\ ReadNumber' = ReadNumber /\ WriteNumber' = WriteNumber
      /\ read_index' = read_index /\ write_index' = write_index
      /\ Length' = Length /\ tail' = tail
  BY DEF Observe, vars, ReadNumber, WriteNumber, Length
<1> DEFINE Knows(o) ==
      /\ o.least <= Length /\ Length <= o.most
      /\ o.at # "index" => o.read = read_index
      /\ o.at \in {"compare", "subtract"} => ReadNumber < tail
      /\ o.w # Unread => \E x \in Int : /\ ReadNumber <= x /\ x <= WriteNumber
                                        /\ o.least - 1 <= x - ReadNumber
                                        /\ x - ReadNumber <= o.most + 1
                                        /\ o.w = Wrap(x)
      /\ o.r # Unread => o.r = read_index
      /\ o.at = "subtract" /\ ~o.order =>
           write_index < read_index /\ (o.w # Unread => o.w < read_index)
<1>2. obs.at # "idle" /\ obs.still => Knows(obs)
  BY DEF Sight, Plausible
<1>3. Knows(obs') => Sight'
  BY <1>1 DEF Sight, Plausible
<1>4. \A n : ~Returns(n)
  BY DEF Returns, NoCall
<1>5. CASE SizeCall
  <2>1. obs' = [NoCall EXCEPT !.at = "index", !.least = Length, !.most = Length]
    BY <1>5 DEF SizeCall
  <2>2. /\ obs'.least = Length /\ obs'.most = Length /\ obs'.at = "index"
        /\ obs'.w = Unread /\ obs'.r = Unread
    BY <2>1 DEF NoCall
  <2>3. Length \in Int
    BY Numbers DEF Length
  <2>4. Length <= Length
    BY <2>3
  <2> QED
    BY <1>3, <2>2, <2>4
<1>6. CASE SizeIndex
  <2>1. obs.at = "index" /\ obs' = [obs EXCEPT !.at = "entry", !.read = read_index]
    BY <1>6 DEF SizeIndex
  <2>2. /\ obs'.at = "entry" /\ obs'.read = read_index /\ obs'.w = obs.w
        /\ obs'.r = obs.r /\ obs'.least = obs.least /\ obs'.most = obs.most
        /\ obs'.still = obs.still
    BY <2>1 DEF ObsOK
  <2>3. Knows(obs)
    BY <1>2, <2>1, <2>2
  <2> QED
    BY <1>3, <2>2, <2>3
<1>7. CASE SizeEntry
  <2>1. /\ obs.at = "entry" /\ obs' = [obs EXCEPT !.at = "compare"]
        /\ array[Slot(obs.read)].seq # EmptySeq(obs.read)
    BY <1>4, <1>7 DEF SizeEntry
  <2>2. /\ obs'.at = "compare" /\ obs'.read = obs.read /\ obs'.w = obs.w
        /\ obs'.r = obs.r /\ obs'.least = obs.least /\ obs'.most = obs.most
        /\ obs'.still = obs.still
    BY <2>1 DEF ObsOK
  <2>3. Knows(obs)
    BY <1>2, <2>1, <2>2
  <2>4. ReadNumber < tail
    BY <2>1, <2>3, NotEmptyNow
  <2> HIDE DEF Knows
  <2>5. Knows(obs) => Knows(obs')
    BY <2>1, <2>2, <2>4 DEF Knows
  <2> QED
    BY <1>3, <2>3, <2>5
<1>8. CASE SizeWrite \/ SizeRead
  <2>1. obs.at \in {"compare", "subtract"}
    BY <1>8 DEF SizeWrite, SizeRead
  <2>2. \/ obs.r = Unread /\ obs' = [obs EXCEPT !.w = write_index]
        \/ obs.w = Unread /\ obs' = [obs EXCEPT !.r = read_index]
        \/ obs.r # Unread /\ Operands(write_index, obs.r)
        \/ obs.w # Unread /\ Operands(obs.w, read_index)
    BY <1>8 DEF SizeWrite, SizeRead
  <2>3. obs.still
    BY <2>2, <1>4 DEF Operands, ObsOK
  <2>4. Knows(obs) /\ Plausible(WriteNumber)
    BY <1>2, <2>1, <2>3, WriteIsPlausible
  <2> HIDE DEF Knows
  <2>5. CASE obs.r = Unread /\ obs' = [obs EXCEPT !.w = write_index]
    <3>1. /\ obs'.w = write_index /\ obs'.at = obs.at /\ obs'.read = obs.read
          /\ obs'.r = obs.r /\ obs'.least = obs.least /\ obs'.most = obs.most
          /\ obs'.order = obs.order
      BY <2>5 DEF ObsOK
    <3>2. write_index = Wrap(WriteNumber) /\ WriteNumber \in Int
      BY NumbersNow
    <3>3. WriteNumber <= WriteNumber
      BY <3>2
    <3>4. Knows(obs')
      BY <2>4, <3>1, <3>2, <3>3 DEF Knows, Plausible
    <3> QED
      BY <1>3, <3>4
  <2>6. CASE obs.w = Unread /\ obs' = [obs EXCEPT !.r = read_index]
    <3>1. /\ obs'.r = read_index /\ obs'.at = obs.at /\ obs'.read = obs.read
          /\ obs'.w = obs.w /\ obs'.least = obs.least /\ obs'.most = obs.most
          /\ obs'.order = obs.order
      BY <2>6 DEF ObsOK
    <3>2. Knows(obs')
      BY <2>4, <3>1 DEF Knows
    <3> QED
      BY <1>3, <3>2
  <2>7. ASSUME NEW w, NEW r, Operands(w, r), ~InOrder(w, r) => write_index < read_index
        PROVE  Sight'
    <3>1. obs' = [obs EXCEPT !.at = "subtract", !.order = InOrder(w, r),
                             !.w = Unread, !.r = Unread]
      BY <1>4, <2>7 DEF Operands
    <3>2. /\ obs'.at = "subtract" /\ obs'.order = InOrder(w, r) /\ obs'.w = Unread
          /\ obs'.r = Unread /\ obs'.read = obs.read
          /\ obs'.least = obs.least /\ obs'.most = obs.most
      BY <3>1 DEF ObsOK
    <3>3. Knows(obs')
      BY <2>1, <2>4, <2>7, <3>2 DEF Knows
    <3> QED
      BY <1>3, <3>3
  <2>8. CASE obs.r # Unread /\ Operands(write_index, obs.r)
    <3>1. /\ obs.r = read_index /\ write_index \in Int /\ read_index \in Int
      BY <2>4, <2>8 DEF Knows, IInv, TypeOK
    <3>2. ~InOrder(write_index, obs.r) => write_index < read_index
      BY <3>1 DEF InOrder
    <3> QED
      BY <2>7, <2>8, <3>2
  <2>9. CASE obs.w # Unread /\ Operands(obs.w, read_index)
    <3>1. PICK x \in Int : /\ ReadNumber <= x /\ x <= WriteNumber
                           /\ obs.least - 1 <= x - ReadNumber
                           /\ x - ReadNumber <= obs.most + 1
                           /\ obs.w = Wrap(x)
      BY <2>4, <2>9 DEF Knows
    <3>2. obs.w \in Int /\ read_index \in Int
      BY DEF ObsOK, IInv, TypeOK
    <3>3. ~InOrder(obs.w, read_index) => obs.w < read_index
      BY <3>2 DEF InOrder
    <3>4. ~InOrder(obs.w, read_index) => write_index < read_index
      BY <3>1, <3>3, WrappedWrite DEF Plausible
    <3> QED
      BY <2>7, <2>9, <3>4
  <2> QED
    BY <2>2, <2>5, <2>6, <2>8, <2>9
<1> QED
  BY <1>5, <1>6, <1>7, <1>8 DEF Observe

(* What the second pair of loads gives, one operand of which is the read   *)
(* index and the other a write index loaded during the call.               *)
LEMMA DifferenceNear ==
  ASSUME IInv, ObsOK, Sight, obs.still, obs.at = "subtract",
         NEW x \in Int, Plausible(x),
         NEW n, n = Difference(obs.order, Wrap(x), read_index),
         ~obs.order => Wrap(x) < read_index
  PROVE  LET Near(k) == obs.least - 1 <= k /\ k <= obs.most + 1
         IN \/ Near(n)
            \/ ~obs.order /\ write_index < read_index /\ Near(n + R - N)
<1> DEFINE h == ReadNumber
           a == Wrap(x)
           b == Wrap(h)
           l == obs.least
           m == obs.most
<1>1. /\ h \in Int /\ b = read_index /\ R \in Int /\ N \in Int
      /\ l \in Int /\ m \in Int
      /\ h <= x /\ x < h + R /\ l - 1 <= x - h /\ x - h <= m + 1
  BY NumbersNow, HalfRange DEF Plausible, ObsOK
<1> HIDE DEF h, l, m
<1>2. /\ a \in Int /\ b \in Int /\ Wrap(a - b) = x - h
      /\ a = IF b + (x - h) < R THEN b + (x - h) ELSE b + (x - h) - R
  <2>1. h \in Int /\ h <= x /\ x < h + R
    BY <1>1
  <2>2. /\ a \in 0 .. R - 1 /\ b \in 0 .. R - 1 /\ Wrap(a - b) = x - h
        /\ a = IF b + (x - h) < R THEN b + (x - h) ELSE b + (x - h) - R
    BY <2>1, WordDistance, Zenon
  <2> HIDE DEF a, b
  <2> QED
    BY <1>1, <2>2
<1>3. /\ n = IF obs.order THEN Wrap(a - b) ELSE a + N - b
      /\ ~obs.order => a < b /\ write_index < read_index
  BY <1>1, WrappedWrite DEF Difference, Sight
<1> HIDE DEF a, b
<1>4. CASE obs.order
  <2>1. l - 1 <= n /\ n <= m + 1
    BY <1>1, <1>2, <1>3, <1>4
  <2> QED
    BY <2>1 DEF l, m
<1>5. CASE ~obs.order
  <2>1. a = b + (x - h) - R /\ n = a + N - b
    BY <1>1, <1>2, <1>3, <1>5
  <2>2. n + R - N = x - h
    BY <1>1, <1>2, <2>1
  <2> QED
    BY <1>1, <1>3, <1>5, <2>2 DEF l, m
<1> QED
  BY <1>4, <1>5

LEMMA ReturnsNear ==
  ASSUME NoAba, IInv, ObsOK, Sight, Observe,
         obs.at # "idle", obs'.at = "idle", obs.still
  PROVE  LET Near(k) == obs.least - 1 <= k /\ k <= obs.most + 1
         IN \/ Near(obs'.size)
            \/ ~obs.order /\ write_index < read_index /\ Near(obs'.size + R - N)
<1>1. ASSUME NEW n, Returns(n)
      PROVE  obs'.size = n
  BY <1>1 DEF Returns, NoCall
<1>2. \/ obs.at = "entry" /\ Returns(0)
           /\ array[Slot(obs.read)].seq = EmptySeq(obs.read)
      \/ /\ obs.at = "subtract" /\ obs.r # Unread
         /\ Returns(Difference(obs.order, write_index, obs.r))
      \/ /\ obs.at = "subtract" /\ obs.w # Unread
         /\ Returns(Difference(obs.order, obs.w, read_index))
  <2>1. ~SizeCall /\ ~SizeIndex
    <3>1. ~SizeCall
      BY DEF SizeCall
    <3>2. ASSUME SizeIndex
          PROVE  FALSE
      <4>1. obs' = [obs EXCEPT !.at = "entry", !.read = read_index]
        BY <3>2 DEF SizeIndex
      <4>2. obs'.at = "entry"
        BY <4>1 DEF ObsOK
      <4> QED
        BY <4>2
    <3> QED
      BY <3>1, <3>2
  <2>2. CASE SizeEntry
    BY <2>2 DEF SizeEntry, ObsOK
  <2>3. ASSUME NEW w, NEW r, Operands(w, r)
        PROVE  obs.at # "compare" /\ Returns(Difference(obs.order, w, r))
    <3>1. ASSUME obs.at = "compare"
          PROVE  FALSE
      <4> DEFINE o == InOrder(w, r)
      <4> HIDE DEF o
      <4>1. obs' = [obs EXCEPT !.at = "subtract", !.order = o,
                               !.w = Unread, !.r = Unread]
        BY <2>3, <3>1 DEF Operands, o
      <4> QED
        BY <4>1 DEF ObsOK
    <3> QED
      BY <2>3, <3>1 DEF Operands
  <2>4. CASE SizeWrite
    BY <2>3, <2>4 DEF SizeWrite, ObsOK
  <2>5. CASE SizeRead
    BY <2>3, <2>5 DEF SizeRead, ObsOK
  <2> QED
    BY <2>1, <2>2, <2>4, <2>5 DEF Observe
<1>3. /\ obs.at # "index" => obs.read = read_index
      /\ obs.least <= Length /\ Length <= obs.most
      /\ obs.w # Unread => \E x \in Int : Plausible(x) /\ obs.w = Wrap(x)
      /\ obs.r # Unread => obs.r = read_index
      /\ obs.at = "subtract" /\ ~obs.order =>
           write_index < read_index /\ (obs.w # Unread => obs.w < read_index)
  BY DEF Sight
<1>4. CASE /\ obs.at = "entry" /\ Returns(0)
           /\ array[Slot(obs.read)].seq = EmptySeq(obs.read)
  <2> DEFINE b == ReadNumber
  <2>1. /\ b \in Int /\ b <= head /\ head - b <= MaxLag /\ read_index = Wrap(b)
        /\ Counts /\ Window
    BY NumbersNow, Numbers DEF IInv
  <2> HIDE DEF b
  <2>2. head = tail
    BY <1>3, <1>4, <2>1, ReadLookup
  <2>3. Length = 0 /\ obs.least \in Int /\ obs.most \in Int /\ obs'.size = 0
    BY <1>1, <1>4, <2>2, Numbers DEF Length, ObsOK
  <2>4. obs.least - 1 <= obs'.size /\ obs'.size <= obs.most + 1
    BY <1>3, <2>3
  <2> QED
    BY <2>4
<1>5. CASE /\ obs.at = "subtract" /\ obs.r # Unread
           /\ Returns(Difference(obs.order, write_index, obs.r))
  <2>1. Plausible(WriteNumber)
    BY <1>5, WriteIsPlausible
  <2>2. WriteNumber \in Int /\ write_index = Wrap(WriteNumber)
    BY NumbersNow
  <2>3. obs'.size = Difference(obs.order, Wrap(WriteNumber), read_index)
    BY <1>1, <1>3, <1>5, <2>2
  <2>4. ~obs.order => Wrap(WriteNumber) < read_index
    BY <1>3, <1>5, <2>2
  <2> QED
    BY <1>5, <2>1, <2>2, <2>3, <2>4, DifferenceNear
<1>6. CASE /\ obs.at = "subtract" /\ obs.w # Unread
           /\ Returns(Difference(obs.order, obs.w, read_index))
  <2>1. PICK x \in Int : Plausible(x) /\ obs.w = Wrap(x)
    BY <1>3, <1>6
  <2>2. obs'.size = Difference(obs.order, Wrap(x), read_index)
    BY <1>1, <1>6, <2>1
  <2>3. ~obs.order => Wrap(x) < read_index
    BY <1>3, <1>6, <2>1
  <2> QED
    BY <1>6, <2>1, <2>2, <2>3, DifferenceNear
<1> QED
  BY <1>2, <1>4, <1>5, <1>6

(* Every step is one of the observer, one the observer watches, or one     *)
(* that leaves it alone: the destructor only runs after the last call.     *)
LEMMA ObserverSteps ==
  ASSUME [PNext]_pvars
  PROVE  \/ Observe
         \/ [Next]_vars /\ Watched
         \/ UNCHANGED <<vars, obs>>
         \/ obs.at = "idle" /\ UNCHANGED obs
<1>1. ASSUME NEW t \in Threads, PointerStep(t)
      PROVE  \/ [Next]_vars /\ Watched
             \/ UNCHANGED <<vars, obs>>
             \/ obs.at = "idle" /\ UNCHANGED obs
  BY <1>1, StepInside
  DEF PointerStep, Make, Drop, PushCall, PopCall, Inside, PushReturns,
      PopReturns, ClosePop, CloseDestroy, CloseEnd
<1> QED
  BY <1>1 DEF PNext, pvars, Closed

LEMMA SightStep ==
  ASSUME NoAba, IInv, IInv', ObsOK, Sight, [PNext]_pvars
  PROVE  ObsOK' /\ Sight'
<1>1. CASE Observe
  BY <1>1, ObsOKObserve, SightObserve
<1>2. CASE [Next]_vars /\ Watched
  BY <1>2, WatchedStep, SightQueue
<1>3. CASE UNCHANGED <<vars, obs>>
  BY <1>3 DEF vars, ObsOK, Sight, Plausible, ReadNumber, WriteNumber, Length
<1>4. CASE obs.at = "idle" /\ UNCHANGED obs
  BY <1>4 DEF ObsOK, Sight
<1> QED
  BY <1>1, <1>2, <1>3, <1>4, ObserverSteps

(* README: size() is "not guaranteed".  As long as no consumer moves the   *)
(* read index during the call it is one off a length of the queue during   *)
(* the call at most, or short by the index range less the capacity once    *)
(* the write index has wrapped around, for any capacity, any index width   *)
(* and any number of producers.                                            *)
THEOREM SizeIsNear == ASSUME NoAba PROVE PSpec => SizeNear
<1>1. PInit => ObsOK /\ Sight
  BY DEF PInit, NoCall, ObsOK, Sight, Unread
<1>2. IInv /\ IInv' /\ ObsOK /\ Sight /\ [PNext]_pvars => ObsOK' /\ Sight'
  BY SightStep
<1>3. IInv /\ ObsOK /\ Sight /\ [PNext]_pvars =>
        [obs.at # "idle" /\ obs'.at = "idle" /\ obs.still =>
           LET Near(n) == obs.least - 1 <= n /\ n <= obs.most + 1
           IN \/ Near(obs'.size)
              \/ ~obs.order /\ write_index < read_index /\ Near(obs'.size + R - N)
        ]_obs
  <2> SUFFICES ASSUME IInv, ObsOK, Sight, [PNext]_pvars,
                      obs.at # "idle", obs'.at = "idle", obs.still
               PROVE  LET Near(n) == obs.least - 1 <= n /\ n <= obs.most + 1
                      IN \/ Near(obs'.size)
                         \/ /\ ~obs.order /\ write_index < read_index
                            /\ Near(obs'.size + R - N)
    OBVIOUS
  <2>1. Observe
    <3>1. CASE Watched
      BY <3>1 DEF Watched, ObsOK
    <3> QED
      BY <3>1, ObserverSteps
  <2> QED
    BY <2>1, ReturnsNear
<1> QED
  BY <1>1, <1>2, <1>3, QueueInside, Safety, PTL DEF PSpec, SizeNear
==============================================================================
