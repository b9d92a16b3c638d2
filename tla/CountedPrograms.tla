--------------------------- MODULE CountedPrograms ---------------------------
(***************************************************************************)
(* The programs whose consumers know when to stop: example1.cpp,           *)
(* example2.cpp and the test HashInputOutput count their pops ("counted"), *)
(* the reader of QTiming::run stops at an element 0 ("timing").  out is    *)
(* what the consumers have put into their hash or sum.                     *)
(***************************************************************************)
EXTENDS HarnessQueue

Last == Items + 1  \* the number of the writer's last push, the 0

CSpawn == /\ Spawn(Producers \cup Consumers, "main", "join")
          /\ UNCHANGED <<channel, flags, counts, reports, hashing>>

(* QTiming first fills and empties the queue four times by itself.         *)
CWarmUp == /\ behind' \in BOOLEAN
           /\ Spawn(Producers \cup Consumers, "main", "join")
           /\ UNCHANGED <<queue, flags, counts, reports, hashing>>

CJoin == Join("join") /\ UNCHANGED <<channel, flags, counts, reports, hashing>>

Quota == IF program = "timing" THEN Last ELSE Items

CPush(p) == /\ pc[p] = "start" /\ sent[p] < Quota
            /\ Push(p, Element(p, IF sent[p] + 1 = Last THEN 0 ELSE sent[p] + 1))
            /\ UNCHANGED <<pc, flags, reports, hashing>>

CPushed(p) == /\ sent[p] = Quota
              /\ Go(p, "start", "done")
              /\ UNCHANGED <<channel, flags, counts, reports, hashing>>

(* The last pop: the reader of QTiming looks at the element, the others at *)
(* their count.                                                            *)
LastPop(c) == IF program = "timing" THEN Head(queue).n = 0 ELSE got[c] + 1 = Items

CPop(c) == /\ pc[c] = "start"
           /\ Pop(c)
           /\ out' = [out EXCEPT ![Head(queue).from] = Append(@, Head(queue).n)]
           /\ IF LastPop(c) THEN Go(c, "start", "done") ELSE UNCHANGED pc
           /\ UNCHANGED <<flags, reports, held, lock, hash_count>>

CPopFails(c) == /\ pc[c] = "start"
                /\ PopFails
                /\ UNCHANGED <<pc, flags, counts, reports, hashing>>
------------------------------------------------------------------------------
CMain == \/ program = "counted" /\ CSpawn
         \/ program = "timing" /\ CWarmUp
         \/ CJoin
CProduce(p) == CPush(p) \/ CPushed(p)
CConsume(c) == CPop(c) \/ CPopFails(c)

CNext == CMain \/ (\E p \in Producers : CProduce(p))
               \/ (\E c \in Consumers : CConsume(c))
==============================================================================
