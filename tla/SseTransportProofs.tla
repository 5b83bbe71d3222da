------------------------- MODULE SseTransportProofs -------------------------
(***************************************************************************)
(* Proofs about SseTransport for any sets of connections, posts and ids.   *)
(***************************************************************************)
EXTENDS SseTransport, SequenceTheorems, TLAPS

----------------------------------------------------------------------------
(* Type correctness.  It is inductive once two facts the code relies on    *)
(* are added: a thread past randomSessionId has an id, and a thread in the *)
(* inner loop has a message to write (pending.front() is defined).         *)
HasId    == \A c \in Conns : pc[c] \notin {"idle", "draw", "done"} => sid[c] \in Ids
HasBatch == \A c \in Conns : pc[c] = "write" => pending[c] # <<>>
TypeInv  == Typed /\ NeverNull /\ HasId /\ HasBatch

LEMMA TypeInit == Init => TypeInv
BY SseAssumption DEF Init, TypeInv, Typed, NeverNull, HasId, HasBatch, PumpPoints, PostPoints,
                     PeerStates, Drawing, Registered, Pumping

LEMMA ExceptType ==
    ASSUME NEW D, NEW S, NEW f \in [D -> S], NEW x, NEW v \in S
    PROVE  [f EXCEPT ![x] = v] \in [D -> S]
OBVIOUS

(* What the pump step needs to know about the labels.  *)
LEMMA Labels ==
    /\ PumpPoints = {"idle", "draw", "store", "create", "head", "find", "endpoint", "wait",
                     "asleep", "keepalive", "write", "remove", "done"}
    /\ Pumping = {"wait", "asleep", "keepalive", "write"}
    /\ Registered = {"head", "find", "endpoint", "remove", "wait", "asleep", "keepalive", "write"}
    /\ PostPoints = {"idle", "handle", "enqueue", "notify", "done"}
BY DEF PumpPoints, PostPoints, Drawing, Registered, Pumping

(* The push loop: a sleeper leaves with a whole non-empty queue, or with nothing. *)
LEMMA TypedWait ==
    ASSUME TypeInv, NEW c \in Conns, Wait(c) \/ Timeout(c)
    PROVE  TypeInv'
<1> USE DEF Goto
<1>1. /\ obj[c] \in Conns
      /\ pc[c] \in {"wait", "asleep"}
      /\ queue \in [Conns -> Seq(Posts)]
      /\ pending \in [Conns -> Seq(Posts)]
      /\ pc \in [Conns -> PumpPoints]
      BY Labels DEF TypeInv, Typed, NeverNull, Wait, Timeout
<1>2. PICK l \in {"remove", "asleep", "keepalive", "write"} : pc' = [pc EXCEPT ![c] = l]
      BY DEF Wait, Timeout, TakeQueue
<1>3. UNCHANGED <<rng, sessions, closed, sid, obj, sent, peer, ppc, ptr, answers>>
      BY DEF Wait, Timeout, postVars
<1>4. \/ /\ l # "write"
         /\ UNCHANGED <<queue, pending>>
      \/ /\ l = "write"
         /\ queue[obj[c]] # <<>>
         /\ pending' = [pending EXCEPT ![c] = queue[obj[c]]]
         /\ queue' = [queue EXCEPT ![obj[c]] = <<>>]
  <2>1. pc'[c] = l
        BY <1>1, <1>2
  <2> QED
        BY <1>1, <2>1 DEF Wait, Timeout, TakeQueue, HasData
<1>5. queue' \in [Conns -> Seq(Posts)] /\ pending' \in [Conns -> Seq(Posts)]
  <2>1. CASE UNCHANGED <<queue, pending>>
        BY <1>1, <2>1
  <2>2. CASE /\ pending' = [pending EXCEPT ![c] = queue[obj[c]]]
             /\ queue' = [queue EXCEPT ![obj[c]] = <<>>]
    <3>1. <<>> \in Seq(Posts) /\ queue[obj[c]] \in Seq(Posts)
          BY <1>1
    <3> QED
          BY <1>1, <2>2, <3>1, ExceptType, Zenon
  <2> QED
        BY <1>4, <2>1, <2>2
<1>6. pc' \in [Conns -> PumpPoints]
      BY <1>1, <1>2, Labels
<1>7. Typed'
      BY <1>3, <1>5, <1>6 DEF TypeInv, Typed
<1>8. NeverNull'
      BY <1>1, <1>2, <1>3, Labels DEF TypeInv, NeverNull
<1>9. HasId'
      BY <1>1, <1>2, <1>3 DEF TypeInv, HasId
<1>10. HasBatch'
      BY <1>1, <1>2, <1>4 DEF TypeInv, HasBatch
<1> QED
      BY <1>7, <1>8, <1>9, <1>10 DEF TypeInv

(* The inner loop writes the head of a non-empty batch and keeps the tail. *)
LEMMA TypedWrite ==
    ASSUME TypeInv, NEW c \in Conns, WriteMessage(c)
    PROVE  TypeInv'
<1> USE DEF Goto
<1>1. /\ pc[c] = "write" /\ obj[c] \in Conns
      /\ pending[c] \in Seq(Posts) /\ pending[c] # <<>>
      /\ sent[c] \in Seq(Posts)
      /\ pending \in [Conns -> Seq(Posts)]
      /\ sent \in [Conns -> Seq(Posts)]
      /\ closed \in [Conns -> BOOLEAN]
      /\ pc \in [Conns -> PumpPoints]
      BY Labels DEF TypeInv, Typed, NeverNull, HasBatch, WriteMessage
<1>2. Head(pending[c]) \in Posts /\ Tail(pending[c]) \in Seq(Posts)
      BY <1>1, HeadTailProperties
<1>3. Append(sent[c], Head(pending[c])) \in Seq(Posts)
      BY <1>1, <1>2, AppendProperties
<1>4. UNCHANGED <<rng, sessions, queue, sid, obj, peer, ppc, ptr, answers>>
      BY DEF WriteMessage, postVars
<1>5. PICK l \in {"write", "wait", "remove"} :
         /\ pc' = [pc EXCEPT ![c] = l]
         /\ l = "write" => pending'[c] # <<>>
      BY DEF WriteMessage
<1>6. \/ /\ sent' = [sent EXCEPT ![c] = Append(sent[c], Head(pending[c]))]
         /\ pending' = [pending EXCEPT ![c] = Tail(pending[c])]
         /\ closed' = closed
      \/ /\ sent' = sent /\ pending' = pending
         /\ closed' = [closed EXCEPT ![obj[c]] = TRUE]
      BY DEF WriteMessage
<1>7. sent' \in [Conns -> Seq(Posts)]
      BY <1>1, <1>3, <1>6, ExceptType, Zenon
<1>8. pending' \in [Conns -> Seq(Posts)]
      BY <1>1, <1>2, <1>6, ExceptType, Zenon
<1>9. closed' \in [Conns -> BOOLEAN]
      BY <1>1, <1>6, ExceptType, Zenon
<1>10. pc' \in [Conns -> PumpPoints]
      BY <1>1, <1>5, Labels
<1>11. Typed'
      BY <1>4, <1>7, <1>8, <1>9, <1>10 DEF TypeInv, Typed
<1>12. NeverNull'
      BY <1>1, <1>4, <1>5, Labels DEF TypeInv, NeverNull
<1>13. HasId'
      BY <1>1, <1>4, <1>5 DEF TypeInv, HasId
<1>14. \A d \in Conns \ {c} : pending'[d] = pending[d] /\ pc'[d] = pc[d]
      BY <1>1, <1>5, <1>6
<1>15. HasBatch'
      BY <1>1, <1>5, <1>14 DEF TypeInv, HasBatch
<1> QED
      BY <1>11, <1>12, <1>13, <1>15 DEF TypeInv

(* The end of a stream drops its batch.  *)
LEMMA TypedEnd ==
    ASSUME TypeInv, NEW c \in Conns, EndStream(c), sessions' \in [Ids -> Conns \cup {None}],
           UNCHANGED <<rng, queue, closed, sid, sent, postVars>>
    PROVE  TypeInv'
<1>1. <<>> \in Seq(Posts) /\ pending \in [Conns -> Seq(Posts)]
      BY DEF TypeInv, Typed
<1>2. pending' \in [Conns -> Seq(Posts)]
      BY <1>1, ExceptType, Zenon DEF EndStream
<1>3. pc' \in [Conns -> PumpPoints] /\ pc' = [pc EXCEPT ![c] = "done"]
      BY Labels DEF EndStream, Goto, TypeInv, Typed
<1>4. /\ obj' \in [Conns -> Conns \cup {None}]
      /\ \A d \in Conns \ {c} : obj'[d] = obj[d] /\ pc'[d] = pc[d]
      /\ pc'[c] = "done"
      BY <1>3 DEF EndStream, Goto, TypeInv, Typed
<1>5. peer' \in [Conns -> PeerStates]
      BY DEF EndStream, TypeInv, Typed, PeerStates
<1>6. Typed'
      BY <1>2, <1>3, <1>4, <1>5 DEF TypeInv, Typed, postVars
<1>7. NeverNull'
      BY <1>4, Labels DEF TypeInv, NeverNull, postVars
<1>8. HasId'
      BY <1>4 DEF TypeInv, HasId
<1>9. \A d \in Conns \ {c} : pending'[d] = pending[d]
      BY <1>1 DEF EndStream
<1>10. HasBatch'
      BY <1>4, <1>9 DEF TypeInv, HasBatch
<1> QED
      BY <1>6, <1>7, <1>8, <1>10 DEF TypeInv

LEMMA TypedEnqueue ==
    ASSUME TypeInv, NEW p \in Posts, Enqueue(p)
    PROVE  TypeInv'
<1>1. /\ queue \in [Conns -> Seq(Posts)]
      /\ ptr[p] \in Conns /\ queue[ptr[p]] \in Seq(Posts)
      /\ queue' = [queue EXCEPT ![ptr[p]] = Append(queue[ptr[p]], p)]
      BY DEF TypeInv, Typed, NeverNull, Enqueue
<1>2. queue' \in [Conns -> Seq(Posts)]
      BY <1>1, AppendProperties, ExceptType, Zenon
<1>3. /\ ppc' \in [Posts -> PostPoints]
      /\ \A q \in Posts : ppc'[q] = IF q = p THEN "notify" ELSE ppc[q]
      /\ ppc[p] = "enqueue"
      BY DEF TypeInv, Typed, Enqueue, PostPoints
<1>4. UNCHANGED <<rng, sessions, closed, pc, sid, obj, pending, sent, peer, ptr, answers>>
      BY DEF Enqueue, pumpVars
<1>5. Typed'
      BY <1>2, <1>3, <1>4 DEF TypeInv, Typed
<1>6. NeverNull'
      BY <1>3, <1>4 DEF TypeInv, NeverNull
<1>7. HasId' /\ HasBatch'
      BY <1>4 DEF TypeInv, HasId, HasBatch
<1> QED
      BY <1>5, <1>6, <1>7 DEF TypeInv

LEMMA TypeNext == TypeInv /\ [Next]_vars => TypeInv'
<1> SUFFICES ASSUME TypeInv, [Next]_vars
             PROVE  TypeInv'
    OBVIOUS
<1> USE SseAssumption, Labels DEF Goto
<1>1. ASSUME NEW c \in Conns, Unauthorized(c) \/ Connect(c)
      PROVE  TypeInv'
  <2>1. /\ UNCHANGED <<rng, sessions, queue, closed, sid, obj, pending, sent, peer, ppc, ptr,
                       answers>>
        /\ pc' \in [Conns -> PumpPoints]
        /\ \A d \in Conns \ {c} : pc'[d] = pc[d]
        /\ pc'[c] \in {"draw", "done"}
        BY <1>1 DEF Unauthorized, Connect, TypeInv, Typed, postVars
  <2> QED
        BY <2>1 DEF TypeInv, Typed, NeverNull, HasId, HasBatch
<1>2. ASSUME NEW c \in Conns, ReadRng(c)
      PROVE  TypeInv'
  <2>1. /\ UNCHANGED <<rng, sessions, queue, closed, obj, pending, sent, peer, ppc, ptr, answers>>
        /\ pc' \in [Conns -> PumpPoints]
        /\ \A d \in Conns \ {c} : pc'[d] = pc[d] /\ sid'[d] = sid[d]
        /\ pc'[c] = "store" /\ sid'[c] \in Ids
        /\ sid' \in [Conns -> Ids \cup {None}]
        BY <1>2 DEF ReadRng, TypeInv, Typed, postVars
  <2> QED
        BY <2>1 DEF TypeInv, Typed, NeverNull, HasId, HasBatch
<1>3. ASSUME NEW c \in Conns, StoreRng(c)
      PROVE  TypeInv'
  <2>1. sid[c] \in Nat
        BY <1>3 DEF StoreRng, TypeInv, Typed, HasId
  <2>2. rng' \in Nat
        BY <1>3, <2>1 DEF StoreRng
  <2>3. /\ UNCHANGED <<sessions, queue, closed, sid, obj, pending, sent, peer, ppc, ptr, answers>>
        /\ pc' \in [Conns -> PumpPoints]
        /\ \A d \in Conns : pc'[d] = IF d = c THEN "create" ELSE pc[d]
        /\ sid[c] \in Ids
        BY <1>3 DEF StoreRng, TypeInv, Typed, HasId, postVars
  <2> QED
        BY <2>2, <2>3 DEF TypeInv, Typed, NeverNull, HasId, HasBatch
<1>4. ASSUME NEW c \in Conns, CreateSession(c)
      PROVE  TypeInv'
  <2>1. /\ UNCHANGED <<rng, queue, closed, sid, obj, pending, sent, peer, ppc, ptr, answers>>
        /\ sessions' \in [Ids -> Conns \cup {None}]
        /\ pc' \in [Conns -> PumpPoints]
        /\ \A d \in Conns : pc'[d] = IF d = c THEN "head" ELSE pc[d]
        /\ sid[c] \in Ids
        BY <1>4 DEF CreateSession, TypeInv, Typed, HasId, postVars
  <2> QED
        BY <2>1 DEF TypeInv, Typed, NeverNull, HasId, HasBatch
<1>5. ASSUME NEW c \in Conns, WriteHead(c) \/ WriteEndpoint(c) \/ WriteKeepalive(c)
      PROVE  TypeInv'
  <2>1. /\ UNCHANGED <<rng, sessions, queue, closed, sid, obj, pending, sent, peer, ppc, ptr,
                       answers>>
        /\ pc' \in [Conns -> PumpPoints]
        /\ \A d \in Conns \ {c} : pc'[d] = pc[d]
        /\ \/ pc[c] = "head" /\ pc'[c] = "find"
           \/ pc[c] \in {"endpoint", "keepalive"} /\ pc'[c] \in {"wait", "remove"}
        BY <1>5 DEF WriteHead, WriteEndpoint, WriteKeepalive, TypeInv, Typed, postVars
  <2> QED
        BY <2>1 DEF TypeInv, Typed, NeverNull, HasId, HasBatch
<1>6. ASSUME NEW c \in Conns, FindSession(c)
      PROVE  TypeInv'
  <2>1. sid[c] \in Ids /\ sessions[sid[c]] \in Conns \cup {None}
        BY <1>6 DEF FindSession, TypeInv, Typed, HasId
  <2>2. CASE sessions[sid[c]] = None
        BY <1>6, <2>2, TypedEnd DEF FindSession, TypeInv, Typed
  <2>3. CASE sessions[sid[c]] # None
    <3>1. /\ UNCHANGED <<rng, sessions, queue, closed, sid, pending, sent, peer, ppc, ptr, answers>>
          /\ pc' \in [Conns -> PumpPoints]
          /\ obj' \in [Conns -> Conns \cup {None}]
          /\ \A d \in Conns \ {c} : pc'[d] = pc[d] /\ obj'[d] = obj[d]
          /\ pc'[c] = "endpoint" /\ obj'[c] # None
          BY <1>6, <2>1, <2>3 DEF FindSession, TypeInv, Typed, postVars
    <3> QED
          BY <2>1, <3>1 DEF TypeInv, Typed, NeverNull, HasId, HasBatch
  <2>4. QED
        BY <2>2, <2>3
<1>7. ASSUME NEW c \in Conns, Wait(c) \/ Timeout(c)
      PROVE  TypeInv'
      BY <1>7, TypedWait
<1>8. ASSUME NEW c \in Conns, WriteMessage(c)
      PROVE  TypeInv'
      BY <1>8, TypedWrite
<1>9. ASSUME NEW c \in Conns, RemoveSession(c)
      PROVE  TypeInv'
  <2>1. sessions' \in [Ids -> Conns \cup {None}]
        BY <1>9 DEF RemoveSession, TypeInv, Typed
  <2> QED
        BY <1>9, <2>1, TypedEnd DEF RemoveSession
<1>10. ASSUME NEW p \in Posts,
              PostUnauthorized(p) \/ (\E i \in Ids : PostMessage(p, i)) \/ HandleMessage(p)
       PROVE  TypeInv'
  <2>1. UNCHANGED <<rng, sessions, queue, closed, pc, sid, obj, pending, sent, peer>>
        BY <1>10 DEF PostUnauthorized, PostMessage, HandleMessage, pumpVars
  <2>2. ppc' \in [Posts -> PostPoints]
        BY <1>10 DEF PostUnauthorized, PostMessage, HandleMessage, TypeInv, Typed
  <2>3. ptr' \in [Posts -> Conns \cup {None}]
        BY <1>10 DEF PostUnauthorized, PostMessage, HandleMessage, TypeInv, Typed
  <2>4. answers' \in [Posts -> BOOLEAN]
        BY <1>10 DEF PostUnauthorized, PostMessage, HandleMessage, TypeInv, Typed
  <2>5. NeverNull'
        BY <1>10, <2>1
        DEF PostUnauthorized, PostMessage, HandleMessage, TypeInv, Typed, NeverNull
  <2>6. Typed'
        BY <2>1, <2>2, <2>3, <2>4 DEF TypeInv, Typed
  <2> QED
        BY <2>1, <2>5, <2>6 DEF TypeInv, HasId, HasBatch
<1>11. ASSUME NEW p \in Posts, Enqueue(p)
       PROVE  TypeInv'
       BY <1>11, TypedEnqueue
<1>12. ASSUME NEW p \in Posts, NotifyAll(p)
       PROVE  TypeInv'
  <2>1. /\ UNCHANGED <<rng, sessions, queue, closed, sid, obj, pending, sent, peer, ptr, answers>>
        /\ pc' \in [Conns -> PumpPoints]
        /\ \A c \in Conns : pc'[c] = pc[c] \/ (pc[c] = "asleep" /\ pc'[c] = "wait")
        /\ ppc' \in [Posts -> PostPoints]
        /\ \A q \in Posts : ppc'[q] = IF q = p THEN "done" ELSE ppc[q]
        BY <1>12 DEF NotifyAll, TypeInv, Typed
  <2> QED
        BY <2>1 DEF TypeInv, Typed, NeverNull, HasId, HasBatch
<1>13. ASSUME NEW c \in Conns,
              PeerStalls(c) \/ PeerResumes(c) \/ PeerLeaves(c) \/ PeerReset(c)
       PROVE  TypeInv'
  <2>1. /\ UNCHANGED <<rng, sessions, queue, closed, pc, sid, obj, pending, sent, ppc, ptr, answers>>
        /\ peer' \in [Conns -> PeerStates]
        BY <1>13 DEF PeerStalls, PeerResumes, PeerLeaves, PeerReset, PeerStep, PeerStates,
                     TypeInv, Typed, pumpVars, postVars
  <2> QED
        BY <2>1 DEF TypeInv, Typed, NeverNull, HasId, HasBatch
<1>14. CASE UNCHANGED vars
       BY <1>14 DEF vars, pumpVars, postVars, TypeInv, Typed, NeverNull, HasId, HasBatch
<1> QED
       BY <1>1, <1>2, <1>3, <1>4, <1>5, <1>6, <1>7, <1>8, <1>9, <1>10, <1>11, <1>12, <1>13,
          <1>14
       DEF Next, PumpStep, PostStep, Finished

(* Every variable keeps its type, and neither a push loop nor a POST that  *)
(* found its session dereferences a null pointer.                          *)
THEOREM TypeCorrect == Spec => []TypeOK
<1>1. TypeInv => TypeOK
      BY DEF TypeInv, TypeOK
<1>2. QED
      BY <1>1, TypeInit, TypeNext, PTL DEF Spec

----------------------------------------------------------------------------
(* The session table.  Most steps leave the table, the ids and the session *)
(* pointers alone and move threads only inside the part of sseHandler that *)
(* holds a session: only the steps named in TableStep need a closer look.  *)
HasObj == Pumping \cup {"endpoint", "remove"}

Quiet ==
    /\ UNCHANGED <<rng, sessions, sid, obj>>
    /\ \A c \in Conns : \/ pc'[c] = pc[c]
                        \/ pc[c] = "head" /\ pc'[c] = "find"
                        \/ pc[c] \in HasObj /\ pc'[c] \in HasObj

TableStep(c) ==
    \/ Unauthorized(c) \/ Connect(c) \/ ReadRng(c) \/ StoreRng(c)
    \/ CreateSession(c) \/ FindSession(c) \/ RemoveSession(c)

LEMMA StepKinds ==
    ASSUME TypeInv, [Next]_vars
    PROVE  Quiet \/ \E c \in Conns : TableStep(c)
<1> USE Labels DEF Goto, HasObj, Quiet
<1>1. pc \in [Conns -> PumpPoints]
      BY DEF TypeInv, Typed
<1>2. ASSUME NEW c \in Conns, WriteHead(c) \/ WriteEndpoint(c) \/ WriteKeepalive(c)
      PROVE  Quiet
      BY <1>1, <1>2 DEF WriteHead, WriteEndpoint, WriteKeepalive
<1>3. ASSUME NEW c \in Conns, Wait(c) \/ Timeout(c)
      PROVE  Quiet
      BY <1>1, <1>3 DEF Wait, Timeout, TakeQueue
<1>4. ASSUME NEW c \in Conns, WriteMessage(c)
      PROVE  Quiet
      BY <1>1, <1>4 DEF WriteMessage
<1>5. ASSUME NEW p \in Posts, PostUnauthorized(p) \/ (\E i \in Ids : PostMessage(p, i))
      PROVE  Quiet
      BY <1>5 DEF PostUnauthorized, PostMessage, pumpVars
<1>6. ASSUME NEW p \in Posts, HandleMessage(p) \/ Enqueue(p)
      PROVE  Quiet
      BY <1>6 DEF HandleMessage, Enqueue, pumpVars
<1>7. ASSUME NEW p \in Posts, NotifyAll(p)
      PROVE  Quiet
      BY <1>1, <1>7 DEF NotifyAll
<1>8. ASSUME NEW c \in Conns,
             PeerStalls(c) \/ PeerResumes(c) \/ PeerLeaves(c) \/ PeerReset(c)
      PROVE  Quiet
      BY <1>8 DEF PeerStalls, PeerResumes, PeerLeaves, PeerReset, PeerStep, pumpVars
<1>9. CASE UNCHANGED vars
      BY <1>9 DEF vars, pumpVars
<1> QED
    BY <1>2, <1>3, <1>4, <1>5, <1>6, <1>7, <1>8, <1>9
    DEF Next, PumpStep, PostStep, Finished, TableStep

LEMMA NoLeakNext == TypeInv /\ NoSessionLeak /\ [Next]_vars => NoSessionLeak'
<1> SUFFICES ASSUME TypeInv, NoSessionLeak, [Next]_vars
             PROVE  NoSessionLeak'
    OBVIOUS
<1> USE Labels DEF Goto, NoSessionLeak
<1>1. CASE Quiet
      BY <1>1 DEF Quiet, HasObj
<1>2. ASSUME NEW c \in Conns, TableStep(c)
      PROVE  NoSessionLeak'
  <2> pc \in [Conns -> PumpPoints] /\ sid \in [Conns -> Ids \cup {None}]
      /\ sessions \in [Ids -> Conns \cup {None}]
      BY DEF TypeInv, Typed
  <2>1. CASE Unauthorized(c) \/ Connect(c) \/ ReadRng(c) \/ StoreRng(c)
    <3>1. /\ sessions' = sessions
          /\ pc[c] \notin Registered
          /\ \A d \in Conns \ {c} : pc'[d] = pc[d] /\ sid'[d] = sid[d]
          BY <2>1 DEF Unauthorized, Connect, ReadRng, StoreRng
    <3> QED
        BY <3>1
  <2>2. CASE CreateSession(c)
    <3>1. /\ sid' = sid /\ pc'[c] = "head" /\ pc[c] = "create"
          /\ \A d \in Conns \ {c} : pc'[d] = pc[d]
          /\ \A i \in Ids \ {sid[c]} : sessions'[i] = sessions[i]
          BY <2>2 DEF CreateSession
    <3> QED
        BY <3>1
  <2>3. CASE FindSession(c)
    <3>1. /\ sid' = sid /\ sessions' = sessions
          /\ \A d \in Conns \ {c} : pc'[d] = pc[d]
          /\ pc'[c] = "endpoint" \/ sessions[sid[c]] = None
          BY <2>3 DEF FindSession, EndStream
    <3> QED
        BY <3>1
  <2>4. CASE RemoveSession(c)
    <3>1. /\ sid' = sid
          /\ \A d \in Conns \ {c} : pc'[d] = pc[d]
          /\ \A i \in Ids : sessions'[i] = IF i = sid[c] THEN None ELSE sessions[i]
          BY <2>4 DEF RemoveSession, EndStream
    <3> QED
        BY <3>1
  <2> QED
      BY <1>2, <2>1, <2>2, <2>3, <2>4 DEF TableStep
<1> QED
    BY <1>1, <1>2, StepKinds

(* The table never leaks, whichever way the connects race: every entry is  *)
(* one that a running thread is still going to remove.                     *)
THEOREM SessionsDoNotLeak == Spec => []NoSessionLeak
<1>1. Init => NoSessionLeak
      BY DEF Init, NoSessionLeak
<1>2. QED
      BY <1>1, NoLeakNext, TypeInit, TypeNext, PTL DEF Spec

----------------------------------------------------------------------------
(* Connects that do not overlap.  The generator then hands out every id    *)
(* once, so that a registered thread's entry is its own: IdInv is the      *)
(* inductive form of AdvertisedIdResolves.                                 *)
Drawn == {"create"} \cup Registered

OneDrawing    == \A c, d \in Conns : pc[c] \in Drawing /\ pc[d] \in Drawing => c = d
DrawsCurrent  == \A c \in Conns : pc[c] = "store" => sid[c] = rng
DrawnBelow    == \A c \in Conns : pc[c] \in Drawn => sid[c] < rng
DrawnDistinct == \A c, d \in Conns :
                    pc[c] \in Drawn /\ pc[d] \in Drawn /\ sid[c] = sid[d] => c = d
EntryIsOwn    == \A c \in Conns : pc[c] \in Registered => sessions[sid[c]] = c
PointerIsOwn  == \A c \in Conns : pc[c] \in HasObj => obj[c] = c

IdInv == OneDrawing /\ DrawsCurrent /\ DrawnBelow /\ DrawnDistinct /\ EntryIsOwn /\ PointerIsOwn

LEMMA IdNext ==
    ASSUME ~Overlap
    PROVE  TypeInv /\ IdInv /\ [Next]_vars => IdInv'
<1> SUFFICES ASSUME TypeInv, IdInv, [Next]_vars
             PROVE  IdInv'
    OBVIOUS
<1> USE SseAssumption, Labels
        DEF Goto, Drawing, Drawn, HasObj, IdInv, OneDrawing, DrawsCurrent, DrawnBelow,
            DrawnDistinct, EntryIsOwn, PointerIsOwn
<1>1. CASE Quiet
      BY <1>1 DEF Quiet
<1>2. ASSUME NEW c \in Conns, TableStep(c)
      PROVE  IdInv'
  <2>1. /\ pc \in [Conns -> PumpPoints] /\ sid \in [Conns -> Ids \cup {None}]
        /\ sessions \in [Ids -> Conns \cup {None}] /\ obj \in [Conns -> Conns \cup {None}]
        /\ rng \in Nat
        /\ \A d \in Conns : pc[d] \in {"store"} \cup Drawn => sid[d] \in Ids /\ sid[d] \in Nat
        BY DEF TypeInv, Typed, HasId
  <2>2. CASE Unauthorized(c) \/ Connect(c)
    <3>1. /\ UNCHANGED <<rng, sessions, sid, obj>>
          /\ \A d \in Conns \ {c} : pc'[d] = pc[d]
          /\ \/ pc'[c] = "done"
             \/ pc'[c] = "draw" /\ \A d \in Conns : pc[d] \notin Drawing
          BY <2>1, <2>2 DEF Unauthorized, Connect
    <3> QED
        BY <2>1, <3>1
  <2>3. CASE ReadRng(c)
    <3>1. /\ UNCHANGED <<rng, sessions, obj>>
          /\ \A d \in Conns \ {c} : pc'[d] = pc[d] /\ sid'[d] = sid[d]
          /\ pc[c] = "draw" /\ pc'[c] = "store" /\ sid'[c] = rng
          BY <2>1, <2>3 DEF ReadRng
    <3> QED
        BY <2>1, <3>1
  <2>4. CASE StoreRng(c)
    <3>1. /\ UNCHANGED <<sid, sessions, obj>>
          /\ \A d \in Conns \ {c} : pc'[d] = pc[d]
          /\ pc[c] = "store" /\ pc'[c] = "create"
          /\ sid[c] = rng /\ rng' = rng + 1
          BY <2>1, <2>4 DEF StoreRng
    <3> QED
        BY <2>1, <3>1
  <2>5. CASE CreateSession(c)
    <3>1. /\ UNCHANGED <<rng, sid, obj>>
          /\ \A d \in Conns \ {c} : pc'[d] = pc[d]
          /\ pc[c] = "create" /\ pc'[c] = "head"
          /\ \A i \in Ids : sessions'[i] = IF i = sid[c] THEN c ELSE sessions[i]
          BY <2>1, <2>5 DEF CreateSession
    <3> QED
        BY <2>1, <3>1
  <2>6. CASE FindSession(c)
    <3>1. /\ UNCHANGED <<rng, sid, sessions>>
          /\ \A d \in Conns \ {c} : pc'[d] = pc[d] /\ obj'[d] = obj[d]
          /\ pc[c] = "find" /\ pc'[c] = "endpoint" /\ obj'[c] = c
          BY <2>1, <2>6 DEF FindSession
    <3> QED
        BY <2>1, <3>1
  <2>7. CASE RemoveSession(c)
    <3>1. /\ UNCHANGED <<rng, sid>>
          /\ \A d \in Conns \ {c} : pc'[d] = pc[d] /\ obj'[d] = obj[d]
          /\ pc[c] = "remove" /\ pc'[c] = "done"
          /\ \A i \in Ids : sessions'[i] = IF i = sid[c] THEN None ELSE sessions[i]
          BY <2>1, <2>7 DEF RemoveSession, EndStream
    <3> QED
        BY <2>1, <3>1
  <2> QED
      BY <1>2, <2>2, <2>3, <2>4, <2>5, <2>6, <2>7 DEF TableStep
<1> QED
    BY <1>1, <1>2, StepKinds

LEMMA IdInit == Init => IdInv
BY Labels DEF Init, IdInv, OneDrawing, DrawsCurrent, DrawnBelow, DrawnDistinct, EntryIsOwn,
              PointerIsOwn, Drawing, Drawn, HasObj

(* When no two connects overlap in randomSessionId, the id a client is     *)
(* told names its own session until its stream ends.                       *)
THEOREM IdsResolve ==
    ASSUME ~Overlap
    PROVE  Spec => []AdvertisedIdResolves
<1>1. TypeInv /\ IdInv /\ [Next]_vars => IdInv'
      BY IdNext
<1>2. IdInv => AdvertisedIdResolves
      BY Labels DEF IdInv, EntryIsOwn, PointerIsOwn, HasObj, AdvertisedIdResolves
<1> QED
    BY <1>1, <1>2, IdInit, TypeInit, TypeNext, PTL DEF Spec

----------------------------------------------------------------------------
(* The condition variable.  A step that adds nothing to a queue, takes no  *)
(* POST away from "notify" and puts nobody to sleep cannot lose a wakeup.  *)
Harmless ==
    /\ \A d \in Conns : queue'[d] = queue[d] \/ queue'[d] = <<>>
    /\ \A p \in Posts : ppc[p] = "notify" => ppc'[p] = "notify" /\ ptr'[p] = ptr[p]
    /\ \A c \in Conns : pc'[c] = "asleep" => pc[c] = "asleep" /\ obj'[c] = obj[c]

LEMMA HarmlessStep ==
    ASSUME TypeInv, NoLostWakeup, Harmless
    PROVE  NoLostWakeup'
<1> SUFFICES ASSUME NEW c \in Conns, pc'[c] = "asleep", queue'[obj'[c]] # <<>>
             PROVE  \E p \in Posts : ppc'[p] = "notify" /\ ptr'[p] = obj'[c]
    BY DEF NoLostWakeup, HasData
<1>1. pc[c] = "asleep" /\ obj'[c] = obj[c] /\ obj[c] \in Conns
      BY Labels DEF Harmless, TypeInv, Typed, NeverNull
<1>2. queue[obj[c]] # <<>>
      BY <1>1 DEF Harmless
<1>3. PICK p \in Posts : ppc[p] = "notify" /\ ptr[p] = obj[c]
      BY <1>1, <1>2 DEF NoLostWakeup, HasData
<1> QED
    BY <1>1, <1>3 DEF Harmless

LEMMA WakeupNext == TypeInv /\ NoLostWakeup /\ [Next]_vars => NoLostWakeup'
<1> SUFFICES ASSUME TypeInv, NoLostWakeup, [Next]_vars
             PROVE  NoLostWakeup'
    OBVIOUS
<1> USE Labels DEF Goto
<1>0. /\ pc \in [Conns -> PumpPoints] /\ obj \in [Conns -> Conns \cup {None}]
      /\ ppc \in [Posts -> PostPoints] /\ ptr \in [Posts -> Conns \cup {None}]
      /\ DOMAIN queue = Conns
      /\ \A c \in Conns : pc[c] \in Pumping => obj[c] \in Conns
      BY DEF TypeInv, Typed, NeverNull
<1>1. ASSUME NEW c \in Conns,
             \/ Unauthorized(c) \/ Connect(c) \/ ReadRng(c) \/ StoreRng(c) \/ CreateSession(c)
             \/ WriteHead(c) \/ FindSession(c) \/ WriteEndpoint(c) \/ WriteKeepalive(c)
             \/ RemoveSession(c)
      PROVE  NoLostWakeup'
  <2>1. /\ UNCHANGED <<queue, ppc, ptr>>
        /\ \A d \in Conns : pc'[d] = "asleep" => pc[d] = "asleep" /\ obj'[d] = obj[d]
        BY <1>0, <1>1
        DEF Unauthorized, Connect, ReadRng, StoreRng, CreateSession, WriteHead, FindSession,
            WriteEndpoint, WriteKeepalive, RemoveSession, EndStream, postVars
  <2> QED
      BY <2>1, HarmlessStep DEF Harmless
<1>2. ASSUME NEW c \in Conns, WriteMessage(c)
      PROVE  NoLostWakeup'
  <2>1. /\ UNCHANGED <<queue, obj, ppc, ptr>>
        /\ \A d \in Conns : pc'[d] = "asleep" => pc[d] = "asleep"
        BY <1>0, <1>2 DEF WriteMessage, postVars
  <2> QED
      BY <2>1, HarmlessStep DEF Harmless
<1>3. ASSUME NEW c \in Conns, Wait(c) \/ Timeout(c)
      PROVE  NoLostWakeup'
  <2>1. /\ UNCHANGED <<obj, ppc, ptr>>
        /\ \A d \in Conns \ {c} : pc'[d] = pc[d]
        BY <1>0, <1>3 DEF Wait, Timeout, TakeQueue, postVars
  <2>2. \A d \in Conns : queue'[d] = queue[d] \/ queue'[d] = <<>>
        BY <1>0, <1>3 DEF Wait, Timeout, TakeQueue
  <2>3. pc'[c] = "asleep" => queue' = queue /\ queue[obj[c]] = <<>>
        BY <1>0, <1>3 DEF Wait, Timeout, TakeQueue, HasData
  <2>4. CASE pc'[c] = "asleep"
        BY <2>1, <2>3, <2>4 DEF NoLostWakeup, HasData
  <2>5. CASE pc'[c] # "asleep"
        BY <2>1, <2>2, <2>5, HarmlessStep DEF Harmless
  <2> QED
      BY <2>4, <2>5
<1>4. ASSUME NEW p \in Posts,
             PostUnauthorized(p) \/ (\E i \in Ids : PostMessage(p, i)) \/ HandleMessage(p)
      PROVE  NoLostWakeup'
  <2>1. /\ UNCHANGED <<queue, pc, obj>>
        /\ ppc[p] # "notify"
        /\ \A q \in Posts \ {p} : ppc'[q] = ppc[q] /\ ptr'[q] = ptr[q]
        BY <1>0, <1>4 DEF PostUnauthorized, PostMessage, HandleMessage, pumpVars
  <2> QED
      BY <2>1, HarmlessStep DEF Harmless
<1>5. ASSUME NEW p \in Posts, Enqueue(p)
      PROVE  NoLostWakeup'
  <2>1. /\ UNCHANGED <<pc, obj, ptr>>
        /\ \A d \in Conns \ {ptr[p]} : queue'[d] = queue[d]
        /\ ppc'[p] = "notify"
        /\ \A q \in Posts \ {p} : ppc'[q] = ppc[q]
        BY <1>0, <1>5 DEF Enqueue, pumpVars
  <2> QED
      BY <1>0, <2>1 DEF NoLostWakeup, HasData
<1>6. ASSUME NEW p \in Posts, NotifyAll(p)
      PROVE  NoLostWakeup'
  <2>1. /\ UNCHANGED <<queue, obj, ptr>>
        /\ \A c \in Conns : pc'[c] = "asleep" => pc[c] = "asleep" /\ obj[c] # ptr[p]
        /\ \A q \in Posts \ {p} : ppc'[q] = ppc[q]
        BY <1>0, <1>6 DEF NotifyAll
  <2> QED
      BY <2>1 DEF NoLostWakeup, HasData
<1>7. ASSUME NEW c \in Conns,
             PeerStalls(c) \/ PeerResumes(c) \/ PeerLeaves(c) \/ PeerReset(c)
      PROVE  NoLostWakeup'
      BY <1>7 DEF PeerStalls, PeerResumes, PeerLeaves, PeerReset, PeerStep, pumpVars, postVars,
                  NoLostWakeup, HasData
<1>8. CASE UNCHANGED vars
      BY <1>8 DEF vars, pumpVars, postVars, NoLostWakeup, HasData
<1> QED
    BY <1>1, <1>2, <1>3, <1>4, <1>5, <1>6, <1>7, <1>8
    DEF Next, PumpStep, PostStep, Finished

(* No wakeup is lost: a sleeping pump with something in its queue always   *)
(* has a POST about to notify it, so no response waits for the keepalive.  *)
THEOREM NoWakeupIsLost == Spec => []NoLostWakeup
<1>1. Init => NoLostWakeup
      BY DEF Init, NoLostWakeup
<1>2. QED
      BY <1>1, WakeupNext, TypeInit, TypeNext, PTL DEF Spec

----------------------------------------------------------------------------
(* When no two connects overlap in randomSessionId, SseTransport          *)
(* implements SseChannel, for any sets of connections, posts and ids.      *)

----------------------------------------------------------------------------
(* What a step of the transport can do to the channels.  Each operator     *)
(* names one effect; Effects shows that there are no others.               *)

Streaming == Registered \ {"remove"}
Known     == Registered \cup {"done"}

OnlyMoves(c) == \A d \in Conns \ {c} : pc'[d] = pc[d]

(* A thread moves between two points and touches no message.  *)
Moves(c) ==
    /\ UNCHANGED <<queue, closed, pending, sent, ppc, ptr, answers>>
    /\ OnlyMoves(c)
    /\ \/ pc[c] = "idle" /\ pc'[c] = "done"
       \/ pc[c] \notin Known \cup {"create"} /\ pc'[c] \notin Known
       \/ pc[c] = "create" /\ pc'[c] = "head"
       \/ pc[c] \in Streaming \ {"write"} /\ pc'[c] \in Registered \ {"write"}

Takes(c) ==
    /\ UNCHANGED <<closed, sent, ppc, ptr, answers>>
    /\ OnlyMoves(c)
    /\ pc[c] \in {"wait", "asleep"} /\ pc'[c] = "write"
    /\ pending' = [pending EXCEPT ![c] = queue[c]]
    /\ queue' = [queue EXCEPT ![c] = <<>>]

Writes(c) ==
    /\ UNCHANGED <<queue, closed, ppc, ptr, answers>>
    /\ OnlyMoves(c)
    /\ pc[c] = "write" /\ pc'[c] = IF pending'[c] # <<>> THEN "write" ELSE "wait"
    /\ sent' = [sent EXCEPT ![c] = Append(@, Head(pending[c]))]
    /\ pending' = [pending EXCEPT ![c] = Tail(@)]

Fails(c) ==
    /\ UNCHANGED <<queue, pending, sent, ppc, ptr, answers>>
    /\ OnlyMoves(c)
    /\ pc[c] = "write" /\ pc'[c] = "remove"
    /\ closed' = [closed EXCEPT ![c] = TRUE]

Ends(c) ==
    /\ UNCHANGED <<queue, closed, sent, ppc, ptr, answers>>
    /\ OnlyMoves(c)
    /\ pc[c] = "remove" /\ pc'[c] = "done"
    /\ pending' = [pending EXCEPT ![c] = <<>>]

(* A POST moves up to the point where it has a response.  *)
PostMoves(p) ==
    /\ UNCHANGED <<queue, closed, pc, pending, sent>>
    /\ \A q \in Posts \ {p} : ppc'[q] = ppc[q] /\ ptr'[q] = ptr[q] /\ answers'[q] = answers[q]
    /\ \/ /\ ppc[p] = "idle" /\ ppc'[p] \in {"handle", "done"} /\ answers'[p] = answers[p]
          /\ ptr'[p] = ptr[p] \/ ptr'[p] = None
                \/ (ptr'[p] \in Conns /\ pc[ptr'[p]] \in Registered)
       \/ /\ ppc[p] = "handle" /\ ptr'[p] = ptr[p]
          /\ \/ ppc'[p] = "enqueue" /\ answers'[p] = TRUE
             \/ ppc'[p] = "done" /\ answers'[p] = answers[p]

Enqueues(p) ==
    /\ UNCHANGED <<closed, pc, pending, sent, ptr, answers>>
    /\ ppc[p] = "enqueue" /\ ptr[p] \in Conns
    /\ ppc' = [ppc EXCEPT ![p] = "notify"]
    /\ queue' = [queue EXCEPT ![ptr[p]] = Append(@, p)]

Wakes(p) ==
    /\ UNCHANGED <<queue, closed, pending, sent, ptr, answers>>
    /\ ppc[p] = "notify"
    /\ ppc' = [ppc EXCEPT ![p] = "done"]
    /\ \A c \in Conns : pc'[c] = pc[c] \/ (pc[c] = "asleep" /\ pc'[c] = "wait")

Nothing == UNCHANGED <<queue, closed, pc, pending, sent, ppc, ptr, answers>>

(* A session object is only closed by its own thread on its way out.       *)
ClosedLeaves == \A c \in Conns : closed[c] => pc[c] \in Leaving

LEMMA Effects ==
    ASSUME TypeInv, IdInv, NoSessionLeak, ClosedLeaves, [Next]_vars
    PROVE  \/ Nothing
           \/ \E c \in Conns : Moves(c) \/ Takes(c) \/ Writes(c) \/ Fails(c) \/ Ends(c)
           \/ \E p \in Posts : PostMoves(p) \/ Enqueues(p) \/ Wakes(p)
<1> USE Labels, SseAssumption DEF Goto, OnlyMoves, Known, Streaming
<1>0. /\ pc \in [Conns -> PumpPoints] /\ sid \in [Conns -> Ids \cup {None}]
      /\ closed \in [Conns -> BOOLEAN]
      /\ sessions \in [Ids -> Conns \cup {None}]
      /\ ppc \in [Posts -> PostPoints] /\ ptr \in [Posts -> Conns \cup {None}]
      /\ answers \in [Posts -> BOOLEAN]
      BY DEF TypeInv, Typed
<1>1. ASSUME NEW c \in Conns,
             \/ Unauthorized(c) \/ Connect(c) \/ ReadRng(c) \/ StoreRng(c) \/ CreateSession(c)
             \/ WriteHead(c) \/ WriteEndpoint(c) \/ WriteKeepalive(c)
      PROVE  Moves(c)
      BY <1>0, <1>1
      DEF Unauthorized, Connect, ReadRng, StoreRng, CreateSession, WriteHead, WriteEndpoint,
          WriteKeepalive, postVars, Moves
<1>2. ASSUME NEW c \in Conns, FindSession(c)
      PROVE  Moves(c)
  <2>1. sessions[sid[c]] = c
        BY <1>2 DEF FindSession, IdInv, EntryIsOwn
  <2> QED
      BY <1>0, <1>2, <2>1 DEF FindSession, postVars, Moves
<1>3. ASSUME NEW c \in Conns, Wait(c) \/ Timeout(c)
      PROVE  Moves(c) \/ Takes(c)
  <2>1. obj[c] = c /\ ~closed[c] /\ pc[c] \in {"wait", "asleep"}
        BY <1>3 DEF Wait, Timeout, IdInv, PointerIsOwn, HasObj, ClosedLeaves, Leaving
  <2>2. UNCHANGED <<closed, sent, ppc, ptr, answers>>
        BY <1>3 DEF Wait, Timeout, postVars
  <2>3. \/ UNCHANGED <<queue, pending>> /\ \E l \in {"asleep", "keepalive"} : Goto(c, l)
        \/ TakeQueue(c)
        BY <1>3, <2>1 DEF Wait, Timeout
  <2> QED
      BY <1>0, <2>1, <2>2, <2>3 DEF TakeQueue, Moves, Takes
<1>4. ASSUME NEW c \in Conns, WriteMessage(c)
      PROVE  Writes(c) \/ Fails(c)
  <2>1. obj[c] = c /\ ~closed[c] /\ pc[c] = "write"
        BY <1>4 DEF WriteMessage, IdInv, PointerIsOwn, HasObj, ClosedLeaves, Leaving
  <2>2. UNCHANGED <<queue, ppc, ptr, answers>>
        BY <1>4 DEF WriteMessage, postVars
  <2>3. \/ /\ sent' = [sent EXCEPT ![c] = Append(@, Head(pending[c]))]
           /\ pending' = [pending EXCEPT ![c] = Tail(@)]
           /\ Goto(c, IF pending'[c] # <<>> THEN "write" ELSE "wait")
           /\ UNCHANGED closed
        \/ /\ closed' = [closed EXCEPT ![c] = TRUE]
           /\ Goto(c, "remove")
           /\ UNCHANGED <<sent, pending>>
        BY <1>4, <2>1 DEF WriteMessage
  <2> QED
      BY <1>0, <2>1, <2>2, <2>3 DEF Writes, Fails
<1>5. ASSUME NEW c \in Conns, RemoveSession(c)
      PROVE  Ends(c)
      BY <1>0, <1>5 DEF RemoveSession, EndStream, postVars, Ends
<1>6. ASSUME NEW p \in Posts, PostUnauthorized(p) \/ HandleMessage(p)
      PROVE  PostMoves(p)
      BY <1>0, <1>6 DEF PostUnauthorized, HandleMessage, pumpVars, PostMoves
<1>7. ASSUME NEW p \in Posts, NEW i \in Ids, PostMessage(p, i)
      PROVE  PostMoves(p)
  <2>1. sessions[i] = None \/ (sessions[i] \in Conns /\ pc[sessions[i]] \in Registered)
    <3>1. SUFFICES ASSUME sessions[i] # None
                   PROVE  sessions[i] \in Conns /\ pc[sessions[i]] \in Registered
          OBVIOUS
    <3>2. PICK c \in Conns : sid[c] = i /\ pc[c] \in Registered
          BY <3>1 DEF NoSessionLeak
    <3>3. sessions[i] = c
          BY <3>2 DEF IdInv, EntryIsOwn
    <3> QED
        BY <3>2, <3>3
  <2> QED
      BY <1>0, <1>7, <2>1 DEF PostMessage, pumpVars, PostMoves
<1>8. ASSUME NEW p \in Posts, Enqueue(p)
      PROVE  Enqueues(p)
  <2>1. ppc[p] = "enqueue" /\ ptr[p] # None
        BY <1>8 DEF Enqueue, TypeInv, NeverNull
  <2>2. UNCHANGED <<closed, pc, pending, sent, ptr, answers>>
        BY <1>8 DEF Enqueue, pumpVars
  <2> QED
      BY <1>0, <1>8, <2>1, <2>2 DEF Enqueue, Enqueues
<1>9. ASSUME NEW p \in Posts, NotifyAll(p)
      PROVE  Wakes(p)
      BY <1>0, <1>9 DEF NotifyAll, Wakes
<1>10. ASSUME NEW c \in Conns,
              PeerStalls(c) \/ PeerResumes(c) \/ PeerLeaves(c) \/ PeerReset(c)
       PROVE  Nothing
       BY <1>10 DEF PeerStalls, PeerResumes, PeerLeaves, PeerReset, PeerStep, pumpVars, postVars,
                    Nothing
<1>11. CASE UNCHANGED vars
       BY <1>11 DEF vars, pumpVars, postVars, Nothing
<1> QED
    BY <1>1, <1>2, <1>3, <1>4, <1>5, <1>6, <1>7, <1>8, <1>9, <1>10, <1>11
    DEF Next, PumpStep, PostStep, Finished

----------------------------------------------------------------------------
(* The invariant.  A response in a queue, in a batch or on the wire is of  *)
(* a POST that resolved that session and was answered 202; a session has   *)
(* messages only between CreateSession and the end of its stream, and a    *)
(* batch only while it is being written.                                   *)

IsAccepted(p) == answers[p] /\ ppc[p] \in {"notify", "done"}
Owned(c)      == {p \in Posts : ptr[p] = c /\ IsAccepted(p)}

Contents ==
    \A c \in Conns : /\ queue[c] \in Seq(Owned(c))
                     /\ pending[c] \in Seq(Owned(c))
                     /\ sent[c] \in Seq(Owned(c))
PostsAnswer ==
    \A p \in Posts : /\ ppc[p] \in {"idle", "handle"} => ~answers[p]
                     /\ ppc[p] \in {"enqueue", "notify"} => answers[p]
PointersKnown == \A p \in Posts : ptr[p] # None => pc[ptr[p]] \in Known
Unpumped      == \A c \in Conns : pc[c] \notin Known => queue[c] = <<>>
Batch         == \A c \in Conns : pc[c] \notin {"write", "remove"} => pending[c] = <<>>

ChanInv == Contents /\ PostsAnswer /\ PointersKnown /\ Unpumped /\ Batch /\ ClosedLeaves

LEMMA ChanInit == Init => ChanInv
<1> SUFFICES ASSUME Init
             PROVE  ChanInv
    OBVIOUS
<1>1. \A c \in Conns : <<>> \in Seq(Owned(c))
      OBVIOUS
<1>2. Contents
      BY <1>1 DEF Init, Contents
<1>3. PostsAnswer /\ PointersKnown /\ Unpumped /\ Batch /\ ClosedLeaves
      BY DEF Init, PostsAnswer, PointersKnown, Unpumped, Batch, ClosedLeaves
<1> QED
    BY <1>2, <1>3 DEF ChanInv

(* A session's responses stay its responses.                               *)
OwnedGrows == \A c \in Conns : Owned(c) \subseteq Owned(c)'

LEMMA ContentsOf ==
    ASSUME Contents, OwnedGrows, NEW c \in Conns,
           queue'[c] = queue[c] \/ queue'[c] \in Seq(Owned(c)'),
           pending'[c] = pending[c] \/ pending'[c] \in Seq(Owned(c)'),
           sent'[c] = sent[c] \/ sent'[c] \in Seq(Owned(c)')
    PROVE  /\ queue'[c] \in Seq(Owned(c)')
           /\ pending'[c] \in Seq(Owned(c)')
           /\ sent'[c] \in Seq(Owned(c)')
BY SeqMonotonic DEF Contents, OwnedGrows

LEMMA PumpKeeps ==
    ASSUME TypeInv, ChanInv, NEW c \in Conns,
           Moves(c) \/ Takes(c) \/ Writes(c) \/ Fails(c) \/ Ends(c)
    PROVE  ChanInv'
<1> USE Labels DEF Known, Streaming, OnlyMoves
<1>0. /\ pc \in [Conns -> PumpPoints] /\ ptr \in [Posts -> Conns \cup {None}]
      /\ queue \in [Conns -> Seq(Posts)] /\ pending \in [Conns -> Seq(Posts)]
      /\ sent \in [Conns -> Seq(Posts)] /\ closed \in [Conns -> BOOLEAN]
      BY DEF TypeInv, Typed
<1>1. UNCHANGED <<ppc, ptr, answers>> /\ OwnedGrows
      BY DEF Moves, Takes, Writes, Fails, Ends, OwnedGrows, Owned, IsAccepted
<1>2. \A d \in Conns : /\ pc[d] \in Known => pc'[d] \in Known
                       /\ pc[d] \in Leaving => pc'[d] \in Leaving
      BY <1>0 DEF Moves, Takes, Writes, Fails, Ends, Leaving
<1>3. PostsAnswer' /\ PointersKnown'
      BY <1>0, <1>1, <1>2, SseAssumption DEF ChanInv, PostsAnswer, PointersKnown
<1>4. Unpumped'
      BY <1>0, <1>2 DEF Moves, Takes, Writes, Fails, Ends, ChanInv, Unpumped
<1>5. ClosedLeaves'
      BY <1>0, <1>2 DEF Moves, Takes, Writes, Fails, Ends, ChanInv, ClosedLeaves, Leaving
<1>6. Batch'
      BY <1>0 DEF Moves, Takes, Writes, Fails, Ends, ChanInv, Batch
<1>7. \A d \in Conns : /\ queue'[d] = queue[d] \/ queue'[d] \in Seq(Owned(d)')
                       /\ pending'[d] = pending[d] \/ pending'[d] \in Seq(Owned(d)')
                       /\ sent'[d] = sent[d] \/ sent'[d] \in Seq(Owned(d)')
  <2>1. \A d \in Conns : Owned(d)' = Owned(d)
        BY <1>1 DEF Owned, IsAccepted
  <2>2. <<>> \in Seq(Owned(c)) /\ queue[c] \in Seq(Owned(c)) /\ pending[c] \in Seq(Owned(c))
        /\ sent[c] \in Seq(Owned(c))
        BY DEF ChanInv, Contents
  <2>3. CASE Moves(c) \/ Fails(c)
        BY <2>3 DEF Moves, Fails
  <2>4. CASE Takes(c) \/ Ends(c)
        BY <1>0, <2>1, <2>2, <2>4 DEF Takes, Ends
  <2>5. CASE Writes(c)
    <3>1. pending[c] # <<>>
          BY <2>5 DEF Writes, TypeInv, HasBatch
    <3>2. Head(pending[c]) \in Owned(c) /\ Tail(pending[c]) \in Seq(Owned(c))
          BY <2>2, <3>1, HeadTailProperties
    <3>3. Append(sent[c], Head(pending[c])) \in Seq(Owned(c))
          BY <2>2, <3>2, AppendProperties
    <3> QED
        BY <1>0, <2>1, <2>5, <3>2, <3>3 DEF Writes
  <2> QED
      BY <2>3, <2>4, <2>5
<1>8. Contents'
      BY <1>1, <1>7, ContentsOf DEF ChanInv, Contents
<1> QED
    BY <1>3, <1>4, <1>5, <1>6, <1>8 DEF ChanInv

LEMMA PostKeeps ==
    ASSUME TypeInv, ChanInv, NEW p \in Posts, PostMoves(p) \/ Enqueues(p) \/ Wakes(p)
    PROVE  ChanInv'
<1> USE Labels, SseAssumption DEF Known, Streaming
<1>0. /\ pc \in [Conns -> PumpPoints] /\ ptr \in [Posts -> Conns \cup {None}]
      /\ ppc \in [Posts -> PostPoints] /\ answers \in [Posts -> BOOLEAN]
      /\ queue \in [Conns -> Seq(Posts)]
      BY DEF TypeInv, Typed
<1>1. OwnedGrows
      BY <1>0 DEF PostMoves, Enqueues, Wakes, OwnedGrows, Owned, IsAccepted, ChanInv, PostsAnswer
<1>2. \A d \in Conns : pc'[d] = pc[d] \/ (pc[d] = "asleep" /\ pc'[d] = "wait")
      BY DEF PostMoves, Enqueues, Wakes
<1>3. UNCHANGED <<closed, pending, sent>>
      BY DEF PostMoves, Enqueues, Wakes
<1>4. PostsAnswer'
      BY <1>0 DEF PostMoves, Enqueues, Wakes, ChanInv, PostsAnswer
<1>5. PointersKnown'
  <2>1. \A q \in Posts : ptr'[q] = ptr[q] \/ ptr'[q] = None
                            \/ (ptr'[q] \in Conns /\ pc[ptr'[q]] \in Known)
        BY <1>0 DEF PostMoves, Enqueues, Wakes
  <2>2. \A q \in Posts : ptr'[q] = None \/ (ptr'[q] \in Conns /\ pc[ptr'[q]] \in Known)
        BY <1>0, <2>1 DEF ChanInv, PointersKnown
  <2> QED
      BY <1>2, <2>2 DEF PointersKnown
<1>6. Unpumped'
      BY <1>0, <1>2 DEF PostMoves, Enqueues, Wakes, ChanInv, Unpumped, PointersKnown
<1>7. Batch' /\ ClosedLeaves'
      BY <1>2, <1>3 DEF ChanInv, Batch, ClosedLeaves, Leaving
<1>8. \A d \in Conns : queue'[d] = queue[d] \/ queue'[d] \in Seq(Owned(d)')
  <2>1. CASE PostMoves(p) \/ Wakes(p)
        BY <2>1 DEF PostMoves, Wakes
  <2>2. CASE Enqueues(p)
    <3>1. queue[ptr[p]] \in Seq(Owned(ptr[p])')
          BY <1>1, <2>2, SeqMonotonic DEF Enqueues, ChanInv, Contents, OwnedGrows
    <3>2. p \in Owned(ptr[p])'
          BY <1>0, <2>2 DEF Enqueues, Owned, IsAccepted, ChanInv, PostsAnswer
    <3>3. Append(queue[ptr[p]], p) \in Seq(Owned(ptr[p])')
          BY <3>1, <3>2, AppendProperties
    <3> QED
        BY <1>0, <2>2, <3>3 DEF Enqueues
  <2> QED
      BY <2>1, <2>2
<1>9. Contents'
      BY <1>1, <1>3, <1>8, ContentsOf DEF ChanInv, Contents
<1> QED
    BY <1>4, <1>5, <1>6, <1>7, <1>9 DEF ChanInv

LEMMA ChanNext ==
    TypeInv /\ IdInv /\ NoSessionLeak /\ ChanInv /\ [Next]_vars => ChanInv'
<1> SUFFICES ASSUME TypeInv, IdInv, NoSessionLeak, ChanInv, [Next]_vars
             PROVE  ChanInv'
    OBVIOUS
<1>1. CASE Nothing
      BY <1>1
      DEF Nothing, ChanInv, Contents, PostsAnswer, PointersKnown, Unpumped, Batch, ClosedLeaves,
          Owned, IsAccepted
<1> QED
    BY <1>1, Effects, PumpKeeps, PostKeeps DEF ChanInv

----------------------------------------------------------------------------
(* The refinement, connection by connection: phase and backlog are those   *)
(* of the channel c stands for.                                            *)

Phase(c) ==
    IF pc[c] \in Registered \ Leaving THEN "open"
    ELSE IF pc[c] \in Leaving THEN "closed" ELSE "new"
Backlog(c) == IF pc[c] \in Registered \ Leaving THEN pending[c] \o queue[c] ELSE <<>>

LEMMA HeadTailConcat ==
    ASSUME NEW S, NEW s \in Seq(S), NEW t \in Seq(S), s # <<>>
    PROVE  /\ s \o t # <<>>
           /\ Head(s \o t) = Head(s)
           /\ Tail(s \o t) = Tail(s) \o t
<1>1. /\ s \o t \in Seq(S) /\ Len(s \o t) = Len(s) + Len(t) /\ Len(s) \in Nat \ {0}
      /\ Len(t) \in Nat
      BY EmptySeq, ConcatProperties, LenProperties
<1>2. s \o t # <<>>
      BY <1>1
<1>3. Head(s \o t) = Head(s)
      BY <1>1
<1>4. Tail(s) \in Seq(S) /\ Tail(s \o t) \in Seq(S) /\ Len(Tail(s)) = Len(s) - 1
      BY <1>1, <1>2, HeadTailProperties
<1>5. Tail(s \o t) = Tail(s) \o t
      BY <1>1, <1>4, SeqEqual
<1> QED
    BY <1>2, <1>3, <1>5

LEMMA AppendConcat ==
    ASSUME NEW s \in Seq(Posts), NEW t \in Seq(Posts), NEW x \in Posts
    PROVE  s \o Append(t, x) = Append(s \o t, x)
<1>1. <<x>> \in Seq(Posts) /\ s \o t \in Seq(Posts)
      BY ConcatProperties
<1>2. Append(t, x) = t \o <<x>> /\ Append(s \o t, x) = (s \o t) \o <<x>>
      BY <1>1, AppendIsConcat
<1> QED
    BY <1>1, <1>2, ConcatAssociative

LEMMA ChannelStep ==
    TypeInv /\ IdInv /\ NoSessionLeak /\ ChanInv /\ [Next]_vars => [Channel!Next]_(Channel!vars)
<1> SUFFICES ASSUME TypeInv, IdInv, NoSessionLeak, ChanInv, [Next]_vars
             PROVE  [Channel!Next]_(Channel!vars)
    OBVIOUS
<1> USE Labels, SseAssumption DEF Known, Streaming, OnlyMoves, Leaving
<1>0. /\ pc \in [Conns -> PumpPoints] /\ ptr \in [Posts -> Conns \cup {None}]
      /\ ppc \in [Posts -> PostPoints] /\ answers \in [Posts -> BOOLEAN]
      /\ queue \in [Conns -> Seq(Posts)] /\ pending \in [Conns -> Seq(Posts)]
      /\ sent \in [Conns -> Seq(Posts)]
      BY DEF TypeInv, Typed
<1> DEFINE accepted == {p \in Posts : IsAccepted(p)}
           Same(d)  == Phase(d)' = Phase(d) /\ Backlog(d)' = Backlog(d)
(* A step that changes no channel.  *)
<1>1. ASSUME \A d \in Conns : Same(d), sent' = sent, accepted' = accepted
      PROVE  UNCHANGED Channel!vars
      BY <1>1 DEF Channel!vars, Phase, Backlog, IsAccepted
(* A step that changes one, c, and accepts nothing.  *)
<1>2. ASSUME NEW c \in Conns, \A d \in Conns \ {c} : Same(d), accepted' = accepted, sent' = sent,
             Backlog(c)' = Backlog(c), Phase(c) = "new", Phase(c)' \in {"open", "closed"}
      PROVE  Channel!Next
  <2>1. CASE Phase(c)' = "open"
    <3>1. Channel!Open(c)
          BY <1>2, <2>1 DEF Channel!Open, Phase, Backlog, IsAccepted
    <3> QED
        BY <3>1 DEF Channel!Next
  <2>2. CASE Phase(c)' = "closed"
    <3>1. Channel!Refuse(c)
          BY <1>2, <2>2 DEF Channel!Refuse, Phase, Backlog, IsAccepted
    <3> QED
        BY <3>1 DEF Channel!Next
  <2> QED
      BY <1>2, <2>1, <2>2
<1>3. ASSUME NEW c \in Conns, \A d \in Conns \ {c} : Same(d), accepted' = accepted, sent' = sent,
             Phase(c) = "open", Phase(c)' = "closed"
      PROVE  Channel!Next
  <2>1. Channel!Close(c)
        BY <1>3 DEF Channel!Close, Phase, Backlog, IsAccepted
  <2> QED
      BY <2>1 DEF Channel!Next
<1>4. ASSUME NEW c \in Conns, \A d \in Conns \ {c} : Same(d), accepted' = accepted,
             Phase(c) = "open", Phase(c)' = "open", Backlog(c) # <<>>,
             Backlog(c)' = Tail(Backlog(c)),
             sent' = [sent EXCEPT ![c] = Append(@, Head(Backlog(c)))]
      PROVE  Channel!Next
  <2>1. Channel!Push(c)
        BY <1>4 DEF Channel!Push, Phase, Backlog, IsAccepted
  <2> QED
      BY <2>1 DEF Channel!Next
<1>5. CASE Nothing
      BY <1>1, <1>5 DEF Nothing, Phase, Backlog, IsAccepted
<1>6. ASSUME NEW c \in Conns, Moves(c)
      PROVE  [Channel!Next]_(Channel!vars)
  <2>1. UNCHANGED <<queue, pending, sent>> /\ accepted' = accepted
        BY <1>6 DEF Moves, IsAccepted
  <2>2. \A d \in Conns \ {c} : Same(d)
        BY <1>6, <2>1 DEF Moves, Phase, Backlog
  <2>3. CASE (pc[c] = "idle" /\ pc'[c] = "done") \/ (pc[c] = "create" /\ pc'[c] = "head")
    <3>1. Phase(c) = "new" /\ Phase(c)' \in {"open", "closed"}
          BY <2>3 DEF Phase
    <3>2. pending[c] = <<>> /\ queue[c] = <<>>
          BY <2>3 DEF ChanInv, Batch, Unpumped
    <3>3. Backlog(c)' = Backlog(c)
          BY <2>1, <3>2 DEF Backlog
    <3> QED
        BY <1>2, <2>1, <2>2, <3>1, <3>3
  <2>4. CASE pc[c] \notin Known \cup {"create"} /\ pc'[c] \notin Known
    <3>1. Same(c)
          BY <2>1, <2>4 DEF Phase, Backlog
    <3> QED
        BY <1>1, <2>1, <2>2, <3>1
  <2>5. CASE pc[c] \in Streaming /\ pc'[c] \in Streaming
    <3>1. Same(c)
          BY <2>1, <2>5 DEF Phase, Backlog
    <3> QED
        BY <1>1, <2>1, <2>2, <3>1
  <2>6. CASE pc[c] \in Streaming /\ pc'[c] = "remove"
    <3>1. Phase(c) = "open" /\ Phase(c)' = "closed"
          BY <2>6 DEF Phase
    <3> QED
        BY <1>3, <2>1, <2>2, <3>1
  <2> QED
      BY <1>6, <2>3, <2>4, <2>5, <2>6 DEF Moves
<1>7. ASSUME NEW c \in Conns, Takes(c)
      PROVE  UNCHANGED Channel!vars
  <2>1. sent' = sent /\ accepted' = accepted
        BY <1>7 DEF Takes, IsAccepted
  <2>2. \A d \in Conns \ {c} : Same(d)
        BY <1>0, <1>7 DEF Takes, Phase, Backlog
  <2>3. /\ pending[c] = <<>> /\ queue[c] \in Seq(Posts)
        /\ pending'[c] = queue[c] /\ queue'[c] = <<>>
        /\ pc[c] \in Streaming /\ pc'[c] \in Streaming
        BY <1>0, <1>7 DEF Takes, ChanInv, Batch
  <2>4. pending'[c] \o queue'[c] = queue[c] /\ pending[c] \o queue[c] = queue[c]
        BY <2>3, ConcatEmptySeq
  <2>5. Same(c)
        BY <2>3, <2>4 DEF Phase, Backlog
  <2> QED
      BY <1>1, <2>1, <2>2, <2>5
<1>8. ASSUME NEW c \in Conns, Writes(c)
      PROVE  Channel!Next
  <2>1. accepted' = accepted
        BY <1>8 DEF Writes, IsAccepted
  <2>2. \A d \in Conns \ {c} : Same(d)
        BY <1>0, <1>8 DEF Writes, Phase, Backlog
  <2>3. /\ pending[c] \in Seq(Posts) /\ pending[c] # <<>> /\ queue[c] \in Seq(Posts)
        /\ pending'[c] = Tail(pending[c]) /\ queue'[c] = queue[c]
        /\ pc[c] \in Streaming /\ pc'[c] \in Streaming
        BY <1>0, <1>8 DEF Writes, TypeInv, HasBatch
  <2>4. /\ pending[c] \o queue[c] # <<>>
        /\ Head(pending[c] \o queue[c]) = Head(pending[c])
        /\ Tail(pending[c] \o queue[c]) = Tail(pending[c]) \o queue[c]
        BY <2>3, HeadTailConcat
  <2>5. Phase(c) = "open" /\ Phase(c)' = "open"
        BY <2>3 DEF Phase
  <2>6. Backlog(c) = pending[c] \o queue[c] /\ Backlog(c)' = Tail(pending[c]) \o queue[c]
        BY <2>3 DEF Backlog
  <2>7. sent' = [sent EXCEPT ![c] = Append(@, Head(Backlog(c)))]
        BY <1>8, <2>4, <2>6 DEF Writes
  <2> QED
      BY <1>4, <2>1, <2>2, <2>4, <2>5, <2>6, <2>7
<1>9. ASSUME NEW c \in Conns, Fails(c)
      PROVE  Channel!Next
  <2>1. /\ sent' = sent /\ accepted' = accepted
        /\ Phase(c) = "open" /\ Phase(c)' = "closed"
        BY <1>9 DEF Fails, IsAccepted, Phase
  <2>2. \A d \in Conns \ {c} : Same(d)
        BY <1>9 DEF Fails, Phase, Backlog
  <2> QED
      BY <1>3, <2>1, <2>2
<1>10. ASSUME NEW c \in Conns, Ends(c)
       PROVE  UNCHANGED Channel!vars
  <2>1. sent' = sent /\ accepted' = accepted /\ Same(c)
        BY <1>10 DEF Ends, IsAccepted, Phase, Backlog
  <2>2. \A d \in Conns \ {c} : Same(d)
        BY <1>0, <1>10 DEF Ends, Phase, Backlog
  <2> QED
      BY <1>1, <2>1, <2>2
<1>11. ASSUME NEW p \in Posts, PostMoves(p)
       PROVE  UNCHANGED Channel!vars
  <2>1. sent' = sent /\ \A d \in Conns : Same(d)
        BY <1>11 DEF PostMoves, Phase, Backlog
  <2>2. accepted' = accepted
        BY <1>0, <1>11 DEF PostMoves, IsAccepted, ChanInv, PostsAnswer
  <2> QED
      BY <1>1, <2>1, <2>2
<1>12. ASSUME NEW p \in Posts, Wakes(p)
       PROVE  UNCHANGED Channel!vars
  <2>1. sent' = sent /\ accepted' = accepted
        BY <1>0, <1>12 DEF Wakes, IsAccepted
  <2>2. \A d \in Conns : Same(d)
        BY <1>12 DEF Wakes, Phase, Backlog
  <2> QED
      BY <1>1, <2>1, <2>2
<1>13. ASSUME NEW p \in Posts, Enqueues(p)
       PROVE  Channel!Next
  <2>0. PICK c \in Conns : c = ptr[p]
        BY <1>13 DEF Enqueues
  <2>1. c \in Conns /\ answers[p] /\ pc[c] \in Known /\ UNCHANGED <<pc, pending, sent>>
        BY <1>13, <2>0, SseAssumption DEF Enqueues, ChanInv, PostsAnswer, PointersKnown
  <2>2. /\ queue[c] \in Seq(Posts) /\ pending[c] \in Seq(Posts)
        /\ queue'[c] = Append(queue[c], p) /\ \A d \in Conns \ {c} : queue'[d] = queue[d]
        BY <1>0, <1>13, <2>0 DEF Enqueues
  <2>3. p \notin accepted /\ accepted' = accepted \cup {p}
        BY <1>0, <1>13, <2>1 DEF Enqueues, IsAccepted
  <2>4. \A d \in Conns : Phase(d)' = Phase(d) /\ (d # c => Backlog(d)' = Backlog(d))
        BY <2>1, <2>2 DEF Phase, Backlog
  <2>5. Phase(c) # "new"
        BY <2>1 DEF Phase
  <2>6. Backlog(c)' = IF Phase(c) = "open" THEN Append(Backlog(c), p) ELSE Backlog(c)
    <3>1. pending[c] \o Append(queue[c], p) = Append(pending[c] \o queue[c], p)
      <4>1. queue[c] \in Seq(Posts) /\ pending[c] \in Seq(Posts)
            BY <2>2
      <4> QED
          BY <4>1, AppendConcat, Zenon
    <3> QED
        BY <2>1, <2>2, <3>1 DEF Phase, Backlog
  <2>7. Channel!Accept(c, p)
        BY <2>1, <2>3, <2>4, <2>5, <2>6 DEF Channel!Accept, Phase, Backlog, IsAccepted
  <2> QED
      BY <2>1, <2>7 DEF Channel!Next
<1> QED
    BY <1>5, <1>1, <1>6, <1>7, <1>8, <1>9, <1>10, <1>11, <1>12, <1>13, Effects DEF ChanInv

----------------------------------------------------------------------------
LEMMA Invariants ==
    ASSUME ~Overlap
    PROVE  Spec => [](TypeInv /\ IdInv /\ NoSessionLeak /\ ChanInv)
<1>1. Init => TypeInv /\ IdInv /\ NoSessionLeak /\ ChanInv
      BY TypeInit, IdInit, ChanInit DEF Init, NoSessionLeak
<1>2. TypeInv /\ IdInv /\ [Next]_vars => IdInv'
      BY IdNext
<1> QED
    BY <1>1, <1>2, TypeNext, NoLeakNext, ChanNext, PTL DEF Spec

(* A response is only written to the stream of the session its POST        *)
(* resolved, if no two connects overlap.                                   *)
THEOREM StreamsAreSeparate ==
    ASSUME ~Overlap
    PROVE  Spec => []OwnStreamOnly
<1>1. TypeInv /\ ChanInv => OwnStreamOnly
  <2> SUFFICES ASSUME ChanInv, NEW c \in Conns, NEW k \in DOMAIN sent[c]
               PROVE  ptr[sent[c][k]] = c /\ answers[sent[c][k]]
      BY DEF OwnStreamOnly
  <2>1. sent[c] \in Seq(Owned(c))
        BY DEF ChanInv, Contents
  <2>2. sent[c][k] \in Owned(c)
        BY <2>1, ElementOfSeq, LenProperties
  <2> QED
      BY <2>2 DEF Owned, IsAccepted
<1> QED
    BY <1>1, Invariants, PTL

(* If no two connects overlap, the transport implements SseChannel: every  *)
(* stream is FIFO, no response is invented, duplicated or reordered, and   *)
(* none is lost unless its stream ends.                                    *)
THEOREM TransportImplementsChannel ==
    ASSUME ~Overlap
    PROVE  Spec => ImplementsChannel
<1>1. Init => Channel!Init
      BY Labels DEF Init, Channel!Init, Leaving
<1> QED
    BY <1>1, ChannelStep, Invariants, PTL DEF Spec, ImplementsChannel, Channel!Spec

=============================================================================
