--------------------------- MODULE Checkout_proofs ---------------------------
(* Proofs about Checkout: which answers can be stored and replayed, and who  *)
(* may place an order under a key, for any number of requests and keys.      *)
EXTENDS Checkout, TLAPS

USE NoneAssumption, FaultAssumption

\* A request whose reservation of its key stands.
Live(r) == req[r].owner /\ req[r].at \in {"handle", "record", "respond", "finalize"}

\* What the place of a request in the code says about it.
Shape(q, in) ==
    /\ q.at # "unsent" => q.key \in Keys /\ q.payload \in Payloads
    /\ q.at \in {"unsent", "reserve", "lookup"} => ~q.ran /\ ~q.owner /\ q.answer = "none"
    /\ q.at \in {"handle", "record"} => q.ran /\ q.answer = "none"
    /\ q.at = "finalize" => q.owner /\ q.answer \in Cached \cup {"error"}
    /\ q.at = "respond" => q.answer # "none"
    /\ q.owner => q.ran
    /\ q.ran => q.answer \in Cached \cup {"error", "none"}
    /\ q.at = "record" => in
    /\ in => q.ran
    /\ q.ran /\ q.answer \in {"created", "conflict"} => in

Shapes == \A r \in Requests : Shape(req[r], r \in placed)

\* The row of a key belongs to the request that runs under it.
OwnerInv ==
    /\ \A r \in Requests : Live(r) =>
          row[req[r].key].state = "progress" /\ row[req[r].key].payload = req[r].payload
    /\ \A r, s \in Requests : Live(r) /\ Live(s) /\ req[r].key = req[s].key => r = s

\* A key is free again, and may be run under again, only after its release.
RunInv ==
    /\ \A r \in Requests :
          (req[r].ran \/ req[r].at = "lookup") /\ row[req[r].key].state = "absent"
              => req[r].key \in released
    /\ \A r, s \in Requests :
          req[r].ran /\ req[s].ran /\ req[r].key = req[s].key
              => r = s \/ req[r].key \in released

\* A stored answer is one a request got from the handler.
StoredInv ==
    \A k \in Keys : row[k].state \in Cached =>
        \E e \in Requests : /\ req[e].ran /\ req[e].key = k
                            /\ req[e].payload = row[k].payload
                            /\ req[e].answer = row[k].state

\* The dialog waits for, or shows, the answer of a request of its own key.
ModalInv ==
    modal.at \in {"placing", "financing", "done"} =>
        /\ modal.req \in Requests
        /\ req[modal.req].at # "unsent" /\ req[modal.req].key = modal.key

Types == TypeOK /\ Shapes /\ (modal.at # "closed" => modal.key \in Keys)

\* The initial state satisfies them.
LEMMA InitInv == Init => Types /\ OwnerInv /\ RunInv /\ StoredInv /\ ModalInv
                          /\ ConfirmedIsPlaced /\ ReplayIsFaithful
  BY DEF Init, Types, TypeOK, Shapes, Shape, OwnerInv, RunInv, StoredInv, ModalInv, Live,
         ModalType, RequestType, RowType, Labels,
         ConfirmedIsPlaced, ReplayIsFaithful, Closed, Unsent, NoRow, Cached, Answers

\* The updates that the API makes of request r.
Moved(q, l, o)  == /\ q \in RequestType /\ q.at = l /\ q.answer = o.answer
                   /\ q.key = o.key /\ q.payload = o.payload
                   /\ (q.owner <=> o.owner) /\ (q.ran <=> o.ran)
Started(q, b, o) == /\ q \in RequestType /\ q.at = "handle" /\ q.answer = o.answer
                    /\ q.key = o.key /\ q.payload = o.payload
                    /\ (q.owner <=> b) /\ q.ran
Answered(q, a, o) == /\ q \in RequestType /\ q.at = "respond" /\ q.answer = a
                     /\ q.key = o.key /\ q.payload = o.payload
                     /\ (q.owner <=> o.owner) /\ (q.ran <=> o.ran)

LEMMA Updates ==
    ASSUME req \in [Requests -> RequestType], NEW r \in Requests
    PROVE  /\ \A l \in Labels : Moved(Goto(r, l), l, req[r])
           /\ Started(GoesOn(r, TRUE), TRUE, req[r]) /\ Started(GoesOn(r, FALSE), FALSE, req[r])
           /\ \A a \in Answers : Answered(Replies(r, a), a, req[r])
  <1>1. req[r] \in RequestType
    OBVIOUS
  <1>2. ASSUME NEW l \in Labels PROVE Goto(r, l) \in RequestType
    BY <1>1 DEF Goto, RequestType
  <1>3. ASSUME NEW b \in BOOLEAN PROVE GoesOn(r, b) \in RequestType
    BY <1>1 DEF GoesOn, RequestType, Labels
  <1>4. ASSUME NEW a \in Answers PROVE Replies(r, a) \in RequestType
    BY <1>1 DEF Replies, RequestType, Labels
  <1>5. ASSUME NEW l \in Labels PROVE Moved(Goto(r, l), l, req[r])
    BY <1>1, <1>2 DEF Moved, Goto, RequestType
  <1>6. Started(GoesOn(r, TRUE), TRUE, req[r]) /\ Started(GoesOn(r, FALSE), FALSE, req[r])
    BY <1>1, <1>3 DEF Started, GoesOn, RequestType
  <1>7. ASSUME NEW a \in Answers PROVE Answered(Replies(r, a), a, req[r])
    BY <1>1, <1>4 DEF Answered, Replies, RequestType
  <1> QED
    BY <1>5, <1>6, <1>7

\* Replacing one request by one of the right shape keeps all shapes.
LEMMA Replaced ==
    ASSUME Types, NEW r \in Requests, NEW q \in RequestType,
           req' = [req EXCEPT ![r] = q], Shape(q, r \in placed'),
           \A s \in Requests \ {r} : s \in placed' <=> s \in placed
    PROVE  req' \in [Requests -> RequestType] /\ Shapes'
  <1>1. req \in [Requests -> RequestType]
    BY DEF Types, TypeOK
  <1>2. req' \in [Requests -> RequestType] /\ req'[r] = q
        /\ \A s \in Requests \ {r} : req'[s] = req[s]
    BY <1>1
  <1>3. ASSUME NEW s \in Requests \ {r} PROVE Shape(req'[s], s \in placed')
    <2>1. Shape(req[s], s \in placed)
      BY DEF Types, Shapes
    <2> QED
      BY <1>2, <2>1 DEF Shape
  <1> QED
    BY <1>2, <1>3 DEF Shapes

\* Every step of the API on a request leaves it in the right shape.
LEMMA ServeShapes ==
    ASSUME Types, NEW r \in Requests, Serve(r) \/ FailToFinalize(r) \/ Crash(r)
    PROVE  req' \in [Requests -> RequestType] /\ Shapes'
  <1>1. req \in [Requests -> RequestType] /\ Shape(req[r], r \in placed)
    BY DEF Types, TypeOK, Shapes
  <1>2. \A l \in Labels : Moved(Goto(r, l), l, req[r])
    BY <1>1, Updates
  <1>3. Started(GoesOn(r, TRUE), TRUE, req[r]) /\ Started(GoesOn(r, FALSE), FALSE, req[r])
    BY <1>1, Updates
  <1>4. \A a \in Answers : Answered(Replies(r, a), a, req[r])
    BY <1>1, Updates
  <1>5. CASE Reserve(r)
    <2>1. Moved(Goto(r, "lookup"), "lookup", req[r])
      BY <1>2 DEF Labels
    <2>2. req[r].at = "reserve" /\ placed' = placed
          /\ (req' = [req EXCEPT ![r] = GoesOn(r, TRUE)] \/ req' = [req EXCEPT ![r] = Goto(r, "lookup")])
      BY <1>5 DEF Reserve
    <2>3. CASE req' = [req EXCEPT ![r] = GoesOn(r, TRUE)]
      <3>1. GoesOn(r, TRUE) \in RequestType /\ Shape(GoesOn(r, TRUE), r \in placed')
        BY <1>1, <1>3, <2>2 DEF Shape, Started
      <3> QED
        BY <2>2, <2>3, <3>1, Replaced
    <2>4. CASE req' = [req EXCEPT ![r] = Goto(r, "lookup")]
      <3>1. Goto(r, "lookup") \in RequestType /\ Shape(Goto(r, "lookup"), r \in placed')
        BY <1>1, <2>1, <2>2 DEF Shape, Moved
      <3> QED
        BY <2>2, <2>4, <3>1, Replaced
    <2> QED
      BY <2>2, <2>3, <2>4
  <1>6. CASE Lookup(r)
    <2>1. req[r].at = "lookup" /\ placed' = placed /\ req[r].key \in Keys
      BY <1>1, <1>6 DEF Lookup, Shape
    <2>2. row[req[r].key].state # "absent" /\ row[req[r].key].state # "progress" =>
              row[req[r].key].state \in Cached
      BY <2>1 DEF Types, TypeOK, RowType
    <2>3. \/ req' = [req EXCEPT ![r] = GoesOn(r, FALSE)]
          \/ \E a \in Answers \ {"none", "error"} : req' = [req EXCEPT ![r] = Replies(r, a)]
      BY <1>6, <2>2 DEF Lookup, Answers, Cached
    <2>4. CASE req' = [req EXCEPT ![r] = GoesOn(r, FALSE)]
      <3>1. GoesOn(r, FALSE) \in RequestType /\ Shape(GoesOn(r, FALSE), r \in placed')
        BY <1>1, <1>3, <2>1 DEF Shape, Started
      <3> QED
        BY <2>1, <2>4, <3>1, Replaced
    <2>5. ASSUME NEW a \in Answers \ {"none", "error"}, req' = [req EXCEPT ![r] = Replies(r, a)]
          PROVE  req' \in [Requests -> RequestType] /\ Shapes'
      <3>1. Replies(r, a) \in RequestType /\ Shape(Replies(r, a), r \in placed')
        BY <1>1, <1>4, <2>1 DEF Shape, Answered
      <3> QED
        BY <2>1, <2>5, <3>1, Replaced
    <2> QED
      BY <2>3, <2>4, <2>5
  <1>7. CASE FailBeforeOrder(r) \/ RecordOrder(r)
    <2>1. PICK a \in Cached \cup {"error"} :
              /\ placed' = placed /\ req' = [req EXCEPT ![r] = Replies(r, a)]
              /\ \/ req[r].at = "handle" /\ a \in {"refused", "error"}
                 \/ req[r].at = "record"
      BY <1>7 DEF FailBeforeOrder, RecordOrder, Cached
    <2>2. Answered(Replies(r, a), a, req[r])
      BY <1>4 DEF Answers
    <2>3. Replies(r, a) \in RequestType /\ Shape(Replies(r, a), r \in placed')
      BY <1>1, <2>1, <2>2 DEF Shape, Answered, Cached
    <2> QED
      BY <2>1, <2>3, Replaced
  <1>8. CASE CompleteDraftOrder(r)
    <2>1. Moved(Goto(r, "record"), "record", req[r])
      BY <1>2 DEF Labels
    <2>2. req[r].at = "handle" /\ placed' = placed \cup {r}
          /\ req' = [req EXCEPT ![r] = Goto(r, "record")]
      BY <1>8 DEF CompleteDraftOrder
    <2>3. Goto(r, "record") \in RequestType /\ Shape(Goto(r, "record"), r \in placed')
      BY <1>1, <2>1, <2>2 DEF Shape, Moved
    <2> QED
      BY <2>2, <2>3, Replaced
  <1>9. CASE Respond(r)
    <2>1. PICK l \in {"finalize", "over"} :
              /\ req[r].at = "respond" /\ placed' = placed
              /\ req' = [req EXCEPT ![r] = Goto(r, l)]
              /\ l = "finalize" => req[r].owner
      BY <1>9 DEF Respond
    <2>2. Moved(Goto(r, l), l, req[r])
      BY <1>2 DEF Labels
    <2>3. Goto(r, l) \in RequestType /\ Shape(Goto(r, l), r \in placed')
      BY <1>1, <2>1, <2>2 DEF Shape, Moved
    <2> QED
      BY <2>1, <2>3, Replaced
  <1>10. CASE Finalize(r) \/ FailToFinalize(r) \/ Crash(r)
    <2>1. Moved(Goto(r, "over"), "over", req[r])
      BY <1>2 DEF Labels
    <2>2. req[r].at # "unsent" /\ placed' = placed /\ req' = [req EXCEPT ![r] = Goto(r, "over")]
      BY <1>10 DEF Finalize, FailToFinalize, Crash, Lose
    <2>3. Goto(r, "over") \in RequestType /\ Shape(Goto(r, "over"), r \in placed')
      BY <1>1, <2>1, <2>2 DEF Shape, Moved
    <2> QED
      BY <2>2, <2>3, Replaced
  <1> QED
    BY <1>5, <1>6, <1>7, <1>8, <1>9, <1>10 DEF Serve

\* Types and the shape of requests are inductive together.
LEMMA TypesStep == Types /\ [Next]_vars => Types'
  <1> SUFFICES ASSUME Types, [Next]_vars PROVE Types'
    OBVIOUS
  <1>0. /\ modal \in ModalType /\ (modal.at # "closed" => modal.key \in Keys)
        /\ req \in [Requests -> RequestType] /\ row \in [Keys -> RowType]
        /\ used \subseteq Keys /\ released \subseteq Keys /\ lost \subseteq Keys
        /\ placed \subseteq Requests /\ Shapes
    BY DEF Types, TypeOK
  <1>1. CASE Open \/ InitiateFinancing \/ Close \/ UNCHANGED vars
    BY <1>1, <1>0 DEF Types, TypeOK, Open, InitiateFinancing, Close, Closed, vars, Shapes, ModalType
  <1>2. ASSUME NEW p \in Payloads, Send(p) PROVE Types'
    <2>1. PICK r \in Requests :
              /\ modal.at \in {"review", "error"} /\ req[r].at = "unsent"
              /\ modal' = [modal EXCEPT !.at = "placing", !.req = r]
              /\ req' = [req EXCEPT ![r] = [Unsent EXCEPT !.at = "reserve", !.key = modal.key,
                                                         !.payload = p]]
              /\ UNCHANGED <<used, row, placed, released, lost>>
      BY <1>2 DEF Send
    <2> DEFINE q == [Unsent EXCEPT !.at = "reserve", !.key = modal.key, !.payload = p]
    <2>2. /\ q.at = "reserve" /\ q.key = modal.key /\ q.payload = p
          /\ ~q.owner /\ ~q.ran /\ q.answer = "none"
      BY DEF Unsent
    <2>3. q \in RequestType
      BY <1>0, <2>1 DEF Unsent, RequestType, Labels, Answers
    <2>4. Shape(req[r], r \in placed)
      BY <1>0 DEF Shapes
    <2>5. Shape(q, r \in placed')
      BY <1>0, <2>1, <2>2, <2>4 DEF Shape
    <2>6. modal' \in ModalType /\ (modal.at # "closed" => modal.key \in Keys)'
      BY <1>0, <2>1 DEF ModalType
    <2> HIDE DEF q
    <2>7. req' \in [Requests -> RequestType] /\ Shapes'
      BY <2>1, <2>3, <2>5, Replaced DEF q
    <2> QED
      BY <1>0, <2>1, <2>6, <2>7 DEF Types, TypeOK
  <1>3. ASSUME NEW r \in Requests, LoseConnection(r) PROVE Types'
    BY <1>0, <1>3 DEF Types, TypeOK, LoseConnection, Hearing, Shapes, ModalType
  <1>4. ASSUME NEW r \in Requests, Serve(r) \/ FailToFinalize(r) \/ Crash(r) PROVE Types'
    <2>1. req' \in [Requests -> RequestType] /\ Shapes'
      BY <1>4, ServeShapes
    <2>2. Shape(req[r], r \in placed) /\ req[r] \in RequestType
      BY <1>0 DEF Shapes
    <2>3. row' \in [Keys -> RowType]
      <3>1. CASE Reserve(r)
        <4> DEFINE v == [state |-> "progress", payload |-> req[r].payload]
        <4>1. v \in RowType
          BY <2>2, <3>1 DEF Reserve, RowType, Shape
        <4>2. row' = [row EXCEPT ![req[r].key] = v] \/ row' = row
          BY <3>1 DEF Reserve
        <4> HIDE DEF v
        <4> QED
          BY <1>0, <4>1, <4>2
      <3>2. CASE Finalize(r)
        BY <1>0, <2>2, <3>2 DEF Finalize, RowType, NoRow, Shape
      <3> QED
        BY <1>0, <1>4, <3>1, <3>2 DEF Serve, Lookup, FailBeforeOrder, CompleteDraftOrder,
           RecordOrder, Respond, FailToFinalize, Crash, Lose
    <2>4. modal' \in ModalType /\ (modal.at # "closed" => modal.key \in Keys)'
      <3>1. \/ modal' = modal
            \/ /\ Hearing(r)
               /\ \E next \in {"financing", "done", "error"} : modal' = [modal EXCEPT !.at = next]
        <4>1. CASE Respond(r)
          BY <4>1 DEF Respond, After
        <4>2. CASE FailToFinalize(r) \/ Crash(r)
          BY <4>2 DEF FailToFinalize, Crash, Lose
        <4> QED
          BY <1>4, <4>1, <4>2 DEF Serve, Reserve, Lookup, FailBeforeOrder, CompleteDraftOrder,
             RecordOrder, Finalize
      <3> QED
        BY <1>0, <3>1 DEF Hearing, ModalType
    <2>5. /\ used' \subseteq Keys /\ released' \subseteq Keys /\ lost' \subseteq Keys
          /\ placed' \subseteq Requests
      <3>1. req[r].at # "unsent" => req[r].key \in Keys
        BY <2>2 DEF Shape
      <3> QED
        BY <1>0, <1>4, <3>1 DEF Serve, Reserve, Lookup, FailBeforeOrder, CompleteDraftOrder,
           RecordOrder, Respond, Finalize, FailToFinalize, Crash, Lose
    <2> QED
      BY <2>1, <2>3, <2>4, <2>5 DEF Types, TypeOK
  <1> QED
    BY <1>1, <1>2, <1>3, <1>4 DEF Next

\* Every variable keeps its type.
THEOREM CheckoutTyped == Spec => []TypeOK
  <1>1. Init => Types
    BY InitInv
  <1>2. Types => TypeOK
    BY DEF Types
  <1> QED
    BY <1>1, <1>2, TypesStep, PTL DEF Spec

\* The steps of the API told apart by what they do to the row of the key.
Took(r) ==          \* the reservation
    /\ row[req[r].key].state = "absent"
    /\ row' = [row EXCEPT ![req[r].key] = [state |-> "progress", payload |-> req[r].payload]]
    /\ ~req[r].ran /\ req'[r].ran /\ req'[r].owner
    /\ req'[r].at = "handle" /\ released' = released
Found(r) ==         \* a row is there
    /\ req[r].at = "reserve" /\ row[req[r].key].state # "absent" /\ row' = row
    /\ ~req'[r].ran /\ ~req'[r].owner /\ req'[r].at = "lookup" /\ req'[r].answer = "none"
    /\ released' = released
Missed(r) ==        \* the row has gone since
    /\ req[r].at = "lookup" /\ row[req[r].key].state = "absent" /\ row' = row
    /\ ~req[r].ran /\ req'[r].ran /\ ~req'[r].owner /\ req'[r].at = "handle"
    /\ released' = released
Replayed(r) ==      \* the answer comes from the row, if it is not a refusal
    /\ row' = row /\ released' = released
    /\ ~req[r].ran /\ ~req'[r].ran /\ ~req'[r].owner /\ req'[r].at = "respond"
    /\ req'[r].answer \in Cached =>
          /\ row[req[r].key].payload = req[r].payload
          /\ row[req[r].key].state = req'[r].answer
Passed(r) ==        \* on in the handler, out of it, or dead
    /\ row' = row /\ released' = released
    /\ (req'[r].ran <=> req[r].ran) /\ (req'[r].owner <=> req[r].owner)
    /\ req'[r].at \in {"record", "respond", "finalize", "over"}
    /\ req'[r].at # "over" => req[r].at \in {"handle", "record", "respond"}
    /\ \/ req'[r].answer = req[r].answer
       \/ req[r].answer = "none" /\ req[r].ran
Ended(r) ==         \* "finish"
    /\ req[r].at = "finalize" /\ req[r].owner /\ req'[r].at = "over"
    /\ req'[r].answer = req[r].answer /\ req'[r].ran /\ req[r].ran
    /\ \/ row' = [row EXCEPT ![req[r].key] = NoRow] /\ released' = released \cup {req[r].key}
       \/ /\ row' = [row EXCEPT ![req[r].key] = [row[req[r].key] EXCEPT !.state = req[r].answer]]
          /\ req[r].answer \in Cached /\ released' = released

LEMMA ServeView ==
    ASSUME Types, NEW r \in Requests, Serve(r) \/ FailToFinalize(r) \/ Crash(r)
    PROVE  /\ \A s \in Requests \ {r} : req'[s] = req[s]
           /\ req[r].key \in Keys /\ req'[r].key = req[r].key /\ req'[r].payload = req[r].payload
           /\ Took(r) \/ Found(r) \/ Missed(r) \/ Replayed(r) \/ Passed(r) \/ Ended(r)
  <1>1. req \in [Requests -> RequestType] /\ Shape(req[r], r \in placed)
    BY DEF Types, TypeOK, Shapes
  <1>2. ASSUME NEW l \in Labels, req' = [req EXCEPT ![r] = Goto(r, l)]
        PROVE  Moved(req'[r], l, req[r]) /\ \A s \in Requests \ {r} : req'[s] = req[s]
    BY <1>1, <1>2, Updates
  <1>3. ASSUME NEW b \in {TRUE, FALSE}, req' = [req EXCEPT ![r] = GoesOn(r, b)]
        PROVE  Started(req'[r], b, req[r]) /\ \A s \in Requests \ {r} : req'[s] = req[s]
    BY <1>1, <1>3, Updates
  <1>4. ASSUME NEW a \in Answers, req' = [req EXCEPT ![r] = Replies(r, a)]
        PROVE  Answered(req'[r], a, req[r]) /\ \A s \in Requests \ {r} : req'[s] = req[s]
    BY <1>1, <1>4, Updates
  <1>5. req[r].key \in Keys
    BY <1>1 DEF Shape, Serve, Reserve, Lookup, FailBeforeOrder, CompleteDraftOrder,
       RecordOrder, Respond, Finalize, FailToFinalize, Crash
  <1>6. CASE Reserve(r)
    <2>1. CASE row[req[r].key].state = "absent"
      <3>1. req' = [req EXCEPT ![r] = GoesOn(r, TRUE)]
        BY <1>6, <2>1 DEF Reserve
      <3>2. Started(req'[r], TRUE, req[r]) /\ \A s \in Requests \ {r} : req'[s] = req[s]
        BY <1>3, <3>1
      <3> QED
        BY <1>1, <1>5, <1>6, <2>1, <3>2 DEF Reserve, Started, Took, Shape
    <2>2. CASE row[req[r].key].state # "absent"
      <3>1. req' = [req EXCEPT ![r] = Goto(r, "lookup")]
        BY <1>6, <2>2 DEF Reserve
      <3>2. Moved(req'[r], "lookup", req[r]) /\ \A s \in Requests \ {r} : req'[s] = req[s]
        BY <1>2, <3>1 DEF Labels
      <3> QED
        BY <1>1, <1>5, <1>6, <2>2, <3>2 DEF Reserve, Moved, Found, Shape
    <2> QED
      BY <2>1, <2>2
  <1>7. CASE Lookup(r)
    <2>1. CASE row[req[r].key].state = "absent"
      <3>1. req' = [req EXCEPT ![r] = GoesOn(r, FALSE)]
        BY <1>7, <2>1 DEF Lookup
      <3>2. Started(req'[r], FALSE, req[r]) /\ \A s \in Requests \ {r} : req'[s] = req[s]
        BY <1>3, <3>1
      <3> QED
        BY <1>1, <1>5, <1>7, <2>1, <3>2 DEF Lookup, Started, Missed, Shape
    <2>2. CASE row[req[r].key].state # "absent"
      <3>1. row[req[r].key].state \in Cached \cup {"progress"}
        BY <1>5, <2>2 DEF Types, TypeOK, RowType
      <3>2. PICK a \in Answers :
                /\ req' = [req EXCEPT ![r] = Replies(r, a)]
                /\ a \in Cached => /\ row[req[r].key].payload = req[r].payload
                                   /\ row[req[r].key].state = a
        <4>1. CASE ~SamePayload(r)
          <5>1. req' = [req EXCEPT ![r] = Replies(r, "reuse")]
            BY <1>7, <2>2, <4>1 DEF Lookup
          <5> QED
            BY <5>1 DEF Answers, Cached
        <4>2. CASE SamePayload(r) /\ row[req[r].key].state = "progress"
          <5>1. req' = [req EXCEPT ![r] = Replies(r, "busy")]
            BY <1>7, <2>2, <4>2 DEF Lookup
          <5> QED
            BY <5>1 DEF Answers, Cached
        <4>3. CASE SamePayload(r) /\ row[req[r].key].state # "progress"
          <5>1. req' = [req EXCEPT ![r] = Replies(r, row[req[r].key].state)]
            BY <1>7, <2>2, <4>3 DEF Lookup
          <5>2. row[req[r].key].state \in Answers
            BY <3>1, <4>3 DEF Answers
          <5> QED
            BY <4>3, <5>1, <5>2 DEF SamePayload
        <4> QED
          BY <4>1, <4>2, <4>3
      <3>3. Answered(req'[r], a, req[r]) /\ \A s \in Requests \ {r} : req'[s] = req[s]
        BY <1>4, <3>2
      <3>4. req[r].at = "lookup" /\ row' = row /\ released' = released
        BY <1>7 DEF Lookup
      <3>5. ~req[r].ran /\ ~req[r].owner
        BY <1>1, <3>4 DEF Shape
      <3> QED
        BY <1>5, <3>2, <3>3, <3>4, <3>5 DEF Answered, Replayed
    <2> QED
      BY <2>1, <2>2
  <1>8. CASE FailBeforeOrder(r) \/ RecordOrder(r)
    <2>1. PICK a \in Answers : req' = [req EXCEPT ![r] = Replies(r, a)]
      BY <1>8 DEF FailBeforeOrder, RecordOrder, Answers, Cached
    <2>2. Answered(req'[r], a, req[r]) /\ \A s \in Requests \ {r} : req'[s] = req[s]
      BY <1>4, <2>1
    <2> QED
      BY <1>1, <1>5, <1>8, <2>2 DEF FailBeforeOrder, RecordOrder, Answered, Passed, Shape
  <1>9. CASE CompleteDraftOrder(r)
    <2>1. Moved(req'[r], "record", req[r]) /\ \A s \in Requests \ {r} : req'[s] = req[s]
      BY <1>2, <1>9 DEF CompleteDraftOrder, Labels
    <2> QED
      BY <1>1, <1>5, <1>9, <2>1 DEF CompleteDraftOrder, Moved, Passed
  <1>10. CASE Respond(r)
    <2>1. PICK l \in {"finalize", "over"} : req' = [req EXCEPT ![r] = Goto(r, l)]
      BY <1>10 DEF Respond
    <2>2. Moved(req'[r], l, req[r]) /\ \A s \in Requests \ {r} : req'[s] = req[s]
      BY <1>2, <2>1 DEF Labels
    <2> QED
      BY <1>5, <1>10, <2>2 DEF Respond, Moved, Passed
  <1>11. CASE Finalize(r)
    <2>1. Moved(req'[r], "over", req[r]) /\ \A s \in Requests \ {r} : req'[s] = req[s]
      BY <1>2, <1>11 DEF Finalize, Labels
    <2>2. req[r].owner /\ req[r].ran /\ req[r].answer \in Cached \cup {"error"}
      BY <1>1, <1>11 DEF Finalize, Shape
    <2> QED
      BY <1>5, <1>11, <2>1, <2>2 DEF Finalize, Moved, Ended
  <1>12. CASE FailToFinalize(r) \/ Crash(r)
    <2>1. Moved(req'[r], "over", req[r]) /\ \A s \in Requests \ {r} : req'[s] = req[s]
      BY <1>2, <1>12 DEF FailToFinalize, Crash, Lose, Labels
    <2> QED
      BY <1>5, <1>12, <2>1 DEF FailToFinalize, Crash, Lose, Moved, Passed
  <1> QED
    BY <1>6, <1>7, <1>8, <1>9, <1>10, <1>11, <1>12 DEF Serve

\* The rest: a click adds a request that has not run, the dialog's other steps
\* and a lost connection touch no request and no row.
LEMMA DialogView ==
    ASSUME Types, [Next]_vars,
           ~ \E r \in Requests : Serve(r) \/ FailToFinalize(r) \/ Crash(r)
    PROVE  /\ row' = row /\ released' = released
           /\ \/ req' = req
              \/ \E r \in Requests :
                    /\ \A s \in Requests \ {r} : req'[s] = req[s]
                    /\ ~req[r].ran /\ ~req'[r].ran /\ ~req'[r].owner
                    /\ req[r].at = "unsent" /\ req'[r].at = "reserve" /\ req'[r].answer = "none"
  <1>1. CASE \E p \in Payloads : Send(p)
    <2>1. PICK p \in Payloads, r \in Requests :
              /\ req[r].at = "unsent"
              /\ req' = [req EXCEPT ![r] = [Unsent EXCEPT !.at = "reserve", !.key = modal.key,
                                                         !.payload = p]]
              /\ row' = row /\ released' = released
      BY <1>1 DEF Send
    <2> DEFINE q == [Unsent EXCEPT !.at = "reserve", !.key = modal.key, !.payload = p]
    <2>2. q.at = "reserve" /\ ~q.owner /\ ~q.ran /\ q.answer = "none"
      BY DEF Unsent
    <2>3. ~req[r].ran
      BY <2>1 DEF Types, Shapes, Shape
    <2> HIDE DEF q
    <2>4. req'[r] = q /\ \A s \in Requests \ {r} : req'[s] = req[s]
      BY <2>1 DEF Types, TypeOK, q
    <2> QED
      BY <2>1, <2>2, <2>3, <2>4
  <1>2. CASE ~ \E p \in Payloads : Send(p)
    BY <1>2 DEF Next, Open, InitiateFinancing, Close, LoseConnection, vars
  <1> QED
    BY <1>1, <1>2

RowsInv == OwnerInv /\ RunInv /\ StoredInv

\* A reservation belongs to one live request.
LEMMA OwnerStep == Types /\ OwnerInv /\ [Next]_vars => OwnerInv'
  <1> SUFFICES ASSUME Types, OwnerInv, [Next]_vars PROVE OwnerInv'
    OBVIOUS
  <1>0. row \in [Keys -> RowType] /\ \A r \in Requests : Shape(req[r], r \in placed)
    BY DEF Types, TypeOK, Shapes
  <1>1. ASSUME NEW r \in Requests, Serve(r) \/ FailToFinalize(r) \/ Crash(r)
        PROVE  OwnerInv'
    <2>1. /\ \A s \in Requests \ {r} : req'[s] = req[s]
          /\ req[r].key \in Keys /\ req'[r].key = req[r].key /\ req'[r].payload = req[r].payload
      BY <1>1, ServeView
    <2>2. \A s \in Requests : Live(s) => req[s].key \in Keys
      BY <1>0 DEF Live, Shape
    <2>3. CASE Took(r)
      <3>1. \A s \in Requests : Live(s) => req[s].key # req[r].key
        BY <2>3 DEF OwnerInv, Took
      <3>2. row'[req[r].key] = [state |-> "progress", payload |-> req[r].payload]
            /\ \A k \in Keys \ {req[r].key} : row'[k] = row[k]
        BY <1>0, <2>1, <2>3 DEF Took
      <3> QED
        BY <2>1, <2>2, <3>1, <3>2 DEF OwnerInv, Live
    <2>4. CASE Found(r) \/ Missed(r) \/ Replayed(r)
      <3>1. row' = row /\ ~req'[r].owner
        BY <2>4 DEF Found, Missed, Replayed
      <3> QED
        BY <2>1, <3>1 DEF OwnerInv, Live
    <2>5. CASE Passed(r)
      <3>1. row' = row /\ (Live(r)' => Live(r))
        BY <2>5 DEF Passed, Live
      <3> QED
        BY <2>1, <3>1 DEF OwnerInv, Live
    <2>6. CASE Ended(r)
      <3>1. Live(r) /\ ~Live(r)'
        BY <2>6 DEF Ended, Live
      <3>2. \A s \in Requests \ {r} : Live(s) => req[s].key # req[r].key
        BY <3>1 DEF OwnerInv
      <3>3. \A k \in Keys \ {req[r].key} : row'[k] = row[k]
        BY <1>0, <2>1, <2>6 DEF Ended
      <3> QED
        BY <2>1, <2>2, <3>1, <3>2, <3>3 DEF OwnerInv, Live
    <2> QED
      BY <1>1, <2>3, <2>4, <2>5, <2>6, ServeView
  <1>2. CASE ~ \E r \in Requests : Serve(r) \/ FailToFinalize(r) \/ Crash(r)
    BY <1>2, DialogView DEF OwnerInv, Live
  <1> QED
    BY <1>1, <1>2

\* Nobody runs under a key that was run under before, unless it was released.
LEMMA RunStep == Types /\ OwnerInv /\ RunInv /\ [Next]_vars => RunInv'
  <1> SUFFICES ASSUME Types, OwnerInv, RunInv, [Next]_vars PROVE RunInv'
    OBVIOUS
  <1>0. row \in [Keys -> RowType] /\ released \subseteq Keys
        /\ \A r \in Requests : Shape(req[r], r \in placed)
    BY DEF Types, TypeOK, Shapes
  <1>1. ASSUME NEW r \in Requests, Serve(r) \/ FailToFinalize(r) \/ Crash(r)
        PROVE  RunInv'
    <2>1. /\ \A s \in Requests \ {r} : req'[s] = req[s]
          /\ req[r].key \in Keys /\ req'[r].key = req[r].key
      BY <1>1, ServeView
    <2>2. \A s \in Requests : req[s].ran \/ req[s].at = "lookup" => req[s].key \in Keys
      <3>1. ASSUME NEW s \in Requests, req[s].ran \/ req[s].at = "lookup"
            PROVE  req[s].at # "unsent"
        BY <1>0, <3>1 DEF Shape
      <3> QED
        BY <1>0, <3>1 DEF Shape
    <2>3. CASE Took(r)
      <3>1. row'[req[r].key].state = "progress"
            /\ \A k \in Keys \ {req[r].key} : row'[k] = row[k]
        BY <1>0, <2>1, <2>3 DEF Took
      <3>2. \A s \in Requests : req[s].ran /\ req[s].key = req[r].key => req[s].key \in released
        BY <2>3 DEF RunInv, Took
      <3> QED
        BY <2>1, <2>2, <2>3, <3>1, <3>2 DEF RunInv, Took
    <2>4. CASE Found(r) \/ Replayed(r)
      BY <2>1, <2>4 DEF RunInv, Found, Replayed
    <2>5. CASE Missed(r)
      <3>1. req[r].key \in released
        BY <2>5 DEF RunInv, Missed
      <3> QED
        BY <2>1, <2>5, <3>1 DEF RunInv, Missed
    <2>6. CASE Passed(r)
      BY <2>1, <2>6 DEF RunInv, Passed
    <2>7. CASE Ended(r)
      <3>1. \A k \in Keys \ {req[r].key} : row'[k] = row[k]
        BY <1>0, <2>1, <2>7 DEF Ended
      <3>2. row'[req[r].key].state # "absent" \/ req[r].key \in released'
        BY <1>0, <2>1, <2>7 DEF Ended, Cached, RowType
      <3>3. released \subseteq released'
        BY <2>7 DEF Ended
      <3> QED
        BY <2>1, <2>2, <2>7, <3>1, <3>2, <3>3 DEF RunInv, Ended
    <2> QED
      BY <1>1, <2>3, <2>4, <2>5, <2>6, <2>7, ServeView
  <1>2. CASE ~ \E r \in Requests : Serve(r) \/ FailToFinalize(r) \/ Crash(r)
    BY <1>2, DialogView DEF RunInv
  <1> QED
    BY <1>1, <1>2

\* A stored answer stays the answer of a request that ran.
LEMMA StoredStep == Types /\ OwnerInv /\ StoredInv /\ [Next]_vars => StoredInv'
  <1> SUFFICES ASSUME Types, OwnerInv, StoredInv, [Next]_vars PROVE StoredInv'
    OBVIOUS
  <1>0. row \in [Keys -> RowType]
    BY DEF Types, TypeOK
  <1>1. ASSUME NEW r \in Requests, Serve(r) \/ FailToFinalize(r) \/ Crash(r)
        PROVE  StoredInv'
    <2>1. /\ \A s \in Requests \ {r} : req'[s] = req[s]
          /\ req[r].key \in Keys /\ req'[r].key = req[r].key /\ req'[r].payload = req[r].payload
      BY <1>1, ServeView
    <2>2. \A e \in Requests : req[e].ran /\ req[e].answer \in Cached =>
              /\ req'[e].ran /\ req'[e].key = req[e].key
              /\ req'[e].payload = req[e].payload /\ req'[e].answer = req[e].answer
      <3>1. req[r].ran /\ req[r].answer \in Cached => req'[r].ran /\ req'[r].answer = req[r].answer
        <4>1. req[r].at \in {"reserve", "lookup"} => ~req[r].ran
          BY DEF Types, Shapes, Shape
        <4> QED
          BY <1>1, <4>1, ServeView DEF Took, Found, Missed, Replayed, Passed, Ended, Cached
      <3> QED
        BY <2>1, <3>1
    <2>3. ASSUME NEW k \in Keys, row'[k] = row[k], row'[k].state \in Cached
          PROVE  \E e \in Requests : /\ req'[e].ran /\ req'[e].key = k
                                     /\ req'[e].payload = row'[k].payload
                                     /\ req'[e].answer = row'[k].state
      BY <2>2, <2>3 DEF StoredInv
    <2>4. CASE Took(r)
      <3>1. row'[req[r].key].state = "progress"
            /\ \A k \in Keys \ {req[r].key} : row'[k] = row[k]
        BY <1>0, <2>1, <2>4 DEF Took
      <3> QED
        BY <2>3, <3>1 DEF StoredInv, Cached
    <2>5. CASE Found(r) \/ Missed(r) \/ Replayed(r) \/ Passed(r)
      BY <2>3, <2>5 DEF StoredInv, Found, Missed, Replayed, Passed
    <2>6. CASE Ended(r)
      <3>1. \A k \in Keys \ {req[r].key} : row'[k] = row[k]
        BY <1>0, <2>1, <2>6 DEF Ended
      <3>2. row[req[r].key].payload = req[r].payload
        BY <2>6 DEF Ended, OwnerInv, Live
      <3>3. \/ row'[req[r].key].state = "absent"
            \/ /\ row'[req[r].key].state = req[r].answer
               /\ row'[req[r].key].payload = req[r].payload
        BY <1>0, <2>1, <2>6, <3>2 DEF Ended, NoRow, RowType
      <3> QED
        BY <2>1, <2>3, <2>6, <3>1, <3>3 DEF StoredInv, Ended, Cached
    <2> QED
      BY <1>1, <2>4, <2>5, <2>6, ServeView
  <1>2. CASE ~ \E r \in Requests : Serve(r) \/ FailToFinalize(r) \/ Crash(r)
    <2>1. row' = row
      BY <1>2, DialogView
    <2>2. \A e \in Requests : req[e].ran => req'[e] = req[e]
      BY <1>2, DialogView
    <2> QED
      BY <2>1, <2>2 DEF StoredInv
  <1> QED
    BY <1>1, <1>2

\* Types, the owner of a reservation, who has run and what is stored.
LEMMA RowsInvariant == Spec => [](Types /\ RowsInv)
  <1>1. Init => Types /\ RowsInv
    BY InitInv DEF RowsInv
  <1>2. Types /\ RowsInv /\ [Next]_vars => (Types /\ RowsInv)'
    BY TypesStep, OwnerStep, RunStep, StoredStep DEF RowsInv
  <1> QED
    BY <1>1, <1>2, PTL DEF Spec

\* Two requests of one key place an order only if a server error gave the key
\* back.
THEOREM OrderPlacedOnce == Spec => []PlacedOnceUnlessReleased
  <1>1. Types /\ RowsInv => PlacedOnceUnlessReleased
    <2> SUFFICES ASSUME Types, RowsInv PROVE PlacedOnceUnlessReleased
      OBVIOUS
    <2>1. \A r \in placed : r \in Requests /\ req[r].ran
      BY DEF Types, TypeOK, Shapes, Shape
    <2> QED
      BY <2>1 DEF RowsInv, RunInv, PlacedOnceUnlessReleased
  <1> QED
    BY <1>1, RowsInvariant, PTL

\* A replayed answer is one that a request with the same key and payload got.
THEOREM ReplayedFaithfully == Spec => []ReplayIsFaithful
  <1>1. Init => ReplayIsFaithful
    BY InitInv
  <1>2. Types /\ RowsInv /\ ReplayIsFaithful /\ [Next]_vars => ReplayIsFaithful'
    <2> SUFFICES ASSUME Types, RowsInv, ReplayIsFaithful, [Next]_vars PROVE ReplayIsFaithful'
      OBVIOUS
    <2>1. ASSUME NEW r \in Requests, Serve(r) \/ FailToFinalize(r) \/ Crash(r)
          PROVE  ReplayIsFaithful'
      <3>1. /\ \A s \in Requests \ {r} : req'[s] = req[s]
            /\ req[r].key \in Keys /\ req'[r].key = req[r].key /\ req'[r].payload = req[r].payload
        BY <2>1, ServeView
      <3>2. req[r].at \in {"reserve", "lookup"} => ~req[r].ran /\ req[r].answer = "none"
        BY DEF Types, Shapes, Shape
      <3>3. \A e \in Requests : req[e].ran /\ req[e].answer \in Cached =>
                /\ req'[e].ran /\ req'[e].key = req[e].key
                /\ req'[e].payload = req[e].payload /\ req'[e].answer = req[e].answer
        <4>1. req[r].ran /\ req[r].answer \in Cached => req'[r].ran /\ req'[r].answer = req[r].answer
          BY <2>1, <3>2, ServeView
             DEF Took, Found, Missed, Replayed, Passed, Ended, Cached
        <4> QED
          BY <3>1, <4>1
      <3>4. ~req'[r].ran /\ req'[r].answer \in Cached =>
              \/ ~req[r].ran /\ req[r].answer = req'[r].answer
              \/ Replayed(r)
        BY <2>1, ServeView DEF Took, Found, Missed, Passed, Ended, Cached
      <3> QED
        BY <3>1, <3>3, <3>4 DEF ReplayIsFaithful, RowsInv, StoredInv, Replayed
    <2>2. CASE ~ \E r \in Requests : Serve(r) \/ FailToFinalize(r) \/ Crash(r)
      BY <2>2, DialogView DEF ReplayIsFaithful, Cached
    <2> QED
      BY <2>1, <2>2
  <1> QED
    BY <1>1, <1>2, RowsInvariant, PTL DEF Spec

\* The answer of a request that reports an order: its own order, or that of a
\* request with the same key and payload.
LEMMA CreatedIsPlaced ==
    ASSUME Types, ReplayIsFaithful, NEW r \in Requests, req[r].answer = "created"
    PROVE  \E e \in placed : req[e].key = req[r].key /\ req[e].payload = req[r].payload
  <1>1. CASE req[r].ran
    BY <1>1 DEF Types, Shapes, Shape
  <1>2. CASE ~req[r].ran
    <2>1. PICK e \in Requests :
              /\ req[e].ran /\ req[e].key = req[r].key
              /\ req[e].payload = req[r].payload /\ req[e].answer = "created"
      BY <1>2 DEF ReplayIsFaithful, Cached
    <2> QED
      BY <2>1 DEF Types, Shapes, Shape
  <1> QED
    BY <1>1, <1>2

\* The dialog shows success on an answer "created" only.
LEMMA ShownStep ==
    ASSUME Types, NEW r \in Requests, Serve(r) \/ FailToFinalize(r) \/ Crash(r)
    PROVE  \/ modal' = modal
           \/ /\ modal.at = "placing" /\ modal.req = r
              /\ modal'.key = modal.key /\ modal'.req = r
              /\ modal'.at \in {"financing", "done"} => req[r].answer = "created"
  <1>1. modal \in ModalType
    BY DEF Types, TypeOK
  <1>2. CASE Respond(r)
    BY <1>1, <1>2 DEF Respond, After, Hearing, ModalType
  <1>3. CASE FailToFinalize(r) \/ Crash(r)
    BY <1>1, <1>3 DEF FailToFinalize, Crash, Lose, Hearing, ModalType
  <1>4. CASE Reserve(r) \/ Lookup(r) \/ FailBeforeOrder(r) \/ CompleteDraftOrder(r)
               \/ RecordOrder(r) \/ Finalize(r)
    BY <1>4 DEF Reserve, Lookup, FailBeforeOrder, CompleteDraftOrder, RecordOrder, Finalize
  <1> QED
    BY <1>2, <1>3, <1>4 DEF Serve

\* "Order Placed!" means an order.
THEOREM ConfirmationHolds == Spec => []ConfirmedIsPlaced
  <1> DEFINE I == ModalInv /\ ConfirmedIsPlaced
  <1>1. Init => I
    BY InitInv
  <1>2. Types /\ ReplayIsFaithful /\ I /\ [Next]_vars => I'
    <2> SUFFICES ASSUME Types, ReplayIsFaithful, I, [Next]_vars PROVE I'
      OBVIOUS
    <2>0. modal \in ModalType /\ req \in [Requests -> RequestType] /\ placed \subseteq Requests
      BY DEF Types, TypeOK
    <2>1. ASSUME NEW r \in Requests, Serve(r) \/ FailToFinalize(r) \/ Crash(r)
          PROVE  I'
      <3>1. /\ \A s \in Requests \ {r} : req'[s] = req[s]
            /\ req'[r].key = req[r].key /\ req'[r].payload = req[r].payload
            /\ req'[r].at # "unsent"
        BY <2>1, ServeView DEF Took, Found, Missed, Replayed, Passed, Ended
      <3>2. placed \subseteq placed'
        BY <2>1 DEF Serve, Reserve, Lookup, FailBeforeOrder, CompleteDraftOrder, RecordOrder,
           Respond, Finalize, FailToFinalize, Crash, Lose
      <3>3. ModalInv'
        BY <2>1, <3>1, ShownStep DEF ModalInv
      <3>4. ConfirmedIsPlaced'
        <4>1. CASE modal' = modal
          BY <2>0, <3>1, <3>2, <4>1 DEF ConfirmedIsPlaced, ModalInv
        <4>2. CASE /\ modal.at = "placing" /\ modal.req = r
                   /\ modal'.key = modal.key /\ modal'.req = r
                   /\ modal'.at \in {"financing", "done"} => req[r].answer = "created"
          <5>1. SUFFICES ASSUME modal'.at \in {"financing", "done"}
                         PROVE  \E e \in placed' : /\ req'[e].key = modal'.key
                                                   /\ req'[e].payload = req'[modal'.req].payload
            BY DEF ConfirmedIsPlaced
          <5>2. PICK e \in placed : req[e].key = req[r].key /\ req[e].payload = req[r].payload
            BY <4>2, <5>1, CreatedIsPlaced
          <5>3. req[r].key = modal.key
            BY <4>2 DEF ModalInv
          <5> QED
            BY <2>0, <3>1, <3>2, <4>2, <5>2, <5>3
        <4> QED
          BY <2>1, <4>1, <4>2, ShownStep
      <3> QED
        BY <3>3, <3>4
    <2>2. ASSUME NEW p \in Payloads, Send(p) PROVE I'
      <3>1. PICK r \in Requests :
                /\ modal' = [modal EXCEPT !.at = "placing", !.req = r]
                /\ req' = [req EXCEPT ![r] = [Unsent EXCEPT !.at = "reserve", !.key = modal.key,
                                                           !.payload = p]]
        BY <2>2 DEF Send
      <3>2. modal'.at = "placing" /\ modal'.req = r /\ modal'.key = modal.key
        BY <2>0, <3>1 DEF ModalType
      <3> DEFINE q == [Unsent EXCEPT !.at = "reserve", !.key = modal.key, !.payload = p]
      <3>3. q.at = "reserve" /\ q.key = modal.key
        BY DEF Unsent
      <3> HIDE DEF q
      <3>4. req'[r] = q
        BY <2>0, <3>1 DEF q
      <3> QED
        BY <3>2, <3>3, <3>4 DEF ModalInv, ConfirmedIsPlaced
    <2>3. CASE Open \/ InitiateFinancing \/ Close \/ \E r \in Requests : LoseConnection(r)
      <3>1. /\ req' = req /\ placed' = placed
            /\ modal'.at \in {"placing", "financing", "done"} =>
                  modal.at = "financing" /\ modal'.key = modal.key /\ modal'.req = modal.req
        BY <2>0, <2>3 DEF Open, InitiateFinancing, Close, Closed, LoseConnection, ModalType
      <3> QED
        BY <3>1 DEF ModalInv, ConfirmedIsPlaced
    <2>4. CASE UNCHANGED vars
      BY <2>4 DEF vars, ModalInv, ConfirmedIsPlaced
    <2> QED
      BY <2>1, <2>2, <2>3, <2>4 DEF Next
  <1>3. Spec => [](Types /\ RowsInv) /\ []ReplayIsFaithful
    BY RowsInvariant, ReplayedFaithfully
  <1> QED
    BY <1>1, <1>2, <1>3, PTL DEF Spec
=============================================================================
