------------------------------ MODULE Checkout ------------------------------
(***************************************************************************)
(* A buyer places an order from the review modal                           *)
(* (ReviewOrderModal.tsx) and the API tries to carry it out once           *)
(* (idempotency.middleware.ts).  The modal draws one key per opening and   *)
(* reuses it for every click; the middleware reserves the key, lets the    *)
(* request through to createBulkOrder, and stores the answer when the      *)
(* response has been sent.  Requests of one key overlap: the first may     *)
(* still run when its connection is lost and the buyer clicks again.       *)
(*                                                                         *)
(* What createBulkOrder does to credit is OrderPlacement; here it counts   *)
(* only whether an order exists at Shopify and which answer came of it.    *)
(***************************************************************************)
CONSTANTS
    Requests,       \* the bound on the requests sent
    Keys,           \* idempotency keys, one per opening of the modal
    Payloads,       \* contents of the cart, equal if their hashes are
    None,
    Faults          \* see FaultKinds

\* crash: the API process dies; network: the connection is lost; finalize: the
\* update of the key's row fails.
FaultKinds == {"crash", "network", "finalize"}

ASSUME NoneAssumption  == None \notin Requests \cup Keys \cup Payloads
ASSUME FaultAssumption == Faults \subseteq FaultKinds

VARIABLES
    modal,      \* the buyer's dialog
    used,       \* keys drawn so far
    req,        \* req[r]: request r in the API
    row,        \* row[k]: the idempotency_keys row
    placed,     \* requests that put an order into Shopify
    released,   \* history: keys given back after a server error
    lost        \* history: keys whose owner died or could not store its answer

vars == <<modal, used, req, row, placed, released, lost>>

\* created: 201; refused: 4xx with nothing placed; conflict: the 409 for an
\* order that was placed and could not be recorded; error: 5xx.
Cached  == {"created", "refused", "conflict"}
\* reuse: 422, the key came with another payload; busy: 409, it is in progress.
Answers == Cached \cup {"error", "reuse", "busy", "none"}

Closed == [at |-> "closed", key |-> None, req |-> None]
Unsent == [at |-> "unsent", key |-> None, payload |-> None, owner |-> FALSE,
           ran |-> FALSE, answer |-> "none"]
NoRow  == [state |-> "absent", payload |-> None]

Init ==
    /\ modal = Closed /\ used = {}
    /\ req = [r \in Requests |-> Unsent]
    /\ row = [k \in Keys |-> NoRow]
    /\ placed = {} /\ released = {} /\ lost = {}

-----------------------------------------------------------------------------
(* The dialog.                                                             *)

\* A fresh key and a clean slate each time the modal opens.
Open ==
    /\ modal.at = "closed" /\ Keys \ used # {}
    /\ LET k == CHOOSE k \in Keys : k \notin used
       IN  /\ modal' = [at |-> "review", key |-> k, req |-> None]
           /\ used' = used \cup {k}
    /\ UNCHANGED <<req, row, placed, released, lost>>

\* A click on the button, the first or a retry after an error: one key.
Send(p) ==
    /\ modal.at \in {"review", "error"}
    /\ \E r \in Requests :
          /\ req[r].at = "unsent"
          /\ r = CHOOSE x \in Requests : req[x].at = "unsent"
          /\ modal' = [modal EXCEPT !.at = "placing", !.req = r]
          /\ req' = [req EXCEPT ![r] = [Unsent EXCEPT !.at = "reserve", !.key = modal.key,
                                                      !.payload = p]]
    /\ UNCHANGED <<used, row, placed, released, lost>>

Hearing(r) == modal.at = "placing" /\ modal.req = r

\* fetch fails: the dialog shows an error while the request goes on.
LoseConnection(r) ==
    /\ "network" \in Faults /\ Hearing(r)
    /\ modal' = [modal EXCEPT !.at = "error"]
    /\ UNCHANGED <<used, req, row, placed, released, lost>>

\* The financing of a placed order is asked for under the key with a suffix,
\* which is not a UUID v4: the middleware answers 400, and the order stands on
\* standard terms.
InitiateFinancing ==
    /\ modal.at = "financing"
    /\ modal' = [modal EXCEPT !.at = "done"]
    /\ UNCHANGED <<used, req, row, placed, released, lost>>

\* The dialog does not close while it is placing.
Close ==
    /\ modal.at \in {"review", "error", "done"}
    /\ modal' = Closed
    /\ UNCHANGED <<used, req, row, placed, released, lost>>

-----------------------------------------------------------------------------
(* The middleware, before the handler.                                     *)

Goto(r, label)   == [req[r] EXCEPT !.at = label]
GoesOn(r, owner) == [req[r] EXCEPT !.at = "handle", !.owner = owner, !.ran = TRUE]
Replies(r, a)    == [req[r] EXCEPT !.at = "respond", !.answer = a]

\* Mutant: the key is looked up first, and reserved in a second step.
ReserveAnyway(r) ==
    LET k == req[r].key
    IN  /\ req[r].at = "reserve"
        /\ IF row[k].state \in Cached
           THEN req' = [req EXCEPT ![r] = Goto(r, "lookup")] /\ UNCHANGED row
           ELSE /\ row' = [row EXCEPT ![k] = [state |-> "progress", payload |-> req[r].payload]]
                /\ req' = [req EXCEPT ![r] = GoesOn(r, TRUE)]
        /\ UNCHANGED <<modal, used, placed, released, lost>>

\* The insert reserves the key, or fails on its uniqueness.
Reserve(r) ==
    LET k == req[r].key
    IN  /\ req[r].at = "reserve"
        /\ IF row[k].state = "absent"
           THEN /\ row' = [row EXCEPT ![k] = [state |-> "progress", payload |-> req[r].payload]]
                /\ req' = [req EXCEPT ![r] = GoesOn(r, TRUE)]
           ELSE req' = [req EXCEPT ![r] = Goto(r, "lookup")] /\ UNCHANGED row
        /\ UNCHANGED <<modal, used, placed, released, lost>>

\* Mutant: the fingerprint of the request is not compared.
AnyPayload(r) == TRUE

SamePayload(r) == row[req[r].key].payload = req[r].payload

\* handleExisting: by now the row may have gone, and the request goes on
\* without a reservation.
Lookup(r) ==
    LET k == req[r].key
    IN  /\ req[r].at = "lookup"
        /\ req' = [req EXCEPT ![r] =
              IF row[k].state = "absent" THEN GoesOn(r, FALSE)
              ELSE IF ~SamePayload(r) THEN Replies(r, "reuse")
              ELSE IF row[k].state = "progress" THEN Replies(r, "busy")
              ELSE Replies(r, row[k].state)]
        /\ UNCHANGED <<modal, used, row, placed, released, lost>>

-----------------------------------------------------------------------------
(* The handler, createBulkOrder.                                           *)

\* Validation, credit, or a failure of Shopify.
FailBeforeOrder(r) ==
    /\ req[r].at = "handle"
    /\ \E a \in {"refused", "error"} : req' = [req EXCEPT ![r] = Replies(r, a)]
    /\ UNCHANGED <<modal, used, row, placed, released, lost>>

CompleteDraftOrder(r) ==
    /\ req[r].at = "handle"
    /\ placed' = placed \cup {r}
    /\ req' = [req EXCEPT ![r] = Goto(r, "record")]
    /\ UNCHANGED <<modal, used, row, released, lost>>

\* persistOrder succeeds; or a serialization failure becomes a 409; or it or the
\* discount code fails.  A lost audit row is only logged.
RecordOrder(r) ==
    /\ req[r].at = "record"
    /\ \E a \in {"created", "conflict", "error"} : req' = [req EXCEPT ![r] = Replies(r, a)]
    /\ UNCHANGED <<modal, used, row, placed, released, lost>>

-----------------------------------------------------------------------------
(* The middleware, after the handler.                                      *)

\* Mutant: any answer without a server error counts as success.
Shown(a) == IF a # "error" THEN {"financing", "done"} ELSE {"error"}

\* What the dialog makes of an answer; with a payment term of Resolve it goes on
\* to financing.
After(a) == IF a = "created" THEN {"financing", "done"} ELSE {"error"}

\* The response is sent; "finish" then stores the answer, if the request owns
\* the key.  If the connection was lost, "finish" may never come.
Respond(r) ==
    /\ req[r].at = "respond"
    /\ IF Hearing(r)
       THEN \E next \in After(req[r].answer) : modal' = [modal EXCEPT !.at = next]
       ELSE UNCHANGED modal
    /\ \/ /\ req' = [req EXCEPT ![r] = Goto(r, IF req[r].owner THEN "finalize" ELSE "over")]
          /\ UNCHANGED lost
       \/ /\ ~Hearing(r) /\ req[r].owner
          /\ req' = [req EXCEPT ![r] = Goto(r, "over")]
          /\ lost' = lost \cup {req[r].key}
    /\ UNCHANGED <<used, row, placed, released>>

\* Mutant: every answer is stored.
StoreEveryAnswer(r) ==
    /\ req[r].at = "finalize"
    /\ row' = [row EXCEPT ![req[r].key] = [row[req[r].key] EXCEPT !.state = req[r].answer]]
    /\ req' = [req EXCEPT ![r] = Goto(r, "over")]
    /\ UNCHANGED <<modal, used, placed, released, lost>>

\* Mutant: a server error keeps the reservation.
KeepOnError(r) ==
    LET k == req[r].key
    IN  /\ req[r].at = "finalize"
        /\ row' = IF req[r].answer = "error" THEN row
                  ELSE [row EXCEPT ![k] = [row[k] EXCEPT !.state = req[r].answer]]
        /\ req' = [req EXCEPT ![r] = Goto(r, "over")]
        /\ UNCHANGED <<modal, used, placed, released, lost>>

\* A server error gives the key back, for the client to retry.
Finalize(r) ==
    LET k == req[r].key
    IN  /\ req[r].at = "finalize"
        /\ IF req[r].answer = "error"
           THEN /\ row' = [row EXCEPT ![k] = NoRow]
                /\ released' = released \cup {k}
           ELSE /\ row' = [row EXCEPT ![k] = [row[k] EXCEPT !.state = req[r].answer]]
                /\ UNCHANGED released
        /\ req' = [req EXCEPT ![r] = Goto(r, "over")]
        /\ UNCHANGED <<modal, used, placed, lost>>

Lose(r) ==
    /\ req' = [req EXCEPT ![r] = Goto(r, "over")]
    /\ lost' = IF req[r].owner THEN lost \cup {req[r].key} ELSE lost
    /\ modal' = IF Hearing(r) THEN [modal EXCEPT !.at = "error"] ELSE modal
    /\ UNCHANGED <<used, row, placed, released>>

\* finalize logs its own failure; no job cleans the rows, whatever expires_at is.
FailToFinalize(r) == "finalize" \in Faults /\ req[r].at = "finalize" /\ Lose(r)
Crash(r) == "crash" \in Faults /\ req[r].at \notin {"unsent", "over"} /\ Lose(r)

-----------------------------------------------------------------------------
Serve(r) == Reserve(r) \/ Lookup(r) \/ FailBeforeOrder(r) \/ CompleteDraftOrder(r)
              \/ RecordOrder(r) \/ Respond(r) \/ Finalize(r)

Next ==
    \/ Open
    \/ \E p \in Payloads : Send(p)
    \/ InitiateFinancing \/ Close
    \/ \E r \in Requests :
          \/ LoseConnection(r) \/ Serve(r) \/ FailToFinalize(r) \/ Crash(r)

Spec == Init /\ [][Next]_vars

\* The API goes on with a request it has begun; the buyer owes nothing.
FairSpec == Spec /\ \A r \in Requests : WF_vars(Serve(r))

-----------------------------------------------------------------------------
(* Properties.                                                             *)

\* Every variable keeps its type.
ModalType   == [at : {"closed", "review", "placing", "error", "financing", "done"},
                key : Keys \cup {None}, req : Requests \cup {None}]
Labels      == {"unsent", "reserve", "lookup", "handle", "record", "respond", "finalize",
                "over"}
RequestType == [at : Labels,
                key : Keys \cup {None}, payload : Payloads \cup {None},
                owner : BOOLEAN, ran : BOOLEAN, answer : Answers]
RowType     == [state : {"absent", "progress"} \cup Cached, payload : Payloads \cup {None}]
TypeOK ==
    /\ modal \in ModalType
    /\ req \in [Requests -> RequestType]
    /\ row \in [Keys -> RowType]
    /\ used \subseteq Keys /\ released \subseteq Keys /\ lost \subseteq Keys
    /\ placed \subseteq Requests

\* "Order Placed!" is shown only if a request of this opening placed an order,
\* with the cart the last click sent, be the answer its own or a replay.
ConfirmedIsPlaced ==
    modal.at \in {"financing", "done"} =>
        \E r \in placed : /\ req[r].key = modal.key
                          /\ req[r].payload = req[modal.req].payload

\* A stored answer that is replayed is the answer a request with the same key
\* and the same payload got from the handler.
ReplayIsFaithful ==
    \A r \in Requests :
        (~req[r].ran /\ req[r].answer \in Cached) =>
            \E e \in Requests :
                /\ req[e].ran /\ req[e].key = req[r].key
                /\ req[e].payload = req[r].payload /\ req[e].answer = req[r].answer

\* Two requests of one key both place an order only if a server error gave the
\* key back: no lost connection, crash, overlap or replay is enough.
PlacedOnceUnlessReleased ==
    \A r, s \in placed : (r # s /\ req[r].key = req[s].key) => req[r].key \in released

\* A reservation ends, unless its owner died or failed to store the answer.
ReservationEnds ==
    \A k \in Keys : (row[k].state = "progress") ~> (row[k].state # "progress" \/ k \in lost)

\* "The caller generates it once with crypto.randomUUID() so a retry never
\* double-creates an order" (useCreateOrder.ts:12).
RetryNeverDoubleCreates ==
    \A r, s \in placed : req[r].key = req[s].key => r = s
=============================================================================
