---------------------------- MODULE DeviceAccess ----------------------------
(***************************************************************************)
(* One device between the coordinator and the workers: the requests of     *)
(* device_service.rs (behind the extractor auth_device.rs) on its row in   *)
(* Postgres and on its location record, revocation and tickets in Redis;   *)
(* the authorization of its WebSockets (authorize in ws.rs); and the       *)
(* control messages that tell workers of a change (control.rs).            *)
(*                                                                         *)
(* A request or a connection attempt is a sequence of awaited calls, and   *)
(* one action is one call.  Between two calls anything may happen, and a   *)
(* request may end there: the call fails, or the client goes away and its  *)
(* handler is dropped.  A session is replaced or closed in one step here;  *)
(* ConnectionRegistry has the steps.                                       *)
(***************************************************************************)
EXTENDS Integers, Sequences, FiniteSets

CONSTANTS
  Places,       \* locations
  Shards,       \* geohash prefixes
  ShardOf,      \* the prefix of each location
  Workers,
  Owned,        \* the prefixes of each worker
  MaxRequests,  \* bound: requests about the device
  MaxAttempts,  \* bound: connection attempts of the device
  Serial        \* does the device make one request at a time?

ASSUME AccessBounds == MaxRequests \in Nat /\ MaxAttempts \in Nat
ASSUME ShardOfAssumption == ShardOf \in [Places -> Shards]
ASSUME OwnedAssumption == Owned \in [Workers -> SUBSET Shards]
ASSUME SerialAssumption == Serial \in BOOLEAN

Nowhere == "nowhere"
ASSUME PlacesAssumption == {Nowhere, "shardChanged", "revoked"} \cap Places = {}
PlaceOrNot == Places \cup {Nowhere}

Requests == 1..MaxRequests
Attempts == 1..MaxAttempts

DeviceOps == {"move", "heartbeat", "ticket", "leave"}
RevokingOps == {"revoke", "delete", "leave"}
Ops == DeviceOps \cup RevokingOps \cup {"register"}
Steps == {"insert", "rollback", "auth", "find", "write", "touch", "record", "issue",
          "revoke", "erase", "forget", "tell"}

(* ServerMessage, as far as a worker tells them apart *)
Messages == {"shardChanged", "revoked"} \cup Places   \* a place: LocationUpdated

VARIABLES
  row,      \* the location in the device's row, Nowhere without a row
  record,   \* its location record in Redis
  revoked,  \* is it on the revocation list?
  tickets,  \* the tickets that are valid, each named by its request
  token,    \* has the device got its id and its token?
  req,      \* each request: what it is, the call it makes next, the location it
            \* brings, the location it read
  inbox,    \* control messages on their way to each worker
  conn,     \* each connection attempt: where it is, its worker and ticket, the
            \* location and the shard of its session
  torn,     \* history: a move ended between the row and the record
  unheard,  \* history: workers a revocation was not told to
  unseen,   \* history: workers that were not told of a change of location
  slipped   \* history: attempts between check and registration when a worker acted

storeVars == <<row, record, revoked, tickets, token>>
historyVars == <<torn, unheard, unseen, slipped>>
vars == <<row, record, revoked, tickets, token, req, inbox, conn,
          torn, unheard, unseen, slipped>>

Request == [op : Ops \cup {"none"}, step : Steps \cup {"none", "over"},
            goal : PlaceOrNot, was : PlaceOrNot]
Connection == [at : {"none", "consumed", "allowed", "located", "live", "ended"},
               worker : Workers \cup {Nowhere}, ticket : 0..MaxRequests,
               place : PlaceOrNot, home : Shards \cup {Nowhere}]

NoRequest == [op |-> "none", step |-> "none", goal |-> Nowhere, was |-> Nowhere]
NoConnection == [at |-> "none", worker |-> Nowhere, ticket |-> 0,
                 place |-> Nowhere, home |-> Nowhere]

(* The values of the variables; a location is a place or Nowhere, and a     *)
(* ticket is named by a request.                                            *)
TypeOK ==
  /\ row \in PlaceOrNot /\ record \in PlaceOrNot
  /\ revoked \in BOOLEAN /\ token \in BOOLEAN /\ torn \in BOOLEAN
  /\ tickets \subseteq Requests
  /\ req \in [Requests -> Request]
  /\ inbox \in [Workers -> Seq(Messages)]
  /\ conn \in [Attempts -> Connection]
  /\ unheard \subseteq Workers
  /\ unseen \subseteq Workers
  /\ slipped \subseteq Attempts

Init ==
  /\ row = Nowhere /\ record = Nowhere /\ revoked = FALSE /\ tickets = {}
  /\ token = FALSE
  /\ req = [r \in Requests |-> NoRequest]
  /\ inbox = [w \in Workers |-> <<>>]
  /\ conn = [a \in Attempts |-> NoConnection]
  /\ torn = FALSE /\ unheard = {} /\ slipped = {}
  /\ unseen = {}

At(r, s) == req[r].step = s
UnderWay(r) == req[r].step \in Steps

(* The attempts of worker w at one of these stages *)
Pending(w, stages) == {a \in Attempts : conn[a].worker = w /\ conn[a].at \in stages}

-----------------------------------------------------------------------------
(* The calls of a request, in order *)

First(o) ==
  CASE o = "register" -> "insert"
    [] o \in DeviceOps -> "auth"
    [] o = "revoke" -> "find"
    [] OTHER -> "revoke"

After(o, s) ==
  CASE s = "auth" -> IF o = "leave" THEN "revoke" ELSE "find"
    [] s = "find" -> CASE o = "move" -> "write"
                       [] o = "heartbeat" -> "touch"
                       [] o = "ticket" -> "record"
                       [] OTHER -> "revoke"
    [] s \in {"insert", "write", "touch"} -> "record"
    [] s = "record" -> CASE o = "move" -> "tell"
                         [] o = "ticket" -> "issue"
                         [] OTHER -> "over"
    [] s = "revoke" -> IF o = "revoke" THEN "tell" ELSE "erase"
    [] s = "erase" -> "forget"
    [] s = "forget" -> "tell"
    [] OTHER -> "over"

Over == [NoRequest EXCEPT !.step = "over"]
GiveUp(r) == req' = [req EXCEPT ![r] = Over]
GoOn(r) ==
  LET s == After(req[r].op, req[r].step)
  IN  req' = [req EXCEPT ![r] = IF s = "over" THEN Over ELSE [@ EXCEPT !.step = s]]

(* A request comes in; the device has a token once it is registered *)
Begin(r, o, p) ==
  /\ At(r, "none")
  /\ \A q \in 1..(r - 1) : ~At(q, "none")
  /\ IF o = "register" THEN r = 1 ELSE token
  /\ (Serial /\ o \in DeviceOps) =>
        ~ \E q \in Requests : UnderWay(q) /\ req[q].op \in DeviceOps
  /\ (p = Nowhere) <=> (o \notin {"register", "move"})
  /\ req' = [req EXCEPT ![r] = [op |-> o, step |-> First(o), goal |-> p, was |-> Nowhere]]
  /\ UNCHANGED <<storeVars, inbox, conn, historyVars>>

(* AuthDevice *)
Auth(r) ==
  /\ At(r, "auth")
  /\ IF revoked THEN GiveUp(r) ELSE GoOn(r)
  /\ UNCHANGED <<storeVars, inbox, conn, historyVars>>

(* find_by_id *)
Find(r) ==
  /\ At(r, "find")
  /\ IF row = Nowhere THEN GiveUp(r)
     ELSE req' = [req EXCEPT ![r] = [@ EXCEPT !.step = After(req[r].op, "find"), !.was = row]]
  /\ UNCHANGED <<storeVars, inbox, conn, historyVars>>

Insert(r) ==
  /\ At(r, "insert")
  /\ row' = req[r].goal
  /\ GoOn(r)
  /\ UNCHANGED <<record, revoked, tickets, token, inbox, conn, historyVars>>

(* Mutant: an upsert *)
Upsert(r) ==
  /\ At(r, "write")
  /\ GoOn(r)
  /\ row' = req[r].goal
  /\ torn' = TRUE
  /\ UNCHANGED <<record, revoked, tickets, token, inbox, conn, unheard, unseen, slipped>>

(* update_location of the repository, which fails without a row *)
Write(r) ==
  /\ At(r, "write")
  /\ IF row = Nowhere THEN GiveUp(r) /\ UNCHANGED <<row, torn>>
     ELSE GoOn(r) /\ row' = req[r].goal /\ torn' = TRUE
  /\ UNCHANGED <<record, revoked, tickets, token, inbox, conn, unheard, unseen, slipped>>

(* The heartbeat's touch: last_seen is not modelled *)
Touch(r) ==
  /\ At(r, "touch")
  /\ IF row = Nowhere THEN GiveUp(r) ELSE GoOn(r)
  /\ UNCHANGED <<storeVars, inbox, conn, historyVars>>

(* Mutant: the location that was read before the move *)
WasAt(r) == IF req[r].was # Nowhere THEN req[r].was ELSE req[r].goal

(* Mutant: the prefix where the location belongs *)
IsIn(r) == ShardOf[IF req[r].goal # Nowhere THEN req[r].goal ELSE req[r].was]

(* The location of the device as the request has it *)
IsAt(r) == IF req[r].goal # Nowhere THEN req[r].goal ELSE req[r].was

(* publish_location; the end of a registration *)
Record(r) ==
  /\ At(r, "record")
  /\ record' = IsAt(r)
  /\ token' = (token \/ req[r].op = "register")
  /\ torn' = FALSE
  /\ GoOn(r)
  /\ UNCHANGED <<row, revoked, tickets, inbox, conn, unheard, unseen, slipped>>

(* register: the record could not be written (or its answer was lost), so   *)
(* the row is deleted again, if that works                                  *)
RecordFails(r, written) ==
  /\ At(r, "record")
  /\ req[r].op = "register"
  /\ record' = IF written THEN req[r].goal ELSE record
  /\ req' = [req EXCEPT ![r] = [@ EXCEPT !.step = "rollback"]]
  /\ UNCHANGED <<row, revoked, tickets, token, inbox, conn, historyVars>>

Rollback(r) ==
  /\ At(r, "rollback")
  /\ row' = Nowhere
  /\ GiveUp(r)
  /\ UNCHANGED <<record, revoked, tickets, token, inbox, conn, historyVars>>

Issue(r) ==
  /\ At(r, "issue")
  /\ tickets' = tickets \cup {r}
  /\ GoOn(r)
  /\ UNCHANGED <<row, record, revoked, token, inbox, conn, historyVars>>

Revoke(r) ==
  /\ At(r, "revoke")
  /\ revoked' = TRUE
  /\ GoOn(r)
  /\ UNCHANGED <<row, record, tickets, token, inbox, conn, historyVars>>

Erase(r) ==
  /\ At(r, "erase")
  /\ row' = Nowhere
  /\ GoOn(r)
  /\ UNCHANGED <<record, revoked, tickets, token, inbox, conn, historyVars>>

(* A failure is only logged *)
Forget(r, worked) ==
  /\ At(r, "forget")
  /\ record' = IF worked THEN Nowhere ELSE record
  /\ GoOn(r)
  /\ UNCHANGED <<row, revoked, tickets, token, inbox, conn, historyVars>>

(* notify_device: fire and forget, to the workers in `reached` *)
Tell(r, m, reached) ==
  /\ inbox' = [w \in Workers |-> IF w \in reached THEN Append(inbox[w], m) ELSE inbox[w]]
  /\ GoOn(r)
  /\ UNCHANGED <<storeVars, conn, torn, slipped>>

TellRevoked(r, reached) ==
  /\ At(r, "tell")
  /\ req[r].op \in RevokingOps
  /\ Tell(r, "revoked", reached)
  /\ unheard' = unheard \cup (Workers \ reached)
  /\ UNCHANGED unseen

Moved(r) == req[r].op = "move" /\ req[r].was # req[r].goal

TellMoved(r, reached) ==
  /\ At(r, "tell")
  /\ Moved(r)
  /\ Tell(r, IF ShardOf[req[r].was] # ShardOf[req[r].goal] THEN "shardChanged"
             ELSE req[r].goal, reached)
  /\ unseen' = unseen \cup (Workers \ reached)
  /\ UNCHANGED unheard

(* The row had this location already: there is nothing to tell *)
TellNothing(r) ==
  /\ At(r, "tell")
  /\ req[r].op = "move" /\ ~Moved(r)
  /\ GoOn(r)
  /\ UNCHANGED <<storeVars, inbox, conn, torn, unheard, unseen, slipped>>

(* A call fails, or the client goes away.  What is not told is not told later. *)
Fail(r) ==
  /\ UnderWay(r)
  /\ GiveUp(r)
  /\ unheard' = IF req[r].op \in RevokingOps /\ req[r].step \in {"erase", "forget", "tell"}
                THEN Workers ELSE unheard
  /\ unseen' = IF Moved(r) /\ req[r].step \in {"record", "tell"} THEN Workers ELSE unseen
  /\ UNCHANGED <<storeVars, inbox, conn, torn, slipped>>

(* Keys of Redis expire: a ticket soon, a record without heartbeats later *)
TicketExpires(t) ==
  /\ t \in tickets
  /\ tickets' = tickets \ {t}
  /\ UNCHANGED <<row, record, revoked, token, req, inbox, conn, historyVars>>

RecordExpires ==
  /\ token /\ record # Nowhere
  /\ record' = Nowhere
  /\ UNCHANGED <<row, revoked, tickets, token, req, inbox, conn, historyVars>>

-----------------------------------------------------------------------------
(* authorize, then handle_socket.  Of an attempt that ended, the ticket is  *)
(* remembered.                                                              *)

Ended(c) == [NoConnection EXCEPT !.at = "ended", !.ticket = c.ticket]

(* Mutant: GET without DEL *)
Peek(t) == UNCHANGED tickets

(* CONSUME_LUA *)
Take(t) == tickets' = tickets \ {t}

Consume(a, w, t) ==
  /\ conn[a].at = "none"
  /\ \A b \in 1..(a - 1) : conn[b].at # "none"
  /\ t \in tickets
  /\ Take(t)
  /\ conn' = [conn EXCEPT ![a] = [@ EXCEPT !.at = "consumed", !.worker = w, !.ticket = t]]
  /\ UNCHANGED <<row, record, revoked, token, req, inbox, historyVars>>

(* Mutant: the revocation list is not asked *)
AllowsAll == TRUE

Allows == ~revoked

CheckRevoked(a) ==
  /\ conn[a].at = "consumed"
  /\ conn' = [conn EXCEPT ![a] = IF Allows THEN [@ EXCEPT !.at = "allowed"] ELSE Ended(@)]
  /\ UNCHANGED <<storeVars, req, inbox, historyVars>>

(* The record must exist, and its shard must be one of this worker's *)
Locate(a) ==
  /\ conn[a].at = "allowed"
  /\ conn' = [conn EXCEPT ![a] =
       IF record # Nowhere /\ ShardOf[record] \in Owned[conn[a].worker]
       THEN [@ EXCEPT !.at = "located", !.place = record, !.home = ShardOf[record]]
       ELSE Ended(@)]
  /\ UNCHANGED <<storeVars, req, inbox, historyVars>>

(* The session takes the place of the worker's earlier one *)
Register(a) ==
  /\ conn[a].at = "located"
  /\ conn' = [b \in Attempts |->
       IF b = a THEN [conn[a] EXCEPT !.at = "live"]
       ELSE IF b \in Pending(conn[a].worker, {"live"}) THEN Ended(conn[b]) ELSE conn[b]]
  /\ UNCHANGED <<storeVars, req, inbox, historyVars>>

(* Refused for another reason, or the client is gone *)
Leave(a) ==
  /\ conn[a].at \in {"consumed", "allowed", "located", "live"}
  /\ conn' = [conn EXCEPT ![a] = Ended(@)]
  /\ UNCHANGED <<storeVars, req, inbox, historyVars>>

(* Mutant: a location is ignored *)
ApplyControlDeaf(w, m) ==
  conn' = [a \in Attempts |->
    IF a \in Pending(w, {"live"}) /\ m \notin Places THEN Ended(conn[a]) ELSE conn[a]]

(* handle_control: a location is applied, anything else forwarded, and the  *)
(* session closed                                                           *)
ApplyControl(w, m) ==
  conn' = [a \in Attempts |->
    IF a \notin Pending(w, {"live"}) THEN conn[a]
    ELSE IF m \in Places THEN [conn[a] EXCEPT !.place = m] ELSE Ended(conn[a])]

HandleControl(w) ==
  LET m == Head(inbox[w])
  IN
  /\ inbox[w] # <<>>
  /\ inbox' = [inbox EXCEPT ![w] = Tail(@)]
  /\ ApplyControl(w, m)
  /\ slipped' = slipped \cup Pending(w, IF m = "revoked" THEN {"allowed", "located"}
                                        ELSE {"located"})
  /\ UNCHANGED <<storeVars, req, torn, unheard, unseen>>

-----------------------------------------------------------------------------
RequestStep(r) ==
  \/ \E o \in Ops, p \in PlaceOrNot : Begin(r, o, p)
  \/ Auth(r) \/ Find(r) \/ Insert(r) \/ Write(r) \/ Touch(r) \/ Record(r)
  \/ Rollback(r) \/ Issue(r) \/ Revoke(r) \/ Erase(r) \/ TellNothing(r) \/ Fail(r)
  \/ \E b \in BOOLEAN : RecordFails(r, b) \/ Forget(r, b)
  \/ \E reached \in SUBSET Workers : TellRevoked(r, reached) \/ TellMoved(r, reached)

AttemptStep(a) ==
  \/ \E w \in Workers, t \in Requests : Consume(a, w, t)
  \/ CheckRevoked(a) \/ Locate(a) \/ Register(a) \/ Leave(a)

Next ==
  \/ \E r \in Requests : RequestStep(r) \/ TicketExpires(r)
  \/ RecordExpires
  \/ \E a \in Attempts : AttemptStep(a)
  \/ \E w \in Workers : HandleControl(w)

Spec == Init /\ [][Next]_vars

-----------------------------------------------------------------------------
(* Correctness *)

(* "So it can be used once": a ticket lets one attempt through, and is      *)
(* never valid again, whatever else is issued or consumed meanwhile.        *)
TicketsAdmitOnce ==
  \A a \in Attempts : conn[a].ticket # 0 =>
    /\ conn[a].ticket \notin tickets
    /\ \A b \in Attempts : conn[b].ticket = conn[a].ticket => a = b

(* The revocations have been told, and worker w acted on them *)
Heard(w) ==
  /\ revoked
  /\ w \notin unheard
  /\ \A k \in DOMAIN inbox[w] : inbox[w][k] # "revoked"
  /\ ~ \E r \in Requests : /\ req[r].op \in RevokingOps
                           /\ req[r].step \in {"erase", "forget", "tell"}

(* "The device's token stops working at once and any live socket is told to *)
(* close": once worker w has handled the message it has no session of the   *)
(* device and lets none in any more, tickets issued before or during the    *)
(* revocation included.  Exempt is an attempt that had passed the check     *)
(* when the message was handled: nothing ends that one.                     *)
RevokedIsOut ==
  \A w \in Workers : Heard(w) => Pending(w, {"allowed", "located", "live"}) \subseteq slipped

Quiet == ~ \E r \in Requests : UnderWay(r)

(* "Lets a worker verify where a device really is": between requests of a   *)
(* device that makes them one at a time, its record agrees with its row or  *)
(* has expired.  Exempt is only the time after a move that ended between    *)
(* the row and the record, until the next request that refreshes it.        *)
RecordIsCurrent ==
  (Serial /\ Quiet /\ token /\ ~torn /\ row # Nowhere) => record \in {row, Nowhere}

(* The sessions of worker w, which has handled all messages it got, have   *)
(* the device's location and are in its shard.  Exempt is an attempt that   *)
(* had read the record when a message was handled.                          *)
Follows(w) ==
  (Serial /\ Quiet /\ ~torn /\ row # Nowhere /\ inbox[w] = <<>>) =>
    \A a \in Pending(w, {"live"}) \ slipped :
      conn[a].place = row /\ conn[a].home = ShardOf[row]

(* "The worker holding the socket needs the new position so it filters      *)
(* alerts by where the device really is": between requests, that is so for  *)
(* a worker that was told every change of location.                         *)
SessionsFollow == \A w \in Workers \ unseen : Follows(w)

(* A deleted device does not come back: no request that read the row before *)
(* it was deleted writes it again.                                          *)
DeletedStaysDeleted == [][(token /\ row = Nowhere) => row' = Nowhere]_vars
=============================================================================
