------------------------- MODULE DeviceAccessProofs -------------------------
(***************************************************************************)
(* Proofs about DeviceAccess, for every set of places, shards and workers, *)
(* and any number of requests and connection attempts.                     *)
(***************************************************************************)
EXTENDS DeviceAccess, SequenceTheorems, TLAPS

-----------------------------------------------------------------------------
(* The first layer: where requests can be *)

(* The calls of each request, and what it has by then *)
Legal(q) ==
  \/ q.op = "none" /\ q.step \in {"none", "over"}
  \/ q.op = "register" /\ q.step \in {"insert", "record", "rollback"} /\ q.goal \in Places
  \/ q.op = "move" /\ q.step \in {"auth", "find"} /\ q.goal \in Places
  \/ /\ q.op = "move" /\ q.step \in {"write", "record", "tell"}
     /\ q.goal \in Places /\ q.was \in Places
  \/ q.op = "heartbeat" /\ q.step \in {"auth", "find"} /\ q.goal = Nowhere
  \/ q.op = "heartbeat" /\ q.step \in {"touch", "record"} /\ q.goal = Nowhere /\ q.was \in Places
  \/ q.op = "ticket" /\ q.step \in {"auth", "find"} /\ q.goal = Nowhere
  \/ q.op = "ticket" /\ q.step \in {"record", "issue"} /\ q.goal = Nowhere /\ q.was \in Places
  \/ q.op = "leave" /\ q.step \in {"auth", "revoke", "erase", "forget", "tell"}
  \/ q.op = "revoke" /\ q.step \in {"find", "revoke", "tell"}
  \/ q.op = "delete" /\ q.step \in {"revoke", "erase", "forget", "tell"}

RequestsAreLegal == \A r \in Requests : Legal(req[r])

(* Only the first request registers, and only before there is a token *)
RegistersOnce ==
  /\ \A r \in Requests : req[r].op = "register" => r = 1 /\ ~token
  /\ (token /\ 1 \in Requests) => req[1].step # "none"

(* Without a token there is nothing but that registration *)
Untouched ==
  ~token => /\ \A r \in Requests : req[r].op \in {"none", "register"}
            /\ \A r \in Requests : r # 1 => req[r].step = "none"
            /\ tickets = {}
            /\ \A w \in Workers : inbox[w] = <<>>
            /\ \A a \in Attempts : conn[a].at = "none"

(* The row is what the registration inserted *)
RowIsRegistered ==
  \A r \in Requests :
    (req[r].op = "register" /\ req[r].step \in {"record", "rollback"}) => row = req[r].goal

Control == TypeOK /\ RequestsAreLegal /\ RegistersOnce /\ Untouched /\ RowIsRegistered

-----------------------------------------------------------------------------
(* Tickets *)

(* A request that is not over has issued no ticket *)
TicketsAreFresh ==
  \A r \in Requests : req[r].step # "over" =>
    r \notin tickets /\ \A a \in Attempts : conn[a].ticket # r

TicketInv == TicketsAreFresh /\ TicketsAdmitOnce

-----------------------------------------------------------------------------
(* Locations, of a device that makes one request at a time *)

OneAtATime ==
  \A q, r \in Requests :
    (UnderWay(q) /\ UnderWay(r) /\ req[q].op \in DeviceOps /\ req[r].op \in DeviceOps) => q = r

(* What a request has read or written is the location in the row, if there  *)
(* still is one                                                             *)
ReadIsRow ==
  \A r \in Requests : row # Nowhere =>
    /\ (req[r].op \in {"move", "heartbeat", "ticket"} /\ req[r].step \in {"write", "touch"}) =>
         req[r].was = row
    /\ (req[r].op \in {"heartbeat", "ticket"} /\ req[r].step = "record") => req[r].was = row
    /\ (req[r].op = "move" /\ req[r].step \in {"record", "tell"}) => req[r].goal = row

RecordFollows == (token /\ row # Nowhere /\ ~torn) => record \in {row, Nowhere}

Moving(r, s) == req[r].op = "move" /\ req[r].step = s

(* The location the record should have: the old one until it is written *)
Known(p) ==
  \/ p = row /\ \A r \in Requests : ~Moving(r, "record")
  \/ \E r \in Requests : Moving(r, "record") /\ p = req[r].was

RecordIsKnown ==
  \A w \in Workers \ unseen : (token /\ row # Nowhere /\ record # Nowhere) => Known(record)

(* The locations a worker may have: the old one until it was told *)
Told(p) ==
  \/ p = row /\ \A r \in Requests : ~Moving(r, "record") /\ ~Moving(r, "tell")
  \/ \E r \in Requests : Moving(r, "record") /\ p = req[r].was
  \/ \E r \in Requests : Moving(r, "tell") /\ p \in {req[r].was, req[r].goal}

(* A change of shards is about to be told *)
Resharding ==
  \E r \in Requests : Moving(r, "tell") /\ ShardOf[req[r].was] # ShardOf[req[r].goal]

LastMessage(w) == inbox[w][Len(inbox[w])]

MessagesAreTold ==
  \A w \in Workers \ unseen :
    (row # Nowhere /\ inbox[w] # <<>> /\ LastMessage(w) \in Places /\ ~Resharding) =>
      Told(LastMessage(w))

(* Where the session of attempt a will be once its worker has read its messages *)
Final(a) ==
  LET w == conn[a].worker
  IN  IF inbox[w] = <<>> THEN conn[a].place ELSE LastMessage(w)

(* The messages to worker w leave its sessions open *)
Peaceful(w) == ~Resharding /\ \A k \in DOMAIN inbox[w] : inbox[w][k] \in Places

SessionsWillFollow ==
  \A w \in Workers \ unseen : (row # Nowhere /\ Peaceful(w)) =>
    \A a \in Pending(w, {"located", "live"}) \ slipped :
      Told(Final(a)) /\ conn[a].home = ShardOf[Final(a)]

LocationInv ==
  /\ OneAtATime /\ ReadIsRow /\ RecordFollows
  /\ RecordIsKnown /\ MessagesAreTold /\ SessionsWillFollow

-----------------------------------------------------------------------------
(* What each action does to the requests *)

OnlyAt(r) ==
  /\ req' \in [Requests -> Request]
  /\ \A q \in Requests : q # r => req'[q] = req[q]

Proceeds(r, s) ==
  /\ OnlyAt(r)
  /\ req'[r].op = req[r].op /\ req'[r].goal = req[r].goal /\ req'[r].was = req[r].was
  /\ req'[r].step = s

Ends(r) ==
  /\ OnlyAt(r)
  /\ req'[r].op = "none" /\ req'[r].step = "over"

LEMMA GiveUpEnds ==
  ASSUME TypeOK, NEW r \in Requests, GiveUp(r)
  PROVE  Ends(r)
<1>1. Over \in Request /\ Over.op = "none" /\ Over.step = "over"
  BY DEF Over, NoRequest, Request, PlaceOrNot
<1> QED
  BY <1>1 DEF GiveUp, Ends, OnlyAt, TypeOK

LEMMA GoOnProceeds ==
  ASSUME TypeOK, NEW r \in Requests, GoOn(r),
         NEW s \in Steps, After(req[r].op, req[r].step) = s
  PROVE  Proceeds(r, s)
<1>1. s # "over"
  BY DEF Steps
<1>2. req' = [req EXCEPT ![r] = [req[r] EXCEPT !.step = s]]
  BY <1>1 DEF GoOn
<1>3. req[r] \in Request
  BY DEF TypeOK
<1>4. [req[r] EXCEPT !.step = s] \in Request
  BY <1>3 DEF Request
<1>5. req' \in [Requests -> Request]
  BY <1>2, <1>4 DEF TypeOK
<1>6. req'[r] = [req[r] EXCEPT !.step = s]
  BY <1>2 DEF TypeOK
<1> QED
  BY <1>2, <1>3, <1>5, <1>6 DEF Proceeds, OnlyAt, TypeOK, Request

LEMMA GoOnEnds ==
  ASSUME TypeOK, NEW r \in Requests, GoOn(r), After(req[r].op, req[r].step) = "over"
  PROVE  Ends(r)
<1>1. GiveUp(r)
  BY DEF GoOn, GiveUp
<1> QED
  BY <1>1, GiveUpEnds

LEMMA BeginFacts ==
  ASSUME TypeOK, NEW r \in Requests, NEW o \in Ops, NEW p \in PlaceOrNot, Begin(r, o, p)
  PROVE  /\ OnlyAt(r) /\ req[r].step = "none"
         /\ req'[r].op = o /\ req'[r].goal = p
         /\ \/ o = "register" /\ req'[r].step = "insert"
            \/ o \in DeviceOps /\ req'[r].step = "auth"
            \/ o = "revoke" /\ req'[r].step = "find"
            \/ o = "delete" /\ req'[r].step = "revoke"
<1> DEFINE q == [op |-> o, step |-> First(o), goal |-> p, was |-> Nowhere]
<1>1. /\ \/ o = "register" /\ First(o) = "insert"
         \/ o \in DeviceOps /\ First(o) = "auth"
         \/ o = "revoke" /\ First(o) = "find"
         \/ o = "delete" /\ First(o) = "revoke"
      /\ First(o) \in Steps
  BY DEF First, Ops, DeviceOps, RevokingOps, Steps
<1>2. q \in Request /\ q.op = o /\ q.goal = p /\ q.step = First(o)
  BY <1>1 DEF Request, PlaceOrNot
<1>3. req' = [req EXCEPT ![r] = q] /\ req[r].step = "none"
  BY DEF Begin, At
<1>4. OnlyAt(r) /\ req'[r] = q
  BY <1>2, <1>3 DEF OnlyAt, TypeOK
<1> HIDE DEF q
<1> QED
  BY <1>1, <1>2, <1>3, <1>4

LEMMA AuthFacts ==
  ASSUME TypeOK, RequestsAreLegal, NEW r \in Requests, Auth(r)
  PROVE  /\ req[r].step = "auth" /\ req[r].op \in DeviceOps
         /\ \/ Ends(r)
            \/ req[r].op = "leave" /\ Proceeds(r, "revoke")
            \/ req[r].op # "leave" /\ Proceeds(r, "find")
<1>1. req[r].step = "auth" /\ Legal(req[r])
  BY DEF Auth, At, RequestsAreLegal
<1>2. req[r].op \in DeviceOps
  BY <1>1 DEF Legal, DeviceOps
<1>3. /\ req[r].op = "leave" => After(req[r].op, req[r].step) = "revoke"
      /\ req[r].op # "leave" => After(req[r].op, req[r].step) = "find"
  BY <1>1 DEF After
<1>4. "revoke" \in Steps /\ "find" \in Steps
  BY DEF Steps
<1>5. GiveUp(r) \/ GoOn(r)
  BY DEF Auth
<1> QED
  BY <1>1, <1>2, <1>3, <1>4, <1>5, GiveUpEnds, GoOnProceeds

LEMMA FindFacts ==
  ASSUME TypeOK, RequestsAreLegal, NEW r \in Requests, Find(r)
  PROVE  /\ req[r].step = "find"
         /\ \/ Ends(r)
            \/ /\ row # Nowhere
               /\ OnlyAt(r)
               /\ req'[r].op = req[r].op /\ req'[r].goal = req[r].goal /\ req'[r].was = row
               /\ \/ req[r].op = "move" /\ req'[r].step = "write"
                  \/ req[r].op = "heartbeat" /\ req'[r].step = "touch"
                  \/ req[r].op = "ticket" /\ req'[r].step = "record"
                  \/ req[r].op = "revoke" /\ req'[r].step = "revoke"
<1>1. req[r].step = "find" /\ Legal(req[r])
  BY DEF Find, At, RequestsAreLegal
<1>2. req[r].op \in {"move", "heartbeat", "ticket", "revoke"}
  BY <1>1 DEF Legal
<1> DEFINE s == After(req[r].op, "find")
           q == [req[r] EXCEPT !.step = s, !.was = row]
<1>3. /\ \/ req[r].op = "move" /\ s = "write"
         \/ req[r].op = "heartbeat" /\ s = "touch"
         \/ req[r].op = "ticket" /\ s = "record"
         \/ req[r].op = "revoke" /\ s = "revoke"
      /\ s \in Steps
  BY <1>2 DEF After, Steps
<1>4. CASE row = Nowhere
  BY <1>1, <1>4, GiveUpEnds DEF Find
<1>5. CASE row # Nowhere
  <2>1. req' = [req EXCEPT ![r] = q]
    BY <1>5 DEF Find
  <2>2. req[r] \in Request /\ row \in PlaceOrNot
    BY DEF TypeOK
  <2> HIDE DEF s
  <2>3. /\ q \in Request
        /\ q.op = req[r].op /\ q.goal = req[r].goal /\ q.was = row /\ q.step = s
    BY <1>3, <2>2 DEF Request
  <2> HIDE DEF q
  <2>4. OnlyAt(r) /\ req'[r] = q
    BY <2>1, <2>3 DEF OnlyAt, TypeOK
  <2> QED
    BY <1>1, <1>3, <1>5, <2>3, <2>4
<1> QED
  BY <1>4, <1>5

LEMMA InsertFacts ==
  ASSUME TypeOK, RequestsAreLegal, NEW r \in Requests, Insert(r)
  PROVE  /\ req[r].step = "insert" /\ req[r].op = "register" /\ req[r].goal \in Places
         /\ Proceeds(r, "record")
<1>1. req[r].step = "insert" /\ Legal(req[r]) /\ GoOn(r)
  BY DEF Insert, At, RequestsAreLegal
<1>2. After(req[r].op, req[r].step) = "record" /\ "record" \in Steps
  BY <1>1 DEF After, Steps
<1>3. req[r].op = "register" /\ req[r].goal \in Places
  BY <1>1 DEF Legal
<1> QED
  BY <1>1, <1>2, <1>3, GoOnProceeds

LEMMA WriteFacts ==
  ASSUME TypeOK, RequestsAreLegal, NEW r \in Requests, Write(r)
  PROVE  /\ req[r].step = "write" /\ req[r].op = "move"
         /\ req[r].goal \in Places /\ req[r].was \in Places
         /\ \/ Ends(r) /\ row = Nowhere /\ UNCHANGED <<row, torn>>
            \/ Proceeds(r, "record") /\ row # Nowhere /\ row' = req[r].goal /\ torn'
<1>1. req[r].step = "write" /\ Legal(req[r])
  BY DEF Write, At, RequestsAreLegal
<1>2. After(req[r].op, req[r].step) = "record" /\ "record" \in Steps
  BY <1>1 DEF After, Steps
<1>3. req[r].op = "move" /\ req[r].goal \in Places /\ req[r].was \in Places
  BY <1>1 DEF Legal
<1>4. CASE row = Nowhere
  BY <1>1, <1>3, <1>4, GiveUpEnds DEF Write
<1>5. CASE row # Nowhere
  BY <1>1, <1>2, <1>3, <1>5, GoOnProceeds DEF Write
<1> QED
  BY <1>4, <1>5

LEMMA TouchFacts ==
  ASSUME TypeOK, RequestsAreLegal, NEW r \in Requests, Touch(r)
  PROVE  /\ req[r].step = "touch" /\ req[r].op = "heartbeat"
         /\ \/ Ends(r)
            \/ Proceeds(r, "record")
<1>1. req[r].step = "touch" /\ Legal(req[r])
  BY DEF Touch, At, RequestsAreLegal
<1>2. After(req[r].op, req[r].step) = "record" /\ "record" \in Steps
  BY <1>1 DEF After, Steps
<1>3. req[r].op = "heartbeat"
  BY <1>1 DEF Legal
<1>4. GiveUp(r) \/ GoOn(r)
  BY DEF Touch
<1> QED
  BY <1>1, <1>2, <1>3, <1>4, GiveUpEnds, GoOnProceeds

LEMMA RecordFacts ==
  ASSUME TypeOK, RequestsAreLegal, NEW r \in Requests, Record(r)
  PROVE  /\ req[r].step = "record"
         /\ \/ req[r].op = "register" /\ Ends(r) /\ record' = req[r].goal /\ token'
            \/ req[r].op = "heartbeat" /\ Ends(r) /\ record' = req[r].was /\ token' = token
            \/ req[r].op = "ticket" /\ Proceeds(r, "issue") /\ record' = req[r].was /\ token' = token
            \/ req[r].op = "move" /\ Proceeds(r, "tell") /\ record' = req[r].goal /\ token' = token
         /\ record' \in Places
<1>1. req[r].step = "record" /\ Legal(req[r]) /\ GoOn(r) /\ record' = IsAt(r)
  BY DEF Record, At, RequestsAreLegal
<1>2. token' = (token \/ req[r].op = "register")
  BY DEF Record
<1>3. \/ req[r].op = "register" /\ req[r].goal \in Places
      \/ req[r].op = "heartbeat" /\ req[r].goal = Nowhere /\ req[r].was \in Places
      \/ req[r].op = "ticket" /\ req[r].goal = Nowhere /\ req[r].was \in Places
      \/ req[r].op = "move" /\ req[r].goal \in Places
  BY <1>1 DEF Legal
<1>4. /\ req[r].op \in {"register", "heartbeat"} => After(req[r].op, req[r].step) = "over"
      /\ req[r].op = "ticket" => After(req[r].op, req[r].step) = "issue"
      /\ req[r].op = "move" => After(req[r].op, req[r].step) = "tell"
  BY <1>1 DEF After
<1>5. "issue" \in Steps /\ "tell" \in Steps
  BY DEF Steps
<1>6. /\ req[r].op \in {"register", "heartbeat"} => Ends(r)
      /\ req[r].op = "ticket" => Proceeds(r, "issue")
      /\ req[r].op = "move" => Proceeds(r, "tell")
  BY <1>1, <1>4, <1>5, GoOnEnds, GoOnProceeds
<1>7. Nowhere \notin Places
  BY PlacesAssumption
<1>8. /\ record' \in Places
      /\ req[r].op \in {"register", "move"} => record' = req[r].goal
      /\ req[r].op \in {"heartbeat", "ticket"} => record' = req[r].was
  BY <1>1, <1>3, <1>7 DEF IsAt
<1>9. /\ req[r].op = "register" => token'
      /\ req[r].op # "register" => token' = token
  BY <1>2 DEF TypeOK
<1> QED
  BY <1>1, <1>3, <1>6, <1>8, <1>9

LEMMA RecordFailsFacts ==
  ASSUME TypeOK, RequestsAreLegal, NEW r \in Requests, NEW b \in BOOLEAN, RecordFails(r, b)
  PROVE  /\ req[r].step = "record" /\ req[r].op = "register" /\ req[r].goal \in Places
         /\ Proceeds(r, "rollback")
         /\ record' \in PlaceOrNot
<1>1. /\ req[r].step = "record" /\ Legal(req[r]) /\ req[r].op = "register"
      /\ req' = [req EXCEPT ![r] = [req[r] EXCEPT !.step = "rollback"]]
  BY DEF RecordFails, At, RequestsAreLegal
<1>2. req[r].goal \in Places
  BY <1>1 DEF Legal
<1>3. "rollback" \in Steps /\ req[r] \in Request
  BY DEF Steps, TypeOK
<1>4. [req[r] EXCEPT !.step = "rollback"] \in Request
  BY <1>3 DEF Request
<1>5. req'[r] = [req[r] EXCEPT !.step = "rollback"] /\ OnlyAt(r)
  BY <1>1, <1>4 DEF TypeOK, OnlyAt
<1>6. Proceeds(r, "rollback")
  BY <1>3, <1>5 DEF Proceeds, Request
<1>7. record' \in PlaceOrNot
  BY <1>2 DEF RecordFails, PlaceOrNot, TypeOK
<1> QED
  BY <1>1, <1>2, <1>6, <1>7

LEMMA IssueFacts ==
  ASSUME TypeOK, RequestsAreLegal, NEW r \in Requests, Issue(r)
  PROVE  req[r].step = "issue" /\ req[r].op = "ticket" /\ Ends(r)
<1>1. req[r].step = "issue" /\ Legal(req[r]) /\ GoOn(r)
  BY DEF Issue, At, RequestsAreLegal
<1>2. After(req[r].op, req[r].step) = "over"
  BY <1>1 DEF After
<1>3. req[r].op = "ticket"
  BY <1>1 DEF Legal
<1> QED
  BY <1>1, <1>2, <1>3, GoOnEnds

LEMMA RevokeFacts ==
  ASSUME TypeOK, RequestsAreLegal, NEW r \in Requests, Revoke(r)
  PROVE  /\ req[r].step = "revoke"
         /\ \/ req[r].op = "revoke" /\ Proceeds(r, "tell")
            \/ req[r].op \in {"leave", "delete"} /\ Proceeds(r, "erase")
<1>1. req[r].step = "revoke" /\ Legal(req[r]) /\ GoOn(r)
  BY DEF Revoke, At, RequestsAreLegal
<1>2. /\ req[r].op = "revoke" => After(req[r].op, req[r].step) = "tell"
      /\ req[r].op # "revoke" => After(req[r].op, req[r].step) = "erase"
      /\ "tell" \in Steps /\ "erase" \in Steps
  BY <1>1 DEF After, Steps
<1>3. req[r].op \in {"revoke", "leave", "delete"}
  BY <1>1 DEF Legal
<1> QED
  BY <1>1, <1>2, <1>3, GoOnProceeds

LEMMA EraseFacts ==
  ASSUME TypeOK, RequestsAreLegal, NEW r \in Requests, Erase(r)
  PROVE  /\ req[r].step = "erase" /\ req[r].op \in {"leave", "delete"}
         /\ Proceeds(r, "forget")
<1>1. req[r].step = "erase" /\ Legal(req[r]) /\ GoOn(r)
  BY DEF Erase, At, RequestsAreLegal
<1>2. After(req[r].op, req[r].step) = "forget" /\ "forget" \in Steps
  BY <1>1 DEF After, Steps
<1>3. req[r].op \in {"leave", "delete"}
  BY <1>1 DEF Legal
<1> QED
  BY <1>1, <1>2, <1>3, GoOnProceeds

LEMMA ForgetFacts ==
  ASSUME TypeOK, RequestsAreLegal, NEW r \in Requests, NEW b \in BOOLEAN, Forget(r, b)
  PROVE  /\ req[r].step = "forget" /\ req[r].op \in {"leave", "delete"}
         /\ Proceeds(r, "tell")
         /\ record' \in {record, Nowhere}
<1>1. req[r].step = "forget" /\ Legal(req[r]) /\ GoOn(r)
  BY DEF Forget, At, RequestsAreLegal
<1>2. After(req[r].op, req[r].step) = "tell" /\ "tell" \in Steps
  BY <1>1 DEF After, Steps
<1>3. req[r].op \in {"leave", "delete"}
  BY <1>1 DEF Legal
<1>4. record' \in {record, Nowhere}
  BY DEF Forget
<1> QED
  BY <1>1, <1>2, <1>3, <1>4, GoOnProceeds

LEMMA TellEnds ==
  ASSUME TypeOK, NEW r \in Requests, At(r, "tell"), GoOn(r)
  PROVE  Ends(r) /\ req[r].step = "tell"
<1>1. After(req[r].op, req[r].step) = "over"
  BY DEF After, At
<1> QED
  BY <1>1, GoOnEnds DEF At

LEMMA TellFacts ==
  ASSUME TypeOK, NEW r \in Requests, NEW m \in Messages, NEW reached \in SUBSET Workers,
         At(r, "tell"), Tell(r, m, reached)
  PROVE  /\ Ends(r) /\ req[r].step = "tell"
         /\ inbox' \in [Workers -> Seq(Messages)]
         /\ \A w \in reached : inbox'[w] = Append(inbox[w], m)
         /\ \A w \in Workers \ reached : inbox'[w] = inbox[w]
<1>1. inbox' = [w \in Workers |-> IF w \in reached THEN Append(inbox[w], m) ELSE inbox[w]]
  BY DEF Tell
<1>2. \A w \in Workers : inbox[w] \in Seq(Messages) /\ Append(inbox[w], m) \in Seq(Messages)
  BY AppendProperties DEF TypeOK
<1>3. inbox' \in [Workers -> Seq(Messages)]
  BY <1>1, <1>2
<1>4. Ends(r) /\ req[r].step = "tell"
  BY TellEnds DEF Tell
<1> QED
  BY <1>1, <1>3, <1>4

LEMMA TellRevokedFacts ==
  ASSUME TypeOK, NEW r \in Requests, NEW reached \in SUBSET Workers, TellRevoked(r, reached)
  PROVE  /\ Ends(r) /\ req[r].step = "tell" /\ req[r].op \in RevokingOps
         /\ inbox' \in [Workers -> Seq(Messages)]
         /\ \A w \in reached : inbox'[w] = Append(inbox[w], "revoked")
         /\ \A w \in Workers \ reached : inbox'[w] = inbox[w]
         /\ unheard' = unheard \cup (Workers \ reached)
<1>1. "revoked" \in Messages
  BY DEF Messages
<1>2. /\ At(r, "tell") /\ Tell(r, "revoked", reached) /\ req[r].op \in RevokingOps
      /\ unheard' = unheard \cup (Workers \ reached)
  BY DEF TellRevoked
<1> QED
  BY <1>1, <1>2, TellFacts

MoveMessage(r) ==
  IF ShardOf[req[r].was] # ShardOf[req[r].goal] THEN "shardChanged" ELSE req[r].goal

LEMMA TellMovedFacts ==
  ASSUME TypeOK, RequestsAreLegal, NEW r \in Requests, NEW reached \in SUBSET Workers,
         TellMoved(r, reached)
  PROVE  /\ Ends(r) /\ req[r].step = "tell" /\ req[r].op = "move"
         /\ req[r].was \in Places /\ req[r].goal \in Places
         /\ inbox' \in [Workers -> Seq(Messages)]
         /\ \A w \in reached : inbox'[w] = Append(inbox[w], MoveMessage(r))
         /\ \A w \in Workers \ reached : inbox'[w] = inbox[w]
         /\ unseen' = unseen \cup (Workers \ reached)
<1>1. /\ At(r, "tell") /\ Tell(r, MoveMessage(r), reached) /\ req[r].op = "move"
      /\ unseen' = unseen \cup (Workers \ reached)
  BY DEF TellMoved, MoveMessage, Moved
<1>2. Legal(req[r]) /\ req[r].step = "tell"
  BY <1>1 DEF RequestsAreLegal, At
<1>3. req[r].was \in Places /\ req[r].goal \in Places
  BY <1>1, <1>2 DEF Legal
<1>4. MoveMessage(r) \in Messages
  BY <1>3 DEF MoveMessage, Messages
<1> QED
  BY <1>1, <1>3, <1>4, TellFacts

-----------------------------------------------------------------------------
(* What each action does to the connection attempts *)

OnlyConn(a) ==
  /\ conn' \in [Attempts -> Connection]
  /\ \A b \in Attempts : b # a => conn'[b] = conn[b]

Advances(a, s) ==
  /\ conn'[a].at = s
  /\ conn'[a].worker = conn[a].worker /\ conn'[a].ticket = conn[a].ticket

LEMMA EndedFacts ==
  ASSUME NEW c \in Connection
  PROVE  Ended(c) \in Connection /\ Ended(c).at = "ended" /\ Ended(c).ticket = c.ticket
<1>1. NoConnection \in Connection
  BY AccessBounds DEF NoConnection, Connection, PlaceOrNot
<1> QED
  BY <1>1 DEF Ended, Connection

LEMMA ConsumeFacts ==
  ASSUME TypeOK, NEW a \in Attempts, NEW w \in Workers, NEW t \in Requests, Consume(a, w, t)
  PROVE  /\ OnlyConn(a) /\ conn[a].at = "none"
         /\ conn'[a].at = "consumed" /\ conn'[a].worker = w /\ conn'[a].ticket = t
         /\ t \in tickets /\ tickets' = tickets \ {t}
<1> DEFINE c == [conn[a] EXCEPT !.at = "consumed", !.worker = w, !.ticket = t]
<1>1. /\ conn[a].at = "none" /\ t \in tickets /\ tickets' = tickets \ {t}
      /\ conn' = [conn EXCEPT ![a] = c]
  BY DEF Consume, Take
<1>2. t \in 0..MaxRequests
  BY AccessBounds DEF Requests
<1>3. conn[a] \in Connection
  BY DEF TypeOK
<1>4. c \in Connection /\ c.at = "consumed" /\ c.worker = w /\ c.ticket = t
  BY <1>2, <1>3 DEF Connection
<1> HIDE DEF c
<1>5. OnlyConn(a) /\ conn'[a] = c
  BY <1>1, <1>4 DEF OnlyConn, TypeOK
<1> QED
  BY <1>1, <1>4, <1>5

LEMMA LeaveFacts ==
  ASSUME TypeOK, NEW a \in Attempts, conn' = [conn EXCEPT ![a] = Ended(@)]
  PROVE  OnlyConn(a) /\ conn'[a].at = "ended" /\ conn'[a].ticket = conn[a].ticket
<1>1. conn[a] \in Connection
  BY DEF TypeOK
<1>2. conn'[a] = Ended(conn[a]) /\ OnlyConn(a)
  BY <1>1, EndedFacts DEF OnlyConn, TypeOK
<1> QED
  BY <1>1, <1>2, EndedFacts

LEMMA CheckFacts ==
  ASSUME TypeOK, NEW a \in Attempts, CheckRevoked(a)
  PROVE  /\ OnlyConn(a) /\ conn[a].at = "consumed"
         /\ \/ ~revoked /\ Advances(a, "allowed")
            \/ conn'[a].at = "ended" /\ conn'[a].ticket = conn[a].ticket
<1>1. CASE ~revoked
  <2> DEFINE c == [conn[a] EXCEPT !.at = "allowed"]
  <2>1. conn' = [conn EXCEPT ![a] = c] /\ conn[a].at = "consumed"
    BY <1>1 DEF CheckRevoked, Allows
  <2>2. conn[a] \in Connection
    BY DEF TypeOK
  <2>3. /\ c \in Connection /\ c.at = "allowed"
        /\ c.worker = conn[a].worker /\ c.ticket = conn[a].ticket
    BY <2>2 DEF Connection
  <2> HIDE DEF c
  <2>4. OnlyConn(a) /\ conn'[a] = c
    BY <2>1, <2>3 DEF OnlyConn, TypeOK
  <2> QED
    BY <1>1, <2>1, <2>3, <2>4 DEF Advances
<1>2. CASE revoked
  <2>1. conn' = [conn EXCEPT ![a] = Ended(@)] /\ conn[a].at = "consumed"
    BY <1>2 DEF CheckRevoked, Allows
  <2> QED
    BY <2>1, LeaveFacts
<1> QED
  BY <1>1, <1>2

LEMMA LocateFacts ==
  ASSUME TypeOK, NEW a \in Attempts, Locate(a)
  PROVE  /\ OnlyConn(a) /\ conn[a].at = "allowed"
         /\ \/ /\ Advances(a, "located") /\ record # Nowhere
               /\ conn'[a].place = record /\ conn'[a].home = ShardOf[record]
            \/ conn'[a].at = "ended" /\ conn'[a].ticket = conn[a].ticket
<1> DEFINE here == record # Nowhere /\ ShardOf[record] \in Owned[conn[a].worker]
<1>1. CASE here
  <2> DEFINE c == [conn[a] EXCEPT !.at = "located", !.place = record, !.home = ShardOf[record]]
  <2>1. conn' = [conn EXCEPT ![a] = c] /\ conn[a].at = "allowed"
    BY <1>1 DEF Locate
  <2>2. conn[a] \in Connection /\ record \in Places
    BY <1>1 DEF TypeOK, PlaceOrNot
  <2>3. ShardOf[record] \in Shards
    BY <2>2, ShardOfAssumption
  <2>4. /\ c \in Connection /\ c.at = "located" /\ c.place = record /\ c.home = ShardOf[record]
        /\ c.worker = conn[a].worker /\ c.ticket = conn[a].ticket
    BY <2>2, <2>3 DEF Connection, PlaceOrNot
  <2> HIDE DEF c
  <2>5. OnlyConn(a) /\ conn'[a] = c
    BY <2>1, <2>4 DEF OnlyConn, TypeOK
  <2> QED
    BY <1>1, <2>1, <2>4, <2>5 DEF Advances
<1>2. CASE ~here
  <2>1. conn' = [conn EXCEPT ![a] = Ended(@)] /\ conn[a].at = "allowed"
    BY <1>2 DEF Locate
  <2> QED
    BY <2>1, LeaveFacts
<1> QED
  BY <1>1, <1>2

LEMMA RegisterFacts ==
  ASSUME TypeOK, NEW a \in Attempts, Register(a)
  PROVE  /\ conn' \in [Attempts -> Connection] /\ conn[a].at = "located"
         /\ Advances(a, "live")
         /\ conn'[a].place = conn[a].place /\ conn'[a].home = conn[a].home
         /\ \A b \in Attempts : b # a =>
              \/ conn'[b] = conn[b]
              \/ /\ conn[b].at = "live"
                 /\ conn'[b].at = "ended" /\ conn'[b].ticket = conn[b].ticket
<1> DEFINE c == [conn[a] EXCEPT !.at = "live"]
           other(b) == IF b \in Pending(conn[a].worker, {"live"}) THEN Ended(conn[b]) ELSE conn[b]
<1>1. /\ conn' = [b \in Attempts |-> IF b = a THEN c ELSE other(b)]
      /\ conn[a].at = "located"
  BY DEF Register
<1>2. \A b \in Attempts : conn[b] \in Connection
  BY DEF TypeOK
<1>3. /\ c \in Connection /\ c.at = "live" /\ c.place = conn[a].place /\ c.home = conn[a].home
      /\ c.worker = conn[a].worker /\ c.ticket = conn[a].ticket
  BY <1>2 DEF Connection
<1>4. \A b \in Attempts :
        /\ other(b) \in Connection
        /\ \/ other(b) = conn[b]
           \/ conn[b].at = "live" /\ other(b).at = "ended" /\ other(b).ticket = conn[b].ticket
  BY <1>2, EndedFacts DEF Pending
<1> HIDE DEF c, other
<1>5. conn' \in [Attempts -> Connection] /\ conn'[a] = c
  BY <1>1, <1>3, <1>4
<1>6. \A b \in Attempts : b # a => conn'[b] = other(b)
  BY <1>1
<1>7. \A b \in Attempts : b # a =>
        \/ conn'[b] = conn[b]
        \/ conn[b].at = "live" /\ conn'[b].at = "ended" /\ conn'[b].ticket = conn[b].ticket
  BY <1>4, <1>6
<1> QED
  BY <1>1, <1>3, <1>5, <1>7 DEF Advances

(* The session of an attempt, moved to place m *)
Relocated(a, m) ==
  /\ Advances(a, conn[a].at)
  /\ conn'[a].place = m /\ conn'[a].home = conn[a].home

LEMMA HandleFacts ==
  ASSUME TypeOK, NEW w \in Workers, HandleControl(w)
  PROVE  /\ inbox[w] # <<>> /\ Head(inbox[w]) \in Messages
         /\ inbox' \in [Workers -> Seq(Messages)]
         /\ inbox'[w] = Tail(inbox[w])
         /\ \A v \in Workers : v # w => inbox'[v] = inbox[v]
         /\ conn' \in [Attempts -> Connection]
         /\ \A a \in Attempts :
              IF a \notin Pending(w, {"live"}) THEN conn'[a] = conn[a]
              ELSE IF Head(inbox[w]) \in Places THEN Relocated(a, Head(inbox[w]))
              ELSE conn'[a].at = "ended" /\ conn'[a].ticket = conn[a].ticket
<1> DEFINE m == Head(inbox[w])
           moved(a) == [conn[a] EXCEPT !.place = m]
           new(a) == IF a \notin Pending(w, {"live"}) THEN conn[a]
                     ELSE IF m \in Places THEN moved(a) ELSE Ended(conn[a])
<1>1. /\ inbox[w] # <<>>
      /\ inbox' = [inbox EXCEPT ![w] = Tail(@)]
      /\ conn' = [a \in Attempts |-> new(a)]
  BY DEF HandleControl, ApplyControl
<1>2. inbox[w] \in Seq(Messages)
  BY DEF TypeOK
<1>3. m \in Messages /\ Tail(inbox[w]) \in Seq(Messages)
  BY <1>1, <1>2, HeadTailProperties
<1>4. /\ inbox' \in [Workers -> Seq(Messages)]
      /\ inbox'[w] = Tail(inbox[w])
      /\ \A v \in Workers : v # w => inbox'[v] = inbox[v]
  BY <1>1, <1>3 DEF TypeOK
<1>5. \A a \in Attempts : conn[a] \in Connection
  BY DEF TypeOK
<1> HIDE DEF m
<1>6. \A a \in Attempts :
        /\ m \in Places => moved(a) \in Connection
        /\ moved(a).at = conn[a].at /\ moved(a).worker = conn[a].worker
        /\ moved(a).ticket = conn[a].ticket /\ moved(a).home = conn[a].home
        /\ moved(a).place = m
  BY <1>5 DEF Connection, PlaceOrNot
<1> HIDE DEF moved
<1>7. \A a \in Attempts : new(a) \in Connection
  BY <1>5, <1>6, EndedFacts
<1>8. conn' \in [Attempts -> Connection] /\ \A a \in Attempts : conn'[a] = new(a)
  <2> HIDE DEF new
  <2> QED BY <1>1, <1>7
<1>9. \A a \in Attempts :
        IF a \notin Pending(w, {"live"}) THEN conn'[a] = conn[a]
        ELSE IF m \in Places THEN Relocated(a, m)
        ELSE conn'[a].at = "ended" /\ conn'[a].ticket = conn[a].ticket
  <2> SUFFICES ASSUME NEW a \in Attempts
               PROVE  IF a \notin Pending(w, {"live"}) THEN conn'[a] = conn[a]
                      ELSE IF m \in Places THEN Relocated(a, m)
                      ELSE conn'[a].at = "ended" /\ conn'[a].ticket = conn[a].ticket
    OBVIOUS
  <2>1. CASE a \notin Pending(w, {"live"})
    BY <1>8, <2>1
  <2>2. CASE a \in Pending(w, {"live"}) /\ m \in Places
    BY <1>6, <1>8, <2>2 DEF Relocated, Advances
  <2>3. CASE a \in Pending(w, {"live"}) /\ m \notin Places
    BY <1>5, <1>8, <2>3, EndedFacts
  <2> QED
    BY <2>1, <2>2, <2>3
<1> QED
  BY <1>1, <1>3, <1>4, <1>8, <1>9 DEF m

-----------------------------------------------------------------------------
(* The first layer is invariant *)

LEMMA RequestsStayLegal ==
  ASSUME RequestsAreLegal, NEW r \in Requests, OnlyAt(r), Legal(req'[r])
  PROVE  RequestsAreLegal'
BY DEF RequestsAreLegal, OnlyAt, Legal

LEMMA EndsLegally ==
  ASSUME NEW r \in Requests, Ends(r)
  PROVE  Legal(req'[r]) /\ OnlyAt(r)
BY DEF Ends, Legal

(* A request other than the registration means that there is a token, and   *)
(* that the registration is over                                            *)
LEMMA LaterRequests ==
  ASSUME Control, NEW r \in Requests, req[r].op \notin {"none", "register"}
  PROVE  /\ token
         /\ \A q \in Requests : req[q].op # "register"
BY DEF Control, Untouched, RegistersOnce

LEMMA LaterStep ==
  ASSUME Control, NEW r \in Requests, req[r].op \notin {"none", "register"},
         OnlyAt(r), req'[r].op \in {req[r].op, "none"}, Legal(req'[r]), req'[r].step # "none",
         token' = token, TypeOK'
  PROVE  Control'
<1>1. token' /\ \A q \in Requests : req[q].op # "register"
  BY LaterRequests
<1>2. \A q \in Requests : req'[q].op # "register"
  BY <1>1 DEF OnlyAt
<1>3. 1 \in Requests => req'[1].step # "none"
  BY <1>1 DEF OnlyAt, Control, RegistersOnce
<1>4. RegistersOnce' /\ Untouched' /\ RowIsRegistered'
  BY <1>1, <1>2, <1>3 DEF RegistersOnce, Untouched, RowIsRegistered
<1>5. RequestsAreLegal'
  BY RequestsStayLegal DEF Control
<1> QED
  BY <1>4, <1>5 DEF Control

LEMMA LaterEnd ==
  ASSUME Control, NEW r \in Requests, req[r].op \notin {"none", "register"},
         Ends(r), token' = token, TypeOK'
  PROVE  Control'
<1>1. /\ OnlyAt(r) /\ req'[r].op \in {req[r].op, "none"}
      /\ Legal(req'[r]) /\ req'[r].step # "none"
  BY EndsLegally DEF Ends
<1> QED
  BY <1>1, LaterStep

LEMMA LaterProceeds ==
  ASSUME Control, NEW r \in Requests, req[r].op \notin {"none", "register"},
         NEW s, Proceeds(r, s), s # "none", Legal(req'[r]), token' = token, TypeOK'
  PROVE  Control'
<1>1. OnlyAt(r) /\ req'[r].op \in {req[r].op, "none"} /\ req'[r].step # "none"
  BY DEF Proceeds
<1> QED
  BY <1>1, LaterStep

(* The registration ends *)
LEMMA RegistrationEnds ==
  ASSUME Control, NEW r \in Requests, req[r].op = "register", Ends(r),
         UNCHANGED <<tickets, inbox, conn>>, TypeOK'
  PROVE  Control'
<1>1. r = 1 /\ ~token /\ \A q \in Requests : q # r => req[q].op # "register"
  BY DEF Control, RegistersOnce
<1>2. \A q \in Requests : req'[q].op # "register"
  BY <1>1 DEF Ends, OnlyAt
<1>3. req'[1].step # "none"
  BY <1>1 DEF Ends
<1>4. RegistersOnce' /\ RowIsRegistered'
  BY <1>2, <1>3 DEF RegistersOnce, RowIsRegistered
<1>5. Untouched'
  BY <1>1 DEF Control, Untouched, Ends, OnlyAt
<1>6. RequestsAreLegal'
  BY EndsLegally, RequestsStayLegal DEF Control
<1> QED
  BY <1>4, <1>5, <1>6 DEF Control

(* The registration goes on, its location in the row *)
LEMMA RegistrationProceeds ==
  ASSUME Control, NEW r \in Requests, req[r].op = "register",
         NEW s \in {"record", "rollback"}, Proceeds(r, s), row' = req[r].goal,
         req[r].goal \in Places,
         UNCHANGED <<tickets, token, inbox, conn>>, TypeOK'
  PROVE  Control'
<1>1. r = 1 /\ ~token /\ \A q \in Requests : q # r => req[q].op # "register"
  BY DEF Control, RegistersOnce
<1>2. \A q \in Requests : req'[q].op = "register" => q = r
  BY <1>1 DEF Proceeds, OnlyAt
<1>3. RegistersOnce' /\ RowIsRegistered'
  BY <1>1, <1>2 DEF RegistersOnce, RowIsRegistered, Proceeds
<1>4. Untouched'
  BY <1>1 DEF Control, Untouched, Proceeds, OnlyAt
<1>5. Legal(req'[r]) /\ OnlyAt(r)
  BY DEF Proceeds, Legal
<1>6. RequestsAreLegal'
  BY <1>5, RequestsStayLegal DEF Control
<1> QED
  BY <1>3, <1>4, <1>6 DEF Control

LEMMA ControlBegin ==
  ASSUME Control, NEW r \in Requests, NEW o \in Ops, NEW p \in PlaceOrNot, Begin(r, o, p)
  PROVE  Control'
<1>1. /\ OnlyAt(r) /\ req[r].step = "none"
      /\ req'[r].op = o /\ req'[r].goal = p
      /\ \/ o = "register" /\ req'[r].step = "insert"
         \/ o \in DeviceOps /\ req'[r].step = "auth"
         \/ o = "revoke" /\ req'[r].step = "find"
         \/ o = "delete" /\ req'[r].step = "revoke"
  BY BeginFacts DEF Control
<1>2. UNCHANGED <<row, record, revoked, tickets, token, inbox, conn, torn, unheard, unseen, slipped>>
  BY DEF Begin, storeVars, historyVars
<1>3. /\ o = "register" => r = 1
      /\ o # "register" => token
      /\ (p = Nowhere) <=> (o \notin {"register", "move"})
  BY DEF Begin
<1>4. TypeOK'
  BY <1>1, <1>2 DEF Control, TypeOK, OnlyAt
<1>5. Legal(req'[r])
  BY <1>1, <1>3 DEF Legal, DeviceOps, PlaceOrNot
<1>6. RequestsAreLegal'
  BY <1>1, <1>5, RequestsStayLegal DEF Control
<1>7. o = "register" => ~token
  BY <1>1, <1>3 DEF Control, RegistersOnce
<1>8. RegistersOnce'
  BY <1>1, <1>2, <1>3, <1>7 DEF Control, RegistersOnce, OnlyAt, DeviceOps
<1>9. Untouched'
  BY <1>1, <1>2, <1>3, <1>7 DEF Control, Untouched, OnlyAt
<1>10. RowIsRegistered'
  BY <1>1, <1>2 DEF Control, RowIsRegistered, OnlyAt
<1> QED
  BY <1>4, <1>6, <1>8, <1>9, <1>10 DEF Control

LEMMA ControlRequest ==
  ASSUME Control, NEW r \in Requests, RequestStep(r)
  PROVE  Control'
<1> USE DEF Control
<1>1. ASSUME NEW o \in Ops, NEW p \in PlaceOrNot, Begin(r, o, p) PROVE Control'
  BY <1>1, ControlBegin
<1>2. ASSUME Auth(r) PROVE Control'
  <2>1. UNCHANGED <<row, record, revoked, tickets, token, inbox, conn, torn, unheard, unseen, slipped>>
    BY <1>2 DEF Auth, storeVars, historyVars
  <2>2. /\ req[r].step = "auth" /\ req[r].op \in DeviceOps
        /\ \/ Ends(r)
           \/ req[r].op = "leave" /\ Proceeds(r, "revoke")
           \/ req[r].op # "leave" /\ Proceeds(r, "find")
    BY <1>2, AuthFacts
  <2>3. OnlyAt(r) /\ req[r].op \notin {"none", "register"}
    BY <2>2 DEF Ends, Proceeds, DeviceOps
  <2>4. TypeOK'
    BY <2>1, <2>3 DEF TypeOK, OnlyAt
  <2>5. Ends(r) \/ Legal(req'[r])
    BY <2>2 DEF RequestsAreLegal, Legal, Proceeds, DeviceOps
  <2> QED
    BY <2>1, <2>2, <2>3, <2>4, <2>5, LaterEnd, LaterProceeds
<1>3. ASSUME Find(r) PROVE Control'
  <2>1. UNCHANGED <<row, record, revoked, tickets, token, inbox, conn, torn, unheard, unseen, slipped>>
    BY <1>3 DEF Find, storeVars, historyVars
  <2>2. /\ req[r].step = "find"
        /\ \/ Ends(r)
           \/ /\ row # Nowhere /\ OnlyAt(r)
              /\ req'[r].op = req[r].op /\ req'[r].goal = req[r].goal /\ req'[r].was = row
              /\ \/ req[r].op = "move" /\ req'[r].step = "write"
                 \/ req[r].op = "heartbeat" /\ req'[r].step = "touch"
                 \/ req[r].op = "ticket" /\ req'[r].step = "record"
                 \/ req[r].op = "revoke" /\ req'[r].step = "revoke"
    BY <1>3, FindFacts
  <2>3. OnlyAt(r)
    BY <2>2 DEF Ends
  <2>4. TypeOK'
    BY <2>1, <2>3 DEF TypeOK, OnlyAt
  <2>5. req[r].op \notin {"none", "register"}
    BY <2>2 DEF RequestsAreLegal, Legal
  <2>6. CASE Ends(r)
    BY <2>1, <2>4, <2>5, <2>6, LaterEnd
  <2>7. CASE ~Ends(r)
    <3>1. req'[r].op = req[r].op /\ Legal(req'[r]) /\ req'[r].step # "none"
      BY <2>2, <2>7 DEF RequestsAreLegal, Legal, TypeOK, PlaceOrNot
    <3> QED
      BY <2>1, <2>3, <2>4, <2>5, <3>1, LaterStep
  <2> QED
    BY <2>6, <2>7
<1>4. ASSUME Insert(r) PROVE Control'
  <2>1. UNCHANGED <<record, revoked, tickets, token, inbox, conn, torn, unheard, unseen, slipped>> /\ row' = req[r].goal
    BY <1>4 DEF Insert, historyVars
  <2>2. req[r].op = "register" /\ req[r].goal \in Places /\ Proceeds(r, "record")
    BY <1>4, InsertFacts
  <2>3. TypeOK'
    BY <2>1, <2>2 DEF TypeOK, Proceeds, OnlyAt, PlaceOrNot
  <2> QED
    BY <2>1, <2>2, <2>3, RegistrationProceeds
<1>5. ASSUME Write(r) PROVE Control'
  <2>1. UNCHANGED <<record, revoked, tickets, token, inbox, conn, unheard, unseen, slipped>>
    BY <1>5 DEF Write
  <2>2. /\ req[r].step = "write" /\ req[r].op = "move"
        /\ req[r].goal \in Places /\ req[r].was \in Places
        /\ \/ Ends(r) /\ row = Nowhere /\ UNCHANGED <<row, torn>>
           \/ Proceeds(r, "record") /\ row # Nowhere /\ row' = req[r].goal /\ torn'
    BY <1>5, WriteFacts
  <2>3. OnlyAt(r) /\ torn' \in BOOLEAN
    BY <1>5, <2>2 DEF Ends, Proceeds, Write, TypeOK
  <2>4. TypeOK'
    BY <2>1, <2>2, <2>3 DEF TypeOK, OnlyAt, PlaceOrNot
  <2>5. Ends(r) \/ Legal(req'[r])
    BY <2>2 DEF Legal, Proceeds
  <2> QED
    BY <2>1, <2>2, <2>4, <2>5, LaterEnd, LaterProceeds
<1>6. ASSUME Touch(r) PROVE Control'
  <2>1. UNCHANGED <<row, record, revoked, tickets, token, inbox, conn, torn, unheard, unseen, slipped>>
    BY <1>6 DEF Touch, storeVars, historyVars
  <2>2. /\ req[r].step = "touch" /\ req[r].op = "heartbeat"
        /\ Ends(r) \/ Proceeds(r, "record")
    BY <1>6, TouchFacts
  <2>3. TypeOK'
    BY <2>1, <2>2 DEF TypeOK, OnlyAt, Ends, Proceeds
  <2>4. Ends(r) \/ Legal(req'[r])
    BY <2>2 DEF Legal, RequestsAreLegal, Proceeds
  <2> QED
    BY <2>1, <2>2, <2>3, <2>4, LaterEnd, LaterProceeds
<1>7. ASSUME Record(r) PROVE Control'
  <2>1. UNCHANGED <<row, revoked, tickets, inbox, conn, unheard, unseen, slipped>> /\ torn' = FALSE
    BY <1>7 DEF Record
  <2>2. /\ req[r].step = "record"
        /\ \/ req[r].op = "register" /\ Ends(r) /\ token'
           \/ req[r].op = "heartbeat" /\ Ends(r) /\ token' = token
           \/ req[r].op = "ticket" /\ Proceeds(r, "issue") /\ token' = token
           \/ req[r].op = "move" /\ Proceeds(r, "tell") /\ token' = token
        /\ record' \in Places
    BY <1>7, RecordFacts
  <2>3. token' \in BOOLEAN
    BY <1>7 DEF Record, TypeOK
  <2>4. OnlyAt(r)
    BY <2>2 DEF Ends, Proceeds
  <2>5. TypeOK'
    BY <2>1, <2>2, <2>3, <2>4 DEF TypeOK, OnlyAt, PlaceOrNot
  <2>6. Ends(r) \/ Legal(req'[r])
    BY <2>2 DEF Legal, RequestsAreLegal, Proceeds
  <2> QED
    BY <2>1, <2>2, <2>5, <2>6, LaterEnd, LaterProceeds, RegistrationEnds
<1>8. ASSUME Rollback(r) PROVE Control'
  <2>1. UNCHANGED <<record, revoked, tickets, token, inbox, conn, torn, unheard, unseen, slipped>> /\ row' = Nowhere /\ GiveUp(r) /\ req[r].step = "rollback"
    BY <1>8 DEF Rollback, historyVars, At
  <2>2. req[r].op = "register" /\ Ends(r)
    BY <2>1, GiveUpEnds DEF RequestsAreLegal, Legal
  <2>3. TypeOK'
    BY <2>1, <2>2 DEF TypeOK, OnlyAt, Ends, PlaceOrNot
  <2> QED
    BY <2>1, <2>2, <2>3, RegistrationEnds
<1>9. ASSUME Issue(r) PROVE Control'
  <2>1. UNCHANGED <<row, record, revoked, token, inbox, conn, torn, unheard, unseen, slipped>> /\ tickets' = tickets \cup {r}
    BY <1>9 DEF Issue, historyVars
  <2>2. req[r].op = "ticket" /\ Ends(r)
    BY <1>9, IssueFacts
  <2>3. TypeOK'
    BY <2>1, <2>2 DEF TypeOK, OnlyAt, Ends
  <2> QED
    BY <2>1, <2>2, <2>3, LaterEnd
<1>10. ASSUME Revoke(r) PROVE Control'
  <2>1. UNCHANGED <<row, record, tickets, token, inbox, conn, torn, unheard, unseen, slipped>> /\ revoked' = TRUE
    BY <1>10 DEF Revoke, historyVars
  <2>2. \/ req[r].op = "revoke" /\ Proceeds(r, "tell")
        \/ req[r].op \in {"leave", "delete"} /\ Proceeds(r, "erase")
    BY <1>10, RevokeFacts
  <2>3. TypeOK'
    BY <2>1, <2>2 DEF TypeOK, OnlyAt, Proceeds
  <2>4. Legal(req'[r])
    BY <2>2 DEF Legal, Proceeds
  <2> QED
    BY <2>1, <2>2, <2>3, <2>4, LaterProceeds
<1>11. ASSUME Erase(r) PROVE Control'
  <2>1. UNCHANGED <<record, revoked, tickets, token, inbox, conn, torn, unheard, unseen, slipped>> /\ row' = Nowhere
    BY <1>11 DEF Erase, historyVars
  <2>2. req[r].op \in {"leave", "delete"} /\ Proceeds(r, "forget")
    BY <1>11, EraseFacts
  <2>3. TypeOK'
    BY <2>1, <2>2 DEF TypeOK, OnlyAt, Proceeds, PlaceOrNot
  <2>4. Legal(req'[r])
    BY <2>2 DEF Legal, Proceeds
  <2> QED
    BY <2>1, <2>2, <2>3, <2>4, LaterProceeds
<1>12. ASSUME TellNothing(r) PROVE Control'
  <2>1. UNCHANGED <<row, record, revoked, tickets, token, inbox, conn, torn, unheard, unseen, slipped>>
    BY <1>12 DEF TellNothing, storeVars
  <2>2. req[r].op = "move" /\ Ends(r)
    BY <1>12, TellEnds DEF TellNothing
  <2>3. TypeOK'
    BY <2>1, <2>2 DEF TypeOK, OnlyAt, Ends
  <2> QED
    BY <2>1, <2>2, <2>3, LaterEnd
<1>13. ASSUME Fail(r) PROVE Control'
  <2>1. UNCHANGED <<row, record, revoked, tickets, token, inbox, conn, torn, slipped>> /\ GiveUp(r) /\ req[r].step \in Steps
    BY <1>13 DEF Fail, UnderWay, storeVars
  <2>2. unheard' \subseteq Workers /\ unseen' \subseteq Workers
    BY <1>13 DEF Fail, TypeOK
  <2>3. Ends(r)
    BY <2>1, GiveUpEnds
  <2>4. req[r].op # "none"
    BY <2>1 DEF RequestsAreLegal, Legal, Steps
  <2>5. TypeOK'
    BY <2>1, <2>2, <2>3 DEF TypeOK, OnlyAt, Ends
  <2> QED
    BY <2>1, <2>3, <2>4, <2>5, LaterEnd, RegistrationEnds
<1>14. ASSUME NEW b \in BOOLEAN, RecordFails(r, b) PROVE Control'
  <2>1. UNCHANGED <<row, revoked, tickets, token, inbox, conn, torn, unheard, unseen, slipped>>
    BY <1>14 DEF RecordFails, historyVars
  <2>2. /\ req[r].step = "record" /\ req[r].op = "register" /\ req[r].goal \in Places
        /\ Proceeds(r, "rollback") /\ record' \in PlaceOrNot
    BY <1>14, RecordFailsFacts
  <2>3. TypeOK'
    BY <2>1, <2>2 DEF TypeOK, OnlyAt, Proceeds
  <2>4. row' = req[r].goal
    BY <2>1, <2>2 DEF RowIsRegistered
  <2> QED
    BY <2>1, <2>2, <2>3, <2>4, RegistrationProceeds
<1>15. ASSUME NEW b \in BOOLEAN, Forget(r, b) PROVE Control'
  <2>1. UNCHANGED <<row, revoked, tickets, token, inbox, conn, torn, unheard, unseen, slipped>>
    BY <1>15 DEF Forget, historyVars
  <2>2. /\ req[r].op \in {"leave", "delete"} /\ Proceeds(r, "tell")
        /\ record' \in {record, Nowhere}
    BY <1>15, ForgetFacts
  <2>3. TypeOK'
    BY <2>1, <2>2 DEF TypeOK, OnlyAt, Proceeds, PlaceOrNot
  <2>4. Legal(req'[r])
    BY <2>2 DEF Legal, Proceeds
  <2> QED
    BY <2>1, <2>2, <2>3, <2>4, LaterProceeds
<1>16. ASSUME NEW reached \in SUBSET Workers, TellRevoked(r, reached) PROVE Control'
  <2>1. UNCHANGED <<row, record, revoked, tickets, token, conn, torn, unseen, slipped>>
    BY <1>16 DEF TellRevoked, Tell, storeVars
  <2>2. /\ Ends(r) /\ req[r].op \in RevokingOps
        /\ inbox' \in [Workers -> Seq(Messages)]
        /\ unheard' = unheard \cup (Workers \ reached)
    BY <1>16, TellRevokedFacts
  <2>3. TypeOK'
    BY <2>1, <2>2 DEF TypeOK, OnlyAt, Ends
  <2>4. req[r].op \notin {"none", "register"}
    BY <2>2 DEF RevokingOps
  <2> QED
    BY <2>1, <2>2, <2>3, <2>4, LaterEnd
<1>17. ASSUME NEW reached \in SUBSET Workers, TellMoved(r, reached) PROVE Control'
  <2>1. UNCHANGED <<row, record, revoked, tickets, token, conn, torn, unheard, slipped>>
    BY <1>17 DEF TellMoved, Tell, storeVars
  <2>2. /\ Ends(r) /\ req[r].op = "move"
        /\ inbox' \in [Workers -> Seq(Messages)]
        /\ unseen' = unseen \cup (Workers \ reached)
    BY <1>17, TellMovedFacts
  <2>3. TypeOK'
    BY <2>1, <2>2 DEF TypeOK, OnlyAt, Ends
  <2> QED
    BY <2>1, <2>2, <2>3, LaterEnd
<1> QED
  BY <1>1, <1>2, <1>3, <1>4, <1>5, <1>6, <1>7, <1>8, <1>9, <1>10, <1>11, <1>12, <1>13, <1>14, <1>15, <1>16, <1>17 DEF RequestStep

LEMMA ControlAttempt ==
  ASSUME Control, NEW a \in Attempts, AttemptStep(a)
  PROVE  Control'
<1> USE DEF Control
<1>1. ASSUME conn' \in [Attempts -> Connection], tickets' \subseteq tickets, token,
             UNCHANGED <<row, record, revoked, token, req, inbox, torn, unheard, unseen, slipped>>
      PROVE  Control'
  <2>1. TypeOK'
    BY <1>1 DEF TypeOK
  <2>2. RequestsAreLegal'
    BY <1>1 DEF RequestsAreLegal, Legal
  <2>3. RegistersOnce' /\ Untouched' /\ RowIsRegistered'
    BY <1>1 DEF RegistersOnce, Untouched, RowIsRegistered
  <2> QED
    BY <2>1, <2>2, <2>3
<1>2. ASSUME NEW w \in Workers, NEW t \in Requests, Consume(a, w, t) PROVE Control'
  <2>1. OnlyConn(a) /\ t \in tickets /\ tickets' = tickets \ {t}
    BY <1>2, ConsumeFacts
  <2>2. token
    BY <2>1 DEF Untouched
  <2>3. UNCHANGED <<row, record, revoked, token, req, inbox, torn, unheard, unseen, slipped>>
    BY <1>2 DEF Consume, historyVars
  <2> QED
    BY <1>1, <2>1, <2>2, <2>3 DEF OnlyConn
<1>3. ASSUME CheckRevoked(a) \/ Locate(a) \/ Register(a) \/ Leave(a) PROVE Control'
  <2>1. UNCHANGED <<row, record, revoked, tickets, token, req, inbox, torn, unheard, unseen, slipped>>
    BY <1>3 DEF CheckRevoked, Locate, Register, Leave, storeVars, historyVars
  <2>2. conn' \in [Attempts -> Connection]
    BY <1>3, CheckFacts, LocateFacts, RegisterFacts, LeaveFacts DEF OnlyConn, Leave
  <2>3. conn[a].at # "none"
    BY <1>3 DEF CheckRevoked, Locate, Register, Leave
  <2>4. token
    BY <2>3 DEF Untouched
  <2> QED
    BY <1>1, <2>1, <2>2, <2>4
<1> QED
  BY <1>2, <1>3 DEF AttemptStep

LEMMA ControlHandle ==
  ASSUME Control, NEW w \in Workers, HandleControl(w)
  PROVE  Control'
<1> USE DEF Control
<1>1. UNCHANGED <<row, record, revoked, tickets, token, req, torn, unheard, unseen>>
  BY DEF HandleControl, storeVars
<1>2. /\ inbox[w] # <<>> /\ inbox' \in [Workers -> Seq(Messages)]
      /\ conn' \in [Attempts -> Connection]
  BY HandleFacts
<1>3. slipped' \subseteq Attempts
  BY DEF HandleControl, TypeOK, Pending
<1>4. TypeOK'
  BY <1>1, <1>2, <1>3 DEF TypeOK
<1>5. token
  BY <1>2 DEF Untouched
<1>6. RequestsAreLegal'
  BY <1>1 DEF RequestsAreLegal, Legal
<1>7. RegistersOnce' /\ Untouched' /\ RowIsRegistered'
  BY <1>1, <1>5 DEF RegistersOnce, Untouched, RowIsRegistered
<1> QED
  BY <1>4, <1>6, <1>7

LEMMA ControlExpires ==
  ASSUME Control, RecordExpires \/ \E t \in Requests : TicketExpires(t)
  PROVE  Control'
<1> USE DEF Control
<1>1. UNCHANGED <<row, revoked, token, req, inbox, conn, torn, unheard, unseen, slipped>>
  BY DEF RecordExpires, TicketExpires, historyVars
<1>2. tickets' \subseteq tickets /\ record' \in PlaceOrNot
  BY DEF RecordExpires, TicketExpires, TypeOK, PlaceOrNot
<1>3. TypeOK'
  BY <1>1, <1>2 DEF TypeOK
<1>4. RequestsAreLegal'
  BY <1>1 DEF RequestsAreLegal, Legal
<1>5. RegistersOnce' /\ Untouched' /\ RowIsRegistered'
  BY <1>1, <1>2 DEF RegistersOnce, Untouched, RowIsRegistered
<1> QED
  BY <1>3, <1>4, <1>5

LEMMA ControlStutter ==
  ASSUME Control, UNCHANGED vars
  PROVE  Control'
<1> USE DEF Control
<1>1. UNCHANGED <<row, record, revoked, tickets, token, req, inbox, conn,
                  torn, unheard, unseen, slipped>>
  BY DEF vars
<1>2. TypeOK'
  BY <1>1 DEF TypeOK
<1>3. RequestsAreLegal'
  BY <1>1 DEF RequestsAreLegal, Legal
<1>4. RegistersOnce' /\ Untouched' /\ RowIsRegistered'
  BY <1>1 DEF RegistersOnce, Untouched, RowIsRegistered
<1> QED
  BY <1>2, <1>3, <1>4

LEMMA ControlInit ==
  ASSUME Init
  PROVE  Control
<1>1. NoRequest \in Request /\ NoRequest.op = "none" /\ NoRequest.step = "none"
  BY DEF NoRequest, Request, PlaceOrNot
<1>2. NoConnection \in Connection /\ NoConnection.at = "none"
  BY AccessBounds DEF NoConnection, Connection, PlaceOrNot
<1>3. TypeOK
  <2>1. row \in PlaceOrNot /\ record \in PlaceOrNot
    BY DEF Init, PlaceOrNot
  <2>2. req \in [Requests -> Request]
    BY <1>1 DEF Init
  <2>3. conn \in [Attempts -> Connection]
    BY <1>2 DEF Init
  <2>4. inbox \in [Workers -> Seq(Messages)]
    BY DEF Init
  <2> QED
    BY <2>1, <2>2, <2>3, <2>4 DEF Init, TypeOK
<1>4. RequestsAreLegal /\ RegistersOnce /\ RowIsRegistered
  BY <1>1 DEF Init, RequestsAreLegal, Legal, RegistersOnce, RowIsRegistered
<1>5. Untouched
  BY <1>1, <1>2 DEF Init, Untouched
<1> QED
  BY <1>3, <1>4, <1>5 DEF Control

LEMMA ControlInvariant == Spec => []Control
<1>1. Init => Control
  BY ControlInit
<1>2. Control /\ [Next]_vars => Control'
  BY ControlRequest, ControlAttempt, ControlHandle, ControlExpires, ControlStutter DEF Next
<1> QED
  BY <1>1, <1>2, PTL DEF Spec

(* The variables keep their types: an answer of Redis or a message that is  *)
(* no location never gets into a session or a row.                          *)
THEOREM AccessTypeCorrect == Spec => []TypeOK
<1>1. Control => TypeOK
  BY DEF Control
<1> QED
  BY <1>1, ControlInvariant, PTL

-----------------------------------------------------------------------------
(* Tickets, revocation and deletion *)

(* A step of a request leaves the other requests and the attempts alone *)
LEMMA RequestFrame ==
  ASSUME Control, NEW r \in Requests, RequestStep(r)
  PROVE  OnlyAt(r) /\ req[r].step # "over" /\ conn' = conn /\ slipped' = slipped
<1> USE DEF Control
<1>1. req[r].step # "over"
  BY DEF RequestStep, Begin, Auth, Find, Insert, Write, Touch, Record, Rollback, Issue, Revoke,
         Erase, TellNothing, Fail, RecordFails, Forget, TellRevoked, TellMoved, At, UnderWay, Steps
<1>2. conn' = conn /\ slipped' = slipped
  BY DEF RequestStep, Begin, Auth, Find, Insert, Write, Touch, Record, Rollback, Issue, Revoke,
         Erase, TellNothing, Fail, RecordFails, Forget, TellRevoked, TellMoved, Tell, historyVars
<1>3. ASSUME GiveUp(r) PROVE OnlyAt(r)
  BY <1>3, GiveUpEnds DEF Ends
<1>4. ASSUME NEW o \in Ops, NEW p \in PlaceOrNot, Begin(r, o, p) PROVE OnlyAt(r)
  BY <1>4, BeginFacts
<1>5. Auth(r) \/ Find(r) \/ Insert(r) \/ Write(r) \/ Touch(r) => OnlyAt(r)
  BY AuthFacts, FindFacts, InsertFacts, WriteFacts, TouchFacts DEF Ends, Proceeds
<1>6. Record(r) \/ Issue(r) \/ Revoke(r) \/ Erase(r) => OnlyAt(r)
  BY RecordFacts, IssueFacts, RevokeFacts, EraseFacts DEF Ends, Proceeds
<1>7. Rollback(r) \/ Fail(r) => OnlyAt(r)
  BY <1>3 DEF Rollback, Fail
<1>8. TellNothing(r) => OnlyAt(r)
  BY TellEnds DEF TellNothing, Ends
<1>9. ASSUME NEW b \in BOOLEAN, RecordFails(r, b) \/ Forget(r, b) PROVE OnlyAt(r)
  BY <1>9, RecordFailsFacts, ForgetFacts DEF Proceeds
<1>10. ASSUME NEW reached \in SUBSET Workers, TellRevoked(r, reached) \/ TellMoved(r, reached)
       PROVE OnlyAt(r)
  BY <1>10, TellRevokedFacts, TellMovedFacts DEF Ends
<1>11. OnlyAt(r)
  BY <1>4, <1>5, <1>6, <1>7, <1>8, <1>9, <1>10 DEF RequestStep
<1> QED
  BY <1>1, <1>2, <1>11

LEMMA TicketFrame ==
  ASSUME TypeOK, TicketInv, tickets' \subseteq tickets,
         \A a \in Attempts : conn'[a].ticket = conn[a].ticket,
         \A q \in Requests : req[q].step = "over" => req'[q].step = "over"
  PROVE  TicketInv'
<1>1. TicketsAreFresh'
  BY DEF TicketInv, TicketsAreFresh
<1>2. TicketsAdmitOnce'
  BY DEF TicketInv, TicketsAdmitOnce
<1> QED
  BY <1>1, <1>2 DEF TicketInv

LEMMA TicketRequest ==
  ASSUME Control, TicketInv, NEW r \in Requests, RequestStep(r)
  PROVE  TicketInv'
<1>1. OnlyAt(r) /\ req[r].step # "over" /\ conn' = conn
  BY RequestFrame
<1>2. \A q \in Requests : req[q].step = "over" => req'[q].step = "over"
  BY <1>1 DEF OnlyAt
<1>3. CASE Issue(r)
  <2>1. Ends(r) /\ tickets' = tickets \cup {r}
    BY <1>3, IssueFacts DEF Issue, Control
  <2>2. \A a \in Attempts : conn[a].ticket # r
    BY <1>1 DEF TicketInv, TicketsAreFresh
  <2>3. TicketsAreFresh'
    BY <1>1, <1>2, <2>1 DEF TicketInv, TicketsAreFresh, Ends
  <2>4. TicketsAdmitOnce'
    BY <1>1, <2>1, <2>2 DEF TicketInv, TicketsAdmitOnce
  <2> QED
    BY <2>3, <2>4 DEF TicketInv
<1>4. CASE ~Issue(r)
  <2>1. tickets' = tickets
    BY <1>4 DEF RequestStep, Begin, Auth, Find, Insert, Write, Touch, Record, Rollback, Revoke,
         Erase, TellNothing, Fail, RecordFails, Forget, TellRevoked, TellMoved, Tell, storeVars
  <2> QED
    BY <1>1, <1>2, <2>1, TicketFrame DEF Control
<1> QED
  BY <1>3, <1>4

LEMMA TicketAttempt ==
  ASSUME Control, TicketInv, NEW a \in Attempts, AttemptStep(a)
  PROVE  TicketInv'
<1> USE DEF Control
<1>1. ASSUME NEW w \in Workers, NEW t \in Requests, Consume(a, w, t) PROVE TicketInv'
  <2>1. OnlyConn(a) /\ conn'[a].ticket = t /\ t \in tickets /\ tickets' = tickets \ {t}
    BY <1>1, ConsumeFacts
  <2>2. req' = req
    BY <1>1 DEF Consume
  <2>3. t # 0
    BY AccessBounds DEF Requests
  <2>4. \A b \in Attempts : b # a => conn'[b].ticket = conn[b].ticket /\ conn[b].ticket # t
    BY <2>1, <2>3 DEF OnlyConn, TicketInv, TicketsAdmitOnce
  <2>5. req[t].step = "over"
    BY <2>1 DEF TicketInv, TicketsAreFresh
  <2>6. TicketsAreFresh'
    BY <2>1, <2>2, <2>4, <2>5 DEF TicketInv, TicketsAreFresh
  <2>7. TicketsAdmitOnce'
    BY <2>1, <2>4 DEF TicketInv, TicketsAdmitOnce
  <2> QED
    BY <2>6, <2>7 DEF TicketInv
<1>2. ASSUME CheckRevoked(a) \/ Locate(a) \/ Register(a) \/ Leave(a) PROVE TicketInv'
  <2>1. UNCHANGED <<tickets, req>>
    BY <1>2 DEF CheckRevoked, Locate, Register, Leave, storeVars
  <2>2. \A b \in Attempts : conn'[b].ticket = conn[b].ticket
    BY <1>2, CheckFacts, LocateFacts, RegisterFacts, LeaveFacts DEF OnlyConn, Leave, Advances
  <2> QED
    BY <2>1, <2>2, TicketFrame
<1> QED
  BY <1>1, <1>2 DEF AttemptStep

LEMMA TicketNext ==
  ASSUME Control, TicketInv, [Next]_vars
  PROVE  TicketInv'
<1> USE DEF Control
<1>1. ASSUME NEW w \in Workers, HandleControl(w) PROVE TicketInv'
  <2>1. UNCHANGED <<tickets, req>>
    BY <1>1 DEF HandleControl, storeVars
  <2>2. \A b \in Attempts : conn'[b].ticket = conn[b].ticket
    BY <1>1, HandleFacts DEF Relocated, Advances
  <2> QED
    BY <2>1, <2>2, TicketFrame
<1>2. ASSUME UNCHANGED <<req, conn>>, tickets' \subseteq tickets PROVE TicketInv'
  BY <1>2, TicketFrame
<1>3. (\E t \in Requests : TicketExpires(t)) \/ RecordExpires \/ UNCHANGED vars => TicketInv'
  BY <1>2 DEF TicketExpires, RecordExpires, vars
<1> QED
  BY <1>1, <1>3, TicketRequest, TicketAttempt DEF Next

(* "So it can be used once": for any number of tickets, devices' attempts   *)
(* and workers, CONSUME_LUA lets at most one attempt through on a ticket,    *)
(* and no later request makes it valid again.                               *)
THEOREM TicketsAdmitOnlyOnce == Spec => []TicketsAdmitOnce
<1>1. Init => TicketInv
  <2> SUFFICES ASSUME Init PROVE TicketInv
    OBVIOUS
  <2>1. NoConnection.ticket = 0 /\ \A r \in Requests : r # 0
    BY AccessBounds DEF NoConnection, Requests
  <2> QED
    BY <2>1 DEF Init, TicketInv, TicketsAreFresh, TicketsAdmitOnce
<1>2. Control /\ TicketInv /\ [Next]_vars => TicketInv'
  BY TicketNext
<1>3. TicketInv => TicketsAdmitOnce
  BY DEF TicketInv
<1> QED
  BY <1>1, <1>2, <1>3, ControlInvariant, PTL DEF Spec

(* A revocation that is not told yet *)
Critical(r) == req[r].op \in RevokingOps /\ req[r].step \in {"erase", "forget", "tell"}

LEMMA HeardFrame ==
  ASSUME TypeOK, RevokedIsOut, revoked' = revoked, unheard \subseteq unheard', slipped' = slipped,
         conn' = conn,
         \A w \in Workers \ unheard' : inbox'[w] = inbox[w],
         \A q \in Requests : Critical(q) => Critical(q)' \/ unheard' = Workers
  PROVE  RevokedIsOut'
<1> SUFFICES ASSUME NEW w \in Workers, Heard(w)'
             PROVE  Pending(w, {"allowed", "located", "live"})' \subseteq slipped'
  BY DEF RevokedIsOut
<1>1. w \notin unheard' /\ revoked /\ \A q \in Requests : ~Critical(q)'
  BY DEF Heard, Critical
<1>2. \A q \in Requests : ~Critical(q)
  BY <1>1
<1>3. Heard(w)
  BY <1>1, <1>2 DEF Heard, Critical
<1> QED
  BY <1>3 DEF RevokedIsOut, Pending

(* A request that is no untold revocation steps, or one proceeds to another *)
(* call of the kind                                                         *)
LEMMA HeardRequest ==
  ASSUME Control, RevokedIsOut, NEW r \in Requests, OnlyAt(r),
         ~Critical(r) \/ Critical(r)' \/ unheard' = Workers,
         UNCHANGED <<revoked, inbox, conn, slipped>>, unheard \subseteq unheard'
  PROVE  RevokedIsOut'
<1>1. \A q \in Requests : Critical(q) => Critical(q)' \/ unheard' = Workers
  BY DEF Critical, OnlyAt
<1> QED
  BY <1>1, HeardFrame DEF Control

LEMMA RevokedRequest ==
  ASSUME Control, RevokedIsOut, NEW r \in Requests, RequestStep(r)
  PROVE  RevokedIsOut'
<1> USE DEF Control
<1>1. OnlyAt(r) /\ conn' = conn /\ slipped' = slipped
  BY RequestFrame
<1>2. ASSUME NEW o \in Ops, NEW p \in PlaceOrNot, Begin(r, o, p) PROVE RevokedIsOut'
  <2>1. ~Critical(r)
    BY <1>2, BeginFacts DEF Critical
  <2> QED
    BY <1>1, <1>2, <2>1, HeardRequest DEF Begin, storeVars, historyVars
<1>3. CASE Auth(r) \/ Find(r) \/ Insert(r) \/ Write(r) \/ Touch(r) \/ Issue(r)
  <2>1. ~Critical(r)
    BY <1>3, AuthFacts, FindFacts, InsertFacts, WriteFacts, TouchFacts, IssueFacts DEF Critical
  <2>2. UNCHANGED <<revoked, inbox, conn, slipped, unheard>>
    BY <1>3 DEF Auth, Find, Insert, Write, Touch, Issue, storeVars, historyVars
  <2> QED
    BY <1>1, <2>1, <2>2, HeardRequest
<1>4. CASE Record(r) \/ Rollback(r) \/ TellNothing(r)
  <2>1. ~Critical(r)
    BY <1>4 DEF Critical, Record, Rollback, TellNothing, At, RevokingOps
  <2>2. UNCHANGED <<revoked, inbox, conn, slipped, unheard>>
    BY <1>4 DEF Record, Rollback, TellNothing, storeVars, historyVars
  <2> QED
    BY <1>1, <2>1, <2>2, HeardRequest
<1>5. CASE Revoke(r)
  <2>1. Critical(r)'
    BY <1>5, RevokeFacts DEF Critical, Proceeds, RevokingOps
  <2>2. \A w \in Workers : ~Heard(w)'
    BY <2>1 DEF Heard, Critical
  <2> QED
    BY <2>2 DEF RevokedIsOut
<1>6. CASE Erase(r)
  <2>1. Critical(r)'
    BY <1>6, EraseFacts DEF Critical, Proceeds, RevokingOps
  <2> QED
    BY <1>1, <1>6, <2>1, HeardRequest DEF Erase, historyVars
<1>7. ASSUME NEW b \in BOOLEAN, Forget(r, b) PROVE RevokedIsOut'
  <2>1. Critical(r)'
    BY <1>7, ForgetFacts DEF Critical, Proceeds, RevokingOps
  <2> QED
    BY <1>1, <1>7, <2>1, HeardRequest DEF Forget, historyVars
<1>8. ASSUME NEW b \in BOOLEAN, RecordFails(r, b) PROVE RevokedIsOut'
  <2>1. ~Critical(r)
    BY <1>8, RecordFailsFacts DEF Critical
  <2> QED
    BY <1>1, <1>8, <2>1, HeardRequest DEF RecordFails, historyVars
<1>9. CASE Fail(r)
  <2>1. ~Critical(r) \/ unheard' = Workers
    BY <1>9 DEF Fail, Critical
  <2>2. UNCHANGED <<revoked, inbox, conn, slipped>> /\ unheard \subseteq unheard'
    BY <1>9 DEF Fail, storeVars, TypeOK
  <2> QED
    BY <1>1, <2>1, <2>2, HeardRequest
<1>10. ASSUME NEW reached \in SUBSET Workers, TellRevoked(r, reached) PROVE RevokedIsOut'
  <2>1. /\ inbox' \in [Workers -> Seq(Messages)]
        /\ \A w \in reached : inbox'[w] = Append(inbox[w], "revoked")
        /\ unheard' = unheard \cup (Workers \ reached)
    BY <1>10, TellRevokedFacts
  <2>2. ASSUME NEW w \in Workers PROVE ~Heard(w)'
    <3>1. CASE w \notin reached
      BY <2>1, <3>1 DEF Heard
    <3>2. CASE w \in reached
      <4>1. inbox[w] \in Seq(Messages)
        BY DEF TypeOK
      <4>2. /\ Len(inbox[w]) + 1 \in DOMAIN Append(inbox[w], "revoked")
            /\ Append(inbox[w], "revoked")[Len(inbox[w]) + 1] = "revoked"
        BY <4>1
      <4> QED
        BY <2>1, <3>2, <4>2 DEF Heard
    <3> QED
      BY <3>1, <3>2
  <2> QED
    BY <2>2 DEF RevokedIsOut
<1>11. ASSUME NEW reached \in SUBSET Workers, TellMoved(r, reached) PROVE RevokedIsOut'
  <2>1. /\ req[r].op = "move"
        /\ \A w \in reached : inbox'[w] = Append(inbox[w], MoveMessage(r))
        /\ \A w \in Workers \ reached : inbox'[w] = inbox[w]
    BY <1>11, TellMovedFacts
  <2>2. UNCHANGED <<revoked, unheard>>
    BY <1>11 DEF TellMoved, Tell, storeVars
  <2>3. ASSUME NEW w \in Workers, Heard(w)' PROVE Heard(w)
    <3>1. \A q \in Requests : Critical(q) => Critical(q)'
      BY <1>1, <2>1 DEF Critical, OnlyAt, RevokingOps
    <3>2. ASSUME NEW k \in DOMAIN inbox[w], inbox[w][k] = "revoked"
          PROVE  k \in DOMAIN inbox'[w] /\ inbox'[w][k] = "revoked"
      <4>1. inbox[w] \in Seq(Messages)
        BY DEF TypeOK
      <4>2. CASE w \in reached
        BY <2>1, <3>2, <4>1, <4>2
      <4>3. CASE w \notin reached
        BY <2>1, <3>2, <4>3
      <4> QED
        BY <4>2, <4>3
    <3> QED
      BY <2>2, <2>3, <3>1, <3>2 DEF Heard, Critical
  <2> QED
    BY <1>1, <2>3 DEF RevokedIsOut, Pending
<1> QED
  BY <1>2, <1>3, <1>4, <1>5, <1>6, <1>7, <1>8, <1>9, <1>10, <1>11 DEF RequestStep

LEMMA RevokedAttempt ==
  ASSUME Control, RevokedIsOut, NEW a \in Attempts, AttemptStep(a)
  PROVE  RevokedIsOut'
<1> USE DEF Control
<1>1. UNCHANGED <<revoked, req, inbox, unheard, slipped>>
  BY DEF AttemptStep, Consume, CheckRevoked, Locate, Register, Leave, storeVars, historyVars
<1> DEFINE in == {"allowed", "located", "live"}
<1>2. ASSUME \A b \in Attempts : conn'[b].at \in in =>
               \/ conn[b].at \in in /\ conn'[b].worker = conn[b].worker
               \/ ~revoked
      PROVE  RevokedIsOut'
  <2> SUFFICES ASSUME NEW w \in Workers, Heard(w)'
               PROVE  Pending(w, in)' \subseteq slipped'
    BY DEF RevokedIsOut
  <2>1. Heard(w) /\ revoked
    BY <1>1 DEF Heard
  <2> QED
    BY <1>1, <1>2, <2>1 DEF RevokedIsOut, Pending
<1>3. ASSUME NEW w \in Workers, NEW t \in Requests, Consume(a, w, t) PROVE RevokedIsOut'
  BY <1>2, <1>3, ConsumeFacts DEF OnlyConn
<1>4. CASE CheckRevoked(a)
  BY <1>2, <1>4, CheckFacts DEF OnlyConn
<1>5. CASE Locate(a)
  BY <1>2, <1>5, LocateFacts DEF OnlyConn, Advances
<1>6. CASE Register(a)
  BY <1>2, <1>6, RegisterFacts DEF Advances
<1>7. CASE Leave(a)
  BY <1>2, <1>7, LeaveFacts DEF OnlyConn, Leave
<1> QED
  BY <1>3, <1>4, <1>5, <1>6, <1>7 DEF AttemptStep

LEMMA RevokedHandle ==
  ASSUME Control, RevokedIsOut, NEW w \in Workers, HandleControl(w)
  PROVE  RevokedIsOut'
<1> USE DEF Control
<1> DEFINE m == Head(inbox[w])
           in == {"allowed", "located", "live"}
<1>1. UNCHANGED <<revoked, req, unheard>>
  BY DEF HandleControl, storeVars
<1>2. /\ inbox[w] # <<>> /\ m \in Messages
      /\ inbox'[w] = Tail(inbox[w])
      /\ \A v \in Workers : v # w => inbox'[v] = inbox[v]
  BY HandleFacts
<1>3. slipped' = slipped \cup Pending(w, IF m = "revoked" THEN {"allowed", "located"}
                                        ELSE {"located"})
  BY DEF HandleControl
<1>4. \A b \in Attempts : conn'[b].at \in in =>
         /\ conn[b].at = conn'[b].at /\ conn'[b].worker = conn[b].worker
         /\ (conn[b].worker = w /\ m = "revoked") => conn[b].at # "live"
  <2> SUFFICES ASSUME NEW b \in Attempts, conn'[b].at \in in
               PROVE  /\ conn[b].at = conn'[b].at /\ conn'[b].worker = conn[b].worker
                      /\ (conn[b].worker = w /\ m = "revoked") => conn[b].at # "live"
    OBVIOUS
  <2>1. IF b \notin Pending(w, {"live"}) THEN conn'[b] = conn[b]
        ELSE IF m \in Places THEN Relocated(b, m)
        ELSE conn'[b].at = "ended" /\ conn'[b].ticket = conn[b].ticket
    BY HandleFacts
  <2>2. "revoked" \notin Places
    BY PlacesAssumption
  <2> QED
    BY <2>1, <2>2 DEF Relocated, Advances, Pending
<1> SUFFICES ASSUME NEW v \in Workers, Heard(v)', NEW b \in Attempts, b \in Pending(v, in)'
             PROVE  b \in slipped'
  BY DEF RevokedIsOut, Pending
<1>5. b \in Pending(v, in) /\ (v = w /\ m = "revoked" => b \in Pending(w, {"allowed", "located"}))
  BY <1>4 DEF Pending
<1>6. CASE v = w /\ m = "revoked"
  BY <1>3, <1>5, <1>6
<1>7. CASE v # w \/ m # "revoked"
  <2>1. ASSUME NEW k \in DOMAIN inbox[v] PROVE inbox[v][k] # "revoked"
    <3>1. CASE v # w
      BY <1>2, <3>1 DEF Heard
    <3>2. CASE v = w
      <4>1. inbox[w] \in Seq(Messages) /\ inbox[w] # <<>>
        BY <1>2 DEF TypeOK
      <4>2. k = 1 \/ (k - 1 \in DOMAIN Tail(inbox[w]) /\ Tail(inbox[w])[k - 1] = inbox[w][k])
        BY <3>2, <4>1
      <4>3. inbox[w][1] # "revoked"
        BY <1>7, <3>2, <4>1
      <4> QED
        BY <1>2, <3>2, <4>2, <4>3 DEF Heard
    <3> QED
      BY <3>1, <3>2
  <2>2. Heard(v)
    BY <1>1, <2>1 DEF Heard
  <2> QED
    BY <1>3, <1>5, <2>2 DEF RevokedIsOut
<1> QED
  BY <1>6, <1>7

(* "The device's token stops working at once and any live socket is told to *)
(* close", for every set of workers and any number of requests: once a      *)
(* worker was told of a revocation and handled the message, all it can have *)
(* of the device is an attempt that slipped between check and registration. *)
THEOREM RevokedStaysOutOfWorkers == Spec => []RevokedIsOut
<1>1. Init => RevokedIsOut
  BY DEF Init, RevokedIsOut, Heard
<1>2. Control /\ RevokedIsOut /\ [Next]_vars => RevokedIsOut'
  <2> SUFFICES ASSUME Control, RevokedIsOut, [Next]_vars PROVE RevokedIsOut'
    OBVIOUS
  <2>1. ASSUME UNCHANGED <<revoked, req, inbox, conn, unheard, slipped>> PROVE RevokedIsOut'
    BY <2>1 DEF RevokedIsOut, Heard, Pending
  <2>2. (\E t \in Requests : TicketExpires(t)) \/ RecordExpires \/ UNCHANGED vars => RevokedIsOut'
    BY <2>1 DEF TicketExpires, RecordExpires, vars, historyVars
  <2> QED
    BY <2>2, RevokedRequest, RevokedAttempt, RevokedHandle DEF Next
<1> QED
  BY <1>1, <1>2, ControlInvariant, PTL DEF Spec

(* A deleted device does not come back: no step of any request, whatever it *)
(* read before the deletion, makes a row for a device that has none; the    *)
(* insertion of register comes before there is a token.                     *)
THEOREM DeletedNeverReturns == Spec => DeletedStaysDeleted
<1>1. Control /\ [Next]_vars => [(token /\ row = Nowhere) => row' = Nowhere]_vars
  <2> SUFFICES ASSUME Control, Next, token, row = Nowhere PROVE row' = Nowhere
    OBVIOUS
  <2> USE DEF Control
  <2>1. ASSUME NEW r \in Requests, RequestStep(r) PROVE row' = Nowhere
    <3>1. ~Insert(r)
      BY InsertFacts DEF RegistersOnce
    <3>2. row' \in {row, Nowhere}
      BY <2>1, <3>1 DEF RequestStep, Begin, Auth, Find, Write, Touch, Record, Rollback, Issue,
         Revoke, Erase, TellNothing, Fail, RecordFails, Forget, TellRevoked, TellMoved, Tell, storeVars
    <3> QED
      BY <3>2
  <2>2. ASSUME NEW a \in Attempts, AttemptStep(a) PROVE row' = row
    BY <2>2 DEF AttemptStep, Consume, CheckRevoked, Locate, Register, Leave, storeVars
  <2>3. RecordExpires \/ (\E t \in Requests : TicketExpires(t))
          \/ (\E w \in Workers : HandleControl(w)) => row' = row
    BY DEF RecordExpires, TicketExpires, HandleControl, storeVars
  <2> QED
    BY <2>1, <2>2, <2>3 DEF Next
<1> QED
  BY <1>1, ControlInvariant, PTL DEF Spec, DeletedStaysDeleted

-----------------------------------------------------------------------------
(* Locations *)

LEMMA LastOfAppend ==
  ASSUME NEW S, NEW q \in Seq(S), NEW m \in S
  PROVE  /\ Append(q, m) # <<>>
         /\ Append(q, m)[Len(Append(q, m))] = m
         /\ Len(Append(q, m)) \in DOMAIN Append(q, m)
         /\ \A k \in DOMAIN q : k \in DOMAIN Append(q, m) /\ Append(q, m)[k] = q[k]
OBVIOUS

LEMMA LastOfTail ==
  ASSUME NEW S, NEW q \in Seq(S), q # <<>>
  PROVE  /\ Tail(q) # <<>> => Tail(q)[Len(Tail(q))] = q[Len(q)]
         /\ Tail(q) = <<>> => q[Len(q)] = Head(q)
         /\ (Head(q) \in Places /\ \A k \in DOMAIN Tail(q) : Tail(q)[k] \in Places)
              => \A k \in DOMAIN q : q[k] \in Places
<1>1. Len(q) \in Nat \ {0} /\ Len(Tail(q)) = Len(q) - 1 /\ Head(q) = q[1]
      /\ Tail(q) \in Seq(S)
  OBVIOUS
<1>2. \A k \in 1..(Len(q) - 1) : Tail(q)[k] = q[k + 1]
  OBVIOUS
<1>3. Tail(q) # <<>> => Len(q) - 1 \in 1..(Len(q) - 1)
  BY <1>1
<1>4. Tail(q) # <<>> => Tail(q)[Len(Tail(q))] = q[Len(q)]
  BY <1>1, <1>2, <1>3
<1>5. Tail(q) = <<>> => q[Len(q)] = Head(q)
  BY <1>1
<1>6. \A k \in DOMAIN q : k = 1 \/ (k - 1 \in DOMAIN Tail(q) /\ Tail(q)[k - 1] = q[k])
  BY <1>1, <1>2
<1> QED
  BY <1>1, <1>4, <1>5, <1>6

(* A request under way of the device is the only one that moves it *)
LEMMA MoverAlone ==
  ASSUME OneAtATime, NEW r \in Requests, req[r].op \in DeviceOps, req[r].step \in Steps
  PROVE  \A q \in Requests :
           Moving(q, "record") \/ Moving(q, "tell") \/ Moving(q, "write") => q = r
BY DEF OneAtATime, Moving, UnderWay, DeviceOps, Steps

SameMovers ==
  \A q \in Requests : \A s \in {"record", "tell"} :
    /\ Moving(q, s)' <=> Moving(q, s)
    /\ Moving(q, s) => req'[q].goal = req[q].goal /\ req'[q].was = req[q].was

LEMMA OtherMovers ==
  ASSUME NEW r \in Requests, OnlyAt(r),
         \A s \in {"record", "tell"} : ~Moving(r, s) /\ ~Moving(r, s)'
  PROVE  SameMovers
BY DEF SameMovers, OnlyAt, Moving

LEMMA MoversFrame ==
  ASSUME SameMovers, row' = row
  PROVE  /\ \A p : Told(p)' <=> Told(p)
         /\ \A p : Known(p)' <=> Known(p)
         /\ Resharding' <=> Resharding
<1>1. /\ \A q \in Requests : Moving(q, "record")' <=> Moving(q, "record")
      /\ \A q \in Requests : Moving(q, "tell")' <=> Moving(q, "tell")
      /\ \A q \in Requests : Moving(q, "record") \/ Moving(q, "tell") =>
            req'[q].goal = req[q].goal /\ req'[q].was = req[q].was
  BY DEF SameMovers
<1>2. \A p : Told(p)' <=> Told(p)
  BY <1>1 DEF Told
<1>3. \A p : Known(p)' <=> Known(p)
  BY <1>1 DEF Known
<1>4. Resharding' <=> Resharding
  BY <1>1 DEF Resharding
<1> QED
  BY <1>2, <1>3, <1>4

(* Nothing a worker sees changes *)
LEMMA WorkerFrame ==
  ASSUME MessagesAreTold, SessionsWillFollow, SameMovers, row' = row,
         UNCHANGED <<inbox, conn, slipped>>, unseen \subseteq unseen'
  PROVE  MessagesAreTold' /\ SessionsWillFollow'
<1>1. /\ \A p : Told(p)' <=> Told(p)
      /\ Resharding' <=> Resharding
  BY MoversFrame
<1>2. MessagesAreTold'
  BY <1>1 DEF MessagesAreTold, LastMessage
<1>3. \A w : Peaceful(w)' <=> Peaceful(w)
  BY <1>1 DEF Peaceful
<1>4. \A a : Final(a)' = Final(a)
  BY DEF Final, LastMessage
<1>5. SessionsWillFollow'
  BY <1>1, <1>3, <1>4 DEF SessionsWillFollow, Pending
<1> QED
  BY <1>2, <1>5

LEMMA RecordFrame ==
  ASSUME RecordIsKnown, RecordFollows, SameMovers, UNCHANGED <<row, token, torn>>,
         record' \in {record, Nowhere}, unseen \subseteq unseen'
  PROVE  RecordIsKnown' /\ RecordFollows'
<1>1. \A p : Known(p)' <=> Known(p)
  BY MoversFrame
<1>2. RecordIsKnown'
  BY <1>1 DEF RecordIsKnown
<1> QED
  BY <1>2 DEF RecordFollows

(* The device has no row *)
LEMMA NoRow ==
  ASSUME row' = Nowhere, OneAtATime'
  PROVE  LocationInv'
BY DEF LocationInv, ReadIsRow, RecordFollows, RecordIsKnown, MessagesAreTold, SessionsWillFollow

LEMMA StillOneAtATime ==
  ASSUME OneAtATime, NEW r \in Requests, OnlyAt(r),
         (UnderWay(r)' /\ req'[r].op \in DeviceOps) => UnderWay(r) /\ req[r].op \in DeviceOps
  PROVE  OneAtATime'
BY DEF OneAtATime, OnlyAt, UnderWay

LEMMA StillOneEnds ==
  ASSUME OneAtATime, NEW r \in Requests, Ends(r)
  PROVE  OneAtATime'
<1>1. OnlyAt(r) /\ ~UnderWay(r)'
  BY DEF Ends, UnderWay, Steps
<1> QED
  BY <1>1, StillOneAtATime

LEMMA StillOneProceeds ==
  ASSUME OneAtATime, NEW r \in Requests, req[r].step \in Steps, NEW s, Proceeds(r, s)
  PROVE  OneAtATime'
<1>1. OnlyAt(r) /\ UnderWay(r) /\ req'[r].op = req[r].op
  BY DEF Proceeds, UnderWay
<1> QED
  BY <1>1, StillOneAtATime

(* What ReadIsRow says of one request *)
Reads(q, p) ==
  /\ (q.op \in {"move", "heartbeat", "ticket"} /\ q.step \in {"write", "touch"}) => q.was = p
  /\ (q.op \in {"heartbeat", "ticket"} /\ q.step = "record") => q.was = p
  /\ (q.op = "move" /\ q.step \in {"record", "tell"}) => q.goal = p

LEMMA ReadIsReads == ReadIsRow <=> \A r \in Requests : row # Nowhere => Reads(req[r], row)
BY DEF ReadIsRow, Reads

LEMMA ReadFrame ==
  ASSUME ReadIsRow, row' = row, NEW r \in Requests, OnlyAt(r), row # Nowhere => Reads(req'[r], row)
  PROVE  ReadIsRow'
<1>1. \A q \in Requests : row # Nowhere => Reads(req[q], row)
  BY ReadIsReads
<1>2. \A q \in Requests : row # Nowhere => Reads(req'[q], row)
  BY <1>1 DEF OnlyAt
<1> QED
  BY <1>2 DEF ReadIsRow, Reads

(* A request steps that is not between the row and the message of a move *)
LEMMA LocationQuiet ==
  ASSUME Control, LocationInv, NEW r \in Requests, OnlyAt(r),
         ~(req[r].op = "move" /\ req[r].step \in {"record", "tell"}),
         ~(req'[r].op = "move" /\ req'[r].step \in {"record", "tell"}),
         UNCHANGED <<row, token, torn, inbox, conn, slipped>>, unseen \subseteq unseen',
         record' \in {record, Nowhere}, OneAtATime', Reads(req'[r], row)
  PROVE  LocationInv'
<1> USE DEF LocationInv
<1>1. SameMovers
  <2>1. \A s \in {"record", "tell"} : ~Moving(r, s) /\ ~Moving(r, s)'
    BY DEF Moving
  <2> QED
    BY <2>1, OtherMovers
<1>2. MessagesAreTold' /\ SessionsWillFollow'
  BY <1>1, WorkerFrame
<1>3. RecordIsKnown' /\ RecordFollows'
  BY <1>1, RecordFrame
<1>4. ReadIsRow'
  BY ReadFrame
<1> QED
  BY <1>2, <1>3, <1>4

LEMMA EndsReads ==
  ASSUME NEW r \in Requests, Ends(r)
  PROVE  \A p : Reads(req'[r], p) /\ req'[r].op # "move"
BY DEF Ends, Reads

LEMMA LocationBegin ==
  ASSUME Serial, Control, LocationInv,
         NEW r \in Requests, NEW o \in Ops, NEW p \in PlaceOrNot, Begin(r, o, p)
  PROVE  LocationInv'
<1>1. /\ OnlyAt(r) /\ req[r].step = "none" /\ req'[r].op = o
      /\ \/ o = "register" /\ req'[r].step = "insert"
         \/ o \in DeviceOps /\ req'[r].step = "auth"
         \/ o = "revoke" /\ req'[r].step = "find"
         \/ o = "delete" /\ req'[r].step = "revoke"
  BY BeginFacts DEF Control
<1>2. UNCHANGED <<row, record, token, torn, inbox, conn, slipped, unseen>>
  BY DEF Begin, storeVars, historyVars
<1>3. OneAtATime'
  <2>1. o \in DeviceOps => \A q \in Requests : ~(UnderWay(q) /\ req[q].op \in DeviceOps)
    BY DEF Begin
  <2> QED
    BY <1>1, <2>1 DEF LocationInv, OneAtATime, OnlyAt, UnderWay
<1>4. Reads(req'[r], row)
  BY <1>1 DEF Reads
<1> QED
  BY <1>1, <1>2, <1>3, <1>4, LocationQuiet

(* The calls that leave the location alone *)
LEMMA LocationPlain ==
  ASSUME Control, LocationInv, NEW r \in Requests,
         Auth(r) \/ Find(r) \/ Touch(r) \/ Issue(r) \/ Revoke(r) \/ \E b \in BOOLEAN : Forget(r, b)
  PROVE  LocationInv'
<1> USE DEF Control
<1>1. UNCHANGED <<row, token, torn, inbox, conn, slipped, unseen>>
  BY DEF Auth, Find, Touch, Issue, Revoke, Forget, storeVars, historyVars
<1>2. record' \in {record, Nowhere}
  BY DEF Auth, Find, Touch, Issue, Revoke, Forget, storeVars
<1>3. req[r].step \in {"auth", "find", "touch", "issue", "revoke", "forget"}
  BY DEF Auth, Find, Touch, Issue, Revoke, Forget, At
<1>4. req[r].step \in Steps
  BY <1>3 DEF Steps
<1>5. CASE Ends(r)
  <2>1. OneAtATime' /\ OnlyAt(r)
    BY <1>5, StillOneEnds DEF LocationInv, Ends
  <2>2. Reads(req'[r], row) /\ req'[r].op # "move"
    BY <1>5, EndsReads
  <2> QED
    BY <1>1, <1>2, <1>3, <2>1, <2>2, LocationQuiet
<1>6. CASE ~Ends(r)
  <2>1. CASE Find(r)
    <3>1. /\ OnlyAt(r) /\ req'[r].op = req[r].op /\ req'[r].was = row
          /\ \/ req[r].op = "move" /\ req'[r].step = "write"
             \/ req[r].op = "heartbeat" /\ req'[r].step = "touch"
             \/ req[r].op = "ticket" /\ req'[r].step = "record"
             \/ req[r].op = "revoke" /\ req'[r].step = "revoke"
      BY <1>6, <2>1, FindFacts
    <3>2. OneAtATime'
      BY <1>4, <3>1, StillOneAtATime DEF LocationInv, UnderWay
    <3>3. Reads(req'[r], row)
      BY <3>1 DEF Reads
    <3> QED
      BY <1>1, <1>2, <1>3, <3>1, <3>2, <3>3, LocationQuiet
  <2>2. CASE ~Find(r)
    <3>1. PICK s \in {"revoke", "find", "record", "tell", "erase"} :
            /\ Proceeds(r, s)
            /\ s = "record" => Touch(r)
            /\ s = "tell" => req[r].op # "move"
      BY <1>6, <2>2, AuthFacts, TouchFacts, IssueFacts, RevokeFacts, ForgetFacts
    <3>2. OnlyAt(r) /\ req'[r].op = req[r].op /\ req'[r].step = s /\ req'[r].was = req[r].was
      BY <3>1 DEF Proceeds
    <3>3. OneAtATime'
      BY <1>4, <3>1, StillOneProceeds DEF LocationInv
    <3>4. CASE s # "record"
      <4>1. Reads(req'[r], row)
        BY <3>1, <3>2, <3>4 DEF Reads
      <4> QED
        BY <1>1, <1>2, <1>3, <3>1, <3>2, <3>3, <3>4, <4>1, LocationQuiet
    <3>5. CASE s = "record"
      <4>1. req[r].step = "touch" /\ req[r].op = "heartbeat"
        BY <3>1, <3>5, TouchFacts
      <4>2. row # Nowhere => req[r].was = row
        BY <4>1 DEF LocationInv, ReadIsRow
      <4>3. CASE row = Nowhere
        BY <1>1, <3>3, <4>3, NoRow
      <4>4. CASE row # Nowhere
        <5>1. Reads(req'[r], row)
          BY <3>2, <3>5, <4>1, <4>2, <4>4 DEF Reads
        <5> QED
          BY <1>1, <1>2, <1>3, <3>2, <3>3, <4>1, <5>1, LocationQuiet
      <4> QED
        BY <4>3, <4>4
    <3> QED
      BY <3>4, <3>5
  <2> QED
    BY <2>1, <2>2
<1> QED
  BY <1>5, <1>6

LEMMA LocationInsert ==
  ASSUME Control, LocationInv, NEW r \in Requests, Insert(r)
  PROVE  LocationInv'
<1> USE DEF Control, LocationInv
<1>1. req[r].op = "register" /\ req[r].step = "insert" /\ Proceeds(r, "record")
  BY InsertFacts
<1>2. UNCHANGED <<token, inbox, conn, slipped, unseen>>
  BY DEF Insert, historyVars
<1>3. ~token
  BY <1>1 DEF RegistersOnce
<1>4. OneAtATime'
  BY <1>1, StillOneProceeds DEF Steps
<1>5. \A q \in Requests : req'[q].op \in {"none", "register"}
  BY <1>1, <1>3 DEF Untouched, Proceeds, OnlyAt
<1>6. ReadIsRow'
  BY <1>5 DEF ReadIsRow
<1>7. RecordFollows' /\ RecordIsKnown'
  BY <1>2, <1>3 DEF RecordFollows, RecordIsKnown
<1>8. (\A w \in Workers : inbox'[w] = <<>>) /\ \A a \in Attempts : conn'[a].at = "none"
  BY <1>2, <1>3 DEF Untouched
<1>9. MessagesAreTold'
  BY <1>8 DEF MessagesAreTold
<1>10. SessionsWillFollow'
  BY <1>8 DEF SessionsWillFollow, Pending
<1> QED
  BY <1>4, <1>6, <1>7, <1>9, <1>10

LEMMA LocationErased ==
  ASSUME Control, LocationInv, NEW r \in Requests, Rollback(r) \/ Erase(r)
  PROVE  LocationInv'
<1>1. row' = Nowhere
  BY DEF Rollback, Erase
<1>2. OneAtATime'
  BY GiveUpEnds, EraseFacts, StillOneEnds, StillOneProceeds
     DEF Rollback, Control, LocationInv, Steps
<1> QED
  BY <1>1, <1>2, NoRow

LEMMA LocationWrite ==
  ASSUME Control, LocationInv, NEW r \in Requests, Write(r)
  PROVE  LocationInv'
<1> USE DEF Control, LocationInv
<1>1. /\ req[r].step = "write" /\ req[r].op = "move"
      /\ \/ Ends(r) /\ row = Nowhere /\ row' = row
         \/ Proceeds(r, "record") /\ row # Nowhere /\ row' = req[r].goal /\ torn'
  BY WriteFacts
<1>2. UNCHANGED <<record, token, inbox, conn, slipped, unseen>>
  BY DEF Write
<1>3. req[r].op \in DeviceOps /\ req[r].step \in Steps
  BY <1>1 DEF DeviceOps, Steps
<1>4. OneAtATime'
  BY <1>1, <1>3, StillOneEnds, StillOneProceeds
<1>5. CASE Ends(r)
  BY <1>1, <1>4, <1>5, NoRow DEF Ends, Proceeds
<1>6. CASE ~Ends(r)
  <2>1. Proceeds(r, "record") /\ row # Nowhere /\ row' = req[r].goal /\ torn'
    BY <1>1, <1>6
  <2>2. req[r].was = row
    BY <1>1, <2>1 DEF ReadIsRow
  <2>3. \A q \in Requests : q # r => ~(UnderWay(q) /\ req[q].op \in DeviceOps)
    BY <1>3 DEF OneAtATime, UnderWay
  <2>4. \A q \in Requests : ~Moving(q, "record") /\ ~Moving(q, "tell")
    BY <1>1, <1>3, MoverAlone DEF Moving
  <2>5. /\ Moving(r, "record")' /\ req'[r].was = row /\ req'[r].goal = row'
        /\ \A q \in Requests : q # r => ~Moving(q, "record")' /\ ~Moving(q, "tell")'
        /\ ~Moving(r, "tell")'
    BY <1>1, <2>1, <2>2, <2>4 DEF Moving, Proceeds, OnlyAt
  <2>6. ~Resharding /\ (\A p : Told(p) <=> p = row) /\ (\A p : Known(p) <=> p = row)
    BY <2>4 DEF Resharding, Told, Known
  <2>7. ~Resharding' /\ (\A p : p = row => Told(p)') /\ (\A p : p = row => Known(p)')
    BY <2>5 DEF Resharding, Told, Known
  <2>8. RecordFollows' /\ RecordIsKnown'
    BY <1>2, <2>1, <2>6, <2>7 DEF RecordFollows, RecordIsKnown
  <2>9. MessagesAreTold'
    BY <1>2, <2>1, <2>6, <2>7 DEF MessagesAreTold, LastMessage
  <2>10. \A a : Final(a)' = Final(a)
    BY <1>2 DEF Final, LastMessage
  <2>11. \A w : Peaceful(w)' <=> Peaceful(w)
    BY <1>2, <2>6, <2>7 DEF Peaceful
  <2>12. SessionsWillFollow'
    BY <1>2, <2>1, <2>6, <2>7, <2>10, <2>11 DEF SessionsWillFollow, Pending
  <2>13. ReadIsRow'
    <3>1. \A q \in Requests : q # r =>
             ~(req'[q].op \in {"move", "heartbeat", "ticket"}
                 /\ req'[q].step \in {"write", "touch", "record", "tell"})
      BY <2>1, <2>3 DEF Proceeds, OnlyAt, UnderWay, DeviceOps, Steps
    <3>2. req'[r].op = "move" /\ req'[r].step = "record" /\ req'[r].goal = row'
      BY <1>1, <2>1 DEF Proceeds
    <3> QED
      BY <3>1, <3>2 DEF ReadIsRow
  <2> QED
    BY <1>4, <2>8, <2>9, <2>12, <2>13
<1> QED
  BY <1>5, <1>6

LEMMA LocationRecordFails ==
  ASSUME Control, LocationInv, NEW r \in Requests, NEW b \in BOOLEAN, RecordFails(r, b)
  PROVE  LocationInv'
<1> USE DEF Control, LocationInv
<1>1. req[r].op = "register" /\ req[r].step = "record" /\ Proceeds(r, "rollback")
  BY RecordFailsFacts
<1>2. UNCHANGED <<row, token, inbox, conn, slipped, unseen>>
  BY DEF RecordFails, historyVars
<1>3. ~token
  BY <1>1 DEF RegistersOnce
<1>4. OneAtATime'
  BY <1>1, StillOneProceeds DEF Steps
<1>5. RecordFollows' /\ RecordIsKnown'
  BY <1>2, <1>3 DEF RecordFollows, RecordIsKnown
<1>6. SameMovers
  <2>1. OnlyAt(r) /\ \A s \in {"record", "tell"} : ~Moving(r, s) /\ ~Moving(r, s)'
    BY <1>1 DEF Moving, Proceeds
  <2> QED
    BY <2>1, OtherMovers
<1>7. MessagesAreTold' /\ SessionsWillFollow'
  BY <1>2, <1>6, WorkerFrame
<1>8. ReadIsRow'
  <2>1. OnlyAt(r) /\ Reads(req'[r], row)
    BY <1>1 DEF Proceeds, Reads
  <2> QED
    BY <1>2, <2>1, ReadFrame
<1> QED
  BY <1>4, <1>5, <1>7, <1>8

(* publish_location of a move *)
LEMMA LocationRecordMove ==
  ASSUME Control, LocationInv, NEW r \in Requests, Record(r), req[r].op = "move"
  PROVE  LocationInv'
<1> USE DEF Control, LocationInv
<1>1. req[r].step = "record" /\ Proceeds(r, "tell") /\ record' = req[r].goal /\ token' = token
  BY RecordFacts
<1>2. UNCHANGED <<row, inbox, conn, slipped, unseen>> /\ torn' = FALSE
  BY DEF Record
<1>3. req[r].op \in DeviceOps /\ req[r].step \in Steps
  BY <1>1 DEF DeviceOps, Steps
<1>4. OneAtATime'
  BY <1>1, <1>3, StillOneProceeds
<1>5. CASE row = Nowhere
  BY <1>2, <1>4, <1>5, NoRow
<1>6. CASE row # Nowhere
  <2>1. req[r].goal = row
    BY <1>1, <1>6 DEF ReadIsRow
  <2>2. /\ Moving(r, "record") /\ ~Moving(r, "tell")
        /\ \A q \in Requests : q # r => ~Moving(q, "record") /\ ~Moving(q, "tell")
    BY <1>1, <1>3, MoverAlone DEF Moving
  <2>3. /\ Moving(r, "tell")' /\ ~Moving(r, "record")'
        /\ req'[r].was = req[r].was /\ req'[r].goal = row
        /\ \A q \in Requests : q # r => ~Moving(q, "record")' /\ ~Moving(q, "tell")'
    BY <1>1, <2>1, <2>2 DEF Moving, Proceeds, OnlyAt
  <2>4. ~Resharding /\ \A p : Told(p) <=> p = req[r].was
    BY <2>2 DEF Resharding, Told
  <2>5. (\A p : p = req[r].was => Told(p)') /\ (\A p : p = row => Known(p)')
    BY <1>2, <2>3 DEF Told, Known
  <2>6. RecordFollows' /\ RecordIsKnown'
    BY <1>1, <1>2, <2>1, <2>5 DEF RecordFollows, RecordIsKnown
  <2>7. MessagesAreTold'
    BY <1>2, <1>6, <2>4, <2>5 DEF MessagesAreTold, LastMessage
  <2>8. \A a : Final(a)' = Final(a)
    BY <1>2 DEF Final, LastMessage
  <2>9. \A w : Peaceful(w)' => Peaceful(w)
    BY <1>2, <2>4 DEF Peaceful
  <2>10. SessionsWillFollow'
    BY <1>2, <1>6, <2>4, <2>5, <2>8, <2>9 DEF SessionsWillFollow, Pending
  <2>11. ReadIsRow'
    <3>1. OnlyAt(r) /\ Reads(req'[r], row)
      BY <1>1, <2>1 DEF Proceeds, Reads
    <3> QED
      BY <1>2, <3>1, ReadFrame
  <2> QED
    BY <1>4, <2>6, <2>7, <2>10, <2>11
<1> QED
  BY <1>5, <1>6

(* publish_location of the other requests *)
LEMMA LocationRecordOther ==
  ASSUME Control, LocationInv, NEW r \in Requests, Record(r), req[r].op # "move"
  PROVE  LocationInv'
<1> USE DEF Control, LocationInv
<1>1. /\ req[r].step = "record"
      /\ \/ req[r].op = "register" /\ Ends(r) /\ record' = req[r].goal
         \/ req[r].op = "heartbeat" /\ Ends(r) /\ record' = req[r].was
         \/ req[r].op = "ticket" /\ Proceeds(r, "issue") /\ record' = req[r].was
  BY RecordFacts
<1>2. UNCHANGED <<row, inbox, conn, slipped, unseen>> /\ torn' = FALSE
  BY DEF Record
<1>3. OneAtATime' /\ OnlyAt(r)
  BY <1>1, StillOneEnds, StillOneProceeds DEF Steps, Ends, Proceeds
<1>4. row # Nowhere => record' = row
  BY <1>1 DEF ReadIsRow, RowIsRegistered
<1>5. \A s \in {"record", "tell"} : ~Moving(r, s) /\ ~Moving(r, s)'
  BY <1>1 DEF Moving, Ends, Proceeds
<1>6. SameMovers
  BY <1>3, <1>5, OtherMovers
<1>7. MessagesAreTold' /\ SessionsWillFollow'
  BY <1>2, <1>6, WorkerFrame
<1>8. \A q \in Requests : ~Moving(q, "record")
  <2>1. CASE req[r].op = "register"
    <3>1. ~token
      BY <2>1 DEF RegistersOnce
    <3> QED
      BY <3>1 DEF Untouched, Moving
  <2>2. CASE req[r].op # "register"
    <3>1. req[r].op \in DeviceOps /\ req[r].step \in Steps
      BY <1>1, <2>2 DEF DeviceOps, Steps
    <3> QED
      BY <1>5, <3>1, MoverAlone
  <2> QED
    BY <2>1, <2>2
<1>9. \A q \in Requests : ~Moving(q, "record")'
  BY <1>6, <1>8 DEF SameMovers
<1>10. RecordFollows' /\ RecordIsKnown'
  BY <1>2, <1>4, <1>9 DEF RecordFollows, RecordIsKnown, Known
<1>11. ReadIsRow'
  <2>1. Reads(req'[r], row)
    BY <1>1 DEF Reads, Ends, Proceeds
  <2> QED
    BY <1>2, <1>3, <2>1, ReadFrame
<1> QED
  BY <1>3, <1>7, <1>10, <1>11

(* A move ends that did not change the location *)
LEMMA LocationEndsUnmoved ==
  ASSUME Control, LocationInv, NEW r \in Requests, Ends(r),
         req[r].op = "move", req[r].step \in {"record", "tell"}, req[r].was = req[r].goal,
         UNCHANGED <<row, record, token, torn, inbox, conn, slipped>>, unseen \subseteq unseen'
  PROVE  LocationInv'
<1> USE DEF Control, LocationInv
<1>1. OneAtATime'
  BY StillOneEnds
<1>2. CASE row = Nowhere
  BY <1>1, <1>2, NoRow
<1>3. CASE row # Nowhere
  <2>1. req[r].goal = row /\ req[r].was = row
    BY <1>3 DEF ReadIsRow
  <2>2. req[r].op \in DeviceOps /\ req[r].step \in Steps
    BY DEF DeviceOps, Steps
  <2>3. \A q \in Requests : q # r => ~Moving(q, "record") /\ ~Moving(q, "tell")
    BY <2>2, MoverAlone
  <2>4. \A q \in Requests : ~Moving(q, "record")' /\ ~Moving(q, "tell")'
    BY <2>3 DEF Ends, OnlyAt, Moving
  <2>5. ~Resharding /\ (\A p : Told(p) => p = row) /\ (\A p : Known(p) => p = row)
    BY <2>1, <2>3 DEF Resharding, Told, Known
  <2>6. ~Resharding' /\ (\A p : p = row => Told(p)') /\ (\A p : p = row => Known(p)')
    BY <2>4 DEF Resharding, Told, Known
  <2>7. RecordFollows' /\ RecordIsKnown'
    BY <2>5, <2>6 DEF RecordFollows, RecordIsKnown
  <2>8. MessagesAreTold'
    BY <1>3, <2>5, <2>6 DEF MessagesAreTold, LastMessage
  <2>9. \A a : Final(a)' = Final(a)
    BY DEF Final, LastMessage
  <2>10. \A w : Peaceful(w)' => Peaceful(w)
    BY <2>5 DEF Peaceful
  <2>11. SessionsWillFollow'
    BY <1>3, <2>5, <2>6, <2>9, <2>10 DEF SessionsWillFollow, Pending
  <2>12. ReadIsRow'
    <3>1. OnlyAt(r) /\ Reads(req'[r], row)
      BY EndsReads DEF Ends
    <3> QED
      BY <3>1, ReadFrame
  <2> QED
    BY <1>1, <2>7, <2>8, <2>11, <2>12
<1> QED
  BY <1>2, <1>3

LEMMA LocationFail ==
  ASSUME Control, LocationInv, NEW r \in Requests, Fail(r)
  PROVE  LocationInv'
<1> USE DEF Control, LocationInv
<1>1. Ends(r) /\ req[r].step \in Steps
  BY GiveUpEnds DEF Fail, UnderWay
<1>2. UNCHANGED <<row, record, token, torn, inbox, conn, slipped>> /\ unseen \subseteq unseen'
  BY DEF Fail, storeVars, TypeOK
<1>3. OneAtATime' /\ OnlyAt(r)
  BY <1>1, StillOneEnds DEF Ends
<1>4. Reads(req'[r], row) /\ req'[r].op # "move"
  BY <1>1, EndsReads
<1>5. CASE ~(req[r].op = "move" /\ req[r].step \in {"record", "tell"})
  BY <1>2, <1>3, <1>4, <1>5, LocationQuiet
<1>6. CASE req[r].op = "move" /\ req[r].step \in {"record", "tell"} /\ req[r].was = req[r].goal
  BY <1>1, <1>2, <1>6, LocationEndsUnmoved
<1>7. CASE req[r].op = "move" /\ req[r].step \in {"record", "tell"} /\ req[r].was # req[r].goal
  <2>1. unseen' = Workers
    BY <1>7 DEF Fail, Moved
  <2>2. MessagesAreTold' /\ SessionsWillFollow' /\ RecordIsKnown'
    BY <2>1 DEF MessagesAreTold, SessionsWillFollow, RecordIsKnown
  <2>3. RecordFollows'
    BY <1>2 DEF RecordFollows
  <2>4. ReadIsRow'
    BY <1>2, <1>3, <1>4, ReadFrame
  <2> QED
    BY <1>3, <2>2, <2>3, <2>4
<1> QED
  BY <1>5, <1>6, <1>7

LEMMA LocationTellNothing ==
  ASSUME Control, LocationInv, NEW r \in Requests, TellNothing(r)
  PROVE  LocationInv'
<1>1. Ends(r) /\ req[r].op = "move" /\ req[r].step = "tell" /\ req[r].was = req[r].goal
  BY TellEnds DEF TellNothing, Moved, Control
<1>2. UNCHANGED <<row, record, token, torn, inbox, conn, slipped, unseen>>
  BY DEF TellNothing, storeVars
<1> QED
  BY <1>1, <1>2, LocationEndsUnmoved

LEMMA LocationTellRevoked ==
  ASSUME Control, LocationInv, NEW r \in Requests, NEW reached \in SUBSET Workers,
         TellRevoked(r, reached)
  PROVE  LocationInv'
<1> USE DEF Control, LocationInv
<1>1. /\ Ends(r) /\ req[r].op \in RevokingOps
      /\ \A w \in reached : inbox'[w] = Append(inbox[w], "revoked")
      /\ \A w \in Workers \ reached : inbox'[w] = inbox[w]
  BY TellRevokedFacts
<1>2. UNCHANGED <<row, record, token, torn, conn, slipped, unseen>>
  BY DEF TellRevoked, Tell, storeVars
<1>3. OneAtATime' /\ OnlyAt(r)
  BY <1>1, StillOneEnds DEF Ends
<1>4. ReadIsRow'
  BY <1>1, <1>2, <1>3, EndsReads, ReadFrame
<1>5. SameMovers
  <2>1. \A s \in {"record", "tell"} : ~Moving(r, s) /\ ~Moving(r, s)'
    BY <1>1 DEF Moving, RevokingOps, Ends
  <2> QED
    BY <1>3, <2>1, OtherMovers
<1>6. RecordIsKnown' /\ RecordFollows'
  BY <1>2, <1>5, RecordFrame
<1>7. (\A p : Told(p)' <=> Told(p)) /\ (Resharding' <=> Resharding)
  BY <1>2, <1>5, MoversFrame
<1>8. "revoked" \notin Places /\ "revoked" \in Messages
  BY PlacesAssumption DEF Messages
<1>9. ASSUME NEW w \in reached
      PROVE  LastMessage(w)' \notin Places /\ ~Peaceful(w)'
  <2>1. inbox[w] \in Seq(Messages)
    BY DEF TypeOK
  <2>2. /\ inbox'[w][Len(inbox'[w])] = "revoked"
        /\ Len(inbox'[w]) \in DOMAIN inbox'[w]
    BY <1>1, <1>8, <2>1, LastOfAppend
  <2> QED
    BY <1>8, <2>2 DEF LastMessage, Peaceful
<1>10. MessagesAreTold'
  BY <1>1, <1>2, <1>7, <1>9 DEF MessagesAreTold, LastMessage
<1>11. SessionsWillFollow'
  <2> SUFFICES ASSUME NEW w \in Workers \ unseen', (row # Nowhere)', Peaceful(w)',
                      NEW a \in Attempts, a \in Pending(w, {"located", "live"})' \ slipped'
               PROVE  Told(Final(a))' /\ conn'[a].home = ShardOf[Final(a)']
    BY DEF SessionsWillFollow, Pending
  <2>1. inbox'[w] = inbox[w]
    BY <1>1, <1>9
  <2>2. Peaceful(w)
    BY <1>7, <2>1 DEF Peaceful
  <2>3. conn[a].worker = w /\ Final(a)' = Final(a)
    BY <1>2, <2>1 DEF Final, LastMessage, Pending
  <2>4. Told(Final(a)) /\ conn[a].home = ShardOf[Final(a)]
    BY <1>2, <2>2 DEF SessionsWillFollow, Pending
  <2>5. Told(Final(a))'
    BY <1>7, <2>3, <2>4 DEF Told
  <2> QED
    BY <1>2, <2>3, <2>4, <2>5
<1> QED
  BY <1>3, <1>4, <1>6, <1>10, <1>11

LEMMA LocationTellMoved ==
  ASSUME Control, LocationInv, NEW r \in Requests, NEW reached \in SUBSET Workers,
         TellMoved(r, reached)
  PROVE  LocationInv'
<1> USE DEF Control, LocationInv
<1>1. /\ Ends(r) /\ req[r].step = "tell" /\ req[r].op = "move"
      /\ req[r].was \in Places /\ req[r].goal \in Places
      /\ \A w \in reached : inbox'[w] = Append(inbox[w], MoveMessage(r))
      /\ unseen' = unseen \cup (Workers \ reached)
  BY TellMovedFacts
<1>2. UNCHANGED <<row, record, token, torn, conn, slipped>>
  BY DEF TellMoved, Tell, storeVars
<1>3. OneAtATime' /\ OnlyAt(r)
  BY <1>1, StillOneEnds DEF Ends
<1>4. CASE row = Nowhere
  BY <1>2, <1>3, <1>4, NoRow
<1>5. CASE row # Nowhere
  <2>1. req[r].goal = row
    BY <1>1, <1>5 DEF ReadIsRow
  <2>2. req[r].op \in DeviceOps /\ req[r].step \in Steps
    BY <1>1 DEF DeviceOps, Steps
  <2>3. /\ \A q \in Requests : q # r => ~Moving(q, "record") /\ ~Moving(q, "tell")
        /\ Moving(r, "tell") /\ ~Moving(r, "record")
    BY <1>1, <2>2, MoverAlone DEF Moving
  <2>4. \A q \in Requests : ~Moving(q, "record")' /\ ~Moving(q, "tell")'
    BY <1>1, <2>3 DEF Ends, OnlyAt, Moving
  <2>5. /\ Resharding <=> ShardOf[req[r].was] # ShardOf[row]
        /\ \A p : Told(p) => p \in {req[r].was, row}
        /\ \A p : Known(p) => p = row
    BY <2>1, <2>3 DEF Resharding, Told, Known
  <2>6. ~Resharding' /\ (\A p : p = row => Told(p)') /\ (\A p : p = row => Known(p)')
    BY <1>2, <2>4 DEF Resharding, Told, Known
  <2>7. RecordFollows' /\ RecordIsKnown'
    BY <1>1, <1>2, <2>5, <2>6 DEF RecordFollows, RecordIsKnown
  <2>8. ReadIsRow'
    BY <1>1, <1>2, <1>3, EndsReads, ReadFrame
  <2>9. "shardChanged" \notin Places /\ MoveMessage(r) \in Messages
    BY <1>1, PlacesAssumption DEF Messages, MoveMessage
  <2>10. MoveMessage(r) \in Places => MoveMessage(r) = row /\ ~Resharding
    BY <2>1, <2>5, <2>9 DEF MoveMessage
  <2>11. ASSUME NEW w \in Workers \ unseen'
         PROVE  /\ w \in Workers \ unseen /\ inbox'[w] # <<>>
                /\ LastMessage(w)' = MoveMessage(r)
                /\ Peaceful(w)' => Peaceful(w) /\ MoveMessage(r) \in Places
    <3>1. w \in reached /\ w \notin unseen /\ inbox'[w] = Append(inbox[w], MoveMessage(r))
      BY <1>1
    <3>2. inbox[w] \in Seq(Messages)
      BY DEF TypeOK
    <3>3. /\ inbox'[w] # <<>> /\ inbox'[w][Len(inbox'[w])] = MoveMessage(r)
          /\ Len(inbox'[w]) \in DOMAIN inbox'[w]
          /\ \A k \in DOMAIN inbox[w] : k \in DOMAIN inbox'[w] /\ inbox'[w][k] = inbox[w][k]
      BY <2>9, <3>1, <3>2, LastOfAppend
    <3>4. Peaceful(w)' => MoveMessage(r) \in Places /\ \A k \in DOMAIN inbox[w] : inbox[w][k] \in Places
      BY <3>3 DEF Peaceful
    <3>5. Peaceful(w)' => Peaceful(w)
      BY <2>10, <3>4 DEF Peaceful
    <3> QED
      BY <3>1, <3>3, <3>4, <3>5 DEF LastMessage
  <2>12. MessagesAreTold'
    BY <2>6, <2>10, <2>11 DEF MessagesAreTold
  <2>13. SessionsWillFollow'
    <3> SUFFICES ASSUME NEW w \in Workers \ unseen', Peaceful(w)',
                        NEW a \in Attempts, a \in Pending(w, {"located", "live"})' \ slipped'
                 PROVE  Told(Final(a))' /\ conn'[a].home = ShardOf[Final(a)']
      BY DEF SessionsWillFollow, Pending
    <3>1. /\ w \in Workers \ unseen /\ Peaceful(w) /\ inbox'[w] # <<>>
          /\ LastMessage(w)' = row /\ ~Resharding
      BY <2>10, <2>11
    <3>2. conn'[a].worker = w /\ a \in Pending(w, {"located", "live"}) \ slipped
      BY <1>2 DEF Pending
    <3>3. Final(a)' = row
      BY <3>1, <3>2 DEF Final
    <3>4. Told(Final(a)) /\ conn[a].home = ShardOf[Final(a)]
      BY <1>5, <3>1, <3>2 DEF SessionsWillFollow
    <3>5. ShardOf[Final(a)] = ShardOf[row]
      BY <2>5, <3>1, <3>4
    <3>6. Told(Final(a))'
      BY <2>6, <3>3 DEF Told
    <3> QED
      BY <1>2, <3>3, <3>4, <3>5, <3>6
  <2> QED
    BY <1>3, <2>7, <2>8, <2>12, <2>13
<1> QED
  BY <1>4, <1>5

LEMMA LocationRequest ==
  ASSUME Serial, Control, LocationInv, NEW r \in Requests, RequestStep(r)
  PROVE  LocationInv'
BY LocationBegin, LocationPlain, LocationInsert, LocationErased, LocationWrite,
   LocationRecordFails, LocationRecordMove, LocationRecordOther, LocationFail,
   LocationTellNothing, LocationTellRevoked, LocationTellMoved DEF RequestStep

(* The record agrees with what its worker was told of *)
LEMMA KnownAgrees ==
  ASSUME Control, LocationInv, row # Nowhere, NEW p, Known(p), ~Resharding
  PROVE  Told(p) /\ \A q : Told(q) => ShardOf[q] = ShardOf[p]
<1> USE DEF Control, LocationInv
<1>1. CASE \E r \in Requests : Moving(r, "record") \/ Moving(r, "tell")
  <2>1. PICK r \in Requests : Moving(r, "record") \/ Moving(r, "tell")
    BY <1>1
  <2>2. req[r].op \in DeviceOps /\ req[r].step \in Steps
    BY <2>1 DEF Moving, DeviceOps, Steps
  <2>3. \A q \in Requests : q # r => ~Moving(q, "record") /\ ~Moving(q, "tell")
    BY <2>2, MoverAlone
  <2>4. CASE Moving(r, "record")
    <3>1. ~Moving(r, "tell")
      BY <2>4 DEF Moving
    <3>2. \A q : (Known(q) <=> q = req[r].was) /\ (Told(q) <=> q = req[r].was)
      BY <2>3, <2>4, <3>1 DEF Known, Told
    <3> QED
      BY <3>2
  <2>5. CASE Moving(r, "tell")
    <3>1. ~Moving(r, "record") /\ req[r].goal = row
      BY <2>5 DEF Moving, ReadIsRow
    <3>2. \A q : (Known(q) => q = row) /\ (Told(q) <=> q \in {req[r].was, row})
      BY <2>3, <2>5, <3>1 DEF Known, Told
    <3>3. ShardOf[req[r].was] = ShardOf[row]
      BY <2>5, <3>1 DEF Resharding
    <3> QED
      BY <3>2, <3>3
  <2> QED
    BY <2>1, <2>4, <2>5
<1>2. CASE \A r \in Requests : ~Moving(r, "record") /\ ~Moving(r, "tell")
  <2>1. \A q : (Known(q) => q = row) /\ (Told(q) <=> q = row)
    BY <1>2 DEF Known, Told
  <2> QED
    BY <2>1
<1> QED
  BY <1>1, <1>2

LEMMA LocationAttempt ==
  ASSUME Control, LocationInv, NEW a \in Attempts, AttemptStep(a)
  PROVE  LocationInv'
<1> USE DEF Control, LocationInv
<1>1. UNCHANGED <<row, record, token, req, inbox, torn, unseen, slipped>>
  BY DEF AttemptStep, Consume, CheckRevoked, Locate, Register, Leave, storeVars, historyVars
<1>2. OneAtATime' /\ ReadIsRow' /\ RecordFollows'
  BY <1>1 DEF OneAtATime, UnderWay, ReadIsRow, RecordFollows
<1>3. SameMovers
  BY <1>1 DEF SameMovers, Moving
<1>4. (\A p : Told(p)' <=> Told(p)) /\ (Resharding' <=> Resharding)
  BY <1>1, <1>3, MoversFrame
<1>5. RecordIsKnown'
  BY <1>1, <1>3, RecordFrame
<1>6. MessagesAreTold'
  BY <1>1, <1>4 DEF MessagesAreTold, LastMessage
<1>7. \A w : Peaceful(w)' <=> Peaceful(w)
  BY <1>1, <1>4 DEF Peaceful
<1> DEFINE in == {"located", "live"}
           Same(b) == /\ conn[b].at \in in /\ conn'[b].worker = conn[b].worker
                      /\ conn'[b].place = conn[b].place /\ conn'[b].home = conn[b].home
<1>8. ASSUME NEW w \in Workers \ unseen, row # Nowhere, Peaceful(w),
             NEW b \in Attempts, b \in Pending(w, in)' \ slipped, Same(b)
      PROVE  Told(Final(b))' /\ conn'[b].home = ShardOf[Final(b)']
  <2>1. b \in Pending(w, in) \ slipped
    BY <1>8 DEF Pending
  <2>2. Told(Final(b)) /\ conn[b].home = ShardOf[Final(b)]
    BY <1>8, <2>1 DEF SessionsWillFollow
  <2>3. Final(b)' = Final(b)
    BY <1>1, <1>8 DEF Final, LastMessage
  <2>4. row' = row /\ req' = req
    BY <1>1
  <2>5. Told(Final(b))'
    <3> HIDE DEF Control, LocationInv, in, Same
    <3> QED
      BY <2>2, <2>3, <2>4 DEF Told, Moving
  <2> QED
    BY <1>8, <2>2, <2>3, <2>5
<1>9. ASSUME \A b \in Attempts : conn'[b].at \in in => Same(b) PROVE SessionsWillFollow'
  <2> SUFFICES ASSUME NEW w \in Workers \ unseen', (row # Nowhere)', Peaceful(w)',
                      NEW b \in Attempts, b \in Pending(w, in)' \ slipped'
               PROVE  Told(Final(b))' /\ conn'[b].home = ShardOf[Final(b)']
    BY DEF SessionsWillFollow, Pending
  <2>1. Same(b)
    BY <1>9 DEF Pending
  <2> QED
    BY <1>1, <1>7, <1>8, <2>1
<1>10. ASSUME NEW w \in Workers, NEW t \in Requests, Consume(a, w, t) PROVE SessionsWillFollow'
  BY <1>9, <1>10, ConsumeFacts DEF OnlyConn
<1>11. ASSUME CheckRevoked(a) PROVE SessionsWillFollow'
  BY <1>9, <1>11, CheckFacts DEF OnlyConn, Advances
<1>12. ASSUME Register(a) PROVE SessionsWillFollow'
  BY <1>9, <1>12, RegisterFacts DEF Advances
<1>13. ASSUME Leave(a) PROVE SessionsWillFollow'
  BY <1>9, <1>13, LeaveFacts DEF OnlyConn, Leave
<1>14. ASSUME Locate(a) PROVE SessionsWillFollow'
  <2>1. /\ OnlyConn(a) /\ conn[a].at = "allowed"
        /\ \/ /\ Advances(a, "located") /\ record # Nowhere
              /\ conn'[a].place = record /\ conn'[a].home = ShardOf[record]
           \/ conn'[a].at = "ended" /\ conn'[a].ticket = conn[a].ticket
    BY <1>14, LocateFacts
  <2>2. token
    BY <2>1 DEF Untouched
  <2> SUFFICES ASSUME NEW w \in Workers \ unseen', (row # Nowhere)', Peaceful(w)',
                      NEW b \in Attempts, b \in Pending(w, in)' \ slipped'
               PROVE  Told(Final(b))' /\ conn'[b].home = ShardOf[Final(b)']
    BY DEF SessionsWillFollow, Pending
  <2>3. w \in Workers \ unseen /\ row # Nowhere /\ Peaceful(w) /\ b \in Pending(w, in)' \ slipped
    BY <1>1, <1>7
  <2>4. CASE b # a
    <3>1. Same(b)
      BY <2>1, <2>3, <2>4 DEF OnlyConn, Pending
    <3> QED
      BY <1>8, <2>3, <3>1
  <2>5. CASE b = a
    <3>1. /\ record # Nowhere /\ conn'[a].place = record /\ conn'[a].home = ShardOf[record]
          /\ conn'[a].worker = w
      BY <2>1, <2>3, <2>5 DEF Pending
    <3>2. Known(record) /\ ~Resharding
      BY <2>2, <2>3, <3>1 DEF RecordIsKnown, Peaceful
    <3>3. Told(record) /\ \A q : Told(q) => ShardOf[q] = ShardOf[record]
      BY <2>3, <3>2, KnownAgrees
    <3>4. CASE inbox[w] = <<>>
      <4>1. Final(a)' = record
        BY <1>1, <3>1, <3>4 DEF Final
      <4>2. Told(Final(a))'
        BY <1>4, <3>3, <4>1 DEF Told
      <4> QED
        BY <2>5, <3>1, <4>1, <4>2
    <3>5. CASE inbox[w] # <<>>
      <4>1. Final(a)' = LastMessage(w)
        BY <1>1, <3>1, <3>5 DEF Final, LastMessage
      <4>2. inbox[w] \in Seq(Messages)
        BY DEF TypeOK
      <4>3. Len(inbox[w]) \in DOMAIN inbox[w]
        BY <3>5, <4>2
      <4>4. LastMessage(w) \in Places
        BY <2>3, <4>3 DEF Peaceful, LastMessage
      <4>5. Told(LastMessage(w))
        BY <2>3, <3>2, <3>5, <4>4 DEF MessagesAreTold
      <4>6. Told(Final(a))'
        BY <1>4, <4>1, <4>5 DEF Told
      <4> QED
        BY <2>5, <3>1, <3>3, <4>1, <4>5, <4>6
    <3> QED
      BY <3>4, <3>5
  <2> QED
    BY <2>4, <2>5
<1>15. SessionsWillFollow'
  BY <1>10, <1>11, <1>12, <1>13, <1>14 DEF AttemptStep
<1> QED
  BY <1>2, <1>5, <1>6, <1>15

LEMMA LocationHandle ==
  ASSUME Control, LocationInv, NEW w \in Workers, HandleControl(w)
  PROVE  LocationInv'
<1> USE DEF Control, LocationInv
<1> DEFINE m == Head(inbox[w])
           in == {"located", "live"}
<1>1. UNCHANGED <<row, record, token, req, torn, unseen>>
  BY DEF HandleControl, storeVars
<1>2. OneAtATime' /\ ReadIsRow' /\ RecordFollows'
  BY <1>1 DEF OneAtATime, UnderWay, ReadIsRow, RecordFollows
<1>3. SameMovers
  BY <1>1 DEF SameMovers, Moving
<1>4. (\A p : Told(p)' <=> Told(p)) /\ (Resharding' <=> Resharding)
  BY <1>1, <1>3, MoversFrame
<1>5. RecordIsKnown'
  BY <1>1, <1>3, RecordFrame
<1>6. /\ inbox[w] # <<>>
      /\ inbox'[w] = Tail(inbox[w])
      /\ \A v \in Workers : v # w => inbox'[v] = inbox[v]
  BY HandleFacts
<1>7. inbox[w] \in Seq(Messages)
  BY DEF TypeOK
<1>8. /\ inbox'[w] # <<>> => LastMessage(w)' = LastMessage(w)
      /\ inbox'[w] = <<>> => LastMessage(w) = m
      /\ (m \in Places /\ Peaceful(w)') => Peaceful(w)
  BY <1>4, <1>6, <1>7, LastOfTail DEF LastMessage, Peaceful
<1>9. MessagesAreTold'
  <2> SUFFICES ASSUME NEW v \in Workers \ unseen', (row # Nowhere)', inbox'[v] # <<>>,
                      LastMessage(v)' \in Places, ~Resharding'
               PROVE  Told(LastMessage(v))'
    BY DEF MessagesAreTold
  <2>1. LastMessage(v)' = LastMessage(v) /\ inbox[v] # <<>>
    BY <1>6, <1>8 DEF LastMessage
  <2>2. Told(LastMessage(v))
    BY <1>1, <1>4, <2>1 DEF MessagesAreTold
  <2> QED
    BY <1>4, <2>1, <2>2 DEF Told
<1>10. SessionsWillFollow'
  <2> SUFFICES ASSUME NEW v \in Workers \ unseen', (row # Nowhere)', Peaceful(v)',
                      NEW a \in Attempts, a \in Pending(v, in)' \ slipped'
               PROVE  Told(Final(a))' /\ conn'[a].home = ShardOf[Final(a)']
    BY DEF SessionsWillFollow, Pending
  <2>1. slipped \cup Pending(w, {"located"}) \subseteq slipped'
    BY DEF HandleControl, Pending
  <2>2. IF a \notin Pending(w, {"live"}) THEN conn'[a] = conn[a]
        ELSE IF m \in Places THEN Relocated(a, m)
        ELSE conn'[a].at = "ended" /\ conn'[a].ticket = conn[a].ticket
    BY HandleFacts
  <2>3. ASSUME a \in Pending(v, in) \ slipped, Peaceful(v), Final(a)' = Final(a),
               conn'[a].home = conn[a].home
        PROVE  Told(Final(a))' /\ conn'[a].home = ShardOf[Final(a)']
    <3>1. Told(Final(a)) /\ conn[a].home = ShardOf[Final(a)]
      BY <1>1, <2>3 DEF SessionsWillFollow
    <3>2. PICK p : p = Final(a)
      OBVIOUS
    <3>3. Told(p) /\ Told(p)' /\ p = Final(a)'
      BY <1>4, <2>3, <3>1, <3>2
    <3>4. Told(Final(a))'
      BY <3>3 DEF Told
    <3> QED
      BY <2>3, <3>1, <3>4
  <2>4. CASE a \in Pending(w, {"live"})
    <3>1. m \in Places /\ Relocated(a, m) /\ v = w
      BY <2>2, <2>4 DEF Pending, Relocated, Advances
    <3>2. Peaceful(w)
      BY <1>8, <3>1
    <3>3. a \in Pending(v, in) \ slipped
      BY <2>1, <2>4, <3>1 DEF Pending
    <3>4. conn[a].worker = w /\ conn'[a].worker = w /\ conn'[a].place = m
      BY <2>4, <3>1 DEF Relocated, Advances, Pending
    <3>5. Final(a)' = Final(a)
      BY <1>6, <1>8, <3>4 DEF Final
    <3> QED
      BY <2>3, <3>1, <3>2, <3>3, <3>5 DEF Relocated
  <2>5. CASE a \notin Pending(w, {"live"})
    <3>1. conn'[a] = conn[a]
      BY <2>2, <2>5
    <3>2. v # w
      BY <2>1, <2>5, <3>1 DEF Pending
    <3>3. inbox'[v] = inbox[v] /\ Peaceful(v) /\ conn[a].worker = v
      BY <1>4, <1>6, <3>1, <3>2 DEF Peaceful, Pending
    <3>4. Final(a)' = Final(a)
      BY <3>1, <3>3 DEF Final, LastMessage
    <3>5. a \in Pending(v, in) \ slipped
      BY <2>1, <3>1 DEF Pending
    <3> QED
      BY <2>3, <3>1, <3>3, <3>4, <3>5
  <2> QED
    BY <2>4, <2>5
<1> QED
  BY <1>2, <1>5, <1>9, <1>10

LEMMA LocationNext ==
  ASSUME Serial, Control, LocationInv, [Next]_vars
  PROVE  LocationInv'
<1> USE DEF LocationInv
<1>1. ASSUME UNCHANGED <<row, token, torn, req, inbox, conn, unseen, slipped>>,
             record' \in {record, Nowhere}
      PROVE  LocationInv'
  <2>1. SameMovers
    BY <1>1 DEF SameMovers, Moving
  <2>2. MessagesAreTold' /\ SessionsWillFollow' /\ RecordIsKnown' /\ RecordFollows'
    BY <1>1, <2>1, WorkerFrame, RecordFrame
  <2>3. OneAtATime' /\ ReadIsRow'
    BY <1>1 DEF OneAtATime, UnderWay, ReadIsRow
  <2> QED
    BY <2>2, <2>3
<1>2. (\E t \in Requests : TicketExpires(t)) \/ RecordExpires \/ UNCHANGED vars => LocationInv'
  BY <1>1 DEF TicketExpires, RecordExpires, vars, historyVars
<1> QED
  BY <1>2, LocationRequest, LocationAttempt, LocationHandle DEF Next

LEMMA LocationInvariant == Spec => [](Serial => LocationInv)
<1>1. Init => LocationInv
  <2> SUFFICES ASSUME Init PROVE LocationInv
    OBVIOUS
  <2>1. NoRequest.step = "none" /\ row = Nowhere /\ req = [r \in Requests |-> NoRequest]
    BY DEF Init, NoRequest
  <2>2. OneAtATime
    BY <2>1 DEF OneAtATime, UnderWay, Steps
  <2> QED
    BY <2>1, <2>2 DEF LocationInv, ReadIsRow, RecordFollows, RecordIsKnown, MessagesAreTold,
                      SessionsWillFollow
<1>2. Control /\ (Serial => LocationInv) /\ [Next]_vars => (Serial => LocationInv)'
  BY LocationNext
<1> QED
  BY <1>1, <1>2, ControlInvariant, PTL DEF Spec

(* "Lets a worker verify where a device really is", for every set of places *)
(* and any number of requests: between the requests of a device that makes  *)
(* them one at a time, publish_location has left the location of the row or *)
(* the record has expired, except after a move that ended between the two.  *)
THEOREM RecordStaysCurrent == Spec => []RecordIsCurrent
<1>1. (Serial => LocationInv) => RecordIsCurrent
  BY DEF LocationInv, RecordFollows, RecordIsCurrent
<1> QED
  BY <1>1, LocationInvariant, PTL

(* "The worker holding the socket needs the new position so it filters      *)
(* alerts by where the device really is", for every set of workers: one     *)
(* that was told every change, and has handled the messages, has the        *)
(* device's location in its sessions, and the shard of that location.       *)
THEOREM SessionsFollowTheDevice == Spec => []SessionsFollow
<1>1. (Serial => LocationInv) => SessionsFollow
  <2> SUFFICES ASSUME LocationInv, Quiet, row # Nowhere,
                      NEW w \in Workers \ unseen, inbox[w] = <<>>,
                      NEW a \in Attempts, a \in Pending(w, {"live"}) \ slipped
               PROVE  conn[a].place = row /\ conn[a].home = ShardOf[row]
    BY DEF SessionsFollow, Follows, Pending
  <2>1. \A r \in Requests : ~Moving(r, "record") /\ ~Moving(r, "tell")
    BY DEF Quiet, UnderWay, Moving, Steps
  <2>2. Peaceful(w)
    BY <2>1 DEF Peaceful, Resharding
  <2>3. Told(Final(a)) /\ conn[a].home = ShardOf[Final(a)]
    BY <2>2 DEF LocationInv, SessionsWillFollow, Pending
  <2>4. Final(a) = conn[a].place
    BY DEF Final, Pending
  <2> QED
    BY <2>1, <2>3, <2>4 DEF Told
<1> QED
  BY <1>1, LocationInvariant, PTL
=============================================================================
