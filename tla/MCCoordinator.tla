--------------------------- MODULE MCCoordinator ----------------------------
(* Instances of Coordinator for TLC *)
EXTENDS Coordinator

Key(secret, owner) == [secret |-> secret, owner |-> owner]

MCBase ==
  [env |-> "production", services |-> TRUE, privateKey |-> "unset", publicKey |-> "unset",
   secret |-> "strong", keys |-> <<Key("strong", "operator")>>,
   tokenTtlHours |-> Raw(24), rateLimitDisabled |-> Unset,
   alertsPerSec |-> Unset, alertsBurst |-> Raw(1),
   locationPerSec |-> Unset, locationBurst |-> Raw(2),
   deviceRetentionDays |-> Raw(1), rest |-> Unset]

KeyLists ==
  {<<>>, <<Key("", "operator")>>, <<Key("short", "operator")>>, <<Key("placeholder", "operator")>>,
   <<Key("", "operator"), Key("strong", "operator")>>,
   <<Key("strong", "operator"), Key("short", "stranger")>>}

KeyFiles == {"unset", "file", "missing"}

Numbers == {Unset, Blank, Bad, Raw(-1), Raw(0), Raw(1), Raw(3)}
Rates == Numbers \cup {Raw(7), Raw(501), Raw(999), Raw(1000), Raw(1001)}

(* What a coordinator with a registered device is started with *)
MCLifetimes ==
  {[MCBase EXCEPT !.tokenTtlHours = Raw(t), !.deviceRetentionDays = Raw(d),
                  !.privateKey = k, !.publicKey = k] :
     t \in {12, 24}, d \in {1, 2}, k \in {"unset", "file"}}

(* Whatever tells secrets and keys apart, and one number at a time *)
MCEnvs ==
  {[MCBase EXCEPT !.env = v, !.secret = s, !.keys = k, !.privateKey = p, !.publicKey = q] :
     v \in {"unset", "dev", "production", "staging"}, s \in {"", "placeholder", "short", "strong"},
     k \in KeyLists, p \in KeyFiles, q \in KeyFiles}
  \cup {[MCBase EXCEPT ![f] = n] : f \in {"tokenTtlHours", "deviceRetentionDays", "rest"}, n \in Numbers}
  \cup {[MCBase EXCEPT ![f] = n] :
          f \in {"alertsPerSec", "alertsBurst", "locationPerSec", "locationBurst"}, n \in Rates}
  \cup {[MCBase EXCEPT !.rateLimitDisabled = b] : b \in {Blank, Bad, Raw(TRUE), Raw(FALSE)}}
  \cup {[MCBase EXCEPT !.services = FALSE]}
  \cup MCLifetimes

(* What one that takes requests is started with *)
MCServing ==
  {MCBase, [MCBase EXCEPT !.rateLimitDisabled = Raw(TRUE)], [MCBase EXCEPT !.env = "dev", !.keys = <<>>]}

MCWorkerBase ==
  [env |-> "production", services |-> TRUE, url |-> "unset", prefixes |-> <<"tkrt">>,
   keys |-> <<Key("strong", "operator")>>, leaseTtlSecs |-> Unset, connectPerSec |-> Unset,
   replayMaxAlerts |-> Unset, rest |-> Unset]

MCWorkerEnvs ==
  {[MCWorkerBase EXCEPT !.prefixes = l] : l \in UNION {[1..n -> {"", "tkrt", "tkrw", "bad"}] : n \in 0..4}}
  \cup {[MCWorkerBase EXCEPT !.env = v, !.url = u, !.keys = k] :
          v \in {"unset", "production", "staging"}, u \in {"unset", "ws", "http"}, k \in KeyLists}
  \cup {[MCWorkerBase EXCEPT ![f] = n] :
          f \in {"leaseTtlSecs", "connectPerSec", "replayMaxAlerts", "rest"}, n \in Rates \cup {Raw(2)}}

(* The sphere in units of 1.5 degrees: the sines of 0, 0.75, ..., 90        *)
(* degrees.  Cells of 12 by 6 degrees are twice as wide as high at the      *)
(* equator, as those of a geohash of four characters are.                   *)
MCOne == 32768
MCSin ==
  LET sines == <<
    0, 429, 858, 1286, 1715, 2143, 2571, 2998, 3425, 3851, 4277, 4702, 5126,
    5549, 5971, 6393, 6813, 7232, 7650, 8066, 8481, 8895, 9307, 9717, 10126,
    10533, 10938, 11342, 11743, 12142, 12540, 12935, 13328, 13719, 14107,
    14493, 14876, 15257, 15636, 16011, 16384, 16754, 17121, 17485, 17847,
    18205, 18560, 18912, 19261, 19606, 19948, 20286, 20622, 20953, 21281,
    21605, 21926, 22243, 22556, 22865, 23170, 23472, 23769, 24062, 24351,
    24636, 24917, 25193, 25466, 25733, 25997, 26255, 26510, 26760, 27005,
    27246, 27482, 27713, 27939, 28161, 28378, 28590, 28797, 28999, 29197,
    29389, 29576, 29758, 29935, 30107, 30274, 30435, 30592, 30743, 30888,
    31029, 31164, 31294, 31419, 31538, 31651, 31760, 31863, 31960, 32052,
    32138, 32219, 32295, 32365, 32429, 32488, 32541, 32588, 32631, 32667,
    32698, 32723, 32743, 32757, 32765, 32768>>
  IN  [x \in 0..120 |-> sines[x + 1]]

(* The poles, where the number of rings grows and is too large, the equator *)
(* and between; on the antimeridian, beside it, on an edge and in a cell;   *)
(* and outside the world                                                    *)
MCCenters ==
  [lat : {0, 1, 2, 3, 4, 5, 13, 30, 60, 107, 115, 117, 120}, lon : {0, 3, World}]
  \cup {[lat |-> North + 1, lon |-> 0], [lat |-> 0, lon |-> World + 1]}

MCPlain == [lat |-> 50, lon |-> 10]

MCRequest ==
  [group |-> "dispatch", key |-> Key("strong", "operator"), center |-> MCPlain, radius |-> 3,
   title |-> "text", limit |-> NoLimit]

(* Every key, title and limit for one circle, and many circles *)
MCPlainRequests ==
  {[MCRequest EXCEPT !.group = g, !.key = Key("strong", k)] : g \in Groups, k \in {"operator", "stranger"}}
MCRequests ==
  MCPlainRequests
  \cup {[MCRequest EXCEPT !.title = t] : t \in {"empty", "blank"}}
  \cup {[MCRequest EXCEPT !.group = "dashboard", !.center.lon = x, !.limit = l] :
          x \in {0, 10, World}, l \in {NoLimit, 0, 1, 2, 3}}
  \cup {[MCRequest EXCEPT !.group = g, !.center = c, !.radius = r] :
          g \in Groups, c \in MCCenters, r \in {0, 1, 3, MaxRadius, MaxRadius + 1}}

MCLocated ==
  <<[lat |-> 50, lon |-> World], [lat |-> 51, lon |-> 1], [lat |-> 50, lon |-> 0], [lat |-> 52, lon |-> 11],
    [lat |-> 4, lon |-> World - 20], [lat |-> 3, lon |-> 32]>>

NoDevice == token = NoToken /\ revoked = 0

(* One part at a time: they share only env.  All the requests are made      *)
(* first after a start, then those that tell keys and buckets apart.        *)
MCNext ==
  \/ /\ NoRequests /\ NoDevice /\ ProcessNext
     /\ workerEnv' = NotRunning \/ env' = NotRunning
  \/ /\ workerEnv = NotRunning /\ NoRequests /\ (Running => env \in MCLifetimes)
     /\ DeviceNext \/ Stop \/ \E e \in MCLifetimes : Start(e)
  \/ /\ workerEnv = NotRunning /\ NoDevice /\ env \in MCServing
     /\ \/ \E g \in Groups : Refill(g)
        \/ \E r \in Requests : (r \in MCPlainRequests \/ NoRequests) /\ Request(r)
        \/ Respond \/ Stop

MCSpec == Init /\ [][MCNext]_vars
=============================================================================
