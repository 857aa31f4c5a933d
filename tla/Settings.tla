------------------------------ MODULE Settings ------------------------------
(***************************************************************************)
(* What the coordinator and a worker make of their environment when they   *)
(* start (config.rs of both, ApiKeys and the secrets of auth.rs, the       *)
(* refill periods of rate_limit.rs, the lifetimes of build_state), as      *)
(* operators.                                                              *)
(*                                                                         *)
(* An environment is a record of raw values.  A raw value is what parsing  *)
(* tells apart: not there, blank, something that does not parse (a number  *)
(* out of its type's range too), or a value.  A result is the set of the   *)
(* values it may have: {} for an error, so that the records of a           *)
(* configuration are {} too if one of its settings is an error.            *)
(***************************************************************************)
EXTENDS Integers, Sequences, SequencesExt

Unset == [is |-> "unset"]
Blank == [is |-> "blank"]
Bad == [is |-> "bad"]
Raw(v) == [is |-> "value", value |-> v]

Given(raw) == raw.is \notin {"unset", "blank"}

(* parse_or and parse_bool *)
ParseOr(raw, default) ==
  CASE ~Given(raw)    -> {default}
    [] raw.is = "bad" -> {}
    [] OTHER          -> {raw.value}

AtLeast(n, results) == {v \in results : v >= n}

-----------------------------------------------------------------------------
(* Secrets are "", a "change-me" placeholder, too short or strong *)

(* validate_secret_strength *)
ValidSecret(secret, production) ==
  secret # "" /\ (production => secret = "strong")

(* ApiKeys::from_csv, of a list of keys [secret, owner]; blank ones are skipped *)
ApiKeysFromCsv(list, production) ==
  LET keys == {k \in ToSet(list) : k.secret # ""}
  IN  IF /\ \A k \in keys : ValidSecret(k.secret, production)
         /\ production => keys # {}
      THEN {keys} ELSE {}

(* ApiKeys::verify; "" is not among the keys *)
Verify(keys, presented) == presented \in keys

(* The choice of the algorithm, and load_jwt: the key files must be there *)
Jwt(e, production) ==
  CASE e.privateKey # "unset" /\ e.publicKey # "unset" ->
         IF e.privateKey = "file" /\ e.publicKey = "file" THEN {"EdDSA"} ELSE {}
    [] e.privateKey = "unset" /\ e.publicKey = "unset" ->
         IF ValidSecret(e.secret, production) THEN {"HS256"} ELSE {}
    [] OTHER -> {}

-----------------------------------------------------------------------------
(* Limits *)

(* parse_limit *)
ParseLimit(perSec, burst, default) ==
  [perSec : {n \in ParseOr(perSec, default.perSec) : n \in 1..1000},
   burst : AtLeast(1, ParseOr(burst, default.burst))]

(* Mutant: per_second(n) of the library means a token every n seconds *)
RefillEverySeconds(perSec) == 1000 * perSec

(* refill_period_ms: the time between two tokens *)
RefillPeriodMs(perSec) ==
  LET n == IF perSec < 1 THEN 1 ELSE perSec
  IN  IF 1000 \div n < 1 THEN 1 ELSE 1000 \div n

-----------------------------------------------------------------------------
(* Config::from_lookup of the coordinator.  services: the three URLs are    *)
(* set, and what no model reads is well formed (the port, the log format,   *)
(* the proxy headers, the limit of registrations); rest: the numbers that   *)
(* only have to be at least 1 (the ticket TTL, alert retention, the sweep   *)
(* interval, the age of the stream)                                         *)

Production(e) ==
  CASE e.env \in {"unset", "dev"} -> {FALSE}
    [] e.env = "production"       -> {TRUE}
    [] OTHER                      -> {}

FromLookup(e) ==
  [production : IF e.services THEN Production(e) ELSE {},
   jwt : UNION {Jwt(e, p) : p \in Production(e)},
   operatorKeys : UNION {ApiKeysFromCsv(e.keys, p) : p \in Production(e)},
   tokenTtlHours : AtLeast(1, ParseOr(e.tokenTtlHours, 720)),
   disabled : ParseOr(e.rateLimitDisabled, FALSE),
   alerts : ParseLimit(e.alertsPerSec, e.alertsBurst, [perSec |-> 2, burst |-> 5]),
   location : ParseLimit(e.locationPerSec, e.locationBurst, [perSec |-> 10, burst |-> 20]),
   deviceRetentionDays : AtLeast(1, ParseOr(e.deviceRetentionDays, 90)),
   rest : AtLeast(1, ParseOr(e.rest, 1))]

(* Mutant: nothing to spare for a token's leeway *)
RevocationTtlBare(config) == config.tokenTtlHours

(* revocation_ttl_secs, in hours *)
RevocationTtlHours(config) == config.tokenTtlHours + 24

(* Mutant: nothing to spare for the next sweep *)
LocationTtlBare(config) == config.deviceRetentionDays * 24

(* location_ttl_secs, in hours *)
LocationTtlHours(config) == (config.deviceRetentionDays + 1) * 24

-----------------------------------------------------------------------------
(* Config::from_lookup of a worker.  services: as above; rest: the burst of *)
(* connections and the age of the stream                                    *)

(* parse_prefixes: blank items are skipped, each prefix is taken once, in   *)
(* the order of the list                                                    *)
ParsePrefixes(list) ==
  LET out[i \in 0..Len(list)] ==
        IF i = 0 THEN <<>>
        ELSE IF list[i] = "" \/ list[i] \in ToSet(out[i - 1]) THEN out[i - 1]
        ELSE Append(out[i - 1], list[i])
      owned == out[Len(list)]
  IN  IF "bad" \in ToSet(list) \/ owned = <<>> THEN {} ELSE {owned}

WorkerFromLookup(e) ==
  [production : IF e.services /\ e.url \in {"unset", "ws"} THEN Production(e) ELSE {},
   ownedPrefixes : ParsePrefixes(e.prefixes),
   leaseTtlSecs : AtLeast(3, ParseOr(e.leaseTtlSecs, 30)),
   perSec : {n \in ParseOr(e.connectPerSec, 50) : n \in 1..10000},
   operatorKeys : UNION {ApiKeysFromCsv(e.keys, p) : p \in Production(e)},
   replayMaxAlerts : {n \in ParseOr(e.replayMaxAlerts, 50) : n \in 1..500},
   rest : AtLeast(1, ParseOr(e.rest, 1))]

(* The refresher's pause, of spawn_refresher *)
RefreshEverySecs(config) ==
  IF config.leaseTtlSecs \div 3 < 1 THEN 1 ELSE config.leaseTtlSecs \div 3
=============================================================================
