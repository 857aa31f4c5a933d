------------------------- MODULE CoordinatorProofs --------------------------
(***************************************************************************)
(* Proofs about Coordinator, for every set of environments with numbers    *)
(* where numbers are expected, every tick that divides a day, every grid   *)
(* of cells, every table of sines that grows, every set of requests and    *)
(* wherever the devices are.  What is taken from the geometry of the       *)
(* sphere is SphereAssumption.                                             *)
(***************************************************************************)
EXTENDS Coordinator, Induction

-----------------------------------------------------------------------------
(* Arithmetic *)

LEMMA TickDivides == HoursPerTick \in 1..24
<1>1. HoursPerTick \in Nat /\ HoursPerTick > 0 /\ 24 % HoursPerTick = 0
  BY TickAssumption
<1>2. CASE HoursPerTick > 24
  <2>1. 24 % HoursPerTick = 24
    BY <1>1, <1>2
  <2>. QED  BY <1>1, <2>1
<1>. QED  BY <1>1, <1>2

LEMMA DivFacts ==
  ASSUME NEW a \in Nat, NEW h \in Nat \ {0}
  PROVE  a \div h \in Nat /\ (a \div h) * h <= a /\ a < (a \div h) * h + h
OBVIOUS

(* A quotient is below another where its multiple is *)
LEMMA Quotients ==
  ASSUME NEW s \in Nat \ {0}, NEW m \in Int, NEW r \in Nat, m * s <= r
  PROVE  m <= r \div s
<1>. DEFINE q == r \div s
<1>1. q \in Nat /\ r < q * s + s
  BY DivFacts
<1>. HIDE DEF q
<1>. SUFFICES ASSUME q + 1 <= m PROVE FALSE
  BY <1>1 DEF q
<1>2. (q + 1) * s <= m * s
  BY <1>1
<1>3. (q + 1) * s = q * s + s /\ m * s \in Int /\ q * s \in Int
  BY <1>1
<1>. QED  BY <1>1, <1>2, <1>3

(* Longer lifetimes have no fewer ticks, and a day more has more *)
LEMMA TicksGrow ==
  ASSUME NEW a \in Nat, NEW b \in Nat, a <= b
  PROVE  Ticks(a) \in Nat /\ Ticks(a) <= Ticks(b) /\ Ticks(a) < Ticks(b + 24)
<1>. DEFINE h == HoursPerTick
            p == a \div h
            q == b \div h
            r == (b + 24) \div h
<1>1. h \in Nat \ {0} /\ h <= 24
  BY TickDivides
<1>2. /\ p \in Nat /\ p * h <= a /\ a < p * h + h
      /\ q \in Nat /\ q * h <= b /\ b < q * h + h
      /\ r \in Nat /\ r * h <= b + 24 /\ b + 24 < r * h + h
  <2>. HIDE DEF h
  <2>1. b + 24 \in Nat
    OBVIOUS
  <2>2. p \in Nat /\ p * h <= a /\ a < p * h + h
    BY <1>1, DivFacts
  <2>3. q \in Nat /\ q * h <= b /\ b < q * h + h
    BY <1>1, DivFacts
  <2>4. r \in Nat /\ r * h <= b + 24 /\ b + 24 < r * h + h
    BY <1>1, <2>1, DivFacts
  <2>. QED  BY <2>2, <2>3, <2>4
<1>. HIDE DEF p, q, r, h
<1>3. p <= q
  <2>. SUFFICES ASSUME q + 1 <= p PROVE FALSE
    BY <1>2
  <2>1. (q + 1) * h <= p * h
    BY <1>1, <1>2
  <2>. QED  BY <1>1, <1>2, <2>1
<1>4. p < r
  <2>. SUFFICES ASSUME r <= p PROVE FALSE
    BY <1>2
  <2>1. r * h <= p * h
    BY <1>1, <1>2
  <2>. QED  BY <1>1, <1>2, <2>1
<1>. QED  BY <1>2, <1>3, <1>4 DEF Ticks, p, q, r, h

LEMMA ProductGrows ==
  ASSUME NEW a \in Nat, NEW b \in Nat, NEW c \in Nat, NEW d \in Nat, a <= b, c <= d
  PROVE  a * c <= b * d
<1>1. a * c <= b * c
  OBVIOUS
<1>2. b * c <= b * d
  OBVIOUS
<1>. QED  BY <1>1, <1>2

(* refill_period_ms grants no less than any rate that is accepted, less     *)
(* than twice as much, and the rate itself if that divides a second         *)
LEMMA RatesAreGranted ==
  ASSUME NEW n \in 1..1000
  PROVE  RateIsKept(n)
<1>. DEFINE q == 1000 \div n
<1>1. q \in Nat /\ q * n <= 1000 /\ 1000 < q * n + n
  BY DivFacts
<1>. HIDE DEF q
<1>2. q \in Nat \ {0} /\ n * q <= 1000
  BY <1>1
<1>3. RefillPeriodMs(n) = q
  BY <1>1, <1>2 DEF RefillPeriodMs, q
<1>4. n <= 1000 \div q
  BY <1>2, Quotients
<1>. DEFINE g == 1000 \div q
<1>5. g \in Nat /\ g * q <= 1000 /\ 1000 < g * q + q
  BY <1>2, DivFacts
<1>6. Granted(n) = g
  BY <1>3 DEF Granted
<1>7. n <= g
  BY <1>4 DEF g
<1>. HIDE DEF g
<1>8. g < 2 * n
  <2>1. SUFFICES ASSUME g >= 2 * n  PROVE FALSE
    BY <1>5
  <2>2. (2 * n) * q <= g * q
    BY <1>2, <1>5, <2>1, ProductGrows
  <2>3. n <= n * q
    BY <1>2
  <2>. QED  BY <1>1, <1>2, <1>5, <2>2, <2>3
<1>9. ASSUME (1000 \div n) * n = 1000  PROVE g = n
  <2>1. q * n = 1000
    BY <1>9 DEF q
  <2>2. SUFFICES ASSUME g >= n + 1  PROVE FALSE
    BY <1>5, <1>7
  <2>3. (n + 1) * q <= g * q
    BY <1>2, <1>5, <2>2, ProductGrows
  <2>. QED  BY <1>2, <1>5, <2>1, <2>3
<1>. QED  BY <1>5, <1>6, <1>7, <1>8, <1>9 DEF RateIsKept

-----------------------------------------------------------------------------
(* Settings *)

(* A setting has one value, which is a number where it should be *)
LEMMA ParsedOnce ==
  ASSUME NEW raw, NEW default, NEW v \in ParseOr(raw, default), NEW w \in ParseOr(raw, default)
  PROVE  v = w /\ raw.is # "bad"
BY DEF ParseOr, Given

LEMMA ParsedNumber ==
  ASSUME NEW raw, IsNumber(raw), NEW default \in Int, NEW v \in ParseOr(raw, default)
  PROVE  v \in Int
BY DEF ParseOr, Given, IsNumber

LEMMA LimitParsed ==
  ASSUME NEW perSec, NEW burst, NEW default, default.perSec \in Int, default.burst \in Int,
         IsNumber(perSec), IsNumber(burst), NEW l \in ParseLimit(perSec, burst, default)
  PROVE  /\ l.perSec \in 1..1000 /\ l.burst \in Nat \ {0}
         /\ \A m \in ParseLimit(perSec, burst, default) : m = l
<1>1. \A m \in ParseLimit(perSec, burst, default) :
        /\ m.perSec \in ParseOr(perSec, default.perSec) /\ m.perSec \in 1..1000
        /\ m.burst \in AtLeast(1, ParseOr(burst, default.burst))
        /\ m = [perSec |-> m.perSec, burst |-> m.burst]
  BY DEF ParseLimit
<1>2. \A p, q \in ParseOr(perSec, default.perSec) : p = q
  BY ParsedOnce
<1>3. \A b, c \in AtLeast(1, ParseOr(burst, default.burst)) : b = c /\ b \in Nat \ {0}
  <2>1. \A b, c \in ParseOr(burst, default.burst) : b = c /\ b \in Int
    BY ParsedOnce, ParsedNumber
  <2>. QED  BY <2>1 DEF AtLeast
<1>. QED  BY <1>1, <1>2, <1>3

(* What a configuration is made of *)
LEMMA ConfigParts ==
  ASSUME NEW e, NEW c \in FromLookup(e)
  PROVE  /\ c.production \in Production(e)
         /\ \E p \in Production(e) : c.jwt \in Jwt(e, p)
         /\ \E p \in Production(e) : c.operatorKeys \in ApiKeysFromCsv(e.keys, p)
         /\ c.disabled \in ParseOr(e.rateLimitDisabled, FALSE)
         /\ c.alerts \in ParseLimit(e.alertsPerSec, e.alertsBurst, [perSec |-> 2, burst |-> 5])
         /\ c.location \in ParseLimit(e.locationPerSec, e.locationBurst, [perSec |-> 10, burst |-> 20])
<1>1. c.production \in Production(e)
  BY DEF FromLookup
<1>2. \E p \in Production(e) : c.jwt \in Jwt(e, p)
  BY DEF FromLookup
<1>3. \E p \in Production(e) : c.operatorKeys \in ApiKeysFromCsv(e.keys, p)
  BY DEF FromLookup
<1>4. c.disabled \in ParseOr(e.rateLimitDisabled, FALSE)
  BY DEF FromLookup
<1>5. c.alerts \in ParseLimit(e.alertsPerSec, e.alertsBurst, [perSec |-> 2, burst |-> 5])
  BY DEF FromLookup
<1>6. c.location \in ParseLimit(e.locationPerSec, e.locationBurst, [perSec |-> 10, burst |-> 20])
  BY DEF FromLookup
<1>. QED  BY <1>1, <1>2, <1>3, <1>4, <1>5, <1>6, Zenon

LEMMA ConfigNumbers ==
  ASSUME NEW e \in Envs, NEW c \in FromLookup(e)
  PROVE  /\ c.tokenTtlHours \in Nat \ {0} /\ c.deviceRetentionDays \in Nat \ {0}
         /\ \A g \in Groups : LimitOf(c, g).burst \in Nat \ {0} /\ LimitOf(c, g).perSec \in 1..1000
         /\ \A f \in FromLookup(e), g \in Groups : LimitOf(f, g) = LimitOf(c, g)
<1>1. /\ IsNumber(e.tokenTtlHours) /\ IsNumber(e.deviceRetentionDays)
      /\ IsNumber(e.alertsPerSec) /\ IsNumber(e.alertsBurst)
      /\ IsNumber(e.locationPerSec) /\ IsNumber(e.locationBurst)
  BY EnvAssumption
<1>2. c.tokenTtlHours \in Nat \ {0}
  <2>1. c.tokenTtlHours \in ParseOr(e.tokenTtlHours, 720) /\ c.tokenTtlHours >= 1
    <3>1. c.tokenTtlHours \in AtLeast(1, ParseOr(e.tokenTtlHours, 720))
      BY DEF FromLookup
    <3>. QED  BY <3>1 DEF AtLeast
  <2>2. c.tokenTtlHours \in Int
    BY <1>1, <2>1, ParsedNumber
  <2>. QED  BY <2>1, <2>2
<1>3. c.deviceRetentionDays \in Nat \ {0}
  <2>1. c.deviceRetentionDays \in ParseOr(e.deviceRetentionDays, 90) /\ c.deviceRetentionDays >= 1
    <3>1. c.deviceRetentionDays \in AtLeast(1, ParseOr(e.deviceRetentionDays, 90))
      BY DEF FromLookup
    <3>. QED  BY <3>1 DEF AtLeast
  <2>2. c.deviceRetentionDays \in Int
    BY <1>1, <2>1, ParsedNumber
  <2>. QED  BY <2>1, <2>2
<1>4. /\ c.alerts.perSec \in 1..1000 /\ c.alerts.burst \in Nat \ {0}
      /\ \A f \in FromLookup(e) : f.alerts = c.alerts
  <2>. DEFINE default == [perSec |-> 2, burst |-> 5]
  <2>1. default.perSec \in Int /\ default.burst \in Int
    OBVIOUS
  <2>2. \A f \in FromLookup(e) : f.alerts \in ParseLimit(e.alertsPerSec, e.alertsBurst, default)
    BY ConfigParts
  <2>. HIDE DEF default
  <2>. QED  BY <1>1, <2>1, <2>2, LimitParsed
<1>5. /\ c.location.perSec \in 1..1000 /\ c.location.burst \in Nat \ {0}
      /\ \A f \in FromLookup(e) : f.location = c.location
  <2>. DEFINE default == [perSec |-> 10, burst |-> 20]
  <2>1. default.perSec \in Int /\ default.burst \in Int
    OBVIOUS
  <2>2. \A f \in FromLookup(e) : f.location \in ParseLimit(e.locationPerSec, e.locationBurst, default)
    BY ConfigParts
  <2>. HIDE DEF default
  <2>. QED  BY <1>1, <2>1, <2>2, LimitParsed
<1>. QED  BY <1>2, <1>3, <1>4, <1>5 DEF LimitOf

(* In production only strong secrets are accepted *)
LEMMA ProductionIsStrict ==
  ASSUME NEW e, NEW c \in FromLookup(e), c.production
  PROVE  /\ c.operatorKeys # {}
         /\ \A k \in c.operatorKeys : k.secret = "strong"
         /\ c.jwt = "HS256" => e.secret = "strong"
<1>1. \A p \in Production(e) : p
  <2>1. c.production \in Production(e)
    BY ConfigParts
  <2>. QED  BY <2>1 DEF Production
<1>2. PICK p \in Production(e) : c.operatorKeys \in ApiKeysFromCsv(e.keys, p)
  BY ConfigParts
<1>3. c.operatorKeys # {} /\ \A k \in c.operatorKeys : k.secret = "strong"
  BY <1>1, <1>2 DEF ApiKeysFromCsv, ValidSecret
<1>4. PICK q \in Production(e) : c.jwt \in Jwt(e, q)
  BY ConfigParts
<1>5. c.jwt = "HS256" => e.secret = "strong"
  BY <1>1, <1>4 DEF Jwt, ValidSecret
<1>. QED  BY <1>3, <1>5

-----------------------------------------------------------------------------
(* What the loop of parse_prefixes computes *)

NoItem == ""

Rounds(out, list) ==
  out = [i \in 0..Len(list) |->
           IF i = 0 THEN <<>>
           ELSE IF list[i] = NoItem \/ list[i] \in ToSet(out[i - 1]) THEN out[i - 1]
           ELSE Append(out[i - 1], list[i])]

FirstAt(list, p) == Min({i \in DOMAIN list : list[i] = p})

LEMMA RoundsExist ==
  ASSUME NEW Names, NEW list \in Seq(Names)
  PROVE  \E out : Rounds(out, list)
<1>. DEFINE n == Len(list)
            S == Seq(Names)
            base == <<>>
            step == [i \in 1..n |-> [o \in S |->
                       IF list[i] = NoItem \/ list[i] \in ToSet(o) THEN o ELSE Append(o, list[i])]]
<1>1. n \in Nat /\ base \in S
  OBVIOUS
<1>2. step \in [1..n -> [S -> S]]
  <2>1. \A i \in 1..n, o \in S : Append(o, list[i]) \in S
    OBVIOUS
  <2>. QED  BY <2>1
<1>3. \A i \in 1..n, o \in S :
        step[i][o] = IF list[i] = NoItem \/ list[i] \in ToSet(o) THEN o ELSE Append(o, list[i])
  OBVIOUS
<1>. HIDE DEF step, S, base, n
<1>4. PICK out : Loops(out, S, base, step, n)
  BY <1>1, <1>2, Iterates
<1>5. ASSUME NEW i \in 0..n
      PROVE  out[i] = IF i = 0 THEN <<>>
                      ELSE IF list[i] = NoItem \/ list[i] \in ToSet(out[i - 1]) THEN out[i - 1]
                      ELSE Append(out[i - 1], list[i])
  <2>1. CASE i = 0
    BY <1>4, <2>1 DEF Loops, base
  <2>2. CASE i # 0
    <3>1. i \in 1..n /\ i - 1 \in 0..n /\ out[i - 1] \in S
      BY <1>1, <1>4, <2>2 DEF Loops
    <3>2. out[i] = step[i][out[i - 1]]
      BY <1>4, <3>1 DEF Loops
    <3>. QED  BY <1>3, <2>2, <3>1, <3>2
  <2>. QED  BY <2>1, <2>2
<1>6. Rounds(out, list)
  <2>1. out \in [0..n -> S]
    BY <1>4 DEF Loops
  <2>. QED  BY <1>5, <2>1 DEF Rounds, n
<1>. QED  BY <1>6

LEMMA ParsedInRounds ==
  ASSUME NEW Names, NEW list \in Seq(Names), NEW owned \in ParsePrefixes(list)
  PROVE  \E out : Rounds(out, list) /\ owned = out[Len(list)] /\ owned # <<>>
<1>. DEFINE out == CHOOSE f : Rounds(f, list)
<1>1. Rounds(out, list)
  BY RoundsExist, Zenon
<1>2. owned = out[Len(list)] /\ owned # <<>>
  BY DEF ParsePrefixes, Rounds, NoItem
<1>. QED  BY <1>1, <1>2

LEMMA RoundIs ==
  ASSUME NEW Names, NEW list \in Seq(Names), NEW out, Rounds(out, list), NEW k \in Nat, k < Len(list)
  PROVE  /\ out[0] = <<>>
         /\ list[k + 1] = NoItem \/ list[k + 1] \in ToSet(out[k]) => out[k + 1] = out[k]
         /\ list[k + 1] # NoItem /\ list[k + 1] \notin ToSet(out[k]) =>
              out[k + 1] = Append(out[k], list[k + 1])
<1>1. 0 \in 0..Len(list) /\ k + 1 \in 0..Len(list) /\ k + 1 # 0 /\ (k + 1) - 1 = k
  OBVIOUS
<1>2. \A i \in 0..Len(list) :
        out[i] = IF i = 0 THEN <<>>
                 ELSE IF list[i] = NoItem \/ list[i] \in ToSet(out[i - 1]) THEN out[i - 1]
                 ELSE Append(out[i - 1], list[i])
  BY DEF Rounds
<1>3. out[0] = <<>>
  BY <1>1, <1>2
<1>4. out[k + 1] = IF list[k + 1] = NoItem \/ list[k + 1] \in ToSet(out[k]) THEN out[k]
                   ELSE Append(out[k], list[k + 1])
  BY <1>1, <1>2
<1>. QED  BY <1>3, <1>4

LEMMA FirstIs ==
  ASSUME NEW Names, NEW list \in Seq(Names), NEW n \in DOMAIN list, \A j \in 1..(n - 1) : list[j] # list[n]
  PROVE  FirstAt(list, list[n]) = n
<1>. DEFINE S == {i \in DOMAIN list : list[i] = list[n]}
<1>1. n \in S /\ \A i \in S : n <= i
  OBVIOUS
<1>2. \A i \in S : i \in Int
  OBVIOUS
<1>. HIDE DEF S
<1>3. \A i \in S : (\A j \in S : i <= j) => i = n
  BY <1>1, <1>2
<1>4. Min(S) = n
  BY <1>1, <1>3 DEF Min
<1>. QED  BY <1>4 DEF S, FirstAt

(* After k rounds: the first k items, each once and in their order *)
Taken(Names, list, k, o) ==
  /\ o \in Seq(Names)
  /\ ToSet(o) = {list[j] : j \in 1..k} \ {NoItem}
  /\ \A i \in DOMAIN o : FirstAt(list, o[i]) \in 1..k
  /\ \A i, j \in DOMAIN o : i < j => FirstAt(list, o[i]) < FirstAt(list, o[j])

LEMMA TakeNone ==
  ASSUME NEW Names, NEW list \in Seq(Names)
  PROVE  Taken(Names, list, 0, <<>>)
BY DEF Taken, ToSet

LEMMA TakeOne ==
  ASSUME NEW Names, NEW list \in Seq(Names), NEW k \in Nat, k < Len(list), NEW o, Taken(Names, list, k, o),
         list[k + 1] # NoItem, list[k + 1] \notin ToSet(o)
  PROVE  Taken(Names, list, k + 1, Append(o, list[k + 1]))
<1>. DEFINE p == list[k + 1]
            n == Len(o)
            a == Append(o, p)
<1>1. k \in Nat /\ k + 1 \in DOMAIN list /\ p \in Names /\ o \in Seq(Names) /\ n \in Nat
  BY DEF Taken
<1>2. /\ a \in Seq(Names) /\ DOMAIN a = 1..(n + 1) /\ DOMAIN o = 1..n
      /\ a[n + 1] = p /\ \A i \in 1..n : a[i] = o[i]
  BY <1>1
<1>3. FirstAt(list, p) = k + 1
  <2>1. \A j \in 1..((k + 1) - 1) : list[j] # p
    BY <1>1 DEF Taken
  <2>. QED  BY <1>1, <2>1, FirstIs
<1>4. \A i \in 1..n : FirstAt(list, a[i]) \in 1..k
  BY <1>2 DEF Taken
<1>5. \A i, j \in 1..n : i < j => FirstAt(list, a[i]) < FirstAt(list, a[j])
  BY <1>2 DEF Taken
<1>6. ToSet(a) = ToSet(o) \cup {p}
  BY <1>1, <1>2 DEF ToSet
<1>7. {list[j] : j \in 1..(k + 1)} = {list[j] : j \in 1..k} \cup {p}
  BY <1>1
<1>. HIDE DEF p, n, a
<1>8. ToSet(a) = {list[j] : j \in 1..(k + 1)} \ {NoItem}
  <2>1. p # NoItem /\ ToSet(o) = {list[j] : j \in 1..k} \ {NoItem}
    BY DEF p, Taken
  <2>. QED  BY <1>6, <1>7, <2>1
<1>9. ASSUME NEW i \in 1..(n + 1)
      PROVE  FirstAt(list, a[i]) \in 1..(k + 1)
  <2>1. CASE i = n + 1
    BY <1>1, <1>2, <1>3, <2>1
  <2>2. CASE i \in 1..n
    BY <1>1, <1>4, <2>2
  <2>. QED  BY <1>1, <2>1, <2>2
<1>10. ASSUME NEW i \in 1..(n + 1), NEW j \in 1..(n + 1), i < j
       PROVE  FirstAt(list, a[i]) < FirstAt(list, a[j])
  <2>1. i \in 1..n
    BY <1>1, <1>10
  <2>2. CASE j = n + 1
    <3>1. FirstAt(list, a[j]) = k + 1 /\ FirstAt(list, a[i]) \in 1..k
      BY <1>2, <1>3, <1>4, <2>1, <2>2
    <3>. QED  BY <1>1, <3>1
  <2>3. CASE j \in 1..n
    BY <1>5, <1>10, <2>1, <2>3
  <2>. QED  BY <1>1, <2>2, <2>3
<1>11. Taken(Names, list, k + 1, a)
  BY <1>2, <1>8, <1>9, <1>10 DEF Taken
<1>. QED  BY <1>11 DEF a, p

LEMMA TakeAgain ==
  ASSUME NEW Names, NEW list \in Seq(Names), NEW k \in Nat, k < Len(list), NEW o, Taken(Names, list, k, o),
         list[k + 1] = NoItem \/ list[k + 1] \in ToSet(o)
  PROVE  Taken(Names, list, k + 1, o)
<1>1. k \in Nat /\ {list[j] : j \in 1..(k + 1)} = {list[j] : j \in 1..k} \cup {list[k + 1]}
  OBVIOUS
<1>2. ToSet(o) = {list[j] : j \in 1..k} \ {NoItem}
  BY DEF Taken
<1>3. ToSet(o) = {list[j] : j \in 1..(k + 1)} \ {NoItem}
  BY <1>1, <1>2
<1>4. 1..k \subseteq 1..(k + 1)
  BY <1>1
<1>. QED  BY <1>3, <1>4 DEF Taken

LEMMA RoundsTake ==
  ASSUME NEW Names, NEW list \in Seq(Names), NEW out, Rounds(out, list)
  PROVE  Taken(Names, list, Len(list), out[Len(list)])
<1>. DEFINE n == Len(list)
            N == {k \in Nat : k <= n => Taken(Names, list, k, out[k])}
<1>1. n \in Nat
  OBVIOUS
<1>2. 0 \in N
  <2>1. out[0] = <<>>
    BY DEF Rounds
  <2>. QED  BY <2>1, TakeNone
<1>3. ASSUME NEW k \in Nat, k \in N PROVE k + 1 \in N
  <2>. SUFFICES ASSUME k + 1 <= n PROVE Taken(Names, list, k + 1, out[k + 1])
    OBVIOUS
  <2>1. k < Len(list) /\ Taken(Names, list, k, out[k])
    BY <1>1, <1>3
  <2>2. CASE list[k + 1] = NoItem \/ list[k + 1] \in ToSet(out[k])
    <3>1. out[k + 1] = out[k]
      BY <2>1, <2>2, RoundIs
    <3>. QED  BY <2>1, <2>2, <3>1, TakeAgain
  <2>3. CASE list[k + 1] # NoItem /\ list[k + 1] \notin ToSet(out[k])
    <3>1. out[k + 1] = Append(out[k], list[k + 1])
      BY <2>1, <2>3, RoundIs
    <3>. QED  BY <2>1, <2>3, <3>1, TakeOne
  <2>. QED  BY <2>2, <2>3
<1>4. n \in N
  <2>. HIDE DEF N
  <2>. QED  BY <1>1, <1>2, <1>3, NumbersInduction
<1>. QED  BY <1>1, <1>4

-----------------------------------------------------------------------------
(* The coordinator runs with a configuration that was accepted *)

EnvInv == Running => env \in Envs /\ FromLookup(env) # {}

LEMMA ConfigIsAccepted ==
  ASSUME EnvInv, Running
  PROVE  env \in Envs /\ Config \in FromLookup(env)
BY DEF EnvInv, Config

LEMMA EnvHolds == Spec => []EnvInv
<1>1. Init => EnvInv
  BY DEF Init, EnvInv, Running
<1>2. ASSUME EnvInv, [Next]_vars
      PROVE  EnvInv'
  <2>1. ASSUME NEW e \in Envs, Start(e)
        PROVE  EnvInv'
    BY <2>1 DEF Start, EnvInv, Running
  <2>2. CASE Stop
    BY <2>2 DEF Stop, EnvInv, Running
  <2>3. CASE env' = env
    BY <1>2, <2>3 DEF EnvInv, Running
  <2>4. (\E e \in Envs : Start(e)) \/ Stop \/ env' = env
    <3>1. CASE ProcessNext
      BY <3>1 DEF ProcessNext, StartWorker, StopWorker
    <3>2. CASE DeviceNext
      BY <3>2 DEF DeviceNext, Register, Seen, Ticket, Revoke, Delete, SweepSelect, SweepDelete, Tick
    <3>3. CASE RequestNext
      BY <3>3 DEF RequestNext, Refill, Request, Respond
    <3>4. CASE UNCHANGED vars
      BY <3>4 DEF vars
    <3>. QED  BY <1>2, <3>1, <3>2, <3>3, <3>4 DEF Next
  <2>. QED  BY <2>1, <2>2, <2>3, <2>4
<1>. QED  BY <1>1, <1>2, PTL DEF Spec

LEMMA CoordinatorStarts ==
  ASSUME EnvInv
  PROVE  CoordinatorSettings
<1>. SUFFICES ASSUME Running PROVE CoordinatorSettings
  BY DEF CoordinatorSettings
<1>1. env \in Envs /\ Config \in FromLookup(env)
  BY ConfigIsAccepted
<1>. DEFINE c == Config
<1>. HIDE DEF c
<1>2. c \in FromLookup(env)
  BY <1>1 DEF c
<1>3. c.production =>
        /\ c.operatorKeys # {}
        /\ \A k \in c.operatorKeys : k.secret = "strong"
        /\ c.jwt = "HS256" => env.secret = "strong"
  BY <1>2, ProductionIsStrict
<1>4. ASSUME NEW g \in Groups
      PROVE  RateIsKept(LimitOf(c, g).perSec)
  <2>1. LimitOf(c, g).perSec \in 1..1000
    BY <1>1, <1>2, ConfigNumbers
  <2>. QED  BY <2>1, RatesAreGranted
<1>. QED  BY <1>3, <1>4, Zenon DEF CoordinatorSettings, c

(* A worker runs with an environment it was started with *)
WorkerEnvInv == workerEnv # NotRunning => workerEnv \in WorkerEnvs

LEMMA WorkerEnvHolds == Spec => []WorkerEnvInv
<1>1. Init => WorkerEnvInv
  BY DEF Init, WorkerEnvInv
<1>2. ASSUME WorkerEnvInv, [Next]_vars
      PROVE  WorkerEnvInv'
  <2>1. \/ \E e \in WorkerEnvs : StartWorker(e)
        \/ StopWorker
        \/ workerEnv' = workerEnv
    <3>1. CASE ProcessNext
      BY <3>1 DEF ProcessNext, Start, Stop
    <3>2. CASE DeviceNext
      BY <3>2 DEF DeviceNext, Register, Seen, Ticket, Revoke, Delete, SweepSelect, SweepDelete, Tick
    <3>3. CASE RequestNext
      BY <3>3 DEF RequestNext, Refill, Request, Respond
    <3>4. CASE UNCHANGED vars
      BY <3>4 DEF vars
    <3>. QED  BY <1>2, <3>1, <3>2, <3>3, <3>4 DEF Next
  <2>. QED  BY <1>2, <2>1 DEF StartWorker, StopWorker, WorkerEnvInv
<1>. QED  BY <1>1, <1>2, PTL DEF Spec

LEMMA WorkerStarts ==
  ASSUME WorkerEnvInv
  PROVE  WorkerSettings
<1>. SUFFICES ASSUME workerEnv # NotRunning, NEW c \in WorkerFromLookup(workerEnv)
              PROVE  LET listed == workerEnv.prefixes
                         first(p) == Min({i \in DOMAIN listed : listed[i] = p})
                     IN  /\ 3 * RefreshEverySecs(c) <= c.leaseTtlSecs
                         /\ ToSet(c.ownedPrefixes) = ToSet(listed) \ {""} /\ c.ownedPrefixes # <<>>
                         /\ \A i, j \in DOMAIN c.ownedPrefixes :
                              i < j => first(c.ownedPrefixes[i]) < first(c.ownedPrefixes[j])
  BY DEF WorkerSettings
<1>. DEFINE list == workerEnv.prefixes
            owned == c.ownedPrefixes
<1>1. list \in Seq(STRING) /\ IsNumber(workerEnv.leaseTtlSecs)
  BY WorkerEnvAssumption DEF WorkerEnvInv
<1>2. owned \in ParsePrefixes(list)
  BY DEF WorkerFromLookup
<1>3. c.leaseTtlSecs \in AtLeast(3, ParseOr(workerEnv.leaseTtlSecs, 30))
  BY DEF WorkerFromLookup
<1>4. 3 * RefreshEverySecs(c) <= c.leaseTtlSecs
  <2>. DEFINE ttl == c.leaseTtlSecs
  <2>1. ttl \in ParseOr(workerEnv.leaseTtlSecs, 30) /\ ttl >= 3
    BY <1>3 DEF AtLeast
  <2>2. ttl \in Int
    BY <1>1, <2>1, ParsedNumber
  <2>. HIDE DEF ttl
  <2>3. ttl \in Nat
    BY <2>1, <2>2
  <2>4. ttl \div 3 \in Nat /\ (ttl \div 3) * 3 <= ttl
    BY <2>3, DivFacts
  <2>5. RefreshEverySecs(c) = IF ttl \div 3 < 1 THEN 1 ELSE ttl \div 3
    BY DEF RefreshEverySecs, ttl
  <2>6. 3 * RefreshEverySecs(c) <= ttl
    BY <2>1, <2>3, <2>4, <2>5
  <2>. QED  BY <2>6 DEF ttl
<1>. HIDE DEF list, owned
<1>5. PICK out : Rounds(out, list) /\ owned = out[Len(list)] /\ owned # <<>>
  BY <1>1, <1>2, ParsedInRounds
<1>6. Taken(STRING, list, Len(list), owned)
  BY <1>1, <1>5, RoundsTake
<1>7. ToSet(owned) = ToSet(list) \ {""}
  <2>1. ToSet(list) = {list[j] : j \in 1..Len(list)}
    BY <1>1 DEF ToSet
  <2>. QED  BY <1>6, <2>1 DEF Taken, NoItem
<1>8. \A i, j \in DOMAIN owned : i < j => FirstAt(list, owned[i]) < FirstAt(list, owned[j])
  BY <1>6 DEF Taken
<1>. QED  BY <1>4, <1>5, <1>7, <1>8, Zenon DEF FirstAt, list, owned

(* Config::from_lookup of the coordinator and of a worker, for any          *)
(* environment.  What the coordinator accepts has strong keys in            *)
(* production, and refill_period_ms grants no less than its rates; what a   *)
(* worker accepts names each of its prefixes once, in the order of the      *)
(* list, however long that is, and its lease lasts for three pauses of the  *)
(* refresher.                                                               *)
THEOREM SettingsAlwaysHold == Spec => []SettingsHold
<1>1. EnvInv /\ WorkerEnvInv => SettingsHold
  BY CoordinatorStarts, WorkerStarts DEF SettingsHold
<1>. QED  BY <1>1, EnvHolds, WorkerEnvHolds, PTL

-----------------------------------------------------------------------------
(* Lifetimes *)

(* A token has no more left than it was issued with; what is counted down   *)
(* is a number                                                              *)
LifetimeType ==
  /\ token = NoToken \/
       /\ DOMAIN token = {"algorithm", "hours", "left"}
       /\ token.hours \in Nat /\ token.left \in Int /\ token.left <= Ticks(token.hours)
  /\ revoked \in Nat /\ record \in Nat /\ kept \in Nat
  /\ row = NoRow \/ row \in Nat

(* A revocation that was made for the token outlives it *)
RevocationOutlives ==
  banned => token # NoToken /\ (token.left < 0 \/ token.left < revoked)

(* The record of a device that is there lasts from its row's age on to the  *)
(* day after the retention it was written for                               *)
RecordOutlives ==
  (kept > 0 /\ row # NoRow) => Ticks((kept + 1) * 24) <= record + row

DeviceInv == LifetimeType /\ RevocationOutlives /\ RecordOutlives

LEMMA DeviceInit == Init => DeviceInv
BY DEF Init, DeviceInv, LifetimeType, RevocationOutlives, RecordOutlives

LEMMA DeviceUnchanged ==
  ASSUME DeviceInv, UNCHANGED deviceVars
  PROVE  DeviceInv'
BY DEF deviceVars, DeviceInv, LifetimeType, RevocationOutlives, RecordOutlives

(* The numbers a running coordinator works with *)
LEMMA RunningNumbers ==
  ASSUME EnvInv, Running
  PROVE  /\ Config.tokenTtlHours \in Nat \ {0} /\ Config.deviceRetentionDays \in Nat \ {0}
         /\ Ticks(Config.tokenTtlHours) \in Nat
         /\ Ticks(RevocationTtlHours(Config)) \in Nat
         /\ \A h \in Nat : h <= Config.tokenTtlHours => Ticks(h) < Ticks(RevocationTtlHours(Config))
         /\ LocationTtlHours(Config) = (Config.deviceRetentionDays + 1) * 24
         /\ Ticks(LocationTtlHours(Config)) \in Nat
<1>. DEFINE c == Config
<1>1. c.tokenTtlHours \in Nat \ {0} /\ c.deviceRetentionDays \in Nat \ {0}
  <2>. HIDE DEF c
  <2>1. env \in Envs /\ c \in FromLookup(env)
    BY ConfigIsAccepted DEF c
  <2>. QED  BY <2>1, ConfigNumbers
<1>. HIDE DEF c
<1>2. Ticks(c.tokenTtlHours) \in Nat
  BY <1>1, TicksGrow
<1>3. c.tokenTtlHours + 24 \in Nat /\ (c.deviceRetentionDays + 1) * 24 \in Nat
  BY <1>1
<1>4. Ticks(c.tokenTtlHours + 24) \in Nat /\ Ticks((c.deviceRetentionDays + 1) * 24) \in Nat
  BY <1>3, TicksGrow
<1>5. \A h \in Nat : h <= c.tokenTtlHours => Ticks(h) < Ticks(c.tokenTtlHours + 24)
  BY <1>1, TicksGrow
<1>. QED  BY <1>1, <1>2, <1>4, <1>5 DEF c, RevocationTtlHours, LocationTtlHours

LEMMA DeviceRegister ==
  ASSUME DeviceInv, EnvInv, Register
  PROVE  DeviceInv'
<1>. DEFINE t == [algorithm |-> Config.jwt, hours |-> Config.tokenTtlHours,
                  left |-> Ticks(Config.tokenTtlHours)]
<1>1. Running /\ token = NoToken /\ token' = t /\ row' = 0
      /\ record' = Ticks(LocationTtlHours(Config)) /\ kept' = Config.deviceRetentionDays
      /\ revoked' = revoked /\ banned' = banned
  BY DEF Register, PublishLocation
<1>2. /\ DOMAIN t = {"algorithm", "hours", "left"}
      /\ t.hours = Config.tokenTtlHours /\ t.left = Ticks(Config.tokenTtlHours)
  OBVIOUS
<1>. HIDE DEF t
<1>3. LifetimeType'
  BY <1>1, <1>2, RunningNumbers DEF DeviceInv, LifetimeType
<1>4. RevocationOutlives'
  BY <1>1 DEF DeviceInv, RevocationOutlives
<1>5. RecordOutlives'
  BY <1>1, RunningNumbers DEF RecordOutlives
<1>. QED  BY <1>3, <1>4, <1>5 DEF DeviceInv

LEMMA DeviceSeen ==
  ASSUME DeviceInv, EnvInv, Seen \/ Ticket
  PROVE  DeviceInv'
<1>1. /\ Running /\ row # NoRow /\ row' \in {0, row}
      /\ \/ record' = Ticks(LocationTtlHours(Config)) /\ kept' = Config.deviceRetentionDays
         \/ record' = record /\ kept' = 0
      /\ UNCHANGED <<token, revoked, banned>>
  BY DEF Seen, Ticket, Authorized, PublishLocation, PublishFails
<1>2. row \in Nat /\ row' \in Nat
  BY <1>1 DEF DeviceInv, LifetimeType
<1>3. LifetimeType' /\ RevocationOutlives'
  BY <1>1, <1>2, RunningNumbers DEF DeviceInv, LifetimeType, RevocationOutlives
<1>4. RecordOutlives'
  BY <1>1, <1>2, RunningNumbers DEF RecordOutlives
<1>. QED  BY <1>3, <1>4 DEF DeviceInv

LEMMA DeviceRevoke ==
  ASSUME DeviceInv, EnvInv, Revoke \/ Delete
  PROVE  DeviceInv'
<1>1. /\ Running /\ token' = token /\ kept' = kept
      /\ revoked' = Ticks(RevocationTtlHours(Config))
      /\ banned' = (token # NoToken /\ token.hours <= Config.tokenTtlHours)
      /\ \/ row' = row /\ record' = record
         \/ row' = NoRow /\ record' \in {0, record}
  BY DEF Revoke, Delete, PutRevocation
<1>2. LifetimeType'
  BY <1>1, RunningNumbers DEF DeviceInv, LifetimeType
<1>3. RevocationOutlives'
  <2>. SUFFICES ASSUME token # NoToken, token.hours <= Config.tokenTtlHours
                PROVE  token.left < revoked'
    BY <1>1 DEF RevocationOutlives
  <2>1. token.hours \in Nat /\ token.left \in Int /\ token.left <= Ticks(token.hours)
    BY DEF DeviceInv, LifetimeType
  <2>2. Ticks(token.hours) \in Nat
    BY <2>1, TicksGrow
  <2>3. Ticks(token.hours) < revoked' /\ revoked' \in Nat
    BY <1>1, <2>1, RunningNumbers
  <2>. QED  BY <2>1, <2>2, <2>3
<1>4. RecordOutlives'
  BY <1>1 DEF DeviceInv, RecordOutlives
<1>. QED  BY <1>2, <1>3, <1>4 DEF DeviceInv

LEMMA DeviceSweep ==
  ASSUME DeviceInv, SweepSelect \/ SweepDelete
  PROVE  DeviceInv'
BY DEF SweepSelect, SweepDelete, DeviceInv, LifetimeType, RevocationOutlives, RecordOutlives

LEMMA DeviceTick ==
  ASSUME DeviceInv, Tick
  PROVE  DeviceInv'
<1>. DEFINE t == [token EXCEPT !.left = Less(@, -1)]
<1>1. /\ token # NoToken /\ token' = t
      /\ revoked' = Less(revoked, 0) /\ record' = Less(record, 0)
      /\ row' = IF row = NoRow THEN NoRow ELSE row + 1
      /\ kept' = kept /\ banned' = banned
  BY DEF Tick
<1>2. /\ DOMAIN token = {"algorithm", "hours", "left"}
      /\ token.hours \in Nat /\ token.left \in Int /\ token.left <= Ticks(token.hours)
      /\ Ticks(token.hours) \in Nat
  BY <1>1, TicksGrow DEF DeviceInv, LifetimeType
<1>3. /\ DOMAIN t = {"algorithm", "hours", "left"}
      /\ t.hours = token.hours /\ t.left = Less(token.left, -1)
  BY <1>2
<1>4. t # NoToken
  BY <1>3 DEF NoToken
<1>. HIDE DEF t
<1>5. t.left \in Int /\ t.left <= token.left /\ (token.left < 0 => t.left < 0)
      /\ (token.left >= 0 => t.left = token.left - 1)
  BY <1>2, <1>3 DEF Less
<1>6. LifetimeType'
  BY <1>1, <1>2, <1>3, <1>5 DEF DeviceInv, LifetimeType, Less, NoRow
<1>7. RevocationOutlives'
  BY <1>1, <1>2, <1>4, <1>5 DEF DeviceInv, LifetimeType, RevocationOutlives, Less
<1>8. RecordOutlives'
  <2>. SUFFICES ASSUME kept > 0, row # NoRow
                PROVE  Ticks((kept + 1) * 24) <= record' + row'
    BY <1>1 DEF RecordOutlives
  <2>1. row \in Nat /\ record \in Nat /\ kept \in Nat /\ (kept + 1) * 24 \in Nat
    BY DEF DeviceInv, LifetimeType
  <2>2. Ticks((kept + 1) * 24) \in Nat /\ Ticks((kept + 1) * 24) <= record + row
    BY <2>1, TicksGrow DEF DeviceInv, RecordOutlives
  <2>3. record' + row' >= record + row
    BY <1>1, <2>1 DEF Less
  <2>. QED  BY <1>1, <2>1, <2>2, <2>3 DEF Less
<1>. QED  BY <1>6, <1>7, <1>8 DEF DeviceInv

LEMMA DeviceHolds == Spec => []DeviceInv
<1>1. ASSUME DeviceInv, EnvInv, [Next]_vars
      PROVE  DeviceInv'
  <2>1. CASE ProcessNext
    BY <1>1, <2>1, DeviceUnchanged DEF ProcessNext, Start, Stop, StartWorker, StopWorker
  <2>2. CASE DeviceNext
    BY <1>1, <2>2, DeviceRegister, DeviceSeen, DeviceRevoke, DeviceSweep, DeviceTick DEF DeviceNext
  <2>3. CASE RequestNext
    BY <1>1, <2>3, DeviceUnchanged DEF RequestNext, Refill, Request, Respond
  <2>4. CASE UNCHANGED vars
    BY <1>1, <2>4, DeviceUnchanged DEF vars, deviceVars
  <2>. QED  BY <1>1, <2>1, <2>2, <2>3, <2>4 DEF Next
<1>. QED  BY <1>1, DeviceInit, EnvHolds, PTL DEF Spec

(* revocation_ttl_secs outlives every token it is made for, for any         *)
(* lifetime and any series of restarts: AuthDevice never lets the device    *)
(* in again, for the token is over before the revocation is.                *)
THEOREM RevokedNeverReturns == Spec => []RevokedStaysOut
<1>1. DeviceInv => RevokedStaysOut
  BY DEF DeviceInv, LifetimeType, RevocationOutlives, RevokedStaysOut, Authorized, Verified
<1>. QED  BY <1>1, DeviceHolds, PTL

(* location_ttl_secs outlives the row it is written for, for any retention  *)
(* and any series of heartbeats, tickets and restarts: a device that        *)
(* purge_inactive would keep has a record a worker can check it by.         *)
THEOREM KnownStaysLocatable == Spec => []KnownIsLocatable
<1>1. ASSUME DeviceInv, EnvInv  PROVE KnownIsLocatable
  <2>. DEFINE d == Config.deviceRetentionDays
  <2>. SUFFICES ASSUME Running, row # NoRow, row <= Ticks(d * 24), kept >= d
                PROVE  record > 0
    BY DEF KnownIsLocatable
  <2>1. d \in Nat \ {0}
    BY <1>1, RunningNumbers
  <2>. HIDE DEF d
  <2>2. row \in Nat /\ record \in Nat /\ kept \in Nat
    BY <1>1 DEF DeviceInv, LifetimeType
  <2>3. d * 24 \in Nat /\ kept * 24 \in Nat /\ d * 24 <= kept * 24 /\ (kept + 1) * 24 = kept * 24 + 24
    BY <2>1, <2>2
  <2>4. Ticks(d * 24) \in Nat /\ Ticks(d * 24) < Ticks((kept + 1) * 24)
    BY <2>3, TicksGrow
  <2>5. Ticks((kept + 1) * 24) <= record + row
    BY <1>1, <2>1, <2>2 DEF DeviceInv, RecordOutlives
  <2>6. Ticks((kept + 1) * 24) \in Nat
    BY <2>3, TicksGrow
  <2>. QED  BY <2>2, <2>4, <2>5, <2>6
<1>. QED  BY <1>1, DeviceHolds, EnvHolds, PTL

-----------------------------------------------------------------------------
(* Limits *)

(* Every key that was tried took a token from the bucket *)
LimitInv ==
  /\ bucket \in [Groups -> Nat] /\ checked \in [Groups -> Nat] /\ refills \in [Groups -> Nat]
  /\ Running => \A g \in Groups : checked[g] + bucket[g] <= LimitOf(Config, g).burst + refills[g]
  /\ ~Running => \A g \in Groups : checked[g] = 0 /\ refills[g] = 0

LEMMA RunningLimits ==
  ASSUME EnvInv, Running
  PROVE  \A g \in Groups : LimitOf(Config, g).burst \in Nat \ {0}
<1>. DEFINE c == Config
<1>. HIDE DEF c
<1>1. env \in Envs /\ c \in FromLookup(env)
  BY ConfigIsAccepted DEF c
<1>2. \A g \in Groups : LimitOf(c, g).burst \in Nat \ {0}
  BY <1>1, ConfigNumbers
<1>. QED  BY <1>2 DEF c

LEMMA LimitStart ==
  ASSUME LimitInv, NEW e \in Envs, Start(e)
  PROVE  LimitInv'
<1>1. PICK c \in FromLookup(e) : bucket' = [g \in Groups |-> LimitOf(c, g).burst]
  BY DEF Start
<1>2. env' = e /\ checked' = checked /\ refills' = refills /\ ~Running
  BY DEF Start
<1>3. \A g \in Groups : LimitOf(c, g).burst \in Nat \ {0}
  BY ConfigNumbers
<1>4. PICK f : f = Config'
  OBVIOUS
<1>5. f \in FromLookup(e)
  BY <1>1, <1>2, <1>4 DEF Config
<1>6. \A g \in Groups : LimitOf(f, g) = LimitOf(c, g)
  BY <1>5, ConfigNumbers
<1>7. \A g \in Groups : LimitOf(Config, g)' = LimitOf(f, g)
  BY <1>4 DEF LimitOf
<1>8. \A g \in Groups : checked[g] = 0 /\ refills[g] = 0
  BY <1>2 DEF LimitInv
<1>9. bucket' \in [Groups -> Nat] /\ \A g \in Groups : bucket'[g] = LimitOf(c, g).burst
  BY <1>1, <1>3
<1>10. \A g \in Groups : checked'[g] + bucket'[g] <= (LimitOf(Config, g).burst)' + refills'[g]
  BY <1>2, <1>3, <1>6, <1>7, <1>8, <1>9
<1>11. checked' \in [Groups -> Nat] /\ refills' \in [Groups -> Nat]
  BY <1>2 DEF LimitInv
<1>. QED  BY <1>2, <1>8, <1>9, <1>10, <1>11 DEF LimitInv

LEMMA LimitRefill ==
  ASSUME LimitInv, EnvInv, NEW h \in Groups, Refill(h)
  PROVE  LimitInv'
<1>1. /\ Running /\ env' = env /\ checked' = checked
      /\ refills' = [refills EXCEPT ![h] = @ + 1]
      /\ bucket' = [bucket EXCEPT ![h] = IF @ < LimitOf(Config, h).burst THEN @ + 1 ELSE @]
  BY DEF Refill
<1>2. Running' /\ \A g \in Groups : LimitOf(Config, g)' = LimitOf(Config, g)
  BY <1>1 DEF Running, Config, LimitOf
<1>3. bucket' \in [Groups -> Nat] /\ checked' \in [Groups -> Nat] /\ refills' \in [Groups -> Nat]
  BY <1>1 DEF LimitInv
<1>4. ASSUME NEW g \in Groups
      PROVE  checked'[g] + bucket'[g] <= (LimitOf(Config, g).burst)' + refills'[g]
  <2>1. /\ checked[g] \in Nat /\ bucket[g] \in Nat /\ refills[g] \in Nat
        /\ checked[g] + bucket[g] <= LimitOf(Config, g).burst + refills[g]
    BY <1>1 DEF LimitInv
  <2>2. LimitOf(Config, g).burst \in Nat
    BY <1>1, RunningLimits
  <2>3. checked'[g] = checked[g]
    BY <1>1
  <2>4. CASE g = h
    <3>1. refills'[g] = refills[g] + 1 /\ bucket'[g] \in {bucket[g], bucket[g] + 1}
      BY <1>1, <2>4 DEF LimitInv
    <3>. QED  BY <1>2, <2>1, <2>2, <2>3, <3>1
  <2>5. CASE g # h
    <3>1. refills'[g] = refills[g] /\ bucket'[g] = bucket[g]
      BY <1>1, <2>5 DEF LimitInv
    <3>. QED  BY <1>2, <2>1, <2>2, <2>3, <3>1
  <2>. QED  BY <2>4, <2>5
<1>. QED  BY <1>2, <1>3, <1>4 DEF LimitInv

LEMMA LimitRequest ==
  ASSUME LimitInv, EnvInv, NEW r \in Requests, Request(r)
  PROVE  LimitInv'
<1>1. Running /\ env' = env /\ refills' = refills
  BY DEF Request
<1>2. Running' /\ \A g \in Groups : LimitOf(Config, g)' = LimitOf(Config, g)
  BY <1>1 DEF Running, Config, LimitOf
<1>3. CASE bucket' = bucket /\ checked' = checked
  BY <1>1, <1>2, <1>3 DEF LimitInv
<1>4. CASE /\ bucket[r.group] # 0
           /\ bucket' = [bucket EXCEPT ![r.group] = @ - 1]
           /\ checked' = [checked EXCEPT ![r.group] = @ + 1]
  <2>1. bucket' \in [Groups -> Nat] /\ checked' \in [Groups -> Nat] /\ refills' \in [Groups -> Nat]
    <3>1. \A g \in Groups : bucket[g] \in Nat /\ checked[g] \in Nat
      BY DEF LimitInv
    <3>2. CASE r.group \in Groups
      <4>1. bucket[r.group] - 1 \in Nat /\ checked[r.group] + 1 \in Nat
        BY <1>4, <3>1, <3>2
      <4>. QED  BY <1>1, <1>4, <3>2, <4>1 DEF LimitInv
    <3>3. CASE r.group \notin Groups
      <4>1. bucket' = bucket /\ checked' = checked
        BY <1>4, <3>3 DEF LimitInv
      <4>. QED  BY <1>1, <4>1 DEF LimitInv
    <3>. QED  BY <3>2, <3>3
  <2>2. ASSUME NEW g \in Groups
        PROVE  checked'[g] + bucket'[g] <= (LimitOf(Config, g).burst)' + refills'[g]
    <3>1. /\ checked[g] \in Nat /\ bucket[g] \in Nat /\ refills[g] \in Nat
          /\ checked[g] + bucket[g] <= LimitOf(Config, g).burst + refills[g]
      BY <1>1 DEF LimitInv
    <3>2. LimitOf(Config, g).burst \in Nat
      BY <1>1, RunningLimits
    <3>3. checked'[g] + bucket'[g] = checked[g] + bucket[g]
      BY <1>4, <3>1 DEF LimitInv
    <3>. QED  BY <1>1, <1>2, <3>1, <3>2, <3>3
  <2>. QED  BY <1>2, <2>1, <2>2 DEF LimitInv
<1>. QED  BY <1>3, <1>4 DEF Request

LEMMA LimitHolds == Spec => []LimitInv
<1>1. Init => LimitInv
  BY DEF Init, NoRequests, LimitInv, Running
<1>2. ASSUME LimitInv, EnvInv, [Next]_vars
      PROVE  LimitInv'
  <2>1. CASE Stop
    BY <2>1 DEF Stop, LimitInv, Running
  <2>2. ASSUME env' = env, bucket' = bucket, checked' = checked, refills' = refills
        PROVE  LimitInv'
    <3>1. Running' = Running /\ \A g \in Groups : LimitOf(Config, g)' = LimitOf(Config, g)
      BY <2>2 DEF Running, Config, LimitOf
    <3>. QED  BY <1>2, <2>2, <3>1 DEF LimitInv
  <2>3. CASE (\E e \in WorkerEnvs : StartWorker(e)) \/ StopWorker
    BY <2>2, <2>3 DEF StartWorker, StopWorker, requestVars
  <2>4. CASE DeviceNext
    <3>1. env' = env /\ UNCHANGED requestVars
      BY <2>4 DEF DeviceNext, Register, Seen, Ticket, Revoke, Delete, SweepSelect, SweepDelete, Tick
    <3>. QED  BY <2>2, <3>1 DEF requestVars
  <2>5. CASE Respond
    BY <2>2, <2>5 DEF Respond
  <2>6. CASE UNCHANGED vars
    BY <2>2, <2>6 DEF vars
  <2>. QED
    BY <1>2, <2>1, <2>3, <2>4, <2>5, <2>6, LimitStart, LimitRefill, LimitRequest
       DEF Next, ProcessNext, RequestNext
<1>. QED  BY <1>1, <1>2, EnvHolds, PTL DEF Spec

(* "Guessing API keys is throttled too", for every burst, rate and series   *)
(* of requests: with_limit takes a token for each key that require_operator *)
(* is asked about.                                                          *)
THEOREM GuessesStayThrottled == Spec => []GuessesAreThrottled
<1>1. ASSUME LimitInv, EnvInv  PROVE GuessesAreThrottled
  <2>. SUFFICES ASSUME Running, NEW g \in Groups
                PROVE  checked[g] <= LimitOf(Config, g).burst + refills[g]
    BY DEF GuessesAreThrottled
  <2>1. LimitOf(Config, g).burst \in Nat
    BY <1>1, RunningLimits
  <2>. QED  BY <1>1, <2>1 DEF LimitInv
<1>. QED  BY <1>1, LimitHolds, EnvHolds, PTL

-----------------------------------------------------------------------------
(* Numbers *)

LEMMA MinOfTwo ==
  ASSUME NEW a \in Int, NEW b \in Int
  PROVE  Min({a, b}) = IF a <= b THEN a ELSE b
<1>. DEFINE m == IF a <= b THEN a ELSE b
<1>1. m \in {a, b} /\ \A y \in {a, b} : m =< y
  OBVIOUS
<1>2. \A x \in {a, b} : (\A y \in {a, b} : x =< y) => x = m
  OBVIOUS
<1>. HIDE DEF m
<1>3. Min({a, b}) = m
  BY <1>1, <1>2 DEF Min
<1>. QED  BY <1>3 DEF m

LEMMA MaxOfTwo ==
  ASSUME NEW a \in Int, NEW b \in Int
  PROVE  Max({a, b}) = IF a >= b THEN a ELSE b
<1>. DEFINE m == IF a >= b THEN a ELSE b
<1>1. m \in {a, b} /\ \A y \in {a, b} : m >= y
  OBVIOUS
<1>2. \A x \in {a, b} : (\A y \in {a, b} : x >= y) => x = m
  OBVIOUS
<1>. HIDE DEF m
<1>3. Max({a, b}) = m
  BY <1>1, <1>2 DEF Max
<1>. QED  BY <1>3 DEF m

(* A square and more is at most another square only if it is itself *)
LEMMA LegIsShorter ==
  ASSUME NEW a \in Nat, NEW b \in Nat, NEW r \in Nat, a * a + b <= r * r
  PROVE  a <= r
<1>1. a * a \in Nat
  OBVIOUS
<1>2. ASSUME NEW x \in Nat, r < x
      PROVE  r * r < x * x
  <2>1. r + 1 <= x
    BY <1>2
  <2>2. (r + 1) * (r + 1) <= x * x
    BY <2>1, ProductGrows
  <2>. QED  BY <2>2
<1>. QED  BY <1>1, <1>2

-----------------------------------------------------------------------------
(* The sphere *)

LEMMA WorldIsNat == World \in Nat /\ North \in Nat
BY GridAssumption DEF World, North

LEMMA ShortIs ==
  ASSUME NEW a \in 0..World, NEW b \in 0..World
  PROVE  /\ Abs(a - b) \in 0..World
         /\ Short(a, b) = IF 2 * Abs(a - b) <= World THEN Abs(a - b) ELSE World - Abs(a - b)
         /\ Short(a, b) \in Nat
<1>1. Abs(a - b) \in Int /\ Abs(a - b) \in 0..World
  BY WorldIsNat DEF Abs
<1>2. World - Abs(a - b) \in Int
  BY <1>1, WorldIsNat
<1>3. Short(a, b) = IF Abs(a - b) <= World - Abs(a - b) THEN Abs(a - b) ELSE World - Abs(a - b)
  BY <1>1, <1>2, MinOfTwo DEF Short
<1>. QED  BY <1>1, <1>2, <1>3, WorldIsNat

LEMMA QuarterIsNat == Quarter \in Nat /\ North = 2 * Quarter
<1>. DEFINE h == CellLat \div 2
<1>1. CellLat \in Nat /\ CellLat % 2 = 0 /\ Rows \in Nat
  BY GridAssumption
<1>2. h \in Nat /\ CellLat = 2 * h
  BY <1>1
<1>. HIDE DEF h
<1>3. North = 2 * (Rows * h) /\ Rows * h \in Nat
  BY <1>1, <1>2 DEF North
<1>. DEFINE m == Rows * h
<1>. HIDE DEF m
<1>4. North = 2 * m /\ m \in Nat
  BY <1>3 DEF m
<1>. QED  BY <1>4 DEF Quarter

(* What is as large for the table is as large an angle *)
LEMMA SinGrows ==
  ASSUME NEW x \in 0..North, NEW y \in 0..North, Sin[x] <= Sin[y]
  PROVE  x <= y
<1>1. Sin[x] \in Int /\ Sin[y] \in Int
  BY SinAssumption
<1>2. y < x => Sin[y] < Sin[x]
  BY SinAssumption
<1>. QED  BY <1>1, <1>2, WorldIsNat

LEMMA CosIsNat ==
  ASSUME NEW lat \in 0..North
  PROVE  CosOf(lat) \in 0..One
<1>1. 2 * (Quarter - Abs(lat - Quarter)) \in 0..North
  BY QuarterIsNat DEF Abs
<1>. QED  BY <1>1, SinAssumption DEF CosOf, CosAt, FromEquator

LEMMA TimesIsNat ==
  ASSUME NEW a \in Nat, NEW b \in Nat
  PROVE  Times(a, b) \in Nat
<1>1. One \in Nat \ {0}
  BY SinAssumption
<1>2. a * b \in Nat
  OBVIOUS
<1>3. a * b + One - 1 \in Nat
  BY <1>1, <1>2
<1>. QED  BY <1>1, <1>3, DivFacts DEF Times

(* lat_extent_deg: the haversine of two points is no less than that of      *)
(* their latitudes, so no point of a circle is farther north or south than  *)
(* the radius                                                               *)
LEMMA LatitudesOfCircle ==
  ASSUME NEW center \in Points, NEW p \in Points, NEW radius \in 1..MaxRadius,
         InCircle(center, radius, p)
  PROVE  Abs(center.lat - p.lat) <= radius
<1>. DEFINE a == Abs(center.lat - p.lat)
            b == Short(center.lon, p.lon)
            u == Times(CosOf(center.lat), Sin[b])
            v == Times(CosOf(p.lat), Sin[b])
<1>1. /\ center.lat \in 0..North /\ p.lat \in 0..North
      /\ center.lon \in 0..World /\ p.lon \in 0..World
  BY DEF Points
<1>2. a \in 0..North /\ radius \in 0..North
  <2>1. a \in 0..North
    BY <1>1, WorldIsNat DEF Abs
  <2>. QED  BY <2>1, GridAssumption, QuarterIsNat
<1>3. b \in 0..North
  <2>1. b = (IF 2 * Abs(center.lon - p.lon) <= World THEN Abs(center.lon - p.lon)
             ELSE World - Abs(center.lon - p.lon)) /\ Abs(center.lon - p.lon) \in 0..World
    BY <1>1, ShortIs
  <2>. HIDE DEF b
  <2>. QED  BY <2>1, GridAssumption, WorldIsNat
<1>4. Sin[a] \in Nat /\ Sin[b] \in Nat /\ Sin[radius] \in Nat
  <2>. HIDE DEF a, b
  <2>. QED  BY <1>2, <1>3, SinAssumption
<1>5. u * v \in Nat
  <2>1. CosOf(center.lat) \in Nat /\ CosOf(p.lat) \in Nat
    BY <1>1, CosIsNat
  <2>. HIDE DEF b
  <2>2. u \in Nat /\ v \in Nat
    BY <1>4, <2>1, TimesIsNat
  <2>. QED  BY <2>2
<1>6. Sin[a] * Sin[a] + u * v <= Sin[radius] * Sin[radius]
  BY DEF InCircle, Within, Haversine
<1>. HIDE DEF a, b, u, v
<1>7. Sin[a] <= Sin[radius]
  <2>. DEFINE s == Sin[a]
              r == Sin[radius]
              w == u * v
  <2>1. s \in Nat /\ r \in Nat /\ w \in Nat /\ s * s + w <= r * r
    BY <1>4, <1>5, <1>6
  <2>. HIDE DEF s, r, w
  <2>2. s <= r
    BY <2>1, LegIsShorter
  <2>. QED  BY <2>2 DEF s, r
<1>8. a <= radius
  BY <1>2, <1>7, SinGrows
<1>. QED  BY <1>8 DEF a

(* The points of a circle are all there are *)
LEMMA PointsInAll ==
  ASSUME NEW center \in Points, NEW p \in Points, NEW radius \in 1..MaxRadius,
         InCircle(center, radius, p)
  PROVE  p \in PointsIn(center, radius)
<1>1. Abs(center.lat - p.lat) <= radius
  BY LatitudesOfCircle
<1>2. p.lat \in 0..North /\ center.lat \in 0..North /\ radius \in Int
  BY GridAssumption, QuarterIsNat DEF Points
<1>3. p.lat \in (center.lat - radius)..(center.lat + radius)
  BY <1>1, <1>2, WorldIsNat DEF Abs
<1>. QED  BY <1>2, <1>3 DEF PointsIn, Points

LEMMA PointsInArePoints ==
  ASSUME NEW center, NEW radius, NEW p \in PointsIn(center, radius)
  PROVE  p \in Points /\ InCircle(center, radius, p)
BY DEF PointsIn, Points

(* lon_extent_deg is an angle *)
LEMMA LonExtentIsNat ==
  ASSUME NEW lat \in 0..North, NEW radius \in 1..MaxRadius
  PROVE  LonExtent(lat, radius) \in Nat
<1>. DEFINE S == {x \in 0..Quarter : Sin[2 * x] * CosOf(lat) <= Sin[2 * radius] * One}
<1>1. S \subseteq 0..Quarter /\ S \subseteq Int
  BY QuarterIsNat
<1>2. IsFiniteSet(S)
  <2>1. IsFiniteSet(0..Quarter)
    BY QuarterIsNat, FS_Interval
  <2>. HIDE DEF S
  <2>. QED  BY <1>1, <2>1, FS_Subset
<1>3. 0 \in S
  <2>1. Sin[2 * 0] = 0
    BY SinAssumption
  <2>2. 2 * radius \in 0..North
    BY GridAssumption, QuarterIsNat
  <2>3. Sin[2 * radius] \in Nat /\ One \in Nat /\ CosOf(lat) \in Nat
    BY <2>2, SinAssumption, CosIsNat
  <2>4. Sin[2 * 0] * CosOf(lat) = 0 /\ Sin[2 * radius] * One \in Nat
    BY <2>1, <2>3
  <2>. QED  BY <2>4, QuarterIsNat
<1>. HIDE DEF S
<1>4. \E m \in S : \A x \in S : m >= x
  <2>1. PICK m \in S : \A x \in S : x <= m
    BY <1>1, <1>2, <1>3, GreatestElement
  <2>2. \A x \in S : m >= x
    BY <1>1, <2>1
  <2>. QED  BY <2>2
<1>5. Max(S) \in S
  BY <1>4, Zenon DEF Max
<1>6. LonExtent(lat, radius) = IF Sin[2 * radius] >= CosOf(lat) THEN World ELSE Max(S)
  BY DEF LonExtent, S
<1>7. Max(S) \in Nat
  <2>1. Max(S) \in 0..Quarter
    BY <1>1, <1>5
  <2>. QED  BY <2>1, QuarterIsNat
<1>. QED  BY <1>6, <1>7, WorldIsNat, Zenon

-----------------------------------------------------------------------------
(* The boxes of bounding_boxes *)

(* CircleParams and in_circle_sql select every device in a circle that      *)
(* reaches no farther east and west than lon_extent_deg, across the         *)
(* antimeridian and at the poles too: the boxes are only a filter for the   *)
(* index.                                                                   *)
THEOREM BoxesMissNobody ==
  ASSUME NEW center \in Points, NEW p \in Points, NEW radius \in 1..MaxRadius,
         InCircle(center, radius, p),
         Short(center.lon, p.lon) <= LonExtent(center.lat, radius)
  PROVE  InCircleSql(center, radius, p)
<1>. DEFINE a == Abs(center.lat - p.lat)
            b == Short(center.lon, p.lon)
            d == LonExtent(center.lat, radius)
            south == center.lat - radius
            north == center.lat + radius
            lo == center.lon - d
            hi == center.lon + d
            box(minLon, maxLon) == [minLat |-> south, maxLat |-> north, minLon |-> minLon, maxLon |-> maxLon]
            whole == [minLat |-> Max({south, 0}), maxLat |-> Min({north, North}), minLon |-> 0, maxLon |-> World]
            boxes == BoundingBoxes(center, radius)
            second == IF Len(boxes) = 2 THEN boxes[2] ELSE [minLon |-> 1, maxLon |-> 0]
<1>1. /\ center.lat \in 0..North /\ p.lat \in 0..North
      /\ center.lon \in 0..World /\ p.lon \in 0..World
  BY DEF Points
<1>2. a \in Nat /\ b \in Nat /\ d \in Nat /\ radius \in Nat
  <2>1. a \in Nat
    BY <1>1, WorldIsNat DEF Abs
  <2>2. b \in Nat
    BY <1>1, ShortIs
  <2>. QED  BY <1>1, <2>1, <2>2, LonExtentIsNat
<1>3. a <= radius /\ b <= d
  BY LatitudesOfCircle
<1>. HIDE DEF d
<1>4. south <= p.lat /\ p.lat <= north
  BY <1>1, <1>2, <1>3, WorldIsNat DEF Abs
<1>5. \/ lo <= p.lon /\ p.lon <= hi
      \/ p.lon >= lo + World
      \/ p.lon <= hi - World
  <2>1. b = IF 2 * Abs(center.lon - p.lon) <= World THEN Abs(center.lon - p.lon)
            ELSE World - Abs(center.lon - p.lon)
    BY <1>1, ShortIs
  <2>. HIDE DEF b
  <2>. QED  BY <1>1, <1>2, <1>3, <2>1, WorldIsNat DEF Abs
<1>6. /\ p.lat \in boxes[1].minLat..boxes[1].maxLat
      /\ p.lon \in boxes[1].minLon..boxes[1].maxLon \/ p.lon \in second.minLon..second.maxLon
  <2>1. CASE south <= 0 \/ north >= North \/ 2 * d >= World
    <3>1. boxes = <<whole>>
      BY <2>1 DEF BoundingBoxes, d
    <3>2. boxes[1].minLat = Max({south, 0}) /\ boxes[1].maxLat = Min({north, North})
          /\ boxes[1].minLon = 0 /\ boxes[1].maxLon = World
      BY <3>1
    <3>3. Max({south, 0}) = (IF south >= 0 THEN south ELSE 0)
          /\ Min({north, North}) = (IF north <= North THEN north ELSE North)
      BY <1>1, WorldIsNat, MaxOfTwo, MinOfTwo
    <3>4. p.lat \in boxes[1].minLat..boxes[1].maxLat
      BY <1>1, <1>4, <3>2, <3>3, WorldIsNat
    <3>5. p.lon \in boxes[1].minLon..boxes[1].maxLon
      BY <1>1, <3>2
    <3>. QED  BY <3>4, <3>5
  <2>2. CASE ~(south <= 0 \/ north >= North \/ 2 * d >= World) /\ lo <= 0
    <3>1. boxes = <<box(lo + World, World), box(0, hi)>>
      BY <2>2 DEF BoundingBoxes, d
    <3>2. /\ boxes[1].minLat = south /\ boxes[1].maxLat = north
          /\ boxes[1].minLon = lo + World /\ boxes[1].maxLon = World
          /\ second.minLon = 0 /\ second.maxLon = hi
      BY <3>1
    <3>. HIDE DEF boxes, second
    <3>. QED  BY <1>1, <1>2, <1>4, <1>5, <2>2, <3>2, WorldIsNat
  <2>3. CASE ~(south <= 0 \/ north >= North \/ 2 * d >= World) /\ ~(lo <= 0) /\ hi >= World
    <3>1. boxes = <<box(lo, World), box(0, hi - World)>>
      BY <2>3 DEF BoundingBoxes, d
    <3>2. /\ boxes[1].minLat = south /\ boxes[1].maxLat = north
          /\ boxes[1].minLon = lo /\ boxes[1].maxLon = World
          /\ second.minLon = 0 /\ second.maxLon = hi - World
      BY <3>1
    <3>. HIDE DEF boxes, second
    <3>. QED  BY <1>1, <1>2, <1>4, <1>5, <2>3, <3>2, WorldIsNat
  <2>4. CASE ~(south <= 0 \/ north >= North \/ 2 * d >= World) /\ ~(lo <= 0) /\ ~(hi >= World)
    <3>1. boxes = <<box(lo, hi)>>
      BY <2>4 DEF BoundingBoxes, d
    <3>2. /\ boxes[1].minLat = south /\ boxes[1].maxLat = north
          /\ boxes[1].minLon = lo /\ boxes[1].maxLon = hi
      BY <3>1
    <3>. HIDE DEF boxes, second
    <3>. QED  BY <1>1, <1>2, <1>4, <1>5, <2>4, <3>2, WorldIsNat
  <2>. QED  BY <2>1, <2>2, <2>3, <2>4
<1>. QED  BY <1>6 DEF InCircleSql

-----------------------------------------------------------------------------
(* The search of shard_prefixes_for_radius *)

(* A coordinate brought back into its range *)
LEMMA WrapIs ==
  ASSUME NEW n \in Nat \ {0}, NEW x \in 0..(n - 1)
  PROVE  x % n = x /\ (x + n) % n = x /\ (x + n + n) % n = x
<1>1. ASSUME NEW y \in Nat, NEW k \in 0..2, y = x + k * n
      PROVE  y % n = x
  <2>. DEFINE q == y \div n
              z == y % n
  <2>1. q \in Int /\ z \in 0..(n - 1) /\ y = q * n + z
    OBVIOUS
  <2>. HIDE DEF q, z
  <2>2. (q - k) * n = x - z
    BY <1>1, <2>1
  <2>3. CASE q - k >= 1
    <3>1. (q - k) * n >= n
      BY <2>1, <2>3
    <3>. QED  BY <2>1, <2>2, <3>1
  <2>4. CASE q - k <= -1
    <3>1. (k - q) * n >= n
      BY <2>1, <2>4
    <3>2. (k - q) * n = z - x
      BY <2>1, <2>2
    <3>. QED  BY <2>1, <3>1, <3>2
  <2>5. CASE q - k = 0
    BY <2>1, <2>2, <2>5 DEF z
  <2>. QED  BY <2>1, <2>3, <2>4, <2>5
<1>2. x = x + 0 * n /\ x + n = x + 1 * n /\ x + n + n = x + 2 * n
  OBVIOUS
<1>. QED  BY <1>1, <1>2

(* The cell is at most k columns away, one way around or the other *)
Beside(n, a, b, k) == Abs(a - b) <= k \/ n - Abs(a - b) <= k

(* One step around the world brings a column nearer *)
Nearer(n, a, b, k) ==
  \E e \in 0..(n - 1), j \in {-1, 0, 1} : Beside(n, a, e, k) /\ (e + j + n) % n = b

LEMMA StepBeside ==
  ASSUME NEW n \in Nat \ {0}, NEW a \in 0..(n - 1), NEW b \in 0..(n - 1),
         NEW k \in Nat, Beside(n, a, b, k + 1)
  PROVE  Nearer(n, a, b, k)
<1>. SUFFICES \E e \in 0..(n - 1), j \in {-1, 0, 1} : Beside(n, a, e, k) /\ (e + j + n) % n = b
  BY DEF Nearer
<1>1. b % n = b /\ (b + n) % n = b /\ (b + n + n) % n = b
  BY WrapIs
<1>2. CASE Abs(a - b) <= k + 1
  <2>. DEFINE j == IF b > a THEN 1 ELSE IF b < a THEN -1 ELSE 0
              e == b - j
  <2>1. e \in 0..(n - 1) /\ j \in {-1, 0, 1} /\ Abs(a - e) <= k /\ e + j + n = b + n
    BY <1>2 DEF Abs
  <2>. HIDE DEF e, j
  <2>. QED  BY <1>1, <2>1 DEF Beside
<1>3. CASE n - Abs(a - b) <= k + 1 /\ b > a
  <2>1. CASE b = n - 1
    <3>1. 0 \in 0..(n - 1) /\ Beside(n, a, 0, k) /\ 0 + -1 + n = b
      BY <1>3, <2>1 DEF Abs, Beside
    <3>2. (0 + -1 + n) % n = b
      BY <1>1, <3>1
    <3>. QED  BY <3>1, <3>2
  <2>2. CASE b < n - 1
    <3>1. b + 1 \in 0..(n - 1) /\ Beside(n, a, b + 1, k) /\ (b + 1) + -1 + n = b + n
      BY <1>3, <2>2 DEF Abs, Beside
    <3>2. ((b + 1) + -1 + n) % n = b
      BY <1>1, <3>1
    <3>. QED  BY <3>1, <3>2
  <2>. QED  BY <2>1, <2>2
<1>4. CASE n - Abs(a - b) <= k + 1 /\ b < a
  <2>1. CASE b = 0
    <3>1. n - 1 \in 0..(n - 1) /\ Beside(n, a, n - 1, k) /\ (n - 1) + 1 + n = b + n + n
      BY <1>4, <2>1 DEF Abs, Beside
    <3>2. ((n - 1) + 1 + n) % n = b
      BY <1>1, <3>1
    <3>. QED  BY <3>1, <3>2
  <2>2. CASE b > 0
    <3>1. b - 1 \in 0..(n - 1) /\ Beside(n, a, b - 1, k) /\ (b - 1) + 1 + n = b + n
      BY <1>4, <2>2 DEF Abs, Beside
    <3>2. ((b - 1) + 1 + n) % n = b
      BY <1>1, <3>1
    <3>. QED  BY <3>1, <3>2
  <2>. QED  BY <2>1, <2>2
<1>5. CASE a = b
  <2>1. Beside(n, a, b, k) /\ b + 0 + n = b + n
    BY <1>5 DEF Abs, Beside
  <2>2. (b + 0 + n) % n = b
    BY <1>1, <2>1
  <2>. QED  BY <2>1, <2>2
<1>. QED  BY <1>2, <1>3, <1>4, <1>5 DEF Beside

(* The search: the cells visited after each round *)
Searches(after, c, rings) ==
  after = [k \in 0..rings |->
             IF k = 0 THEN {c} ELSE after[k - 1] \cup UNION {Neighbors(d) : d \in after[k - 1]}]

LEMMA NeighborsAreCells ==
  ASSUME NEW c \in Cells
  PROVE  Neighbors(c) \subseteq Cells
<1>1. ASSUME NEW n \in Nat \ {0}, NEW x \in 0..(n - 1), NEW i \in {-1, 0, 1}
      PROVE  (x + i + n) % n \in 0..(n - 1)
  <2>1. x + i + n \in Int
    OBVIOUS
  <2>. QED  BY <2>1
<1>2. c.row \in 0..(Rows - 1) /\ c.col \in 0..(Cols - 1)
  BY DEF Cells
<1>3. ASSUME NEW i \in {-1, 0, 1}, NEW j \in {-1, 0, 1}
      PROVE  [row |-> (c.row + i + Rows) % Rows, col |-> (c.col + j + Cols) % Cols] \in Cells
  <2>1. (c.row + i + Rows) % Rows \in 0..(Rows - 1)
    BY <1>1, <1>2, GridAssumption
  <2>2. (c.col + j + Cols) % Cols \in 0..(Cols - 1)
    BY <1>1, <1>2, GridAssumption
  <2>. QED  BY <2>1, <2>2 DEF Cells
<1>. QED  BY <1>3 DEF Neighbors

LEMMA SearchExists ==
  ASSUME NEW c \in Cells, NEW rings \in Nat
  PROVE  \E after : Searches(after, c, rings)
<1>. DEFINE S == SUBSET Cells
            base == {c}
            grow == [D \in S |-> D \cup UNION {Neighbors(d) : d \in D}]
            step == [i \in 1..rings |-> grow]
<1>1. base \in S
  OBVIOUS
<1>2. grow \in [S -> S]
  <2>1. ASSUME NEW D \in S PROVE D \cup UNION {Neighbors(d) : d \in D} \in S
    BY NeighborsAreCells
  <2>. QED  BY <2>1
<1>3. \A D \in S : grow[D] = D \cup UNION {Neighbors(d) : d \in D}
  OBVIOUS
<1>. HIDE DEF grow, S, base
<1>4. step \in [1..rings -> [S -> S]] /\ \A i \in 1..rings : step[i] = grow
  BY <1>2
<1>. HIDE DEF step
<1>5. PICK after : Loops(after, S, base, step, rings)
  BY <1>1, <1>4, Iterates
<1>6. ASSUME NEW k \in 0..rings
      PROVE  after[k] = IF k = 0 THEN {c}
                        ELSE after[k - 1] \cup UNION {Neighbors(d) : d \in after[k - 1]}
  <2>1. CASE k = 0
    BY <1>5, <2>1 DEF Loops, base
  <2>2. CASE k # 0
    <3>1. k \in 1..rings /\ k - 1 \in 0..rings /\ after[k - 1] \in S
      BY <1>5, <2>2 DEF Loops
    <3>2. after[k] = grow[after[k - 1]]
      BY <1>4, <1>5, <3>1 DEF Loops
    <3>3. after[k] = after[k - 1] \cup UNION {Neighbors(d) : d \in after[k - 1]}
      BY <1>3, <3>1, <3>2
    <3>. QED  BY <2>2, <3>3
  <2>. QED  BY <2>1, <2>2
<1>7. after \in [0..rings -> S]
  BY <1>5 DEF Loops
<1>8. Searches(after, c, rings)
  BY <1>6, <1>7 DEF Searches
<1>. QED  BY <1>8

(* After k rounds every cell at most k rows and k columns away is visited *)
LEMMA RingsReach ==
  ASSUME NEW c \in Cells, NEW rings \in Nat, NEW d \in Cells,
         Abs(c.row - d.row) <= rings, Beside(Cols, c.col, d.col, rings)
  PROVE  d \in Visited(c, rings)
<1>. DEFINE after == CHOOSE f : Searches(f, c, rings)
            Reached(k) == {e \in Cells : Abs(c.row - e.row) <= k /\ Beside(Cols, c.col, e.col, k)}
            N == {k \in Nat : k <= rings => Reached(k) \subseteq after[k]}
<1>1. Searches(after, c, rings)
  BY SearchExists, Zenon
<1>2. Visited(c, rings) = after[rings]
  BY DEF Visited, Searches
<1>. HIDE DEF after
<1>3. /\ after[0] = {c}
      /\ \A k \in Nat : k + 1 <= rings =>
           after[k + 1] = after[k] \cup UNION {Neighbors(e) : e \in after[k]}
  <2>1. \A k \in 0..rings :
          after[k] = IF k = 0 THEN {c}
                     ELSE after[k - 1] \cup UNION {Neighbors(e) : e \in after[k - 1]}
    BY <1>1 DEF Searches
  <2>2. after[0] = {c}
    <3>1. 0 \in 0..rings
      OBVIOUS
    <3>. QED  BY <2>1, <3>1
  <2>3. ASSUME NEW k \in Nat, k + 1 <= rings
        PROVE  after[k + 1] = after[k] \cup UNION {Neighbors(e) : e \in after[k]}
    <3>1. k + 1 \in 0..rings /\ k + 1 # 0 /\ (k + 1) - 1 = k
      BY <2>3
    <3>. QED  BY <2>1, <3>1
  <2>. QED  BY <2>2, <2>3
<1>4. \A e \in Cells : e.row \in 0..(Rows - 1) /\ e.col \in 0..(Cols - 1)
  BY DEF Cells
<1>5. 0 \in N
  <2>1. ASSUME NEW e \in Reached(0) PROVE e = c
    <3>1. /\ e \in Cells /\ e.row \in 0..(Rows - 1) /\ e.col \in 0..(Cols - 1)
          /\ c.row \in 0..(Rows - 1) /\ c.col \in 0..(Cols - 1)
      BY <1>4, <2>1
    <3>2. e.row = c.row /\ e.col = c.col
      BY <2>1, <3>1, GridAssumption DEF Beside, Abs
    <3>. QED  BY <3>1, <3>2 DEF Cells
  <2>. QED  BY <1>3, <2>1
<1>6. ASSUME NEW k \in Nat, k \in N, k + 1 <= rings, NEW e \in Reached(k + 1)
      PROVE  e \in after[k + 1]
  <2>1. /\ e \in Cells /\ e.row \in 0..(Rows - 1) /\ e.col \in 0..(Cols - 1)
        /\ c.row \in 0..(Rows - 1) /\ c.col \in 0..(Cols - 1)
        /\ Abs(c.row - e.row) <= k + 1 /\ Beside(Cols, c.col, e.col, k + 1)
    BY <1>4, <1>6
  <2>2. PICK y \in 0..(Rows - 1), i \in {-1, 0, 1} :
          Abs(c.row - y) <= k /\ (y + i + Rows) % Rows = e.row
    <3>. DEFINE i == IF e.row > c.row THEN 1 ELSE IF e.row < c.row THEN -1 ELSE 0
                y == e.row - i
    <3>1. y \in 0..(Rows - 1) /\ i \in {-1, 0, 1} /\ Abs(c.row - y) <= k /\ y + i + Rows = e.row + Rows
      BY <2>1, GridAssumption DEF Abs
    <3>2. (e.row + Rows) % Rows = e.row
      BY <2>1, GridAssumption, WrapIs
    <3>. HIDE DEF i, y
    <3>. QED  BY <3>1, <3>2
  <2>3. PICK x \in 0..(Cols - 1), j \in {-1, 0, 1} :
          Beside(Cols, c.col, x, k) /\ (x + j + Cols) % Cols = e.col
    <3>1. Cols \in Nat \ {0}
      BY GridAssumption
    <3>2. Nearer(Cols, c.col, e.col, k)
      BY <2>1, <3>1, StepBeside
    <3>. QED  BY <3>2 DEF Nearer
  <2>. DEFINE v == [row |-> y, col |-> x]
  <2>4. v \in Cells /\ v.row = y /\ v.col = x
    BY <2>2, <2>3 DEF Cells
  <2>5. v \in after[k]
    <3>1. v \in Reached(k)
      BY <2>2, <2>3, <2>4
    <3>. QED  BY <1>6, <3>1
  <2>6. e = [row |-> (y + i + Rows) % Rows, col |-> (x + j + Cols) % Cols]
    BY <2>1, <2>2, <2>3 DEF Cells
  <2>. HIDE DEF v
  <2>7. e = v \/ e \in Neighbors(v)
    BY <2>2, <2>3, <2>4, <2>6 DEF Neighbors
  <2>8. after[k + 1] = after[k] \cup UNION {Neighbors(u) : u \in after[k]}
    BY <1>3, <1>6
  <2>. QED  BY <2>5, <2>7, <2>8
<1>7. rings \in N
  <2>1. \A k \in Nat : k \in N => k + 1 \in N
    BY <1>6
  <2>. HIDE DEF N
  <2>. QED  BY <1>5, <2>1, NumbersInduction
<1>8. d \in Reached(rings)
  OBVIOUS
<1>. QED  BY <1>2, <1>7, <1>8

-----------------------------------------------------------------------------
(* How far apart the cells of two points are *)

LEMMA MaxOfThree ==
  ASSUME NEW a \in Int, NEW b \in Int, NEW c \in Int
  PROVE  LET m == Max({a, b, c}) IN m \in Int /\ m >= a /\ m >= b /\ m >= c
<1>. DEFINE m == IF a >= b /\ a >= c THEN a ELSE IF b >= c THEN b ELSE c
<1>1. m \in {a, b, c} /\ \A y \in {a, b, c} : m >= y
  OBVIOUS
<1>2. \A x \in {a, b, c} : (\A y \in {a, b, c} : x >= y) => x = m
  OBVIOUS
<1>3. m \in Int
  OBVIOUS
<1>. HIDE DEF m
<1>4. Max({a, b, c}) = m
  BY <1>1, <1>2 DEF Max
<1>. QED  BY <1>1, <1>3, <1>4

(* The row or the column of a coordinate *)
CellAt(n, w, x) == Min({x \div w, n - 1})

LEMMA CellAtIs ==
  ASSUME NEW n \in Nat \ {0}, NEW w \in Nat \ {0}, NEW x \in Nat
  PROVE  /\ CellAt(n, w, x) = IF x \div w <= n - 1 THEN x \div w ELSE n - 1
         /\ CellAt(n, w, x) \in 0..(n - 1)
<1>1. x \div w \in Nat
  BY DivFacts
<1>2. CellAt(n, w, x) = IF x \div w <= n - 1 THEN x \div w ELSE n - 1
  BY <1>1, MinOfTwo DEF CellAt
<1>. QED  BY <1>1, <1>2

LEMMA CellAtGrows ==
  ASSUME NEW n \in Nat \ {0}, NEW w \in Nat \ {0}, NEW x \in Nat, NEW y \in Nat, x <= y
  PROVE  CellAt(n, w, x) <= CellAt(n, w, y)
<1>1. x \div w \in Int /\ (x \div w) * w <= x /\ (x \div w) * w \in Int /\ y \div w \in Int
  BY DivFacts
<1>2. (x \div w) * w <= y
  BY <1>1
<1>3. x \div w <= y \div w
  BY <1>1, <1>2, Quotients
<1>4. /\ CellAt(n, w, x) = IF x \div w <= n - 1 THEN x \div w ELSE n - 1
      /\ CellAt(n, w, y) = IF y \div w <= n - 1 THEN y \div w ELSE n - 1
  BY CellAtIs
<1>. QED  BY <1>1, <1>3, <1>4

(* "floor + 1 is the worst case": between points at most r apart *)
LEMMA CellAtApart ==
  ASSUME NEW n \in Nat \ {0}, NEW w \in Nat \ {0}, NEW r \in Nat,
         NEW x \in Nat, NEW y \in Nat, x <= y, y - x <= r
  PROVE  CellAt(n, w, y) - CellAt(n, w, x) <= r \div w + 1
<1>. DEFINE p == x \div w
            q == y \div w
<1>1. p \in Nat /\ q \in Nat /\ p * w <= x /\ x < p * w + w /\ q * w <= y /\ r \div w \in Nat
  BY DivFacts
<1>2. /\ CellAt(n, w, x) = IF p <= n - 1 THEN p ELSE n - 1
      /\ CellAt(n, w, y) = IF q <= n - 1 THEN q ELSE n - 1
  BY CellAtIs
<1>. HIDE DEF p, q
<1>3. q - p - 1 <= r \div w
  <2>1. (q - p - 1) * w = q * w - p * w - w /\ q * w \in Int /\ p * w \in Int
    BY <1>1
  <2>2. (q - p - 1) * w <= r /\ q - p - 1 \in Int
    BY <1>1, <2>1
  <2>. QED  BY <2>2, Quotients
<1>. QED  BY <1>1, <1>2, <1>3

(* The same the other way around the world *)
LEMMA CellAtAround ==
  ASSUME NEW n \in Nat \ {0}, NEW w \in Nat \ {0}, NEW r \in Nat,
         NEW x \in Nat, NEW y \in Nat, x <= y, y <= n * w, n * w - (y - x) <= r
  PROVE  n - (CellAt(n, w, y) - CellAt(n, w, x)) <= r \div w + 1
<1>. DEFINE p == x \div w
            q == y \div w
<1>1. /\ p \in Nat /\ q \in Nat /\ p * w <= x /\ q * w <= y /\ y < q * w + w
      /\ p * w \in Int /\ q * w \in Int /\ n * w \in Int /\ r \div w \in Nat
  BY DivFacts
<1>2. /\ CellAt(n, w, x) = IF p <= n - 1 THEN p ELSE n - 1
      /\ CellAt(n, w, y) = IF q <= n - 1 THEN q ELSE n - 1
  BY CellAtIs
<1>. HIDE DEF p, q
<1>3. CASE q <= n - 1
  <2>1. (p + n - q - 1) * w = p * w + n * w - q * w - w
    BY <1>1
  <2>2. (p + n - q - 1) * w <= r /\ p + n - q - 1 \in Int
    BY <1>1, <2>1
  <2>3. p + n - q - 1 <= r \div w
    BY <2>2, Quotients
  <2>. QED  BY <1>1, <1>2, <1>3, <2>3
<1>4. CASE ~(q <= n - 1)
  <2>1. n * w <= q * w
    BY <1>1, <1>4, ProductGrows
  <2>2. y = n * w /\ p * w <= r
    BY <1>1, <2>1
  <2>3. p <= r \div w
    BY <1>1, <2>2, Quotients
  <2>. QED  BY <1>1, <1>2, <1>4, <2>3
<1>. QED  BY <1>3, <1>4

LEMMA PointsAreInCells ==
  ASSUME NEW p \in Points
  PROVE  ShardPrefixOf(p) \in Cells
<1>1. p.lat \in Nat /\ p.lon \in Nat
  BY WorldIsNat DEF Points
<1>2. CellAt(Rows, CellLat, p.lat) \in 0..(Rows - 1) /\ CellAt(Cols, CellLon, p.lon) \in 0..(Cols - 1)
  BY <1>1, GridAssumption, CellAtIs
<1>3. ShardPrefixOf(p) = [row |-> CellAt(Rows, CellLat, p.lat), col |-> CellAt(Cols, CellLon, p.lon)]
  BY DEF ShardPrefixOf, CellAt
<1>. QED  BY <1>2, <1>3 DEF Cells

(* RingsNeeded rounds are enough for every cell with a point of the circle *)
LEMMA RingsAreEnough ==
  ASSUME NEW center \in Points, NEW p \in Points, NEW radius \in 1..MaxRadius,
         InCircle(center, radius, p),
         Short(center.lon, p.lon) <= LonExtent(center.lat, radius)
  PROVE  ShardPrefixOf(p) \in Visited(ShardPrefixOf(center), RingsNeeded(center.lat, radius))
<1>. DEFINE a == Abs(center.lat - p.lat)
            b == Short(center.lon, p.lon)
            c == ShardPrefixOf(center)
            d == ShardPrefixOf(p)
            ext == LonExtent(center.lat, radius)
            rings == RingsNeeded(center.lat, radius)
            u == radius \div CellLat + 1
            v == ext \div CellLon + 1
<1>1. /\ center.lat \in 0..North /\ p.lat \in 0..North
      /\ center.lon \in 0..World /\ p.lon \in 0..World
  BY DEF Points
<1>2. a \in Nat /\ b \in Nat /\ ext \in Nat /\ radius \in Nat
  <2>1. a \in Nat
    BY <1>1, WorldIsNat DEF Abs
  <2>2. b \in Nat
    BY <1>1, ShortIs
  <2>. QED  BY <1>1, <2>1, <2>2, LonExtentIsNat
<1>3. a <= radius /\ b <= ext
  BY LatitudesOfCircle
<1>4. u \in Nat /\ v \in Nat /\ rings \in Nat /\ u <= rings /\ v <= rings
  <2>1. u \in Nat /\ v \in Nat
    <3>. HIDE DEF ext
    <3>. QED  BY <1>2, DivFacts, GridAssumption
  <2>2. rings = Max({u, v, 1})
    BY DEF RingsNeeded
  <2>. HIDE DEF u, v, rings
  <2>3. rings \in Int /\ rings >= u /\ rings >= v
    <3>1. u \in Int /\ v \in Int /\ 1 \in Int
      BY <2>1
    <3>. QED  BY <2>2, <3>1, MaxOfThree
  <2>. QED  BY <2>1, <2>3
<1>5. /\ c \in Cells /\ c.row \in 0..(Rows - 1) /\ c.col \in 0..(Cols - 1)
      /\ d \in Cells /\ d.row \in 0..(Rows - 1) /\ d.col \in 0..(Cols - 1)
  <2>1. c \in Cells /\ d \in Cells
    BY PointsAreInCells
  <2>. HIDE DEF c, d
  <2>. QED  BY <2>1 DEF Cells
<1>6. /\ c.row = CellAt(Rows, CellLat, center.lat)
      /\ c.col = CellAt(Cols, CellLon, center.lon)
      /\ d.row = CellAt(Rows, CellLat, p.lat)
      /\ d.col = CellAt(Cols, CellLon, p.lon)
  BY DEF ShardPrefixOf, CellAt
<1>. HIDE DEF c, d, rings, ext
<1>7. Abs(c.row - d.row) <= u
  <2>. Rows \in Nat \ {0} /\ CellLat \in Nat \ {0} /\ center.lat \in Nat /\ p.lat \in Nat
    BY <1>1, GridAssumption, WorldIsNat
  <2>1. CASE center.lat <= p.lat
    <3>1. p.lat - center.lat <= radius
      BY <1>1, <1>3, <2>1, WorldIsNat DEF Abs
    <3>2. c.row <= d.row /\ d.row - c.row <= u
      BY <1>2, <1>6, <2>1, <3>1, CellAtGrows, CellAtApart
    <3>. QED  BY <1>4, <1>5, <3>2, GridAssumption DEF Abs
  <2>2. CASE p.lat <= center.lat
    <3>1. center.lat - p.lat <= radius
      BY <1>1, <1>3, <2>2, WorldIsNat DEF Abs
    <3>2. d.row <= c.row /\ c.row - d.row <= u
      BY <1>2, <1>6, <2>2, <3>1, CellAtGrows, CellAtApart
    <3>. QED  BY <1>4, <1>5, <3>2, GridAssumption DEF Abs
  <2>. QED  BY <1>1, <2>1, <2>2, WorldIsNat
<1>8. Beside(Cols, c.col, d.col, v)
  <2>. DEFINE x == center.lon
              y == p.lon
  <2>1. x \in Nat /\ y \in Nat /\ x <= Cols * CellLon /\ y <= Cols * CellLon
    BY <1>1, WorldIsNat DEF World
  <2>2. b = IF 2 * Abs(x - y) <= World THEN Abs(x - y) ELSE World - Abs(x - y)
    BY <1>1, ShortIs
  <2>3. Abs(x - y) <= ext \/ Cols * CellLon - Abs(x - y) <= ext
    BY <1>3, <2>2 DEF World
  <2>. HIDE DEF b, x, y
  <2>4. /\ Cols \in Nat \ {0} /\ CellLon \in Nat \ {0}
        /\ c.col = CellAt(Cols, CellLon, x) /\ d.col = CellAt(Cols, CellLon, y)
    BY <1>6, GridAssumption DEF x, y
  <2>5. CASE x <= y
    <3>1. Abs(x - y) = y - x
      BY <2>1, <2>5 DEF Abs
    <3>2. c.col <= d.col
      BY <2>1, <2>4, <2>5, CellAtGrows
    <3>3. CASE y - x <= ext
      <4>1. d.col - c.col <= v
        BY <1>2, <2>1, <2>4, <2>5, <3>3, CellAtApart
      <4>. QED  BY <1>4, <1>5, <2>4, <3>2, <4>1 DEF Abs, Beside
    <3>4. CASE Cols * CellLon - (y - x) <= ext
      <4>1. Cols - (d.col - c.col) <= v
        BY <1>2, <2>1, <2>4, <2>5, <3>4, CellAtAround
      <4>. QED  BY <1>4, <1>5, <2>4, <3>2, <4>1 DEF Abs, Beside
    <3>. QED  BY <2>3, <3>1, <3>3, <3>4
  <2>6. CASE y <= x
    <3>1. Abs(x - y) = x - y
      BY <2>1, <2>6 DEF Abs
    <3>2. d.col <= c.col
      BY <2>1, <2>4, <2>6, CellAtGrows
    <3>3. CASE x - y <= ext
      <4>1. c.col - d.col <= v
        BY <1>2, <2>1, <2>4, <2>6, <3>3, CellAtApart
      <4>. QED  BY <1>4, <1>5, <2>4, <3>2, <4>1 DEF Abs, Beside
    <3>4. CASE Cols * CellLon - (x - y) <= ext
      <4>1. Cols - (c.col - d.col) <= v
        BY <1>2, <2>1, <2>4, <2>6, <3>4, CellAtAround
      <4>. QED  BY <1>4, <1>5, <2>4, <3>2, <4>1 DEF Abs, Beside
    <3>. QED  BY <2>3, <3>1, <3>3, <3>4
  <2>. QED  BY <2>1, <2>5, <2>6
<1>. HIDE DEF u, v
<1>9. Abs(c.row - d.row) <= rings /\ Beside(Cols, c.col, d.col, rings)
  <2>1. Abs(c.row - d.row) \in Int /\ Abs(c.col - d.col) \in Int /\ Cols \in Int
    BY <1>5, GridAssumption DEF Abs
  <2>. QED  BY <1>4, <1>7, <1>8, <2>1 DEF Beside
<1>10. d \in Visited(c, rings)
  BY <1>4, <1>5, <1>9, RingsReach
<1>. QED  BY <1>10 DEF c, d, rings

(* "Every shard prefix whose cell intersects the alert circle" of           *)
(* shard_prefixes_for_radius, for every grid and every circle that is       *)
(* accepted: where the circle reaches no farther than lon_extent_deg and    *)
(* the buffer reaches the centre of the cell, the search goes far enough    *)
(* around the cell of the circle's centre, over the antimeridian too, and   *)
(* keeps the cell.                                                          *)
THEOREM ShardsCoverCircle ==
  ASSUME NEW center \in Points, NEW radius \in 1..MaxRadius,
         ShardPrefixesForRadius(center, radius) # {},
         NEW p \in Points, InCircle(center, radius, p),
         Short(center.lon, p.lon) <= LonExtent(center.lat, radius),
         WithinBuffer(center, radius, ShardPrefixOf(p))
  PROVE  ShardPrefixOf(p) \in ShardPrefixesForRadius(center, radius)
<1>1. ShardPrefixOf(p) \in Visited(ShardPrefixOf(center), RingsNeeded(center.lat, radius))
  BY RingsAreEnough
<1>. QED  BY <1>1 DEF ShardPrefixesForRadius

(* What SphereAssumption says of a circle *)
Spherical(center, radius) ==
  \A p \in PointsIn(center, radius) :
    /\ Short(center.lon, p.lon) <= LonExtent(center.lat, radius)
    /\ WithinBuffer(center, radius, ShardPrefixOf(p))

-----------------------------------------------------------------------------
(* What is listed of a circle *)

(* The first n of a set are n, or all of them *)
LEMMA FirstCounts ==
  ASSUME NEW D, IsFiniteSet(D), D \subseteq Int, NEW n \in Nat
  PROVE  LET listed == Cardinality(First(D, n))
         IN  listed = IF Cardinality(D) <= n THEN Cardinality(D) ELSE n
<1>. DEFINE Counts(T) == Cardinality(First(T, n)) = IF Cardinality(T) <= n THEN Cardinality(T) ELSE n
            Q == {T \in SUBSET D : Counts(T)}
<1>1. \A T \in SUBSET D : IsFiniteSet(T) /\ Cardinality(T) \in Nat /\ T \subseteq Int
  BY FS_Subset, FS_CardinalityType
<1>2. ASSUME NEW T \in SUBSET D, \A x \in T : T \ {x} \in Q
      PROVE  Counts(T)
  <2>1. CASE T = {}
    <3>1. First(T, n) = {} /\ Cardinality(T) = 0
      BY <2>1, FS_EmptySet DEF First
    <3>2. Cardinality(First(T, n)) = 0
      BY <3>1, FS_EmptySet
    <3>. QED  BY <3>1, <3>2
  <2>2. CASE T # {}
    <3>1. PICK m \in T : \A x \in T : x <= m
      BY <1>1, <2>2, GreatestElement
    <3>. DEFINE U == T \ {m}
                Below(S, d) == {c \in S : c <= d}
    <3>2. U \in SUBSET D /\ Counts(U) /\ IsFiniteSet(U) /\ Cardinality(U) \in Nat
      BY <1>1, <1>2, <3>1
    <3>3. Cardinality(T) = Cardinality(U) + 1
      <4>1. Cardinality(U) = Cardinality(T) - 1
        BY <1>1, <3>1, FS_RemoveElement
      <4>. QED  BY <1>1, <4>1
    <3>4. Below(T, m) = T
      BY <3>1
    <3>5. ASSUME NEW d \in U PROVE Below(T, d) = Below(U, d)
      <4>1. d \in Int /\ m \in Int /\ d <= m /\ d # m
        BY <1>1, <3>1
      <4>2. ~(m <= d)
        BY <4>1
      <4>. QED  BY <4>2
    <3>6. First(T, n) = First(U, n) \cup {d \in {m} : Cardinality(T) <= n}
      <4>1. First(T, n) = {d \in T : Cardinality(Below(T, d)) <= n}
        BY DEF First
      <4>2. First(U, n) = {d \in U : Cardinality(Below(U, d)) <= n}
        BY DEF First
      <4>3. T = U \cup {m}
        BY <3>1
      <4>. HIDE DEF Below, U
      <4>4. \A d \in U : Cardinality(Below(T, d)) = Cardinality(Below(U, d))
        BY <3>5
      <4>. QED  BY <3>4, <4>1, <4>2, <4>3, <4>4
    <3>7. First(U, n) \subseteq U /\ IsFiniteSet(First(U, n)) /\ m \notin First(U, n)
      <4>1. First(U, n) \subseteq U /\ m \notin U
        BY DEF First
      <4>. QED  BY <3>2, <4>1, FS_Subset
    <3>. HIDE DEF U
    <3>8. CASE Cardinality(T) <= n
      <4>1. First(T, n) = First(U, n) \cup {m}
        BY <3>6, <3>8
      <4>2. Cardinality(First(T, n)) = Cardinality(First(U, n)) + 1
        BY <3>7, <4>1, FS_AddElement
      <4>3. Cardinality(First(U, n)) = Cardinality(U)
        BY <3>2, <3>3, <3>8
      <4>. QED  BY <3>3, <3>8, <4>2, <4>3
    <3>9. CASE ~(Cardinality(T) <= n)
      <4>1. First(T, n) = First(U, n)
        BY <3>6, <3>9
      <4>2. Cardinality(First(U, n)) = n
        BY <3>2, <3>3, <3>9
      <4>. QED  BY <3>9, <4>1, <4>2
    <3>. QED  BY <3>8, <3>9
  <2>. QED  BY <2>1, <2>2
<1>. HIDE DEF Counts
<1>3. \A T \in SUBSET D : (\A x \in T : T \ {x} \in Q) => T \in Q
  BY <1>2
<1>4. D \in Q
  <2>. HIDE DEF Q
  <2>. QED  BY <1>3, SubsetInduction
<1>. QED  BY <1>4 DEF Counts

LEMMA ClampedLimit ==
  ASSUME NEW limit \in Int
  PROVE  ClampLimit(limit) \in Nat
<1>. DEFINE m == Min({limit, MaxListed})
<1>1. m \in Int
  BY ListedAssumption, MinOfTwo
<1>. HIDE DEF m
<1>2. Max({1, m}) \in Nat
  BY <1>1, MaxOfTwo
<1>. QED  BY <1>2, ListedAssumption DEF ClampLimit, m

(* What list_in_circle selects is what is in the circle *)
LEMMA ListedAreInside ==
  ASSUME NEW center \in Points, NEW radius \in 1..MaxRadius, NEW n,
         ShardPrefixesForRadius(center, radius) # {}, Spherical(center, radius)
  PROVE  ListInCircle(ShardPrefixesForRadius(center, radius), center, radius, n)
           = First({d \in DOMAIN Located : InCircle(center, radius, Located[d])}, n)
<1>. DEFINE shards == ShardPrefixesForRadius(center, radius)
<1>1. ASSUME NEW d \in DOMAIN Located
      PROVE  (ShardPrefixOf(Located[d]) \in shards /\ InCircleSql(center, radius, Located[d]))
               <=> InCircle(center, radius, Located[d])
  <2>1. Located[d] \in Points
    BY LocatedAssumption
  <2>. DEFINE p == Located[d]
  <2>0. InCircle(center, radius, p) =>
          /\ Short(center.lon, p.lon) <= LonExtent(center.lat, radius)
          /\ WithinBuffer(center, radius, ShardPrefixOf(p))
    <3>. HIDE DEF p
    <3>1. p \in Points
      BY <2>1 DEF p
    <3>. QED  BY <3>1, PointsInAll DEF Spherical
  <2>2. InCircle(center, radius, Located[d]) => ShardPrefixOf(Located[d]) \in shards
    BY <2>0, <2>1, ShardsCoverCircle
  <2>3. InCircle(center, radius, Located[d]) => InCircleSql(center, radius, Located[d])
    BY <2>0, <2>1, BoxesMissNobody
  <2>4. InCircleSql(center, radius, Located[d]) => InCircle(center, radius, Located[d])
    BY DEF InCircleSql
  <2>. QED  BY <2>2, <2>3, <2>4
<1>. HIDE DEF shards
<1>2. {d \in DOMAIN Located : ShardPrefixOf(Located[d]) \in shards /\ InCircleSql(center, radius, Located[d])}
        = {d \in DOMAIN Located : InCircle(center, radius, Located[d])}
  BY <1>1
<1>. QED  BY <1>2 DEF ListInCircle, shards

-----------------------------------------------------------------------------
(* The answers of the handlers *)

Covers(a) ==
  /\ a.is = "shards" =>
       \A p \in PointsIn(a.center, a.radius) : ShardPrefixOf(p) \in a.shards
  /\ a.is = "devices" =>
       LET inside == {d \in DOMAIN Located : InCircle(a.center, a.radius, Located[d])}
       IN  /\ a.devices \subseteq inside
           /\ Cardinality(a.devices) = Min({Cardinality(inside), a.limit})
           /\ a.truncated <=> Cardinality(inside) > a.limit

LEMMA NothingToCover ==
  Covers(NoAnswer) /\ \A error : Covers(Failed(error))
BY DEF Covers, NoAnswer, Failed

LEMMA ValidCircleIs ==
  ASSUME NEW center \in [lat : Int, lon : Int], NEW radius \in Int, ValidCircle(center, radius)
  PROVE  center \in Points /\ radius \in 1..MaxRadius
BY DEF ValidCircle, ValidLocation, Points

LEMMA DispatchCovers ==
  ASSUME NEW center \in [lat : Int, lon : Int], NEW radius \in Int, NEW title,
         ValidCircle(center, radius) => Spherical(center, radius)
  PROVE  Covers(DispatchAlert(center, radius, title))
<1>. DEFINE shards == ShardPrefixesForRadius(center, radius)
            a == [is |-> "shards", status |-> 200, center |-> center, radius |-> radius, shards |-> shards]
            refused == ~ValidCircle(center, radius) \/ ~ValidAlert(radius, title) \/ shards = {}
<1>1. DispatchAlert(center, radius, title) = IF refused THEN Failed("validation") ELSE a
  BY DEF DispatchAlert
<1>2. CASE ~refused
  <2>1. center \in Points /\ radius \in 1..MaxRadius /\ shards # {} /\ Spherical(center, radius)
    BY <1>2, ValidCircleIs
  <2>2. ASSUME NEW p \in PointsIn(center, radius) PROVE ShardPrefixOf(p) \in shards
    <3>1. p \in Points /\ InCircle(center, radius, p)
      BY PointsInArePoints
    <3>2. /\ Short(center.lon, p.lon) <= LonExtent(center.lat, radius)
          /\ WithinBuffer(center, radius, ShardPrefixOf(p))
      BY <2>1 DEF Spherical
    <3>. QED  BY <2>1, <3>1, <3>2, ShardsCoverCircle
  <2>. HIDE DEF shards
  <2>3. Covers(a)
    BY <2>2 DEF Covers
  <2>. QED  BY <1>1, <1>2, <2>3
<1>. QED  BY <1>1, <1>2, NothingToCover

LEMMA ListCovers ==
  ASSUME NEW center \in [lat : Int, lon : Int], NEW radius \in Int, NEW limit \in Int,
         ValidCircle(center, radius) => Spherical(center, radius)
  PROVE  Covers(ListDevices(center, radius, limit))
<1>. DEFINE shards == ShardPrefixesForRadius(center, radius)
            n == ClampLimit(limit)
            found == ListInCircle(shards, center, radius, n + 1)
            devices == First(found, n)
            truncated == Cardinality(found) > n
            a == [is |-> "devices", status |-> 200, center |-> center, radius |-> radius, limit |-> n,
                  devices |-> devices, truncated |-> truncated]
            inside == {d \in DOMAIN Located : InCircle(center, radius, Located[d])}
            refused == ~ValidCircle(center, radius) \/ shards = {}
<1>1. ListDevices(center, radius, limit) = IF refused THEN Failed("validation") ELSE a
  BY DEF ListDevices
<1>2. CASE ~refused
  <2>1. /\ center \in Points /\ radius \in 1..MaxRadius /\ shards # {} /\ n \in Nat
        /\ Spherical(center, radius)
    BY <1>2, ValidCircleIs, ClampedLimit
  <2>2. found = First(inside, n + 1)
    BY <2>1, ListedAreInside
  <2>3. IsFiniteSet(inside) /\ inside \subseteq Int /\ Cardinality(inside) \in Nat
    <3>1. inside \subseteq DOMAIN Located
      OBVIOUS
    <3>2. IsFiniteSet(inside)
      BY <3>1, LocatedAssumption, FS_Subset
    <3>. HIDE DEF inside
    <3>. QED  BY <3>1, <3>2, LocatedAssumption, FS_CardinalityType
  <2>. HIDE DEF inside, found, n
  <2>4. found \subseteq inside /\ devices \subseteq found
    BY <2>2 DEF First
  <2>5. IsFiniteSet(found) /\ found \subseteq Int /\ Cardinality(found) \in Nat
    <3>1. IsFiniteSet(found)
      BY <2>3, <2>4, FS_Subset
    <3>. QED  BY <2>3, <2>4, <3>1, FS_CardinalityType
  <2>6. Cardinality(found) = IF Cardinality(inside) <= n + 1 THEN Cardinality(inside) ELSE n + 1
    <3>1. n + 1 \in Nat
      BY <2>1
    <3>. QED  BY <2>2, <2>3, <3>1, FirstCounts
  <2>7. Cardinality(devices) = IF Cardinality(found) <= n THEN Cardinality(found) ELSE n
    BY <2>1, <2>5, FirstCounts
  <2>8. Min({Cardinality(inside), n}) = IF Cardinality(inside) <= n THEN Cardinality(inside) ELSE n
    BY <2>1, <2>3, MinOfTwo
  <2>. HIDE DEF devices
  <2>9. Cardinality(devices) = Min({Cardinality(inside), n})
    BY <2>1, <2>3, <2>6, <2>7, <2>8
  <2>10. Cardinality(found) > n <=> Cardinality(inside) > n
    BY <2>1, <2>3, <2>6
  <2>11. devices \subseteq inside
    BY <2>4
  <2>12. /\ a.is = "devices" /\ a.center = center /\ a.radius = radius /\ a.limit = n
         /\ a.devices = devices /\ a.truncated = truncated
    BY Zenon
  <2>. HIDE DEF a
  <2>13. Covers(a)
    <3>1. a.is # "shards"
      BY <2>12
    <3>2. a.devices \subseteq inside
      BY <2>11, <2>12
    <3>3. Cardinality(a.devices) = Min({Cardinality(inside), a.limit})
      BY <2>9, <2>12
    <3>4. a.truncated <=> Cardinality(inside) > a.limit
      BY <2>10, <2>12, Zenon
    <3>5. inside = {d \in DOMAIN Located : InCircle(a.center, a.radius, Located[d])}
      BY <2>12 DEF inside
    <3>. QED  BY <3>1, <3>2, <3>3, <3>4, <3>5, Zenon DEF Covers
  <2>. QED  BY <1>1, <1>2, <2>13
<1>. QED  BY <1>1, <1>2, NothingToCover

(* dispatch_alert publishes to the shard of every device in the circle, and *)
(* the dashboard lists what is in it up to its limit and says truncated     *)
(* when there is more: for every grid, every circle that validate accepts,  *)
(* wherever the devices are, given the two facts of SphereAssumption about  *)
(* the sphere.                                                              *)
THEOREM CircleAlwaysCovered == Spec => []CircleIsCovered
<1>1. CircleIsCovered <=> Covers(answer)
  BY DEF CircleIsCovered, Covers
<1>2. Init => CircleIsCovered
  BY <1>1, NothingToCover DEF Init, NoRequests
<1>3. ASSUME NEW r \in Requests PROVE Covers(Handled(r))
  <2>1. r.center \in [lat : Int, lon : Int] /\ r.radius \in Int /\ r.limit \in Int
    BY RequestAssumption
  <2>2. ValidCircle(r.center, r.radius) => Spherical(r.center, r.radius)
    <3>. DEFINE c == [center |-> r.center, radius |-> r.radius]
    <3>1. c \in {[center |-> q.center, radius |-> q.radius] : q \in Requests}
      OBVIOUS
    <3>2. c.center = r.center /\ c.radius = r.radius
      OBVIOUS
    <3>. HIDE DEF c
    <3>. QED  BY <3>1, <3>2, SphereAssumption DEF Spherical
  <2>3. Covers(DispatchAlert(r.center, r.radius, r.title))
    BY <2>1, <2>2, DispatchCovers
  <2>4. Covers(ListDevices(r.center, r.radius, r.limit))
    BY <2>1, <2>2, ListCovers
  <2>. QED  BY <2>3, <2>4 DEF Handled
<1>4. ASSUME Covers(answer), [Next]_vars PROVE Covers(answer')
  <2>1. \/ answer' = answer \/ answer' = NoAnswer
        \/ \E error \in {"rate limited", "unauthorized"} : answer' = Failed(error)
        \/ \E r \in Requests : answer' = Handled(r)
    <3>1. CASE ProcessNext
      BY <3>1 DEF ProcessNext, Start, Stop, StartWorker, StopWorker, requestVars
    <3>2. CASE DeviceNext
      BY <3>2 DEF DeviceNext, Register, Seen, Ticket, Revoke, Delete, SweepSelect, SweepDelete,
                  Tick, requestVars
    <3>3. ASSUME NEW r \in Requests, Request(r)
          PROVE  answer' \in {Failed("rate limited"), Handled(r), Failed("unauthorized")}
      <4>1. CASE ~Config.disabled /\ bucket[r.group] = 0
        BY <3>3, <4>1, Zenon DEF Request
      <4>2. CASE ~(~Config.disabled /\ bucket[r.group] = 0)
        BY <3>3, <4>2, Zenon DEF Request
      <4>. QED  BY <4>1, <4>2
    <3>4. CASE RequestNext
      BY <3>3, <3>4, Zenon DEF RequestNext, Refill, Respond
    <3>5. CASE UNCHANGED vars
      BY <3>5 DEF vars
    <3>. QED  BY <1>4, <3>1, <3>2, <3>4, <3>5 DEF Next
  <2>. QED  BY <1>3, <1>4, <2>1, NothingToCover
<1>5. CircleIsCovered /\ [Next]_vars => CircleIsCovered'
  <2>1. CircleIsCovered' <=> Covers(answer')
    BY DEF CircleIsCovered, Covers
  <2>. QED  BY <1>1, <1>4, <2>1
<1>. QED  BY <1>2, <1>5, PTL DEF Spec
=============================================================================
