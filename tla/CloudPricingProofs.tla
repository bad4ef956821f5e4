------------------------- MODULE CloudPricingProofs -------------------------
(***************************************************************************)
(* Whatever bodies clients send and whatever rates Orbio publishes, the    *)
(* amount reserved for a request covers what the provider charges for it,  *)
(* under the premises BooksCoverCharge states (CloudPricing); and however  *)
(* requests share, load and replace the copy of the catalog, none is       *)
(* priced at rates withdrawn longer ago than RatesAreRecent says.          *)
(***************************************************************************)
EXTENDS CloudPricing, TLAPS

\* Products of naturals grow with their factors.
LEMMA ProductGrows ==
  ASSUME NEW a \in Nat, NEW b \in Nat, NEW c \in Nat, NEW d \in Nat, a <= c, b <= d
  PROVE  a * b \in Nat /\ c * d \in Nat /\ a * b <= c * d
<1>1. a * b \in Nat /\ c * d \in Nat /\ a * d \in Nat
  OBVIOUS
<1>2. a * b <= a * d
  OBVIOUS
<1>3. a * d <= c * d
  OBVIOUS
<1> QED BY <1>1, <1>2, <1>3

\* Rounding a smaller amount to the nearest micro-dollar gives no more than
\* rounding a larger one up.
LEMMA RoundingIsOrdered ==
  ASSUME NEW x \in Nat, NEW y \in Nat, x <= y
  PROVE  Rounded(x) \in Nat /\ RoundedUp(y) \in Nat /\ Rounded(x) <= RoundedUp(y)
BY DEF Rounded, RoundedUp, PicoPerMicro

\* maximumRate is a readable rate, and no readable rate is higher.
LEMMA MaximumBounds ==
  ASSUME NEW rates \in SUBSET Rates, HasMaximum(rates), Readable(rates) # {}
  PROVE  /\ maximumRate(rates) \in Nat
         /\ \A r \in rates : r.plain => r.pico <= maximumRate(rates)
<1>1. Readable(rates) \subseteq Nat
  BY DEF Readable, Rates
<1>2. \E m \in Readable(rates) : \A r \in Readable(rates) : r <= m
  BY DEF HasMaximum
<1>3. maximumRate(rates) \in Readable(rates) /\ \A r \in Readable(rates) : r <= maximumRate(rates)
  BY <1>2 DEF maximumRate
<1>4. ASSUME NEW r \in rates, r.plain
      PROVE  r.pico \in Readable(rates)
  BY <1>4 DEF Readable
<1> QED BY <1>1, <1>3, <1>4

\* The pricings and the bodies are of their types.
LEMMA PriceTypes ==
  ASSUME NEW price \in Prices
  PROVE  /\ price.prompt \in SUBSET Rates /\ price.completion \in SUBSET Rates
         /\ HasMaximum(price.prompt) /\ HasMaximum(price.completion)
BY PricingAssumption DEF Pricings

LEMMA BodyTypes ==
  ASSUME NEW b \in Bodies
  PROVE  /\ b.bytes \in Nat /\ b.choices \in Nat /\ b.limits \in [Fields -> Limits \cup {None}]
         /\ OutputField(b) \in Fields /\ OutputTokens(b) \in Nat
         /\ ForwardedChoices(b) \in Nat
         /\ ForwardedLimits(b) \in [Fields -> Limits \cup {None}]
<1>1. b \in BodyType
  BY PricingAssumption
<1>2. b.bytes \in Nat /\ b.choices \in Nat /\ b.limits \in [Fields -> Limits \cup {None}]
  BY <1>1 DEF BodyType
<1>3. OutputField(b) \in Fields
  BY DEF OutputField, Fields
<1>4. b.limits[OutputField(b)] \in Limits \cup {None}
  BY <1>2, <1>3
<1>5. OutputTokens(b) \in Nat
  BY <1>4, PricingAssumption DEF OutputTokens, Limits
<1>6. ForwardedChoices(b) \in Nat
  BY <1>2 DEF ForwardedChoices
<1>7. Stated(OutputTokens(b)) \in Limits
  BY <1>5 DEF Stated, Limits
<1>8. ForwardedLimits(b) \in [Fields -> Limits \cup {None}]
  BY <1>2, <1>3, <1>7 DEF ForwardedLimits
<1> QED BY <1>2, <1>3, <1>5, <1>6, <1>8

\* What a provider may charge is an amount.
LEMMA ChargeTypes ==
  ASSUME NEW b \in Bodies, NEW price \in Prices, NEW charge \in Charges(b, price)
  PROVE  charge \in Nat
<1>1. PICK t \in 0..b.bytes, n \in Outputs(b), p \in price.prompt, q \in price.completion :
        charge = t * p.pico + n * q.pico
  BY DEF Charges
<1>2. p.pico \in Nat /\ q.pico \in Nat
  BY PriceTypes DEF Rates
<1>3. t \in Nat
  BY BodyTypes
<1>4. n \in Nat
  BY DEF Outputs
<1>5. t * p.pico \in Nat /\ n * q.pico \in Nat
  BY <1>2, <1>3, <1>4, ProductGrows
<1> QED BY <1>1, <1>5

\* One limit is forwarded, and it is the priced one.
LEMMA OneLimitIsPriced ==
  ASSUME NEW b \in Bodies, OneLimit(b), NEW n \in Outputs(b)
  PROVE  n \in Nat /\ n <= OutputTokens(b)
<1> DEFINE g == IF b.route = "/v1/responses" THEN "max_tokens" ELSE OutputField(b)
<1>1. g \in Fields /\ OutputTokens(b) \in Nat
  BY BodyTypes DEF Fields
<1>2. Stated(OutputTokens(b)) \in Limits /\ Stated(OutputTokens(b)).value = OutputTokens(b)
  BY <1>1 DEF Stated, Limits
<1>3. ForwardedLimits(b)[g] = Stated(OutputTokens(b))
  BY <1>1, BodyTypes DEF ForwardedLimits
<1>4. PICK f \in Fields : ForwardedLimits(b)[f] # None
                          /\ n <= ForwardedChoices(b) * ForwardedLimits(b)[f].value
  BY DEF Outputs
<1>5. f = g
  BY <1>1, <1>2, <1>3, <1>4, PricingAssumption DEF OneLimit
<1>6. ForwardedChoices(b) = 1
  BY DEF OneLimit
<1>7. n <= 1 * OutputTokens(b)
  BY <1>2, <1>3, <1>4, <1>5, <1>6
<1>8. n \in Nat
  BY DEF Outputs
<1> QED BY <1>1, <1>7, <1>8

\* The worst case really is one.
LEMMA ReservationCovers ==
  ASSUME NEW b \in Bodies, NEW price \in Prices, Priceable(b, price),
         OneLimit(b), AllReadable(price), NEW charge \in Charges(b, price)
  PROVE  Rounded(charge) <= Reservation(b, price)
<1> DEFINE P == maximumRate(price.prompt)
           C == maximumRate(price.completion)
<1>1. P \in Nat /\ \A r \in price.prompt : r.plain => r.pico <= P
  BY PriceTypes, MaximumBounds DEF Priceable
<1>2. C \in Nat /\ \A r \in price.completion : r.plain => r.pico <= C
  BY PriceTypes, MaximumBounds DEF Priceable
<1>3. PICK t \in 0..b.bytes, n \in Outputs(b), p \in price.prompt, q \in price.completion :
        charge = t * p.pico + n * q.pico
  BY DEF Charges
<1>4. p.pico \in Nat /\ q.pico \in Nat
  BY PriceTypes DEF Rates
<1>5. p.pico <= P /\ q.pico <= C
  BY <1>1, <1>2 DEF AllReadable
<1>6. b.bytes \in Nat /\ t \in Nat /\ t <= b.bytes
  BY BodyTypes
<1>7. n \in Nat /\ n <= OutputTokens(b) /\ OutputTokens(b) \in Nat
  BY OneLimitIsPriced, BodyTypes
<1> HIDE DEF P, C
<1>8. t * p.pico \in Nat /\ b.bytes * P \in Nat /\ t * p.pico <= b.bytes * P
  BY <1>1, <1>4, <1>5, <1>6, ProductGrows
<1>9. n * q.pico \in Nat /\ OutputTokens(b) * C \in Nat /\ n * q.pico <= OutputTokens(b) * C
  BY <1>2, <1>4, <1>5, <1>7, ProductGrows
<1>10. charge \in Nat /\ b.bytes * P + OutputTokens(b) * C \in Nat
       /\ charge <= b.bytes * P + OutputTokens(b) * C
  BY <1>3, <1>8, <1>9
<1>11. Rounded(charge) <= RoundedUp(b.bytes * P + OutputTokens(b) * C)
  BY <1>10, RoundingIsOrdered
<1> QED BY <1>11 DEF P, C, Reservation, PicoBound

\* A reservation is an amount.
LEMMA ReservationTypes ==
  ASSUME NEW b \in Bodies, NEW price \in Prices, Priceable(b, price)
  PROVE  Reservation(b, price) \in Nat
<1>1. maximumRate(price.prompt) \in Nat /\ maximumRate(price.completion) \in Nat
  BY PriceTypes, MaximumBounds DEF Priceable
<1>2. b.bytes * maximumRate(price.prompt) \in Nat
      /\ OutputTokens(b) * maximumRate(price.completion) \in Nat
  BY <1>1, BodyTypes, ProductGrows
<1>3. PicoBound(b, price) \in Nat
  BY <1>2 DEF PicoBound
<1> QED BY <1>3, RoundingIsOrdered DEF Reservation
-----------------------------------------------------------------------------
\* A priced handler has a body that could be priced at the rates it found.
PricedIsPriceable == \A h \in Requests :
  At(h, "priced") => Priceable(request[h].body, PriceOf(request[h].version))

IInv == TypeOK /\ PricedIsPriceable

LEMMA PublishedPrices ==
  ASSUME TypeOK, NEW version \in 1..Current
  PROVE  publications[version] \in Publication /\ PriceOf(version) \in Prices
<1>1. publications \in Seq(Publication)
  BY DEF TypeOK
<1>2. publications[version] \in Publication
  BY <1>1 DEF Current
<1> QED BY <1>2 DEF PriceOf, Publication

LEMMA InitIsCorrect == Init => IInv
<1> SUFFICES ASSUME Init PROVE IInv
  OBVIOUS
<1>1. PICK p \in Prices : publications = <<[price |-> p, from |-> 0]>>
  BY DEF Init
<1>2. now \in 0..MaxTime
  BY PricingAssumption DEF Init
<1>3. publications \in Seq(Publication) /\ Current = 1
  BY <1>1, PricingAssumption DEF Publication, Current
<1>4. request \in [Requests -> Handlers] /\ \A h \in Requests : request[h].pc = "idle"
  BY PricingAssumption DEF Init, NoRequest, Handlers
<1>5. TypeOK
  BY <1>2, <1>3, <1>4, PricingAssumption DEF Init, TypeOK
<1> QED BY <1>4, <1>5 DEF IInv, PricedIsPriceable, At

\* What pricing a body leaves in its handler.
LEMMA PricedHandler ==
  ASSUME TypeOK, NEW b \in Bodies, NEW version \in 1..Current
  PROVE  LET q == Priced(b, version)
         IN /\ q \in Handlers
            /\ q.pc \in {"priced", "refused"}
            /\ q.pc = "priced" => /\ q.body = b /\ q.version = version
                                  /\ Priceable(b, PriceOf(version))
<1>1. version \in Nat
  BY DEF TypeOK
<1>2. CASE Priceable(b, PriceOf(version))
  <2>1. Priced(b, version) = [pc |-> "priced", body |-> b, version |-> version, served |-> 0]
    BY <1>2 DEF Priced, NoRequest
  <2> QED BY <1>1, <1>2, <2>1, PricingAssumption DEF Handlers
<1>3. CASE ~Priceable(b, PriceOf(version))
  <2>1. Priced(b, version) = [pc |-> "refused", body |-> None, version |-> 0, served |-> 0]
    BY <1>3 DEF Priced, Ended, NoRequest
  <2> QED BY <2>1, PricingAssumption DEF Handlers
<1> QED BY <1>2, <1>3

\* What is left of the invariant, once a step has its handlers right.
LEMMA HandlersSuffice ==
  ASSUME TypeOK, PricedIsPriceable, NEW h \in Requests, NEW q \in Handlers,
         request' = [request EXCEPT ![h] = q],
         q.pc \in {"loading", "served", "priced"} => q.body # None,
         q.pc \in {"served", "priced"} => q.version \in 1..Current,
         q.pc = "priced" => Priceable(q.body, PriceOf(q.version)),
         UNCHANGED <<publications, now>>,
         catalogCache' \in Copies \cup {None},
         catalogCache' # None => catalogCache'.version \in 1..Current,
         settlement' \in Settlements \cup {None},
         settlement' # None => {settlement'.version, settlement'.at} \subseteq 1..Current
  PROVE  IInv'
<1>1. request' \in [Requests -> Handlers]
  BY DEF TypeOK
<1>2. \A g \in Requests : request'[g] = IF g = h THEN q ELSE request[g]
  BY DEF TypeOK
<1>3. Current' = Current /\ \A v \in Nat : PriceOf(v)' = PriceOf(v)
  BY DEF Current, PriceOf
<1>4. TypeOK'
  BY <1>1, <1>2, <1>3 DEF TypeOK
<1>5. PricedIsPriceable'
  BY <1>2 DEF PricedIsPriceable, At, PriceOf
<1> QED BY <1>4, <1>5 DEF IInv

\* What a step of Settle has in its hands.
LEMMA SettlementParts ==
  ASSUME IInv, NEW h \in Requests, Settle(h)
  PROVE  /\ request[h].body \in Bodies
         /\ request[h].version \in 1..Current /\ Current \in 1..Current
         /\ PriceOf(request[h].version) \in Prices /\ PriceOf(Current) \in Prices
         /\ Priceable(request[h].body, PriceOf(request[h].version))
<1> USE DEF IInv
<1>1. At(h, "priced")
  BY DEF Settle
<1>2. request[h].body \in Bodies /\ request[h].version \in 1..Current
  BY <1>1 DEF At, TypeOK, Handlers
<1>3. Current \in 1..Current
  BY DEF TypeOK, Current
<1> QED BY <1>1, <1>2, <1>3, PublishedPrices DEF PricedIsPriceable

LEMMA SettlementTypes ==
  ASSUME IInv, NEW h \in Requests, Settle(h)
  PROVE  settlement' \in Settlements /\ {settlement'.version, settlement'.at} \subseteq 1..Current
<1> DEFINE b == request[h].body
           v == request[h].version
<1>1. PICK charge \in Charges(b, PriceOf(Current)) : \E report \in Reports(Rounded(charge)) :
        settlement' = [body |-> b, version |-> v, at |-> Current, charge |-> charge,
                       reported |-> report.part # None \/ report.whole # None,
                       booked |-> Booked(request[h], report)]
  BY DEF Settle
<1>2. PICK report \in Reports(Rounded(charge)) :
        settlement' = [body |-> b, version |-> v, at |-> Current, charge |-> charge,
                       reported |-> report.part # None \/ report.whole # None,
                       booked |-> Booked(request[h], report)]
  BY <1>1
<1>3. b \in Bodies /\ v \in 1..Current /\ Current \in 1..Current
  BY SettlementParts
<1>4. charge \in Nat /\ Rounded(charge) \in Nat
  BY SettlementParts, ChargeTypes, RoundingIsOrdered
<1>5. extractCost(report) \in Nat \cup {None}
  BY <1>4 DEF Reports, extractCost
<1>6. Booked(request[h], report) \in Nat
  BY <1>5, SettlementParts, ReservationTypes DEF Booked
<1>7. v \in Nat /\ Current \in Nat
  BY <1>3 DEF IInv, TypeOK
<1> QED BY <1>2, <1>3, <1>4, <1>6, <1>7 DEF Settlements

LEMMA SettlementCovers ==
  ASSUME IInv, NEW h \in Requests, Settle(h)
  PROVE  BooksCoverCharge'
<1> DEFINE b == request[h].body
           v == request[h].version
<1>1. PICK charge \in Charges(b, PriceOf(Current)) : \E report \in Reports(Rounded(charge)) :
        settlement' = [body |-> b, version |-> v, at |-> Current, charge |-> charge,
                       reported |-> report.part # None \/ report.whole # None,
                       booked |-> Booked(request[h], report)]
  BY DEF Settle
<1>2. PICK report \in Reports(Rounded(charge)) :
        settlement' = [body |-> b, version |-> v, at |-> Current, charge |-> charge,
                       reported |-> report.part # None \/ report.whole # None,
                       booked |-> Booked(request[h], report)]
  BY <1>1
<1>3. charge \in Nat /\ Rounded(charge) \in Nat
  BY SettlementParts, ChargeTypes, RoundingIsOrdered
<1>4. report.part # None \/ report.whole # None => Booked(request[h], report) = Rounded(charge)
  BY <1>3, PricingAssumption DEF Reports, Booked, extractCost
<1>5. ~(report.part # None \/ report.whole # None) =>
        Booked(request[h], report) = Reservation(b, PriceOf(v))
  BY DEF Booked, extractCost
<1>6. ASSUME OneLimit(b), AllReadable(PriceOf(v)), PriceOf(Current) = PriceOf(v)
      PROVE  Rounded(charge) <= Reservation(b, PriceOf(v))
  BY <1>6, SettlementParts, ReservationCovers
<1>7. Reservation(b, PriceOf(v)) \in Nat
  BY SettlementParts, ReservationTypes
<1>8. publications' = publications
  BY DEF Settle
<1> HIDE DEF b, v
<1>10. /\ settlement'.body = b /\ settlement'.charge = charge
       /\ settlement'.version = v /\ settlement'.at = Current
       /\ settlement'.reported = (report.part # None \/ report.whole # None)
       /\ settlement'.booked = Booked(request[h], report)
  BY <1>2
<1>11. settlement'.reported => settlement'.booked = Rounded(settlement'.charge)
  BY <1>4, <1>10
<1>12. ASSUME OneLimit(b), AllReadable(PriceOf(v)), PriceOf(Current) = PriceOf(v)
       PROVE  Rounded(charge) <= settlement'.booked /\ settlement'.booked <= Reservation(b, PriceOf(v))
  BY <1>3, <1>4, <1>5, <1>6, <1>7, <1>10, <1>12
<1> QED BY <1>8, <1>10, <1>11, <1>12 DEF BooksCoverCharge, PriceOf

LEMMA StepKeepsIt == IInv /\ [Next]_vars => IInv'
<1> SUFFICES ASSUME IInv, [Next]_vars PROVE IInv'
  OBVIOUS
<1> USE DEF IInv
<1>1. ASSUME NEW h \in Requests, NEW b \in Bodies, Look(h, b)
      PROVE  IInv'
  <2> DEFINE q == IF Usable THEN Priced(b, catalogCache.version)
                  ELSE [request[h] EXCEPT !.pc = "loading", !.body = b]
  <2>1. request' = [request EXCEPT ![h] = q] /\ settlement' = None
        /\ UNCHANGED <<publications, now, catalogCache>>
    BY <1>1 DEF Look, TypeOK
  <2>2. /\ q \in Handlers
        /\ q.pc \in {"loading", "served", "priced"} => q.body # None
        /\ q.pc \in {"served", "priced"} => q.version \in 1..Current
        /\ q.pc = "priced" => Priceable(q.body, PriceOf(q.version))
    <3>1. CASE Usable
      <4>1. catalogCache.version \in 1..Current
        BY <3>1 DEF Usable, TypeOK
      <4> QED BY <3>1, <4>1, PricedHandler, PricingAssumption
    <3>2. CASE ~Usable
      <4>1. request[h] \in Handlers
        BY DEF TypeOK
      <4>2. q = [request[h] EXCEPT !.pc = "loading", !.body = b]
        BY <3>2
      <4>3. q \in Handlers /\ q.pc = "loading" /\ q.body = b
        BY <4>1, <4>2 DEF Handlers
      <4> QED BY <4>3, PricingAssumption
    <3> QED BY <3>1, <3>2
  <2>3. catalogCache' \in Copies \cup {None}
        /\ (catalogCache' # None => catalogCache'.version \in 1..Current)
    BY <2>1 DEF TypeOK
  <2> HIDE DEF q
  <2> QED BY <2>1, <2>2, <2>3, HandlersSuffice
<1>2. ASSUME NEW h \in Requests, Serve(h)
      PROVE  IInv'
  <2> DEFINE q == [request[h] EXCEPT !.pc = "served", !.version = Current, !.served = now]
  <2>1. request[h] \in Handlers /\ request[h].body # None
    BY <1>2 DEF Serve, At, TypeOK
  <2>2. Current \in 1..Current /\ Current \in Nat /\ now \in 0..MaxTime
    BY DEF TypeOK, Current
  <2>3. q \in Handlers /\ q.pc = "served" /\ q.body # None /\ q.version \in 1..Current
    BY <2>1, <2>2 DEF Handlers
  <2>4. request' = [request EXCEPT ![h] = q] /\ settlement' = None
        /\ UNCHANGED <<publications, now, catalogCache>>
    BY <1>2 DEF Serve, TypeOK
  <2>5. catalogCache' \in Copies \cup {None}
        /\ (catalogCache' # None => catalogCache'.version \in 1..Current)
    BY <2>4 DEF TypeOK
  <2> HIDE DEF q
  <2> QED BY <2>3, <2>4, <2>5, HandlersSuffice
<1>3. ASSUME NEW h \in Requests, Arrive(h)
      PROVE  IInv'
  <2> DEFINE q == Priced(request[h].body, request[h].version)
  <2>1. /\ request[h] \in Handlers
        /\ request[h].body \in Bodies /\ request[h].version \in 1..Current
    BY <1>3 DEF Arrive, At, TypeOK, Handlers
  <2>2. /\ q \in Handlers /\ q.pc \in {"priced", "refused"}
        /\ q.pc = "priced" => /\ q.body \in Bodies /\ q.version \in 1..Current
                              /\ Priceable(q.body, PriceOf(q.version))
    BY <2>1, PricedHandler
  <2>3. request' = [request EXCEPT ![h] = q] /\ settlement' = None
        /\ UNCHANGED <<publications, now>>
    BY <1>3 DEF Arrive, TypeOK
  <2>4. catalogCache' = [version |-> request[h].version, served |-> request[h].served,
                         arrived |-> now, expiresAt |-> now + TTL]
    BY <1>3 DEF Arrive
  <2>5. catalogCache' \in Copies /\ catalogCache'.version \in 1..Current
    <3>1. now \in 0..MaxTime /\ now + TTL \in 0..(MaxTime + TTL)
      BY PricingAssumption DEF TypeOK
    <3>2. request[h].served \in 0..MaxTime /\ request[h].version \in Nat
      BY <2>1 DEF Handlers
    <3> QED BY <2>1, <2>4, <3>1, <3>2 DEF Copies
  <2> HIDE DEF q
  <2> QED BY <2>2, <2>3, <2>5, HandlersSuffice, PricingAssumption
<1>4. ASSUME NEW h \in Requests, Unavailable(h)
      PROVE  IInv'
  <2>1. Ended("refused") \in Handlers /\ Ended("refused").pc = "refused"
    BY PricingAssumption DEF Ended, NoRequest, Handlers
  <2>2. request' = [request EXCEPT ![h] = Ended("refused")] /\ settlement' = None
        /\ UNCHANGED <<publications, now, catalogCache>>
    BY <1>4 DEF Unavailable
  <2>3. catalogCache' \in Copies \cup {None}
        /\ (catalogCache' # None => catalogCache'.version \in 1..Current)
    BY <2>2 DEF TypeOK
  <2> QED BY <2>1, <2>2, <2>3, HandlersSuffice
<1>5. ASSUME NEW h \in Requests, Settle(h)
      PROVE  IInv'
  <2>1. Ended("settled") \in Handlers /\ Ended("settled").pc = "settled"
    BY PricingAssumption DEF Ended, NoRequest, Handlers
  <2>2. request' = [request EXCEPT ![h] = Ended("settled")]
        /\ UNCHANGED <<publications, now, catalogCache>>
    BY <1>5 DEF Settle
  <2>3. catalogCache' \in Copies \cup {None}
        /\ (catalogCache' # None => catalogCache'.version \in 1..Current)
    BY <2>2 DEF TypeOK
  <2>4. settlement' \in Settlements /\ {settlement'.version, settlement'.at} \subseteq 1..Current
    BY <1>5, SettlementTypes
  <2> QED BY <2>1, <2>2, <2>3, <2>4, HandlersSuffice
<1>6. ASSUME NEW p \in Prices, Publish(p)
      PROVE  IInv'
  <2>1. publications' = Append(publications, [price |-> p, from |-> now])
        /\ UNCHANGED <<now, catalogCache, request>> /\ settlement' = None
    BY <1>6 DEF Publish
  <2>2. publications \in Seq(Publication) /\ Current \in Nat /\ Current <= MaxPublications
    BY <1>6 DEF Publish, TypeOK, Current
  <2>3. [price |-> p, from |-> now] \in Publication
    BY DEF TypeOK, Publication
  <2>4. publications' \in Seq(Publication) /\ Current' = Current + 1
    BY <2>1, <2>2, <2>3 DEF Current
  <2>5. \A v \in 1..Current : v \in 1..Current' /\ PriceOf(v)' = PriceOf(v)
    BY <2>1, <2>2, <2>4 DEF PriceOf, Current
  <2>6. TypeOK'
    BY <2>1, <2>2, <2>4, <2>5, PricingAssumption DEF TypeOK
  <2>7. PricedIsPriceable'
    <3> SUFFICES ASSUME NEW h \in Requests, At(h, "priced")
                 PROVE  Priceable(request[h].body, publications'[request[h].version].price)
      BY <2>1 DEF PricedIsPriceable, At, PriceOf
    <3>1. request[h].version \in 1..Current
      BY DEF At, TypeOK
    <3> QED BY <2>5, <3>1 DEF PricedIsPriceable, PriceOf
  <2> QED BY <2>6, <2>7
<1>7. ASSUME Tick
      PROVE  IInv'
  <2>1. UNCHANGED <<publications, catalogCache, request>> /\ settlement' = None
        /\ now' \in 0..MaxTime
    BY <1>7, PricingAssumption DEF Tick, TypeOK
  <2> QED BY <2>1 DEF TypeOK, PricedIsPriceable, At, PriceOf, Current
<1>8. ASSUME UNCHANGED vars
      PROVE  IInv'
  BY <1>8 DEF vars, TypeOK, PricedIsPriceable, At, PriceOf, Current
<1> QED BY <1>1, <1>2, <1>3, <1>4, <1>5, <1>6, <1>7, <1>8 DEF Next, Handle

\* TypeOK: every state is of the model's types, every handler and every copy of the
\* catalog shows rates Orbio has published (loadCatalog, proxyInference).
THEOREM TypeCorrect == Spec => []TypeOK
<1>1. IInv => TypeOK
  BY DEF IInv
<1> QED BY InitIsCorrect, StepKeepsIt, <1>1, PTL DEF Spec

\* BooksCoverCharge: what was reserved covers what the provider charges, for every
\* body, every pricing and any number of requests (priceBoundedCloudRequest).
THEOREM ReservationsCover == Spec => []BooksCoverCharge
<1>1. Init => BooksCoverCharge
  BY DEF Init, BooksCoverCharge
<1>2. IInv /\ BooksCoverCharge /\ [Next]_vars => BooksCoverCharge'
  <2> SUFFICES ASSUME IInv, BooksCoverCharge, [Next]_vars, settlement' # None
               PROVE  BooksCoverCharge'
    BY DEF BooksCoverCharge
  <2>1. CASE UNCHANGED vars
    BY <2>1 DEF vars, BooksCoverCharge, PriceOf
  <2>2. CASE \E h \in Requests : Settle(h)
    BY <2>2, SettlementCovers DEF IInv
  <2> QED BY <2>1, <2>2 DEF Next, Handle, Look, Serve, Arrive, Unavailable, Publish, Tick
<1> QED BY <1>1, <1>2, InitIsCorrect, StepKeepsIt, PTL DEF Spec
-----------------------------------------------------------------------------
\* An answer Orbio gave at served shows rates that were in force then: what came after
\* them was published no earlier.
InTime(version, served) ==
  /\ served <= now
  /\ version < Current => served <= publications[version + 1].from

\* So do all answers on their way, and the isolate's copy, which is used for TTL from
\* its arrival.
PublishedSince == \A v \in 1..Current : publications[v].from <= now
AnswersInTime  == \A h \in Requests :
                    At(h, "served") => InTime(request[h].version, request[h].served)
CopyInTime     == catalogCache # None =>
                    /\ InTime(catalogCache.version, catalogCache.served)
                    /\ catalogCache.served <= catalogCache.arrived
                    /\ catalogCache.arrived <= now
                    /\ catalogCache.expiresAt = catalogCache.arrived + TTL

CatalogInv == PublishedSince /\ AnswersInTime /\ CopyInTime

\* What was published when, and that the clock is a number.
LEMMA PublishedTimes ==
  ASSUME TypeOK
  PROVE  /\ now \in Nat /\ Current \in Nat
         /\ \A v \in 1..Current : publications[v].from \in Nat
<1>1. \A v \in 1..Current : publications[v] \in Publication
  BY DEF TypeOK, Current
<1> QED BY <1>1, PricingAssumption DEF TypeOK, Publication

\* The step of a handler: publications and the clock stay; the copy stays, or is in
\* time; no other handler moves.
LEMMA HandlerInTime ==
  ASSUME TypeOK, CatalogInv, NEW h \in Requests, NEW q,
         request' = [request EXCEPT ![h] = q], UNCHANGED <<publications, now>>,
         q.pc = "served" => InTime(q.version, q.served),
         CopyInTime'
  PROVE  CatalogInv'
<1>1. \A g \in Requests : request'[g] = IF g = h THEN q ELSE request[g]
  BY DEF TypeOK
<1>2. PublishedSince'
  BY DEF CatalogInv, PublishedSince, Current
<1>3. AnswersInTime'
  <2> SUFFICES ASSUME NEW g \in Requests, At(g, "served")'
               PROVE  InTime(request[g].version, request[g].served)'
    BY DEF AnswersInTime
  <2>1. CASE g = h
    <3>1. request'[g] = q /\ q.pc = "served"
      BY <1>1, <2>1 DEF At
    <3> QED BY <3>1 DEF InTime, Current
  <2>2. CASE g # h
    <3>1. request'[g] = request[g]
      BY <1>1, <2>2
    <3>2. InTime(request[g].version, request[g].served)
      BY <3>1 DEF CatalogInv, AnswersInTime, At
    <3> QED BY <3>1, <3>2 DEF InTime, Current
  <2> QED BY <2>1, <2>2
<1> QED BY <1>2, <1>3 DEF CatalogInv

\* A request priced or refused is not waiting for the catalog.
LEMMA PricedIsNoAnswer ==
  ASSUME NEW body, NEW version
  PROVE  /\ Priced(body, version).pc # "served"
         /\ Priced(body, version).pc = "priced" => Priced(body, version).version = version
BY DEF Priced, Ended, NoRequest

LEMMA CatalogStep == IInv /\ CatalogInv /\ [Next]_vars => CatalogInv'
<1> SUFFICES ASSUME IInv, CatalogInv, [Next]_vars PROVE CatalogInv'
  OBVIOUS
<1> USE DEF IInv
<1>1. ASSUME UNCHANGED <<publications, now, catalogCache>>
      PROVE  CopyInTime'
  BY <1>1 DEF CatalogInv, CopyInTime, InTime, Current
<1>2. ASSUME NEW h \in Requests, NEW b \in Bodies, Look(h, b)
      PROVE  CatalogInv'
  <2> DEFINE q == IF Usable THEN Priced(b, catalogCache.version)
                  ELSE [request[h] EXCEPT !.pc = "loading", !.body = b]
  <2>1. request' = [request EXCEPT ![h] = q] /\ UNCHANGED <<publications, now, catalogCache>>
    BY <1>2 DEF Look, TypeOK
  <2>2. q.pc # "served"
    <3>1. [request[h] EXCEPT !.pc = "loading", !.body = b].pc = "loading"
      BY DEF TypeOK, Handlers
    <3> QED BY <3>1, PricedIsNoAnswer
  <2> HIDE DEF q
  <2> QED BY <1>1, <2>1, <2>2, HandlerInTime
<1>3. ASSUME NEW h \in Requests, Serve(h)
      PROVE  CatalogInv'
  <2> DEFINE q == [request[h] EXCEPT !.pc = "served", !.version = Current, !.served = now]
  <2>1. request' = [request EXCEPT ![h] = q] /\ UNCHANGED <<publications, now, catalogCache>>
    BY <1>3 DEF Serve, TypeOK
  <2>2. q.version = Current /\ q.served = now
    BY DEF TypeOK, Handlers
  <2>3. InTime(q.version, q.served)
    BY <2>2, PublishedTimes DEF InTime
  <2> HIDE DEF q
  <2> QED BY <1>1, <2>1, <2>3, HandlerInTime
<1>4. ASSUME NEW h \in Requests, Arrive(h)
      PROVE  CatalogInv'
  <2> DEFINE q == Priced(request[h].body, request[h].version)
  <2>1. request' = [request EXCEPT ![h] = q] /\ UNCHANGED <<publications, now>>
    BY <1>4 DEF Arrive, TypeOK
  <2>2. q.pc # "served"
    BY PricedIsNoAnswer
  <2>3. InTime(request[h].version, request[h].served)
    BY <1>4 DEF Arrive, CatalogInv, AnswersInTime
  <2>4. catalogCache' = [version |-> request[h].version, served |-> request[h].served,
                         arrived |-> now, expiresAt |-> now + TTL]
    BY <1>4 DEF Arrive
  <2>5. CopyInTime'
    BY <2>1, <2>3, <2>4, PublishedTimes DEF CopyInTime, InTime, Current
  <2> HIDE DEF q
  <2> QED BY <2>1, <2>2, <2>5, HandlerInTime
<1>5. ASSUME NEW h \in Requests, Unavailable(h) \/ Settle(h)
      PROVE  CatalogInv'
  <2>1. PICK outcome \in {"refused", "settled"} : request' = [request EXCEPT ![h] = Ended(outcome)]
    BY <1>5 DEF Unavailable, Settle
  <2>2. Ended(outcome).pc # "served"
    BY DEF Ended, NoRequest
  <2>3. UNCHANGED <<publications, now, catalogCache>>
    BY <1>5 DEF Unavailable, Settle
  <2> QED BY <1>1, <2>1, <2>2, <2>3, HandlerInTime
<1>6. ASSUME NEW p \in Prices, Publish(p)
      PROVE  CatalogInv'
  <2>1. publications' = Append(publications, [price |-> p, from |-> now])
        /\ UNCHANGED <<now, catalogCache, request>>
    BY <1>6 DEF Publish
  <2>2. /\ Current' = Current + 1 /\ publications'[Current + 1].from = now
        /\ \A v \in 1..Current : publications'[v] = publications[v]
    BY <2>1, PublishedTimes DEF TypeOK, Current
  <2>3. now' = now
    BY <2>1
  <2>4. ASSUME NEW version \in 1..Current, NEW served \in 0..MaxTime, InTime(version, served)
        PROVE  InTime(version, served)'
    <3>1. CASE version < Current
      <4>1. version + 1 \in 1..Current /\ version < Current'
        BY <2>2, <3>1, PublishedTimes
      <4>2. publications'[version + 1] = publications[version + 1]
        BY <2>2, <4>1
      <4> QED BY <2>4, <2>3, <3>1, <4>2 DEF InTime
    <3>2. CASE version = Current
      <4>1. publications'[version + 1].from = now
        BY <2>2, <3>2
      <4> QED BY <2>4, <2>3, <4>1 DEF InTime
    <3> QED BY <3>1, <3>2, PublishedTimes
  <2>5. PublishedSince'
    <3> SUFFICES ASSUME NEW v \in 1..Current' PROVE publications'[v].from <= now'
      BY DEF PublishedSince
    <3>1. CASE v \in 1..Current
      BY <2>2, <2>3, <3>1 DEF CatalogInv, PublishedSince
    <3>2. CASE v = Current + 1
      BY <2>2, <2>3, <3>2, PublishedTimes
    <3> QED BY <2>2, <3>1, <3>2, PublishedTimes
  <2>6. AnswersInTime'
    <3> SUFFICES ASSUME NEW h \in Requests, At(h, "served")
                 PROVE  InTime(request[h].version, request[h].served)'
      BY <2>1 DEF AnswersInTime, At
    <3>1. request[h].version \in 1..Current /\ request[h].served \in 0..MaxTime
      BY DEF At, TypeOK, Handlers
    <3>2. InTime(request[h].version, request[h].served)
      BY DEF CatalogInv, AnswersInTime
    <3> QED BY <2>1, <2>4, <3>1, <3>2 DEF InTime
  <2>7. CopyInTime'
    <3> SUFFICES ASSUME catalogCache # None PROVE CopyInTime'
      BY <2>1 DEF CopyInTime
    <3>1. catalogCache.version \in 1..Current /\ catalogCache.served \in 0..MaxTime
      BY DEF TypeOK, Copies
    <3>2. InTime(catalogCache.version, catalogCache.served)
      BY DEF CatalogInv, CopyInTime
    <3> QED BY <2>1, <2>4, <3>1, <3>2 DEF CatalogInv, CopyInTime, InTime
  <2> QED BY <2>5, <2>6, <2>7 DEF CatalogInv
<1>7. ASSUME Tick
      PROVE  CatalogInv'
  <2>1. UNCHANGED <<publications, catalogCache, request>> /\ now' = now + 1
    BY <1>7 DEF Tick
  <2>2. ASSUME NEW t \in Nat, t <= now
        PROVE  t <= now'
    BY <2>1, <2>2, PublishedTimes
  <2>3. PublishedSince'
    BY <2>1, <2>2, PublishedTimes DEF CatalogInv, PublishedSince, Current
  <2>4. ASSUME NEW version, NEW served \in 0..MaxTime, InTime(version, served)
        PROVE  InTime(version, served)'
    BY <2>1, <2>2, <2>4, PricingAssumption DEF InTime, Current
  <2>5. AnswersInTime'
    BY <2>1, <2>4 DEF CatalogInv, AnswersInTime, At, TypeOK, Handlers, InTime, Current
  <2>6. CopyInTime'
    <3> SUFFICES ASSUME catalogCache # None PROVE CopyInTime'
      BY <2>1 DEF CopyInTime
    <3>1. catalogCache.served \in 0..MaxTime /\ catalogCache.arrived \in Nat
      BY PricingAssumption DEF TypeOK, Copies
    <3>2. InTime(catalogCache.version, catalogCache.served)
      BY DEF CatalogInv, CopyInTime
    <3>3. InTime(catalogCache.version, catalogCache.served)'
      BY <2>1, <2>4, <3>1, <3>2 DEF InTime, Current
    <3>4. catalogCache.arrived <= now'
      BY <2>2, <3>1 DEF CatalogInv, CopyInTime
    <3> QED BY <2>1, <3>3, <3>4 DEF CatalogInv, CopyInTime
  <2> QED BY <2>3, <2>5, <2>6 DEF CatalogInv
<1>8. ASSUME UNCHANGED vars
      PROVE  CatalogInv'
  BY <1>8 DEF vars, CatalogInv, PublishedSince, AnswersInTime, CopyInTime, InTime, At, Current
<1> QED BY <1>2, <1>3, <1>4, <1>5, <1>6, <1>7, <1>8 DEF Next, Handle

\* A request is priced from the copy, while that is used, or from an answer that has
\* just become the copy.
LEMMA PricedInTime ==
  ASSUME IInv, CatalogInv, NEW h \in Requests, Handle(h),
         request'[h].pc = "priced", ~At(h, "priced"), request'[h].version < Current
  PROVE  LET version == request'[h].version
             withdrawn == publications[version + 1].from
         IN \/ now < withdrawn + TTL
            \/ /\ catalogCache'.version = version
               /\ catalogCache'.served <= withdrawn /\ withdrawn <= catalogCache'.arrived
               /\ now < catalogCache'.arrived + TTL
<1> USE DEF IInv
<1> DEFINE version == request'[h].version
           withdrawn == publications[version + 1].from
<1>1. CASE \E b \in Bodies : Look(h, b)
  <2>1. PICK b \in Bodies : Look(h, b)
    BY <1>1
  <2>2. CASE Usable
    <3>1. request'[h] = Priced(b, catalogCache.version) /\ catalogCache' = catalogCache
      BY <2>1, <2>2 DEF Look, TypeOK
    <3>2. catalogCache # None /\ catalogCache.expiresAt > now
      BY <2>2 DEF Usable
    <3>3. version = catalogCache.version
      BY <3>1, PricedIsNoAnswer
    <3>4. version \in 1..Current /\ catalogCache.arrived \in Nat
      BY <3>2, <3>3, PricingAssumption DEF TypeOK, Copies
    <3>5. withdrawn \in Nat /\ now \in Nat
      BY <3>4, PublishedTimes
    <3>6. catalogCache.served <= withdrawn
      BY <3>2, <3>3 DEF CatalogInv, CopyInTime, InTime
    <3>7. now < catalogCache.arrived + TTL
      BY <3>2, <3>4, <3>5, PricingAssumption DEF CatalogInv, CopyInTime
    <3>8. CASE withdrawn <= catalogCache.arrived
      BY <3>1, <3>3, <3>6, <3>7, <3>8
    <3>9. CASE ~(withdrawn <= catalogCache.arrived)
      BY <3>4, <3>5, <3>7, <3>9, PricingAssumption
    <3> QED BY <3>8, <3>9
  <2>3. CASE ~Usable
    <3>1. request'[h] = [request[h] EXCEPT !.pc = "loading", !.body = b]
      BY <2>1, <2>3 DEF Look, TypeOK
    <3> QED BY <3>1 DEF TypeOK, Handlers
  <2> QED BY <2>2, <2>3
<1>2. CASE Arrive(h)
  <2>1. request'[h] = Priced(request[h].body, request[h].version)
    BY <1>2 DEF Arrive, TypeOK
  <2>2. version = request[h].version
    BY <2>1, PricedIsNoAnswer
  <2>3. catalogCache' = [version |-> request[h].version, served |-> request[h].served,
                         arrived |-> now, expiresAt |-> now + TTL]
    BY <1>2 DEF Arrive
  <2>4. version \in 1..Current
    BY <1>2, <2>2 DEF Arrive, At, TypeOK
  <2>5. withdrawn \in Nat /\ now \in Nat
    BY <2>4, PublishedTimes
  <2>6. request[h].served <= withdrawn
    BY <1>2, <2>2 DEF Arrive, CatalogInv, AnswersInTime, InTime
  <2>7. withdrawn <= now
    BY <2>4, PublishedTimes DEF CatalogInv, PublishedSince
  <2>8. now < now + TTL
    BY <2>5, PricingAssumption
  <2> QED BY <2>2, <2>3, <2>6, <2>7, <2>8
<1>3. CASE Serve(h)
  BY <1>3 DEF Serve, TypeOK, Handlers
<1>4. CASE Unavailable(h) \/ Settle(h)
  BY <1>4 DEF Unavailable, Settle, Ended, NoRequest, TypeOK
<1> QED BY <1>1, <1>2, <1>3, <1>4 DEF Handle

\* RatesAreRecent: for any number of requests, bodies and changes of the rates, and any
\* time the copy is used for, a request is priced at withdrawn rates only that long
\* after they were withdrawn, or after the answer arrived that was then on its way
\* (loadCatalog).
THEOREM PricesAreRecent == Spec => RatesAreRecent
<1>1. Init => CatalogInv
  <2> SUFFICES ASSUME Init PROVE CatalogInv
    OBVIOUS
  <2>1. PICK p \in Prices : publications = <<[price |-> p, from |-> 0]>>
    BY DEF Init
  <2>2. Current = 1 /\ publications[1].from = 0 /\ now = 0 /\ catalogCache = None
    BY <2>1 DEF Current, Init
  <2>3. \A h \in Requests : ~At(h, "served")
    BY DEF Init, At, NoRequest
  <2> QED BY <2>2, <2>3 DEF CatalogInv, PublishedSince, AnswersInTime, CopyInTime
<1> DEFINE Recent == \A h \in Requests :
      LET version == request'[h].version
      IN request'[h].pc = "priced" /\ ~At(h, "priced") /\ version < Current =>
           LET withdrawn == publications[version + 1].from
           IN \/ now < withdrawn + TTL
              \/ /\ catalogCache'.version = version
                 /\ catalogCache'.served <= withdrawn /\ withdrawn <= catalogCache'.arrived
                 /\ now < catalogCache'.arrived + TTL
<1>2. IInv /\ CatalogInv /\ [Next]_vars => [Recent]_vars
  <2> SUFFICES ASSUME IInv, CatalogInv, Next, NEW h \in Requests,
                      request'[h].pc = "priced", ~At(h, "priced"), request'[h].version < Current
               PROVE  LET version == request'[h].version
                          withdrawn == publications[version + 1].from
                      IN \/ now < withdrawn + TTL
                         \/ /\ catalogCache'.version = version
                            /\ catalogCache'.served <= withdrawn
                            /\ withdrawn <= catalogCache'.arrived
                            /\ now < catalogCache'.arrived + TTL
    BY Zenon
  <2>1. request' # request
    BY DEF At
  <2>2. PICK g \in Requests : Handle(g)
    BY <2>1 DEF Next, Publish, Tick
  <2>3. request'[h] # request[h]
    BY DEF At
  <2>4. g = h
    BY <2>2, <2>3 DEF Handle, Look, Serve, Arrive, Unavailable, Settle, IInv, TypeOK
  <2> QED BY <2>2, <2>4, PricedInTime
<1> QED BY <1>1, <1>2, InitIsCorrect, StepKeepsIt, CatalogStep, PTL DEF Spec, RatesAreRecent
=============================================================================
