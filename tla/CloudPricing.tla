---------------------------- MODULE CloudPricing ----------------------------
(***************************************************************************)
(* What a request to the Cloud Worker is reserved, charged and booked at:  *)
(* the catalog cache of an isolate (loadCatalog of                         *)
(* cloudflare/worker/index.ts), priceBoundedCloudRequest, the translation  *)
(* of a Responses request and the cost extraction of src/cloudflare/core.ts.*)
(*                                                                         *)
(* Orbio publishes rates and changes them; requests load them, through a   *)
(* copy all requests of the isolate share; the provider charges for the    *)
(* body that was forwarded, at the rates of the day, and reports the cost  *)
(* or does not.  Amounts are what the code has: rates are pico-dollars per *)
(* token, reservations and bookings are micro-dollars.                     *)
(*                                                                         *)
(* The coordinator's side of a reservation is GuardCoordinator; here only  *)
(* its amount matters.                                                     *)
(***************************************************************************)
EXTENDS Naturals, Sequences

CONSTANTS
  Requests,         \* handler activations
  Bodies,           \* the bodies clients send
  Prices,           \* the pricings Orbio may publish for the model
  MaxOutput,        \* 65536 in the code
  DefaultOutput,    \* 1024 in the code
  TTL,              \* how long a copy of the catalog is used, 300 s in the code
  MaxTime,          \* bound of the clock
  MaxPublications,  \* bound: changes of the rates
  None

Fields == {"max_tokens", "max_completion_tokens", "max_output_tokens"}
Routes == {"/v1/chat/completions", "/v1/messages", "/v1/responses"}

\* A rate string: plain is whether parsePicoUsd reads it ("1e-6" it does not).
Rates == [plain : BOOLEAN, pico : Nat]

\* The rates of the base price and of its overrides.
Pricings == [prompt : SUBSET Rates, completion : SUBSET Rates]

\* A limit a body states, as a number or as anything else Number() can read; 0
\* stands for all that is no integer in range.
Limits == [number : BOOLEAN, value : Nat]

\* What prices a body: its length in bytes, its limits, the number of choices it
\* asks for, whether a part of it is an image, a sound or a video.
BodyType == [route : Routes, bytes : Nat, limits : [Fields -> Limits \cup {None}],
             choices : Nat \ {0}, media : BOOLEAN]

Readable(rates) == {r.pico : r \in {x \in rates : x.plain}}

\* A pricing is a finite list, so the readable rates have a maximum if there are any.
HasMaximum(rates) == Readable(rates) # {} =>
                       \E m \in Readable(rates) : \A r \in Readable(rates) : r <= m

ASSUME PricingAssumption ==
  /\ MaxOutput \in Nat /\ DefaultOutput \in 1..MaxOutput
  /\ TTL \in Nat \ {0} /\ MaxTime \in Nat /\ MaxPublications \in Nat
  /\ Bodies \subseteq BodyType /\ Prices \subseteq Pricings
  /\ \A p \in Prices : HasMaximum(p.prompt) /\ HasMaximum(p.completion)
  /\ None \notin Bodies /\ None \notin Limits /\ None \notin Nat

VARIABLES
  publications,  \* the pricings Orbio has published, the last of which is in force
  now,
  catalogCache,  \* the isolate's copy of the catalog
  request,       \* the handlers
  settlement     \* what the last step settled, if it settled a request

vars == <<publications, now, catalogCache, request, settlement>>
-----------------------------------------------------------------------------
PicoPerMicro == 1000000

maximumRate(rates) ==
  CHOOSE m \in Readable(rates) : \A r \in Readable(rates) : r <= m

\* The limit that is priced: one field, chosen by the route and by whether
\* max_completion_tokens is a number.
OutputField(b) ==
  LET completion == b.limits["max_completion_tokens"]
  IN IF b.route = "/v1/responses" THEN "max_output_tokens"
     ELSE IF completion # None /\ completion.number THEN "max_completion_tokens"
     ELSE "max_tokens"

OutputTokens(b) == LET limit == b.limits[OutputField(b)]
                   IN IF limit = None THEN DefaultOutput ELSE limit.value

\* A bug a change could bring in: the last fraction of a micro-dollar is dropped.
RoundedDown(pico) == pico \div PicoPerMicro

RoundedUp(pico) == (pico + (PicoPerMicro - 1)) \div PicoPerMicro

\* Math.round of what the provider reports.
Rounded(pico) == (pico + (PicoPerMicro \div 2)) \div PicoPerMicro

\* priceBoundedCloudRequest throws unless these hold.
Priceable(b, price) ==
  /\ ~b.media
  /\ Readable(price.prompt) # {} /\ Readable(price.completion) # {}
  /\ OutputTokens(b) \in 1..MaxOutput

PicoBound(b, price) == b.bytes * maximumRate(price.prompt)
                         + OutputTokens(b) * maximumRate(price.completion)

Reservation(b, price) == RoundedUp(PicoBound(b, price))
-----------------------------------------------------------------------------
Stated(n) == [number |-> TRUE, value |-> n]

\* The limits in the body that is forwarded: the priced field is set, others stay;
\* a Responses request becomes a chat request with that one limit.
ForwardedLimits(b) ==
  IF b.route = "/v1/responses"
  THEN [f \in Fields |-> IF f = "max_tokens" THEN Stated(OutputTokens(b)) ELSE None]
  ELSE [b.limits EXCEPT ![OutputField(b)] = Stated(OutputTokens(b))]

ForwardedChoices(b) == IF b.route = "/v1/responses" THEN 1 ELSE b.choices

\* How many tokens the provider may return: it respects one of the limits it is
\* sent, for each choice.
Outputs(b) == {n \in 0..(ForwardedChoices(b) * MaxOutput) :
  \E f \in Fields : /\ ForwardedLimits(b)[f] # None
                    /\ n <= ForwardedChoices(b) * ForwardedLimits(b)[f].value}

\* What it may charge: a token stands for at least one byte, and any of the rates
\* may be the one that applies.
Charges(b, price) ==
  {t * p.pico + n * q.pico : t \in 0..b.bytes, n \in Outputs(b),
                             p \in price.prompt, q \in price.completion}

\* The costs in an answer: that of the whole is in the last event of a stream that
\* has one, or outermost in a body; before it or inside it may be those of parts.
Reports(cost) == {[part |-> None, whole |-> None], [part |-> cost, whole |-> None],
                  [part |-> None, whole |-> cost], [part |-> 0, whole |-> cost]}

\* A bug a change could bring in: the first cost a stream reports is taken.
FirstCost(report) == IF report.part # None THEN report.part ELSE report.whole

\* extractCloudStreamCostMicroUsd keeps the latest cost; findCost looks at an
\* object's own usage before it looks into its parts.
extractCost(report) == IF report.whole # None THEN report.whole ELSE report.part
-----------------------------------------------------------------------------
\* What Orbio published, and since when.
Publication == [price : Prices, from : 0..MaxTime]

\* A copy of the catalog: which publication it shows, when Orbio answered with it,
\* when it arrived, until when it is used.
Copies == [version : Nat, served : 0..MaxTime, arrived : 0..MaxTime,
           expiresAt : 0..(MaxTime + TTL)]

\* A handler: its body, the publication it has, and when Orbio answered with it.
Handlers == [pc : {"idle", "loading", "served", "priced", "refused", "settled"},
             body : Bodies \cup {None}, version : Nat, served : 0..MaxTime]

Settlements == [body : Bodies, version : Nat, at : Nat,
                charge : Nat, reported : BOOLEAN, booked : Nat]

NoRequest == [pc |-> "idle", body |-> None, version |-> 0, served |-> 0]

PriceOf(version) == publications[version].price
Current == Len(publications)

TypeOK ==
  /\ now \in 0..MaxTime
  /\ publications \in Seq(Publication) /\ Current \in 1..(MaxPublications + 1)
  /\ catalogCache \in Copies \cup {None}
  /\ catalogCache # None => catalogCache.version \in 1..Current
  /\ request \in [Requests -> Handlers]
  /\ \A h \in Requests :
       /\ request[h].pc \in {"loading", "served", "priced"} => request[h].body # None
       /\ request[h].pc \in {"served", "priced"} => request[h].version \in 1..Current
  /\ settlement \in Settlements \cup {None}
  /\ settlement # None => {settlement.version, settlement.at} \subseteq 1..Current

Init ==
  /\ now = 0 /\ catalogCache = None /\ settlement = None
  /\ publications \in {<<[price |-> p, from |-> 0]>> : p \in Prices}
  /\ request = [h \in Requests |-> NoRequest]
-----------------------------------------------------------------------------
At(h, pc) == request[h].pc = pc
Ended(outcome) == [NoRequest EXCEPT !.pc = outcome]

\* The catalog is there: the request is priced or refused.  A model that is not in
\* the catalog is refused as one without rates is.
Priced(body, version) ==
  IF Priceable(body, PriceOf(version))
  THEN [NoRequest EXCEPT !.pc = "priced", !.body = body, !.version = version]
  ELSE Ended("refused")

\* A bug a change could bring in: the copy is used at the moment it expires.
UsableAtExpiry == catalogCache # None /\ catalogCache.expiresAt >= now

Usable == catalogCache # None /\ catalogCache.expiresAt > now

\* loadCatalog: the isolate's copy, or else a request to Orbio.
Look(h, b) ==
  /\ At(h, "idle")
  /\ request' = [request EXCEPT ![h] = IF Usable THEN Priced(b, catalogCache.version)
                                       ELSE [@ EXCEPT !.pc = "loading", !.body = b]]
  /\ settlement' = None
  /\ UNCHANGED <<publications, now, catalogCache>>

\* Orbio answers; the answer is on its way.
Serve(h) ==
  /\ At(h, "loading")
  /\ request' = [request EXCEPT ![h].pc = "served", ![h].version = Current, ![h].served = now]
  /\ settlement' = None
  /\ UNCHANGED <<publications, now, catalogCache>>

\* The answer replaces the isolate's copy, whatever arrived there meanwhile.
Arrive(h) ==
  /\ At(h, "served")
  /\ catalogCache' = [version |-> request[h].version, served |-> request[h].served,
                      arrived |-> now, expiresAt |-> now + TTL]
  /\ request' = [request EXCEPT ![h] = Priced(@.body, @.version)]
  /\ settlement' = None
  /\ UNCHANGED <<publications, now>>

\* The request for the catalog fails or its answer is not ok.
Unavailable(h) ==
  /\ At(h, "loading") \/ At(h, "served")
  /\ request' = [request EXCEPT ![h] = Ended("refused")]
  /\ settlement' = None
  /\ UNCHANGED <<publications, now, catalogCache>>

\* A bug a change could bring in: an answer without a cost is booked as it is.
BookedAsReported(q, report) == extractCost(report)

\* What confirm is called with: the reported cost, or the whole reservation.
Booked(q, report) ==
  IF extractCost(report) # None THEN extractCost(report)
  ELSE Reservation(q.body, PriceOf(q.version))

\* The provider charges at today's rates and its answer is settled.
Settle(h) ==
  LET q == request[h]
  IN /\ At(h, "priced")
     /\ \E charge \in Charges(q.body, PriceOf(Current)) : \E report \in Reports(Rounded(charge)) :
          settlement' = [body |-> q.body, version |-> q.version, at |-> Current,
                         charge |-> charge, reported |-> report.part # None \/ report.whole # None,
                         booked |-> Booked(q, report)]
     /\ request' = [request EXCEPT ![h] = Ended("settled")]
     /\ UNCHANGED <<publications, now, catalogCache>>

\* Orbio changes the rates of the model.
Publish(p) ==
  /\ Current <= MaxPublications
  /\ p # PriceOf(Current)
  /\ publications' = Append(publications, [price |-> p, from |-> now])
  /\ settlement' = None
  /\ UNCHANGED <<now, catalogCache, request>>

Tick == /\ now < MaxTime /\ now' = now + 1
        /\ settlement' = None
        /\ UNCHANGED <<publications, catalogCache, request>>

Handle(h) == \/ \E b \in Bodies : Look(h, b)
             \/ Serve(h) \/ Arrive(h) \/ Unavailable(h) \/ Settle(h)

Next == (\E h \in Requests : Handle(h)) \/ (\E p \in Prices : Publish(p)) \/ Tick

Spec == Init /\ [][Next]_vars
-----------------------------------------------------------------------------
\* Only the priced limit is sent, for one choice: so is every Responses request.
OneLimit(b) == /\ ForwardedChoices(b) = 1
               /\ \A f, g \in Fields :
                    ForwardedLimits(b)[f] # None /\ ForwardedLimits(b)[g] # None => f = g

AllReadable(price) == \A r \in price.prompt \cup price.completion : r.plain

\* The worst case really is one (priceBoundedCloudRequest, SECURITY.md:55): unless
\* the rates were changed after they were looked up, had a form that is not read, or
\* the body leaves the provider a second limit, what it charges, and what is then
\* booked, is within the reservation; and a cost that is reported, in the last event of
\* a stream or on the outside of a body, is what is booked.
BooksCoverCharge == settlement # None =>
  LET b == settlement.body
      price == PriceOf(settlement.version)
      charged == Rounded(settlement.charge)
  IN /\ settlement.reported => settlement.booked = charged
     /\ OneLimit(b) /\ AllReadable(price) /\ PriceOf(settlement.at) = price
          => charged <= settlement.booked /\ settlement.booked <= Reservation(b, price)

\* A request is priced at rates Orbio has withdrawn only during the five minutes
\* after that, or, when they came in an answer that was on its way at the time, after
\* its arrival: no concurrent load and no use of the copy keeps old rates longer
\* (loadCatalog).
RatesAreRecent == [][\A h \in Requests :
  LET version == request'[h].version
  IN request'[h].pc = "priced" /\ ~At(h, "priced") /\ version < Current =>
       LET withdrawn == publications[version + 1].from
       IN \/ now < withdrawn + TTL
          \/ /\ catalogCache'.version = version
             /\ catalogCache'.served <= withdrawn /\ withdrawn <= catalogCache'.arrived
             /\ now < catalogCache'.arrived + TTL]_vars
=============================================================================
