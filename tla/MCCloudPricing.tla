---------------------------- MODULE MCCloudPricing ----------------------------
EXTENDS CloudPricing, TLC

RequestSymmetry == Permutations(Requests)

Rate(pico) == [plain |-> TRUE, pico |-> pico]

\* Rates of a fraction of a micro-dollar, so that rounding counts; a price raised by
\* overrides one of which is not read, and a model without rates.
MCPrices == {[prompt |-> {Rate(300000)}, completion |-> {Rate(700000), Rate(0)}],
             [prompt |-> {Rate(400000), [plain |-> FALSE, pico |-> 900000]},
              completion |-> {Rate(1300000)}],
             [prompt |-> {}, completion |-> {Rate(700000)}]}

Number(n) == [number |-> TRUE, value |-> n]
Text(n)   == [number |-> FALSE, value |-> n]
NoLimits  == [f \in Fields |-> None]

Body(route, limits) == [route |-> route, bytes |-> 1, limits |-> limits, choices |-> 1,
                        media |-> FALSE]

\* A body without a limit, one with two limits, one whose limit is a string and that
\* asks for two choices, one with a limit above the maximum, one with an image, and a
\* Responses request.
MCBodies ==
  {Body("/v1/chat/completions", NoLimits),
   Body("/v1/chat/completions", [NoLimits EXCEPT !["max_completion_tokens"] = Number(1),
                                                 !["max_tokens"] = Number(2)]),
   [Body("/v1/chat/completions", [NoLimits EXCEPT !["max_completion_tokens"] = Text(2)])
      EXCEPT !.choices = 2],
   Body("/v1/messages", [NoLimits EXCEPT !["max_tokens"] = Number(3)]),
   [Body("/v1/messages", NoLimits) EXCEPT !.media = TRUE],
   Body("/v1/responses", [NoLimits EXCEPT !["max_output_tokens"] = Text(2),
                                          !["max_tokens"] = Number(1)])}
=============================================================================
