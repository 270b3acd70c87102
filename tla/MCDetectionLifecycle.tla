------------------------ MODULE MCDetectionLifecycle ------------------------
(***************************************************************************)
(* A small instance of DetectionLifecycle: one signature and the manual    *)
(* reports.  A day of the model is thirty days of the category llm, in     *)
(* which a score halves, exp(-0.023 * 30) = 0.50, or twenty.  Dark AI      *)
(* detections decay twice as fast, exp(-0.046 * 30) = 0.25.                *)
(***************************************************************************)
EXTENDS DetectionLifecycle

EndpointHeavy == [endpoint_match |-> 40, identity_match |-> 20,
                  volume_match |-> 15, keyword_match |-> 25]

EndpointHeavyWeights == [s \in Signatures |-> EndpointHeavy]

ThirtyDayDecay == [t \in Tools |-> [age \in Ages |-> IF age = 0 THEN One ELSE One \div 2]]

ThirtyDayDarkDecay == [age \in Ages |-> IF age = 0 THEN One ELSE One \div 4]

LlmDecay == [t \in Tools |-> [age \in Ages |->
               CASE age = 0 -> One
                 [] age = 1 -> (One * 63) \div 100
                 [] age = 2 -> (One * 39) \div 100
                 [] OTHER   -> (One * 25) \div 100]]

TwentyDayDarkDecay == [age \in Ages |-> CASE age = 0 -> One
                                          [] age = 1 -> (One * 40) \div 100
                                          [] OTHER   -> (One * 16) \div 100]

\* The shape of AI use just at the threshold of the side channel.
AtDarkThreshold == {6 * (One \div 10)}

\* A connection to a host that no endpoint pattern covers: no finding by
\* itself, and one at the lowest score together with a mention.
UncoveredHost == {<<"endpoint_match", 0>>}

\* A connection to a host that a pattern covers exactly.
CoveredHost == {<<"endpoint_match", One>>}
=============================================================================
