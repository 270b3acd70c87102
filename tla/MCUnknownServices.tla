------------------------- MODULE MCUnknownServices --------------------------
(***************************************************************************)
(* One host that the registry does not know, behind a relay.  Its signals: *)
(* too few calls; steady calls without timing; the same with the timing    *)
(* of a model; bulk transfers; and a model called by few.                  *)
(***************************************************************************)
EXTENDS UnknownServices

Relay == [h \in Hosts |-> {"api.", "versioned", "proxy"}]

Quiet == [network |-> TRUE, calls |-> 4, days |-> 0, silent |-> 0, port |-> Absent,
          latency |-> Absent, variance |-> Absent, gap |-> Absent,
          request |-> Absent, response |-> Absent, reuse |-> Absent]

Steady == [Quiet EXCEPT !.calls = 800, !.days = 3]

ModelTiming(signal) ==
  [signal EXCEPT !.latency = 900, !.variance = 1500, !.gap = 9000,
                 !.request = 400, !.response = 9000, !.reuse = 80]

Bulk == [Steady EXCEPT !.latency = 30, !.variance = 20, !.gap = 40,
                       !.request = 9000, !.response = 400, !.reuse = 20]

Samples == {Quiet, Steady, ModelTiming(Steady), Bulk, ModelTiming(Quiet)}
=============================================================================
