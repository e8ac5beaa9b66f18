------------------------------ MODULE MCTelemetry ------------------------------
\* Bodies of the four kinds, with and without an operation, and what is not accepted.
EXTENDS Telemetry, TLC

CONSTANTS c1, c2, op1

Posted(base_type, operation, at, failed) ==
  [form |-> "object", base_type |-> base_type, operation |-> operation, at |-> at,
   failed |-> failed]

MCBreezeBodies ==
  {<<Posted("RequestData", op1, 2, FALSE), [form |-> "scalar"],
     Posted("ExceptionData", NoOperation, 1, FALSE)>>,
   <<[form |-> "unparsable"], Posted("EventData", op1, 1, TRUE)>>,
   <<Posted("Unheard", NoOperation, 1, FALSE)>>}
MCLogBodies    == {<<[traceId |-> "zeroes", at |-> 1]>>}
MCSpanBodies   ==
  {<<[traceId |-> op1, kind |-> 3, at |-> 1, code |-> 2],
     [traceId |-> op1, kind |-> 5, at |-> 2, code |-> 1]>>}
MCMetricBodies == {<<[at |-> 1]>>}
Symmetry       == Permutations(Clients)
=============================================================================
