------------------------------ MODULE MCServices ------------------------------
(***************************************************************************)
(* The parts that call a provider and wait for it: managed messages, live  *)
(* demos and outbound webhooks.  A behaviour runs one of them and leaves   *)
(* the others in their initial state: the models share no variable.        *)
(***************************************************************************)
EXTENDS MessageDelivery, DemoSession, Outbox, TLC

CONSTANT Services

VARIABLE service

servicesVars == <<service, vars, demoVars, outboxVars>>

ServicesInit == Init /\ DemoInit /\ OutboxInit /\ service \in Services

ServicesNext ==
  \/ service = "messages" /\ Next /\ UNCHANGED <<service, demoVars, outboxVars>>
  \/ service = "demo" /\ DemoNext /\ UNCHANGED <<service, vars, outboxVars>>
  \/ service = "outbox" /\ OutboxNext /\ UNCHANGED <<service, vars, demoVars>>

\* Nothing of a part that does not run is enabled, so its fairness asks nothing.
ServicesSpec ==
  ServicesInit /\ [][ServicesNext]_servicesVars /\ Fairness /\ DemoFairness /\ OutboxFairness

-----------------------------------------------------------------------------
\* One delivery of an event and one of a test, to different endpoints.
PostSet == {[endpoint |-> "e", occasion |-> "event"], [endpoint |-> "f", occasion |-> "test"]}
WantsSet == [e \in Endpoints |-> {"event"}]
=============================================================================
