------------------------ MODULE MCResponseOrchestrator ------------------------
(* Instances of ResponseOrchestrator for TLC. *)
EXTENDS ResponseOrchestrator

CONSTANTS c1, c2

MCCalls == {c1, c2}
Do(s, p) == [skill |-> s, critical |-> p]
\* A skill the tier lets through, one it does not, one outside the registry.
MCPlans == {<<Do("enable-mfa", FALSE), Do("isolate-host", TRUE)>>,
            <<Do("unmapped", FALSE), Do("notify-soc-team", FALSE), Do("block-ip", TRUE)>>}
===============================================================================
