-------------------------- MODULE MCModelStreaming --------------------------
(* Two layers in sequence that share a resource.                            *)
EXTENDS ModelStreaming, TLC

CONSTANTS weights, cache

MCResources == {weights, cache}
MCInputs    == (1 :> {weights}) @@ (2 :> {weights, cache})
MCDependsOn == (1 :> {}) @@ (2 :> {1})
=============================================================================
