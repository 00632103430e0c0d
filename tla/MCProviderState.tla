--------------------------- MODULE MCProviderState ---------------------------
(* Two providers, one with an API key that is rotated.  The first snapshot    *)
(* has both and neither probes them nor lets through what is blocked; the     *)
(* second has one of them only and does both.                                 *)
EXTENDS ProviderState, TLC

CONSTANTS r1, pa, pb, k1, ses, s1, s2

MCPolicy ==
  s1 :> [providers |-> {pa, pb}, keys |-> pa :> {k1} @@ pb :> {}, guarded |-> TRUE,
         threshold |-> 1, cooldown |-> 1, quota |-> 2, passthrough |-> 0,
         sticky |-> 1, health |-> FALSE] @@
  s2 :> [providers |-> {pa}, keys |-> pa :> {k1} @@ pb :> {}, guarded |-> TRUE,
         threshold |-> 2, cooldown |-> 2, quota |-> 0, passthrough |-> 1,
         sticky |-> 0, health |-> TRUE]

(* One provider, which has no models endpoint; the passthrough comes after the *)
(* cooldown, as in the defaults.                                               *)
MCProbedPolicy ==
  s1 :> [providers |-> {pb}, keys |-> pa :> {} @@ pb :> {}, guarded |-> TRUE,
         threshold |-> 2, cooldown |-> 2, quota |-> 2, passthrough |-> 2,
         sticky |-> 0, health |-> TRUE]
MCWell == pa :> {"ok"} @@ pb :> {"ok"}

MCAnswers == pa :> {"ok", "denied"} @@ pb :> {"quota"}
MCProbeAnswers == pa :> {"ok"} @@ pb :> {"refused"}
=============================================================================
