---------------------------- MODULE MCCoreReplay ----------------------------
(* One instance of a two-node flow: publish (gated) and retract.            *)
EXTENDS CoreReplay

MCActions == {"publish", "retract"}
MCDeclared == [draft |-> {"publish"}, published |-> {"retract"}]
MCTarget == [publish |-> "published", retract |-> "draft"]
MCGated == {"publish"}

(* The second step is refused, or waits for a human, or takes effect. *)
MCPlans == {<<"publish", "publish">>, <<"retract", "publish">>}
=============================================================================
