------------------------- MODULE MCLifecycleCallbacks -------------------------
(* Instances of LifecycleCallbacks for TLC. *)
EXTENDS LifecycleCallbacks

\* Everything, the kinds of the UI context, and the others.
SomeConfigs == {Kind, NodeKinds, {"WINDOW", "ABILITY"}, {"CUSTOM_COMPONENT"}}

=============================================================================
