--------------------------- MODULE MCLocalRuntime ---------------------------
(* Instances of LocalRuntime for TLC.                                      *)
EXTENDS LocalRuntime, TLC

CONSTANTS ask, image, recap, back, warm
Text(m) == [model |-> m, vision |-> FALSE]
Image(m) == [model |-> m, vision |-> TRUE]

(* A recap, a background pass and a screen ask that needs the projector.   *)
MixedKind == recap :> "recap" @@ back :> "background" @@ image :> "ask"
MixedWants == recap :> Text("a") @@ back :> Text("b") @@ image :> Image("a")

(* One user, who asks and warms the same model.                            *)
OneUserKind == ask :> "ask" @@ warm :> "prewarm"
OneUserWants == ask :> Text("a") @@ warm :> Text("a")

Windows == <<"vulkan", "cpu">>
Mac == <<"mac">>
=============================================================================
