---------------------------- MODULE MCMediaViews ----------------------------
(* The parts of the frontend around media that work on their own, checked  *)
(* side by side: a behaviour is one of one part, the others keep their     *)
(* initial state, so the states are the sum of the parts' and not their    *)
(* product.                                                                *)
EXTENDS LocalMedia, RemoteVideo, Quality, Player, Overlays, TLC

VARIABLE part

mediaViewsVars == <<part, mediaVars, remoteVars, qualityVars, playerVars, overlayVars>>

R(inLoss, inJitter, outLoss, outJitter, rtt) ==
    "inLoss" :> inLoss @@ "inJitter" :> inJitter @@ "outLoss" :> outLoss
        @@ "outJitter" :> outJitter @@ "rtt" :> rtt

(* One sample without a value, and each direction with every level.        *)
SomeReports ==
    {R("none", "none", "none", "none", "none")}
        \union {R(a, "good", "none", "good", e) : a \in Measured, e \in Measured}
        \union {R("good", "good", "none", d, "none") : d \in Measured}

(* Only the player's own behaviours start with several tracks.             *)
Init ==
    /\ part \in {"media", "remote", "quality", "player", "overlays"}
    /\ MediaInit /\ RemoteInit /\ QualityInit /\ OverlayInit
    /\ PlayerInit /\ (part # "player" => queue = 1)

Next ==
    /\ UNCHANGED part
    /\ \/ part = "media" /\ MediaNext
       \/ part # "media" /\ UNCHANGED mediaVars
    /\ \/ part = "remote" /\ RemoteNext
       \/ part # "remote" /\ UNCHANGED remoteVars
    /\ \/ part = "quality" /\ QualityNext
       \/ part # "quality" /\ UNCHANGED qualityVars
    /\ \/ part = "player" /\ PlayerNext
       \/ part # "player" /\ UNCHANGED playerVars
    /\ \/ part = "overlays" /\ OverlayNext
       \/ part # "overlays" /\ UNCHANGED overlayVars

Spec == Init /\ [][Next]_mediaViewsVars
=============================================================================
