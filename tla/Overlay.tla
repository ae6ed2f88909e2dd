------------------------------ MODULE Overlay ------------------------------
(***************************************************************************)
(* NeuralDeckService (redscript/NeuralDeck/NeuralDeckOverlay.reds): the    *)
(* End key opens and closes one popup.  Codeware owns the popup: Close     *)
(* only queues an event, the event starts a fade over several frames, and  *)
(* only the last frame calls OnHidden back into the service (the incident  *)
(* in docs/neuraldeck-close-reentrancy-2026-09-16.md).  A key may arrive   *)
(* between any two of these steps.  Nothing makes Codeware finish: later   *)
(* evidence (lines 26-30 of the script and section 5 of                    *)
(* docs/claude-session-mistakes-2026-09-15-16.md) is of one Close whose    *)
(* OnHidden never came, so a hide may stall for good and no fairness is    *)
(* assumed.                                                                *)
(***************************************************************************)
EXTENDS Naturals

CONSTANTS
    MaxPopups,   \* bound: popups made in one run of the game
    FadeFrames   \* frames of the fade-out

ASSUME OverlayAssumption == MaxPopups \in Nat /\ FadeFrames \in Nat \ {0}

VARIABLES
    hotkey,    \* m_hotkey: "unset", "registered" or "gone"
    overlay,   \* m_overlay: the popup, or 0
    closing,   \* m_closing
    manager,   \* CustomPopupManager: "missing", "created" or "ready"
    made,      \* popups made so far; the k-th one is popup k
    shown,     \* Codeware: the popups shown whose OnHidden has not come
    hides,     \* Codeware: HideCustomPopupEvents queued, per popup
    fade,      \* Codeware: frames left of a popup's fade-out, 0 when none runs
    stalled    \* Codeware: the popups whose hiding was given up half-way

serviceVars == << hotkey, overlay, closing >>
codewareVars == << manager, made, shown, hides, fade, stalled >>
ovars == << serviceVars, codewareVars >>

Popup == 1..MaxPopups

OInit ==
    /\ hotkey = "unset" /\ overlay = 0 /\ closing = FALSE
    /\ manager = "missing" /\ made = 0 /\ shown = {}
    /\ hides = [p \in Popup |-> 0] /\ fade = [p \in Popup |-> 0]
    /\ stalled = {}

-----------------------------------------------------------------------------
(* The service. *)

OnLoad ==
    /\ hotkey = "unset"
    /\ hotkey' = "registered"
    /\ UNCHANGED << overlay, closing, codewareVars >>

\* The popup, if there is one, is left to Codeware, and m_closing as it is.
OnUninitialize ==
    /\ hotkey = "registered"
    /\ hotkey' = "gone" /\ overlay' = 0
    /\ UNCHANGED << closing, codewareVars >>

\* A ToggleOverlay that closes again what is closing, for the mutants.
CloseOverlayAgain ==
    /\ overlay # 0
    /\ closing' = TRUE
    /\ hides' = [hides EXCEPT ![overlay] = 1]
    /\ UNCHANGED << hotkey, overlay, manager, made, shown, fade, stalled >>

\* ToggleOverlay with a popup: the first press closes it, the others are
\* ignored until it is hidden.
CloseOverlay ==
    /\ overlay # 0 /\ ~closing
    /\ closing' = TRUE
    /\ hides' = [hides EXCEPT ![overlay] = @ + 1]
    /\ UNCHANGED << hotkey, overlay, manager, made, shown, fade, stalled >>

\* ToggleOverlay without one: rejected until the popup manager is ready.
OpenOverlay ==
    /\ overlay = 0 /\ manager = "ready" /\ made < MaxPopups
    /\ made' = made + 1
    /\ overlay' = made + 1
    /\ shown' = shown \cup {made + 1}
    /\ UNCHANGED << hotkey, closing, manager, hides, fade, stalled >>

\* OnNeuralDeckKey for a press of End.
OnNeuralDeckKey == hotkey = "registered" /\ (CloseOverlay \/ OpenOverlay)

\* An OnOverlayHidden that forgets m_closing, for the mutants.
OnOverlayHiddenHalf(p) ==
    /\ overlay' = IF overlay = p THEN 0 ELSE overlay
    /\ UNCHANGED << hotkey, closing >>

OnOverlayHidden(p) ==
    /\ overlay' = IF overlay = p THEN 0 ELSE overlay
    /\ closing' = (IF overlay = p THEN FALSE ELSE closing)
    /\ UNCHANGED hotkey

-----------------------------------------------------------------------------
(* Codeware, as the incident's document and the later evidence describe it. *)

StartManager ==
    /\ manager # "ready"
    /\ manager' = IF manager = "missing" THEN "created" ELSE "ready"
    /\ UNCHANGED << serviceVars, made, shown, hides, fade, stalled >>

\* OnHideCustomPopup: Detach, OnDetach; the fade starts, or starts over.
ProcessHide(p) ==
    /\ hides[p] > 0
    /\ hides' = [hides EXCEPT ![p] = @ - 1]
    /\ fade' = IF p \in shown THEN [fade EXCEPT ![p] = FadeFrames] ELSE fade
    /\ UNCHANGED << serviceVars, manager, made, shown, stalled >>

\* A frame; the last one is OnHideFinish, which calls OnHidden.
Frame(p) ==
    /\ fade[p] > 0
    /\ fade' = [fade EXCEPT ![p] = @ - 1]
    /\ IF fade[p] = 1
       THEN shown' = shown \ {p} /\ OnOverlayHidden(p)
       ELSE UNCHANGED << shown, serviceVars >>
    /\ UNCHANGED << manager, made, hides, stalled >>

\* A hide event that is lost, or a fade that never finishes: OnHidden will not
\* come, and every later press finds m_closing set.
HideStalls(p) ==
    /\ hides[p] > 0 \/ fade[p] > 0
    /\ hides' = [hides EXCEPT ![p] = 0]
    /\ fade' = [fade EXCEPT ![p] = 0]
    /\ stalled' = stalled \cup {p}
    /\ UNCHANGED << serviceVars, manager, made, shown >>

ONext ==
    \/ OnLoad \/ OnUninitialize \/ OnNeuralDeckKey \/ StartManager
    \/ \E p \in Popup : ProcessHide(p) \/ Frame(p) \/ HideStalls(p)

OSpec == OInit /\ [][ONext]_ovars

-----------------------------------------------------------------------------
OTypeOK ==
    /\ hotkey \in {"unset", "registered", "gone"}
    /\ overlay \in Popup \cup {0} /\ closing \in BOOLEAN
    /\ manager \in {"missing", "created", "ready"}
    /\ made \in 0..MaxPopups /\ shown \subseteq Popup
    /\ hides \in [Popup -> 0..1] /\ fade \in [Popup -> 0..FadeFrames]
    /\ stalled \subseteq Popup

\* Codeware has begun to hide popup p and has not called OnHidden.
Hiding(p) == hides[p] > 0 \/ fade[p] > 0 \/ p \in stalled

\* The service and the popups stay in step whenever keys are pressed: while the
\* service runs, m_overlay is the one popup shown, and m_closing says that its
\* hiding was begun - once: queued, fading or stalled, never two of these.  So
\* no popup is left that the service has forgotten, and OnHidden always ends
\* m_closing; that OnHidden comes is not said.
OverlayInStep ==
    /\ OTypeOK
    /\ hotkey # "gone" =>
          /\ shown = {overlay} \ {0}
          /\ closing <=> \E p \in shown : Hiding(p)
    /\ \A p \in Popup : hides[p] > 0 => fade[p] = 0
    /\ \A p \in Popup : Hiding(p) => p \in shown
    /\ \A p \in stalled : hides[p] = 0 /\ fade[p] = 0

\* What Codeware has yet to do before popup p's OnHidden.
StepsLeft(p) == IF hides[p] > 0 THEN FadeFrames + 1 ELSE fade[p]

\* No step puts off the OnHidden of a popup whose closing was begun: however
\* keys are pressed, the service does not Close it again, so no fade starts
\* over (what the comment in ToggleOverlay is about).
NeverPutOff ==
    [][\A p \in Popup : Hiding(p) => StepsLeft(p)' <= StepsLeft(p)]_ovars
=============================================================================
