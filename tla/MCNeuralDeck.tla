---------------------------- MODULE MCNeuralDeck ----------------------------
(***************************************************************************)
(* NeuralDeck for TLC: the deck's state in the plugin and its overlay in   *)
(* the game's scripts, which run side by side in one process and meet only *)
(* in the player.  MaxRequestBytes is 1, so the last text is refused.      *)
(***************************************************************************)
EXTENDS NeuralDeck, Overlay

MCByte == {"a", "b"}
MCSource == { <<"a">>, <<"a", "b">> }

MCInit == Init /\ OInit
MCNext == (Next /\ UNCHANGED ovars) \/ (ONext /\ UNCHANGED vars)

MCSpec == MCInit /\ [][MCNext]_<< vars, ovars >> /\ WF_vars(Owner)
=============================================================================
