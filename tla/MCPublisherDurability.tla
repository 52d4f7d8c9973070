----------------------- MODULE MCPublisherDurability -----------------------
(***************************************************************************)
(* Instance of PublisherDurability for TLC.  Calls that are killed and made*)
(* again move the alias to and fro without a sync, and every move is one   *)
(* more pending change, so the kills between two power losses are bounded. *)
(***************************************************************************)
EXTENDS PublisherDurability

CONSTANT MaxKills

VARIABLE kills

MCInit == Init /\ kills = 0

MCNext ==
    \/ (\E v \in Versions : Start(v)) /\ UNCHANGED kills
    \/ (Skip \/ Replace \/ Sync \/ Return) /\ UNCHANGED kills
    \/ Kill /\ kills < MaxKills /\ kills' = kills + 1
    \/ PowerLoss /\ kills' = 0

MCSpec == MCInit /\ [][MCNext]_<<vars, kills>>
=============================================================================
