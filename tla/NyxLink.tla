-------------------------------- MODULE NyxLink --------------------------------
(***************************************************************************)
(* What the stack promises of its link to a server (the MQTT broker): one  *)
(* connection at a time, up only after it was set up, and a new attempt    *)
(* only once the old connection is closed.                                 *)
(***************************************************************************)
VARIABLE link

LinkInit == link = "down"

Attempt == link = "down" /\ link' \in {"connecting", "lost"}

Establish == link = "connecting" /\ link' = "up"

Lose == link \in {"connecting", "up"} /\ link' = "lost"

Release == link' = "down"

LinkNext == Attempt \/ Establish \/ Lose \/ Release

LinkSpec == LinkInit /\ [][LinkNext]_link
================================================================================
