------------------------------- MODULE MCMtc -------------------------------
(***************************************************************************)
(* Small instance of Mtc: some frames on either side of 16:00:00:00, where *)
(* all digits change.                                                      *)
(***************************************************************************)
EXTENDS Mtc

Sixteen == 16 * 3600 * Fps

MCFirst == 4 * (Sixteen - 6)
MCLast == 4 * (Sixteen + 6)
MCStarts == (MCFirst .. MCFirst + 7) \cup {MCLast}

MCTargets == {Sixteen - 2}
=============================================================================
