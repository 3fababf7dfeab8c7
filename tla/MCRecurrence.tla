---------------------------- MODULE MCRecurrence ----------------------------
(***************************************************************************)
(* Days of three hours and months of three or four days.  One series at    *)
(* the end of each month, one every third day, one every week at the hour  *)
(* that summer time skips.                                                 *)
(***************************************************************************)
EXTENDS Recurrence, TLC

CONSTANTS monthly, daily, weekly

MCFirstDay == <<0, 4, 7, 11, 15, 18, 22, 26>>
MCWinter == -1

MCFrequencyOf   == (monthly :> "MONTHLY") @@ (daily :> "DAILY") @@ (weekly :> "WEEKLY")
MCInterval      == (monthly :> 1) @@ (daily :> 3) @@ (weekly :> 1)
MCFirstDeadline == (monthly :> 11) @@ (daily :> 9) @@ (weekly :> 4)
MCEndsAt        == (monthly :> 100) @@ (daily :> 35) @@ (weekly :> 100)
=============================================================================
