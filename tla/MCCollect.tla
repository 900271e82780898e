----------------------------- MODULE MCCollect ------------------------------
(* Pages of two records and up to four records, so that a slice may have   *)
(* no page, part of one, exactly one, one and a half, or exactly two.      *)
(* Records of every day in the first slice, of the first day in the other  *)
(* slices.                                                                 *)
EXTENDS Collect

MCDays == 1..3
MCBookings == {[day |-> 1, slice |-> 1], [day |-> 2, slice |-> 1], [day |-> 1, slice |-> 2]}

=============================================================================
