----------------------------- MODULE MCPeriods ------------------------------
(* Two leap years' neighbourhoods, 2024 and the century 2100 that is none; *)
(* custom periods at the edges of what validate_period lets through.       *)
EXTENDS Periods

MCYears == {2023, 2024, 2025, 2099, 2100, 2101}
MCBegins == {-364, -1, 0, 1}
MCSpans == {-1, 0, 363, 364, 365}

=============================================================================
