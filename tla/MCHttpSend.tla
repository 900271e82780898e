----------------------------- MODULE MCHttpSend -----------------------------
(* HTTP_MAX_RETRIES from a negative setting up to seven, the first at      *)
(* which pauses without the cap (63.5 s) exceed eight seconds per retry.   *)
EXTENDS HttpSend

MCSettings == {-1, 0, 1, 3, 7}

\* What _raise_client_error raises: Bitget tells refusals apart, BitMart also
\* refusals and throttling (HTTP 418 and two business codes).
BitgetClientErrors == {"api", "auth"}
BitmartClientErrors == {"api", "auth", "ratelimit"}

=============================================================================
