--------------------------- MODULE RadioTimestamp ---------------------------
(***************************************************************************)
(* The receive time of a frame (RecoverReceiveTimestampNanoseconds of      *)
(* ESPressio_Raw80211Radio.hpp).  The Wi-Fi driver stamps a frame with the *)
(* low 32 bits of its microsecond clock; the callback, some time later,    *)
(* makes of that stamp and of the 64-bit monotonic clock the time in       *)
(* nanoseconds at which the frame arrived.                                 *)
(*                                                                         *)
(* Clocks of any width: a wrap of the stamp, 2^32 in the code, is          *)
(* 2 * HalfWrap, and 2^64 is Modulus.  Unsigned arithmetic that is only    *)
(* added and multiplied is reduced modulo 2^64 once, at the end.           *)
(***************************************************************************)
EXTENDS Integers

CONSTANTS
    HalfWrap,   \* 2^31: half a wrap of the driver's stamp
    Epochs,     \* 2^32: wraps of the stamp in the 64-bit clock
    Scale,      \* MicrosecondsToNanoseconds
    Times       \* bound: microseconds at which frames arrive and callbacks run

ASSUME ClockAssumption ==
    /\ HalfWrap \in Nat \ {0} /\ Epochs \in Nat \ {0} /\ Scale \in Nat \ {0}
    /\ Times \subseteq Int

Wrap    == 2 * HalfWrap
Modulus == Epochs * Wrap

-----------------------------------------------------------------------------
(* Mutation: a plausible mistake in the code.  No specification uses it.      *)

\* A stamp from behind the wrap that the clock has yet to come to is not expected.
NearestInThePast(now, receive) ==
    IF receive - now > HalfWrap THEN receive - Wrap ELSE receive

-----------------------------------------------------------------------------
\* Of the times with a frame's stamp, given the one in the clock's epoch, the
\* one nearest to the clock: that one, or its like in a neighbouring epoch.
Nearest(now, receive) ==
    CASE receive - now > HalfWrap -> receive - Wrap
      [] now - receive > HalfWrap -> receive + Wrap
      [] OTHER -> receive

RecoverReceiveTimestampNanoseconds(now, stamp) ==
    LET wrapBase == now - (now % Wrap)
    IN  (Nearest(now, wrapBase + stamp) * Scale) % Modulus

-----------------------------------------------------------------------------
\* The callback that runs at time now makes of a frame's stamp the time at which
\* the frame arrived, whatever wraps in between, if that is less than half a
\* wrap away.  The driver's clock may be ahead of the monotonic one, or behind it:
\* a time before the monotonic 0 is recorded modulo 2^64.
StampsAreRecovered ==
    \A now \in Times \cap Nat, arrived \in Times :
        now - arrived \in -(HalfWrap - 1) .. HalfWrap - 1 =>
            RecoverReceiveTimestampNanoseconds(now, arrived % Wrap)
                = (arrived * Scale) % Modulus
=============================================================================
