--------------------------- MODULE MCWiFiPlatform ---------------------------
(* Model-checking instance of WiFiPlatform: a client that retries, with an    *)
(* access point until it is connected, and an access point alone, applied in  *)
(* turn; the clock turns over every few ticks, and two of them may pass       *)
(* between two calls of Poll.                                                 *)
EXTENDS WiFiPlatform

Setups == { [mode |-> "apUntilClient", client |-> "single", reconnect |-> TRUE],
            [mode |-> "off", client |-> "off", reconnect |-> FALSE],
            Default }
=============================================================================
