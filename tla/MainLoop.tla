------------------------------ MODULE MainLoop ------------------------------
(***************************************************************************)
(* The loop at the end of both main functions (main.cpp, main_ap.cpp):     *)
(* serve the serial console, and change the LED every second.              *)
(*                                                                         *)
(* to_ms_since_boot is a counter that wraps.  A turn of the loop takes as  *)
(* long as serial_poll does.                                               *)
(***************************************************************************)
EXTENDS Integers

CONSTANTS
    TICKS,      \* the millisecond counter is modulo this (2^32 in the code)
    PERIOD,     \* 1000 in the code
    MAX_TURN    \* longest time from one look at the clock to the next

ASSUME LoopAssumption ==
    /\ TICKS \in Nat \ {0} /\ PERIOD \in Nat \ {0} /\ MAX_TURN \in Nat \ {0}
    /\ PERIOD + MAX_TURN < TICKS

VARIABLES
    now,            \* the counter
    prev_time,
    led_state,      \* what the LED is set to next
    led,            \* the LED
    turn,           \* time since the loop last looked at the clock
    \* history:
    since           \* true time since the LED was last set, or since start

vars == <<now, prev_time, led_state, led, turn, since>>

Init ==
    /\ now \in 0 .. TICKS - 1 /\ prev_time = now
    /\ led_state = FALSE /\ led \in BOOLEAN
    /\ turn = 0 /\ since = 0

Tick ==
    /\ turn < MAX_TURN
    /\ now' = (now + 1) % TICKS
    /\ turn' = turn + 1 /\ since' = since + 1
    /\ UNCHANGED <<prev_time, led_state, led>>

(* Fault on purpose: the counter is compared, not the elapsed time.        *)
DueFault == now >= prev_time + PERIOD
(* Fault on purpose: the distance is taken, whichever time is later.       *)
DueSignFault == (IF now >= prev_time THEN now - prev_time ELSE prev_time - now) >= PERIOD
Due == (now - prev_time) % TICKS >= PERIOD

(* serial_poll has returned.                                               *)
Turn ==
    /\ turn' = 0
    /\ IF Due
       THEN /\ led' = led_state /\ led_state' = ~led_state
            /\ prev_time' = now /\ since' = 0
       ELSE UNCHANGED <<led, led_state, prev_time, since>>
    /\ UNCHANGED now

Next == Tick \/ Turn

Spec == Init /\ [][Next]_vars

-----------------------------------------------------------------------------
(* Properties.                                                             *)

(* The LED is never overdue by more than one turn of the loop, also when   *)
(* the counter wraps between two changes.                                  *)
LedOnTime == since < PERIOD + MAX_TURN

(* The LED is never changed early, wherever the counter wraps.             *)
LedNeverEarly == [][led_state' # led_state => since >= PERIOD]_vars

=============================================================================
