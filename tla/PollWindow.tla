----------------------------- MODULE PollWindow -----------------------------
(***************************************************************************)
(* How web_server/mac/server_mac_poll.c adapts its poll timeout: one pass  *)
(* of main()'s loop is a poll(), the handling of what is ready, and        *)
(* update_sliding_window().  Time is in ticks, SEC to the second (the code *)
(* counts milliseconds: SEC = 1000); time() counts whole seconds.          *)
(***************************************************************************)
EXTENDS Integers

CONSTANTS
    SEC,                     \* ticks per second
    INITIAL_POLL_INTERVAL,   \* in ticks
    SLIDING_WINDOW,          \* in seconds
    MaxWork,                 \* bound: ticks a pass may spend on its clients
    MaxLate,                 \* bound: ticks by which poll() may overshoot
    MaxCount,                \* bound: passes of one window
    MaxTimeout               \* bound: the timeouts explored

WindowAssumption ==
    /\ SEC \in Nat \ {0} /\ SLIDING_WINDOW \in Nat \ {0}
    /\ INITIAL_POLL_INTERVAL \in Nat
    /\ MaxWork \in Nat /\ MaxLate \in Nat /\ MaxCount \in Nat \ {0}
    /\ MaxTimeout \in Nat

VARIABLES
    ticks,         \* time since the second windowStart names
    eventsCount,
    pollTimeout,
    passes,        \* history: the passes of this window, or of the last one
    longest        \* history: the longest of them

vars == <<ticks, eventsCount, pollTimeout, passes, longest>>

Init == /\ ticks \in 0 .. SEC - 1
        /\ eventsCount = 0
        /\ pollTimeout = INITIAL_POLL_INTERVAL
        /\ passes = 0
        /\ longest = 0

\* (int)(1000 / eventsPerSecond), with the division by eventsPerSecond > 0;
\* the doubles of the code may come out just below a whole number.
Interval(count, elapsed) ==
    LET exact == (SEC * elapsed) \div count
    IN  IF (SEC * elapsed) % count = 0 /\ exact > 0
        THEN {exact, exact - 1} ELSE {exact}

\* (mutant) only passes with a ready descriptor are counted
CountReady(ready) == IF ready THEN eventsCount + 1 ELSE eventsCount

\* (*eventsCount)++, once for every pass.
Count(ready) == eventsCount + 1

\* update_sliding_window(), at time now.
UpdateSlidingWindow(now, ready) ==
    LET count   == Count(ready)
        elapsed == now \div SEC
    IN  IF elapsed >= SLIDING_WINDOW
        THEN /\ IF count > 0 THEN pollTimeout' \in Interval(count, elapsed)
                             ELSE pollTimeout' = INITIAL_POLL_INTERVAL
             /\ ticks' = now - SEC * elapsed
             /\ eventsCount' = 0
        ELSE /\ eventsCount' = count
             /\ ticks' = now
             /\ UNCHANGED pollTimeout

\* A pass of duration d.
Pass(d, ready) ==
    /\ eventsCount < MaxCount /\ pollTimeout <= MaxTimeout
    /\ UpdateSlidingWindow(ticks + d, ready)
    /\ passes' = IF eventsCount = 0 THEN 1 ELSE passes + 1
    /\ longest' = IF eventsCount = 0 \/ d > longest THEN d ELSE longest

\* poll() returns early, and the ready descriptors are handled.
ReadyPass == \E wait \in 0 .. pollTimeout, work \in 0 .. MaxWork :
                Pass(wait + work, TRUE)

\* poll() returns 0 when the timeout has passed.
TimeoutPass == \E late \in 0 .. MaxLate : Pass(pollTimeout + late, FALSE)

Next == ReadyPass \/ TimeoutPass

Spec == Init /\ [][Next]_vars

-----------------------------------------------------------------------------
\* A negative timeout would make poll() wait for ever; a window is closed by
\* the first pass that ends SLIDING_WINDOW seconds after it began.
TypeOK == /\ ticks \in 0 .. SEC * SLIDING_WINDOW - 1
          /\ eventsCount \in 0 .. MaxCount
          /\ pollTimeout \in Nat
          /\ passes \in 0 .. MaxCount
          /\ longest \in Nat

(***************************************************************************)
(* The new timeout is at most the longest pass of the window that has just *)
(* ended, plus the part of a second time() hides: only a late or a long    *)
(* pass can make the timeout grow again once a burst has made it small     *)
(* (server_mac_poll.c:171-187).                                            *)
(***************************************************************************)
GrowsByLongPassesOnly ==
    eventsCount = 0 /\ passes > 0 =>
        pollTimeout * passes <= longest * passes + SEC - 1
=============================================================================
