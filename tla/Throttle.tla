------------------------------ MODULE Throttle ------------------------------
(***************************************************************************)
(* The token bucket of throttle.rs.  Time is counted in windows of the     *)
(* limit, so that a limit of n bytes is a rate and a burst of n.  idle is  *)
(* the time since the bucket was last refilled: it is refilled only when   *)
(* it is used.  due is history: what the bucket holds if it is refilled at *)
(* every instant, at the rate that rules at that instant.                  *)
(***************************************************************************)
EXTENDS Integers

Least(a, b) == IF a < b THEN a ELSE b

from_rate_window(bytes) ==
    [rate |-> bytes, capacity |-> bytes, tokens |-> bytes, idle |-> 0, due |-> bytes]

Pass(b, most) == [b EXCEPT !.idle = Least(@ + 1, most), !.due = Least(@ + b.rate, b.capacity)]

refill(b) == [b EXCEPT !.tokens = Least(@ + b.idle * b.rate, b.capacity), !.idle = 0]

\* Tokens may go negative: what has been promised and not yet refilled.
reserve(b, n) == [refill(b) EXCEPT !.tokens = @ - n, !.due = @ - n]

has(b, n) == refill(b).tokens >= n

\* The time that has passed is credited at the old rate before the new one rules.
update_rate_window(b, bytes) ==
    [refill(b) EXCEPT !.rate = bytes, !.capacity = bytes, !.tokens = Least(@, bytes),
                           !.due = Least(@, bytes)]

\* Throttle::police for the one bucket a UDP flow has: a datagram that is dropped costs nothing.
police(b, n) == IF has(b, n) THEN reserve(b, n) ELSE refill(b)
=============================================================================
