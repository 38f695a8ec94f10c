----------------------------- MODULE RateLimiter -----------------------------
(***************************************************************************)
(* The fixed-window rate limit of one user, shared by all their sockets.   *)
(*                                                                         *)
(* A frame takes its window from the replica's clock, and is counted by    *)
(* INCR and EXPIRE, in one transaction, when they reach Redis: that may be *)
(* up to MaxDelay later, in the next window.  Each window has a key of its *)
(* own, which lives for the length of a window after the last count on it. *)
(***************************************************************************)
EXTENDS Integers, FiniteSets

CONSTANTS
    Sockets,        \* the user's sockets, on any replica
    Limit,          \* WS_RATE_LIMIT_MESSAGES (0 disables the limiter: no model)
    Window,         \* WS_RATE_LIMIT_WINDOW_SECONDS
    MaxDelay,       \* bound: ticks between reading the clock and counting
    MaxTime,        \* bound: ticks of the clock
    MaxFrames       \* bound: frames received in one tick

ASSUME RateLimiterAssumption ==
    /\ Limit \in Nat \ {0} /\ Window \in Nat \ {0}
    /\ MaxDelay \in Nat /\ MaxTime \in Nat /\ MaxFrames \in Nat

Times == 0..MaxTime
Windows == {t \div Window : t \in Times}
None == -1

VARIABLES
    clock,
    counter,        \* counter[w] and expires[w]: the key of window w
    expires,
    reachable,      \* Redis answers
    arrived,        \* when the frame a socket is handling came
    frames,         \* bound counter: frames received in this tick
    passed,         \* history: passed[t] of the frames of t were within the limit
    counted,        \* history: frames counted for a window
    refused,        \* history: windows with a refused frame
    reset           \* history: windows whose key had expired when a frame was counted

vars == <<clock, counter, expires, reachable, arrived, frames, passed, counted, refused,
          reset>>

\* Every variable has its type, and a key is gone a window after its last count.
TypeOK ==
    /\ clock \in Times
    /\ counter \in [Windows -> Nat]
    /\ \A w \in DOMAIN expires : expires[w] \in 0..(clock + Window)
    /\ reachable \in BOOLEAN
    /\ arrived \in [Sockets -> Times \cup {None}]
    /\ frames \in 0..MaxFrames
    /\ passed \in [Times -> Nat]
    /\ counted \in [Windows -> Nat]
    /\ refused \in SUBSET Windows
    /\ reset \in SUBSET Windows

Init ==
    /\ clock = 0
    /\ counter = [w \in Windows |-> 0]
    /\ expires = [w \in Windows |-> 0]
    /\ reachable = TRUE
    /\ arrived = [s \in Sockets |-> None]
    /\ frames = 0
    /\ passed = [t \in Times |-> 0]
    /\ counted = [w \in Windows |-> 0]
    /\ refused = {}
    /\ reset = {}
-----------------------------------------------------------------------------
(* Faults: variants of the definitions below that the properties tell from  *)
(* the code                                                                 *)

\* One key for all windows, which each frame keeps alive.
OneKey(t) == 0

\* One frame too many is within the limit.
WithinOne(count) == count <= Limit + 1
-----------------------------------------------------------------------------
\* RedisRateLimiter._key.
KeyOf(t) == t \div Window

\* What INCR returns: it begins anew on a key that has expired.
Incremented(w) == IF clock < expires[w] THEN counter[w] + 1 ELSE 1

\* RedisRateLimiter.allow.
Within(count) == count <= Limit

\* What EXPIRE is given.
Lifetime == Window

\* A frame arrives on a socket, which handles one at a time.
Receive(s) ==
    /\ arrived[s] = None
    /\ frames < MaxFrames
    /\ frames' = frames + 1
    /\ arrived' = [arrived EXCEPT ![s] = clock]
    /\ UNCHANGED <<clock, counter, expires, reachable, passed, counted, refused,
                   reset>>

\* The transaction reaches Redis.
Increment(s) ==
    /\ arrived[s] # None
    /\ reachable
    /\ LET w == KeyOf(arrived[s]) IN
          /\ counter' = [counter EXCEPT ![w] = Incremented(w)]
          /\ expires' = [expires EXCEPT ![w] = clock + Lifetime]
    /\ counted' = [counted EXCEPT ![arrived[s] \div Window] = @ + 1]
    /\ reset' = IF counted[arrived[s] \div Window] > 0 /\ Incremented(KeyOf(arrived[s])) = 1
                  THEN reset \cup {arrived[s] \div Window} ELSE reset
    /\ arrived' = [arrived EXCEPT ![s] = None]
    /\ UNCHANGED <<clock, reachable, frames>>

Allow(s) ==
    /\ Increment(s)
    /\ Within(Incremented(KeyOf(arrived[s])))
    /\ passed' = [passed EXCEPT ![arrived[s]] = @ + 1]
    /\ UNCHANGED refused

Refuse(s) ==
    /\ Increment(s)
    /\ ~Within(Incremented(KeyOf(arrived[s])))
    /\ refused' = refused \cup {arrived[s] \div Window}
    /\ UNCHANGED passed

\* The reply is lost: the frame was counted, and is let through (fail open).
AllowUnanswered(s) ==
    /\ Increment(s)
    /\ UNCHANGED <<passed, refused>>

\* Redis does not answer: the frame is let through without being counted.
AllowUncounted(s) ==
    /\ arrived[s] # None
    /\ ~reachable
    /\ arrived' = [arrived EXCEPT ![s] = None]
    /\ UNCHANGED <<clock, counter, expires, reachable, frames, passed, counted, refused,
                   reset>>

\* The clock goes on; no frame waits longer than MaxDelay.
Tick ==
    /\ clock < MaxTime
    /\ \A s \in Sockets : arrived[s] # None => clock < arrived[s] + MaxDelay
    /\ clock' = clock + 1
    /\ frames' = 0
    /\ UNCHANGED <<counter, expires, reachable, arrived, passed, counted, refused, reset>>

\* Redis goes away, or comes back with its keys.
Toggle ==
    /\ reachable' = ~reachable
    /\ UNCHANGED <<clock, counter, expires, arrived, frames, passed, counted, refused, reset>>

LetThrough(s) == Allow(s) \/ AllowUnanswered(s) \/ AllowUncounted(s)

Next ==
    \/ Tick \/ Toggle
    \/ \E s \in Sockets : Receive(s) \/ LetThrough(s) \/ Refuse(s)

Spec == Init /\ [][Next]_vars
-----------------------------------------------------------------------------
(* Properties; frames let through because Redis failed are not counted *)

PassedIn(S) == Cardinality(UNION {{t} \X (1..passed[t]) : t \in S \cap Times})

Ticks(w) == (w * Window)..(w * Window + Window - 1)

\* "Counts a user's attempts per fixed time window, allowing at most limit of
\* them": whatever the sockets and replicas they come from, unless the window's
\* key had expired when a last frame of the window was counted.  And "a client
\* ... can send up to 2 * limit back to back across the boundary", but no more in
\* any time as long as a window, even so: provided that a count reaches Redis
\* within a tick of the clock reading its key was made of.  Counts that come later
\* can begin two windows anew, one after the other.
QuotaHolds ==
    /\ \A w \in Windows \ reset : PassedIn(Ticks(w)) <= Limit
    /\ MaxDelay <= 1 => \A t \in Times : PassedIn(t..(t + Window - 1)) <= 2 * Limit

\* Re-applying the TTL does not starve a busy client: a frame is refused only if
\* its own window has had its limit of frames.
NoEarlyRefusal == \A w \in refused : counted[w] > Limit
=============================================================================
