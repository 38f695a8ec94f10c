------------------------ MODULE SocketSession_proofs ------------------------
(***************************************************************************)
(* Proofs about RateLimiter and SocketSession, for any sockets, limits,    *)
(* windows and time-outs: no frame is refused before its window is full,   *)
(* no more pass than the quota, and every frame has one answer.            *)
(***************************************************************************)
EXTENDS SocketSession, FiniteSetTheorems, TLAPS

-----------------------------------------------------------------------------
(***************************************************************************)
(* 1. The rate limit                                                       *)
(*                                                                         *)
(* Redis may forget a count, when a key expires, and never makes one up.   *)
(***************************************************************************)

\* A key counts frames of its own window only, and does not count one twice.
CountsAreReal == \A w \in Windows : counter[w] <= counted[w]

LimiterInv == TypeOK /\ CountsAreReal /\ NoEarlyRefusal

LEMMA LimiterInit == Init => LimiterInv
<1>. SUFFICES ASSUME Init PROVE LimiterInv
  OBVIOUS
<1>1. 0 \in Times
  BY RateLimiterAssumption DEF Times
<1>2. TypeOK
  BY <1>1, RateLimiterAssumption DEF Init, TypeOK
<1>. QED
  BY <1>2 DEF Init, LimiterInv, CountsAreReal, NoEarlyRefusal

\* A frame that is counted is counted for its own window, once; the key may begin
\* anew meanwhile.
LEMMA IncrementStep ==
    ASSUME LimiterInv, NEW s \in Sockets, Increment(s)
    PROVE  /\ arrived[s] \in Times /\ KeyOf(arrived[s]) \in Windows
           /\ UNCHANGED <<clock, reachable, frames>>
           /\ arrived' \in [Sockets -> Times \cup {None}]
           /\ counter' \in [Windows -> Nat] /\ counted' \in [Windows -> Nat]
           /\ \A w \in DOMAIN expires' : expires'[w] \in 0..(clock + Window)
           /\ reset' \in SUBSET Windows
           /\ CountsAreReal'
           /\ \A w \in Windows : counted[w] <= counted'[w]
           /\ Incremented(KeyOf(arrived[s])) <= counted'[KeyOf(arrived[s])]
<1>. DEFINE w == KeyOf(arrived[s])
            n == Incremented(w)
<1>1. TypeOK /\ clock \in Nat
  BY RateLimiterAssumption DEF LimiterInv, TypeOK, Times
<1>2. arrived[s] \in Times /\ w \in Windows
  BY <1>1 DEF Increment, TypeOK, KeyOf, Windows
<1>3. n \in Nat /\ n <= counter[w] + 1 /\ n <= counted[w] + 1
  BY <1>1, <1>2 DEF Incremented, TypeOK, LimiterInv, CountsAreReal
<1>4. /\ counter' = [counter EXCEPT ![w] = n]
      /\ expires' = [expires EXCEPT ![w] = clock + Window]
      /\ counted' = [counted EXCEPT ![w] = @ + 1]
      /\ reset' \in {reset, reset \cup {w}}
      /\ arrived' = [arrived EXCEPT ![s] = None]
      /\ UNCHANGED <<clock, reachable, frames>>
  BY DEF Increment, KeyOf, Lifetime
<1>5. \A v \in DOMAIN expires' : expires'[v] \in 0..(clock + Window)
  BY <1>1, <1>4, RateLimiterAssumption DEF TypeOK
<1>. HIDE DEF w, n
<1>6. counter' \in [Windows -> Nat] /\ counted' \in [Windows -> Nat]
  BY <1>1, <1>2, <1>3, <1>4 DEF TypeOK
<1>7. CountsAreReal' /\ \A v \in Windows : counted[v] <= counted'[v]
  BY <1>1, <1>2, <1>3, <1>4 DEF TypeOK, LimiterInv, CountsAreReal
<1>8. n <= counted'[w]
  BY <1>1, <1>2, <1>3, <1>4 DEF TypeOK
<1>9. reset' \in SUBSET Windows /\ arrived' \in [Sockets -> Times \cup {None}]
  BY <1>1, <1>2, <1>4 DEF TypeOK
<1>. QED
  BY <1>2, <1>4, <1>5, <1>6, <1>7, <1>8, <1>9 DEF w, n

\* Every step keeps the counts real; a refusal is of a frame that was counted above
\* the limit.
LEMMA LimiterStep == LimiterInv /\ [Next]_vars => LimiterInv'
<1>. SUFFICES ASSUME LimiterInv, [Next]_vars PROVE LimiterInv'
  OBVIOUS
<1>0. TypeOK /\ clock \in Nat /\ MaxTime \in Nat /\ Window \in Nat /\ Limit \in Nat
  BY RateLimiterAssumption DEF LimiterInv, TypeOK, Times
<1>1. ASSUME NEW s \in Sockets, Allow(s) \/ AllowUnanswered(s) \/ Refuse(s) PROVE LimiterInv'
  <2>1. Increment(s)
    BY <1>1 DEF Allow, AllowUnanswered, Refuse
  <2>2. /\ arrived[s] \in Times /\ KeyOf(arrived[s]) \in Windows
        /\ UNCHANGED <<clock, reachable, frames>>
        /\ arrived' \in [Sockets -> Times \cup {None}]
        /\ counter' \in [Windows -> Nat] /\ counted' \in [Windows -> Nat]
        /\ \A w \in DOMAIN expires' : expires'[w] \in 0..(clock + Window)
        /\ reset' \in SUBSET Windows
        /\ CountsAreReal'
        /\ \A w \in Windows : counted[w] <= counted'[w]
        /\ Incremented(KeyOf(arrived[s])) <= counted'[KeyOf(arrived[s])]
    BY <2>1, IncrementStep
  <2>3. passed' \in [Times -> Nat]
    BY <1>0, <1>1, <2>2 DEF Allow, AllowUnanswered, Refuse, TypeOK
  <2>4. refused' = refused \/ (refused' = refused \cup {KeyOf(arrived[s])} /\ Refuse(s))
    BY <1>1 DEF Allow, AllowUnanswered, Refuse, KeyOf
  <2>5. refused' \in SUBSET Windows
    BY <1>0, <2>2, <2>4 DEF TypeOK
  <2>6. \A w \in refused : counted'[w] > Limit
    BY <1>0, <2>2 DEF LimiterInv, NoEarlyRefusal, TypeOK
  <2>7. Refuse(s) => counted'[KeyOf(arrived[s])] > Limit
    <3>1. ASSUME Refuse(s) PROVE ~(Incremented(KeyOf(arrived[s])) <= Limit)
      BY <3>1 DEF Refuse, Within
    <3>2. Incremented(KeyOf(arrived[s])) \in Nat
      BY <1>0, <2>2 DEF Incremented, TypeOK
    <3>. QED
      BY <1>0, <2>2, <3>1, <3>2
  <2>8. NoEarlyRefusal'
    BY <2>4, <2>6, <2>7 DEF NoEarlyRefusal
  <2>9. TypeOK'
    BY <1>0, <2>2, <2>3, <2>5 DEF TypeOK
  <2>. QED
    BY <2>2, <2>8, <2>9 DEF LimiterInv
<1>2. ASSUME NEW s \in Sockets, AllowUncounted(s) PROVE LimiterInv'
  BY <1>0, <1>2 DEF AllowUncounted, LimiterInv, TypeOK, CountsAreReal, NoEarlyRefusal
<1>3. ASSUME NEW s \in Sockets, Receive(s) PROVE LimiterInv'
  <2>1. frames' \in 0..MaxFrames
    BY <1>3, RateLimiterAssumption DEF Receive, LimiterInv, TypeOK
  <2>. QED
    BY <1>0, <1>3, <2>1 DEF Receive, LimiterInv, TypeOK, CountsAreReal, NoEarlyRefusal
<1>4. CASE Tick
  <2>1. clock' \in Times /\ clock' = clock + 1 /\ frames' \in 0..MaxFrames
    BY <1>0, <1>4, RateLimiterAssumption DEF Tick, Times
  <2>2. \A w \in DOMAIN expires' : expires'[w] \in 0..(clock' + Window)
    BY <1>0, <1>4, <2>1 DEF Tick, TypeOK
  <2>. QED
    BY <1>0, <1>4, <2>1, <2>2 DEF Tick, LimiterInv, TypeOK, CountsAreReal, NoEarlyRefusal
<1>5. CASE Toggle
  BY <1>0, <1>5 DEF Toggle, LimiterInv, TypeOK, CountsAreReal, NoEarlyRefusal
<1>6. CASE UNCHANGED vars
  BY <1>6 DEF vars, LimiterInv, TypeOK, CountsAreReal, NoEarlyRefusal
<1>. QED
  BY <1>1, <1>2, <1>3, <1>4, <1>5, <1>6 DEF Next, LetThrough

\* A frame is refused only when its own window has had more frames than the limit,
\* although each count gives the key a new lifetime.
THEOREM NoneIsRefusedEarly == Spec => []NoEarlyRefusal
<1>1. LimiterInv => NoEarlyRefusal
  BY DEF LimiterInv
<1>2. Spec => []LimiterInv
  BY LimiterInit, LimiterStep, PTL DEF Spec
<1>. QED
  BY <1>1, <1>2, PTL
-----------------------------------------------------------------------------
(***************************************************************************)
(* 2. The quota                                                            *)
(*                                                                         *)
(* The frames that passed, as a set of pairs, one for each frame: what a   *)
(* sum would say, in terms the theorems on finite sets know.               *)
(***************************************************************************)

FramesOf(f, S) == UNION {{t} \X (1..f[t]) : t \in S \cap Times}

LEMMA FramesAreFinite ==
    ASSUME NEW f \in [Times -> Nat], NEW S \in SUBSET Int
    PROVE  /\ IsFiniteSet(FramesOf(f, S))
           /\ Cardinality(FramesOf(f, S)) \in Nat
<1>. DEFINE T == S \cap Times
            Row(t) == {t} \X (1..f[t])
            Rows == {Row(t) : t \in T}
            row == [t \in T |-> Row(t)]
<1>1. IsFiniteSet(T)
  <2>1. IsFiniteSet(Times)
    BY RateLimiterAssumption, FS_Interval DEF Times
  <2>2. T \in SUBSET Times
    OBVIOUS
  <2>. QED
    BY <2>1, <2>2, FS_Subset
<1>2. row \in Surjection(T, Rows)
  BY DEF Surjection
<1>. HIDE DEF T, Row
<1>3. IsFiniteSet(Rows)
  BY <1>1, <1>2, FS_Surjection
<1>4. ASSUME NEW t \in T PROVE IsFiniteSet(Row(t))
  <2>1. f[t] \in Int
    BY DEF T, Times
  <2>2. IsFiniteSet({t})
    BY FS_Singleton
  <2>3. 1 \in Int
    OBVIOUS
  <2>4. IsFiniteSet(1..f[t])
    BY <2>1, <2>3, FS_Interval
  <2>. QED
    BY <2>2, <2>4, FS_Product DEF Row
<1>5. IsFiniteSet(UNION Rows)
  BY <1>3, <1>4, FS_UNION
<1>6. UNION Rows = FramesOf(f, S)
  BY DEF FramesOf, T, Row
<1>. QED
  BY <1>5, <1>6, FS_CardinalityType

\* More ticks have no fewer frames, and a part of two sets has no more than both.
LEMMA FramesOfParts ==
    ASSUME NEW f \in [Times -> Nat],
           NEW R \in SUBSET Int, NEW S \in SUBSET Int, NEW T \in SUBSET Int,
           R \cap Times \subseteq S \cup T
    PROVE  Cardinality(FramesOf(f, R))
             <= Cardinality(FramesOf(f, S)) + Cardinality(FramesOf(f, T))
<1>. DEFINE r == FramesOf(f, R)
            p == FramesOf(f, S)
            q == FramesOf(f, T)
<1>1. /\ IsFiniteSet(p) /\ IsFiniteSet(q)
      /\ Cardinality(p) \in Nat /\ Cardinality(q) \in Nat /\ Cardinality(r) \in Nat
  BY FramesAreFinite
<1>2. r \in SUBSET (p \cup q)
  BY DEF FramesOf
<1>. HIDE DEF p, q, r
<1>3. IsFiniteSet(p \cap q)
  BY <1>1, FS_Intersection
<1>4. Cardinality(p \cap q) \in Nat
  BY <1>3, FS_CardinalityType
<1>5. /\ IsFiniteSet(p \cup q)
      /\ Cardinality(p \cup q) = Cardinality(p) + Cardinality(q) - Cardinality(p \cap q)
  BY <1>1, FS_Union
<1>6. Cardinality(r) <= Cardinality(p \cup q)
  BY <1>2, <1>5, FS_Subset
<1>7. Cardinality(r) <= Cardinality(p) + Cardinality(q)
  BY <1>1, <1>4, <1>5, <1>6
<1>. QED
  BY <1>7 DEF p, q, r

LEMMA FramesOfMore ==
    ASSUME NEW f \in [Times -> Nat], NEW R \in SUBSET Int, NEW S \in SUBSET Int,
           R \cap Times \subseteq S
    PROVE  Cardinality(FramesOf(f, R)) <= Cardinality(FramesOf(f, S))
<1>1. FramesOf(f, R) \in SUBSET FramesOf(f, S)
  BY DEF FramesOf
<1>. QED
  BY <1>1, FramesAreFinite, FS_Subset

\* Another frame that passes is one more in every set with its tick.
LEMMA FramesWithOneMore ==
    ASSUME NEW f \in [Times -> Nat], NEW S \in SUBSET Int, NEW a \in Times,
           NEW g \in [Times -> Nat], g[a] = f[a] + 1, \A t \in Times : t # a => g[t] = f[t]
    PROVE  /\ a \in S => Cardinality(FramesOf(g, S)) = Cardinality(FramesOf(f, S)) + 1
           /\ a \notin S => Cardinality(FramesOf(g, S)) = Cardinality(FramesOf(f, S))
<1>. DEFINE p == FramesOf(f, S)
            new == <<a, f[a] + 1>>
<1>1. IsFiniteSet(p) /\ Cardinality(p) \in Nat
  BY FramesAreFinite
<1>2. CASE a \in S
  <2>1. f[a] \in Nat /\ 1..(f[a] + 1) = 1..f[a] \cup {f[a] + 1}
    OBVIOUS
  <2>2. {a} \X (1..g[a]) = ({a} \X (1..f[a])) \cup {new}
    BY <2>1
  <2>3. \A t \in Times : t # a => g[t] = f[t]
    OBVIOUS
  <2>4. FramesOf(g, S) = p \cup {new}
    BY <1>2, <2>2, <2>3 DEF FramesOf
  <2>5. new \notin p
    BY <2>1 DEF FramesOf
  <2>. HIDE DEF p, new
  <2>6. Cardinality(p \cup {new}) = Cardinality(p) + 1
    BY <1>1, <2>5, FS_AddElement
  <2>. QED
    BY <1>2, <2>4, <2>6 DEF p
<1>3. CASE a \notin S
  <2>1. \A t \in S \cap Times : g[t] = f[t]
    BY <1>3
  <2>2. FramesOf(g, S) = FramesOf(f, S)
    BY <2>1 DEF FramesOf
  <2>. QED
    BY <1>1, <1>3, <2>2 DEF p
<1>. QED
  BY <1>2, <1>3

LEMMA NoFrames ==
    ASSUME NEW f \in [Times -> Nat], NEW S \in SUBSET Int, \A t \in S \cap Times : f[t] = 0
    PROVE  Cardinality(FramesOf(f, S)) = 0
<1>1. ASSUME NEW t \in S \cap Times PROVE {t} \X (1..f[t]) = {}
  <2>1. 1..f[t] = {}
    OBVIOUS
  <2>. QED
    BY <2>1
<1>2. FramesOf(f, S) = {}
  BY <1>1 DEF FramesOf
<1>. QED
  BY <1>2, FS_EmptySet

LEMMA Quotient ==
    ASSUME NEW d \in Nat \ {0}, NEW w \in Nat, NEW t \in Nat,
           w * d <= t, t < w * d + d
    PROVE  t \div d = w
OBVIOUS

\* A window is a run of ticks, and each tick is in the window it is counted for.
LEMMA TicksOfWindow ==
    ASSUME NEW w \in Windows
    PROVE  /\ w \in Nat /\ w * Window \in Nat /\ Window \in Nat \ {0}
           /\ Ticks(w) \in SUBSET Int
           /\ \A t \in Times : t \in Ticks(w) <=> KeyOf(t) = w
<1>1. Window \in Nat \ {0}
  BY RateLimiterAssumption
<1>2. PICK u \in Times : w = u \div Window
  BY DEF Windows
<1>3. u \in Nat /\ Times \subseteq Nat
  BY DEF Times
<1>4. w \in Nat
  BY <1>1, <1>2, <1>3
<1>5. w * Window \in Nat
  BY <1>1, <1>4
<1>6. Ticks(w) \in SUBSET Int
  BY DEF Ticks
<1>7. ASSUME NEW t \in Times PROVE t \in Ticks(w) <=> KeyOf(t) = w
  <2>1. t \in Nat
    BY <1>3
  <2>2. (t \div Window) * Window <= t /\ t < (t \div Window) * Window + Window
    BY <1>1, <2>1
  <2>3. ASSUME KeyOf(t) = w PROVE t \in Ticks(w)
    <3>1. w * Window <= t /\ t < w * Window + Window
      BY <2>2, <2>3 DEF KeyOf
    <3>. QED
      BY <1>1, <1>5, <2>1, <3>1 DEF Ticks
  <2>4. ASSUME t \in Ticks(w) PROVE KeyOf(t) = w
    <3>1. w * Window <= t /\ t < w * Window + Window
      BY <1>1, <1>5, <2>1, <2>4 DEF Ticks
    <3>2. t \div Window = w
      BY <1>1, <1>4, <2>1, <3>1, Quotient
    <3>. QED
      BY <3>2 DEF KeyOf
  <2>. QED
    BY <2>3, <2>4
<1>. QED
  BY <1>1, <1>4, <1>5, <1>6, <1>7

\* A time as long as a window is a window, or lies in two of them without the first
\* tick of the one and the last of the other.
LEMMA SpanOfTwo ==
    ASSUME NEW t \in Times, NEW w \in Windows, w = KeyOf(t)
    PROVE  \/ t..(t + Window - 1) = Ticks(w)
           \/ (t..(t + Window - 1)) \cap Times \subseteq Ticks(w) \ {w * Window}
           \/ /\ w + 1 \in Windows
              /\ (t..(t + Window - 1)) \cap Times
                   \subseteq (Ticks(w) \ {w * Window})
                      \cup (Ticks(w + 1) \ {(w + 1) * Window + Window - 1})
<1>. DEFINE span == t..(t + Window - 1)
            m == w * Window
<1>1. /\ w \in Nat /\ m \in Nat /\ Window \in Nat \ {0} /\ t \in Ticks(w)
      /\ t \in Nat
  BY TicksOfWindow DEF Times
<1>2. Ticks(w) = m..(m + Window - 1)
  BY DEF Ticks
<1>3. (w + 1) * Window = m + Window /\ w + 1 \in Nat
  BY <1>1
<1>4. Ticks(w + 1) = (m + Window)..(m + Window + Window - 1)
  BY <1>3 DEF Ticks
<1>. HIDE DEF m
<1>5. m <= t /\ t < m + Window
  BY <1>1, <1>2
<1>6. CASE t = m
  BY <1>2, <1>6 DEF m
<1>7. CASE t # m
  <2>1. ASSUME NEW u \in span
        PROVE  u \in Ticks(w) \ {m} \/ u \in Ticks(w + 1) \ {m + Window + Window - 1}
    BY <1>1, <1>2, <1>4, <1>5, <1>7, <2>1
  <2>2. CASE w + 1 \in Windows
    BY <1>3, <2>1, <2>2 DEF m
  <2>3. CASE w + 1 \notin Windows
    <3>1. ASSUME NEW u \in span \cap Times, u \in Ticks(w + 1) PROVE FALSE
      <4>1. u \in Nat /\ (w + 1) * Window <= u /\ u < (w + 1) * Window + Window
        BY <1>1, <1>3, <1>4, <3>1 DEF Times
      <4>2. u \div Window = w + 1
        BY <1>1, <1>3, <4>1, Quotient
      <4>. QED
        BY <2>3, <3>1, <4>2 DEF Windows
    <3>. QED
      BY <2>1, <3>1 DEF m
  <2>. QED
    BY <2>2, <2>3
<1>. QED
  BY <1>6, <1>7

First(w) == w * Window
Last(w) == w * Window + Window - 1

\* A frame is counted at most MaxDelay after it came, and its key lives for a window
\* from then on.
TimingInv ==
    /\ expires \in [Windows -> Nat]
    /\ \A s \in Sockets : arrived[s] # None =>
          arrived[s] <= clock /\ clock <= arrived[s] + MaxDelay
    /\ \A w \in Windows : counted[w] > 0 =>
          counter[w] > 0 /\ w * Window + Window <= expires[w]
    /\ \A t \in Times : passed[t] > 0 => t + Window <= expires[KeyOf(t)]

\* The frames of a window that passed are among those its key has counted, if the key
\* never began anew.
WindowInv == \A w \in Windows \ reset :
    PassedIn(Ticks(w)) <= counter[w] /\ PassedIn(Ticks(w)) <= Limit

\* A key can begin anew once, a window after its first tick, when only frames of
\* its last tick are still to be counted.  So what passed before came in the first
\* tick, and what passes afterwards in the last.
AnewInv == \A w \in reset :
    /\ w * Window + Window + Window <= expires[w]
    /\ PassedIn(Ticks(w)) <= Limit + counter[w]
    /\ PassedIn(Ticks(w)) <= 2 * Limit
    /\ PassedIn(Ticks(w) \ {First(w)}) <= counter[w]
    /\ PassedIn(Ticks(w) \ {First(w)}) <= Limit
    /\ PassedIn(Ticks(w) \ {Last(w)}) <= Limit

QuotaInv == LimiterInv /\ TimingInv /\ WindowInv /\ (MaxDelay <= 1 => AnewInv)

\* A frame of tick a is counted for window w, n in all, and may pass.
Counting(a, w) ==
    /\ a \in Times /\ a \in Nat /\ w \in Windows /\ KeyOf(a) = w /\ a \in Ticks(w)
    /\ clock \in Nat /\ a <= clock /\ clock <= a + MaxDelay
    /\ expires' = [expires EXCEPT ![w] = clock + Window]
    /\ counted' = [counted EXCEPT ![w] = @ + 1]
    /\ passed' \in [Times -> Nat]
    /\ \E n \in Nat :
          /\ n = IF clock < expires[w] THEN counter[w] + 1 ELSE 1
          /\ counter' = [counter EXCEPT ![w] = n]
          /\ reset' = IF counted[w] > 0 /\ n = 1 THEN reset \cup {w} ELSE reset
          /\ \/ passed' = passed
             \/ n <= Limit /\ passed' = [passed EXCEPT ![a] = @ + 1]

LEMMA CountingStep ==
    ASSUME QuotaInv, NEW s \in Sockets, Allow(s) \/ AllowUnanswered(s) \/ Refuse(s)
    PROVE  /\ Counting(arrived[s], KeyOf(arrived[s]))
           /\ arrived' = [arrived EXCEPT ![s] = None]
           /\ clock' = clock
<1>. DEFINE a == arrived[s]
            w == KeyOf(a)
<1>1. /\ Increment(s) /\ TypeOK /\ LimiterInv
      /\ \A t \in Sockets : arrived[t] # None =>
            arrived[t] <= clock /\ clock <= arrived[t] + MaxDelay
  BY DEF Allow, AllowUnanswered, Refuse, QuotaInv, LimiterInv, TimingInv
<1>2. clock \in Nat /\ a # None /\ Times \subseteq Nat
  BY <1>1 DEF TypeOK, Times, Increment
<1>3. a \in Times /\ a \in Nat
  BY <1>1, <1>2 DEF TypeOK
<1>4. w \in Windows
  BY <1>3 DEF KeyOf, Windows
<1>5. a \in Ticks(w)
  BY <1>3, <1>4, TicksOfWindow
<1>6. a <= clock /\ clock <= a + MaxDelay
  BY <1>1, <1>2
<1>7. /\ arrived' = [arrived EXCEPT ![s] = None]
      /\ clock' = clock
      /\ expires' = [expires EXCEPT ![w] = clock + Window]
      /\ counted' = [counted EXCEPT ![w] = @ + 1]
      /\ counter' = [counter EXCEPT ![w] = Incremented(w)]
      /\ reset' = IF counted[w] > 0 /\ Incremented(w) = 1 THEN reset \cup {w} ELSE reset
  BY <1>1 DEF Increment, KeyOf, Lifetime
<1>8. /\ Incremented(w) = IF clock < expires[w] THEN counter[w] + 1 ELSE 1
      /\ Incremented(w) \in Nat
  BY <1>1, <1>4 DEF Incremented, TypeOK
<1>9. \/ passed' = passed
      \/ Incremented(w) <= Limit /\ passed' = [passed EXCEPT ![a] = @ + 1]
  BY DEF Allow, AllowUnanswered, Refuse, Within
<1>10. passed' \in [Times -> Nat]
  BY <1>1, <1>3, <1>9 DEF TypeOK
<1>. HIDE DEF a
<1>. QED
  BY <1>2, <1>3, <1>4, <1>5, <1>6, <1>7, <1>8, <1>9, <1>10 DEF Counting, a

\* What it adds to the frames of a set of ticks.
LEMMA PassedStep ==
    ASSUME passed \in [Times -> Nat], passed' \in [Times -> Nat], NEW a \in Times,
           passed' = passed \/ passed' = [passed EXCEPT ![a] = @ + 1],
           NEW S \in SUBSET Int
    PROVE  /\ PassedIn(S) \in Nat /\ PassedIn(S)' \in Nat
           /\ PassedIn(S)' <= PassedIn(S) + 1
           /\ passed' = passed \/ a \notin S => PassedIn(S)' = PassedIn(S)
<1>1. PassedIn(S) = Cardinality(FramesOf(passed, S))
  BY DEF PassedIn, FramesOf
<1>2. PassedIn(S)' = Cardinality(FramesOf(passed', S))
  BY DEF PassedIn, FramesOf
<1>3. Cardinality(FramesOf(passed, S)) \in Nat
  BY FramesAreFinite
<1>4. CASE passed' = passed
  BY <1>1, <1>2, <1>3, <1>4
<1>5. CASE passed' = [passed EXCEPT ![a] = @ + 1]
  <2>1. /\ a \in S => Cardinality(FramesOf(passed', S)) = Cardinality(FramesOf(passed, S)) + 1
        /\ a \notin S => Cardinality(FramesOf(passed', S)) = Cardinality(FramesOf(passed, S))
    <3>. DEFINE g == passed'
    <3>1. /\ passed \in [Times -> Nat] /\ g \in [Times -> Nat]
          /\ g[a] = passed[a] + 1 /\ \A t \in Times : t # a => g[t] = passed[t]
      BY <1>5
    <3>. HIDE DEF g
    <3>2. /\ a \in S => Cardinality(FramesOf(g, S)) = Cardinality(FramesOf(passed, S)) + 1
          /\ a \notin S => Cardinality(FramesOf(g, S)) = Cardinality(FramesOf(passed, S))
      BY <3>1, FramesWithOneMore
    <3>. QED
      BY <3>2 DEF g
  <2>2. passed' # passed
    <3>1. passed'[a] = passed[a] + 1 /\ passed[a] \in Nat
      BY <1>5
    <3>. QED
      BY <3>1
  <2>. QED
    BY <1>1, <1>2, <1>3, <2>1, <2>2
<1>. QED
  BY <1>4, <1>5

LEMMA CountingKeepsTiming ==
    ASSUME QuotaInv, NEW s \in Sockets, Allow(s) \/ AllowUnanswered(s) \/ Refuse(s)
    PROVE  TimingInv'
<1>. DEFINE a == arrived[s]
            w == KeyOf(a)
<1>0. /\ Counting(a, w)
      /\ arrived' = [arrived EXCEPT ![s] = None]
      /\ clock' = clock
  BY CountingStep
<1>. HIDE DEF w
<1>1. /\ a \in Times /\ a \in Nat /\ w \in Windows /\ a \in Ticks(w) /\ w = KeyOf(a)
      /\ clock \in Nat /\ a <= clock /\ clock <= a + MaxDelay
      /\ arrived' = [arrived EXCEPT ![s] = None]
      /\ clock' = clock
      /\ expires' = [expires EXCEPT ![w] = clock + Window]
      /\ counted' = [counted EXCEPT ![w] = @ + 1]
  BY <1>0 DEF Counting
<1>2. PICK n \in Nat : /\ n = IF clock < expires[w] THEN counter[w] + 1 ELSE 1
                       /\ counter' = [counter EXCEPT ![w] = n]
                       /\ \/ passed' = passed
                          \/ passed' = [passed EXCEPT ![a] = @ + 1]
  BY <1>0 DEF Counting
<1>3. /\ counter \in [Windows -> Nat] /\ counted \in [Windows -> Nat]
      /\ expires \in [Windows -> Nat] /\ passed \in [Times -> Nat]
      /\ arrived \in [Sockets -> Times \cup {None}] /\ Window \in Nat \ {0}
      /\ \A v \in Windows : expires[v] <= clock + Window
  BY <1>1, RateLimiterAssumption DEF QuotaInv, LimiterInv, TypeOK, TimingInv
<1>4. w * Window \in Nat /\ w * Window <= a /\ \A t \in Times : KeyOf(t) \in Windows
  <2>1. w * Window \in Nat
    BY <1>1, TicksOfWindow
  <2>2. \A t \in Times : KeyOf(t) \in Windows
    BY DEF KeyOf, Windows
  <2>3. w * Window <= a
    BY <1>1, <1>3, <2>1 DEF Ticks
  <2>. QED
    BY <2>1, <2>2, <2>3
<1>5. \A v \in Windows : counted[v] > 0 => counter[v] > 0 /\ v * Window + Window <= expires[v]
  BY DEF QuotaInv, TimingInv
<1>6. \A t \in Times : passed[t] > 0 => t + Window <= expires[KeyOf(t)]
  BY DEF QuotaInv, TimingInv
<1>7. ASSUME NEW r \in Sockets, arrived[r] # None
      PROVE  arrived[r] <= clock /\ clock <= arrived[r] + MaxDelay
  BY <1>7 DEF QuotaInv, TimingInv
<1>8. expires' \in [Windows -> Nat] /\ expires'[w] = clock + Window
  BY <1>1, <1>3
<1>9. ASSUME NEW r \in Sockets, arrived'[r] # None
      PROVE  arrived'[r] <= clock' /\ clock' <= arrived'[r] + MaxDelay
  BY <1>1, <1>3, <1>7, <1>9
<1>10. \A v \in Windows : expires'[v] = IF v = w THEN clock + Window ELSE expires[v]
  BY <1>1, <1>3
<1>11. \A v \in Windows : counter'[v] = IF v = w THEN n ELSE counter[v]
  BY <1>2, <1>3
<1>12. \A v \in Windows : counted'[v] = IF v = w THEN counted[w] + 1 ELSE counted[v]
  BY <1>1, <1>3
<1>13. \A t \in Times : passed'[t] > 0 => passed[t] > 0 \/ t = a
  BY <1>2, <1>3
<1>. HIDE DEF a
<1>14. n > 0
  BY <1>1, <1>2, <1>3
<1>15. ASSUME NEW v \in Windows, counted'[v] > 0
       PROVE  counter'[v] > 0 /\ v * Window + Window <= expires'[v]
  <2>1. CASE v = w
    <3>1. v * Window + Window <= clock + Window
      BY <1>1, <1>3, <1>4, <2>1
    <3>. QED
      BY <1>10, <1>11, <1>14, <2>1, <3>1
  <2>2. CASE v # w
    BY <1>5, <1>10, <1>11, <1>12, <1>15, <2>2
  <2>. QED
    BY <2>1, <2>2
<1>16. ASSUME NEW t \in Times, passed'[t] > 0
       PROVE  t + Window <= expires'[KeyOf(t)]
  <2>1. t \in Nat /\ KeyOf(t) \in Windows
    BY <1>4 DEF Times
  <2>2. CASE t = a
    BY <1>1, <1>3, <1>10, <2>2
  <2>3. CASE passed[t] > 0 /\ KeyOf(t) = w
    <3>1. t + Window <= expires[w] /\ expires[w] <= clock + Window
      BY <1>1, <1>3, <1>6, <2>3
    <3>. QED
      BY <1>1, <1>3, <1>10, <2>1, <2>3, <3>1
  <2>4. CASE passed[t] > 0 /\ KeyOf(t) # w
    BY <1>6, <1>10, <2>1, <2>4
  <2>. QED
    BY <1>13, <1>16, <2>2, <2>3, <2>4
<1>. QED
  BY <1>8, <1>9, <1>15, <1>16 DEF TimingInv, KeyOf

\* What is known of the variables before a step.
LEMMA QuotaTypes ==
    ASSUME QuotaInv
    PROVE  /\ counter \in [Windows -> Nat] /\ counted \in [Windows -> Nat]
           /\ expires \in [Windows -> Nat] /\ passed \in [Times -> Nat]
           /\ reset \in SUBSET Windows
           /\ Window \in Nat \ {0} /\ Limit \in Nat \ {0} /\ MaxDelay \in Nat
           /\ \A v \in Windows : expires[v] <= clock + Window
           /\ \A v \in Windows : counter[v] <= counted[v]
           /\ \A v \in Windows : counted[v] > 0 =>
                 counter[v] > 0 /\ v * Window + Window <= expires[v]
           /\ \A t \in Times : passed[t] > 0 => t + Window <= expires[KeyOf(t)]
           /\ WindowInv
           /\ MaxDelay <= 1 => AnewInv
<1>1. TypeOK /\ clock \in Nat
  BY DEF QuotaInv, LimiterInv, TypeOK, Times
<1>. QED
  BY <1>1, RateLimiterAssumption DEF QuotaInv, LimiterInv, TypeOK, TimingInv, CountsAreReal

\* Another window keeps its frames.
LEMMA OthersKeepFrames ==
    ASSUME QuotaInv, NEW a, NEW w, Counting(a, w), NEW v \in Windows, v # w,
           NEW S \in SUBSET Ticks(v)
    PROVE  /\ PassedIn(S)' = PassedIn(S) /\ counter'[v] = counter[v]
           /\ expires'[v] = expires[v] /\ (v \in reset' <=> v \in reset)
<1>1. /\ a \in Times /\ KeyOf(a) = w /\ passed' \in [Times -> Nat]
      /\ passed' = passed \/ passed' = [passed EXCEPT ![a] = @ + 1]
  BY DEF Counting
<1>2. S \in SUBSET Int /\ a \notin S
  BY <1>1, TicksOfWindow
<1>3. PassedIn(S)' = PassedIn(S)
  BY <1>1, <1>2, QuotaTypes, PassedStep
<1>4. counter'[v] = counter[v] /\ expires'[v] = expires[v] /\ (v \in reset' <=> v \in reset)
  BY QuotaTypes DEF Counting
<1>. QED
  BY <1>3, <1>4

LEMMA CountingKeepsWindows ==
    ASSUME QuotaInv, NEW a, NEW w, Counting(a, w)
    PROVE  WindowInv'
<1>. SUFFICES ASSUME NEW v \in Windows, v \notin reset'
              PROVE  PassedIn(Ticks(v))' <= counter'[v] /\ PassedIn(Ticks(v))' <= Limit
  BY DEF WindowInv, Ticks
<1>1. /\ a \in Times /\ passed' \in [Times -> Nat] /\ w \in Windows
      /\ counter \in [Windows -> Nat] /\ counted \in [Windows -> Nat]
      /\ passed \in [Times -> Nat] /\ Limit \in Nat
      /\ counter[w] <= counted[w]
  BY QuotaTypes DEF Counting
<1>2. CASE v # w
  <2>1. /\ PassedIn(Ticks(v))' = PassedIn(Ticks(v)) /\ counter'[v] = counter[v]
        /\ v \notin reset
    BY <1>2, OthersKeepFrames
  <2>2. PassedIn(Ticks(v)) <= counter[v] /\ PassedIn(Ticks(v)) <= Limit
    BY <2>1, QuotaTypes DEF WindowInv
  <2>. QED
    BY <2>1, <2>2
<1>3. CASE v = w
  <2>1. PICK n \in Nat :
          /\ n = IF clock < expires[w] THEN counter[w] + 1 ELSE 1
          /\ counter' = [counter EXCEPT ![w] = n]
          /\ reset' = IF counted[w] > 0 /\ n = 1 THEN reset \cup {w} ELSE reset
          /\ \/ passed' = passed
             \/ n <= Limit /\ passed' = [passed EXCEPT ![a] = @ + 1]
    BY DEF Counting
  <2>2. w \notin reset /\ n = counter[w] + 1 /\ counter'[w] = n
    BY <1>1, <1>3, <2>1
  <2>3. PassedIn(Ticks(w)) <= counter[w] /\ PassedIn(Ticks(w)) <= Limit
    BY <1>1, <2>2, QuotaTypes DEF WindowInv
  <2>4. Ticks(w) \in SUBSET Int
    BY <1>1, TicksOfWindow
  <2>5. /\ PassedIn(Ticks(w)) \in Nat /\ PassedIn(Ticks(w))' \in Nat
        /\ PassedIn(Ticks(w))' <= PassedIn(Ticks(w)) + 1
        /\ passed' = passed => PassedIn(Ticks(w))' = PassedIn(Ticks(w))
    BY <1>1, <2>1, <2>4, PassedStep
  <2>6. n <= Limit \/ PassedIn(Ticks(w))' = PassedIn(Ticks(w))
    BY <2>1, <2>5
  <2>7. PassedIn(Ticks(w))' <= counter'[w] /\ PassedIn(Ticks(w))' <= Limit
    BY <1>1, <2>2, <2>3, <2>5, <2>6
  <2>. QED
    BY <1>3, <2>7
<1>. QED
  BY <1>2, <1>3

\* A count that comes within a tick, after its key began anew or as it does, is of
\* a frame of the last tick.
LEMMA OnlyLastIsAnew ==
    ASSUME QuotaInv, MaxDelay <= 1, NEW a, NEW w, Counting(a, w), w \in reset'
    PROVE  /\ a = Last(w) /\ First(w) \in Nat
           /\ clock = First(w) + Window
           /\ w \in reset \/ expires[w] = First(w) + Window
           /\ counter'[w] = IF w \in reset THEN counter[w] + 1 ELSE 1
<1>. DEFINE m == w * Window
<1>1. /\ a \in Nat /\ clock \in Nat /\ a <= clock /\ clock <= a + MaxDelay
      /\ w \in Windows /\ a \in Ticks(w)
  BY DEF Counting
<1>2. /\ Window \in Nat \ {0} /\ MaxDelay \in Nat
      /\ counter \in [Windows -> Nat] /\ expires[w] \in Nat
      /\ expires[w] <= clock + Window
      /\ counted[w] > 0 => counter[w] > 0 /\ m + Window <= expires[w]
  BY <1>1, QuotaTypes
<1>3. m \in Nat
  BY <1>1, TicksOfWindow
<1>4. ASSUME w \in reset PROVE m + Window + Window <= expires[w]
  BY <1>4, QuotaTypes DEF AnewInv
<1>5. PICK n \in Nat :
        /\ n = IF clock < expires[w] THEN counter[w] + 1 ELSE 1
        /\ counter' = [counter EXCEPT ![w] = n]
        /\ reset' = IF counted[w] > 0 /\ n = 1 THEN reset \cup {w} ELSE reset
  BY DEF Counting
<1>6. counter'[w] = n /\ counter[w] \in Nat
  BY <1>1, <1>2, <1>5
<1>. HIDE DEF m
<1>7. m <= a /\ a <= m + Window - 1
  BY <1>1, <1>2, <1>3 DEF Ticks, m
<1>8. m + Window <= clock
  <2>1. CASE w \in reset
    BY <1>1, <1>2, <1>3, <1>4, <2>1
  <2>2. CASE w \notin reset
    <3>1. counted[w] > 0 /\ n = 1
      BY <1>5, <2>2
    <3>2. ~(clock < expires[w])
      BY <1>2, <1>5, <1>6, <3>1
    <3>. QED
      BY <1>1, <1>2, <1>3, <3>1, <3>2
  <2>. QED
    BY <2>1, <2>2
<1>9. clock = m + Window /\ a = m + Window - 1
  BY <1>1, <1>2, <1>3, <1>7, <1>8
<1>10. CASE w \in reset
  <2>1. n = counter[w] + 1
    BY <1>2, <1>3, <1>4, <1>5, <1>9, <1>10
  <2>. QED
    BY <1>3, <1>6, <1>9, <1>10, <2>1 DEF First, Last, m
<1>11. CASE w \notin reset
  <2>1. counted[w] > 0 /\ n = 1
    BY <1>5, <1>11
  <2>2. ~(clock < expires[w])
    BY <1>2, <1>5, <1>6, <2>1
  <2>3. expires[w] = m + Window
    BY <1>2, <1>3, <1>9, <2>1, <2>2
  <2>. QED
    BY <1>3, <1>6, <1>9, <1>11, <2>1, <2>3 DEF First, Last, m
<1>. QED
  BY <1>10, <1>11

LEMMA CountingKeepsAnew ==
    ASSUME QuotaInv, MaxDelay <= 1, NEW a, NEW w, Counting(a, w)
    PROVE  AnewInv'
<1>0. /\ a \in Times /\ w \in Windows /\ KeyOf(a) = w /\ Limit \in Nat \ {0}
      /\ passed \in [Times -> Nat] /\ passed' \in [Times -> Nat]
      /\ counter \in [Windows -> Nat] /\ expires \in [Windows -> Nat]
      /\ passed' = passed \/ passed' = [passed EXCEPT ![a] = @ + 1]
      /\ expires' = [expires EXCEPT ![w] = clock + Window]
      /\ reset' \subseteq reset \cup {w}
      /\ MaxDelay \in Nat /\ Window \in Nat \ {0} /\ AnewInv
  BY QuotaTypes DEF Counting
<1>. DEFINE Anew(v) ==
              /\ v * Window + Window + Window <= expires'[v]
              /\ PassedIn(Ticks(v))' <= Limit + counter'[v]
              /\ PassedIn(Ticks(v))' <= 2 * Limit
              /\ PassedIn(Ticks(v) \ {First(v)})' <= counter'[v]
              /\ PassedIn(Ticks(v) \ {First(v)})' <= Limit
              /\ PassedIn(Ticks(v) \ {Last(v)})' <= Limit
<1>1. ASSUME NEW v \in reset', v # w PROVE Anew(v)
  <2>1. v \in reset /\ v \in Windows
    BY <1>0, <1>1, QuotaTypes
  <2>2. /\ PassedIn(Ticks(v))' = PassedIn(Ticks(v))
        /\ PassedIn(Ticks(v) \ {First(v)})' = PassedIn(Ticks(v) \ {First(v)})
        /\ PassedIn(Ticks(v) \ {Last(v)})' = PassedIn(Ticks(v) \ {Last(v)})
        /\ counter'[v] = counter[v] /\ expires'[v] = expires[v]
    BY <1>1, <2>1, OthersKeepFrames
  <2>. QED
    BY <1>0, <2>1, <2>2 DEF AnewInv
<1>2. ASSUME w \in reset' PROVE Anew(w)
  <2>. DEFINE all == Ticks(w)
              rest == Ticks(w) \ {First(w)}
              body == Ticks(w) \ {Last(w)}
  <2>1. /\ a = Last(w) /\ First(w) \in Nat
        /\ clock = First(w) + Window
        /\ w \in reset \/ expires[w] = First(w) + Window
        /\ counter'[w] = IF w \in reset THEN counter[w] + 1 ELSE 1
    BY <1>2, OnlyLastIsAnew
  <2>2. w * Window + Window + Window <= expires'[w]
    BY <1>0, <2>1 DEF First
  <2>3. all \in SUBSET Int /\ rest \in SUBSET Int /\ body \in SUBSET Int /\ a \notin body
    BY <1>0, <2>1, TicksOfWindow
  <2>4. /\ PassedIn(all) \in Nat /\ PassedIn(all)' \in Nat
        /\ PassedIn(all)' <= PassedIn(all) + 1
        /\ passed' = passed => PassedIn(all)' = PassedIn(all)
    BY <1>0, <2>3, PassedStep
  <2>5. /\ PassedIn(rest) \in Nat /\ PassedIn(rest)' \in Nat
        /\ PassedIn(rest)' <= PassedIn(rest) + 1
        /\ passed' = passed => PassedIn(rest)' = PassedIn(rest)
    BY <1>0, <2>3, PassedStep
  <2>6. PassedIn(body)' = PassedIn(body)
    BY <1>0, <2>3, PassedStep
  <2>7. passed' = passed \/ counter'[w] <= Limit
    BY <1>0 DEF Counting
  <2>8. CASE w \in reset
    <3>1. /\ PassedIn(all) <= Limit + counter[w] /\ PassedIn(all) <= 2 * Limit
          /\ PassedIn(rest) <= counter[w] /\ PassedIn(rest) <= Limit
          /\ PassedIn(body) <= Limit
      BY <1>0, <2>8 DEF AnewInv
    <3>2. counter[w] \in Nat /\ counter'[w] = counter[w] + 1
      BY <1>0, <2>1, <2>8
    <3>. HIDE DEF all, rest, body
    <3>3. PassedIn(all)' <= Limit + counter'[w] /\ PassedIn(all)' <= 2 * Limit
      BY <1>0, <2>4, <2>7, <3>1, <3>2
    <3>4. PassedIn(rest)' <= counter'[w] /\ PassedIn(rest)' <= Limit
      BY <1>0, <2>5, <2>7, <3>1, <3>2
    <3>. QED
      BY <2>2, <2>6, <3>1, <3>3, <3>4 DEF all, rest, body
  <2>9. CASE w \notin reset
    <3>1. expires[w] = First(w) + Window /\ counter'[w] = 1
      BY <2>1, <2>9
    <3>2. PassedIn(all) <= Limit
      BY <1>0, <2>9, QuotaTypes DEF WindowInv
    <3>3. ASSUME NEW t \in rest \cap Times PROVE passed[t] = 0
      <4>1. KeyOf(t) = w /\ t \in Nat
        BY <1>0, <3>3, TicksOfWindow DEF Times
      <4>2. First(w) < t
        BY <1>0, <2>1, <4>1, <3>3 DEF Ticks, First
      <4>3. passed[t] > 0 => t + Window <= First(w) + Window
        BY <3>1, <4>1, QuotaTypes
      <4>4. passed[t] \in Nat
        BY <1>0
      <4>. QED
        BY <1>0, <2>1, <4>1, <4>2, <4>3, <4>4
    <3>4. PassedIn(rest) = 0
      <4>1. Cardinality(FramesOf(passed, rest)) = 0
        BY <1>0, <2>3, <3>3, NoFrames
      <4>. QED
        BY <4>1 DEF PassedIn, FramesOf
    <3>5. PassedIn(body) <= PassedIn(all)
      <4>1. body \cap Times \subseteq all
        OBVIOUS
      <4>2. Cardinality(FramesOf(passed, body)) <= Cardinality(FramesOf(passed, all))
        BY <1>0, <2>3, <4>1, FramesOfMore
      <4>. QED
        BY <4>2 DEF PassedIn, FramesOf
    <3>6. PassedIn(body) \in Nat
      BY <1>0, <2>3, PassedStep
    <3>. HIDE DEF all, rest, body
    <3>7. PassedIn(all)' <= Limit + counter'[w] /\ PassedIn(all)' <= 2 * Limit
      BY <1>0, <2>4, <3>1, <3>2
    <3>8. PassedIn(rest)' <= counter'[w] /\ PassedIn(rest)' <= Limit
      BY <1>0, <2>5, <3>1, <3>4
    <3>9. PassedIn(body)' <= Limit
      BY <1>0, <2>4, <2>6, <3>2, <3>5, <3>6
    <3>. QED
      BY <2>2, <3>7, <3>8, <3>9 DEF all, rest, body
  <2>. QED
    BY <2>8, <2>9
<1>3. \A v \in reset' : Anew(v)
  BY <1>1, <1>2
<1>. QED
  BY <1>3 DEF AnewInv, First, Last, Ticks

\* A step that counts no frame leaves what was counted and what passed.
LEMMA RestKeepsQuota ==
    ASSUME QuotaInv, UNCHANGED <<counter, expires, passed, counted, reset>>
    PROVE  WindowInv' /\ (MaxDelay <= 1 => AnewInv')
<1>1. /\ WindowInv /\ (MaxDelay <= 1 => AnewInv)
      /\ counter' = counter /\ expires' = expires /\ reset' = reset
  BY DEF QuotaInv
<1>2. ASSUME NEW S \in SUBSET Int PROVE PassedIn(S)' = PassedIn(S)
  BY DEF PassedIn
<1>3. ASSUME NEW w \in Windows
      PROVE  /\ PassedIn(Ticks(w))' = PassedIn(Ticks(w))
             /\ PassedIn(Ticks(w) \ {First(w)})' = PassedIn(Ticks(w) \ {First(w)})
             /\ PassedIn(Ticks(w) \ {Last(w)})' = PassedIn(Ticks(w) \ {Last(w)})
  BY <1>2, TicksOfWindow
<1>4. WindowInv'
  BY <1>1, <1>3 DEF WindowInv, Ticks
<1>5. ASSUME MaxDelay <= 1 PROVE AnewInv'
  BY <1>1, <1>3, <1>5, QuotaTypes DEF AnewInv, Ticks, First, Last
<1>. QED
  BY <1>4, <1>5

LEMMA TimingStep ==
    ASSUME QuotaInv, Tick \/ Toggle \/ UNCHANGED vars
                     \/ \E s \in Sockets : Receive(s) \/ AllowUncounted(s)
    PROVE  TimingInv' /\ UNCHANGED <<counter, expires, passed, counted, reset>>
<1>1. UNCHANGED <<counter, expires, passed, counted, reset>>
  BY DEF Tick, Toggle, vars, Receive, AllowUncounted
<1>2. /\ clock \in Nat /\ Times \subseteq Nat /\ MaxDelay \in Nat
      /\ arrived \in [Sockets -> Times \cup {None}]
  BY RateLimiterAssumption DEF QuotaInv, LimiterInv, TypeOK, Times
<1>3. ASSUME NEW r \in Sockets, arrived[r] # None
      PROVE  arrived[r] <= clock /\ clock <= arrived[r] + MaxDelay
  BY <1>3 DEF QuotaInv, TimingInv
<1>4. ASSUME NEW r \in Sockets, arrived'[r] # None
      PROVE  arrived'[r] <= clock' /\ clock' <= arrived'[r] + MaxDelay
  <2>1. CASE Tick
    <3>1. /\ arrived[r] # None /\ arrived'[r] = arrived[r] /\ clock' = clock + 1
          /\ clock < arrived[r] + MaxDelay /\ arrived[r] \in Nat
      BY <1>2, <1>4, <2>1 DEF Tick
    <3>. QED
      BY <1>2, <1>3, <3>1
  <2>2. CASE Toggle \/ UNCHANGED vars
    BY <1>3, <1>4, <2>2 DEF Toggle, vars
  <2>3. ASSUME NEW s \in Sockets, Receive(s) \/ AllowUncounted(s)
        PROVE  arrived'[r] <= clock' /\ clock' <= arrived'[r] + MaxDelay
    <3>1. clock' = clock /\ (arrived'[r] = clock \/ arrived'[r] = arrived[r])
      BY <1>2, <1>4, <2>3 DEF Receive, AllowUncounted
    <3>. QED
      BY <1>2, <1>3, <1>4, <3>1
  <2>. QED
    BY <2>1, <2>2, <2>3
<1>. QED
  BY <1>1, <1>4 DEF QuotaInv, TimingInv, KeyOf

LEMMA QuotaStep == QuotaInv /\ [Next]_vars => QuotaInv'
<1>. SUFFICES ASSUME QuotaInv, [Next]_vars PROVE QuotaInv'
  OBVIOUS
<1>1. LimiterInv'
  BY LimiterStep DEF QuotaInv
<1>2. ASSUME NEW s \in Sockets, Allow(s) \/ AllowUnanswered(s) \/ Refuse(s)
      PROVE  TimingInv' /\ WindowInv' /\ (MaxDelay <= 1 => AnewInv')
  BY <1>2, CountingStep, CountingKeepsTiming, CountingKeepsWindows, CountingKeepsAnew
<1>3. ASSUME Tick \/ Toggle \/ UNCHANGED vars
             \/ \E s \in Sockets : Receive(s) \/ AllowUncounted(s)
      PROVE  TimingInv' /\ WindowInv' /\ (MaxDelay <= 1 => AnewInv')
  BY <1>3, TimingStep, RestKeepsQuota
<1>4. TimingInv' /\ WindowInv' /\ (MaxDelay <= 1 => AnewInv')
  BY <1>2, <1>3 DEF Next, LetThrough
<1>. QED
  BY <1>1, <1>4 DEF QuotaInv

LEMMA QuotaInit == Init => QuotaInv
<1>. SUFFICES ASSUME Init PROVE QuotaInv
  OBVIOUS
<1>1. LimiterInv
  BY LimiterInit
<1>2. TimingInv
  BY DEF Init, TimingInv
<1>3. ASSUME NEW w \in Windows
      PROVE  PassedIn(Ticks(w)) <= counter[w] /\ PassedIn(Ticks(w)) <= Limit
  <2>1. passed \in [Times -> Nat] /\ \A t \in Times : passed[t] = 0
    BY DEF Init
  <2>2. Cardinality(FramesOf(passed, Ticks(w))) = 0
    BY <2>1, NoFrames, TicksOfWindow
  <2>3. PassedIn(Ticks(w)) = 0
    BY <2>2 DEF PassedIn, FramesOf
  <2>. QED
    BY <2>3, RateLimiterAssumption DEF Init
<1>4. WindowInv /\ AnewInv
  BY <1>3 DEF Init, WindowInv, AnewInv
<1>. QED
  BY <1>1, <1>2, <1>4 DEF QuotaInv

\* The invariant bounds every time as long as a window.
LEMMA QuotaFollows == QuotaInv => QuotaHolds
<1>. SUFFICES ASSUME QuotaInv PROVE QuotaHolds
  OBVIOUS
<1>1. \A w \in Windows \ reset : PassedIn(Ticks(w)) <= Limit
  BY DEF QuotaInv, WindowInv
<1>2. ASSUME MaxDelay <= 1, NEW t \in Times PROVE PassedIn(t..(t + Window - 1)) <= 2 * Limit
  <2>. DEFINE span == t..(t + Window - 1)
              w == KeyOf(t)
  <2>1. passed \in [Times -> Nat] /\ Limit \in Nat /\ Window \in Nat \ {0} /\ reset \subseteq Windows
    BY QuotaTypes
  <2>2. ASSUME NEW S \in SUBSET Int, NEW R \in SUBSET Int, R \cap Times \subseteq S
        PROVE  /\ PassedIn(R) \in Nat /\ PassedIn(S) \in Nat
               /\ PassedIn(R) <= PassedIn(S)
    <3>1. /\ Cardinality(FramesOf(passed, R)) \in Nat
          /\ Cardinality(FramesOf(passed, S)) \in Nat
          /\ Cardinality(FramesOf(passed, R)) <= Cardinality(FramesOf(passed, S))
      BY <2>1, <2>2, FramesAreFinite, FramesOfMore
    <3>. QED
      BY <3>1 DEF PassedIn, FramesOf
  <2>3. ASSUME NEW v \in Windows
        PROVE  /\ Ticks(v) \in SUBSET Int
               /\ Ticks(v) \ {First(v)} \in SUBSET Int /\ Ticks(v) \ {Last(v)} \in SUBSET Int
               /\ PassedIn(Ticks(v)) \in Nat /\ PassedIn(Ticks(v)) <= 2 * Limit
               /\ PassedIn(Ticks(v) \ {First(v)}) \in Nat
               /\ PassedIn(Ticks(v) \ {First(v)}) <= Limit
               /\ PassedIn(Ticks(v) \ {Last(v)}) \in Nat
               /\ PassedIn(Ticks(v) \ {Last(v)}) <= Limit
    <3>1. /\ Ticks(v) \in SUBSET Int
          /\ Ticks(v) \ {First(v)} \in SUBSET Int /\ Ticks(v) \ {Last(v)} \in SUBSET Int
      BY TicksOfWindow
    <3>2. /\ PassedIn(Ticks(v)) \in Nat
          /\ PassedIn(Ticks(v) \ {First(v)}) \in Nat
          /\ PassedIn(Ticks(v) \ {First(v)}) <= PassedIn(Ticks(v))
      BY <2>2, <3>1
    <3>3. /\ PassedIn(Ticks(v) \ {Last(v)}) \in Nat
          /\ PassedIn(Ticks(v) \ {Last(v)}) <= PassedIn(Ticks(v))
      BY <2>2, <3>1
    <3>4. CASE v \in reset
      BY <1>2, <3>1, <3>2, <3>3, <3>4 DEF QuotaInv, AnewInv
    <3>5. CASE v \notin reset
      <4>1. PassedIn(Ticks(v)) <= Limit
        BY <1>1, <3>5
      <4>. QED
        BY <2>1, <3>1, <3>2, <3>3, <4>1
    <3>. QED
      BY <3>4, <3>5
  <2>4. w \in Windows
    BY DEF KeyOf, Windows
  <2>5. span \in SUBSET Int
    OBVIOUS
  <2>6. \/ span = Ticks(w)
        \/ span \cap Times \subseteq Ticks(w) \ {First(w)}
        \/ /\ w + 1 \in Windows
           /\ span \cap Times \subseteq (Ticks(w) \ {First(w)}) \cup (Ticks(w + 1) \ {Last(w + 1)})
    BY <2>4, SpanOfTwo DEF First, Last
  <2>. HIDE DEF span, w
  <2>7. ASSUME span = Ticks(w) PROVE PassedIn(span) <= 2 * Limit
    BY <2>3, <2>4, <2>7
  <2>8. ASSUME span \cap Times \subseteq Ticks(w) \ {First(w)}
        PROVE  PassedIn(span) <= 2 * Limit
    <3>1. PassedIn(span) \in Nat /\ PassedIn(span) <= PassedIn(Ticks(w) \ {First(w)})
      BY <2>2, <2>3, <2>4, <2>5, <2>8
    <3>2. /\ PassedIn(Ticks(w) \ {First(w)}) \in Nat
          /\ PassedIn(Ticks(w) \ {First(w)}) <= Limit
      BY <2>3, <2>4
    <3>. QED
      BY <2>1, <3>1, <3>2
  <2>9. ASSUME w + 1 \in Windows,
               span \cap Times \subseteq (Ticks(w) \ {First(w)}) \cup (Ticks(w + 1) \ {Last(w + 1)})
        PROVE  PassedIn(span) <= 2 * Limit
    <3>. DEFINE S == Ticks(w) \ {First(w)}
                T == Ticks(w + 1) \ {Last(w + 1)}
    <3>1. /\ PassedIn(S) \in Nat /\ PassedIn(S) <= Limit /\ S \in SUBSET Int
          /\ PassedIn(T) \in Nat /\ PassedIn(T) <= Limit /\ T \in SUBSET Int
      BY <2>3, <2>4, <2>9
    <3>2. span \cap Times \subseteq S \cup T
      BY <2>9
    <3>. HIDE DEF S, T
    <3>3. PassedIn(span) <= PassedIn(S) + PassedIn(T)
      <4>1. Cardinality(FramesOf(passed, span))
              <= Cardinality(FramesOf(passed, S)) + Cardinality(FramesOf(passed, T))
        BY <2>1, <2>5, <3>1, <3>2, FramesOfParts
      <4>. QED
        BY <4>1 DEF PassedIn, FramesOf
    <3>4. PassedIn(span) \in Nat
      BY <2>2, <2>5
    <3>. QED
      BY <2>1, <3>1, <3>3, <3>4
  <2>10. PassedIn(span) <= 2 * Limit
    BY <2>6, <2>7, <2>8, <2>9
  <2>. QED
    BY <2>10 DEF span
<1>. QED
  BY <1>1, <1>2 DEF QuotaHolds

\* No more frames pass in a window than its limit, unless its key began anew, and
\* when counts are no later than a tick no more than twice the limit in any time as
\* long as a window.
THEOREM QuotaIsKept == Spec => []QuotaHolds
<1>1. Spec => []QuotaInv
  BY QuotaInit, QuotaStep, PTL DEF Spec
<1>. QED
  BY <1>1, QuotaFollows, PTL
-----------------------------------------------------------------------------
(***************************************************************************)
(* 3. The sockets                                                          *)
(*                                                                         *)
(* The handlers only drive the rate limit: a step of SocketSession is one  *)
(* of RateLimiter, or leaves it alone.  For the rest each handler keeps to *)
(* its own entries.                                                        *)
(***************************************************************************)

SessionInv == LimiterInv /\ SessionTypeOK /\ OneAnswerPerFrame

\* What a handler that goes to stage "there" must have seen to.
Settled(there, isRegistered, owes) ==
    /\ isRegistered => there \in {"replay", "idle", "leave"} \cup Handling
    /\ there # "leave" => owes = IF there \in Handling THEN 1 ELSE 0

SessionVarsOK ==
    /\ stage \in [Served -> Stage]
    /\ registered \in [Served -> BOOLEAN]
    /\ unanswered \in [Served -> Int]
    /\ \A s \in Served : Settled(stage[s], registered[s], unanswered[s])

ClientVarsOK ==
    /\ tokenEnd \in [Served -> 0..(MaxTime + TokenLife)]
    /\ opened \in [Served -> Times]
    /\ gone \in [Served -> BOOLEAN]

LEMMA SessionInvParts ==
    SessionInv <=> LimiterInv /\ SessionVarsOK /\ ClientVarsOK
BY DEF SessionInv, LimiterInv, SessionTypeOK, OneAnswerPerFrame, SessionVarsOK, ClientVarsOK,
   Settled

LEMMA SessionStart == SessionInit => SessionInv
<1>. SUFFICES ASSUME SessionInit PROVE SessionInv
  OBVIOUS
<1>1. LimiterInv
  BY LimiterInit DEF SessionInit
<1>2. 0 \in Times /\ 0 \in 0..(MaxTime + TokenLife)
  BY RateLimiterAssumption, SessionAssumption DEF Times
<1>3. SessionVarsOK
  BY DEF SessionInit, SessionVarsOK, Settled, Stage, Handling
<1>4. ClientVarsOK
  BY <1>2 DEF SessionInit, ClientVarsOK
<1>. QED
  BY <1>1, <1>3, <1>4, SessionInvParts

\* The steps of the sockets are steps of the rate limit they share.
LEMMA SessionDrivesLimiter ==
    [SessionNext]_<<vars, sessionVars>> => [Next]_vars
<1>. SUFFICES ASSUME [SessionNext]_<<vars, sessionVars>> PROVE [Next]_vars
  OBVIOUS
<1>1. ASSUME NEW s \in Served, Take(s) \/ Handle(s) PROVE Next
  <2>1. s \in Sockets
    BY SessionAssumption
  <2>2. Receive(s) \/ LetThrough(s) \/ Refuse(s)
    BY <1>1 DEF Take, Handle, Pass, ExceedLimit
  <2>. QED
    BY <2>1, <2>2 DEF Next
<1>2. ASSUME NEW s \in Sockets \ Served, Receive(s) \/ LetThrough(s) \/ Refuse(s) PROVE Next
  BY <1>2 DEF Next
<1>3. SessionTick => Next
  BY DEF SessionTick, Next
<1>4. Toggle => Next
  BY DEF Next
<1>. QED
  BY <1>1, <1>2, <1>3, <1>4 DEF SessionNext

\* A handler that changes the entries of its own socket and settles them leaves the
\* other sockets as they were.
LEMMA OwnEntriesOnly ==
    ASSUME SessionVarsOK, NEW s \in Served,
           NEW there \in Stage, NEW isRegistered \in BOOLEAN, NEW owes \in Int,
           stage' = [stage EXCEPT ![s] = there],
           registered' = [registered EXCEPT ![s] = isRegistered],
           unanswered' = [unanswered EXCEPT ![s] = owes],
           Settled(there, isRegistered, owes)
    PROVE  SessionVarsOK'
<1>1. /\ stage' \in [Served -> Stage]
      /\ registered' \in [Served -> BOOLEAN]
      /\ unanswered' \in [Served -> Int]
  BY DEF SessionVarsOK
<1>2. ASSUME NEW t \in Served PROVE Settled(stage'[t], registered'[t], unanswered'[t])
  <2>1. CASE t = s
    BY <2>1 DEF SessionVarsOK
  <2>2. CASE t # s
    BY <2>2 DEF SessionVarsOK
  <2>. QED
    BY <2>1, <2>2
<1>. QED
  BY <1>1, <1>2 DEF SessionVarsOK

\* A socket that is closed has nothing registered and owes nothing.
LEMMA CloseSettles ==
    ASSUME SessionInv, NEW s \in Served, Close(s), NEW isRegistered \in BOOLEAN,
           registered' = [registered EXCEPT ![s] = isRegistered], ~isRegistered,
           opened' \in [Served -> Times]
    PROVE  SessionVarsOK' /\ ClientVarsOK'
<1>1. SessionVarsOK /\ ClientVarsOK
  BY SessionInvParts
<1>2. "closed" \in Stage /\ Settled("closed", isRegistered, 0) /\ 0 \in Int
  BY DEF Stage, Settled, Handling
<1>3. stage' = [stage EXCEPT ![s] = "closed"] /\ unanswered' = [unanswered EXCEPT ![s] = 0]
  BY DEF Close, Go
<1>4. SessionVarsOK'
  BY <1>1, <1>2, <1>3, OwnEntriesOnly
<1>5. 0 \in 0..(MaxTime + TokenLife)
  BY RateLimiterAssumption, SessionAssumption
<1>6. ClientVarsOK'
  BY <1>1, <1>5 DEF Close, ClientVarsOK
<1>. QED
  BY <1>4, <1>6

\* A handler that goes on, and answers its frame or does not, settles its entries.
LEMMA GoSettles ==
    ASSUME SessionInv, NEW s \in Served,
           NEW there \in Stage, NEW owes \in Int, Go(s, there),
           unanswered' = [unanswered EXCEPT ![s] = owes], UNCHANGED registered,
           Settled(there, registered[s], owes)
    PROVE  SessionVarsOK'
<1>1. SessionVarsOK
  BY SessionInvParts
<1>2. registered[s] \in BOOLEAN /\ registered' = [registered EXCEPT ![s] = registered[s]]
  BY <1>1 DEF SessionVarsOK
<1>3. stage' = [stage EXCEPT ![s] = there]
  BY DEF Go
<1>. QED
  BY <1>1, <1>2, <1>3, OwnEntriesOnly

\* One that goes on with the frame in hand still to be answered, or with none.
LEMMA StaysSettled ==
    ASSUME SessionInv, NEW s \in Served, NEW there \in Stage, Go(s, there),
           UNCHANGED <<registered, unanswered>>, Settled(there, registered[s], unanswered[s])
    PROVE  SessionVarsOK'
<1>1. SessionVarsOK
  BY SessionInvParts
<1>2. unanswered[s] \in Int /\ unanswered' = [unanswered EXCEPT ![s] = unanswered[s]]
  BY <1>1 DEF SessionVarsOK
<1>. QED
  BY <1>2, GoSettles

\* What is known of a socket before its handler takes a step.
LEMMA WasSettled ==
    ASSUME SessionInv, NEW s \in Served
    PROVE  /\ stage[s] \in Stage /\ registered[s] \in BOOLEAN /\ unanswered[s] \in Int
           /\ Settled(stage[s], registered[s], unanswered[s])
BY SessionInvParts DEF SessionVarsOK

\* An answer clears the frame in hand, and leads back to the loop or out of it.
LEMMA AnswerSettles ==
    ASSUME SessionInv, NEW s \in Served, stage[s] \in Handling,
           NEW there \in {"idle", "leave"}, Go(s, there), Answered(s), UNCHANGED registered
    PROVE  SessionVarsOK'
<1>1. unanswered[s] = 1
  BY WasSettled DEF Settled, Handling
<1>2. unanswered' = [unanswered EXCEPT ![s] = 0]
  BY <1>1 DEF Answered
<1>3. there \in Stage /\ Settled(there, registered[s], 0) /\ 0 \in Int
  BY DEF Stage, Settled, Handling
<1>. QED
  BY <1>2, <1>3, GoSettles

\* The steps of the handler that may count a frame.
LEMMA FrameStep ==
    ASSUME SessionInv, NEW s \in Served, Take(s) \/ Handle(s)
    PROVE  SessionVarsOK' /\ ClientVarsOK'
<1>. USE WasSettled
<1>1. ClientVarsOK'
  BY SessionInvParts DEF Take, Handle, Pass, ExceedLimit, ClientVarsOK
<1>2. CASE Take(s)
  <2>0. unanswered[s] = 0
    BY <1>2 DEF Take, Settled, Handling
  <2>1. unanswered' = [unanswered EXCEPT ![s] = 1]
    BY <1>2, <2>0 DEF Take
  <2>2. "count" \in Stage /\ Settled("count", registered[s], 1)
    BY DEF Stage, Settled, Handling
  <2>3. Go(s, "count") /\ UNCHANGED registered
    BY <1>2 DEF Take
  <2>4. 1 \in Int
    OBVIOUS
  <2>5. SessionVarsOK'
    BY <2>1, <2>2, <2>3, <2>4, GoSettles
  <2>. QED
    BY <1>1, <2>5
<1>3. CASE Pass(s)
  <2>1. PICK there \in {"invalid", "send"} : Go(s, there)
    BY <1>3 DEF Pass
  <2>2. there \in Stage /\ Settled(there, registered[s], unanswered[s])
    BY <1>3 DEF Pass, Stage, Settled, Handling
  <2>3. UNCHANGED <<registered, unanswered>>
    BY <1>3 DEF Pass
  <2>. QED
    BY <1>1, <2>1, <2>2, <2>3, StaysSettled
<1>4. CASE ExceedLimit(s)
  <2>1. PICK there \in {"idle", "leave"} : Go(s, there)
    BY <1>4 DEF ExceedLimit, Send, OnRefusal
  <2>2. stage[s] \in Handling /\ Answered(s) /\ UNCHANGED registered
    BY <1>4 DEF ExceedLimit, Handling
  <2>. QED
    BY <1>1, <2>1, <2>2, AnswerSettles
<1>. QED
  BY <1>2, <1>3, <1>4 DEF Handle

\* The other steps of the handler, and those of its client and the registry.
LEMMA HandlerStep ==
    ASSUME SessionInv, NEW s \in Served,
           Accept(s) \/ Authenticate(s) \/ FailAuth(s) \/ Serve(s) \/ HangUp(s) \/ DropDead(s)
    PROVE  SessionVarsOK' /\ ClientVarsOK'
<1>. USE WasSettled
<1>0. /\ SessionVarsOK /\ ClientVarsOK /\ clock \in Times
      /\ 0 \in Times /\ Times \subseteq Int /\ MaxTime \in Nat /\ TokenLife \in Nat
  BY SessionInvParts, RateLimiterAssumption, SessionAssumption DEF LimiterInv, TypeOK, Times
<1>1. CASE Accept(s)
  <2>1. "auth" \in Stage /\ Settled("auth", registered[s], unanswered[s])
    BY <1>1 DEF Accept, Stage, Settled, Handling
  <2>2. SessionVarsOK'
    BY <1>1, <2>1, StaysSettled DEF Accept
  <2>3. ClientVarsOK'
    BY <1>0, <1>1 DEF Accept, ClientVarsOK
  <2>. QED
    BY <2>2, <2>3
<1>2. CASE Authenticate(s)
  <2>1. "access" \in Stage /\ Settled("access", registered[s], unanswered[s])
    BY <1>2 DEF Authenticate, Stage, Settled, Handling
  <2>2. SessionVarsOK'
    BY <1>2, <2>1, StaysSettled DEF Authenticate
  <2>3. PICK end \in (clock + 1)..(clock + TokenLife) : tokenEnd' = [tokenEnd EXCEPT ![s] = end]
    BY <1>2 DEF Authenticate
  <2>4. end \in 0..(MaxTime + TokenLife)
    BY <1>0 DEF Times
  <2>5. ClientVarsOK'
    BY <1>0, <1>2, <2>3, <2>4 DEF Authenticate, ClientVarsOK
  <2>. QED
    BY <2>2, <2>5
<1>3. CASE FailAuth(s)
  <2>1. ~registered[s] /\ registered' = [registered EXCEPT ![s] = FALSE]
    BY <1>0, <1>3 DEF FailAuth, Settled, Handling, SessionVarsOK
  <2>2. opened' \in [Served -> Times] /\ Close(s)
    BY <1>0, <1>3 DEF FailAuth, ClientVarsOK
  <2>. QED
    BY <2>1, <2>2, CloseSettles
<1>4. CASE EnsureAccess(s) \/ Join(s)
  <2>1. ~registered[s] /\ opened' \in [Served -> Times]
    BY <1>0, <1>4 DEF EnsureAccess, Join, Settled, Handling, ClientVarsOK
  <2>2. CASE Close(s)
    <3>1. registered' = [registered EXCEPT ![s] = FALSE]
      BY <1>0, <1>4, <2>1, <2>2
      DEF EnsureAccess, Join, RolledBack, Close, Go, SessionVarsOK, Stage, Handling
    <3>. QED
      BY <2>1, <2>2, <3>1, CloseSettles
  <2>3. CASE ~Close(s)
    <3>1. ClientVarsOK'
      BY <1>0, <1>4, <2>3 DEF EnsureAccess, Join, ClientVarsOK
    <3>2. CASE EnsureAccess(s)
      <4>1. "join" \in Stage /\ Settled("join", registered[s], unanswered[s])
        BY <3>2 DEF EnsureAccess, Stage, Settled, Handling
      <4>2. Go(s, "join") /\ UNCHANGED <<registered, unanswered>>
        BY <2>3, <3>2 DEF EnsureAccess
      <4>. QED
        BY <3>1, <4>1, <4>2, StaysSettled
    <3>3. CASE Join(s)
      <4>1. /\ stage' = [stage EXCEPT ![s] = "replay"]
            /\ registered' = [registered EXCEPT ![s] = TRUE]
            /\ unanswered' = [unanswered EXCEPT ![s] = unanswered[s]]
        BY <1>0, <2>3, <3>3 DEF Join, Go, SessionVarsOK
      <4>2. "replay" \in Stage /\ Settled("replay", TRUE, unanswered[s])
        BY <3>3 DEF Join, Stage, Settled, Handling
      <4>. QED
        BY <1>0, <3>1, <4>1, <4>2, OwnEntriesOnly
    <3>. QED
      BY <1>4, <3>2, <3>3
  <2>. QED
    BY <2>2, <2>3
<1>5. CASE Replay(s) \/ EndReceive(s)
  <2>1. PICK there \in {"idle", "leave"} : Go(s, there)
    BY <1>5 DEF Replay, EndReceive, OnFailure
  <2>2. there \in Stage /\ Settled(there, registered[s], unanswered[s])
    BY <1>5 DEF Replay, EndReceive, Stage, Settled, Handling
  <2>3. UNCHANGED <<tokenEnd, opened, gone, registered, unanswered>>
    BY <1>5 DEF Replay, EndReceive
  <2>4. SessionVarsOK'
    BY <2>1, <2>2, <2>3, StaysSettled
  <2>. QED
    BY <1>0, <2>3, <2>4 DEF ClientVarsOK
<1>6. CASE RefuseInvalid(s) \/ Reply(s) \/ (CheckToken(s) /\ ~Valid(s))
  <2>1. PICK there \in {"idle", "leave"} : Go(s, there)
    BY <1>6 DEF RefuseInvalid, Reply, CheckToken, Send
  <2>2. /\ stage[s] \in Handling /\ Answered(s)
        /\ UNCHANGED <<tokenEnd, opened, gone, registered>>
    BY <1>6 DEF RefuseInvalid, Reply, CheckToken, Handling
  <2>3. SessionVarsOK'
    BY <2>1, <2>2, AnswerSettles
  <2>. QED
    BY <1>0, <2>2, <2>3 DEF ClientVarsOK
<1>7. CASE CheckToken(s) /\ Valid(s)
  <2>1. "reply" \in Stage /\ Settled("reply", registered[s], unanswered[s])
    BY <1>7 DEF CheckToken, Stage, Settled, Handling
  <2>2. Go(s, "reply") /\ UNCHANGED <<tokenEnd, opened, gone, registered, unanswered>>
    BY <1>7 DEF CheckToken
  <2>3. SessionVarsOK'
    BY <2>1, <2>2, StaysSettled
  <2>. QED
    BY <1>0, <2>2, <2>3 DEF ClientVarsOK
<1>8. CASE Leave(s)
  <2>1. opened' \in [Served -> Times]
    BY <1>0, <1>8 DEF Leave, ClientVarsOK
  <2>. QED
    BY <1>8, <2>1, CloseSettles DEF Leave
<1>9. CASE HangUp(s)
  BY <1>0, <1>9 DEF HangUp, SessionVarsOK, ClientVarsOK
<1>10. CASE DropDead(s)
  <2>1. Settled(stage[s], FALSE, unanswered[s])
    BY DEF Settled
  <2>2. /\ stage' = [stage EXCEPT ![s] = stage[s]]
        /\ registered' = [registered EXCEPT ![s] = FALSE]
        /\ unanswered' = [unanswered EXCEPT ![s] = unanswered[s]]
    BY <1>0, <1>10 DEF DropDead, SessionVarsOK
  <2>3. SessionVarsOK'
    BY <1>0, <2>1, <2>2, OwnEntriesOnly
  <2>. QED
    BY <1>0, <1>10, <2>3 DEF DropDead, ClientVarsOK
<1>. QED
  BY <1>1, <1>2, <1>3, <1>4, <1>5, <1>6, <1>7, <1>8, <1>9, <1>10 DEF Serve

LEMMA SessionStep ==
    SessionInv /\ [SessionNext]_<<vars, sessionVars>> => SessionInv'
<1>. SUFFICES ASSUME SessionInv, [SessionNext]_<<vars, sessionVars>> PROVE SessionInv'
  OBVIOUS
<1>1. LimiterInv'
  BY SessionDrivesLimiter, LimiterStep, SessionInvParts
<1>2. ASSUME UNCHANGED sessionVars PROVE SessionVarsOK' /\ ClientVarsOK'
  BY <1>2, SessionInvParts DEF sessionVars, SessionVarsOK, ClientVarsOK
<1>3. ASSUME NEW s \in Served, Take(s) \/ Handle(s) PROVE SessionVarsOK' /\ ClientVarsOK'
  BY <1>3, FrameStep
<1>4. ASSUME NEW s \in Served,
             Accept(s) \/ Authenticate(s) \/ FailAuth(s) \/ Serve(s) \/ HangUp(s) \/ DropDead(s)
      PROVE  SessionVarsOK' /\ ClientVarsOK'
  BY <1>4, HandlerStep
<1>5. SessionVarsOK' /\ ClientVarsOK'
  BY <1>2, <1>3, <1>4 DEF SessionNext, SessionTick
<1>. QED
  BY <1>1, <1>5
  DEF SessionInv, LimiterInv, SessionTypeOK, OneAnswerPerFrame, SessionVarsOK, ClientVarsOK,
      Settled

\* The handlers keep their types, and a socket that is registered has a handler
\* that will leave.
THEOREM SessionTyped == SessionSpec => []SessionTypeOK
<1>1. SessionInv => SessionTypeOK
  BY DEF SessionInv
<1>2. SessionSpec => []SessionInv
  BY SessionStart, SessionStep, PTL DEF SessionSpec
<1>. QED
  BY <1>1, <1>2, PTL

\* Whatever a frame contains or fails on, and whoever hangs up meanwhile, it is
\* answered once before the next is taken: the loop never goes on in silence, and
\* never handles a frame that it has refused.
THEOREM EveryFrameIsAnswered == SessionSpec => []OneAnswerPerFrame
<1>1. SessionInv => OneAnswerPerFrame
  BY DEF SessionInv
<1>2. SessionSpec => []SessionInv
  BY SessionStart, SessionStep, PTL DEF SessionSpec
<1>. QED
  BY <1>1, <1>2, PTL

\* The sockets drive the rate limit by its own steps alone, so what it promises of
\* frames from anywhere holds of theirs.
THEOREM SessionKeepsLimit == SessionSpec => Spec /\ []QuotaHolds /\ []NoEarlyRefusal
<1>1. SessionInit => Init
  BY DEF SessionInit
<1>2. SessionSpec => Spec
  BY <1>1, SessionDrivesLimiter, PTL DEF SessionSpec, Spec
<1>. QED
  BY <1>2, QuotaIsKept, NoneIsRefusedEarly, PTL
=============================================================================
