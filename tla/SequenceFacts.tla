----------------------------- MODULE SequenceFacts -----------------------------
(***************************************************************************)
(* What Head, Tail and Append do to sequences whose elements, or some of   *)
(* whose elements, occur only once: the free list of CPool, on which every *)
(* task is different, and the completion port, whose EXIT packets and null *)
(* tasks are not.                                                          *)
(***************************************************************************)
EXTENDS Naturals, Sequences, SequencesExt, TLAPS

LEMMA TailOfInjective ==
  ASSUME NEW S, NEW s \in Seq(S), s # <<>>, IsInjective(s)
  PROVE  /\ Tail(s) \in Seq(S) /\ Head(s) \in S /\ Head(s) \in ToSet(s)
         /\ IsInjective(Tail(s))
         /\ ToSet(Tail(s)) = ToSet(s) \ {Head(s)}
<1>1. /\ Tail(s) \in Seq(S) /\ Len(s) \in Nat \ {0} /\ Head(s) = s[1]
      /\ DOMAIN s = 1..Len(s) /\ DOMAIN Tail(s) = 1..(Len(s) - 1)
      /\ \A n \in 1..(Len(s) - 1) : Tail(s)[n] = s[n + 1]
  OBVIOUS
<1>2. 1 \in DOMAIN s
  BY <1>1
<1>3. IsInjective(Tail(s))
  <2> SUFFICES ASSUME NEW a \in 1..(Len(s) - 1), NEW b \in 1..(Len(s) - 1),
                      Tail(s)[a] = Tail(s)[b]
               PROVE a = b
    BY <1>1 DEF IsInjective
  <2>1. s[a + 1] = s[b + 1] /\ a + 1 \in DOMAIN s /\ b + 1 \in DOMAIN s
    BY <1>1
  <2>2. a + 1 = b + 1
    BY <2>1 DEF IsInjective
  <2> QED
    BY <2>2
<1>4. ToSet(Tail(s)) \subseteq ToSet(s) \ {Head(s)}
  <2> SUFFICES ASSUME NEW n \in 1..(Len(s) - 1)
               PROVE Tail(s)[n] \in ToSet(s) /\ Tail(s)[n] # s[1]
    BY <1>1 DEF ToSet
  <2>1. Tail(s)[n] = s[n + 1] /\ n + 1 \in DOMAIN s /\ n + 1 # 1
    BY <1>1
  <2> QED
    BY <1>2, <2>1 DEF ToSet, IsInjective
<1>5. ToSet(s) \ {Head(s)} \subseteq ToSet(Tail(s))
  <2> SUFFICES ASSUME NEW n \in 1..Len(s), s[n] # s[1]
               PROVE s[n] \in ToSet(Tail(s))
    BY <1>1 DEF ToSet
  <2>1. n - 1 \in 1..(Len(s) - 1) /\ Tail(s)[n - 1] = s[n]
    BY <1>1
  <2> QED
    BY <1>1, <2>1 DEF ToSet
<1>6. Head(s) \in S /\ Head(s) \in ToSet(s)
  BY <1>1, <1>2 DEF ToSet
<1> QED
  BY <1>1, <1>3, <1>4, <1>5, <1>6

LEMMA AppendOfInjective ==
  ASSUME NEW S, NEW s \in Seq(S), NEW e \in S, IsInjective(s), e \notin ToSet(s)
  PROVE  /\ Append(s, e) \in Seq(S)
         /\ IsInjective(Append(s, e))
         /\ ToSet(Append(s, e)) = ToSet(s) \cup {e}
<1>1. /\ Append(s, e) \in Seq(S) /\ Len(s) \in Nat /\ DOMAIN s = 1..Len(s)
      /\ DOMAIN Append(s, e) = 1..(Len(s) + 1)
      /\ \A n \in 1..Len(s) : Append(s, e)[n] = s[n]
      /\ Append(s, e)[Len(s) + 1] = e
  OBVIOUS
<1>2. 1..(Len(s) + 1) = (1..Len(s)) \cup {Len(s) + 1}
  BY <1>1
<1>3. \A n \in 1..Len(s) : s[n] # e
  BY <1>1 DEF ToSet
<1>4. IsInjective(Append(s, e))
  BY <1>1, <1>2, <1>3 DEF IsInjective
<1>5. ToSet(Append(s, e)) = ToSet(s) \cup {e}
  BY <1>1, <1>2 DEF ToSet
<1> QED
  BY <1>1, <1>4, <1>5

\* The tasks of a step: as many as asked for, each new and all different.
LEMMA StepOfTasks ==
  ASSUME NEW c \in Nat, NEW k \in Nat, NEW S, \A n \in 1..k : c + n \in S
  PROVE  LET new == [n \in 1..k |-> c + n]
         IN /\ new \in Seq(S) /\ IsInjective(new)
            /\ ToSet(new) = (c + 1)..(c + k)
            /\ k > 0 => new # <<>> /\ Head(new) = c + 1
<1> DEFINE new == [n \in 1..k |-> c + n]
<1>1. new \in Seq(S) /\ DOMAIN new = 1..k /\ Len(new) = k
  OBVIOUS
<1>2. IsInjective(new)
  BY DEF IsInjective
<1>3. ToSet(new) = (c + 1)..(c + k)
  <2>1. \A x \in (c + 1)..(c + k) : x - c \in 1..k /\ new[x - c] = x
    OBVIOUS
  <2>2. \A n \in 1..k : new[n] \in (c + 1)..(c + k)
    OBVIOUS
  <2> QED
    BY <1>1, <2>1, <2>2 DEF ToSet
<1>4. k > 0 => new # <<>> /\ Head(new) = c + 1
  BY <1>1
<1> QED
  BY <1>1, <1>2, <1>3, <1>4

-----------------------------------------------------------------------------

\* The elements of s that are in T occur in it once.
Once(s, T) == \A i, k \in DOMAIN s : s[i] = s[k] /\ s[i] \in T => i = k

LEMMA TailOnce ==
  ASSUME NEW S, NEW s \in Seq(S), NEW T, s # <<>>, Once(s, T)
  PROVE  /\ Tail(s) \in Seq(S) /\ Head(s) \in S /\ Head(s) \in ToSet(s)
         /\ Once(Tail(s), T)
         /\ ToSet(s) = ToSet(Tail(s)) \cup {Head(s)}
         /\ Head(s) \in T => Head(s) \notin ToSet(Tail(s))
<1>1. /\ Tail(s) \in Seq(S) /\ Len(s) \in Nat \ {0} /\ Head(s) = s[1]
      /\ DOMAIN s = 1..Len(s) /\ DOMAIN Tail(s) = 1..(Len(s) - 1)
      /\ \A n \in 1..(Len(s) - 1) : Tail(s)[n] = s[n + 1]
  OBVIOUS
<1>2. 1 \in DOMAIN s /\ Head(s) \in S /\ Head(s) \in ToSet(s)
  BY <1>1 DEF ToSet
<1>3. Once(Tail(s), T)
  <2> SUFFICES ASSUME NEW a \in 1..(Len(s) - 1), NEW b \in 1..(Len(s) - 1),
                      Tail(s)[a] = Tail(s)[b], Tail(s)[a] \in T
               PROVE a = b
    BY <1>1 DEF Once
  <2>1. s[a + 1] = s[b + 1] /\ s[a + 1] \in T /\ a + 1 \in DOMAIN s /\ b + 1 \in DOMAIN s
    BY <1>1
  <2>2. a + 1 = b + 1
    BY <2>1 DEF Once
  <2> QED
    BY <2>2
<1>4. ToSet(s) \subseteq ToSet(Tail(s)) \cup {Head(s)}
  <2> SUFFICES ASSUME NEW n \in 1..Len(s), s[n] # s[1]
               PROVE s[n] \in ToSet(Tail(s))
    BY <1>1 DEF ToSet
  <2>1. n - 1 \in 1..(Len(s) - 1) /\ Tail(s)[n - 1] = s[n]
    BY <1>1
  <2> QED
    BY <1>1, <2>1 DEF ToSet
<1>5. ToSet(Tail(s)) \subseteq ToSet(s)
  <2> SUFFICES ASSUME NEW n \in 1..(Len(s) - 1) PROVE Tail(s)[n] \in ToSet(s)
    BY <1>1 DEF ToSet
  <2>1. Tail(s)[n] = s[n + 1] /\ n + 1 \in DOMAIN s
    BY <1>1
  <2> QED
    BY <2>1 DEF ToSet
<1>6. ASSUME Head(s) \in T, Head(s) \in ToSet(Tail(s)) PROVE FALSE
  <2>1. PICK n \in 1..(Len(s) - 1) : Tail(s)[n] = Head(s)
    BY <1>1, <1>6 DEF ToSet
  <2>2. s[n + 1] = s[1] /\ n + 1 \in DOMAIN s /\ n + 1 # 1
    BY <1>1, <2>1
  <2> QED
    BY <1>1, <1>2, <1>6, <2>2 DEF Once
<1> QED
  BY <1>1, <1>2, <1>3, <1>4, <1>5, <1>6

LEMMA AppendOnce ==
  ASSUME NEW S, NEW s \in Seq(S), NEW T, NEW e \in S, Once(s, T),
         e \in T => e \notin ToSet(s)
  PROVE  /\ Append(s, e) \in Seq(S)
         /\ Once(Append(s, e), T)
         /\ ToSet(Append(s, e)) = ToSet(s) \cup {e}
<1>1. /\ Append(s, e) \in Seq(S) /\ Len(s) \in Nat /\ DOMAIN s = 1..Len(s)
      /\ DOMAIN Append(s, e) = 1..(Len(s) + 1)
      /\ \A n \in 1..Len(s) : Append(s, e)[n] = s[n]
      /\ Append(s, e)[Len(s) + 1] = e
  OBVIOUS
<1>2. 1..(Len(s) + 1) = (1..Len(s)) \cup {Len(s) + 1}
  BY <1>1
<1>3. e \in T => \A n \in 1..Len(s) : s[n] # e
  BY <1>1 DEF ToSet
<1>4. Once(Append(s, e), T)
  BY <1>1, <1>2, <1>3 DEF Once
<1>5. ToSet(Append(s, e)) = ToSet(s) \cup {e}
  BY <1>1, <1>2 DEF ToSet
<1> QED
  BY <1>1, <1>4, <1>5

LEMMA AppendSet ==
  ASSUME NEW S, NEW s \in Seq(S), NEW e \in S
  PROVE  Append(s, e) \in Seq(S) /\ ToSet(Append(s, e)) = ToSet(s) \cup {e}
<1>1. Once(s, {})
  BY DEF Once
<1> QED
  BY <1>1, AppendOnce

LEMMA EmptyOnce == ASSUME NEW T PROVE Once(<<>>, T) /\ ToSet(<<>>) = {}
  BY DEF Once, ToSet

=============================================================================
