----------------------- MODULE MessageContractProofs -----------------------
(***************************************************************************)
(* MessageFlow implements DeliveryContract, for any servers, sessions,     *)
(* ids, messages and bounds.  The proof counts: as long as a target of a   *)
(* message has not been given it, the target stands at some place of the   *)
(* system (among the targets still to be looked up, in a group, in a       *)
(* queue, with a consumer, with a goroutine).  Most steps only carry a     *)
(* sequence of targets from one place to another, so they add nothing to   *)
(* the count; a copy arises only with an acknowledgement the broker never  *)
(* hears, and such a copy has no more targets than the message.            *)
(***************************************************************************)
EXTENDS MessageFlowProofs, FunctionTheorems

(***************************************************************************)
(* Places, and the targets that stand there.                               *)
(***************************************************************************)

QueueAt(v, k) == <<"queue", v, k>>    \* the k-th copy in a queue
HeldBy(s)     == <<"held", s, 0>>     \* the copy a consumer holds
With(j)       == <<"job", j, 0>>      \* what a goroutine has left
InGroup(v)    == <<"group", v, 0>>    \* found on a server
Ahead         == <<"ahead", 0, 0>>    \* to be looked up

Places == ({"queue"} \X Queues \X Nat) \cup ({"held"} \X Sessions \X {0})
          \cup ({"job"} \X Jobs \X {0}) \cup ({"group"} \X Queues \X {0}) \cup {Ahead}

Layouts == [Places -> Seq(Ids)]

\* The positions at which an id stands in a sequence.
Spots(s, i) == {n \in DOMAIN s : s[n] = i}

\* The places and positions at which an id stands in a layout.
Tokens(W, i) == {t \in Places \X Nat : t[2] \in DOMAIN W[t[1]] /\ W[t[1]][t[2]] = i}

\* What is kept in the place of a copy comes from a copy or a group, what is
\* in a group was there before, and the targets ahead are only taken away.
Carries(p, q) ==
    /\ p = Ahead <=> q = Ahead
    /\ p[1] = "group" => q = p
    /\ p[1] \in {"queue", "held"} => q[1] \in {"queue", "held", "group"}

\* Layout X comes from W by carrying sequences to other places or losing them.
Relocated(W, X) ==
    \E g \in [Places -> Places] :
        /\ \A p \in Places : X[p] # <<>> => X[p] = W[g[p]] /\ Carries(p, g[p])
        /\ \A p, q \in Places : X[p] # <<>> /\ X[q] # <<>> /\ g[p] = g[q] => p = q

-----------------------------------------------------------------------------
(* Counting. *)

\* Every place is one of five kinds, and places of one kind differ by their name.
LEMMA PlaceNames ==
    /\ \A v \in Queues, k \in Nat : QueueAt(v, k) \in Places
    /\ \A s \in Sessions : HeldBy(s) \in Places
    /\ \A j \in Jobs : With(j) \in Places
    /\ \A v \in Queues : InGroup(v) \in Places
    /\ Ahead \in Places
    /\ \A p \in Places :
          \/ \E v \in Queues, k \in Nat : p = QueueAt(v, k)
          \/ \E s \in Sessions : p = HeldBy(s)
          \/ \E j \in Jobs : p = With(j)
          \/ \E v \in Queues : p = InGroup(v)
          \/ p = Ahead
BY DEF Places, QueueAt, HeldBy, With, InGroup, Ahead

\* The spots of an id in a sequence are finitely many, and none in an empty one.
LEMMA SpotsFinite ==
    ASSUME NEW s \in Seq(Ids), NEW i
    PROVE  /\ IsFiniteSet(Spots(s, i)) /\ Cardinality(Spots(s, i)) \in Nat
           /\ s = <<>> => Cardinality(Spots(s, i)) = 0
<1>1. DOMAIN s = 1 .. Len(s) /\ Len(s) \in Nat
  BY LenProperties
<1>2. IsFiniteSet(1 .. Len(s))
  BY <1>1, FS_Interval
<1>3. Spots(s, i) \in SUBSET (1 .. Len(s))
  BY <1>1 DEF Spots
<1>4. IsFiniteSet(Spots(s, i))
  BY <1>2, <1>3, FS_Subset
<1>5. s = <<>> => Spots(s, i) = {}
  BY DEF Spots
<1>. QED
  BY <1>4, <1>5, FS_CardinalityType, FS_EmptySet

\* An injection carries a bound on the size of a set over to another one.
LEMMA Injected ==
    ASSUME NEW S, NEW T, IsFiniteSet(T), NEW f \in [S -> T],
           \A a, b \in S : f[a] = f[b] => a = b
    PROVE  /\ IsFiniteSet(S) /\ Cardinality(S) \in Nat
           /\ Cardinality(T) \in Nat /\ Cardinality(S) <= Cardinality(T)
<1>1. f \in Injection(S, T)
  BY DEF Injection, IsInjective
<1>. QED
  BY <1>1, FS_Injection, FS_CardinalityType

\* Carrying sequences around adds no token.
LEMMA RelocatedTokens ==
    ASSUME NEW W \in Layouts, NEW X \in Layouts, Relocated(W, X), NEW i,
           IsFiniteSet(Tokens(W, i))
    PROVE  /\ IsFiniteSet(Tokens(X, i))
           /\ Cardinality(Tokens(X, i)) \in Nat /\ Cardinality(Tokens(W, i)) \in Nat
           /\ Cardinality(Tokens(X, i)) <= Cardinality(Tokens(W, i))
<1>1. PICK g \in [Places -> Places] :
        /\ \A p \in Places : X[p] # <<>> => X[p] = W[g[p]]
        /\ \A p, q \in Places : X[p] # <<>> /\ X[q] # <<>> /\ g[p] = g[q] => p = q
  BY DEF Relocated
<1> DEFINE f == [t \in Tokens(X, i) |-> <<g[t[1]], t[2]>>]
<1>2. ASSUME NEW t \in Tokens(X, i)
      PROVE  /\ t \in Places \X Nat /\ t = <<t[1], t[2]>> /\ X[t[1]] # <<>>
             /\ <<g[t[1]], t[2]>> \in Tokens(W, i)
  <2>1. t \in Places \X Nat /\ t[2] \in DOMAIN X[t[1]] /\ X[t[1]][t[2]] = i
    BY DEF Tokens
  <2>2. X[t[1]] # <<>>
    BY <2>1
  <2>3. X[t[1]] = W[g[t[1]]] /\ g[t[1]] \in Places /\ t[2] \in Nat
    BY <1>1, <2>1, <2>2
  <2>. QED
    BY <2>1, <2>2, <2>3 DEF Tokens
<1>3. f \in [Tokens(X, i) -> Tokens(W, i)]
  BY <1>2
<1>4. ASSUME NEW a \in Tokens(X, i), NEW b \in Tokens(X, i), f[a] = f[b] PROVE a = b
  <2>1. g[a[1]] = g[b[1]] /\ a[2] = b[2]
    BY <1>4
  <2>2. a[1] = b[1]
    BY <1>1, <1>2, <2>1
  <2>. QED
    BY <1>2, <2>1, <2>2
<1>. HIDE DEF f
<1>. QED
  BY <1>3, <1>4, Injected

\* Taking the first target off a sequence, which may be carried elsewhere by
\* that, takes its token away.
LEMMA TakenTokens ==
    ASSUME NEW W \in Layouts, NEW X \in Layouts, NEW i,
           NEW p \in Places, NEW q \in Places, W[q] # <<>>, X[p] = Tail(W[q]),
           p # q => X[q] = <<>>,
           \A r \in Places \ {p, q} : X[r] = W[r],
           IsFiniteSet(Tokens(W, i))
    PROVE  /\ IsFiniteSet(Tokens(X, i))
           /\ Cardinality(Tokens(X, i)) \in Nat /\ Cardinality(Tokens(W, i)) \in Nat
           /\ Cardinality(Tokens(X, i)) + (IF Head(W[q]) = i THEN 1 ELSE 0)
                <= Cardinality(Tokens(W, i))
<1> DEFINE first == <<q, 1>>
           T == Tokens(W, i) \ {first}
           f == [t \in Tokens(X, i) |-> IF t[1] = p THEN <<q, t[2] + 1>> ELSE t]
<1>1. /\ W[q] \in Seq(Ids) /\ Len(W[q]) \in Nat /\ Len(W[q]) > 0
      /\ DOMAIN W[q] = 1 .. Len(W[q]) /\ Head(W[q]) = W[q][1]
      /\ DOMAIN Tail(W[q]) = 1 .. Len(W[q]) - 1
      /\ \A n \in 1 .. Len(W[q]) - 1 : Tail(W[q])[n] = W[q][n + 1]
  BY HeadTailProperties, LenProperties, EmptySeq DEF Layouts
<1>2. first \in Tokens(W, i) <=> Head(W[q]) = i
  BY <1>1 DEF Tokens
<1>3. ASSUME NEW t \in Tokens(X, i)
      PROVE  /\ t = <<t[1], t[2]>> /\ t[2] \in Nat \ {0}
             /\ t[1] = p => <<q, t[2] + 1>> \in T
             /\ t[1] # p => t \in T /\ t[1] # q
  <2>1. t \in Places \X Nat /\ t[2] \in DOMAIN X[t[1]] /\ X[t[1]][t[2]] = i
    BY DEF Tokens
  <2>2. DOMAIN X[t[1]] = 1 .. Len(X[t[1]])
    BY <2>1, LenProperties DEF Layouts
  <2>3. CASE t[1] = p
    <3>1. t[2] \in 1 .. Len(W[q]) - 1 /\ W[q][t[2] + 1] = i
      BY <1>1, <2>1, <2>3
    <3>2. t[2] + 1 \in DOMAIN W[q] /\ t[2] + 1 \in Nat /\ t[2] + 1 # 1
      BY <1>1, <3>1
    <3>. QED
      BY <2>1, <2>2, <2>3, <3>1, <3>2 DEF Tokens
  <2>4. CASE t[1] # p
    <3>1. t[1] # q
      BY <2>1, <2>4
    <3>2. X[t[1]] = W[t[1]]
      BY <2>1, <2>4, <3>1
    <3>. QED
      BY <2>1, <2>2, <2>4, <3>1, <3>2 DEF Tokens
  <2>. QED
    BY <2>3, <2>4
<1>4. f \in [Tokens(X, i) -> T]
  BY <1>3
<1>5. ASSUME NEW a \in Tokens(X, i), NEW b \in Tokens(X, i), f[a] = f[b] PROVE a = b
  <2>1. /\ f[a] = IF a[1] = p THEN <<q, a[2] + 1>> ELSE a
        /\ f[b] = IF b[1] = p THEN <<q, b[2] + 1>> ELSE b
    OBVIOUS
  <2>2. CASE a[1] = p /\ b[1] = p
    <3>1. a[2] + 1 = b[2] + 1
      BY <1>5, <2>1, <2>2
    <3>2. a[2] \in Nat /\ b[2] \in Nat /\ a = <<p, a[2]>> /\ b = <<p, b[2]>>
      BY <1>3, <2>2
    <3>3. a[2] = b[2]
      BY <3>1, <3>2
    <3>. QED
      BY <3>2, <3>3
  <2>3. CASE a[1] # p /\ b[1] # p
    BY <1>5, <2>1, <2>3
  <2>4. CASE a[1] = p /\ b[1] # p
    <3>1. b = <<q, a[2] + 1>> /\ b[1] # q
      BY <1>3, <1>5, <2>1, <2>4
    <3>. QED
      BY <3>1
  <2>5. CASE a[1] # p /\ b[1] = p
    <3>1. a = <<q, b[2] + 1>> /\ a[1] # q
      BY <1>3, <1>5, <2>1, <2>5
    <3>. QED
      BY <3>1
  <2>. QED
    BY <2>2, <2>3, <2>4, <2>5
<1>6. /\ IsFiniteSet(T) /\ Cardinality(Tokens(W, i)) \in Nat
      /\ Cardinality(T) = IF first \in Tokens(W, i) THEN Cardinality(Tokens(W, i)) - 1
                                                   ELSE Cardinality(Tokens(W, i))
  BY FS_RemoveElement, FS_CardinalityType
<1>7. /\ IsFiniteSet(Tokens(X, i)) /\ Cardinality(Tokens(X, i)) \in Nat
      /\ Cardinality(T) \in Nat /\ Cardinality(Tokens(X, i)) <= Cardinality(T)
  <2>. HIDE DEF T, f
  <2>. QED
    BY <1>4, <1>5, <1>6, Injected
<1>. QED
  BY <1>2, <1>6, <1>7

\* A sequence that is put into an empty place adds its own spots.
LEMMA PlacedTokens ==
    ASSUME NEW W \in Layouts, NEW X \in Layouts, NEW i,
           NEW p \in Places, W[p] = <<>>,
           \A r \in Places \ {p} : X[r] = W[r],
           IsFiniteSet(Tokens(W, i))
    PROVE  /\ IsFiniteSet(Tokens(X, i))
           /\ Cardinality(Tokens(X, i)) \in Nat /\ Cardinality(Tokens(W, i)) \in Nat
           /\ Cardinality(Spots(X[p], i)) \in Nat
           /\ Cardinality(Tokens(X, i))
                <= Cardinality(Tokens(W, i)) + Cardinality(Spots(X[p], i))
<1> DEFINE N == {t \in Tokens(X, i) : t[1] = p}
           f == [t \in N |-> t[2]]
<1>1. X[p] \in Seq(Ids)
  BY DEF Layouts
<1>2. IsFiniteSet(Spots(X[p], i))
  BY <1>1, SpotsFinite
<1>3. f \in [N -> Spots(X[p], i)]
  BY DEF Tokens, Spots
<1>4. \A a, b \in N : f[a] = f[b] => a = b
  <2>1. \A t \in N : t = <<p, t[2]>> /\ f[t] = t[2]
    BY DEF Tokens
  <2>. QED
    BY <2>1
<1>5. /\ IsFiniteSet(N) /\ Cardinality(N) \in Nat /\ Cardinality(Spots(X[p], i)) \in Nat
      /\ Cardinality(N) <= Cardinality(Spots(X[p], i))
  <2>. HIDE DEF N, f
  <2>. QED
    BY <1>2, <1>3, <1>4, Injected
<1>6. Tokens(X, i) = Tokens(W, i) \cup N
  <2>1. \A t \in Places \X Nat : t[1] # p => X[t[1]] = W[t[1]]
    OBVIOUS
  <2>2. \A t \in Places \X Nat : t[1] = p => DOMAIN W[t[1]] = {}
    OBVIOUS
  <2>. QED
    BY <2>1, <2>2 DEF Tokens
<1>7. /\ IsFiniteSet(Tokens(W, i) \cup N) /\ IsFiniteSet(Tokens(W, i) \cap N)
      /\ Cardinality(Tokens(W, i) \cup N)
           = Cardinality(Tokens(W, i)) + Cardinality(N) - Cardinality(Tokens(W, i) \cap N)
  <2>. HIDE DEF N
  <2>. QED
    BY <1>5, FS_Union, FS_Intersection
<1>8. /\ Cardinality(Tokens(W, i)) \in Nat /\ Cardinality(Tokens(W, i) \cap N) \in Nat
      /\ Cardinality(Tokens(W, i) \cup N) \in Nat
  <2>. HIDE DEF N
  <2>. QED
    BY <1>7, FS_CardinalityType
<1>. HIDE DEF N
<1>9. Cardinality(Tokens(X, i)) = Cardinality(Tokens(W, i)) + Cardinality(N)
                                    - Cardinality(Tokens(W, i) \cap N)
  BY <1>6, <1>7
<1>. QED
  BY <1>5, <1>6, <1>7, <1>8, <1>9

\* An appended id adds one spot, of its own.
LEMMA AppendedSpots ==
    ASSUME NEW s \in Seq(Ids), NEW x \in Ids, NEW i
    PROVE  Cardinality(Spots(Append(s, x), i))
             <= Cardinality(Spots(s, i)) + (IF x = i THEN 1 ELSE 0)
<1>1. /\ Len(s) \in Nat /\ DOMAIN s = 1 .. Len(s)
      /\ DOMAIN Append(s, x) = 1 .. Len(s) + 1
      /\ \A n \in 1 .. Len(s) : Append(s, x)[n] = s[n]
      /\ Append(s, x)[Len(s) + 1] = x
  BY AppendProperties, LenProperties
<1>2. Spots(Append(s, x), i) = IF x = i THEN Spots(s, i) \cup {Len(s) + 1} ELSE Spots(s, i)
  <2>1. \A n : n \in 1 .. Len(s) + 1 <=> n \in 1 .. Len(s) \/ n = Len(s) + 1
    BY <1>1
  <2>2. Len(s) + 1 \notin 1 .. Len(s)
    BY <1>1
  <2>. QED
    BY <1>1, <2>1, <2>2 DEF Spots
<1>3. IsFiniteSet(Spots(s, i)) /\ Cardinality(Spots(s, i)) \in Nat
  BY SpotsFinite
<1>4. /\ IsFiniteSet(Spots(s, i) \cup {Len(s) + 1})
      /\ Cardinality(Spots(s, i) \cup {Len(s) + 1})
           = IF Len(s) + 1 \in Spots(s, i) THEN Cardinality(Spots(s, i))
                                           ELSE Cardinality(Spots(s, i)) + 1
  BY <1>3, FS_AddElement
<1>. QED
  BY <1>2, <1>3, <1>4

\* Without its first id a sequence has one spot of that id less.
LEMMA TailSpots ==
    ASSUME NEW s \in Seq(Ids), s # <<>>, NEW i
    PROVE  Cardinality(Spots(Tail(s), i)) + (IF Head(s) = i THEN 1 ELSE 0)
             <= Cardinality(Spots(s, i))
<1> DEFINE T == Spots(s, i) \ {1}
           f == [n \in Spots(Tail(s), i) |-> n + 1]
<1>1. /\ Len(s) \in Nat /\ Len(s) > 0 /\ DOMAIN s = 1 .. Len(s) /\ Head(s) = s[1]
      /\ DOMAIN Tail(s) = 1 .. Len(s) - 1
      /\ \A n \in 1 .. Len(s) - 1 : Tail(s)[n] = s[n + 1]
  BY HeadTailProperties, LenProperties, EmptySeq
<1>2. f \in [Spots(Tail(s), i) -> T] /\ \A a, b \in Spots(Tail(s), i) : f[a] = f[b] => a = b
  BY <1>1 DEF Spots
<1>3. 1 \in Spots(s, i) <=> Head(s) = i
  BY <1>1 DEF Spots
<1>4. IsFiniteSet(Spots(s, i)) /\ Cardinality(Spots(s, i)) \in Nat
  BY SpotsFinite
<1>5. /\ IsFiniteSet(T)
      /\ Cardinality(T) = IF 1 \in Spots(s, i) THEN Cardinality(Spots(s, i)) - 1
                                               ELSE Cardinality(Spots(s, i))
  BY <1>4, FS_RemoveElement
<1>6. /\ Cardinality(Spots(Tail(s), i)) \in Nat /\ Cardinality(T) \in Nat
      /\ Cardinality(Spots(Tail(s), i)) <= Cardinality(T)
  <2>. HIDE DEF T, f
  <2>. QED
    BY <1>2, <1>5, Injected
<1>. QED
  BY <1>3, <1>4, <1>5, <1>6

\* An appended id adds one token, of its own.
LEMMA AppendedTokens ==
    ASSUME NEW W \in Layouts, NEW X \in Layouts, NEW i,
           NEW p \in Places, NEW x \in Ids, X[p] = Append(W[p], x),
           \A r \in Places \ {p} : X[r] = W[r],
           IsFiniteSet(Tokens(W, i))
    PROVE  /\ IsFiniteSet(Tokens(X, i))
           /\ Cardinality(Tokens(X, i)) \in Nat /\ Cardinality(Tokens(W, i)) \in Nat
           /\ Cardinality(Tokens(X, i))
                <= Cardinality(Tokens(W, i)) + (IF x = i THEN 1 ELSE 0)
<1> DEFINE last == <<p, Len(W[p]) + 1>>
<1>1. /\ Len(W[p]) \in Nat /\ DOMAIN W[p] = 1 .. Len(W[p])
      /\ DOMAIN X[p] = 1 .. Len(W[p]) + 1
      /\ \A n \in 1 .. Len(W[p]) : X[p][n] = W[p][n]
      /\ X[p][Len(W[p]) + 1] = x
  BY AppendProperties, LenProperties DEF Layouts
<1>2. ASSUME NEW t \in Tokens(X, i) PROVE t \in Tokens(W, i) \/ (t = last /\ x = i)
  <2>1. t \in Places \X Nat /\ t[2] \in DOMAIN X[t[1]] /\ X[t[1]][t[2]] = i /\ t = <<t[1], t[2]>>
    BY DEF Tokens
  <2>2. CASE t[1] # p
    <3>1. t[1] \in Places \ {p}
      BY <2>1, <2>2
    <3>2. t[2] \in DOMAIN W[t[1]] /\ W[t[1]][t[2]] = i
      BY <2>1, <3>1
    <3>3. t \in Places \X Nat
      BY <2>1
    <3>4. t \in Tokens(W, i)
      BY <3>2, <3>3, Zenon DEF Tokens
    <3>. QED
      BY <3>4
  <2>3. CASE t[1] = p /\ t[2] = Len(W[p]) + 1
    BY <1>1, <2>1, <2>3
  <2>4. CASE t[1] = p /\ t[2] # Len(W[p]) + 1
    <3>1. t[2] \in 1 .. Len(W[p])
      BY <1>1, <2>1, <2>4
    <3>2. t[2] \in DOMAIN W[t[1]] /\ W[t[1]][t[2]] = i
      BY <1>1, <2>1, <2>4, <3>1
    <3>3. t \in Places \X Nat
      BY <2>1
    <3>4. t \in Tokens(W, i)
      BY <3>2, <3>3, Zenon DEF Tokens
    <3>. QED
      BY <3>4
  <2>. QED
    BY <2>2, <2>3, <2>4
<1> DEFINE U == IF x = i THEN Tokens(W, i) \cup {last} ELSE Tokens(W, i)
<1>3. Tokens(X, i) \in SUBSET U
  BY <1>2
<1>4. Cardinality(Tokens(W, i)) \in Nat
  BY FS_CardinalityType
<1>5. /\ IsFiniteSet(U) /\ Cardinality(U) \in Nat
      /\ Cardinality(U) <= Cardinality(Tokens(W, i)) + (IF x = i THEN 1 ELSE 0)
  <2>1. /\ IsFiniteSet(Tokens(W, i) \cup {last})
        /\ Cardinality(Tokens(W, i) \cup {last})
             = IF last \in Tokens(W, i) THEN Cardinality(Tokens(W, i))
                                        ELSE Cardinality(Tokens(W, i)) + 1
    BY FS_AddElement
  <2>. QED
    BY <1>4, <2>1
<1>. HIDE DEF U
<1>6. IsFiniteSet(Tokens(X, i)) /\ Cardinality(Tokens(X, i)) <= Cardinality(U)
  BY <1>3, <1>5, FS_Subset
<1>7. Cardinality(Tokens(X, i)) \in Nat
  BY <1>6, FS_CardinalityType
<1>. QED
  BY <1>4, <1>5, <1>6, <1>7

-----------------------------------------------------------------------------
(* The invariant. *)

\* What a copy holds for a message.
For(m, c) == IF c.msg = m THEN c.targets ELSE <<>>

\* The layout of message m for given queues q, held copies h, goroutines js,
\* groups g and targets u that are not looked up yet.
Layout(m, q, h, js, g, u) ==
    [p \in Places |->
        IF p[1] = "queue" THEN IF p[3] \in DOMAIN q[p[2]] THEN For(m, q[p[2]][p[3]]) ELSE <<>>
        ELSE IF p[1] = "held" THEN For(m, h[p[2]])
        ELSE IF p[1] = "job" THEN IF p[2] \in js /\ p[2].msg = m THEN p[2].left ELSE <<>>
        ELSE IF p[1] = "group" THEN g[p[2]]
        ELSE u]

\* The targets of a message that Hub.SendMessage has still to look up.
Unlooked(m) ==
    IF stage[m] \in {"new", "handler", "lookup"}
    THEN SubSeq(TargetsOf[m], looked[m] + 1, Len(TargetsOf[m])) ELSE <<>>

Where(m) == Layout(m, queue, held, jobs, group[m], Unlooked(m))

\* A copy has no more targets than the message, a group with the targets still
\* to be looked up neither.
Small(W, m, i) ==
    \A p \in Places :
        /\ p[1] \in {"queue", "held"} => Cardinality(Spots(W[p], i)) <= Wanted(m, i)
        /\ p[1] = "group" =>
              Cardinality(Spots(W[p], i)) + Cardinality(Spots(W[Ahead], i)) <= Wanted(m, i)

\* Before it is sent, all targets of a message are ahead.
OnlyAhead(W) == \A p \in Places : p # Ahead => W[p] = <<>>

\* What was given and what may still be given are within the contract.
Fits(W, m, i, n, l) ==
    /\ IsFiniteSet(Tokens(W, i))
    /\ Cardinality(Tokens(W, i)) + n <= (1 + l) * Wanted(m, i)

MessageInv(m) ==
    /\ \A i \in Ids : Fits(Where(m), m, i, given[m][i], lostAcks[m]) /\ Small(Where(m), m, i)
    /\ stage[m] = "new" => lostAcks[m] = 0 /\ OnlyAhead(Where(m))

ContractInv == \A m \in Msgs : MessageInv(m)

-----------------------------------------------------------------------------
(* Layouts. *)

\* What a layout has at each kind of place.
LEMMA LayoutAt ==
    ASSUME NEW m, NEW q, NEW h, NEW js, NEW g, NEW u
    PROVE  LET W == Layout(m, q, h, js, g, u)
           IN  /\ \A v \in Queues, k \in Nat :
                     W[QueueAt(v, k)] = IF k \in DOMAIN q[v] THEN For(m, q[v][k]) ELSE <<>>
               /\ \A s \in Sessions : W[HeldBy(s)] = For(m, h[s])
               /\ \A j \in Jobs : W[With(j)] = IF j \in js /\ j.msg = m THEN j.left ELSE <<>>
               /\ \A v \in Queues : W[InGroup(v)] = g[v]
               /\ W[Ahead] = u
BY PlaceNames DEF Layout, QueueAt, HeldBy, With, InGroup, Ahead

\* The targets that are not looked up yet.
LEMMA UnlookedType ==
    ASSUME IInv, NEW m \in Msgs
    PROVE  /\ Unlooked(m) \in Seq(Ids)
           /\ stage[m] \in {"new", "handler"} => Unlooked(m) = TargetsOf[m]
<1>1. /\ TargetsOf[m] \in Seq(Ids) /\ Len(TargetsOf[m]) \in Nat /\ looked[m] \in Nat
      /\ stage[m] \in {"new", "handler"} => looked[m] = 0
      /\ looked[m] + 1 <= Len(TargetsOf[m]) + 1
  BY FlowAssumption, LenProperties DEF IInv, SendInv
<1>2. SubSeq(TargetsOf[m], looked[m] + 1, Len(TargetsOf[m])) \in Seq(Ids)
  BY <1>1, SubSeqProperties
<1>3. SubSeq(TargetsOf[m], 1, Len(TargetsOf[m])) = TargetsOf[m]
  BY <1>1, SubSeqProperties
<1>4. Unlooked(m) \in Seq(Ids)
  BY <1>2, EmptySeq DEF Unlooked
<1>5. ASSUME stage[m] \in {"new", "handler"} PROVE Unlooked(m) = TargetsOf[m]
  <2>1. looked[m] + 1 = 1
    BY <1>1, <1>5
  <2>. QED
    BY <1>3, <1>5, <2>1 DEF Unlooked
<1>. QED
  BY <1>4, <1>5

\* The layout of a message is one.
LEMMA WhereType == IInv => \A m \in Msgs : Where(m) \in Layouts
<1>. SUFFICES ASSUME IInv, NEW m \in Msgs PROVE Where(m) \in Layouts
  OBVIOUS
<1>1. /\ queue \in [Queues -> Seq(FullCopies)] /\ held \in [Sessions -> FullCopies \cup {NoCopy}]
      /\ jobs \subseteq Jobs /\ group[m] \in [Queues -> Seq(Ids)]
  BY DEF IInv, CopyInv, SendInv, FullJobs
<1>2. <<>> \in Seq(Ids)
  BY EmptySeq
<1>3. \A c \in FullCopies \cup {NoCopy} : For(m, c) \in Seq(Ids)
  <2>1. \A c \in FullCopies : c.targets \in Seq(Ids)
    BY DEF FullCopies, Copies
  <2>2. NoCopy.targets \in Seq(Ids)
    BY <1>2 DEF NoCopy
  <2>. QED
    BY <1>2, <2>1, <2>2 DEF For
<1>4. \A v \in Queues : \A k \in DOMAIN queue[v] : queue[v][k] \in FullCopies
  BY <1>1, ElementOfSeq, LenProperties
<1>5. ASSUME NEW p \in Places PROVE Where(m)[p] \in Seq(Ids)
  <2>. USE DEF Where
  <2>1. CASE \E v \in Queues, k \in Nat : p = QueueAt(v, k)
    <3>1. PICK v \in Queues, k \in Nat : p = QueueAt(v, k)
      BY <2>1
    <3>2. Where(m)[p] = IF k \in DOMAIN queue[v] THEN For(m, queue[v][k]) ELSE <<>>
      BY <3>1, LayoutAt
    <3>. QED
      BY <1>2, <1>3, <1>4, <3>2
  <2>2. CASE \E s \in Sessions : p = HeldBy(s)
    BY <1>1, <1>3, <2>2, LayoutAt
  <2>3. CASE \E j \in Jobs : p = With(j)
    <3>1. PICK j \in Jobs : p = With(j)
      BY <2>3
    <3>2. j.left \in Seq(Ids)
      BY DEF Jobs
    <3>3. Where(m)[p] = IF j \in jobs /\ j.msg = m THEN j.left ELSE <<>>
      BY <3>1, LayoutAt
    <3>. QED
      BY <1>2, <3>2, <3>3
  <2>4. CASE \E v \in Queues : p = InGroup(v)
    BY <1>1, <2>4, LayoutAt
  <2>5. CASE p = Ahead
    BY <2>5, LayoutAt, UnlookedType
  <2>. QED
    BY <2>1, <2>2, <2>3, <2>4, <2>5, PlaceNames
<1>6. Where(m) = [p \in Places |-> Where(m)[p]]
  BY DEF Where, Layout
<1>. QED
  BY <1>5, <1>6 DEF Layouts

\* The same after a step.
LEMMA WhereTypeNext == IInv' => \A m \in Msgs : Where(m)' \in Layouts
<1>1. IInv' => (\A m \in Msgs : Where(m) \in Layouts)'
  BY WhereType, PTL
<1>. QED
  BY <1>1

\* How often an id is wanted.
LEMMA WantedSpots ==
    ASSUME NEW m \in Msgs, NEW i
    PROVE  /\ Wanted(m, i) = Cardinality(Spots(TargetsOf[m], i)) /\ Wanted(m, i) \in Nat
<1>1. TargetsOf[m] \in Seq(Ids)
  BY FlowAssumption
<1>. QED
  BY <1>1, SpotsFinite DEF Wanted, Spots

\* Relocated targets do not grow.
LEMMA RelocatedSmall ==
    ASSUME NEW W \in Layouts, NEW X \in Layouts, Relocated(W, X), NEW m \in Msgs, NEW i,
           Small(W, m, i)
    PROVE  Small(X, m, i)
<1>1. PICK g \in [Places -> Places] :
        \A p \in Places : X[p] # <<>> => X[p] = W[g[p]] /\ Carries(p, g[p])
  BY DEF Relocated
<1>2. \A p \in Places : /\ Cardinality(Spots(X[p], i)) \in Nat /\ Cardinality(Spots(W[p], i)) \in Nat
                        /\ X[p] = <<>> => Cardinality(Spots(X[p], i)) = 0
  BY SpotsFinite DEF Layouts
<1>3. Wanted(m, i) \in Nat
  BY WantedSpots
<1>4. Ahead \in Places /\ \A q \in Places : q[1] \in {"queue", "held", "group"} =>
                                            Cardinality(Spots(W[q], i)) <= Wanted(m, i)
  BY <1>2, <1>3, PlaceNames DEF Small
<1>5. Cardinality(Spots(X[Ahead], i)) <= Cardinality(Spots(W[Ahead], i))
  <2>1. X[Ahead] = <<>> \/ X[Ahead] = W[Ahead]
    BY <1>1, <1>4 DEF Carries
  <2>. QED
    BY <1>2, <1>4, <2>1
<1>6. ASSUME NEW p \in Places, p[1] \in {"queue", "held"}
      PROVE  Cardinality(Spots(X[p], i)) <= Wanted(m, i)
  BY <1>1, <1>2, <1>3, <1>4, <1>6 DEF Carries
<1>7. ASSUME NEW p \in Places, p[1] = "group"
      PROVE  Cardinality(Spots(X[p], i)) + Cardinality(Spots(X[Ahead], i)) <= Wanted(m, i)
  <2>1. Cardinality(Spots(W[p], i)) + Cardinality(Spots(W[Ahead], i)) <= Wanted(m, i)
    BY <1>7 DEF Small
  <2>2. X[p] = <<>> \/ X[p] = W[p]
    BY <1>1, <1>7 DEF Carries
  <2>. QED
    BY <1>2, <1>3, <1>4, <1>5, <2>1, <2>2
<1>. QED
  BY <1>6, <1>7 DEF Small

\* Nor do they leave the place ahead of everything.
LEMMA RelocatedAhead ==
    ASSUME NEW W, NEW X, Relocated(W, X), OnlyAhead(W)
    PROVE  OnlyAhead(X)
BY DEF Relocated, OnlyAhead, Carries

\* A message whose targets are only carried around keeps its invariant.
LEMMA CarriedKeeps ==
    ASSUME IInv, IInv', NEW m \in Msgs, MessageInv(m), Relocated(Where(m), Where(m)'),
           given'[m] = given[m], lostAcks'[m] = lostAcks[m],
           stage'[m] = "new" => stage[m] = "new"
    PROVE  MessageInv(m)'
<1>1. Where(m) \in Layouts
  BY WhereType
<1>2. Where(m)' \in Layouts
  BY WhereTypeNext
<1>3. ASSUME NEW i \in Ids
      PROVE  Fits(Where(m)', m, i, given[m][i], lostAcks[m]) /\ Small(Where(m)', m, i)
  <2>1. /\ IsFiniteSet(Tokens(Where(m), i)) /\ Small(Where(m), m, i)
        /\ Cardinality(Tokens(Where(m), i)) + given[m][i] <= (1 + lostAcks[m]) * Wanted(m, i)
    BY DEF MessageInv, Fits
  <2>2. given[m][i] \in Nat /\ lostAcks[m] \in Nat /\ Wanted(m, i) \in Nat
    BY WantedSpots DEF IInv, CountInv
  <2>3. /\ IsFiniteSet(Tokens(Where(m)', i))
        /\ Cardinality(Tokens(Where(m)', i)) \in Nat /\ Cardinality(Tokens(Where(m), i)) \in Nat
        /\ Cardinality(Tokens(Where(m)', i)) <= Cardinality(Tokens(Where(m), i))
    BY <1>1, <1>2, <2>1, RelocatedTokens
  <2>4. Small(Where(m)', m, i)
    BY <1>1, <1>2, <2>1, RelocatedSmall
  <2>. QED
    BY <2>1, <2>2, <2>3, <2>4 DEF Fits
<1>4. stage'[m] = "new" => lostAcks'[m] = 0 /\ OnlyAhead(Where(m)')
  BY RelocatedAhead DEF MessageInv
<1>. QED
  BY <1>3, <1>4 DEF MessageInv

-----------------------------------------------------------------------------
(* Ways to carry targets. *)

\* The names of places tell them apart.
LEMMA PlacesDiffer ==
    /\ \A v, w \in Queues, k, n \in Nat : QueueAt(v, k) = QueueAt(w, n) => v = w /\ k = n
    /\ \A s, t \in Sessions : HeldBy(s) = HeldBy(t) => s = t
    /\ \A j, k \in Jobs : With(j) = With(k) => j = k
    /\ \A v, w \in Queues : InGroup(v) = InGroup(w) => v = w
    /\ \A v \in Queues, k \in Nat : QueueAt(v, k)[1] = "queue"
    /\ \A s \in Sessions : HeldBy(s)[1] = "held"
    /\ \A j \in Jobs : With(j)[1] = "job"
    /\ \A v \in Queues : InGroup(v)[1] = "group"
    /\ Ahead[1] = "ahead"
BY DEF QueueAt, HeldBy, With, InGroup, Ahead

\* Some targets are lost, the others stay where they are.
LEMMA KeptRelocated ==
    ASSUME NEW W, NEW X, \A p \in Places : X[p] = W[p] \/ X[p] = <<>>
    PROVE  Relocated(W, X)
<1> DEFINE g == [p \in Places |-> p]
<1>1. g \in [Places -> Places] /\ \A p \in Places : g[p] = p
  OBVIOUS
<1>. HIDE DEF g
<1>2. \A p \in Places : X[p] # <<>> => X[p] = W[g[p]] /\ Carries(p, g[p])
  BY <1>1 DEF Carries
<1>. QED
  BY <1>1, <1>2 DEF Relocated

\* The targets at b move to a, or are lost.
LEMMA MovedRelocated ==
    ASSUME NEW W, NEW X, NEW a \in Places, NEW b \in Places, Carries(a, b),
           X[a] = <<>> \/ (X[a] = W[b] /\ (a = b \/ X[b] = <<>>)),
           \A p \in Places \ {a} : X[p] = W[p] \/ X[p] = <<>>
    PROVE  Relocated(W, X)
<1> DEFINE g == [p \in Places |-> IF p = a THEN b ELSE p]
<1>1. g \in [Places -> Places] /\ \A p \in Places : g[p] = IF p = a THEN b ELSE p
  OBVIOUS
<1>. HIDE DEF g
<1>2. \A p \in Places : X[p] # <<>> => X[p] = W[g[p]] /\ Carries(p, g[p])
  BY <1>1 DEF Carries
<1>3. \A p, q \in Places : X[p] # <<>> /\ X[q] # <<>> /\ g[p] = g[q] => p = q
  BY <1>1
<1>. QED
  BY <1>1, <1>2, <1>3 DEF Relocated

\* Layout X is W after the first n consumers of q had their copies put back at
\* the head of the queue of v, in that order, or lost.
Returned(W, X, v, n, q) ==
    /\ v \in Queues /\ n \in Nat /\ q \in [1 .. n -> Sessions]
    /\ \A k, l \in 1 .. n : q[k] = q[l] => k = l
    /\ X[QueueAt(v, 0)] = <<>>
    /\ \A k \in 1 .. n : \/ X[QueueAt(v, k)] = <<>>
                         \/ X[QueueAt(v, k)] = W[HeldBy(q[k])] /\ X[HeldBy(q[k])] = <<>>
    /\ \A k \in Nat : k > n => X[QueueAt(v, k)] = W[QueueAt(v, k - n)]
    /\ \A p \in Places : (\A k \in Nat : p # QueueAt(v, k)) => X[p] = W[p] \/ X[p] = <<>>

\* The copies that some consumers hold go to the head of a queue.
LEMMA ReturnedRelocated ==
    ASSUME NEW W, NEW X, NEW v, NEW n, NEW q, Returned(W, X, v, n, q)
    PROVE  Relocated(W, X)
<1>. USE DEF Returned
<1> DEFINE At3(k) == IF k \in 1 .. n THEN HeldBy(q[k]) ELSE QueueAt(v, k - n)
           InV(p) == p[1] = "queue" /\ p[2] = v
           g == [p \in Places |-> IF InV(p) /\ p[3] > 0 THEN At3(p[3]) ELSE p]
<1>1. \A p \in Places : InV(p) => p[3] \in Nat /\ p = QueueAt(v, p[3])
  BY DEF Places, QueueAt, Ahead
<1>2. \A k \in Nat : InV(QueueAt(v, k)) /\ QueueAt(v, k)[3] = k
  BY DEF QueueAt
<1>3. \A p \in Places : ~InV(p) => \A k \in Nat : p # QueueAt(v, k)
  BY <1>2
<1>4. \A k \in Nat : k > 0 => At3(k) \in Places
  BY PlaceNames
<1>5. g \in [Places -> Places]
  BY <1>1, <1>4
<1>6. \A p \in Places : g[p] = IF InV(p) /\ p[3] > 0 THEN At3(p[3]) ELSE p
  OBVIOUS
<1>. HIDE DEF g, InV
<1>7. ASSUME NEW p \in Places, X[p] # <<>> PROVE X[p] = W[g[p]] /\ Carries(p, g[p])
  <2>1. CASE ~InV(p)
    BY <1>3, <1>6, <1>7, <2>1 DEF Carries
  <2>2. CASE InV(p)
    <3>1. PICK k \in Nat : p = QueueAt(v, k) /\ k = p[3]
      BY <1>1, <2>2
    <3>2. k > 0
      BY <1>7, <3>1
    <3>3. g[p] = At3(k)
      BY <1>6, <2>2, <3>1, <3>2
    <3>4. CASE k \in 1 .. n
      <4>1. X[p] = W[HeldBy(q[k])] /\ q[k] \in Sessions /\ g[p] = HeldBy(q[k])
        BY <1>7, <3>1, <3>3, <3>4
      <4>2. p[1] = "queue" /\ HeldBy(q[k])[1] = "held" /\ Ahead[1] = "ahead"
        BY <3>1, <4>1, PlacesDiffer
      <4>. QED
        BY <4>1, <4>2 DEF Carries
    <3>5. CASE k \notin 1 .. n
      <4>1. k > n /\ k - n \in Nat
        BY <3>2, <3>5
      <4>2. X[p] = W[QueueAt(v, k - n)] /\ g[p] = QueueAt(v, k - n)
        BY <3>1, <3>3, <3>5, <4>1
      <4>3. p[1] = "queue" /\ QueueAt(v, k - n)[1] = "queue" /\ Ahead[1] = "ahead"
        BY <3>1, <4>1, PlacesDiffer
      <4>. QED
        BY <4>2, <4>3 DEF Carries
    <3>. QED
      BY <3>4, <3>5
  <2>. QED
    BY <2>1, <2>2
<1>8. ASSUME NEW a \in Places, NEW b \in Places, X[a] # <<>>, X[b] # <<>>, g[a] = g[b]
      PROVE  a = b
  <2>1. ASSUME NEW p \in Places, X[p] # <<>>
        PROVE  \/ ~InV(p) /\ g[p] = p
               \/ \E k \in 1 .. n : /\ p = QueueAt(v, k) /\ g[p] = HeldBy(q[k]) /\ q[k] \in Sessions
                                    /\ X[HeldBy(q[k])] = <<>> /\ InV(p)
               \/ \E k \in Nat : p = QueueAt(v, k) /\ k > n /\ g[p] = QueueAt(v, k - n) /\ k - n \in Nat
                                 /\ InV(p)
    <3>1. CASE ~InV(p)
      BY <1>6, <3>1
    <3>2. CASE InV(p)
      <4>1. PICK k \in Nat : p = QueueAt(v, k) /\ k = p[3]
        BY <1>1, <3>2
      <4>2. k > 0 /\ g[p] = At3(k)
        BY <1>6, <2>1, <3>2, <4>1
      <4>3. CASE k \in 1 .. n
        BY <2>1, <3>2, <4>1, <4>2, <4>3
      <4>4. CASE k \notin 1 .. n
        <5>1. k > n /\ k - n \in Nat
          BY <4>2, <4>4
        <5>. QED
          BY <3>2, <4>1, <4>2, <4>4, <5>1
      <4>. QED
        BY <4>3, <4>4
    <3>. QED
      BY <3>1, <3>2
  <2>2. \A k \in Nat : InV(QueueAt(v, k))
    BY <1>2 DEF InV
  <2>3. CASE ~InV(a) /\ g[a] = a
    <3>1. CASE \E k \in 1 .. n : g[b] = HeldBy(q[k]) /\ X[HeldBy(q[k])] = <<>>
      BY <1>8, <2>3, <3>1
    <3>2. CASE \E k \in Nat : g[b] = QueueAt(v, k - n) /\ k - n \in Nat
      <4>1. PICK k \in Nat : g[b] = QueueAt(v, k - n) /\ k - n \in Nat
        BY <3>2
      <4>2. a = QueueAt(v, k - n)
        BY <1>8, <2>3, <4>1
      <4>3. InV(QueueAt(v, k - n))
        BY <2>2, <4>1
      <4>. QED
        BY <2>3, <4>2, <4>3
    <3>. QED
      BY <1>8, <2>1, <2>3, <3>1, <3>2
  <2>4. CASE ~InV(b) /\ g[b] = b
    BY <1>8, <2>1, <2>2, <2>4
  <2>5. CASE InV(a) /\ InV(b)
    <3>1. CASE (\E k \in 1 .. n : a = QueueAt(v, k) /\ g[a] = HeldBy(q[k]) /\ q[k] \in Sessions)
               /\ (\E k \in 1 .. n : b = QueueAt(v, k) /\ g[b] = HeldBy(q[k]) /\ q[k] \in Sessions)
      BY <1>8, <3>1, PlacesDiffer
    <3>2. CASE (\E k \in Nat : a = QueueAt(v, k) /\ g[a] = QueueAt(v, k - n) /\ k - n \in Nat)
               /\ (\E k \in Nat : b = QueueAt(v, k) /\ g[b] = QueueAt(v, k - n) /\ k - n \in Nat)
      <4>1. PICK k \in Nat : a = QueueAt(v, k) /\ g[a] = QueueAt(v, k - n) /\ k - n \in Nat
        BY <3>2
      <4>2. PICK l \in Nat : b = QueueAt(v, l) /\ g[b] = QueueAt(v, l - n) /\ l - n \in Nat
        BY <3>2
      <4>3. k - n = l - n
        BY <1>8, <4>1, <4>2, PlacesDiffer
      <4>4. k = l
        BY <4>3
      <4>. QED
        BY <4>1, <4>2, <4>4
    <3>3. \A s \in Sessions, k \in Nat : HeldBy(s) # QueueAt(v, k)
      BY PlacesDiffer
    <3>. QED
      BY <1>8, <2>1, <2>5, <3>1, <3>2, <3>3
  <2>. QED
    BY <1>8, <2>1, <2>3, <2>4, <2>5
<1>. QED
  BY <1>5, <1>7, <1>8 DEF Relocated

-----------------------------------------------------------------------------
(* The steps that only carry targets. *)

\* The value of Where after a step, at each kind of place.
LEMMA WhereNow ==
    ASSUME NEW m \in Msgs
    PROVE  /\ \A v \in Queues, k \in Nat :
                 /\ Where(m)[QueueAt(v, k)] =
                      IF k \in DOMAIN queue[v] THEN For(m, queue[v][k]) ELSE <<>>
                 /\ Where(m)'[QueueAt(v, k)] =
                      IF k \in DOMAIN queue'[v] THEN For(m, queue'[v][k]) ELSE <<>>
           /\ \A s \in Sessions : /\ Where(m)[HeldBy(s)] = For(m, held[s])
                                  /\ Where(m)'[HeldBy(s)] = For(m, held'[s])
           /\ \A j \in Jobs :
                 /\ Where(m)[With(j)] = IF j \in jobs /\ j.msg = m THEN j.left ELSE <<>>
                 /\ Where(m)'[With(j)] = IF j \in jobs' /\ j.msg = m THEN j.left ELSE <<>>
           /\ \A v \in Queues : /\ Where(m)[InGroup(v)] = group[m][v]
                                /\ Where(m)'[InGroup(v)] = group'[m][v]
           /\ Where(m)[Ahead] = Unlooked(m) /\ Where(m)'[Ahead] = Unlooked(m)'
<1>1. /\ Where(m) = Layout(m, queue, held, jobs, group[m], Unlooked(m))
      /\ Where(m)' = Layout(m, queue', held', jobs', group'[m], Unlooked(m)')
  BY DEF Where
<1>. QED
  BY <1>1, LayoutAt

\* A step that leaves the copies alone, and of the sending only ends it.
LEMMA StillRelocated ==
    ASSUME NEW m \in Msgs, UNCHANGED <<queue, held, jobs>>,
           \A v \in Queues : group'[m][v] = group[m][v] \/ group'[m][v] = <<>>,
           Unlooked(m)' = Unlooked(m) \/ Unlooked(m)' = <<>>
    PROVE  Relocated(Where(m), Where(m)')
<1>1. ASSUME NEW p \in Places PROVE Where(m)'[p] = Where(m)[p] \/ Where(m)'[p] = <<>>
  BY PlaceNames, WhereNow
<1>. QED
  BY <1>1, KeptRelocated

\* Nothing is to be looked up after the last stages.
LEMMA UnlookedNext ==
    ASSUME NEW m \in Msgs
    PROVE  /\ stage'[m] \notin {"new", "handler", "lookup"} => Unlooked(m)' = <<>>
           /\ stage[m] \notin {"new", "handler", "lookup"} => Unlooked(m) = <<>>
           /\ /\ stage[m] \in {"new", "handler", "lookup"}
              /\ stage'[m] \in {"new", "handler", "lookup"}
              /\ looked'[m] = looked[m]
              => Unlooked(m)' = Unlooked(m)
           /\ stage'[m] = stage[m] /\ looked'[m] = looked[m] => Unlooked(m)' = Unlooked(m)
BY DEF Unlooked

\* The same for a step that does not touch the message while it is sent.
LEMMA OthersRelocated ==
    ASSUME NEW m \in Msgs, UNCHANGED <<queue, held, jobs>>,
           group'[m] = group[m], stage'[m] = stage[m], looked'[m] = looked[m]
    PROVE  Relocated(Where(m), Where(m)')
BY StillRelocated, UnlookedNext

\* A message of a group is published: its targets move to the end of the queue.
LEMMA PublishRelocated ==
    ASSUME IInv, NEW x \in Msgs, NEW w \in Queues, PublishWorking(x, w), NEW m \in Msgs
    PROVE  Relocated(Where(m), Where(m)')
<1> DEFINE c == [msg |-> x, targets |-> group[x][w]]
           n == Len(queue[w]) + 1
<1>1. /\ queue' = [queue EXCEPT ![w] = Append(queue[w], c)] /\ held' = held /\ jobs' = jobs
      /\ group' = [group EXCEPT ![x] = [group[x] EXCEPT ![w] = <<>>]]
      /\ stage[x] = "publish" /\ looked' = looked
      /\ stage' = [stage EXCEPT ![x] = IF group'[x] = NoGroup THEN "sent" ELSE "publish"]
      /\ group[x][w] # <<>>
  BY DEF PublishWorking, recvVars
<1>2. /\ queue \in [Queues -> Seq(FullCopies)] /\ group \in [Msgs -> [Queues -> Seq(Ids)]]
      /\ stage \in [Msgs -> {"new", "handler", "lookup", "publish", "sent", "dropped"}]
  BY DEF IInv, CopyInv, SendInv
<1>3. Unlooked(m)' = Unlooked(m)
  <2>1. CASE m = x
    <3>1. stage'[x] \in {"sent", "publish"}
      BY <1>1, <1>2
    <3>. QED
      BY <1>1, <2>1, <3>1, UnlookedNext
  <2>2. CASE m # x
    BY <1>1, <1>2, <2>2, UnlookedNext
  <2>. QED
    BY <2>1, <2>2
<1>4. /\ n \in Nat /\ DOMAIN queue[w] = 1 .. n - 1
      /\ DOMAIN queue'[w] = 1 .. n
      /\ \A k \in 1 .. n - 1 : queue'[w][k] = queue[w][k]
      /\ queue'[w][n] = c
  <2>1. c \in FullCopies
    BY <1>1, <1>2 DEF FullCopies, Copies
  <2>2. queue[w] \in Seq(FullCopies) /\ queue'[w] = Append(queue[w], c)
    BY <1>1, <1>2
  <2>. HIDE DEF c
  <2>. QED
    BY <2>1, <2>2, AppendProperties, LenProperties
<1>5. For(m, c) = IF m = x THEN group[x][w] ELSE <<>>
  BY DEF For
<1>. HIDE DEF c, n
<1>6. \A v \in Queues : /\ v # w => queue'[v] = queue[v]
                        /\ group'[m][v] = IF m = x /\ v = w THEN <<>> ELSE group[m][v]
  BY <1>1, <1>2
<1> DEFINE a == QueueAt(w, n)
           b == InGroup(w)
<1>7. a \in Places /\ b \in Places /\ Carries(a, b)
  <2>1. a[1] = "queue" /\ b[1] = "group" /\ Ahead[1] = "ahead"
    BY <1>4, PlacesDiffer
  <2>. QED
    BY <1>4, <2>1, PlaceNames DEF Carries
<1>8. Where(m)'[a] = <<>> \/ (Where(m)'[a] = Where(m)[b] /\ Where(m)'[b] = <<>>)
  BY <1>4, <1>5, <1>6, WhereNow
<1>9. ASSUME NEW p \in Places, p # a PROVE Where(m)'[p] = Where(m)[p] \/ Where(m)'[p] = <<>>
  <2>1. CASE \E v \in Queues, k \in Nat : p = QueueAt(v, k)
    <3>1. PICK v \in Queues, k \in Nat : p = QueueAt(v, k)
      BY <2>1
    <3>2. CASE v # w
      BY <1>6, <3>1, <3>2, WhereNow
    <3>3. CASE v = w
      <4>1. k # n
        BY <1>9, <3>1, <3>3
      <4>2. k \in DOMAIN queue'[w] <=> k \in DOMAIN queue[w]
        BY <1>4, <4>1
      <4>3. k \in DOMAIN queue[w] => queue'[w][k] = queue[w][k]
        BY <1>4
      <4>. QED
        BY <3>1, <3>3, <4>2, <4>3, WhereNow
    <3>. QED
      BY <3>2, <3>3
  <2>2. CASE \E s \in Sessions : p = HeldBy(s)
    BY <1>1, <2>2, WhereNow
  <2>3. CASE \E j \in Jobs : p = With(j)
    BY <1>1, <2>3, WhereNow
  <2>4. CASE \E v \in Queues : p = InGroup(v)
    BY <1>6, <2>4, WhereNow
  <2>5. CASE p = Ahead
    BY <1>3, <2>5, WhereNow
  <2>. QED
    BY <2>1, <2>2, <2>3, <2>4, <2>5, PlaceNames
<1>. HIDE DEF a, b
<1>. QED
  BY <1>7, <1>8, <1>9, MovedRelocated

\* The head of a queue goes to a consumer.
LEMMA FetchedRelocated ==
    ASSUME NEW W, NEW X, NEW v \in Queues, NEW s \in Sessions,
           X[HeldBy(s)] = W[QueueAt(v, 1)], X[QueueAt(v, 0)] = <<>>,
           \A k \in Nat \ {0} : X[QueueAt(v, k)] = W[QueueAt(v, k + 1)],
           \A p \in Places : p # HeldBy(s) /\ (\A k \in Nat : p # QueueAt(v, k))
                             => X[p] = W[p] \/ X[p] = <<>>
    PROVE  Relocated(W, X)
<1> DEFINE InV(p) == p[1] = "queue" /\ p[2] = v
           g == [p \in Places |-> IF p = HeldBy(s) THEN QueueAt(v, 1)
                                  ELSE IF InV(p) THEN QueueAt(v, p[3] + 1) ELSE p]
<1>1. \A p \in Places : InV(p) => p[3] \in Nat /\ p = QueueAt(v, p[3])
  BY DEF Places, QueueAt, Ahead
<1>2. \A k \in Nat : InV(QueueAt(v, k)) /\ QueueAt(v, k)[3] = k /\ QueueAt(v, k) # HeldBy(s)
  BY DEF QueueAt, HeldBy
<1>3. \A p \in Places : ~InV(p) => \A k \in Nat : p # QueueAt(v, k)
  BY <1>2
<1>4. g \in [Places -> Places]
  BY <1>1, PlaceNames
<1>5. \A p \in Places : g[p] = IF p = HeldBy(s) THEN QueueAt(v, 1)
                               ELSE IF InV(p) THEN QueueAt(v, p[3] + 1) ELSE p
  OBVIOUS
<1>. HIDE DEF g, InV
<1>6. ASSUME NEW p \in Places, X[p] # <<>>
      PROVE  \/ p = HeldBy(s) /\ g[p] = QueueAt(v, 1) /\ X[p] = W[g[p]]
             \/ \E k \in Nat \ {0} : p = QueueAt(v, k) /\ g[p] = QueueAt(v, k + 1) /\ X[p] = W[g[p]]
             \/ ~InV(p) /\ g[p] = p /\ X[p] = W[g[p]] /\ p # HeldBy(s)
  <2>1. CASE p = HeldBy(s)
    BY <1>5, <2>1
  <2>2. CASE p # HeldBy(s) /\ InV(p)
    <3>1. p[3] \in Nat /\ p = QueueAt(v, p[3]) /\ p[3] # 0
      BY <1>1, <1>6, <2>2
    <3>2. g[p] = QueueAt(v, p[3] + 1)
      BY <1>5, <2>2
    <3>. QED
      BY <3>1, <3>2
  <2>3. CASE p # HeldBy(s) /\ ~InV(p)
    BY <1>3, <1>5, <1>6, <2>3
  <2>. QED
    BY <2>1, <2>2, <2>3
<1>7. ASSUME NEW p \in Places, X[p] # <<>> PROVE X[p] = W[g[p]] /\ Carries(p, g[p])
  <2>1. Ahead[1] = "ahead" /\ HeldBy(s)[1] = "held" /\ \A k \in Nat : QueueAt(v, k)[1] = "queue"
    BY PlacesDiffer
  <2>2. CASE p = HeldBy(s) /\ g[p] = QueueAt(v, 1) /\ X[p] = W[g[p]]
    BY <2>1, <2>2 DEF Carries
  <2>3. ASSUME NEW k \in Nat \ {0},
               p = QueueAt(v, k) /\ g[p] = QueueAt(v, k + 1) /\ X[p] = W[g[p]]
        PROVE  X[p] = W[g[p]] /\ Carries(p, g[p])
    <3>1. k + 1 \in Nat
      OBVIOUS
    <3>2. p[1] = "queue" /\ g[p][1] = "queue"
      BY <2>1, <2>3, <3>1
    <3>. QED
      BY <2>1, <2>3, <3>2 DEF Carries
  <2>4. CASE g[p] = p /\ X[p] = W[g[p]]
    BY <2>4 DEF Carries
  <2>. QED
    BY <1>6, <1>7, <2>2, <2>3, <2>4
<1>8. ASSUME NEW a \in Places, NEW b \in Places, X[a] # <<>>, X[b] # <<>>, g[a] = g[b]
      PROVE  a = b
  \* The consumer's place counts as the one before the head of the queue.
  <2>1. ASSUME NEW p \in Places, X[p] # <<>>
        PROVE  \/ \E k \in Nat : /\ g[p] = QueueAt(v, k + 1) /\ InV(g[p])
                                 /\ p = IF k = 0 THEN HeldBy(s) ELSE QueueAt(v, k)
               \/ ~InV(g[p]) /\ g[p] = p
    <3>1. \A k \in Nat : InV(QueueAt(v, k + 1))
      BY <1>2
    <3>2. CASE p = HeldBy(s) /\ g[p] = QueueAt(v, 1)
      <4>1. g[p] = QueueAt(v, 0 + 1)
        BY <3>2
      <4>. QED
        BY <3>1, <3>2, <4>1
    <3>3. CASE \E k \in Nat \ {0} : p = QueueAt(v, k) /\ g[p] = QueueAt(v, k + 1)
      <4>1. PICK k \in Nat \ {0} : p = QueueAt(v, k) /\ g[p] = QueueAt(v, k + 1)
        BY <3>3
      <4>. QED
        BY <3>1, <4>1
    <3>. QED
      BY <1>6, <2>1, <3>2, <3>3
  <2>2. CASE InV(g[a])
    <3>1. PICK k \in Nat : g[a] = QueueAt(v, k + 1)
                           /\ a = IF k = 0 THEN HeldBy(s) ELSE QueueAt(v, k)
      BY <1>8, <2>1, <2>2
    <3>2. PICK l \in Nat : g[b] = QueueAt(v, l + 1)
                           /\ b = IF l = 0 THEN HeldBy(s) ELSE QueueAt(v, l)
      BY <1>8, <2>1, <2>2
    <3>3. k + 1 = l + 1
      <4>1. k + 1 \in Nat /\ l + 1 \in Nat
        OBVIOUS
      <4>2. QueueAt(v, k + 1) = QueueAt(v, l + 1)
        BY <1>8, <3>1, <3>2, Zenon
      <4>. QED
        BY <4>1, <4>2, PlacesDiffer
    <3>4. k = l
      BY <3>3
    <3>. QED
      BY <3>1, <3>2, <3>4
  <2>3. CASE ~InV(g[a])
    BY <1>8, <2>1, <2>3
  <2>. QED
    BY <2>2, <2>3
<1>. QED
  BY <1>4, <1>7, <1>8 DEF Relocated

\* A consumer gets the head of its server's queue.
LEMMA DeliverRelocated ==
    ASSUME IInv, NEW s \in Sessions, Deliver(s), NEW m \in Msgs
    PROVE  Relocated(Where(m), Where(m)')
<1> DEFINE v == ServerOf[s]
<1>1. /\ queue[v] # <<>> /\ held' = [held EXCEPT ![s] = Head(queue[v])] /\ jobs' = jobs
      /\ queue' = [queue EXCEPT ![v] = Tail(queue[v])]
      /\ group' = group /\ stage' = stage /\ looked' = looked
  BY DEF Deliver, sendVars
<1>2. /\ queue \in [Queues -> Seq(FullCopies)] /\ v \in Queues
      /\ held \in [Sessions -> FullCopies \cup {NoCopy}]
  BY FlowAssumption DEF IInv, CopyInv, Queues
<1>3. /\ Len(queue[v]) \in Nat /\ Len(queue[v]) > 0 /\ DOMAIN queue[v] = 1 .. Len(queue[v])
      /\ Head(queue[v]) = queue[v][1]
      /\ queue'[v] = Tail(queue[v]) /\ DOMAIN queue'[v] = 1 .. Len(queue[v]) - 1
      /\ \A k \in 1 .. Len(queue[v]) - 1 : queue'[v][k] = queue[v][k + 1]
  <2>1. queue'[v] = Tail(queue[v]) /\ queue[v] \in Seq(FullCopies)
    BY <1>1, <1>2
  <2>2. queue[v] # <<>>
    BY <1>1
  <2>. HIDE DEF v
  <2>3. /\ Len(queue[v]) \in Nat /\ Len(queue[v]) > 0 /\ DOMAIN queue[v] = 1 .. Len(queue[v])
        /\ Head(queue[v]) = queue[v][1]
    BY <2>1, <2>2, HeadTailProperties, LenProperties, EmptySeq
  <2>4. /\ DOMAIN Tail(queue[v]) = 1 .. Len(queue[v]) - 1
        /\ \A k \in 1 .. Len(queue[v]) - 1 : Tail(queue[v])[k] = queue[v][k + 1]
    BY <2>1, <2>2, <2>3, HeadTailProperties, LenProperties
  <2>. QED
    BY <2>1, <2>3, <2>4
<1>4. Unlooked(m)' = Unlooked(m)
  BY <1>1, UnlookedNext
<1>. HIDE DEF v
<1>5. Where(m)'[HeldBy(s)] = Where(m)[QueueAt(v, 1)]
  <2>1. held'[s] = queue[v][1] /\ 1 \in DOMAIN queue[v]
    BY <1>1, <1>2, <1>3
  <2>. QED
    BY <1>2, <2>1, WhereNow
<1>6. Where(m)'[QueueAt(v, 0)] = <<>>
  BY <1>2, <1>3, WhereNow
<1>7. ASSUME NEW k \in Nat \ {0} PROVE Where(m)'[QueueAt(v, k)] = Where(m)[QueueAt(v, k + 1)]
  <2>1. k \in DOMAIN queue'[v] <=> k + 1 \in DOMAIN queue[v]
    BY <1>3
  <2>2. k \in DOMAIN queue'[v] => queue'[v][k] = queue[v][k + 1]
    BY <1>3
  <2>3. k + 1 \in Nat
    OBVIOUS
  <2>. QED
    BY <1>2, <2>1, <2>2, <2>3, WhereNow
<1>8. ASSUME NEW p \in Places, p # HeldBy(s), \A k \in Nat : p # QueueAt(v, k)
      PROVE  Where(m)'[p] = Where(m)[p]
  <2>1. CASE \E w \in Queues, k \in Nat : p = QueueAt(w, k)
    <3>1. PICK w \in Queues, k \in Nat : p = QueueAt(w, k)
      BY <2>1
    <3>2. queue'[w] = queue[w]
      BY <1>1, <1>2, <1>8, <3>1
    <3>. QED
      BY <3>1, <3>2, WhereNow
  <2>2. CASE \E t \in Sessions : p = HeldBy(t)
    <3>1. PICK t \in Sessions : p = HeldBy(t)
      BY <2>2
    <3>2. held'[t] = held[t]
      BY <1>1, <1>2, <1>8, <3>1
    <3>. QED
      BY <3>1, <3>2, WhereNow
  <2>3. CASE \E j \in Jobs : p = With(j)
    BY <1>1, <2>3, WhereNow
  <2>4. CASE \E w \in Queues : p = InGroup(w)
    BY <1>1, <2>4, WhereNow
  <2>5. CASE p = Ahead
    BY <1>4, <2>5, WhereNow
  <2>. QED
    BY <2>1, <2>2, <2>3, <2>4, <2>5, PlaceNames
<1>9. \A p \in Places : p # HeldBy(s) /\ (\A k \in Nat : p # QueueAt(v, k))
                        => Where(m)'[p] = Where(m)[p] \/ Where(m)'[p] = <<>>
  BY <1>8
<1>. QED
  BY <1>2, <1>5, <1>6, <1>7, <1>9, FetchedRelocated

\* A consumer hands its copy to a goroutine.
LEMMA HandOverRelocated ==
    ASSUME IInv, NEW s \in Sessions, HandOver(s), NEW m \in Msgs
    PROVE  Relocated(Where(m), Where(m)')
<1> DEFINE j == [msg |-> held[s].msg, by |-> s, left |-> held[s].targets, client |-> Nil]
           a == With(j)
           b == HeldBy(s)
<1>1. /\ consumer[s] \in {"acked", "lost"} /\ jobs' = jobs \cup {j} /\ queue' = queue
      /\ held' = [held EXCEPT ![s] = NoCopy]
      /\ group' = group /\ stage' = stage /\ looked' = looked
  BY DEF HandOver, sendVars
<1>2. held[s] \in FullCopies /\ held \in [Sessions -> FullCopies \cup {NoCopy}]
  BY <1>1 DEF IInv, CopyInv
<1>3. j \in Jobs
  BY <1>2 DEF Jobs, FullCopies, Copies
<1>4. Unlooked(m)' = Unlooked(m)
  BY <1>1, UnlookedNext
<1>5. j.msg = held[s].msg /\ j.left = held[s].targets
  OBVIOUS
<1>. HIDE DEF j
<1>6. a \in Places /\ b \in Places /\ Carries(a, b)
  <2>1. a[1] = "job" /\ b[1] = "held" /\ Ahead[1] = "ahead"
    BY <1>3, PlacesDiffer
  <2>. QED
    BY <1>3, <2>1, PlaceNames DEF Carries
<1>7. Where(m)'[a] = <<>> \/ (Where(m)'[a] = Where(m)[b] /\ Where(m)'[b] = <<>>)
  <2>1. Where(m)'[a] = IF j.msg = m THEN j.left ELSE <<>>
    BY <1>1, <1>3, WhereNow
  <2>2. Where(m)[b] = IF j.msg = m THEN j.left ELSE <<>>
    BY <1>5, WhereNow DEF For
  <2>3. Where(m)'[b] = <<>>
    <3>1. held'[s] = NoCopy /\ For(m, NoCopy) = <<>>
      BY <1>1, <1>2 DEF For, NoCopy
    <3>. QED
      BY <3>1, WhereNow
  <2>. QED
    BY <2>1, <2>2, <2>3
<1>8. ASSUME NEW p \in Places, p # a PROVE Where(m)'[p] = Where(m)[p] \/ Where(m)'[p] = <<>>
  <2>1. CASE \E v \in Queues, k \in Nat : p = QueueAt(v, k)
    BY <1>1, <2>1, WhereNow
  <2>2. CASE \E t \in Sessions : p = HeldBy(t)
    <3>1. PICK t \in Sessions : p = HeldBy(t)
      BY <2>2
    <3>2. (held'[t] = held[t] \/ held'[t] = NoCopy) /\ For(m, NoCopy) = <<>>
      BY <1>1, <1>2 DEF For, NoCopy
    <3>. QED
      BY <3>1, <3>2, WhereNow
  <2>3. CASE \E k \in Jobs : p = With(k)
    <3>1. PICK k \in Jobs : p = With(k)
      BY <2>3
    <3>2. k # j
      BY <1>8, <3>1
    <3>. QED
      BY <1>1, <3>1, <3>2, WhereNow
  <2>4. CASE \E v \in Queues : p = InGroup(v)
    BY <1>1, <2>4, WhereNow
  <2>5. CASE p = Ahead
    BY <1>4, <2>5, WhereNow
  <2>. QED
    BY <2>1, <2>2, <2>3, <2>4, <2>5, PlaceNames
<1>. HIDE DEF a, b
<1>. QED
  BY <1>6, <1>7, <1>8, MovedRelocated

\* The broker puts every copy back once.
LEMMA RequeuedOnce ==
    ASSUME NEW v \in Servers, NEW q \in Requeues(v)
    PROVE  /\ Cardinality(Unacked(v)) \in Nat
           /\ q \in [1 .. Cardinality(Unacked(v)) -> Unacked(v)]
           /\ \A k, l \in 1 .. Cardinality(Unacked(v)) : q[k] = q[l] => k = l
<1> DEFINE n == Cardinality(Unacked(v))
<1>1. IsFiniteSet(Unacked(v)) /\ n \in Nat
  <2>1. Unacked(v) \in SUBSET Sessions /\ IsFiniteSet(Sessions)
    BY FlowAssumption DEF Unacked, At
  <2>. QED
    BY <2>1, FS_Subset, FS_CardinalityType
<1>2. q \in [1 .. n -> Unacked(v)] /\ \A s \in Unacked(v) : \E i \in 1 .. n : q[i] = s
  BY DEF Requeues
<1>. HIDE DEF n
<1>3. IsFiniteSet(1 .. n) /\ Cardinality(1 .. n) = n
  BY <1>1, FS_Interval
<1>4. q \in Surjection(1 .. n, Unacked(v))
  BY <1>2 DEF Surjection
<1>5. q \in Injection(1 .. n, Unacked(v))
  BY <1>3, <1>4, FS_SurjSameCardinalityImpliesInj DEF n
<1>6. \A k, l \in 1 .. n : q[k] = q[l] => k = l
  BY <1>2, <1>5 DEF Injection, IsInjective
<1>. QED
  BY <1>1, <1>2, <1>6 DEF n

\* The end of a server only loses targets, or returns them to the queue.
LEMMA DiesRelocated ==
    ASSUME IInv, NEW v \in Servers, Dies(v), NEW m \in Msgs
    PROVE  Relocated(Where(m), Where(m)')
<1>1. PICK q \in Requeues(v) :
         queue' = [queue EXCEPT ![v] = [i \in DOMAIN q |-> held[q[i]]] \o @]
  BY DEF Dies
<1> DEFINE back == [i \in DOMAIN q |-> held[q[i]]]
           n == Cardinality(Unacked(v))
<1>2. /\ v \in Queues /\ queue \in [Queues -> Seq(FullCopies)]
      /\ stage \in [Msgs -> {"new", "handler", "lookup", "publish", "sent", "dropped"}]
      /\ held \in [Sessions -> FullCopies \cup {NoCopy}]
      /\ looked \in [Msgs -> Nat] /\ group \in [Msgs -> [Queues -> Seq(Ids)]]
  BY DEF IInv, CopyInv, SendInv, Queues
<1>3. /\ n \in Nat /\ q \in [1 .. n -> Unacked(v)]
      /\ \A k, l \in 1 .. n : q[k] = q[l] => k = l
  BY RequeuedOnce
<1>4. /\ held' = [s \in Sessions |-> IF ServerOf[s] = v THEN NoCopy ELSE held[s]]
      /\ stage' = [x \in Msgs |-> IF x \in SendingAt(v) THEN "dropped" ELSE stage[x]]
      /\ looked' = [x \in Msgs |-> IF x \in SendingAt(v) THEN 0 ELSE looked[x]]
      /\ group' = [x \in Msgs |-> IF x \in SendingAt(v) THEN NoGroup ELSE group[x]]
      /\ jobs' = jobs \ JobsAt(v)
  BY DEF Dies
<1>5. back \in Seq(FullCopies) /\ Len(back) = n /\ \A k \in 1 .. n : back[k] = held[q[k]]
  <2>1. back \in Seq(FullCopies)
    BY RequeuedCopies DEF IInv
  <2>2. DOMAIN back = 1 .. n /\ \A k \in 1 .. n : back[k] = held[q[k]]
    BY <1>3
  <2>. HIDE DEF back
  <2>. QED
    BY <1>3, <2>1, <2>2, LenProperties
<1>. HIDE DEF back, n
<1>6. /\ Len(queue[v]) \in Nat /\ DOMAIN queue[v] = 1 .. Len(queue[v])
      /\ DOMAIN (back \o queue[v]) = 1 .. n + Len(queue[v])
      /\ \A k \in 1 .. n + Len(queue[v]) :
            (back \o queue[v])[k] = IF k <= n THEN back[k] ELSE queue[v][k - n]
  <2>1. queue[v] \in Seq(FullCopies)
    BY <1>2
  <2>2. /\ back \o queue[v] \in Seq(FullCopies) /\ Len(back \o queue[v]) = n + Len(queue[v])
        /\ \A k \in 1 .. n + Len(queue[v]) :
              (back \o queue[v])[k] = IF k <= n THEN back[k] ELSE queue[v][k - n]
    BY <1>5, <2>1, ConcatProperties
  <2>. QED
    BY <2>1, <2>2, LenProperties
<1>7. queue'[v] = back \o queue[v] /\ \A w \in Queues : w # v => queue'[w] = queue[w]
  BY <1>1, <1>2 DEF back
<1>8. For(m, NoCopy) = <<>>
  BY DEF For, NoCopy
<1>9. Where(m)'[QueueAt(v, 0)] = <<>>
  BY <1>2, <1>3, <1>6, <1>7, WhereNow
<1>10. ASSUME NEW k \in 1 .. n
       PROVE  /\ Where(m)'[QueueAt(v, k)] = Where(m)[HeldBy(q[k])]
              /\ Where(m)'[HeldBy(q[k])] = <<>>
  <2>1. q[k] \in Sessions /\ ServerOf[q[k]] = v /\ k \in Nat
    BY <1>3 DEF Unacked, At
  <2>2. k \in DOMAIN queue'[v] /\ queue'[v][k] = held[q[k]]
    BY <1>3, <1>5, <1>6, <1>7
  <2>3. held'[q[k]] = NoCopy
    BY <1>4, <2>1
  <2>. QED
    BY <1>2, <1>8, <2>1, <2>2, <2>3, WhereNow
<1>11. ASSUME NEW k \in Nat, k > n
       PROVE  Where(m)'[QueueAt(v, k)] = Where(m)[QueueAt(v, k - n)]
  <2>1. k - n \in Nat /\ (k \in DOMAIN queue'[v] <=> k - n \in DOMAIN queue[v])
    BY <1>3, <1>6, <1>7, <1>11
  <2>2. k \in DOMAIN queue'[v] => queue'[v][k] = queue[v][k - n]
    BY <1>3, <1>6, <1>7, <1>11
  <2>. QED
    BY <1>2, <2>1, <2>2, WhereNow
<1>12. ASSUME NEW p \in Places, \A k \in Nat : p # QueueAt(v, k)
       PROVE  Where(m)'[p] = Where(m)[p] \/ Where(m)'[p] = <<>>
  <2>1. CASE \E w \in Queues, k \in Nat : p = QueueAt(w, k)
    <3>1. PICK w \in Queues, k \in Nat : p = QueueAt(w, k)
      BY <2>1
    <3>2. queue'[w] = queue[w]
      BY <1>7, <1>12, <3>1
    <3>. QED
      BY <3>1, <3>2, WhereNow
  <2>2. CASE \E t \in Sessions : p = HeldBy(t)
    <3>1. PICK t \in Sessions : p = HeldBy(t)
      BY <2>2
    <3>2. held'[t] = held[t] \/ held'[t] = NoCopy
      BY <1>4
    <3>. QED
      BY <1>8, <3>1, <3>2, WhereNow
  <2>3. CASE \E j \in Jobs : p = With(j)
    BY <1>4, <2>3, WhereNow
  <2>4. CASE \E w \in Queues : p = InGroup(w)
    <3>1. PICK w \in Queues : p = InGroup(w)
      BY <2>4
    <3>2. group'[m][w] = group[m][w] \/ group'[m][w] = <<>>
      BY <1>4, <3>1 DEF NoGroup
    <3>. QED
      BY <3>1, <3>2, WhereNow
  <2>5. CASE p = Ahead
    <3>1. Unlooked(m)' = Unlooked(m) \/ Unlooked(m)' = <<>>
      BY <1>4, UnlookedNext
    <3>. QED
      BY <2>5, <3>1, WhereNow
  <2>. QED
    BY <2>1, <2>2, <2>3, <2>4, <2>5, PlaceNames
<1>13. \A p \in Places : (\A k \in Nat : p # QueueAt(v, k))
                         => Where(m)'[p] = Where(m)[p] \/ Where(m)'[p] = <<>>
  BY <1>12
<1>14. q \in [1 .. n -> Sessions]
  BY <1>3 DEF Unacked, At
<1>15. \A k \in 1 .. n :
          \/ Where(m)'[QueueAt(v, k)] = <<>>
          \/ Where(m)'[QueueAt(v, k)] = Where(m)[HeldBy(q[k])] /\ Where(m)'[HeldBy(q[k])] = <<>>
  BY <1>10
<1>16. \A k \in Nat : k > n => Where(m)'[QueueAt(v, k)] = Where(m)[QueueAt(v, k - n)]
  BY <1>11
<1>17. v \in Queues /\ n \in Nat /\ \A k, l \in 1 .. n : q[k] = q[l] => k = l
  BY <1>2, <1>3
<1>18. Returned(Where(m), Where(m)', v, n, q)
  BY <1>9, <1>13, <1>14, <1>15, <1>16, <1>17 DEF Returned
<1>. QED
  BY <1>18, ReturnedRelocated

\* A goroutine is replaced by one for the same message that has the targets l left.
LEMMA ReplacedLayout ==
    ASSUME IInv, NEW j \in jobs, NEW k \in Jobs, Replace(j, k), k # j, k.msg = j.msg,
           UNCHANGED <<queue, held, group, stage, looked>>, NEW m \in Msgs
    PROVE  /\ With(j) \in Places /\ With(k) \in Places /\ With(j) # With(k)
           /\ Where(m)[With(j)] = IF j.msg = m THEN j.left ELSE <<>>
           /\ Where(m)'[With(k)] = IF k.msg = m THEN k.left ELSE <<>>
           /\ Where(m)'[With(j)] = <<>>
           /\ j.msg # m => Where(m)[With(k)] = <<>>
           /\ \A p \in Places \ {With(j), With(k)} : Where(m)'[p] = Where(m)[p]
<1>1. /\ jobs' = (jobs \ {j}) \cup (IF k.left = <<>> THEN {} ELSE {k})
      /\ jobs \subseteq FullJobs /\ jobs \subseteq Jobs
  BY DEF Replace, IInv, CopyInv, FullJobs
<1>2. Unlooked(m)' = Unlooked(m)
  BY UnlookedNext
<1>3. With(j) \in Places /\ With(k) \in Places /\ With(j) # With(k)
  BY <1>1, PlaceNames, PlacesDiffer
<1>4. Where(m)[With(j)] = IF j.msg = m THEN j.left ELSE <<>>
  BY <1>1, WhereNow
<1>5. Where(m)'[With(k)] = IF k.msg = m THEN k.left ELSE <<>>
  <2>1. k.left = <<>> => k \notin jobs'
    BY <1>1 DEF FullJobs
  <2>2. k.left # <<>> => k \in jobs'
    BY <1>1
  <2>. QED
    BY <2>1, <2>2, WhereNow
<1>6. Where(m)'[With(j)] = <<>>
  <2>1. j \notin jobs' /\ j \in Jobs
    BY <1>1
  <2>. QED
    BY <2>1, WhereNow
<1>7. j.msg # m => Where(m)[With(k)] = <<>>
  BY WhereNow
<1>8. ASSUME NEW p \in Places \ {With(j), With(k)} PROVE Where(m)'[p] = Where(m)[p]
  <2>1. CASE \E v \in Queues, n \in Nat : p = QueueAt(v, n)
    BY <2>1, WhereNow
  <2>2. CASE \E t \in Sessions : p = HeldBy(t)
    BY <2>2, WhereNow
  <2>3. CASE \E x \in Jobs : p = With(x)
    <3>1. PICK x \in Jobs : p = With(x)
      BY <2>3
    <3>2. x # j /\ x # k
      BY <3>1
    <3>. QED
      BY <1>1, <3>1, <3>2, WhereNow
  <2>4. CASE \E v \in Queues : p = InGroup(v)
    BY <2>4, WhereNow
  <2>5. CASE p = Ahead
    BY <1>2, <2>5, WhereNow
  <2>. QED
    BY <2>1, <2>2, <2>3, <2>4, <2>5, PlaceNames
<1>. QED
  BY <1>3, <1>4, <1>5, <1>6, <1>7, <1>8

\* A goroutine that has found a client goes on with the same targets.
LEMMA FindRelocated ==
    ASSUME IInv, NEW j \in jobs, JobFind(j), NEW m \in Msgs
    PROVE  Relocated(Where(m), Where(m)')
<1> DEFINE k == [j EXCEPT !.client = JobEntry(j)]
<1>1. /\ j.client = Nil /\ JobEntry(j) \in Sessions /\ Replace(j, k)
      /\ UNCHANGED <<queue, held, group, stage, looked>>
  BY DEF JobFind, sendVars
<1>2. j \in [msg : Msgs, by : Sessions, left : Seq(Ids), client : Sessions \cup {Nil}]
  BY DEF IInv, CopyInv, FullJobs, Jobs
<1>3. Nil \notin Sessions
  BY FlowAssumption
<1>4. k \in Jobs /\ k.msg = j.msg /\ k.left = j.left /\ k # j
  BY <1>1, <1>2, <1>3 DEF Jobs
<1>. HIDE DEF k
<1>5. /\ With(j) \in Places /\ With(k) \in Places /\ With(j) # With(k)
      /\ Where(m)[With(j)] = IF j.msg = m THEN j.left ELSE <<>>
      /\ Where(m)'[With(k)] = IF k.msg = m THEN k.left ELSE <<>>
      /\ Where(m)'[With(j)] = <<>>
      /\ \A p \in Places \ {With(j), With(k)} : Where(m)'[p] = Where(m)[p]
  BY <1>1, <1>4, ReplacedLayout
<1>6. Carries(With(k), With(j))
  <2>1. With(k)[1] = "job" /\ With(j)[1] = "job" /\ Ahead[1] = "ahead"
    BY <1>2, <1>4, PlacesDiffer DEF Jobs
  <2>. QED
    BY <2>1 DEF Carries
<1>7. Where(m)'[With(k)] = Where(m)[With(j)]
  BY <1>4, <1>5
<1>8. \A p \in Places \ {With(k)} : Where(m)'[p] = Where(m)[p] \/ Where(m)'[p] = <<>>
  BY <1>5
<1>. QED
  BY <1>5, <1>6, <1>7, <1>8, MovedRelocated

-----------------------------------------------------------------------------
(* The steps that give, copy or group a target. *)

\* A goroutine goes on to its next target, after giving the message or not.
LEMMA TakenKeeps ==
    ASSUME IInv, IInv', NEW j \in jobs, NEW k \in Jobs, Replace(j, k),
           k.msg = j.msg, k.left = Tail(j.left),
           UNCHANGED <<queue, held, group, stage, looked, lostAcks>>,
           NEW m \in Msgs, MessageInv(m),
           j.msg # m => given'[m] = given[m],
           \A i \in Ids : given'[m][i] <= given[m][i] + (IF Head(j.left) = i THEN 1 ELSE 0)
    PROVE  MessageInv(m)'
<1>1. j.left \in Seq(Ids) /\ j.left # <<>> /\ j \in Jobs
  BY DEF IInv, CopyInv, FullJobs, Jobs
<1>2. k # j
  <2>1. Len(Tail(j.left)) # Len(j.left)
    BY <1>1, HeadTailProperties, LenProperties, EmptySeq
  <2>. QED
    BY <2>1
<1>3. /\ With(j) \in Places /\ With(k) \in Places /\ With(j) # With(k)
      /\ Where(m)[With(j)] = IF j.msg = m THEN j.left ELSE <<>>
      /\ Where(m)'[With(k)] = IF k.msg = m THEN k.left ELSE <<>>
      /\ Where(m)'[With(j)] = <<>>
      /\ \A p \in Places \ {With(j), With(k)} : Where(m)'[p] = Where(m)[p]
  BY <1>2, ReplacedLayout
<1>4. CASE j.msg # m
  <2>1. \A p \in Places : Where(m)'[p] = Where(m)[p] \/ Where(m)'[p] = <<>>
    BY <1>3, <1>4
  <2>2. Relocated(Where(m), Where(m)')
    BY <2>1, KeptRelocated
  <2>. QED
    BY <1>4, <2>2, CarriedKeeps
<1>5. CASE j.msg = m
  <2>1. Where(m) \in Layouts /\ Where(m)' \in Layouts
    BY WhereType, WhereTypeNext
  <2>2. With(j)[1] = "job" /\ With(k)[1] = "job" /\ Ahead[1] = "ahead" /\ Ahead \in Places
    BY <1>1, PlacesDiffer, PlaceNames
  <2>3. stage[m] # "new"
    BY <1>1, <1>3, <1>5, <2>2 DEF MessageInv, OnlyAhead
  <2>4. ASSUME NEW i \in Ids
        PROVE  Fits(Where(m)', m, i, given'[m][i], lostAcks[m]) /\ Small(Where(m)', m, i)
    <3>1. /\ IsFiniteSet(Tokens(Where(m), i)) /\ Small(Where(m), m, i)
          /\ Cardinality(Tokens(Where(m), i)) + given[m][i] <= (1 + lostAcks[m]) * Wanted(m, i)
      BY DEF MessageInv, Fits
    <3>2. /\ IsFiniteSet(Tokens(Where(m)', i))
          /\ Cardinality(Tokens(Where(m)', i)) \in Nat /\ Cardinality(Tokens(Where(m), i)) \in Nat
          /\ Cardinality(Tokens(Where(m)', i)) + (IF Head(j.left) = i THEN 1 ELSE 0)
               <= Cardinality(Tokens(Where(m), i))
      <4>1. /\ Where(m)[With(j)] = j.left /\ Where(m)'[With(k)] = Tail(Where(m)[With(j)])
            /\ \A p \in Places \ {With(k), With(j)} : Where(m)'[p] = Where(m)[p]
        BY <1>3, <1>5
      <4>. QED
        BY <1>1, <1>3, <2>1, <3>1, <4>1, TakenTokens
    <3>3. given[m][i] \in Nat /\ given'[m][i] \in Nat /\ (1 + lostAcks[m]) * Wanted(m, i) \in Nat
      <4>1. lostAcks[m] \in Nat /\ Wanted(m, i) \in Nat
        BY WantedSpots DEF IInv, CountInv
      <4>. QED
        BY <4>1 DEF IInv, CountInv
    <3>4. Cardinality(Tokens(Where(m)', i)) + given'[m][i] <= (1 + lostAcks[m]) * Wanted(m, i)
      <4>1. given'[m][i] <= given[m][i] + (IF Head(j.left) = i THEN 1 ELSE 0)
        OBVIOUS
      <4>. QED
        BY <3>1, <3>2, <3>3, <4>1
    <3>5. Small(Where(m)', m, i)
      <4>1. \A p \in Places : p[1] \in {"queue", "held", "group"} \/ p = Ahead
                              => Where(m)'[p] = Where(m)[p]
        BY <1>3, <2>2
      <4>. QED
        BY <2>2, <3>1, <4>1 DEF Small
    <3>. QED
      BY <3>2, <3>4, <3>5 DEF Fits
  <2>. QED
    BY <2>3, <2>4 DEF MessageInv
<1>. QED
  BY <1>4, <1>5

\* The queue before the copy is put back that was acknowledged in vain.
LEMMA LostRelocated ==
    ASSUME IInv, IInv', NEW s \in Sessions, AckFails(s), NEW m \in Msgs
    PROVE  LET a == QueueAt(ServerOf[s], 1)
               Y == [Where(m)' EXCEPT ![a] = <<>>]
           IN  /\ a \in Places /\ Y \in Layouts /\ Relocated(Where(m), Y)
               /\ Where(m)'[a] = For(m, held[s])
<1> DEFINE v == ServerOf[s]
           a == QueueAt(v, 1)
           Y == [Where(m)' EXCEPT ![a] = <<>>]
           q == <<s>>
<1>1. /\ consumer[s] = "got" /\ queue' = [queue EXCEPT ![v] = <<held[s]>> \o queue[v]]
      /\ held' = held /\ jobs' = jobs /\ group' = group /\ stage' = stage /\ looked' = looked
  BY DEF AckFails, sendVars
<1>2. v \in Queues /\ queue \in [Queues -> Seq(FullCopies)] /\ held[s] \in FullCopies
  BY <1>1, FlowAssumption DEF IInv, CopyInv, Queues
<1>3. /\ Len(queue[v]) \in Nat /\ DOMAIN queue[v] = 1 .. Len(queue[v])
      /\ DOMAIN queue'[v] = 1 .. Len(queue[v]) + 1
      /\ queue'[v][1] = held[s]
      /\ \A k \in 1 .. Len(queue[v]) + 1 : k > 1 => queue'[v][k] = queue[v][k - 1]
  <2>1. queue'[v] = <<held[s]>> \o queue[v] /\ queue[v] \in Seq(FullCopies)
    BY <1>1, <1>2
  <2>2. <<held[s]>> \in Seq(FullCopies) /\ Len(<<held[s]>>) = 1 /\ <<held[s]>>[1] = held[s]
    BY <1>2
  <2>. HIDE DEF v
  <2>3. /\ <<held[s]>> \o queue[v] \in Seq(FullCopies)
        /\ Len(<<held[s]>> \o queue[v]) = 1 + Len(queue[v])
        /\ \A k \in 1 .. 1 + Len(queue[v]) :
              (<<held[s]>> \o queue[v])[k] = IF k <= 1 THEN <<held[s]>>[k] ELSE queue[v][k - 1]
    BY <2>1, <2>2, ConcatProperties
  <2>4. Len(queue[v]) \in Nat /\ DOMAIN queue[v] = 1 .. Len(queue[v])
    BY <2>1, LenProperties
  <2>5. DOMAIN queue'[v] = 1 .. Len(queue[v]) + 1
    BY <2>1, <2>3, <2>4, LenProperties
  <2>. QED
    BY <2>1, <2>2, <2>3, <2>4, <2>5
<1>4. Where(m)' \in Layouts
  BY WhereTypeNext
<1>5. a \in Places /\ <<>> \in Seq(Ids)
  BY <1>2, PlaceNames, EmptySeq
<1>6. /\ Y \in Layouts /\ Y[a] = <<>> /\ \A p \in Places : p # a => Y[p] = Where(m)'[p]
  BY <1>4, <1>5 DEF Layouts
<1>7. Where(m)'[a] = For(m, held[s])
  BY <1>2, <1>3, WhereNow
<1>8. Unlooked(m)' = Unlooked(m)
  BY <1>1, UnlookedNext
<1>9. q \in [1 .. 1 -> Sessions] /\ \A k, l \in 1 .. 1 : q[k] = q[l] => k = l
  OBVIOUS
<1>. HIDE DEF v, Y, q
<1>10. Y[QueueAt(v, 0)] = <<>>
  <2>1. QueueAt(v, 0) # a /\ QueueAt(v, 0) \in Places
    BY <1>2, PlacesDiffer, PlaceNames
  <2>2. 0 \notin DOMAIN queue'[v]
    BY <1>3
  <2>. QED
    BY <1>2, <1>6, <2>1, <2>2, WhereNow
<1>11. ASSUME NEW k \in Nat, k > 1 PROVE Y[QueueAt(v, k)] = Where(m)[QueueAt(v, k - 1)]
  <2>1. QueueAt(v, k) # a /\ QueueAt(v, k) \in Places
    BY <1>2, <1>11, PlacesDiffer, PlaceNames
  <2>2. k - 1 \in Nat /\ (k \in DOMAIN queue'[v] <=> k - 1 \in DOMAIN queue[v])
    BY <1>3, <1>11
  <2>3. k \in DOMAIN queue'[v] => queue'[v][k] = queue[v][k - 1]
    BY <1>3, <1>11
  <2>. QED
    BY <1>2, <1>6, <2>1, <2>2, <2>3, WhereNow
<1>12. ASSUME NEW p \in Places, \A k \in Nat : p # QueueAt(v, k) PROVE Y[p] = Where(m)[p]
  <2>1. Y[p] = Where(m)'[p]
    BY <1>6, <1>12
  <2>2. CASE \E w \in Queues, k \in Nat : p = QueueAt(w, k)
    <3>1. PICK w \in Queues, k \in Nat : p = QueueAt(w, k)
      BY <2>2
    <3>2. queue'[w] = queue[w]
      BY <1>1, <1>2, <1>12, <3>1
    <3>. QED
      BY <2>1, <3>1, <3>2, WhereNow
  <2>3. CASE \E t \in Sessions : p = HeldBy(t)
    BY <1>1, <2>1, <2>3, WhereNow
  <2>4. CASE \E j \in Jobs : p = With(j)
    BY <1>1, <2>1, <2>4, WhereNow
  <2>5. CASE \E w \in Queues : p = InGroup(w)
    BY <1>1, <2>1, <2>5, WhereNow
  <2>6. CASE p = Ahead
    BY <1>8, <2>1, <2>6, WhereNow
  <2>. QED
    BY <2>2, <2>3, <2>4, <2>5, <2>6, PlaceNames
<1>13. \A k \in 1 .. 1 : Y[QueueAt(v, k)] = <<>>
  BY <1>6
<1>14. Returned(Where(m), Y, v, 1, q)
  BY <1>2, <1>9, <1>10, <1>11, <1>12, <1>13 DEF Returned
<1>15. Relocated(Where(m), Y)
  BY <1>14, ReturnedRelocated
<1>. QED
  BY <1>5, <1>6, <1>7, <1>15 DEF v, Y
\* An acknowledgement the broker never hears leaves a copy more, and that copy
\* has no more targets than the message.
LEMMA AckFailsKeeps ==
    ASSUME IInv, IInv', NEW s \in Sessions, AckFails(s), NEW m \in Msgs, MessageInv(m)
    PROVE  MessageInv(m)'
<1> DEFINE W == Where(m)
           X == Where(m)'
           a == QueueAt(ServerOf[s], 1)
           Y == [X EXCEPT ![a] = <<>>]
<1>1. /\ consumer[s] = "got" /\ given' = given /\ stage' = stage
      /\ lostAcks' = [lostAcks EXCEPT ![held[s].msg] = lostAcks[held[s].msg] + 1]
  BY DEF AckFails, sendVars
<1>2. W \in Layouts /\ X \in Layouts
  BY WhereType, WhereTypeNext
<1>3. a \in Places /\ Y \in Layouts /\ Relocated(W, Y) /\ X[a] = For(m, held[s])
  BY LostRelocated
<1>4. Y[a] = <<>> /\ \A p \in Places : p # a => Y[p] = X[p]
  BY <1>2, <1>3 DEF Layouts
<1>5. /\ given[m] \in [Ids -> Nat] /\ lostAcks \in [Msgs -> Nat]
      /\ held[s] \in FullCopies /\ W[HeldBy(s)] = For(m, held[s])
      /\ HeldBy(s) \in Places /\ HeldBy(s)[1] = "held" /\ a[1] = "queue"
  <2>1. ServerOf[s] \in Queues
    BY FlowAssumption DEF Queues
  <2>. QED
    BY <1>1, <2>1, WhereNow, PlaceNames, PlacesDiffer DEF IInv, CopyInv, CountInv
<1>. HIDE DEF W, X, a, Y
<1>6. CASE held[s].msg # m
  <2>1. X[a] = <<>>
    BY <1>3, <1>6 DEF For
  <2>2. \A p \in Places : Y[p] = X[p]
    BY <1>4, <2>1
  <2>3. Y = X
    BY <1>2, <1>3, <2>2 DEF Layouts
  <2>4. lostAcks'[m] = lostAcks[m] /\ given'[m] = given[m] /\ stage'[m] = stage[m]
    BY <1>1, <1>5, <1>6
  <2>5. Relocated(Where(m), Where(m)')
    BY <1>3, <2>3 DEF W, X
  <2>. QED
    BY <2>4, <2>5, CarriedKeeps
<1>7. CASE held[s].msg = m
  <2>1. X[a] = held[s].targets /\ W[HeldBy(s)] = held[s].targets /\ held[s].targets # <<>>
    BY <1>3, <1>5, <1>7 DEF For, FullCopies
  <2>2. stage'[m] # "new"
    <3>1. HeldBy(s) # Ahead
      BY <1>5, PlacesDiffer
    <3>. QED
      BY <1>1, <1>5, <2>1, <3>1 DEF MessageInv, OnlyAhead, W
  <2>3. lostAcks'[m] = lostAcks[m] + 1 /\ lostAcks[m] \in Nat /\ given'[m] = given[m]
    BY <1>1, <1>5, <1>7
  <2>4. ASSUME NEW i \in Ids PROVE Fits(X, m, i, given[m][i], lostAcks[m] + 1) /\ Small(X, m, i)
    <3>1. /\ IsFiniteSet(Tokens(W, i)) /\ Small(W, m, i)
          /\ Cardinality(Tokens(W, i)) + given[m][i] <= (1 + lostAcks[m]) * Wanted(m, i)
      BY DEF MessageInv, Fits, W
    <3>2. /\ IsFiniteSet(Tokens(Y, i))
          /\ Cardinality(Tokens(Y, i)) \in Nat /\ Cardinality(Tokens(W, i)) \in Nat
          /\ Cardinality(Tokens(Y, i)) <= Cardinality(Tokens(W, i))
      BY <1>2, <1>3, <3>1, RelocatedTokens
    <3>3. \A r \in Places \ {a} : X[r] = Y[r]
      BY <1>4
    <3>4. /\ IsFiniteSet(Tokens(X, i))
          /\ Cardinality(Tokens(X, i)) \in Nat /\ Cardinality(Spots(X[a], i)) \in Nat
          /\ Cardinality(Tokens(X, i)) <= Cardinality(Tokens(Y, i)) + Cardinality(Spots(X[a], i))
      BY <1>2, <1>3, <1>4, <3>2, <3>3, PlacedTokens
    <3>5. Cardinality(Spots(X[a], i)) <= Wanted(m, i)
      BY <1>5, <2>1, <3>1 DEF Small
    <3>6. /\ Wanted(m, i) \in Nat /\ given[m][i] \in Nat
          /\ (1 + (lostAcks[m] + 1)) * Wanted(m, i) = (1 + lostAcks[m]) * Wanted(m, i) + Wanted(m, i)
          /\ (1 + lostAcks[m]) * Wanted(m, i) \in Nat
      <4>1. \A w, l \in Nat : (1 + (l + 1)) * w = (1 + l) * w + w /\ (1 + l) * w \in Nat
        OBVIOUS
      <4>. QED
        BY <1>5, <2>3, <4>1, WantedSpots
    <3>7. Fits(X, m, i, given[m][i], lostAcks[m] + 1)
      <4>. HIDE DEF Wanted
      <4>. QED
        BY <3>1, <3>2, <3>4, <3>5, <3>6 DEF Fits
    <3>8. Small(Y, m, i)
      BY <1>2, <1>3, <3>1, RelocatedSmall
    <3>9. Small(X, m, i)
      <4>1. Ahead # a /\ Ahead \in Places
        BY <1>5, PlacesDiffer, PlaceNames
      <4>. QED
        BY <1>4, <1>5, <3>5, <3>8, <4>1 DEF Small
    <3>. QED
      BY <3>7, <3>9
  <2>. QED
    BY <2>2, <2>3, <2>4 DEF MessageInv, X
<1>. QED
  BY <1>6, <1>7
\* A lookup takes the target that is ahead of the others.
LEMMA LookedUp ==
    ASSUME IInv, NEW m \in Msgs, Lookup(m)
    PROVE  /\ Unlooked(m) \in Seq(Ids) /\ Unlooked(m) # <<>>
           /\ Head(Unlooked(m)) = Target(m) /\ Target(m) \in Ids
           /\ Unlooked(m)' = Tail(Unlooked(m))
           /\ stage'[m] # "new"
<1> DEFINE T == TargetsOf[m]
           n == looked[m]
           u == SubSeq(T, n + 1, Len(T))
<1>1. /\ stage[m] = "lookup" /\ T \in Seq(Ids) /\ Len(T) \in Nat /\ n \in Nat /\ n < Len(T)
      /\ stage \in [Msgs -> {"new", "handler", "lookup", "publish", "sent", "dropped"}]
      /\ looked \in [Msgs -> Nat]
  BY FlowAssumption, LenProperties DEF IInv, SendInv, Lookup
<1>2. /\ looked' = [looked EXCEPT ![m] = IF n + 1 < Len(T) THEN n + 1 ELSE 0]
      /\ stage' = [stage EXCEPT ![m] = IF looked'[m] > 0 THEN "lookup"
                                       ELSE IF group'[m] = NoGroup THEN "sent" ELSE "publish"]
  BY DEF Lookup
<1>3. looked'[m] = IF n + 1 < Len(T) THEN n + 1 ELSE 0
  BY <1>1, <1>2
<1>4. IF n + 1 < Len(T) THEN stage'[m] = "lookup" ELSE stage'[m] \in {"sent", "publish"}
  <2>1. stage'[m] = IF looked'[m] > 0 THEN "lookup"
                    ELSE IF group'[m] = NoGroup THEN "sent" ELSE "publish"
    BY <1>1, <1>2
  <2>. QED
    BY <1>1, <1>3, <2>1
<1>5. Unlooked(m) = u
  BY <1>1 DEF Unlooked
<1>. HIDE DEF T, n
<1>6. /\ u \in Seq(Ids) /\ Len(u) = Len(T) - n
      /\ \A k \in 1 .. Len(T) - n : u[k] = T[n + k]
  BY <1>1, SubSeqProperties
<1>7. u # <<>> /\ Head(u) = T[n + 1]
  <2>. HIDE DEF u
  <2>1. Len(u) > 0
    BY <1>1, <1>6
  <2>2. u # <<>>
    BY <2>1
  <2>3. Head(u) = u[1]
    BY <1>6, <2>2, HeadTailProperties
  <2>. QED
    BY <1>1, <1>6, <2>2, <2>3
<1>8. T[n + 1] \in Ids
  <2>1. n + 1 \in 1 .. Len(T)
    BY <1>1
  <2>. QED
    BY <1>1, <2>1, ElementOfSeq
<1>9. /\ Tail(u) \in Seq(Ids) /\ Len(Tail(u)) = Len(T) - n - 1
      /\ \A k \in 1 .. Len(T) - n - 1 : Tail(u)[k] = T[n + 1 + k]
  <2>. HIDE DEF u
  <2>1. /\ Tail(u) \in Seq(Ids) /\ Len(Tail(u)) = Len(u) - 1
        /\ \A k \in 1 .. Len(Tail(u)) : Tail(u)[k] = u[k + 1]
    BY <1>6, <1>7, HeadTailProperties
  <2>. QED
    BY <1>1, <1>6, <2>1
<1>10. Unlooked(m)' = Tail(u)
  <2>1. CASE n + 1 < Len(T)
    <3>1. Unlooked(m)' = SubSeq(T, n + 1 + 1, Len(T))
      BY <1>3, <1>4, <2>1 DEF Unlooked, T
    <3>2. /\ SubSeq(T, n + 1 + 1, Len(T)) \in Seq(Ids)
          /\ Len(SubSeq(T, n + 1 + 1, Len(T))) = Len(T) - n - 1
          /\ \A k \in 1 .. Len(T) - n - 1 : SubSeq(T, n + 1 + 1, Len(T))[k] = T[n + 1 + k]
      BY <1>1, <2>1, SubSeqProperties
    <3>. HIDE DEF u
    <3>. QED
      BY <1>9, <3>1, <3>2, SeqEqual
  <2>2. CASE ~(n + 1 < Len(T))
    <3>1. Unlooked(m)' = <<>>
      BY <1>4, <2>2, UnlookedNext
    <3>2. Len(Tail(u)) = 0
      BY <1>1, <1>9, <2>2
    <3>. HIDE DEF u
    <3>. QED
      BY <1>9, <3>1, <3>2, EmptySeq
  <2>. QED
    BY <2>1, <2>2
<1>11. stage'[m] # "new"
  BY <1>4
<1>. QED
  BY <1>5, <1>6, <1>7, <1>8, <1>10, <1>11 DEF Target, T, n

\* A lookup adds to a group no more than it takes.
LEMMA LookupKeeps ==
    ASSUME IInv, IInv', NEW x \in Msgs, Lookup(x), NEW m \in Msgs, MessageInv(m)
    PROVE  MessageInv(m)'
<1>1. /\ UNCHANGED <<queue, held, jobs, given, lostAcks>>
      /\ \A y \in Msgs : y # x => /\ group'[y] = group[y] /\ stage'[y] = stage[y]
                                  /\ looked'[y] = looked[y]
  <2>1. /\ UNCHANGED <<queue, held, jobs, given, lostAcks>>
        /\ \E st : stage' = [stage EXCEPT ![x] = st]
        /\ \E n : looked' = [looked EXCEPT ![x] = n]
        /\ group' = group \/ \E g : group' = [group EXCEPT ![x] = g]
    BY DEF Lookup, recvVars, histVars
  <2>. QED
    BY <2>1 DEF IInv, SendInv
<1>2. CASE m # x
  <2>1. Relocated(Where(m), Where(m)')
    BY <1>1, <1>2, OthersRelocated
  <2>. QED
    BY <1>1, <1>2, <2>1, CarriedKeeps
<1>3. CASE m = x
  <2> DEFINE W == Where(m)
             X == Where(m)'
             t == Target(m)
             Y == [W EXCEPT ![Ahead] = Tail(W[Ahead])]
  <2>1. /\ W[Ahead] \in Seq(Ids) /\ W[Ahead] # <<>> /\ Head(W[Ahead]) = t /\ t \in Ids
        /\ X[Ahead] = Tail(W[Ahead]) /\ stage'[m] # "new"
    <3>1. Lookup(m)
      BY <1>3
    <3>2. /\ Unlooked(m) \in Seq(Ids) /\ Unlooked(m) # <<>> /\ Head(Unlooked(m)) = t /\ t \in Ids
          /\ Unlooked(m)' = Tail(Unlooked(m)) /\ stage'[m] # "new"
      BY <3>1, LookedUp
    <3>3. W[Ahead] = Unlooked(m) /\ X[Ahead] = Unlooked(m)'
      BY WhereNow
    <3>. QED
      BY <3>2, <3>3
  <2>2. W \in Layouts /\ X \in Layouts /\ Ahead \in Places
    BY WhereType, WhereTypeNext, PlaceNames
  <2>3. /\ Y \in Layouts /\ Y[Ahead] = Tail(W[Ahead])
        /\ \A p \in Places \ {Ahead} : Y[p] = W[p]
    <3>1. Tail(W[Ahead]) \in Seq(Ids)
      BY <2>1, HeadTailProperties
    <3>. QED
      BY <2>2, <3>1 DEF Layouts
  <2>4. group[m] \in [Queues -> Seq(Ids)]
    BY DEF IInv, SendInv
  <2>5. \/ group'[m] = group[m]
        \/ \E v \in Queues : group'[m] = [group[m] EXCEPT ![v] = Append(group[m][v], t)]
    <3>1. group \in [Msgs -> [Queues -> Seq(Ids)]] /\ route \in [Ids -> Sessions \cup {Nil, Nowhere}]
          /\ LongerIds \in [Ids -> SUBSET Ids]
      BY FlowAssumption DEF IInv, WorldInv, SendInv
    <3>2. CASE group' # group
      <4>1. PICK r \in Found(t) :
               group' = [group EXCEPT ![m] = [group[m] EXCEPT ![Address(r)] = Append(group[m][Address(r)], t)]]
        BY <1>3, <3>2 DEF Lookup
      <4>2. r \in Sessions \cup {Nowhere}
        BY <2>1, <3>1 DEF Found
      <4>3. Address(r) \in Queues
        BY <4>2, FlowAssumption DEF Address, Queues
      <4>4. group'[m] = [group[m] EXCEPT ![Address(r)] = Append(group[m][Address(r)], t)]
        BY <3>1, <4>1
      <4>. QED
        BY <4>3, <4>4
    <3>. QED
      BY <3>2
  <2>6. ASSUME NEW p \in Places, p # Ahead, \A v \in Queues : p # InGroup(v) PROVE X[p] = W[p]
    BY <1>1, <2>6, PlaceNames, WhereNow
  <2>7. \A v \in Queues : /\ W[InGroup(v)] = group[m][v] /\ X[InGroup(v)] = group'[m][v]
                          /\ InGroup(v) \in Places /\ InGroup(v) # Ahead
    BY WhereNow, PlaceNames, PlacesDiffer
  <2>. HIDE DEF W, X, t, Y
  <2>8. \/ \A p \in Places \ {Ahead} : X[p] = W[p]
        \/ \E a \in Places : /\ a # Ahead /\ X[a] = Append(W[a], t)
                             /\ \A p \in Places \ {Ahead, a} : X[p] = W[p]
    <3>1. CASE group'[m] = group[m]
      BY <2>6, <2>7, <3>1
    <3>2. ASSUME NEW v \in Queues, group'[m] = [group[m] EXCEPT ![v] = Append(group[m][v], t)]
          PROVE  \E a \in Places : /\ a # Ahead /\ X[a] = Append(W[a], t)
                                   /\ \A p \in Places \ {Ahead, a} : X[p] = W[p]
      <4>1. X[InGroup(v)] = Append(W[InGroup(v)], t)
        BY <2>4, <2>7, <3>2
      <4>2. \A p \in Places \ {Ahead, InGroup(v)} : X[p] = W[p]
        BY <2>4, <2>6, <2>7, <3>2
      <4>. QED
        BY <2>7, <4>1, <4>2
    <3>. QED
      BY <2>5, <3>1, <3>2
  <2>9. \A p \in Places : p[1] \in {"queue", "held"} => X[p] = W[p]
    <3>1. Ahead[1] = "ahead" /\ \A v \in Queues : InGroup(v)[1] = "group"
      BY PlacesDiffer
    <3>. QED
      BY <2>6, <3>1
  <2>10. ASSUME NEW i \in Ids PROVE Fits(X, m, i, given[m][i], lostAcks[m]) /\ Small(X, m, i)
    <3>1. /\ IsFiniteSet(Tokens(W, i)) /\ Small(W, m, i)
          /\ Cardinality(Tokens(W, i)) + given[m][i] <= (1 + lostAcks[m]) * Wanted(m, i)
      BY DEF MessageInv, Fits, W
    <3>2. /\ IsFiniteSet(Tokens(Y, i))
          /\ Cardinality(Tokens(Y, i)) \in Nat /\ Cardinality(Tokens(W, i)) \in Nat
          /\ Cardinality(Tokens(Y, i)) + (IF t = i THEN 1 ELSE 0) <= Cardinality(Tokens(W, i))
      BY <2>1, <2>2, <2>3, <3>1, TakenTokens
    <3>3. /\ IsFiniteSet(Tokens(X, i)) /\ Cardinality(Tokens(X, i)) \in Nat
          /\ Cardinality(Tokens(X, i)) <= Cardinality(Tokens(Y, i)) + (IF t = i THEN 1 ELSE 0)
      <4>1. CASE \A p \in Places \ {Ahead} : X[p] = W[p]
        <5>1. \A p \in Places : X[p] = Y[p]
          BY <2>1, <2>3, <4>1
        <5>2. X = Y
          BY <2>2, <2>3, <5>1 DEF Layouts
        <5>. QED
          BY <3>2, <5>2
      <4>2. ASSUME NEW a \in Places, a # Ahead, X[a] = Append(W[a], t),
                   \A p \in Places \ {Ahead, a} : X[p] = W[p]
            PROVE  /\ IsFiniteSet(Tokens(X, i)) /\ Cardinality(Tokens(X, i)) \in Nat
                   /\ Cardinality(Tokens(X, i))
                        <= Cardinality(Tokens(Y, i)) + (IF t = i THEN 1 ELSE 0)
        <5>1. X[a] = Append(Y[a], t)
          BY <2>3, <4>2
        <5>2. \A p \in Places \ {a} : X[p] = Y[p]
          BY <2>1, <2>3, <4>2
        <5>. QED
          BY <2>1, <2>2, <2>3, <3>2, <5>1, <5>2, AppendedTokens
      <4>. QED
        BY <2>8, <4>1, <4>2
    <3>4. Fits(X, m, i, given[m][i], lostAcks[m])
      <4>1. (1 + lostAcks[m]) * Wanted(m, i) \in Nat /\ given[m][i] \in Nat
        <5>1. lostAcks[m] \in Nat /\ Wanted(m, i) \in Nat
          BY WantedSpots DEF IInv, CountInv
        <5>. QED
          BY <5>1 DEF IInv, CountInv
      <4>. HIDE DEF Wanted
      <4>. QED
        BY <3>1, <3>2, <3>3, <4>1 DEF Fits
    <3>5. /\ Cardinality(Spots(X[Ahead], i)) + (IF t = i THEN 1 ELSE 0)
               <= Cardinality(Spots(W[Ahead], i))
          /\ Wanted(m, i) \in Nat
          /\ \A p \in Places : /\ Cardinality(Spots(X[p], i)) \in Nat
                               /\ Cardinality(Spots(W[p], i)) \in Nat
      BY <2>1, <2>2, TailSpots, SpotsFinite, WantedSpots DEF Layouts
    <3>6. ASSUME NEW p \in Places, p # Ahead
          PROVE  Cardinality(Spots(X[p], i)) <= Cardinality(Spots(W[p], i)) + (IF t = i THEN 1 ELSE 0)
      <4>1. X[p] = W[p] \/ X[p] = Append(W[p], t)
        BY <2>8, <3>6
      <4>2. W[p] \in Seq(Ids)
        BY <2>2 DEF Layouts
      <4>3. Cardinality(Spots(Append(W[p], t), i))
              <= Cardinality(Spots(W[p], i)) + (IF t = i THEN 1 ELSE 0)
        BY <2>1, <4>2, AppendedSpots
      <4>4. X[p] = W[p] => Cardinality(Spots(X[p], i)) = Cardinality(Spots(W[p], i))
        OBVIOUS
      <4>5. Cardinality(Spots(X[p], i)) \in Nat /\ Cardinality(Spots(W[p], i)) \in Nat
        BY <3>5
      <4>6. CASE X[p] = W[p]
        BY <4>4, <4>5, <4>6
      <4>7. CASE X[p] = Append(W[p], t)
        BY <4>3, <4>7
      <4>. QED
        BY <4>1, <4>6, <4>7
    <3>7. ASSUME NEW p \in Places, p[1] = "group"
          PROVE  Cardinality(Spots(X[p], i)) + Cardinality(Spots(X[Ahead], i)) <= Wanted(m, i)
      <4>1. p # Ahead
        BY <3>7, PlacesDiffer
      <4>2. Cardinality(Spots(W[p], i)) + Cardinality(Spots(W[Ahead], i)) <= Wanted(m, i)
        BY <3>1, <3>7 DEF Small
      <4>. HIDE DEF Wanted
      <4>. QED
        BY <2>2, <3>5, <3>6, <4>1, <4>2
    <3>8. ASSUME NEW p \in Places, p[1] \in {"queue", "held"}
          PROVE  Cardinality(Spots(X[p], i)) <= Wanted(m, i)
      BY <2>9, <3>1, <3>8 DEF Small
    <3>. QED
      BY <3>4, <3>7, <3>8 DEF Small
  <2>11. given'[m] = given[m] /\ lostAcks'[m] = lostAcks[m]
    BY <1>1
  <2>. QED
    BY <2>1, <2>10, <2>11 DEF MessageInv, X
<1>. QED
  BY <1>2, <1>3
\* A server that ends takes no message back to its beginning.
LEMMA DiesKeepsContract ==
    ASSUME IInv, IInv', NEW v \in Servers, Dies(v), NEW m \in Msgs, MessageInv(m)
    PROVE  MessageInv(m)'
<1>1. Relocated(Where(m), Where(m)')
  BY DiesRelocated
<1>2. given'[m] = given[m] /\ lostAcks'[m] = lostAcks[m] /\ (stage'[m] = "new" => stage[m] = "new")
  BY DEF Dies
<1>. QED
  BY <1>1, <1>2, CarriedKeeps

\* Sending keeps the invariant of every message.
LEMMA SendKeepsContract ==
    ASSUME IInv, IInv', NEW x \in Msgs, Submit(x) \/ SendStep(x), NEW m \in Msgs, MessageInv(m)
    PROVE  MessageInv(m)'
<1>1. CASE Submit(x) \/ RunSendHandlers(x) \/ LookupFails(x)
  <2>1. /\ UNCHANGED <<queue, held, jobs, given, lostAcks>>
        /\ stage[x] \in {"new", "handler", "lookup"}
        /\ stage' \in {[stage EXCEPT ![x] = st] : st \in {"handler", "lookup", "sent", "dropped"}}
        /\ looked' = looked \/ (looked' = [looked EXCEPT ![x] = 0] /\ stage[x] = "lookup"
                                /\ stage' = [stage EXCEPT ![x] = "dropped"])
        /\ group' = group \/ group' = [group EXCEPT ![x] = NoGroup]
    BY <1>1 DEF Submit, RunSendHandlers, LookupFails, recvVars, histVars
  <2>2. /\ stage \in [Msgs -> {"new", "handler", "lookup", "publish", "sent", "dropped"}]
        /\ looked \in [Msgs -> Nat] /\ group \in [Msgs -> [Queues -> Seq(Ids)]]
    BY DEF IInv, SendInv
  <2>3. stage'[m] = "new" => stage[m] = "new"
    BY <2>1, <2>2
  <2>4. \A v \in Queues : group'[m][v] = group[m][v] \/ group'[m][v] = <<>>
    <3>1. \A v \in Queues : NoGroup[v] = <<>>
      BY DEF NoGroup
    <3>2. group'[m] = group[m] \/ group'[m] = NoGroup
      BY <2>1, <2>2
    <3>. QED
      BY <3>1, <3>2
  <2>5. Unlooked(m)' = Unlooked(m) \/ Unlooked(m)' = <<>>
    <3>1. CASE m # x
      BY <2>1, <2>2, <3>1, UnlookedNext
    <3>2. CASE m = x
      <4>1. stage'[m] \in {"handler", "lookup", "sent", "dropped"}
            /\ (looked'[m] = looked[m] \/ stage'[m] = "dropped")
        BY <2>1, <2>2, <3>2
      <4>. QED
        BY <2>1, <3>2, <4>1, UnlookedNext
    <3>. QED
      BY <3>1, <3>2
  <2>6. Relocated(Where(m), Where(m)')
    BY <2>1, <2>4, <2>5, StillRelocated
  <2>7. given'[m] = given[m] /\ lostAcks'[m] = lostAcks[m]
    BY <2>1
  <2>. QED
    BY <2>3, <2>6, <2>7, CarriedKeeps
<1>2. CASE Lookup(x)
  BY <1>2, LookupKeeps
<1>3. ASSUME NEW w \in Queues, PublishWorking(x, w) PROVE MessageInv(m)'
  <2>1. Relocated(Where(m), Where(m)')
    BY <1>3, PublishRelocated
  <2>2. /\ given' = given /\ lostAcks' = lostAcks /\ stage[x] = "publish"
        /\ stage' \in {[stage EXCEPT ![x] = st] : st \in {"publish", "sent"}}
    BY <1>3 DEF PublishWorking, recvVars, histVars
  <2>3. stage'[m] = "new" => stage[m] = "new"
    BY <2>2 DEF IInv, SendInv
  <2>. QED
    BY <2>1, <2>2, <2>3, CarriedKeeps
<1>4. CASE PublishPanics(x)
  <2>1. Dies(Origin(x)) /\ Origin(x) \in Servers
    BY <1>4, FlowAssumption DEF PublishPanics, Panic, Origin
  <2>. QED
    BY <2>1, DiesKeepsContract
<1>. QED
  BY <1>1, <1>2, <1>3, <1>4 DEF SendStep

\* Consumers keep the invariant of every message.
LEMMA ConsumerKeepsContract ==
    ASSUME IInv, IInv', NEW s \in Sessions, ConsumerStep(s) \/ ConnectionLost(s),
           NEW m \in Msgs, MessageInv(m)
    PROVE  MessageInv(m)'
<1>1. CASE AckFails(s)
  BY <1>1, AckFailsKeeps
<1>2. CASE Deliver(s) \/ HandOver(s) \/ Ack(s) \/ ConnectionLost(s)
  <2>1. UNCHANGED <<stage, looked, group, given, lostAcks>>
    BY <1>2 DEF Deliver, HandOver, Ack, ConnectionLost, sendVars, histVars
  <2>2. CASE Ack(s) \/ ConnectionLost(s)
    <3>1. UNCHANGED <<queue, held, jobs>>
      BY <2>2 DEF Ack, ConnectionLost
    <3>. QED
      BY <2>1, <3>1, OthersRelocated, CarriedKeeps
  <2>. QED
    BY <1>2, <2>1, <2>2, DeliverRelocated, HandOverRelocated, CarriedKeeps
<1>. QED
  BY <1>1, <1>2 DEF ConsumerStep

\* The goroutines of Hub.ReceiveMessage keep the invariant of every message.
LEMMA JobKeepsContract ==
    ASSUME IInv, IInv', NEW j \in jobs, JobStep(j), NEW m \in Msgs, MessageInv(m)
    PROVE  MessageInv(m)'
<1>1. /\ j \in [msg : Msgs, by : Sessions, left : Seq(Ids), client : Sessions \cup {Nil}]
      /\ j.left # <<>> /\ ServerOf[j.by] \in Servers
      /\ given \in [Msgs -> [Ids -> Nat]]
  BY FlowAssumption DEF IInv, CopyInv, CountInv, FullJobs, Jobs
<1>2. Tail(j.left) \in Seq(Ids) /\ Head(j.left) \in Ids
  BY <1>1, HeadTailProperties
<1>3. CASE JobNilPanics(j) \/ JobClosedPanics(j)
  <2>1. Dies(ServerOf[j.by])
    BY <1>3 DEF JobNilPanics, JobClosedPanics, Panic
  <2>. QED
    BY <1>1, <2>1, DiesKeepsContract
<1>4. CASE JobFind(j)
  <2>1. Relocated(Where(m), Where(m)')
    BY <1>4, FindRelocated
  <2>2. UNCHANGED <<given, lostAcks, stage>>
    BY <1>4 DEF JobFind, sendVars, histVars
  <2>. QED
    BY <2>1, <2>2, CarriedKeeps
<1>5. CASE JobSkip(j)
  <2> DEFINE k == [j EXCEPT !.left = Tail(j.left)]
  <2>1. k \in Jobs /\ k.msg = j.msg /\ k.left = Tail(j.left)
    BY <1>1, <1>2 DEF Jobs
  <2>2. Replace(j, k) /\ UNCHANGED <<queue, held, group, stage, looked, lostAcks, given>>
    BY <1>5 DEF JobSkip, sendVars, histVars
  <2>. HIDE DEF k
  <2>3. \A i \in Ids : given'[m][i] <= given[m][i] + (IF Head(j.left) = i THEN 1 ELSE 0)
    <3>1. \A i \in Ids : given[m][i] \in Nat /\ given'[m][i] = given[m][i]
      BY <1>1, <2>2
    <3>. QED
      BY <3>1
  <2>. QED
    BY <2>1, <2>2, <2>3, TakenKeeps
<1>6. CASE JobGive(j)
  <2> DEFINE k == [j EXCEPT !.left = Tail(j.left), !.client = Nil]
  <2>1. k \in Jobs /\ k.msg = j.msg /\ k.left = Tail(j.left)
    BY <1>1, <1>2 DEF Jobs
  <2>2. /\ Replace(j, k) /\ UNCHANGED <<queue, held, group, stage, looked, lostAcks>>
        /\ given' = [given EXCEPT ![j.msg] =
                        [given[j.msg] EXCEPT ![Head(j.left)] = given[j.msg][Head(j.left)] + 1]]
    BY <1>6 DEF JobGive, sendVars, histVars
  <2>. HIDE DEF k
  <2>3. j.msg # m => given'[m] = given[m]
    BY <1>1, <2>2
  <2>4. \A i \in Ids : given'[m][i] <= given[m][i] + (IF Head(j.left) = i THEN 1 ELSE 0)
    <3>1. \A i \in Ids : given[m][i] \in Nat
      BY <1>1
    <3>2. ASSUME NEW i \in Ids
          PROVE  given'[m][i] = IF j.msg = m /\ Head(j.left) = i THEN given[m][i] + 1 ELSE given[m][i]
      BY <1>1, <1>2, <2>2
    <3>3. ASSUME NEW i \in Ids
          PROVE  given'[m][i] <= given[m][i] + (IF Head(j.left) = i THEN 1 ELSE 0)
      BY <3>1, <3>2
    <3>. QED
      BY <3>3
  <2>. QED
    BY <2>1, <2>2, <2>3, <2>4, TakenKeeps
<1>. QED
  BY <1>3, <1>4, <1>5, <1>6 DEF JobStep

\* Before anything happens all targets of a message are ahead, once.
LEMMA InitContract == Init => ContractInv
<1>. SUFFICES ASSUME Init, NEW m \in Msgs PROVE MessageInv(m)
  BY DEF ContractInv
<1>1. IInv
  BY InitIInv
<1>2. /\ stage[m] = "new" /\ lostAcks[m] = 0 /\ \A i \in Ids : given[m][i] = 0
      /\ queue = [v \in Queues |-> <<>>] /\ held = [s \in Sessions |-> NoCopy] /\ jobs = {}
      /\ group[m] = NoGroup
  BY DEF Init
<1> DEFINE W == Where(m)
           Z == [p \in Places |-> <<>>]
<1>3. W \in Layouts /\ W[Ahead] = TargetsOf[m]
  BY <1>1, <1>2, WhereType, UnlookedType, WhereNow
<1>4. Z \in Layouts /\ Ahead \in Places /\ \A p \in Places : Z[p] = <<>>
  BY EmptySeq, PlaceNames DEF Layouts
<1>5. OnlyAhead(W)
  <2>1. For(m, NoCopy) = <<>>
    BY DEF For, NoCopy
  <2>2. ASSUME NEW p \in Places, p # Ahead PROVE W[p] = <<>>
    BY <1>2, <2>1, <2>2, PlaceNames, WhereNow DEF NoGroup
  <2>. QED
    BY <2>2 DEF OnlyAhead
<1>. HIDE DEF W, Z
<1>6. ASSUME NEW i \in Ids PROVE Fits(W, m, i, 0, 0) /\ Small(W, m, i)
  <2>1. Tokens(Z, i) = {}
    BY <1>4 DEF Tokens
  <2>2. IsFiniteSet(Tokens(Z, i)) /\ Cardinality(Tokens(Z, i)) = 0
    BY <2>1, FS_EmptySet
  <2>3. \A r \in Places \ {Ahead} : W[r] = Z[r]
    BY <1>4, <1>5 DEF OnlyAhead
  <2>4. /\ IsFiniteSet(Tokens(W, i)) /\ Cardinality(Tokens(W, i)) \in Nat
        /\ Cardinality(Spots(W[Ahead], i)) \in Nat
        /\ Cardinality(Tokens(W, i)) <= Cardinality(Tokens(Z, i)) + Cardinality(Spots(W[Ahead], i))
    BY <1>3, <1>4, <2>2, <2>3, PlacedTokens
  <2>5. Wanted(m, i) = Cardinality(Spots(W[Ahead], i))
    BY <1>3, WantedSpots
  <2>6. Fits(W, m, i, 0, 0)
    <3>. HIDE DEF Wanted
    <3>1. (1 + 0) * Wanted(m, i) = Wanted(m, i)
      BY <2>4, <2>5
    <3>. QED
      BY <2>2, <2>4, <2>5, <3>1 DEF Fits
  <2>7. \A p \in Places : p # Ahead => Cardinality(Spots(W[p], i)) = 0
    BY <1>3, <1>5, SpotsFinite DEF OnlyAhead, Layouts
  <2>8. \A p \in Places : p[1] \in {"queue", "held", "group"} => p # Ahead
    BY PlacesDiffer
  <2>9. Small(W, m, i)
    <3>. HIDE DEF Wanted
    <3>. QED
      BY <2>4, <2>5, <2>7, <2>8 DEF Small
  <2>. QED
    BY <2>6, <2>9
<1>. QED
  BY <1>2, <1>5, <1>6 DEF MessageInv, W

\* Every step keeps the invariant of every message.
LEMMA StepKeepsContract == IInv /\ IInv' /\ ContractInv /\ [Next]_vars => ContractInv'
<1>. SUFFICES ASSUME IInv, IInv', ContractInv, [Next]_vars, NEW m \in Msgs
              PROVE  MessageInv(m)'
  BY DEF ContractInv
<1>1. MessageInv(m)
  BY DEF ContractInv
<1>2. CASE UNCHANGED vars \/ SessionStep
  <2>1. UNCHANGED <<queue, held, jobs, group, stage, looked, given, lostAcks>>
    BY <1>2, HubSteps DEF vars, SessionStep, Restart, Publish, WriterTakes, WriterFails, Unroute,
                sendVars, recvVars, histVars
  <2>2. Relocated(Where(m), Where(m)')
    BY <2>1, OthersRelocated
  <2>. QED
    BY <1>1, <2>1, <2>2, CarriedKeeps
<1>3. ASSUME NEW v \in Servers, Crash(v) PROVE MessageInv(m)'
  BY <1>1, <1>3, DiesKeepsContract DEF Crash
<1>4. CASE Next
  BY <1>1, <1>2, <1>3, <1>4, NextCases, SendKeepsContract, ConsumerKeepsContract, JobKeepsContract
<1>. QED
  BY <1>2, <1>4

\* What was given of a message and what may still be given of it are within its
\* copies times its targets, in every reachable state of any number of servers.
THEOREM WithinContract == Spec => []ContractInv
BY Inductive, InitContract, StepKeepsContract, PTL DEF Spec

-----------------------------------------------------------------------------
(* The refinement. *)

\* The copies there are of each message, as DeliveryContract counts them.
Copied == [m \in Msgs |-> IF stage[m] = "new" THEN 0 ELSE 1 + lostAcks[m]]

\* A step that the contract does not see.
Quiet ==
    /\ UNCHANGED <<given, lostAcks>>
    /\ \A m \in Msgs : stage'[m] = "new" <=> stage[m] = "new"

\* It changes neither variable of the contract.
LEMMA QuietStutters == Quiet => UNCHANGED Contract!contractVars
BY DEF Quiet, Contract!contractVars

\* Before it is sent, a message has no copies and nobody was given it.
LEMMA ContractBegins == Init => Contract!ContractInit
BY DEF Init, Contract!ContractInit

\* The end of a server is quiet.
LEMMA DiesQuiet == ASSUME NEW v, Dies(v) PROVE Quiet
BY DEF Dies, Quiet, SendingAt

\* Sending is quiet but for its beginning.
LEMMA SendQuiet == ASSUME IInv, NEW x \in Msgs, SendStep(x) PROVE Quiet
<1>1. stage \in [Msgs -> {"new", "handler", "lookup", "publish", "sent", "dropped"}]
  BY DEF IInv, SendInv
<1>2. CASE PublishPanics(x)
  BY <1>2, DiesQuiet DEF PublishPanics, Panic
<1>3. CASE ~PublishPanics(x)
  <2>1. /\ UNCHANGED <<given, lostAcks>> /\ stage[x] # "new"
        /\ stage' \in {[stage EXCEPT ![x] = st] : st \in {"lookup", "publish", "sent", "dropped"}}
    BY <1>3 DEF SendStep, RunSendHandlers, Lookup, LookupFails, PublishWorking, recvVars, histVars
  <2>. QED
    BY <1>1, <2>1 DEF Quiet
<1>. QED
  BY <1>2, <1>3

\* A goroutine gives a target only what the contract still allows.
LEMMA GiveAllowed ==
    ASSUME IInv, ContractInv, NEW j \in jobs, JobGive(j)
    PROVE  Contract!Give(j.msg, Head(j.left))
<1> DEFINE m == j.msg
           i == Head(j.left)
           t == <<With(j), 1>>
<1>1. j \in Jobs /\ m \in Msgs /\ j.left \in Seq(Ids) /\ j.left # <<>> /\ i \in Ids
  <2>1. j \in [msg : Msgs, by : Sessions, left : Seq(Ids), client : Sessions \cup {Nil}]
        /\ j.left # <<>>
    BY DEF IInv, CopyInv, FullJobs, Jobs
  <2>. QED
    BY <2>1, HeadTailProperties DEF Jobs
<1>2. 1 \in DOMAIN j.left /\ j.left[1] = i
  BY <1>1, HeadTailProperties, LenProperties, EmptySeq
<1>3. Where(m)[With(j)] = j.left /\ With(j) \in Places /\ With(j) # Ahead
  BY <1>1, WhereNow, PlaceNames, PlacesDiffer
<1>4. t \in Tokens(Where(m), i)
  BY <1>2, <1>3 DEF Tokens
<1>5. stage[m] # "new"
  BY <1>1, <1>3 DEF ContractInv, MessageInv, OnlyAhead
<1>6. /\ IsFiniteSet(Tokens(Where(m), i))
      /\ Cardinality(Tokens(Where(m), i)) + given[m][i] <= (1 + lostAcks[m]) * Wanted(m, i)
  BY <1>1 DEF ContractInv, MessageInv, Fits
<1>7. given[m][i] < (1 + lostAcks[m]) * Wanted(m, i)
  <2>1. Cardinality(Tokens(Where(m), i)) \in Nat /\ Cardinality(Tokens(Where(m), i)) # 0
    BY <1>4, <1>6, FS_CardinalityType, FS_EmptySet
  <2>2. lostAcks[m] \in Nat /\ Wanted(m, i) \in Nat /\ given[m][i] \in Nat
    BY <1>1, WantedSpots DEF IInv, CountInv
  <2>3. (1 + lostAcks[m]) * Wanted(m, i) \in Nat
    BY <2>2
  <2>. HIDE DEF Wanted
  <2>. QED
    BY <1>6, <2>1, <2>2, <2>3
<1>8. /\ given' = [given EXCEPT ![m][i] = @ + 1]
      /\ stage' = stage /\ lostAcks' = lostAcks
  BY DEF JobGive, sendVars, histVars
<1>9. Copied[m] = 1 + lostAcks[m] /\ Copied' = Copied
  BY <1>1, <1>5, <1>8 DEF Copied
<1>. QED
  BY <1>7, <1>8, <1>9 DEF Contract!Give, Copied

\* A lost acknowledgement is one of the contract.
LEMMA AckFailsLoses ==
    ASSUME IInv, ContractInv, NEW s \in Sessions, AckFails(s), NEW m, m = held[s].msg
    PROVE  Contract!LoseAck(m)
<1>1. /\ held[s] \in FullCopies /\ stage' = stage /\ given' = given
      /\ lostAcks' = [lostAcks EXCEPT ![m] = lostAcks[m] + 1]
  BY DEF AckFails, IInv, CopyInv, sendVars
<1>2. m \in Msgs /\ held[s].targets # <<>> /\ lostAcks \in [Msgs -> Nat]
  BY <1>1 DEF FullCopies, Copies, IInv, CountInv
<1>3. Where(m)[HeldBy(s)] = held[s].targets /\ HeldBy(s) \in Places /\ HeldBy(s) # Ahead
  BY <1>2, WhereNow, PlaceNames, PlacesDiffer DEF For
<1>4. stage[m] # "new"
  BY <1>2, <1>3 DEF ContractInv, MessageInv, OnlyAhead
<1>5. Copied[m] = 1 + lostAcks[m] /\ Copied[m] > 0
  BY <1>2, <1>4 DEF Copied
<1>6. Copied' = [Copied EXCEPT ![m] = Copied[m] + 1]
  <2>1. ASSUME NEW x \in Msgs PROVE Copied'[x] = IF x = m THEN Copied[m] + 1 ELSE Copied[x]
    <3>1. x # m => lostAcks'[x] = lostAcks[x]
      BY <1>1, <1>2
    <3>2. lostAcks'[m] = lostAcks[m] + 1 /\ lostAcks[m] \in Nat
      BY <1>1, <1>2
    <3>. QED
      BY <1>1, <1>4, <1>5, <3>1, <3>2 DEF Copied
  <2>. QED
    BY <2>1 DEF Copied
<1>. QED
  BY <1>1, <1>5, <1>6 DEF Contract!LoseAck, Copied

\* A message is sent once.
LEMMA SubmitSends ==
    ASSUME IInv, ContractInv, NEW m \in Msgs, Submit(m)
    PROVE  Contract!Send(m)
<1>1. /\ stage[m] = "new" /\ stage' = [stage EXCEPT ![m] = "handler"]
      /\ given' = given /\ lostAcks' = lostAcks
      /\ stage \in [Msgs -> {"new", "handler", "lookup", "publish", "sent", "dropped"}]
  BY DEF Submit, recvVars, histVars, IInv, SendInv
<1>2. lostAcks[m] = 0
  BY <1>1 DEF ContractInv, MessageInv
<1>3. Copied[m] = 0
  BY <1>1 DEF Copied
<1>4. Copied' = [Copied EXCEPT ![m] = 1]
  <2>1. ASSUME NEW x \in Msgs PROVE Copied'[x] = IF x = m THEN 1 ELSE Copied[x]
    BY <1>1, <1>2 DEF Copied
  <2>. QED
    BY <2>1 DEF Copied
<1>. QED
  BY <1>1, <1>3, <1>4 DEF Contract!Send, Copied

\* Every step is one of the contract or one it does not see.
LEMMA StepWithinContract ==
    IInv /\ ContractInv /\ [Next]_vars => [Contract!ContractNext]_(Contract!contractVars)
<1>. SUFFICES ASSUME IInv, ContractInv, [Next]_vars
              PROVE  Contract!ContractNext \/ UNCHANGED Contract!contractVars
  OBVIOUS
<1>1. CASE UNCHANGED vars \/ SessionStep
  <2>1. Quiet
    BY <1>1, HubSteps DEF vars, SessionStep, Restart, Publish, WriterTakes, WriterFails, Unroute,
                sendVars, recvVars, histVars, Quiet
  <2>. QED
    BY <2>1, QuietStutters
<1>2. ASSUME NEW v \in Servers, Crash(v) PROVE UNCHANGED Contract!contractVars
  BY <1>2, DiesQuiet, QuietStutters DEF Crash
<1>3. ASSUME NEW m \in Msgs, Submit(m) \/ SendStep(m)
      PROVE  Contract!ContractNext \/ UNCHANGED Contract!contractVars
  <2>1. CASE Submit(m)
    <3>1. Contract!Send(m)
      BY <2>1, SubmitSends
    <3>. QED
      BY <3>1 DEF Contract!ContractNext
  <2>2. CASE SendStep(m)
    BY <2>2, SendQuiet, QuietStutters
  <2>. QED
    BY <1>3, <2>1, <2>2
<1>4. ASSUME NEW s \in Sessions, ConsumerStep(s) \/ ConnectionLost(s)
      PROVE  Contract!ContractNext \/ UNCHANGED Contract!contractVars
  <2>1. CASE AckFails(s)
    <3>1. held[s].msg \in Msgs
      BY <2>1 DEF AckFails, IInv, CopyInv, FullCopies, Copies
    <3>2. \E m \in Msgs : Contract!LoseAck(m)
      BY <2>1, <3>1, AckFailsLoses
    <3>. QED
      BY <3>2 DEF Contract!ContractNext
  <2>2. CASE ~AckFails(s)
    <3>1. Quiet
      BY <1>4, <2>2 DEF ConsumerStep, Deliver, HandOver, Ack, ConnectionLost, sendVars, histVars, Quiet
    <3>. QED
      BY <3>1, QuietStutters
  <2>. QED
    BY <2>1, <2>2
<1>5. ASSUME NEW j \in jobs, JobStep(j)
      PROVE  Contract!ContractNext \/ UNCHANGED Contract!contractVars
  <2>1. CASE JobGive(j)
    <3>1. j.msg \in Msgs /\ Head(j.left) \in Ids
      <4>1. j.msg \in Msgs /\ j.left \in Seq(Ids) /\ j.left # <<>>
        BY DEF IInv, CopyInv, FullJobs, Jobs
      <4>. QED
        BY <4>1, HeadTailProperties
    <3>2. Contract!Give(j.msg, Head(j.left))
      BY <2>1, GiveAllowed
    <3>. QED
      BY <3>1, <3>2 DEF Contract!ContractNext
  <2>2. CASE JobNilPanics(j) \/ JobClosedPanics(j)
    BY <2>2, DiesQuiet, QuietStutters DEF JobNilPanics, JobClosedPanics, Panic
  <2>3. CASE JobSkip(j) \/ JobFind(j)
    <3>1. Quiet
      BY <2>3 DEF JobSkip, JobFind, sendVars, histVars, Quiet
    <3>. QED
      BY <3>1, QuietStutters
  <2>. QED
    BY <1>5, <2>1, <2>2, <2>3 DEF JobStep
<1>6. CASE Next
  BY <1>1, <1>2, <1>3, <1>4, <1>5, <1>6, NextCases
<1>. QED
  BY <1>1, <1>6

\* MessageFlow implements DeliveryContract: whatever crashes, lost connections
\* and panics there are, only the targets of a message that was sent get it, and
\* no more often than there are copies of it (hub.go:54-143, client.go:172-206).
THEOREM ImplementsContract == Spec => ContractSpec
BY ContractBegins, StepWithinContract, Inductive, WithinContract, PTL
   DEF Spec, ContractSpec, Contract!Spec
=============================================================================
