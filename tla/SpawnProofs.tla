---------------------------- MODULE SpawnProofs ----------------------------
(***************************************************************************)
(* Proofs about RangeSplit for every n, every number of threads and of     *)
(* nodelets and all spawn modes, a grain of 0 included: each index is      *)
(* worked on exactly once, whatever the order of the threads, the loop as  *)
(* its caller sees it is ForEach, and it has started as many workers as it *)
(* should when it ends.  The last section is about the threads of          *)
(* ping_pong.c and what they measure (PingPong).                           *)
(***************************************************************************)
EXTENDS RangeSplit, PingPong, FiniteSetTheorems, WellFoundedInduction, TLAPS

Inv == TypeOK /\ EachIndexOnce

\* The grain is a natural number.
LEMMA GrainNat == TypeOK => Grain \in Nat
  BY RangeSplitAssumption DEF TypeOK, Grain

\* The point where a range is divided lies in it.
LEMMA MidInside ==
    ASSUME NEW low \in Nat, NEW high \in Nat, low <= high
    PROVE  LET mid == low + (high - low) \div 2
           IN  mid \in Nat /\ low <= mid /\ mid <= high
  OBVIOUS

\* Larger factors make larger products.
LEMMA TimesMonotone ==
    ASSUME NEW a \in Nat, NEW b \in Nat, NEW c \in Nat, a <= b
    PROVE  /\ a * c \in Nat /\ b * c \in Nat
           /\ a * c <= b * c
           /\ (a + 1) * c = a * c + c
<1>1. b * c - a * c = (b - a) * c /\ (a + 1) * c = a * c + c
  OBVIOUS
<1>2. b - a \in Nat
  OBVIOUS
<1>3. (b - a) * c \in Nat /\ a * c \in Nat /\ b * c \in Nat
  BY <1>2
<1> QED
  BY <1>1, <1>3

\* The nodelets have equal shares of the array.
LEMMA Shares == TypeOK => LocalN \in Nat \ {0} /\ n = NumNodelets * LocalN
<1> SUFFICES ASSUME TypeOK PROVE LocalN \in Nat \ {0} /\ n = NumNodelets * LocalN
  OBVIOUS
<1>1. n \in Nat \ {0} /\ NumNodelets \in Nat \ {0} /\ n % NumNodelets = 0
  BY RangeSplitAssumption DEF TypeOK
<1>2. LocalN \in Nat
  BY <1>1 DEF LocalN
<1>3. n = NumNodelets * LocalN
  BY <1>1 DEF LocalN
<1> QED
  BY <1>1, <1>2, <1>3

\* The share of a nodelet begins and ends inside the array.
LEMMA ShareInside ==
    ASSUME TypeOK, NEW k \in Nat, NEW l \in Nat, k <= l, l <= NumNodelets
    PROVE  /\ k * LocalN \in Nat /\ l * LocalN \in Nat
           /\ k * LocalN <= l * LocalN /\ l * LocalN <= n
           /\ (k + 1) * LocalN = k * LocalN + LocalN
<1>1. LocalN \in Nat /\ n = NumNodelets * LocalN /\ NumNodelets \in Nat
  BY Shares, RangeSplitAssumption
<1>2. k * LocalN <= l * LocalN /\ k * LocalN \in Nat /\ l * LocalN \in Nat
      /\ (k + 1) * LocalN = k * LocalN + LocalN
  BY <1>1, TimesMonotone
<1>3. l * LocalN <= NumNodelets * LocalN
  BY <1>1, TimesMonotone
<1> QED
  BY <1>1, <1>2, <1>3

\* The quotient is the number of times that the divisor fits in.
LEMMA Quotient ==
    ASSUME NEW a \in Nat, NEW b \in Nat \ {0}
    PROVE  a \div b \in Nat /\ (a \div b) * b <= a /\ a < (a \div b) * b + b
  OBVIOUS

\* The share that an index lies in ends behind the index and inside the array.
LEMMA StopInside ==
    ASSUME TypeOK, NEW low \in 0..n-1
    PROVE  LET stop == ((low \div LocalN) + 1) * LocalN
           IN  stop \in Nat /\ low < stop /\ stop <= n
<1> DEFINE k == low \div LocalN
<1>1. LocalN \in Nat \ {0} /\ n = NumNodelets * LocalN /\ NumNodelets \in Nat /\ n \in Nat
  BY Shares, RangeSplitAssumption DEF TypeOK
<1>2. k \in Nat /\ k * LocalN <= low /\ low < k * LocalN + LocalN /\ k * LocalN \in Nat
  <2>1. k \in Nat /\ k * LocalN <= low /\ low < k * LocalN + LocalN
    BY <1>1, Quotient
  <2> HIDE DEF k
  <2> QED
    BY <1>1, <2>1
<1> HIDE DEF k
<1>3. k + 1 <= NumNodelets
  <2>1. ASSUME NumNodelets <= k PROVE FALSE
    <3>1. NumNodelets * LocalN <= k * LocalN
      BY <1>1, <1>2, <2>1, TimesMonotone
    <3> HIDE DEF LocalN
    <3> QED
      BY <1>1, <1>2, <3>1
  <2> QED
    BY <1>1, <1>2, <2>1
<1>4. (k + 1) * LocalN \in Nat /\ (k + 1) * LocalN <= n
  BY <1>1, <1>2, <1>3, ShareInside
<1>5. (k + 1) * LocalN = k * LocalN + LocalN
  BY <1>1, <1>2, TimesMonotone
<1>6. low < (k + 1) * LocalN
  BY <1>1, <1>2, <1>5
<1> QED
  BY <1>4, <1>6 DEF k

\* A chunk that ends with the nodelet lies in the range of its spawner.
LEMMA ChunkAtInside ==
    ASSUME TypeOK, NEW t \in threads, SpawnChunkAt(t)
    PROVE  LET stop == ((t.low \div LocalN) + 1) * LocalN
               end  == IF t.low + Grain <= stop THEN t.low + Grain ELSE stop
           IN  end \in Nat /\ t.low <= end /\ end <= n /\ t.high = n
<1>1. /\ t.low \in Nat /\ t.high = n /\ n \in Nat /\ Grain \in Nat
      /\ t.low < t.high
  BY GrainNat, RangeSplitAssumption DEF TypeOK, SpawnChunkAt, NodeletRoles
<1>2. t.low \in 0..n-1
  BY <1>1
<1> DEFINE stop == ((t.low \div LocalN) + 1) * LocalN
<1>3. stop \in Nat /\ t.low < stop /\ stop <= n
  BY <1>2, StopInside
<1> HIDE DEF stop
<1>4. LET end == IF t.low + Grain <= stop THEN t.low + Grain ELSE stop
      IN  end \in Nat /\ t.low <= end /\ end <= n /\ t.high = n
  BY <1>1, <1>3
<1> QED
  BY <1>4 DEF stop

\* The first thread is responsible for all of 0..n-1.
LEMMA InvInit == Init => Inv
<1> SUFFICES ASSUME Init PROVE Inv
  OBVIOUS
<1>1. PICK mode \in Modes : threads = {Thread(mode, 0, IF mode \in NodeletRoles
                                                       THEN NumNodelets ELSE n)}
  BY DEF Init
<1>2. n \in Nat \ {0} /\ NumNodelets \in Nat \ {0} /\ mode \in Roles
  BY RangeSplitAssumption DEF Init, Roles, RemoteModes
<1>3. TypeOK
  <2>1. \A t \in threads : /\ t = Thread(t.role, t.low, t.high) /\ t.role = mode /\ t.low = 0
                            /\ t.high = IF mode \in NodeletRoles THEN NumNodelets ELSE n
    BY <1>1 DEF Thread
  <2>2. written \in [0..n-1 -> Nat] /\ workers \in Nat /\ n \in Sizes /\ num_threads \in ThreadCounts
    BY DEF Init
  <2> QED
    BY <1>2, <2>1, <2>2 DEF TypeOK, NodeletRoles
<1>4. ASSUME NEW t \in threads PROVE First(t) = 0 /\ End(t) = n
  <2>1. n = NumNodelets * LocalN /\ LocalN \in Nat
    BY <1>3, Shares
  <2> QED
    BY <1>1, <1>2, <2>1 DEF First, End, Thread
<1>5. \A i \in 0..n-1 : \A t \in threads : Owns(t, i)
  BY <1>2, <1>4 DEF Owns
<1>6. \A t, u \in threads : t = u
  BY <1>1
<1>7. threads # {} /\ written = [i \in 0..n-1 |-> 0]
  BY <1>1 DEF Init
<1> QED
  BY <1>3, <1>5, <1>6, <1>7 DEF Inv, EachIndexOnce

\* What a thread is responsible for, by its role.
LEMMA RangeIs ==
    ASSUME TypeOK, NEW t \in threads
    PROVE  /\ First(t) \in Nat /\ End(t) \in Nat /\ End(t) <= n /\ n \in Nat
           /\ t.role \notin NodeletRoles => First(t) = t.low /\ End(t) = t.high
           /\ t.role \in NodeletRoles => /\ First(t) = t.low * LocalN
                                         /\ End(t) = t.high * LocalN
                                         /\ t.low \in Nat /\ t.high \in Nat
                                         /\ t.low <= t.high /\ t.high <= NumNodelets
<1>1. n \in Nat /\ NumNodelets \in Nat /\ t.low \in Nat
  BY RangeSplitAssumption DEF TypeOK
<1>2. CASE t.role \in NodeletRoles
  <2>1. t.high \in 0..NumNodelets /\ t.low <= t.high
    BY <1>2 DEF TypeOK, NodeletRoles
  <2> QED
    BY <1>1, <1>2, <2>1, ShareInside DEF First, End
<1>3. CASE t.role \notin NodeletRoles
  BY <1>1, <1>3 DEF TypeOK, First, End
<1> QED
  BY <1>2, <1>3

\* The types are kept.
LEMMA TypeStep == ASSUME TypeOK, NEW t \in threads, Step(t) PROVE TypeOK'
<1> DEFINE Typed(u) == /\ u = Thread(u.role, u.low, u.high)
                       /\ u.role \in Roles
                       /\ u.low \in Nat
                       /\ u.high \in 0..(IF u.role \in NodeletRoles THEN NumNodelets ELSE n)
                       /\ u.low <= u.high \/ u.role = "serial"
                       /\ u.role = "shallow" => u.high = n
<1>1. /\ Typed(t) /\ n \in Nat /\ NumNodelets \in Nat /\ Grain \in Nat
      /\ n \in Sizes /\ num_threads \in ThreadCounts
      /\ written \in [0..n-1 -> Nat] /\ workers \in Nat
  BY GrainNat, RangeSplitAssumption DEF TypeOK
<1>2. ASSUME NEW new, threads' = (threads \ {t}) \cup new, \A u \in new : Typed(u),
             UNCHANGED <<n, num_threads>>,
             written' \in [0..n-1 -> Nat], workers' \in Nat
      PROVE  TypeOK'
  BY <1>2 DEF TypeOK
<1>3. ASSUME NEW role \in {"serial", "recursive"}, NEW k \in 0..NumNodelets-1
      PROVE  Typed(OnNodelet(role, k))
  <2>1. /\ k * LocalN \in Nat /\ (k + 1) * LocalN \in Nat
        /\ k * LocalN <= (k + 1) * LocalN /\ (k + 1) * LocalN <= n
    <3>1. k \in Nat /\ k + 1 \in Nat /\ k <= k + 1 /\ k + 1 <= NumNodelets
      BY <1>1
    <3> QED
      BY <1>1, <3>1, ShareInside
  <2>2. role \in Roles /\ role \notin NodeletRoles /\ role # "shallow"
    BY DEF Roles, NodeletRoles
  <2> HIDE DEF LocalN
  <2> QED
    BY <1>1, <2>1, <2>2 DEF OnNodelet, Thread
<1>4. CASE SpawnNodelet(t)
  <2> DEFINE new == {OnNodelet("serial", t.low), Thread("serial_remote", t.low + 1, t.high)}
  <2>1. Typed(OnNodelet("serial", t.low))
    BY <1>1, <1>3, <1>4 DEF SpawnNodelet, Roles, NodeletRoles
  <2>2. Typed(Thread("serial_remote", t.low + 1, t.high))
    BY <1>1, <1>4 DEF SpawnNodelet, Thread, Roles, RemoteModes, NodeletRoles
  <2> HIDE DEF Typed
  <2>3. \A u \in new : Typed(u)
    BY <2>1, <2>2
  <2>4. threads' = (threads \ {t}) \cup new
    BY <1>4 DEF SpawnNodelet, Replace
  <2> HIDE DEF new
  <2> QED
    BY <1>1, <1>2, <1>4, <2>3, <2>4 DEF SpawnNodelet
<1>5. CASE SplitNodelets(t)
  <2> DEFINE mid == t.low + (t.high - t.low) \div 2
             new == {Thread("recursive_remote", t.low, mid),
                     Thread("recursive_remote", mid, t.high)}
  <2>1. mid \in Nat /\ t.low <= mid /\ mid <= t.high
    BY <1>1, <1>5, MidInside DEF SplitNodelets, NodeletRoles
  <2>2. threads' = (threads \ {t}) \cup new
    BY <1>5 DEF SplitNodelets, Replace
  <2> HIDE DEF mid
  <2>3. \A u \in new : Typed(u)
    BY <1>1, <1>5, <2>1 DEF SplitNodelets, Thread, Roles, RemoteModes, NodeletRoles
  <2> HIDE DEF Typed, new
  <2> QED
    BY <1>1, <1>2, <1>5, <2>2, <2>3 DEF SplitNodelets
<1>6. CASE OneNodelet(t)
  <2> DEFINE new == {OnNodelet("recursive", t.low)}
  <2>1. \A u \in new : Typed(u)
    BY <1>1, <1>3, <1>6 DEF OneNodelet, Roles, NodeletRoles
  <2>2. threads' = (threads \ {t}) \cup new
    BY <1>6 DEF OneNodelet, Replace
  <2> HIDE DEF Typed, new
  <2> QED
    BY <1>1, <1>2, <1>6, <2>1, <2>2 DEF OneNodelet
<1>7. CASE SpawnHalf(t)
  <2> DEFINE mid == t.low + (t.high - t.low) \div 2
             new == {Thread("recursive", t.low, mid), Thread("recursive", mid, t.high)}
  <2>1. mid \in Nat /\ t.low <= mid /\ mid <= t.high
    BY <1>1, <1>7, MidInside DEF SpawnHalf, NodeletRoles
  <2>2. threads' = (threads \ {t}) \cup new
    BY <1>7 DEF SpawnHalf, Replace
  <2> HIDE DEF mid
  <2>3. \A u \in new : Typed(u)
    BY <1>1, <1>7, <2>1 DEF SpawnHalf, Thread, Roles, NodeletRoles
  <2> HIDE DEF Typed, new
  <2> QED
    BY <1>1, <1>2, <1>7, <2>2, <2>3 DEF SpawnHalf
<1>8. CASE BaseCase(t)
  <2> DEFINE new == {Thread("worker", t.low, t.high)}
  <2>1. \A u \in new : Typed(u)
    BY <1>1, <1>8 DEF BaseCase, Thread, Roles, NodeletRoles
  <2>2. threads' = (threads \ {t}) \cup new
    BY <1>8 DEF BaseCase, Replace
  <2>3. UNCHANGED <<n, num_threads, written>> /\ workers' \in Nat
    BY <1>1, <1>8 DEF BaseCase
  <2> HIDE DEF Typed, new
  <2> QED
    BY <1>1, <1>2, <2>1, <2>2, <2>3
<1>9. CASE SpawnChunk(t)
  <2> DEFINE end == IF t.low + Grain <= t.high THEN t.low + Grain ELSE t.high
             new == {Thread("worker", t.low, end), Thread("serial", t.low + Grain, t.high)}
  <2>1. end \in Nat /\ t.low <= end /\ end <= t.high
    BY <1>1, <1>9 DEF SpawnChunk, NodeletRoles
  <2>2. threads' = (threads \ {t}) \cup new
    BY <1>9 DEF SpawnChunk, Replace
  <2> HIDE DEF end
  <2>3. \A u \in new : Typed(u)
    BY <1>1, <1>9, <2>1 DEF SpawnChunk, Thread, Roles, NodeletRoles
  <2>4. UNCHANGED <<n, num_threads, written>> /\ workers' \in Nat
    BY <1>1, <1>9 DEF SpawnChunk
  <2> HIDE DEF Typed, new
  <2> QED
    BY <1>1, <1>2, <2>2, <2>3, <2>4
<1>10. CASE SpawnChunkAt(t)
  <2> DEFINE stop == ((t.low \div LocalN) + 1) * LocalN
             end  == IF t.low + Grain <= stop THEN t.low + Grain ELSE stop
             new  == {Thread("worker", t.low, end), Thread("shallow", end, t.high)}
  <2>1. end \in Nat /\ t.low <= end /\ end <= t.high /\ t.high = n
    BY ChunkAtInside, <1>10
  <2>2. threads' = (threads \ {t}) \cup new
    BY <1>10 DEF SpawnChunkAt, Replace
  <2>3. UNCHANGED <<n, num_threads, written>> /\ workers' \in Nat
    BY <1>1, <1>10 DEF SpawnChunkAt
  <2> HIDE DEF stop, end
  <2>4. \A u \in new : Typed(u)
    BY <1>1, <1>10, <2>1 DEF SpawnChunkAt, Thread, Roles, RemoteModes, NodeletRoles
  <2> HIDE DEF Typed, new
  <2> QED
    BY <1>1, <1>2, <2>2, <2>3, <2>4
<1>11. CASE Body(t)
  <2> DEFINE new == {Thread("worker", t.low + 1, t.high)}
  <2>1. \A u \in new : Typed(u)
    BY <1>1, <1>11 DEF Body, Thread, Roles, NodeletRoles
  <2>2. threads' = (threads \ {t}) \cup new
    BY <1>11 DEF Body, Replace
  <2> HIDE DEF Typed, new
  <2>3. t.low \in 0..n-1
    <3>1. t.role = "worker" /\ t.low < t.high /\ t.low \in Nat /\ t.high \in 0..n
      BY <1>11 DEF Body, TypeOK, NodeletRoles
    <3> QED
      BY <1>1, <3>1
  <2>4. written' \in [0..n-1 -> Nat]
    BY <1>1, <1>11, <2>3 DEF Body
  <2> QED
    BY <1>1, <1>2, <1>11, <2>1, <2>2, <2>4 DEF Body
<1>12. CASE Exit(t)
  <2> DEFINE new == {}
  <2>1. threads' = (threads \ {t}) \cup new /\ \A u \in new : Typed(u)
    BY <1>12 DEF Exit, Replace
  <2> HIDE DEF Typed, new
  <2> QED
    BY <1>1, <1>2, <1>12, <2>1 DEF Exit
<1> QED
  BY <1>4, <1>5, <1>6, <1>7, <1>8, <1>9, <1>10, <1>11, <1>12 DEF Step

\* If a thread is replaced by threads that share its indices out among
\* themselves, each index is still the business of one thread.
LEMMA Handover ==
    ASSUME EachIndexOnce, NEW t \in threads, NEW new,
           threads' = (threads \ {t}) \cup new, n' = n, written' = written,
           \A i \in 0..n-1 : Owns(t, i) <=> \E u \in new : Owns(u, i),
           \A i \in 0..n-1 : \A u, v \in new : Owns(u, i) /\ Owns(v, i) => u = v
    PROVE  EachIndexOnce'
<1> SUFFICES ASSUME NEW i \in 0..n-1
             PROVE  \/ /\ written[i] = 0
                       /\ \E u \in threads' : Owns(u, i)
                       /\ \A u, v \in threads' : Owns(u, i) /\ Owns(v, i) => u = v
                    \/ /\ written[i] = 1
                       /\ \A u \in threads' : ~Owns(u, i)
  BY DEF EachIndexOnce, Owns, First, End, LocalN
<1>1. CASE written[i] = 1 /\ \A u \in threads : ~Owns(u, i)
  BY <1>1
<1>2. CASE /\ written[i] = 0
           /\ \E u \in threads : Owns(u, i)
           /\ \A u, v \in threads : Owns(u, i) /\ Owns(v, i) => u = v
  BY <1>2
<1> QED
  BY <1>1, <1>2 DEF EachIndexOnce

\* Two threads that divide a range at mid share it out.
LEMMA Divide ==
    ASSUME NEW first \in Nat, NEW mid \in Nat, NEW end \in Nat,
           first <= mid,
           NEW t, First(t) = first, End(t) = end,
           NEW u, First(u) = first, End(u) = IF mid <= end THEN mid ELSE end,
           NEW v, First(v) = mid, End(v) = end
    PROVE  /\ \A i \in 0..n-1 : Owns(t, i) <=> \E x \in {u, v} : Owns(x, i)
           /\ \A i \in 0..n-1 : \A x, y \in {u, v} : Owns(x, i) /\ Owns(y, i) => x = y
  BY DEF Owns

\* If a thread is replaced by two that divide its range at mid, each index is
\* still the business of one thread.
LEMMA DivideStep ==
    ASSUME EachIndexOnce, NEW t \in threads, NEW u, NEW v, NEW mid \in Nat,
           First(t) \in Nat, End(t) \in Nat, First(t) <= mid,
           First(u) = First(t), End(u) = IF mid <= End(t) THEN mid ELSE End(t),
           First(v) = mid, End(v) = End(t),
           threads' = (threads \ {t}) \cup {u, v}, n' = n, written' = written
    PROVE  EachIndexOnce'
<1> DEFINE new == {u, v}
<1>1. /\ \A i \in 0..n-1 : Owns(t, i) <=> \E x \in new : Owns(x, i)
      /\ \A i \in 0..n-1 : \A x, y \in new : Owns(x, i) /\ Owns(y, i) => x = y
  BY Divide
<1>2. threads' = (threads \ {t}) \cup new
  OBVIOUS
<1> HIDE DEF new
<1> QED
  BY <1>1, <1>2, Handover

\* If a thread is replaced by one that has the same range, likewise.
LEMMA PassOn ==
    ASSUME EachIndexOnce, NEW t \in threads, NEW u, First(u) = First(t), End(u) = End(t),
           threads' = (threads \ {t}) \cup {u}, n' = n, written' = written
    PROVE  EachIndexOnce'
<1> DEFINE new == {u}
<1>1. /\ \A i \in 0..n-1 : Owns(t, i) <=> \E x \in new : Owns(x, i)
      /\ \A x, y \in new : x = y
  BY DEF Owns
<1>2. threads' = (threads \ {t}) \cup new
  OBVIOUS
<1> HIDE DEF new
<1> QED
  BY <1>1, <1>2, Handover

\* Each step keeps EachIndexOnce: a spawn divides a range in two or passes it on,
\* and a worker gives an index up in the step that writes it.
LEMMA OnceStep == ASSUME Inv, NEW t \in threads, Step(t) PROVE EachIndexOnce'
<1>0. /\ TypeOK /\ EachIndexOnce /\ Grain \in Nat /\ t.low \in Nat /\ t.high \in Nat
      /\ First(t) \in Nat /\ End(t) \in Nat /\ End(t) <= n /\ n \in Nat
  BY GrainNat, RangeIs, RangeSplitAssumption DEF Inv, TypeOK
<1>1. t.role \notin NodeletRoles => First(t) = t.low /\ End(t) = t.high
  BY <1>0, RangeIs
<1>2. t.role \in NodeletRoles =>
        /\ First(t) = t.low * LocalN /\ End(t) = t.high * LocalN
        /\ t.low <= t.high /\ t.high <= NumNodelets
  BY <1>0, RangeIs
<1>3. ASSUME NEW role, NEW low, NEW high
      PROVE  /\ role \notin NodeletRoles =>
                   First(Thread(role, low, high)) = low /\ End(Thread(role, low, high)) = high
             /\ role \in NodeletRoles =>
                   /\ First(Thread(role, low, high)) = low * LocalN
                   /\ End(Thread(role, low, high)) = high * LocalN
  BY DEF Thread, First, End
<1>4. CASE SpawnNodelet(t)
  <2> DEFINE u == OnNodelet("serial", t.low)
             v == Thread("serial_remote", t.low + 1, t.high)
             mid == (t.low + 1) * LocalN
  <2>1. /\ t.role \in NodeletRoles /\ t.low + 1 <= t.high /\ n' = n /\ written' = written
        /\ threads' = (threads \ {t}) \cup {u, v}
    BY <1>0, <1>4 DEF SpawnNodelet, Replace, NodeletRoles
  <2>2. /\ t.low * LocalN <= mid /\ mid <= t.high * LocalN /\ mid \in Nat
        /\ t.low * LocalN \in Nat
    <3>1. t.low + 1 \in Nat /\ t.low <= t.low + 1 /\ t.low + 1 <= NumNodelets
      BY <1>0, <1>2, <2>1, RangeSplitAssumption
    <3>2. t.low * LocalN <= mid /\ mid \in Nat /\ t.low * LocalN \in Nat
      BY <1>0, <3>1, ShareInside
    <3>3. mid <= t.high * LocalN
      BY <1>0, <1>2, <2>1, <3>1, ShareInside
    <3> QED
      BY <3>2, <3>3
  <2>3. First(u) = t.low * LocalN /\ End(u) = mid /\ First(v) = mid /\ End(v) = t.high * LocalN
    BY <1>3 DEF OnNodelet, NodeletRoles
  <2> HIDE DEF u, v, mid
  <2> QED
    BY <1>0, <1>2, <2>1, <2>2, <2>3, DivideStep
<1>5. CASE SplitNodelets(t)
  <2> DEFINE m == t.low + (t.high - t.low) \div 2
             u == Thread("recursive_remote", t.low, m)
             v == Thread("recursive_remote", m, t.high)
             mid == m * LocalN
  <2>1. /\ t.role \in NodeletRoles /\ n' = n /\ written' = written
        /\ threads' = (threads \ {t}) \cup {u, v}
    BY <1>5 DEF SplitNodelets, Replace, NodeletRoles
  <2>2. m \in Nat /\ t.low <= m /\ m <= t.high
    BY <1>0, <1>2, <2>1, MidInside
  <2> HIDE DEF m
  <2>3. t.low * LocalN <= mid /\ mid <= t.high * LocalN /\ mid \in Nat
    <3>1. m <= NumNodelets /\ NumNodelets \in Nat
      BY <1>0, <1>2, <2>1, <2>2, RangeSplitAssumption
    <3>2. t.low * LocalN <= mid /\ mid \in Nat
      BY <1>0, <2>2, <3>1, ShareInside
    <3>3. mid <= t.high * LocalN
      BY <1>0, <1>2, <2>1, <2>2, ShareInside
    <3> QED
      BY <3>2, <3>3
  <2>4. First(u) = t.low * LocalN /\ End(u) = mid /\ First(v) = mid /\ End(v) = t.high * LocalN
    BY <1>3 DEF NodeletRoles
  <2> HIDE DEF u, v, mid
  <2> QED
    BY <1>0, <1>2, <2>1, <2>3, <2>4, DivideStep
<1>6. CASE OneNodelet(t)
  <2> DEFINE u == OnNodelet("recursive", t.low)
  <2>1. /\ t.role \in NodeletRoles /\ t.high = t.low + 1 /\ n' = n /\ written' = written
        /\ threads' = (threads \ {t}) \cup {u}
    BY <1>0, <1>6 DEF OneNodelet, Replace, NodeletRoles
  <2>2. First(u) = First(t) /\ End(u) = End(t)
    BY <1>2, <1>3, <2>1 DEF OnNodelet, NodeletRoles
  <2> HIDE DEF u
  <2> QED
    BY <1>0, <2>1, <2>2, PassOn
<1>7. CASE SpawnHalf(t)
  <2> DEFINE mid == t.low + (t.high - t.low) \div 2
             u == Thread("recursive", t.low, mid)
             v == Thread("recursive", mid, t.high)
  <2>1. mid \in Nat /\ t.low <= mid /\ mid <= t.high
    BY <1>0, <1>7, MidInside DEF SpawnHalf
  <2>2. /\ t.role \notin NodeletRoles /\ n' = n /\ written' = written
        /\ threads' = (threads \ {t}) \cup {u, v}
    BY <1>7 DEF SpawnHalf, Replace, NodeletRoles
  <2> HIDE DEF mid
  <2>3. First(u) = t.low /\ End(u) = mid /\ First(v) = mid /\ End(v) = t.high
    BY <1>3 DEF NodeletRoles
  <2> HIDE DEF u, v
  <2> QED
    BY <1>0, <1>1, <2>1, <2>2, <2>3, DivideStep
<1>8. CASE BaseCase(t)
  <2> DEFINE u == Thread("worker", t.low, t.high)
  <2>1. /\ t.role \notin NodeletRoles /\ n' = n /\ written' = written
        /\ threads' = (threads \ {t}) \cup {u}
    BY <1>8 DEF BaseCase, Replace, NodeletRoles
  <2>2. First(u) = First(t) /\ End(u) = End(t)
    BY <1>1, <1>3, <2>1 DEF NodeletRoles
  <2> HIDE DEF u
  <2> QED
    BY <1>0, <2>1, <2>2, PassOn
<1>9. CASE SpawnChunk(t)
  <2> DEFINE end == IF t.low + Grain <= t.high THEN t.low + Grain ELSE t.high
             u == Thread("worker", t.low, end)
             v == Thread("serial", t.low + Grain, t.high)
  <2>1. /\ t.role \notin NodeletRoles /\ n' = n /\ written' = written
        /\ threads' = (threads \ {t}) \cup {u, v}
    BY <1>9 DEF SpawnChunk, Replace, NodeletRoles
  <2>2. First(u) = t.low /\ End(u) = end /\ First(v) = t.low + Grain /\ End(v) = t.high
    BY <1>3 DEF NodeletRoles
  <2> HIDE DEF u, v
  <2> QED
    BY <1>0, <1>1, <2>1, <2>2, DivideStep
<1>10. CASE SpawnChunkAt(t)
  <2> DEFINE stop == ((t.low \div LocalN) + 1) * LocalN
             end  == IF t.low + Grain <= stop THEN t.low + Grain ELSE stop
             u == Thread("worker", t.low, end)
             v == Thread("shallow", end, t.high)
  <2>1. end \in Nat /\ t.low <= end /\ end <= t.high
    BY <1>0, <1>10, ChunkAtInside
  <2>2. /\ t.role \notin NodeletRoles /\ n' = n /\ written' = written
        /\ threads' = (threads \ {t}) \cup {u, v}
    BY <1>10 DEF SpawnChunkAt, Replace, NodeletRoles
  <2> HIDE DEF stop, end
  <2>3. First(u) = t.low /\ End(u) = end /\ First(v) = end /\ End(v) = t.high
    BY <1>3 DEF NodeletRoles
  <2> HIDE DEF u, v
  <2> QED
    BY <1>0, <1>1, <2>1, <2>2, <2>3, DivideStep
<1>11. CASE Body(t)
  <2> DEFINE rest == Thread("worker", t.low + 1, t.high)
  <2>1. /\ threads' = (threads \ {t}) \cup {rest} /\ n' = n
        /\ written' = [written EXCEPT ![t.low] = @ + 1]
        /\ t.role \notin NodeletRoles /\ t.low < t.high
    BY <1>11 DEF Body, Replace, NodeletRoles
  <2>2. t.low \in 0..n-1 /\ Owns(t, t.low)
    BY <1>0, <1>1, <2>1 DEF Owns
  <2>3. First(rest) = t.low + 1 /\ End(rest) = t.high
    BY <1>3 DEF NodeletRoles
  <2> HIDE DEF rest
  <2>4. \A i \in 0..n-1 : Owns(rest, i) <=> Owns(t, i) /\ i # t.low
    BY <1>0, <1>1, <2>1, <2>3 DEF Owns
  <2>5. written \in [0..n-1 -> Nat]
    BY <1>0 DEF TypeOK
  <2>6. ASSUME NEW i \in 0..n-1, i # t.low
        PROVE  \/ /\ written'[i] = 0
                  /\ \E u \in threads' : Owns(u, i)
                  /\ \A u, v \in threads' : Owns(u, i) /\ Owns(v, i) => u = v
               \/ /\ written'[i] = 1
                  /\ \A u \in threads' : ~Owns(u, i)
    <3>1. written'[i] = written[i]
      BY <2>1, <2>2, <2>5, <2>6
    <3> QED
      BY <1>0, <2>1, <2>4, <2>6, <3>1 DEF EachIndexOnce
  <2>7. written'[t.low] = 1 /\ \A u \in threads' : ~Owns(u, t.low)
    <3>1. written[t.low] = 0 /\ \A u \in threads : Owns(u, t.low) => u = t
      BY <1>0, <2>2 DEF EachIndexOnce
    <3>2. written'[t.low] = 1
      BY <2>1, <2>2, <2>5, <3>1
    <3> QED
      BY <2>1, <2>2, <2>4, <3>1, <3>2
  <2>8. \A u, i : Owns(u, i)' <=> Owns(u, i)
    BY <2>1 DEF Owns, First, End, LocalN
  <2> QED
    BY <2>1, <2>2, <2>6, <2>7 DEF EachIndexOnce, Owns, First, End, LocalN
<1>12. CASE Exit(t)
  <2>1. /\ threads' = (threads \ {t}) \cup {} /\ n' = n /\ written' = written
        /\ t.low >= t.high
    BY <1>12 DEF Exit, Replace
  <2>2. End(t) <= First(t)
    BY <1>0, <1>1, <1>2, <2>1
  <2>3. \A i \in 0..n-1 : ~Owns(t, i)
    BY <1>0, <2>2 DEF Owns
  <2> QED
    BY <1>0, <2>1, <2>3, Handover
<1> QED
  BY <1>4, <1>5, <1>6, <1>7, <1>8, <1>9, <1>10, <1>11, <1>12 DEF Step

\* Every step of the loop keeps the invariant.
LEMMA InvStep == Inv /\ [Next]_vars => Inv'
<1> SUFFICES ASSUME Inv, [Next]_vars PROVE Inv'
  OBVIOUS
<1>1. ASSUME NEW t \in threads, Step(t) PROVE Inv'
  BY <1>1, TypeStep, OnceStep DEF Inv
<1>2. CASE UNCHANGED vars
  BY <1>2 DEF vars, Inv, TypeOK, EachIndexOnce, Owns, First, End, LocalN
<1> QED
  BY <1>1, <1>2 DEF Next, Synced

\* The invariant holds in every state of the loop.
THEOREM RangeSplitInvariant == Spec => []Inv
<1>1. Init => Inv
  BY InvInit
<1>2. Inv /\ [Next]_vars => Inv'
  BY InvStep
<1> QED
  BY <1>1, <1>2, PTL DEF Spec

\* Types: ranges stay inside the array, or the nodelets, and only a serial spawner
\* passes the end of its range.
THEOREM RangeSplitTypeCorrect == Spec => []TypeOK
<1>1. Inv => TypeOK
  BY DEF Inv
<1> QED
  BY <1>1, RangeSplitInvariant, PTL

\* No spawn mode loses an index or gives one to two threads, for every n, every
\* number of threads and every number of nodelets.
THEOREM RangeSplitEachIndexOnce == Spec => []EachIndexOnce
<1>1. Inv => EachIndexOnce
  BY DEF Inv
<1> QED
  BY <1>1, RangeSplitInvariant, PTL

-----------------------------------------------------------------------------
(* The refinement *)

Todo == {i \in 0..n-1 : written[i] = 0}

\* Steps that write nothing and leave a thread alive are invisible.
LEMMA Invisible ==
    ASSUME Inv, NEW t \in threads, n' = n, written' = written,
           threads' # {} \/ Todo # {}, Inv'
    PROVE  UNCHANGED Loop!vars
<1>1. CASE threads' # {}
  BY <1>1 DEF Loop!vars
<1>2. CASE Todo # {}
  <2>1. PICK i \in 0..n-1 : written'[i] = 0
    BY <1>2 DEF Todo
  <2>2. \E u \in threads' : Owns(u, i)
    BY <2>1 DEF Inv, EachIndexOnce, Owns, First, End, LocalN
  <2> QED
    BY <2>2 DEF Loop!vars
<1> QED
  BY <1>1, <1>2

\* Every step maps to a step of ForEach or to a stuttering step: Body runs the
\* loop body for one index, and the Exit of the last thread is the return.
LEMMA StepRefines == Inv /\ Inv' /\ [Next]_vars => [Loop!Next]_(Loop!vars)
<1> SUFFICES ASSUME Inv, Inv', [Next]_vars PROVE [Loop!Next]_(Loop!vars)
  OBVIOUS
<1>1. ASSUME NEW t \in threads,
             \/ SpawnNodelet(t) \/ SplitNodelets(t) \/ OneNodelet(t)
             \/ SpawnHalf(t) \/ BaseCase(t) \/ SpawnChunk(t) \/ SpawnChunkAt(t)
      PROVE  UNCHANGED Loop!vars
  <2>1. n' = n /\ written' = written /\ threads' # {}
    BY <1>1 DEF SpawnNodelet, SplitNodelets, OneNodelet, SpawnHalf, BaseCase, SpawnChunk,
                SpawnChunkAt, Replace
  <2> QED
    BY <2>1, Invisible
<1>2. ASSUME NEW t \in threads, Body(t) PROVE Loop!Body(t.low)
  <2>1. /\ n \in Nat /\ t.low \in 0..n-1 /\ Owns(t, t.low)
        /\ n' = n /\ threads # {} /\ threads' # {}
        /\ written' = [written EXCEPT ![t.low] = @ + 1]
        /\ written \in [0..n-1 -> Nat]
    BY <1>2, RangeSplitAssumption
       DEF Body, Replace, Inv, TypeOK, Owns, First, End, NodeletRoles
  <2>2. written[t.low] = 0 /\ written'[t.low] = 1
    BY <2>1 DEF Inv, EachIndexOnce
  <2>3. Todo' = Todo \ {t.low}
    BY <2>1, <2>2 DEF Todo
  <2> QED
    BY <2>1, <2>2, <2>3 DEF Loop!Body, Todo
<1>3. ASSUME NEW t \in threads, Exit(t) PROVE Loop!Return \/ UNCHANGED Loop!vars
  <2>1. n' = n /\ written' = written
    BY <1>3 DEF Exit
  <2>2. CASE threads' # {} \/ Todo # {}
    BY <2>1, <2>2, Invisible
  <2>3. CASE threads' = {} /\ Todo = {}
    <3>1. threads # {} /\ Todo' = {}
      BY <2>1, <2>3 DEF Todo
    <3> QED
      BY <2>1, <2>3, <3>1 DEF Loop!Return, Todo
  <2> QED
    BY <2>2, <2>3
<1>4. ASSUME UNCHANGED vars PROVE UNCHANGED Loop!vars
  BY <1>4 DEF vars, Loop!vars
<1> QED
  <2>1. ASSUME NEW t \in threads, Body(t) PROVE Loop!Next
    <3>1. Loop!Body(t.low) /\ t.low \in Todo
      BY <2>1, <1>2 DEF Loop!Body, Todo
    <3> QED
      BY <3>1 DEF Loop!Next, Todo
  <2>2. ASSUME NEW t \in threads, Exit(t) PROVE [Loop!Next]_(Loop!vars)
    BY <2>2, <1>3 DEF Loop!Next
  <2> QED
    BY <1>1, <1>4, <2>1, <2>2 DEF Next, Step, Synced

\* All spawn modes implement ForEach: the body runs once for each index, and
\* the loop does not return before the last one.
THEOREM RangeSplitImplementsForEach == Spec => ImplementsForEach
<1>1. Init => Loop!Init
  <2> SUFFICES ASSUME Init PROVE Loop!Init
    OBVIOUS
  <2>1. n \in Nat /\ threads # {} /\ \A i \in 0..n-1 : written[i] = 0
    BY RangeSplitAssumption DEF Init
  <2> QED
    BY <2>1 DEF Loop!Init
<1>2. Inv /\ Inv' /\ [Next]_vars => [Loop!Next]_(Loop!vars)
  BY StepRefines
<1> QED
  BY <1>1, <1>2, RangeSplitInvariant, PTL DEF Spec, ImplementsForEach, Loop!Spec

-----------------------------------------------------------------------------
(* Powers of two and other numbers *)

\* The order of the natural numbers, as a relation.
Below == {s \in Nat \X Nat : s[1] < s[2]}

\* Among natural numbers one is the smallest.
LEMMA LeastElement ==
    ASSUME NEW T, T \subseteq Nat, T # {}
    PROVE  \E x \in T : \A y \in T : x <= y
<1>1. IsWellFoundedOn(Below, Nat)
  BY NatLessThanWellFounded DEF OpToRel, Below
<1>2. PICK x \in T : \A y \in T : <<y, x>> \notin Below
  BY <1>1, WFMin
<1>3. ASSUME NEW y \in T, ~(x <= y) PROVE FALSE
  <2>1. x \in Nat /\ y \in Nat /\ y < x
    BY <1>3
  <2>2. <<y, x>> \in Below
    BY <2>1 DEF Below
  <2> QED
    BY <1>2, <2>2
<1> QED
  BY <1>3

\* A power of two has no odd divisor but 1.
PowerOfTwo(x) == \A d, e \in Nat : d * e = x => d = 1 \/ d % 2 = 0

\* An even number has a half.
LEMMA HalfOf ==
    ASSUME NEW d \in Nat, d % 2 = 0
    PROVE  d \div 2 \in Nat /\ d = 2 * (d \div 2)
OBVIOUS

\* A product is no smaller than its factors.
LEMMA FactorOf ==
    ASSUME NEW a \in Nat, NEW b \in Nat \ {0}
    PROVE  a <= a * b /\ a <= b * a
<1>1. PICK e \in Nat : b = e + 1
  <2>1. b - 1 \in Nat /\ b = (b - 1) + 1
    OBVIOUS
  <2> QED
    BY <2>1
<1>2. a * b = a * e + a /\ b * a = a * e + a /\ a * e \in Nat
  BY <1>1
<1> QED
  BY <1>2

\* Products of three factors, in the orders that are needed.
LEMMA ThreeFactors ==
    ASSUME NEW a \in Nat, NEW b \in Nat, NEW c \in Nat
    PROVE  /\ a * (b * c) = (a * b) * c /\ a * (b * c) = b * (a * c)
           /\ a * (b * c) = (b * a) * c /\ a * b = b * a
OBVIOUS

\* A set that has 1 and no number beyond b has a largest one.
LEMMA LargestElement ==
    ASSUME NEW b \in Nat, NEW T, \A x \in T : x \in Nat /\ x <= b, T # {}
    PROVE  \E x \in T : \A y \in T : y <= x
<1> DEFINE Gap == {b - x : x \in T}
<1>1. Gap \subseteq Nat /\ Gap # {}
  <2>1. \A x \in T : b - x \in Nat
    OBVIOUS
  <2> QED
    BY <2>1
<1>2. PICK g \in Gap : \A y \in Gap : g <= y
  BY <1>1, LeastElement
<1>3. PICK x \in T : g = b - x
  BY <1>2
<1>4. ASSUME NEW y \in T PROVE y <= x
  <2>1. b - x <= b - y
    BY <1>2, <1>3
  <2> QED
    BY <2>1
<1> QED
  BY <1>3, <1>4

\* Between half of g and g a power of two, which is no smaller, has a divisor.
LEMMA HalvesReach ==
    ASSUME NEW s \in Nat \ {0}, PowerOfTwo(s), NEW g \in Nat \ {0}, g <= s
    PROVE  \E h \in Nat \ {0}, q \in Nat \ {0} : s = q * h /\ h <= g /\ g < 2 * h
<1> DEFINE T == {h \in 1..g : \E q \in Nat : s = q * h}
<1>1. 1 \in T
  <2>1. s = s * 1 /\ 1 \in 1..g
    OBVIOUS
  <2> QED
    BY <2>1
<1>2. PICK h \in T : \A y \in T : y <= h
  <2>1. \A x \in T : x \in Nat /\ x <= g
    OBVIOUS
  <2> HIDE DEF T
  <2> QED
    BY <1>1, <2>1, LargestElement
<1>3. PICK q \in Nat : s = q * h
  BY <1>2
<1>4. h \in Nat \ {0} /\ h <= g
  BY <1>2
<1>5. q # 0
  BY <1>3, <1>4
<1>6. ASSUME g >= 2 * h PROVE FALSE
  <2>1. q # 1
    BY <1>3, <1>4, <1>6
  <2>2. q % 2 = 0
    BY <1>3, <1>4, <2>1 DEF PowerOfTwo
  <2>3. PICK e \in Nat : q = 2 * e
    BY <2>2, HalfOf
  <2>4. s = e * (2 * h)
    BY <1>3, <1>4, <2>3
  <2>5. 2 * h \in 1..g
    BY <1>4, <1>6
  <2>6. 2 * h \in T
    BY <2>4, <2>5
  <2> HIDE DEF T
  <2>7. 2 * h <= h
    BY <1>2, <2>6
  <2> QED
    BY <1>4, <2>7
<1> QED
  BY <1>3, <1>4, <1>5, <1>6

Divides(a, s) == \E x \in Nat : s = x * a

\* Of two divisors of a power of two the smaller one divides the larger one.
LEMMA DivisorsDivide ==
    ASSUME NEW s \in Nat \ {0}, PowerOfTwo(s),
           NEW a \in Nat, Divides(a, s), NEW b \in Nat, Divides(b, s), a <= b
    PROVE  \E m \in Nat \ {0} : b = m * a
<1>0. PICK x \in Nat, y \in Nat : s = x * a /\ s = y * b
  BY DEF Divides
<1>1. a # 0 /\ b # 0 /\ x # 0 /\ y # 0
  BY <1>0
<1> DEFINE T == {h \in 1..a : \E u, v \in Nat : a = u * h /\ b = v * h}
<1>2. 1 \in T
  <2>1. a = a * 1 /\ b = b * 1 /\ 1 \in 1..a
    BY <1>1
  <2> QED
    BY <2>1
<1>3. PICK h \in T : \A z \in T : z <= h
  <2>1. \A z \in T : z \in Nat /\ z <= a
    OBVIOUS
  <2> HIDE DEF T
  <2> QED
    BY <1>2, <2>1, LargestElement
<1>4. PICK u \in Nat, v \in Nat : a = u * h /\ b = v * h
  BY <1>3
<1>5. h \in Nat \ {0} /\ h <= a
  BY <1>3
<1>6. u # 0 /\ v # 0
  BY <1>1, <1>4, <1>5
<1>7. (u = 1 \/ u % 2 = 0) /\ (v = 1 \/ v % 2 = 0)
  <2>1. u * (x * h) = s /\ v * (y * h) = s
    BY <1>0, <1>4, <1>5, ThreeFactors
  <2>2. x * h \in Nat /\ y * h \in Nat
    BY <1>5
  <2> QED
    BY <2>1, <2>2 DEF PowerOfTwo
<1>8. CASE u = 1
  <2>1. a = h
    BY <1>4, <1>5, <1>8
  <2> QED
    BY <1>4, <1>6, <2>1
<1>9. CASE v = 1
  <2>1. b = h
    BY <1>4, <1>5, <1>9
  <2>2. b = 1 * a
    BY <1>5, <2>1
  <2> QED
    BY <2>2
<1>10. CASE u % 2 = 0 /\ v % 2 = 0
  <2>1. PICK e \in Nat, f \in Nat : u = 2 * e /\ v = 2 * f
    BY <1>10, HalfOf
  <2>2. a = e * (2 * h) /\ b = f * (2 * h)
    BY <1>4, <1>5, <2>1
  <2>3. e # 0
    BY <1>6, <2>1
  <2>4. 2 * h <= a
    BY <1>5, <2>2, <2>3, FactorOf
  <2>5. 2 * h \in T
    BY <1>5, <2>2, <2>4
  <2> HIDE DEF T
  <2>6. 2 * h <= h
    BY <1>3, <2>5
  <2> QED
    BY <1>5, <2>6
<1> QED
  BY <1>7, <1>8, <1>9, <1>10

\* A common factor can be left out of a comparison.
LEMMA Cancel ==
    ASSUME NEW a \in Nat, NEW b \in Nat, NEW c \in Nat \ {0}
    PROVE  /\ a * c < b * c => a < b
           /\ a * c <= b * c => a <= b
           /\ a * c = b * c => a = b
<1>1. a >= b => a * c >= b * c
  BY TimesMonotone
<1>2. a > b => a * c > b * c
  <2>1. a >= b + 1 => a * c >= (b + 1) * c /\ (b + 1) * c = b * c + c
    BY TimesMonotone
  <2> QED
    BY <2>1
<1>3. b > a => b * c > a * c
  <2>1. b >= a + 1 => b * c >= (a + 1) * c /\ (a + 1) * c = a * c + c
    BY TimesMonotone
  <2> QED
    BY <2>1
<1>4. a * c \in Nat /\ b * c \in Nat
  OBVIOUS
<1> QED
  BY <1>1, <1>2, <1>3, <1>4

-----------------------------------------------------------------------------
(* How many chunks there are *)

\* As many threads as asked for if they divide n, and otherwise more, but less than
\* twice as many.
Planned(count) ==
    IF n % num_threads = 0 THEN count = num_threads
                           ELSE num_threads < count /\ count < 2 * num_threads

\* What division makes of n, if there are no more threads than elements.
LEMMA GrainIs ==
    ASSUME TypeOK, Grain # 0
    PROVE  /\ n \in Nat \ {0} /\ num_threads \in Nat \ {0} /\ Grain \in Nat \ {0}
           /\ n < (Grain + 1) * num_threads
           /\ n % num_threads = 0 => n = Grain * num_threads
           /\ n % num_threads # 0 => Grain * num_threads < n
           /\ Grain <= n
<1>1. n \in Nat \ {0} /\ num_threads \in Nat \ {0}
  BY RangeSplitAssumption DEF TypeOK
<1>2. PICK g \in Nat \ {0} : g = Grain /\ g = n \div num_threads
  BY <1>1, GrainNat DEF Grain
<1>3. PICK t \in Nat \ {0} : t = num_threads
  BY <1>1
<1>4. PICK r \in Nat : r = n % t /\ r < t /\ n = t * g + r
  BY <1>1, <1>2, <1>3
<1>5. t * g = g * t /\ (g + 1) * t = g * t + t /\ g <= g * t /\ g * t \in Nat
  BY FactorOf
<1> QED
  BY <1>1, <1>2, <1>3, <1>4, <1>5

\* More chunks than threads, of no more than n / num_threads elements each.
LEMMA MoreChunks ==
    ASSUME NEW s \in Nat, NEW g \in Nat \ {0}, NEW t \in Nat \ {0}, g * t < s,
           NEW count \in Nat, NEW h \in Nat \ {0}, h <= g, s <= count * h
    PROVE  t < count
<1>1. h * t <= g * t /\ h * t \in Nat /\ g * t \in Nat
  BY TimesMonotone
<1>2. t * h = h * t /\ count * h \in Nat
  OBVIOUS
<1>3. t * h < count * h
  BY <1>1, <1>2
<1> QED
  BY <1>3, Cancel

\* There are enough chunks of g elements for p elements, and none too many.
LEMMA RoundedUp ==
    ASSUME NEW p \in Nat \ {0}, NEW g \in Nat \ {0}
    PROVE  \E c \in Nat \ {0} : (c - 1) * g < p /\ p <= c * g
<1>1. PICK q \in Nat, r \in Nat : p = q * g + r /\ r < g
  <2>1. PICK q \in Nat : q = p \div g /\ q * g <= p /\ p < q * g + g
    BY Quotient
  <2>2. q * g \in Nat
    OBVIOUS
  <2>3. p - q * g \in Nat /\ p = q * g + (p - q * g) /\ p - q * g < g
    BY <2>1, <2>2
  <2> QED
    BY <2>3
<1>2. CASE r = 0
  <2>1. q # 0
    BY <1>1, <1>2
  <2>2. q - 1 \in Nat /\ q * g = (q - 1) * g + g
    BY <2>1
  <2> QED
    BY <1>1, <1>2, <2>1, <2>2
<1>3. CASE r # 0
  <2>1. PICK c \in Nat \ {0} : c = q + 1
    OBVIOUS
  <2>2. c - 1 = q /\ c * g = q * g + g /\ q * g \in Nat
    BY <2>1
  <2>3. (c - 1) * g < p /\ p <= c * g
    BY <1>1, <1>3, <2>2
  <2> QED
    BY <2>3
<1> QED
  BY <1>2, <1>3

\* Chunks of g elements in shares of p elements.
LEMMA ChunksPlanned ==
    ASSUME TypeOK, Grain # 0, PowerOfTwo(n),
           NEW m \in Nat \ {0}, NEW p \in Nat \ {0}, n = m * p, Grain <= p,
           NEW c \in Nat \ {0}, (c - 1) * Grain < p, p <= c * Grain
    PROVE  Planned(m * c)
<1>1. PICK s \in Nat \ {0}, t \in Nat \ {0}, g \in Nat \ {0} :
         /\ s = n /\ t = num_threads /\ g = Grain
         /\ s < (g + 1) * t
         /\ s % t = 0 => s = g * t
         /\ s % t # 0 => g * t < s
  BY GrainIs
<1>2. s = m * p /\ (c - 1) * g < p /\ p <= c * g /\ g <= p /\ PowerOfTwo(s)
  BY <1>1
<1>3. CASE s % t = 0
  <2>1. s = g * t /\ s = t * g
    BY <1>1, <1>3
  <2>2. PICK e \in Nat \ {0} : p = e * g
    <3>1. Divides(g, s) /\ Divides(p, s)
      BY <1>2, <2>1 DEF Divides
    <3>2. g <= p /\ PowerOfTwo(s)
      BY <1>2
    <3> QED
      BY <3>1, <3>2, DivisorsDivide
  <2>3. e <= c /\ c - 1 < e
    BY <1>2, <2>2, Cancel
  <2>4. e = c
    BY <2>3
  <2>5. (m * c) * g = t * g
    BY <1>2, <2>1, <2>2, <2>4, ThreeFactors
  <2>6. m * c = t
    <3>1. m * c \in Nat
      OBVIOUS
    <3> QED
      BY <2>5, <3>1, Cancel
  <2> QED
    BY <1>1, <1>3, <2>6 DEF Planned
<1>4. CASE s % t # 0
  <2>1. t < m * c
    <3>1. s <= m * (c * g) /\ m * (c * g) = (m * c) * g /\ m * c \in Nat
      <4>1. c * g \in Nat /\ p * m <= (c * g) * m
        BY <1>2, TimesMonotone
      <4>2. p * m = m * p /\ (c * g) * m = m * (c * g)
        OBVIOUS
      <4> QED
        BY <1>2, <4>1, <4>2, ThreeFactors
    <3> QED
      BY <1>1, <1>4, <3>1, MoreChunks
  <2>2. c * (g + 1) <= 2 * p
    <3>1. PICK e \in Nat : c = e + 1 /\ c - 1 = e
      <4>1. c - 1 \in Nat /\ c = (c - 1) + 1
        OBVIOUS
      <4> QED
        BY <4>1
    <3>2. c * (g + 1) = e * g + e + g + 1 /\ e * g \in Nat
      BY <3>1
    <3>3. e * g + 1 <= p
      BY <1>2, <3>1, <3>2
    <3>4. e # 0 => e + g <= e * g + 1
      <4>1. PICK f \in Nat : g = f + 1
        <5>1. g - 1 \in Nat /\ g = (g - 1) + 1
          OBVIOUS
        <5> QED
          BY <5>1
      <4>2. e * g = e * f + e
        BY <4>1
      <4>3. e # 0 => f <= e * f
        BY FactorOf
      <4> QED
        BY <4>1, <4>2, <4>3
    <3> QED
      BY <1>2, <3>1, <3>2, <3>3, <3>4
  <2>3. (m * c) * (g + 1) <= 2 * s
    <3>1. (c * (g + 1)) * m <= (2 * p) * m
      BY <2>2, TimesMonotone
    <3>2. (c * (g + 1)) * m = (m * c) * (g + 1)
      OBVIOUS
    <3>3. (2 * p) * m = 2 * (m * p)
      OBVIOUS
    <3> QED
      BY <1>2, <3>1, <3>2, <3>3
  <2>4. (m * c) * (g + 1) < (2 * t) * (g + 1)
    <3>1. (2 * t) * (g + 1) = 2 * ((g + 1) * t)
      OBVIOUS
    <3>2. (g + 1) * t \in Nat /\ (m * c) * (g + 1) \in Nat
      OBVIOUS
    <3> QED
      BY <1>1, <2>3, <3>1, <3>2
  <2>5. m * c < 2 * t
    <3>1. m * c \in Nat /\ 2 * t \in Nat /\ g + 1 \in Nat \ {0}
      OBVIOUS
    <3> QED
      BY <2>4, <3>1, Cancel
  <2> QED
    BY <1>1, <1>4, <2>1, <2>5 DEF Planned
<1> QED
  BY <1>3, <1>4

\* Parts that are more than half a grain, and no more than one.
LEMMA HalvesPlanned ==
    ASSUME TypeOK, Grain # 0, PowerOfTwo(n),
           NEW c \in Nat \ {0}, NEW h \in Nat \ {0}, n = c * h, h <= Grain, Grain < 2 * h
    PROVE  Planned(c)
<1>1. PICK s \in Nat \ {0}, t \in Nat \ {0}, g \in Nat \ {0} :
         /\ s = n /\ t = num_threads /\ g = Grain
         /\ s < (g + 1) * t
         /\ s % t = 0 => s = g * t
         /\ s % t # 0 => g * t < s
  BY GrainIs
<1>2. s = c * h /\ h <= g /\ g < 2 * h /\ PowerOfTwo(s)
  BY <1>1
<1>3. CASE s % t = 0
  <2>1. s = g * t /\ s = t * g
    BY <1>1, <1>3
  <2>2. PICK e \in Nat \ {0} : g = e * h
    <3>1. Divides(h, s) /\ Divides(g, s)
      BY <1>2, <2>1 DEF Divides
    <3>2. h <= g /\ PowerOfTwo(s)
      BY <1>2
    <3> QED
      BY <3>1, <3>2, DivisorsDivide
  <2>3. e < 2
    BY <1>2, <2>2, Cancel
  <2>4. g = h
    BY <2>2, <2>3
  <2> QED
    BY <1>1, <1>2, <1>3, <2>1, <2>4, Cancel DEF Planned
<1>4. CASE s % t # 0
  <2>1. t < c
    BY <1>1, <1>2, <1>4, MoreChunks
  <2>2. c < 2 * t
    <3>1. (g + 1) * t <= (2 * h) * t
      BY <1>2, TimesMonotone
    <3>2. (2 * h) * t = (2 * t) * h
      OBVIOUS
    <3>3. (g + 1) * t \in Nat /\ c * h \in Nat /\ (2 * t) * h \in Nat
      OBVIOUS
    <3>4. c * h < (2 * t) * h
      BY <1>1, <1>2, <3>1, <3>2, <3>3
    <3> QED
      BY <3>4, Cancel
  <2> QED
    BY <1>1, <1>4, <2>1, <2>2 DEF Planned
<1> QED
  BY <1>3, <1>4

-----------------------------------------------------------------------------
(* The workers of the whole tree of spawns *)

\* Chunks of g elements, the last one of which may be shorter, make up p elements.
Chunked(p, c, g) == (c - 1) * g < p /\ p <= c * g

\* Where chunk j of share k begins.
ChunkStart(k, j, p, g) == k * p + j * g

\* The indices that a chunk begins at, if each of m shares of p elements is divided
\* into c chunks of g elements.
Heads(m, p, c, g) == {ChunkStart(k, j, p, g) : k \in 0..m-1, j \in 0..c-1}

\* An index of a thread that spawns.
SpawnsLater(t, i) == t.role # "worker" /\ Owns(t, i)

\* Those indices of a set that no worker has been started for.
Unspawned(H) == {i \in H : \E t \in threads : SpawnsLater(t, i)}

\* The plan of chunks, and how far it has been carried out.
Counted(m, p, c, g) ==
    /\ n = m * p /\ Chunked(p, c, g)
    /\ Planned(m * c)
    /\ workers + Cardinality(Unspawned(Heads(m, p, c, g))) = m * c

\* A number of chunks that divides n.
SomeChunks(low, high, g) ==
    \E i, q, r \in Nat : low = i * g /\ high = low + q * g /\ r * (q * g) = n

\* The range of a recursive spawner.
InHalves(t, g) ==
    \/ t.role = "worker"
    \/ t.role = "recursive_remote" /\ Divides(g, LocalN)
    \/ t.role = "recursive" /\ SomeChunks(t.low, t.high, g)

\* The beginning of a chunk.
AtChunk(low, p, g) == \E k, j \in Nat : low = k * p + j * g /\ j * g < p

\* The range of a serial or a shallow spawner begins with a chunk, unless there is
\* nothing left.
InChunks(t, m, p, g) ==
    \/ t.role = "worker"
    \/ t.role = "serial_remote" /\ m = NumNodelets /\ p = LocalN
    \/ /\ t.role = "serial"
       /\ \E k \in 0..m-1, j \in Nat : t.low = k * p + j * g /\ t.high = (k + 1) * p
    \/ /\ t.role = "shallow" /\ m = NumNodelets /\ p = LocalN
       /\ t.low = n \/ AtChunk(t.low, p, g)

\* No thread ever works if the grain is 0.
NoGrain ==
    /\ Grain = 0
    /\ \A t \in threads : t.role = "worker" => t.high <= t.low
    /\ \A i \in 0..n-1 : written[i] = 0

\* The recursive spawners stop at the largest power of two up to the grain, the
\* others start a worker for each grain.
CountInv ==
    \/ NoGrain
    \/ \E m, p, c, g \in Nat \ {0} :
          /\ Counted(m, p, c, g)
          /\ \/ /\ m = 1 /\ n = c * g /\ g <= Grain /\ Grain < 2 * g
                /\ \A t \in threads : InHalves(t, g)
             \/ /\ g = Grain
                /\ \A t \in threads : InChunks(t, m, p, g)

\* Two chunks of which one begins inside the other are the same one.
LEMMA SameChunk ==
    ASSUME NEW p \in Nat \ {0}, NEW g \in Nat \ {0},
           NEW k \in Nat, NEW j \in Nat, NEW l \in Nat, NEW i \in Nat,
           j * g < p, i * g < p,
           k * p + j * g <= l * p + i * g,
           l * p + i * g < k * p + j * g + g,
           l * p + i * g < (k + 1) * p
    PROVE  l = k /\ i = j
<1>1. PICK jg \in Nat, ig \in Nat, kp \in Nat, lp \in Nat :
         jg = j * g /\ ig = i * g /\ kp = k * p /\ lp = l * p
  OBVIOUS
<1>2. jg < p /\ ig < p /\ kp + jg <= lp + ig /\ lp + ig < kp + jg + g
  BY <1>1
<1>3. (k + 1) * p = kp + p /\ (l + 1) * p = lp + p
  BY <1>1, TimesMonotone
<1>4. lp + ig < kp + p
  BY <1>1, <1>3
<1>5. ASSUME k + 1 <= l PROVE FALSE
  <2>1. (k + 1) * p <= l * p
    BY <1>5, TimesMonotone
  <2> QED
    BY <1>1, <1>3, <1>4, <2>1
<1>6. ASSUME l + 1 <= k PROVE FALSE
  <2>1. (l + 1) * p <= k * p
    BY <1>6, TimesMonotone
  <2> QED
    BY <1>1, <1>2, <1>3, <2>1
<1>7. l = k
  BY <1>5, <1>6
<1>8. jg <= ig /\ ig < jg + g
  BY <1>1, <1>2, <1>7
<1>9. (j + 1) * g = jg + g
  BY <1>1, TimesMonotone
<1>10. j * g <= i * g /\ i * g < (j + 1) * g
  BY <1>1, <1>8, <1>9
<1>11. j <= i /\ i < j + 1
  BY <1>10, Cancel
<1> QED
  BY <1>7, <1>11

\* The number of a chunk in its share.
LEMMA ChunkNumber ==
    ASSUME NEW p \in Nat \ {0}, NEW c \in Nat \ {0}, NEW g \in Nat \ {0},
           Chunked(p, c, g), NEW j \in Nat
    PROVE  j * g \in Nat /\ (j * g < p <=> j \in 0..c-1)
<1>1. PICK e \in Nat : e = c - 1
  OBVIOUS
<1>2. j * g \in Nat /\ e * g \in Nat /\ c * g \in Nat
  OBVIOUS
<1>3. e * g < p /\ p <= c * g
  BY <1>1 DEF Chunked
<1>4. j <= e => j * g <= e * g
  BY TimesMonotone
<1>5. j * g < c * g => j < c
  BY Cancel
<1> QED
  BY <1>1, <1>2, <1>3, <1>4, <1>5

\* There are m * c chunks, which begin at different indices.
LEMMA HeadsCount ==
    ASSUME NEW m \in Nat \ {0}, NEW p \in Nat \ {0}, NEW c \in Nat \ {0}, NEW g \in Nat \ {0},
           Chunked(p, c, g)
    PROVE  /\ IsFiniteSet(Heads(m, p, c, g))
           /\ Cardinality(Heads(m, p, c, g)) = m * c
           /\ Heads(m, p, c, g) \subseteq 0..(m * p)-1
<1> DEFINE Slots == (0..m-1) \X (0..c-1)
           H == Heads(m, p, c, g)
           head == [s \in Slots |-> s[1] * p + s[2] * g]
<1>1. IsFiniteSet(Slots) /\ Cardinality(Slots) = m * c
  <2>1. IsFiniteSet(0..m-1) /\ Cardinality(0..m-1) = m
    BY FS_Interval
  <2>2. IsFiniteSet(0..c-1) /\ Cardinality(0..c-1) = c
    BY FS_Interval
  <2> QED
    BY <2>1, <2>2, FS_Product
<1>2. ASSUME NEW k \in 0..m-1, NEW j \in 0..c-1
      PROVE  k * p + j * g \in H /\ j * g < p /\ j * g \in Nat /\ k * p \in Nat
  <2>1. j * g < p /\ j * g \in Nat /\ k * p \in Nat
    BY ChunkNumber
  <2>2. k * p + j * g \in H
    BY DEF Heads, ChunkStart
  <2> QED
    BY <2>1, <2>2
<1>3. ASSUME NEW s \in Slots, NEW u \in Slots, s[1] * p + s[2] * g = u[1] * p + u[2] * g
      PROVE  s = u
  <2>1. PICK k \in 0..m-1, j \in 0..c-1 : s = <<k, j>>
    OBVIOUS
  <2>2. PICK l \in 0..m-1, i \in 0..c-1 : u = <<l, i>>
    OBVIOUS
  <2>3. k * p + j * g = l * p + i * g
    BY <1>3, <2>1, <2>2
  <2>4. j * g < p /\ i * g < p /\ j * g \in Nat /\ i * g \in Nat /\ k * p \in Nat /\ l * p \in Nat
    BY <1>2
  <2>5. (k + 1) * p = k * p + p
    BY TimesMonotone
  <2>6. k * p + j * g <= l * p + i * g /\ l * p + i * g < k * p + j * g + g
        /\ l * p + i * g < (k + 1) * p
    BY <2>3, <2>4, <2>5
  <2>7. l \in Nat /\ i \in Nat /\ k \in Nat /\ j \in Nat
    OBVIOUS
  <2>8. l = k /\ i = j
    BY <2>4, <2>6, <2>7, SameChunk
  <2> QED
    BY <2>1, <2>2, <2>8
<1>4. head \in Bijection(Slots, H)
  <2>1. \A s \in Slots : head[s] \in H
    BY <1>2
  <2>2. ASSUME NEW x \in H PROVE \E s \in Slots : head[s] = x
    <3>1. PICK k \in 0..m-1, j \in 0..c-1 : x = k * p + j * g
      BY DEF Heads, ChunkStart
    <3>2. <<k, j>> \in Slots /\ head[<<k, j>>] = x
      BY <3>1
    <3> QED
      BY <3>2
  <2>3. \A s, u \in Slots : head[s] = head[u] => s = u
    BY <1>3
  <2>4. head \in [Slots -> H]
    BY <2>1
  <2> HIDE DEF head, H, Slots
  <2> QED
    BY <2>2, <2>3, <2>4 DEF Bijection, Injection, Surjection, IsInjective
<1>5. IsFiniteSet(H) /\ Cardinality(H) = m * c
  <2> HIDE DEF head, H, Slots
  <2> QED
    BY <1>1, <1>4, FS_Bijection DEF ExistsBijection
<1>6. ASSUME NEW x \in H PROVE x \in 0..(m * p)-1
  <2>1. PICK k \in 0..m-1, j \in 0..c-1 : x = k * p + j * g
    BY DEF Heads, ChunkStart
  <2>2. j * g < p /\ j * g \in Nat /\ k * p \in Nat
    BY <1>2
  <2>3. (k + 1) * p = k * p + p /\ (k + 1) * p <= m * p /\ m * p \in Nat
    BY TimesMonotone
  <2> QED
    BY <2>1, <2>2, <2>3
<1> QED
  BY <1>5, <1>6

\* No other chunk begins in one that is cut off at the end of its share.
LEMMA OneHead ==
    ASSUME NEW m \in Nat \ {0}, NEW p \in Nat \ {0}, NEW c \in Nat \ {0}, NEW g \in Nat \ {0},
           Chunked(p, c, g),
           NEW k \in 0..m-1, NEW j \in Nat, j * g < p,
           NEW end \in Nat, end <= k * p + j * g + g, end <= (k + 1) * p
    PROVE  /\ k * p + j * g \in Heads(m, p, c, g)
           /\ \A x \in Heads(m, p, c, g) :
                 k * p + j * g <= x /\ x < end => x = k * p + j * g
<1>1. k * p + j * g \in Heads(m, p, c, g)
  <2>1. j \in 0..c-1
    BY ChunkNumber
  <2> QED
    BY <2>1 DEF Heads, ChunkStart
<1>2. ASSUME NEW x \in Heads(m, p, c, g), k * p + j * g <= x, x < end
      PROVE  x = k * p + j * g
  <2>0. PICK l \in 0..m-1, i \in 0..c-1 : x = ChunkStart(l, i, p, g)
    BY DEF Heads
  <2>1. x = l * p + i * g /\ i * g < p
    BY <2>0, ChunkNumber DEF ChunkStart
  <2>2. l * p \in Nat /\ i * g \in Nat /\ k * p \in Nat /\ j * g \in Nat /\ (k + 1) * p \in Nat
    OBVIOUS
  <2>3. /\ k * p + j * g <= l * p + i * g
        /\ l * p + i * g < k * p + j * g + g
        /\ l * p + i * g < (k + 1) * p
    BY <1>2, <2>1, <2>2
  <2>4. l \in Nat /\ i \in Nat /\ k \in Nat
    OBVIOUS
  <2>5. l = k /\ i = j
    BY <2>1, <2>3, <2>4, SameChunk
  <2> QED
    BY <2>1, <2>5
<1> QED
  BY <1>1, <1>2

\* A step that leaves the spawners with the same indices starts no worker.
LEMMA CountedKept ==
    ASSUME NEW m \in Nat \ {0}, NEW p \in Nat \ {0}, NEW c \in Nat \ {0}, NEW g \in Nat \ {0},
           Counted(m, p, c, g), NEW t \in threads, NEW new,
           threads' = (threads \ {t}) \cup new, UNCHANGED <<n, num_threads, workers>>,
           \A i \in 0..n-1 : SpawnsLater(t, i) <=> \E u \in new : SpawnsLater(u, i)
    PROVE  Counted(m, p, c, g)'
<1> DEFINE H == Heads(m, p, c, g)
<1>1. \A u, i : SpawnsLater(u, i)' <=> SpawnsLater(u, i)
  BY DEF SpawnsLater, Owns, First, End, LocalN
<1>2. H \subseteq 0..n-1
  BY HeadsCount DEF Counted
<1> HIDE DEF H
<1>3. Unspawned(H)' = Unspawned(H)
  <2>1. Unspawned(H)' = {i \in H : \E u \in threads' : SpawnsLater(u, i)}
    BY <1>1 DEF Unspawned
  <2>2. ASSUME NEW i \in H
        PROVE  (\E u \in threads' : SpawnsLater(u, i)) <=> (\E u \in threads : SpawnsLater(u, i))
    <3>1. SpawnsLater(t, i) <=> \E u \in new : SpawnsLater(u, i)
      BY <1>2
    <3> QED
      BY <3>1
  <2> QED
    BY <2>1, <2>2 DEF Unspawned
<1> QED
  BY <1>3 DEF Counted, H, Planned

\* A step that takes the index of one chunk from a spawner, and no other one that a
\* chunk begins at, starts one worker.
LEMMA CountedOne ==
    ASSUME NEW m \in Nat \ {0}, NEW p \in Nat \ {0}, NEW c \in Nat \ {0}, NEW g \in Nat \ {0},
           Counted(m, p, c, g), EachIndexOnce, workers \in Nat,
           NEW t \in threads, NEW new, NEW x \in Heads(m, p, c, g),
           threads' = (threads \ {t}) \cup new, UNCHANGED <<n, num_threads>>,
           workers' = workers + 1,
           SpawnsLater(t, x),
           \A i \in Heads(m, p, c, g) :
              (\E u \in new : SpawnsLater(u, i)) <=> SpawnsLater(t, i) /\ i # x
    PROVE  Counted(m, p, c, g)'
<1> DEFINE H == Heads(m, p, c, g)
<1>1. \A u, i : SpawnsLater(u, i)' <=> SpawnsLater(u, i)
  BY DEF SpawnsLater, Owns, First, End, LocalN
<1>2. H \subseteq 0..n-1 /\ IsFiniteSet(H)
  BY HeadsCount DEF Counted
<1>3. x \in H /\ \A i \in H : (\E u \in new : SpawnsLater(u, i)) <=> SpawnsLater(t, i) /\ i # x
  OBVIOUS
<1> HIDE DEF H
<1>4. \A u \in threads : SpawnsLater(u, x) => u = t
  <2>1. x \in 0..n-1 /\ Owns(t, x)
    BY <1>2, <1>3 DEF SpawnsLater
  <2>2. \A u, v \in threads : Owns(u, x) /\ Owns(v, x) => u = v
    BY <2>1 DEF EachIndexOnce
  <2> QED
    BY <2>1, <2>2 DEF SpawnsLater
<1>5. Unspawned(H)' = Unspawned(H) \ {x} /\ x \in Unspawned(H)
  <2>1. Unspawned(H)' = {i \in H : \E u \in threads' : SpawnsLater(u, i)}
    BY <1>1 DEF Unspawned
  <2>2. ASSUME NEW i \in H
        PROVE  (\E u \in threads' : SpawnsLater(u, i))
                   <=> (\E u \in threads : SpawnsLater(u, i)) /\ i # x
    <3>1. (\E u \in new : SpawnsLater(u, i)) <=> SpawnsLater(t, i) /\ i # x
      BY <1>3
    <3>2. CASE i = x
      BY <1>4, <3>1, <3>2
    <3>3. CASE i # x
      BY <3>1, <3>3
    <3> QED
      BY <3>2, <3>3
  <2> QED
    BY <1>3, <2>1, <2>2 DEF Unspawned
<1>6. IsFiniteSet(Unspawned(H))
  <2>1. Unspawned(H) \subseteq H
    BY DEF Unspawned
  <2> QED
    BY <1>2, <2>1, FS_Subset
<1>7. /\ Cardinality(Unspawned(H)) \in Nat
      /\ Cardinality(Unspawned(H)') = Cardinality(Unspawned(H)) - 1
  BY <1>5, <1>6, FS_RemoveElement, FS_CardinalityType
<1>8. workers' + Cardinality(Unspawned(H)') = m * c
  <2>1. workers + Cardinality(Unspawned(H)) = m * c
    BY DEF Counted, H
  <2> QED
    BY <1>7, <2>1
<1>9. Cardinality(Unspawned(H)') = Cardinality(Unspawned(H))'
  OBVIOUS
<1> QED
  BY <1>8, <1>9 DEF Counted, H, Planned

\* When the last thread has ended, all chunks have been worked on.
LEMMA CountEnd == Inv /\ CountInv => WorkerCount
<1> SUFFICES ASSUME Inv, CountInv, threads = {}
             PROVE  IF n % num_threads = 0
                    THEN workers = num_threads
                    ELSE num_threads < workers /\ workers < 2 * num_threads
  BY DEF WorkerCount
<1>1. TypeOK /\ EachIndexOnce /\ n \in Nat \ {0} /\ workers \in Nat
  BY RangeSplitAssumption DEF Inv, TypeOK
<1>2. CASE NoGrain
  <2>1. 0 \in 0..n-1
    BY <1>1
  <2>2. written[0] = 0
    BY <1>2, <2>1 DEF NoGrain
  <2> QED
    BY <1>1, <2>1, <2>2 DEF EachIndexOnce
<1>3. CASE \E m, p, c, g \in Nat \ {0} : Counted(m, p, c, g)
  <2>1. PICK m \in Nat \ {0}, p \in Nat \ {0}, c \in Nat \ {0}, g \in Nat \ {0} :
           Counted(m, p, c, g)
    BY <1>3
  <2>2. Unspawned(Heads(m, p, c, g)) = {}
    BY DEF Unspawned
  <2>3. Cardinality(Unspawned(Heads(m, p, c, g))) = 0
    BY <2>2, FS_EmptySet
  <2>4. workers = m * c /\ Planned(m * c)
    BY <1>1, <2>1, <2>3 DEF Counted
  <2> QED
    BY <2>4 DEF Planned
<1> QED
  BY <1>2, <1>3 DEF CountInv

\* A thread for each nodelet is asked for at least: the grain fits into a share.
LEMMA GrainFits == TypeOK /\ num_threads >= NumNodelets => Grain <= LocalN
<1> SUFFICES ASSUME TypeOK, num_threads >= NumNodelets PROVE Grain <= LocalN
  OBVIOUS
<1>1. PICK g \in Nat : g = Grain
  BY GrainNat
<1>2. PICK t \in Nat \ {0} : t = num_threads
  BY RangeSplitAssumption DEF TypeOK
<1>3. PICK k \in Nat \ {0} : k = NumNodelets
  BY RangeSplitAssumption
<1>4. PICK l \in Nat \ {0} : l = LocalN /\ n = k * l
  BY <1>3, Shares
<1>5. n \in Nat /\ g = n \div t
  BY <1>1, <1>2, RangeSplitAssumption DEF TypeOK, Grain
<1>6. g * t <= n
  BY <1>5, Quotient
<1>7. k * g <= t * g /\ k * g \in Nat /\ t * g \in Nat
  BY <1>2, <1>3, TimesMonotone
<1>8. k * g = g * k /\ t * g = g * t /\ k * l = l * k
  OBVIOUS
<1>9. g * k <= l * k
  BY <1>4, <1>6, <1>7, <1>8
<1>10. g <= l
  BY <1>9, Cancel
<1> QED
  BY <1>1, <1>4, <1>10

\* At the beginning no worker has been started and one spawner has all indices.
LEMMA CountedInit ==
    ASSUME Init, Inv, \A t \in threads : t.role # "worker",
           NEW m \in Nat \ {0}, NEW p \in Nat \ {0}, NEW c \in Nat \ {0}, NEW g \in Nat \ {0},
           n = m * p, Chunked(p, c, g), Planned(m * c)
    PROVE  Counted(m, p, c, g)
<1> DEFINE H == Heads(m, p, c, g)
<1>1. H \subseteq 0..n-1 /\ Cardinality(H) = m * c
  BY HeadsCount
<1> HIDE DEF H
<1>2. ASSUME NEW i \in 0..n-1 PROVE \E t \in threads : SpawnsLater(t, i)
  <2>1. written[i] = 0
    BY DEF Init
  <2>2. \E t \in threads : Owns(t, i)
    BY <2>1 DEF Inv, EachIndexOnce
  <2> QED
    BY <2>2 DEF SpawnsLater
<1>3. Unspawned(H) = H
  BY <1>1, <1>2 DEF Unspawned
<1>4. workers = 0 /\ m * c \in Nat
  BY DEF Init
<1> QED
  BY <1>1, <1>3, <1>4 DEF Counted, H

\* The first thread has the range that its part of the invariant says.
LEMMA CountInit ==
    ASSUME \A size \in Sizes : PowerOfTwo(size), Init, Inv
    PROVE  CountInv
<1>1. PICK mode \in Modes :
         /\ mode \in RemoteModes => num_threads >= NumNodelets
         /\ threads = {Thread(mode, 0, IF mode \in NodeletRoles THEN NumNodelets ELSE n)}
  BY DEF Init
<1>2. mode \in {"recursive", "serial", "serial_remote", "recursive_remote", "shallow"}
  BY RangeSplitAssumption DEF RemoteModes
<1>3. /\ TypeOK /\ n \in Nat \ {0} /\ PowerOfTwo(n) /\ Grain \in Nat
      /\ LocalN \in Nat \ {0} /\ n = NumNodelets * LocalN /\ NumNodelets \in Nat \ {0}
  BY GrainNat, Shares, RangeSplitAssumption DEF Inv, TypeOK
<1>4. \A t \in threads : /\ t.role = mode /\ t.role # "worker" /\ t.low = 0
                         /\ t.high = IF mode \in NodeletRoles THEN NumNodelets ELSE n
  BY <1>1, <1>2 DEF Thread
<1>5. CASE Grain = 0
  <2>1. \A i \in 0..n-1 : written[i] = 0
    BY DEF Init
  <2> QED
    BY <1>4, <1>5, <2>1 DEF CountInv, NoGrain
<1>6. CASE Grain # 0 /\ mode \in {"recursive", "recursive_remote"}
  <2>1. Grain <= n /\ Grain \in Nat \ {0}
    BY <1>3, <1>6, GrainIs
  <2>2. PICK g \in Nat \ {0}, c \in Nat \ {0} : n = c * g /\ g <= Grain /\ Grain < 2 * g
    BY <1>3, <2>1, HalvesReach
  <2>3. n = 1 * n /\ 1 * c = c
    BY <1>3
  <2>4. Chunked(n, c, g)
    <3>1. (c - 1) * g = c * g - g /\ c * g \in Nat
      OBVIOUS
    <3> QED
      BY <2>2, <3>1 DEF Chunked
  <2>5. Planned(1 * c)
    BY <1>3, <1>6, <2>2, <2>3, HalvesPlanned
  <2>6. Counted(1, n, c, g)
    <3>1. PICK p \in Nat \ {0}, m \in Nat \ {0} : p = n /\ m = 1
      BY <1>3
    <3>2. Counted(m, p, c, g)
      BY <1>4, <2>3, <2>4, <2>5, <3>1, CountedInit
    <3> QED
      BY <3>1, <3>2
  <2>7. ASSUME NEW t \in threads PROVE InHalves(t, g)
    <3>1. CASE mode = "recursive"
      <4>1. t.role = "recursive" /\ t.low = 0 /\ t.high = n
        BY <1>4, <3>1 DEF NodeletRoles
      <4>2. 0 = 0 * g /\ n = 0 + c * g /\ 1 * (c * g) = n
        BY <2>2
      <4> QED
        BY <4>1, <4>2 DEF InHalves, SomeChunks
    <3>2. CASE mode = "recursive_remote"
      <4>1. Grain <= LocalN
        BY <1>1, <1>3, <3>2, GrainFits DEF RemoteModes
      <4>2. Divides(g, n) /\ Divides(LocalN, n)
        BY <1>3, <2>2 DEF Divides
      <4>3. g <= LocalN
        BY <1>3, <2>2, <4>1
      <4>4. \E x \in Nat \ {0} : LocalN = x * g
        BY <1>3, <4>2, <4>3, DivisorsDivide
      <4> QED
        BY <1>4, <3>2, <4>4 DEF InHalves, Divides
    <3> QED
      BY <1>6, <3>1, <3>2
  <2> QED
    BY <1>3, <2>2, <2>6, <2>7 DEF CountInv
<1>7. CASE Grain # 0 /\ mode = "serial"
  <2>1. Grain <= n /\ Grain \in Nat \ {0} /\ n = 1 * n
    BY <1>3, <1>7, GrainIs
  <2>2. PICK p \in Nat \ {0}, m \in Nat \ {0}, g \in Nat \ {0} :
           p = n /\ m = 1 /\ g = Grain /\ n = m * p
    BY <1>3, <2>1
  <2>3. PICK c \in Nat \ {0} : (c - 1) * g < p /\ p <= c * g
    BY RoundedUp
  <2>4. Planned(m * c)
    BY <1>3, <1>7, <2>1, <2>2, <2>3, ChunksPlanned
  <2>5. Counted(m, p, c, g)
    BY <1>4, <2>2, <2>3, <2>4, CountedInit DEF Chunked
  <2>6. ASSUME NEW t \in threads PROVE InChunks(t, m, p, g)
    <3>1. t.role = "serial" /\ t.low = 0 /\ t.high = n
      BY <1>4, <1>7 DEF NodeletRoles
    <3>2. 0 = 0 * p + 0 * g /\ n = (0 + 1) * p /\ 0 \in 0..m-1
      BY <2>2
    <3> QED
      BY <3>1, <3>2 DEF InChunks
  <2> QED
    BY <2>2, <2>5, <2>6 DEF CountInv
<1>8. CASE Grain # 0 /\ mode \in {"serial_remote", "shallow"}
  <2>1. Grain <= LocalN /\ Grain \in Nat \ {0}
    BY <1>1, <1>3, <1>8, GrainFits DEF RemoteModes
  <2>2. PICK p \in Nat \ {0}, m \in Nat \ {0}, g \in Nat \ {0} :
           p = LocalN /\ m = NumNodelets /\ g = Grain /\ n = m * p
    BY <1>3, <2>1
  <2>3. PICK c \in Nat \ {0} : (c - 1) * g < p /\ p <= c * g
    BY RoundedUp
  <2>4. Planned(m * c)
    BY <1>3, <1>8, <2>1, <2>2, <2>3, ChunksPlanned
  <2>5. Counted(m, p, c, g)
    BY <1>4, <2>2, <2>3, <2>4, CountedInit DEF Chunked
  <2>6. ASSUME NEW t \in threads PROVE InChunks(t, m, p, g)
    <3>1. 0 = 0 * p + 0 * g /\ 0 * g < p
      BY <2>2
    <3> QED
      BY <1>4, <1>8, <2>2, <3>1 DEF InChunks, AtChunk
  <2> QED
    BY <2>2, <2>5, <2>6 DEF CountInv
<1> QED
  BY <1>2, <1>5, <1>6, <1>7, <1>8

\* The range of a thread is the one it has been made with.
LEMMA ThreadIs ==
    ASSUME NEW role, NEW low, NEW high
    PROVE  LET t == Thread(role, low, high)
           IN  /\ t.role = role /\ t.low = low /\ t.high = high
               /\ role \notin NodeletRoles => First(t) = low /\ End(t) = high
               /\ role \in NodeletRoles => First(t) = low * LocalN /\ End(t) = high * LocalN
  BY DEF Thread, First, End

\* A spawner that shares its range out between two starts no worker.
LEMMA CountedDivide ==
    ASSUME NEW m \in Nat \ {0}, NEW p \in Nat \ {0}, NEW c \in Nat \ {0}, NEW g \in Nat \ {0},
           Counted(m, p, c, g), NEW t \in threads, NEW u, NEW v, NEW mid \in Nat,
           First(t) \in Nat, End(t) \in Nat, First(t) <= mid, mid <= End(t),
           First(u) = First(t), End(u) = mid, First(v) = mid, End(v) = End(t),
           t.role # "worker", u.role # "worker", v.role # "worker",
           threads' = (threads \ {t}) \cup {u, v}, UNCHANGED <<n, num_threads, workers>>
    PROVE  Counted(m, p, c, g)'
<1> DEFINE new == {u, v}
<1>1. threads' = (threads \ {t}) \cup new
  OBVIOUS
<1>2. \A i \in 0..n-1 : SpawnsLater(t, i) <=> \E x \in new : SpawnsLater(x, i)
  BY DEF SpawnsLater, Owns
<1> HIDE DEF new
<1> QED
  BY <1>1, <1>2, CountedKept

\* Nor does one step of a worker, or of a thread that ends, or of one that passes its
\* range on to another spawner.
LEMMA CountedWork ==
    ASSUME Inv,
           NEW m \in Nat \ {0}, NEW p \in Nat \ {0}, NEW c \in Nat \ {0}, NEW g \in Nat \ {0},
           Counted(m, p, c, g), NEW t \in threads, Body(t) \/ Exit(t) \/ OneNodelet(t)
    PROVE  Counted(m, p, c, g)'
<1>1. CASE Body(t)
  <2> DEFINE new == {Thread("worker", t.low + 1, t.high)}
  <2>1. /\ threads' = (threads \ {t}) \cup new /\ t.role = "worker"
        /\ UNCHANGED <<n, num_threads, workers>>
    BY <1>1 DEF Body, Replace
  <2>2. \A u \in new : u.role = "worker"
    BY ThreadIs
  <2> HIDE DEF new
  <2>3. \A i \in 0..n-1 : SpawnsLater(t, i) <=> \E u \in new : SpawnsLater(u, i)
    BY <2>1, <2>2 DEF SpawnsLater
  <2> QED
    BY <2>1, <2>3, CountedKept
<1>2. CASE Exit(t)
  <2>1. /\ threads' = (threads \ {t}) \cup {} /\ UNCHANGED <<n, num_threads, workers>>
        /\ t.low >= t.high
    BY <1>2 DEF Exit, Replace
  <2>2. t.low \in Nat /\ First(t) \in Nat /\ End(t) \in Nat
    BY RangeIs DEF Inv, TypeOK
  <2>3. End(t) <= First(t)
    BY <2>1, <2>2, RangeIs DEF Inv
  <2>4. \A i \in 0..n-1 : ~SpawnsLater(t, i)
    BY <2>2, <2>3 DEF Owns, SpawnsLater
  <2> QED
    BY <2>1, <2>4, CountedKept
<1>3. CASE OneNodelet(t)
  <2> DEFINE u == OnNodelet("recursive", t.low)
             new == {u}
  <2>1. /\ t.role = "recursive_remote" /\ t.high - t.low = 1
        /\ UNCHANGED <<n, num_threads, workers>>
        /\ threads' = (threads \ {t}) \cup new
    BY <1>3 DEF OneNodelet, Replace
  <2>2. t.role \in NodeletRoles /\ t.low \in Nat /\ t.high \in Nat
    BY <2>1, RangeIs DEF Inv, NodeletRoles
  <2>3. t.high = t.low + 1
    BY <2>1, <2>2
  <2>4. First(u) = First(t) /\ End(u) = End(t) /\ u.role = "recursive"
    BY <2>2, <2>3, ThreadIs, RangeIs DEF OnNodelet, NodeletRoles, Inv
  <2>5. \A i \in 0..n-1 : SpawnsLater(t, i) <=> SpawnsLater(u, i)
    BY <2>1, <2>4 DEF SpawnsLater, Owns
  <2>6. \A i \in 0..n-1 : SpawnsLater(t, i) <=> \E x \in new : SpawnsLater(x, i)
    BY <2>5
  <2> HIDE DEF u, new
  <2> QED
    BY <2>1, <2>6, CountedKept
<1> QED
  BY <1>1, <1>2, <1>3

\* A spawner at the beginning of a chunk starts a worker for the rest of that chunk.
LEMMA CountedChunk ==
    ASSUME Inv,
           NEW m \in Nat \ {0}, NEW p \in Nat \ {0}, NEW c \in Nat \ {0}, NEW g \in Nat \ {0},
           Counted(m, p, c, g), NEW t \in threads, NEW new,
           threads' = (threads \ {t}) \cup new, UNCHANGED <<n, num_threads>>,
           workers' = workers + 1, t.role # "worker",
           NEW k \in 0..m-1, NEW j \in Nat, j * g < p, First(t) = k * p + j * g,
           NEW end \in Nat, First(t) < end, end <= End(t),
           end <= k * p + j * g + g, end <= (k + 1) * p,
           \A i \in 0..n-1 : (\E u \in new : SpawnsLater(u, i)) <=> end <= i /\ i < End(t)
    PROVE  Counted(m, p, c, g)'
<1> DEFINE x == k * p + j * g
           H == Heads(m, p, c, g)
<1>1. x \in H /\ \A i \in H : x <= i /\ i < end => i = x
  BY OneHead DEF Counted
<1>2. H \subseteq 0..n-1
  BY HeadsCount DEF Counted
<1>3. x = First(t) /\ First(t) \in Nat /\ End(t) \in Nat
  BY RangeIs DEF Inv
<1> HIDE DEF x, H
<1>4. SpawnsLater(t, x)
  BY <1>1, <1>2, <1>3 DEF SpawnsLater, Owns
<1>5. ASSUME NEW i \in H
      PROVE  (\E u \in new : SpawnsLater(u, i)) <=> SpawnsLater(t, i) /\ i # x
  <2>1. i \in 0..n-1 /\ i \in Nat
    BY <1>2
  <2>2. SpawnsLater(t, i) <=> x <= i /\ i < End(t)
    BY <1>3 DEF SpawnsLater, Owns
  <2>3. (\E u \in new : SpawnsLater(u, i)) <=> end <= i /\ i < End(t)
    BY <2>1
  <2>4. end <= i /\ i < End(t) <=> x <= i /\ i < End(t) /\ i # x
    BY <1>1, <1>3, <2>1
  <2> QED
    BY <2>2, <2>3, <2>4
<1> QED
  BY <1>1, <1>4, <1>5, CountedOne DEF H, Inv, TypeOK

\* The recursive spawners halve a number of chunks that is a power of two until one
\* chunk is left.
LEMMA HalvesStep ==
    ASSUME Inv, PowerOfTwo(n), NEW p \in Nat \ {0}, NEW c \in Nat \ {0}, NEW g \in Nat \ {0},
           NEW m \in Nat \ {0}, m = 1, p = n, Counted(m, p, c, g),
           g <= Grain, Grain < 2 * g, \A t \in threads : InHalves(t, g),
           NEW t \in threads, Step(t)
    PROVE  Counted(m, p, c, g)' /\ \A u \in threads' : InHalves(u, g)'
<1>1. /\ TypeOK /\ Grain \in Nat /\ n \in Nat \ {0} /\ t.low \in Nat
      /\ First(t) \in Nat /\ End(t) \in Nat /\ End(t) <= n
      /\ LocalN \in Nat \ {0} /\ NumNodelets \in Nat \ {0} /\ n = NumNodelets * LocalN
  BY GrainNat, RangeIs, Shares, RangeSplitAssumption DEF Inv, TypeOK
<1>2. t.role \in {"worker", "recursive_remote", "recursive"}
  BY DEF InHalves
<1>3. ASSUME NEW new, threads' = (threads \ {t}) \cup new, n' = n,
             \A u \in new : InHalves(u, g)
      PROVE  \A u \in threads' : InHalves(u, g)'
  <2>1. LocalN' = LocalN
    BY <1>3 DEF LocalN
  <2>2. \A low, high : SomeChunks(low, high, g)' <=> SomeChunks(low, high, g)
    BY <1>3 DEF SomeChunks
  <2>3. \A u : InHalves(u, g)' <=> InHalves(u, g)
    BY <2>1, <2>2 DEF InHalves
  <2> QED
    BY <1>3, <2>3
<1>4. CASE SplitNodelets(t)
  <2> DEFINE i == t.low + (t.high - t.low) \div 2
             u == Thread("recursive_remote", t.low, i)
             v == Thread("recursive_remote", i, t.high)
             mid == i * LocalN
  <2>1. /\ t.role = "recursive_remote" /\ UNCHANGED <<n, num_threads, workers>>
        /\ threads' = (threads \ {t}) \cup {u, v}
    BY <1>4 DEF SplitNodelets, Replace
  <2>2. /\ First(t) = t.low * LocalN /\ End(t) = t.high * LocalN
        /\ t.high \in Nat /\ t.low <= t.high /\ t.high <= NumNodelets
    BY <1>1, <2>1, RangeIs DEF NodeletRoles
  <2>3. i \in Nat /\ t.low <= i /\ i <= t.high
    BY <1>1, <2>2, MidInside
  <2> HIDE DEF i
  <2>4. t.low * LocalN <= mid /\ mid <= t.high * LocalN /\ mid \in Nat
    BY <1>1, <2>2, <2>3, TimesMonotone
  <2>5. /\ First(u) = t.low * LocalN /\ End(u) = mid /\ First(v) = mid
        /\ End(v) = t.high * LocalN /\ u.role = "recursive_remote" /\ v.role = "recursive_remote"
    BY ThreadIs DEF NodeletRoles
  <2> HIDE DEF u, v, mid
  <2>6. Counted(m, p, c, g)'
    BY <1>1, <2>1, <2>2, <2>4, <2>5, CountedDivide
  <2>7. InHalves(u, g) /\ InHalves(v, g)
    BY <2>1, <2>5 DEF InHalves
  <2> QED
    BY <1>3, <2>1, <2>6, <2>7
<1>5. CASE OneNodelet(t)
  <2> DEFINE u == OnNodelet("recursive", t.low)
  <2>1. /\ t.role = "recursive_remote" /\ n' = n
        /\ threads' = (threads \ {t}) \cup {u}
    BY <1>5 DEF OneNodelet, Replace
  <2>2. PICK e \in Nat : LocalN = e * g
    BY <2>1 DEF InHalves, Divides
  <2>3. PICK k \in Nat : k = t.low
    BY <1>1
  <2>4. u.role = "recursive" /\ u.low = k * LocalN /\ u.high = (k + 1) * LocalN
    BY <2>3, ThreadIs DEF OnNodelet
  <2> HIDE DEF u
  <2>5. (k + 1) * LocalN = k * LocalN + LocalN /\ k * LocalN = (k * e) * g
    BY <1>1, <2>2, TimesMonotone, ThreeFactors
  <2>6. u.low = (k * e) * g /\ u.high = u.low + e * g /\ NumNodelets * (e * g) = n /\ k * e \in Nat
    BY <1>1, <2>2, <2>4, <2>5
  <2>7. InHalves(u, g)
    BY <1>1, <2>4, <2>6 DEF InHalves, SomeChunks
  <2> QED
    BY <1>3, <1>5, <2>1, <2>7, CountedWork
<1>6. ASSUME t.role = "recursive"
      PROVE  \E i \in Nat, q \in Nat \ {0}, r \in Nat :
                /\ t.low = i * g /\ t.high = t.low + q * g /\ r * (q * g) = n
                /\ t.high - t.low = q * g /\ First(t) = t.low /\ End(t) = t.high
  <2>1. PICK i \in Nat, q \in Nat, r \in Nat :
           t.low = i * g /\ t.high = t.low + q * g /\ r * (q * g) = n
    BY <1>6 DEF InHalves, SomeChunks
  <2>2. q # 0
    BY <1>1, <2>1
  <2>3. t.high - t.low = q * g
    <3>1. q * g \in Nat
      OBVIOUS
    <3> QED
      BY <1>1, <2>1, <3>1
  <2>4. First(t) = t.low /\ End(t) = t.high
    BY <1>1, <1>6, RangeIs DEF NodeletRoles
  <2> QED
    BY <2>1, <2>2, <2>3, <2>4
<1>7. CASE SpawnHalf(t)
  <2> DEFINE mid == t.low + (t.high - t.low) \div 2
             u == Thread("recursive", t.low, mid)
             v == Thread("recursive", mid, t.high)
  <2>1. /\ t.role = "recursive" /\ UNCHANGED <<n, num_threads, workers>>
        /\ threads' = (threads \ {t}) \cup {u, v} /\ t.high - t.low > Grain
    BY <1>7 DEF SpawnHalf, Replace
  <2>2. PICK i \in Nat, q \in Nat \ {0}, r \in Nat :
                /\ t.low = i * g /\ t.high = t.low + q * g /\ r * (q * g) = n
                /\ t.high - t.low = q * g /\ First(t) = t.low /\ End(t) = t.high
    BY <1>6, <2>1
  <2>3. q # 1
    BY <1>1, <2>1, <2>2
  <2>4. q % 2 = 0
    <3>1. q * (r * g) = n /\ r * g \in Nat
      BY <2>2, ThreeFactors
    <3> QED
      BY <2>3, <3>1 DEF PowerOfTwo
  <2>5. PICK e \in Nat : q = 2 * e
    BY <2>4, HalfOf
  <2>6. PICK eg \in Nat : eg = e * g /\ q * g = 2 * eg
    <3>1. (2 * e) * g = 2 * (e * g) /\ e * g \in Nat
      OBVIOUS
    <3> QED
      BY <2>5, <3>1
  <2>7. mid = t.low + eg /\ t.high = mid + eg /\ mid \in Nat
    <3>1. (2 * eg) \div 2 = eg
      OBVIOUS
    <3> QED
      BY <1>1, <2>2, <2>6, <3>1
  <2> HIDE DEF mid
  <2>8. /\ First(u) = t.low /\ End(u) = mid /\ First(v) = mid /\ End(v) = t.high
        /\ u.role = "recursive" /\ u.low = t.low /\ u.high = mid
        /\ v.role = "recursive" /\ v.low = mid /\ v.high = t.high
    BY ThreadIs DEF NodeletRoles
  <2> HIDE DEF u, v
  <2>9. Counted(m, p, c, g)'
    BY <1>1, <2>1, <2>2, <2>7, <2>8, CountedDivide
  <2>10. (2 * r) * (e * g) = n /\ 2 * r \in Nat
    <3>1. (2 * r) * eg = r * (2 * eg)
      OBVIOUS
    <3> QED
      BY <2>2, <2>6, <3>1
  <2>11. mid = (i + e) * g /\ i + e \in Nat
    <3>1. (i + e) * g = i * g + e * g
      OBVIOUS
    <3> QED
      BY <2>2, <2>6, <2>7, <3>1
  <2>12. InHalves(u, g)
    <3>1. u.low = i * g /\ u.high = u.low + e * g
      BY <2>2, <2>6, <2>7, <2>8
    <3> QED
      BY <2>8, <2>10, <3>1 DEF InHalves, SomeChunks
  <2>13. InHalves(v, g)
    <3>1. v.low = (i + e) * g /\ v.high = v.low + e * g
      BY <2>6, <2>7, <2>8, <2>11
    <3> QED
      BY <2>8, <2>10, <2>11, <3>1 DEF InHalves, SomeChunks
  <2> QED
    BY <1>3, <2>1, <2>9, <2>12, <2>13
<1>8. CASE BaseCase(t)
  <2> DEFINE new == {Thread("worker", t.low, t.high)}
  <2>1. /\ t.role = "recursive" /\ UNCHANGED <<n, num_threads>>
        /\ threads' = (threads \ {t}) \cup new /\ t.high - t.low <= Grain
        /\ t.low < t.high => workers' = workers + 1
    BY <1>8 DEF BaseCase, Replace
  <2>2. PICK i \in Nat, q \in Nat \ {0}, r \in Nat :
                /\ t.low = i * g /\ t.high = t.low + q * g /\ r * (q * g) = n
                /\ t.high - t.low = q * g /\ First(t) = t.low /\ End(t) = t.high
    BY <1>6, <2>1
  <2>3. q * g < 2 * g
    <3>1. q * g \in Nat
      OBVIOUS
    <3> QED
      BY <1>1, <2>1, <2>2, <3>1
  <2>4. q = 1
    <3>1. q < 2
      BY <2>3, Cancel
    <3> QED
      BY <3>1
  <2>5. PICK ig \in Nat : ig = i * g /\ t.low = ig /\ t.high = ig + g
    BY <2>2, <2>4
  <2>6. /\ 0 * p + i * g = t.low /\ i * g < p /\ t.high <= (0 + 1) * p
        /\ t.high <= 0 * p + i * g + g /\ t.low < t.high /\ t.high \in Nat /\ 0 \in 0..m-1
    BY <1>1, <2>2, <2>5
  <2>7. \A u \in new : u.role = "worker"
    BY ThreadIs
  <2> HIDE DEF new
  <2>8. \A x \in 0..n-1 : (\E u \in new : SpawnsLater(u, x)) <=> t.high <= x /\ x < End(t)
    BY <2>2, <2>6, <2>7 DEF SpawnsLater
  <2>9. Counted(m, p, c, g)'
    <3>1. PICK k \in 0..m-1 : k = 0
      BY <2>6
    <3>2. /\ First(t) = k * p + i * g /\ i * g < p /\ t.high <= (k + 1) * p
          /\ t.high <= k * p + i * g + g /\ First(t) < t.high /\ t.high <= End(t)
      BY <2>2, <2>6, <3>1
    <3>3. t.role # "worker" /\ workers' = workers + 1 /\ t.high \in Nat
      BY <2>1, <2>6
    <3> QED
      BY <2>1, <2>8, <3>2, <3>3, CountedChunk
  <2>10. \A u \in new : InHalves(u, g)
    BY <2>7 DEF InHalves
  <2> QED
    BY <1>3, <2>1, <2>9, <2>10
<1>9. CASE Body(t)
  <2> DEFINE new == {Thread("worker", t.low + 1, t.high)}
  <2>1. threads' = (threads \ {t}) \cup new /\ n' = n
    BY <1>9 DEF Body, Replace
  <2>2. \A u \in new : InHalves(u, g)
    BY ThreadIs DEF InHalves
  <2> HIDE DEF new
  <2> QED
    BY <1>3, <1>9, <2>1, <2>2, CountedWork
<1>10. CASE Exit(t)
  <2>1. threads' = (threads \ {t}) \cup {} /\ n' = n
    BY <1>10 DEF Exit, Replace
  <2> QED
    BY <1>3, <1>10, <2>1, CountedWork
<1>11. ~SpawnNodelet(t) /\ ~SpawnChunk(t) /\ ~SpawnChunkAt(t)
  BY <1>2 DEF SpawnNodelet, SpawnChunk, SpawnChunkAt
<1> QED
  BY <1>4, <1>5, <1>7, <1>8, <1>9, <1>10, <1>11 DEF Step

\* The serial and the shallow spawners start one worker for each grain, and one for
\* what is left of a share.
LEMMA ChunksStep ==
    ASSUME Inv, NEW m \in Nat \ {0}, NEW p \in Nat \ {0}, NEW c \in Nat \ {0}, NEW g \in Nat \ {0},
           g = Grain, Counted(m, p, c, g), \A t \in threads : InChunks(t, m, p, g),
           NEW t \in threads, Step(t)
    PROVE  Counted(m, p, c, g)' /\ \A u \in threads' : InChunks(u, m, p, g)'
<1>1. /\ TypeOK /\ n \in Nat \ {0} /\ t.low \in Nat
      /\ First(t) \in Nat /\ End(t) \in Nat /\ End(t) <= n
      /\ LocalN \in Nat \ {0} /\ NumNodelets \in Nat \ {0} /\ n = NumNodelets * LocalN
      /\ n = m * p
  BY RangeIs, Shares, RangeSplitAssumption DEF Inv, TypeOK, Counted
<1>2. t.role \in {"worker", "serial_remote", "serial", "shallow"}
  BY DEF InChunks
<1>3. ASSUME NEW new, threads' = (threads \ {t}) \cup new, n' = n,
             \A u \in new : InChunks(u, m, p, g)
      PROVE  \A u \in threads' : InChunks(u, m, p, g)'
  BY <1>3 DEF InChunks, LocalN
<1>4. CASE SpawnNodelet(t)
  <2> DEFINE u == OnNodelet("serial", t.low)
             v == Thread("serial_remote", t.low + 1, t.high)
             mid == (t.low + 1) * LocalN
  <2>1. /\ t.role = "serial_remote" /\ t.low < t.high /\ UNCHANGED <<n, num_threads, workers>>
        /\ threads' = (threads \ {t}) \cup {u, v}
    BY <1>4 DEF SpawnNodelet, Replace
  <2>2. /\ First(t) = t.low * LocalN /\ End(t) = t.high * LocalN
        /\ t.high \in Nat /\ t.high <= NumNodelets
    BY <1>1, <2>1, RangeIs DEF NodeletRoles
  <2>3. m = NumNodelets /\ p = LocalN
    BY <2>1 DEF InChunks
  <2>4. t.low * LocalN <= mid /\ mid <= t.high * LocalN /\ mid \in Nat
    <3>1. t.low + 1 \in Nat /\ t.low <= t.low + 1 /\ t.low + 1 <= t.high
      BY <1>1, <2>1, <2>2
    <3>2. t.low * LocalN <= mid /\ mid \in Nat
      BY <1>1, <3>1, TimesMonotone
    <3>3. mid <= t.high * LocalN
      BY <1>1, <2>2, <3>1, TimesMonotone
    <3> QED
      BY <3>2, <3>3
  <2>5. /\ First(u) = t.low * LocalN /\ End(u) = mid /\ First(v) = mid
        /\ End(v) = t.high * LocalN /\ u.role = "serial" /\ v.role = "serial_remote"
        /\ u.low = t.low * LocalN /\ u.high = mid
    BY ThreadIs DEF OnNodelet, NodeletRoles
  <2> HIDE DEF u, v
  <2>6. Counted(m, p, c, g)'
    <3> HIDE DEF mid
    <3> QED
      BY <1>1, <2>1, <2>2, <2>4, <2>5, CountedDivide
  <2>7. InChunks(u, m, p, g)
    <3>1. PICK k \in 0..m-1 : k = t.low
      BY <1>1, <2>1, <2>2, <2>3
    <3>2. u.low = k * p + 0 * g /\ u.high = (k + 1) * p
      BY <2>3, <2>5, <3>1
    <3> QED
      BY <2>5, <3>2 DEF InChunks
  <2>8. InChunks(v, m, p, g)
    BY <2>3, <2>5 DEF InChunks
  <2> QED
    BY <1>3, <2>1, <2>6, <2>7, <2>8
<1>5. CASE SpawnChunk(t)
  <2> DEFINE end == IF t.low + Grain <= t.high THEN t.low + Grain ELSE t.high
             w == Thread("worker", t.low, end)
             v == Thread("serial", t.low + Grain, t.high)
             new == {w, v}
  <2>1. /\ t.role = "serial" /\ t.low < t.high /\ UNCHANGED <<n, num_threads>>
        /\ threads' = (threads \ {t}) \cup new
        /\ t.low < end => workers' = workers + 1
    BY <1>5 DEF SpawnChunk, Replace
  <2>2. PICK k \in 0..m-1, j \in Nat : t.low = k * p + j * g /\ t.high = (k + 1) * p
    BY <2>1 DEF InChunks
  <2>3. First(t) = t.low /\ End(t) = t.high
    BY <1>1, <2>1, RangeIs DEF NodeletRoles
  <2>4. PICK kp \in Nat, jg \in Nat : kp = k * p /\ jg = j * g
    OBVIOUS
  <2>5. (k + 1) * p = kp + p /\ (j + 1) * g = jg + g
    BY <2>4, TimesMonotone
  <2>6. t.low = kp + jg /\ t.high = kp + p /\ jg < p
    BY <2>1, <2>2, <2>4, <2>5
  <2>7. /\ end \in Nat /\ t.low < end /\ end <= t.high /\ end <= t.low + g
        /\ \A i \in Nat : end <= i /\ i < t.high <=> t.low + g <= i /\ i < t.high
    BY <2>6
  <2> HIDE DEF end
  <2>8. /\ w.role = "worker" /\ v.role = "serial" /\ v.low = t.low + g /\ v.high = t.high
        /\ First(v) = t.low + g /\ End(v) = t.high
    BY ThreadIs DEF NodeletRoles
  <2>9. \A u \in new : u = w \/ u = v
    OBVIOUS
  <2>10. v \in new
    OBVIOUS
  <2> HIDE DEF w, v, new
  <2>11. \A i \in 0..n-1 : (\E u \in new : SpawnsLater(u, i)) <=> end <= i /\ i < End(t)
    <3>1. ASSUME NEW i \in 0..n-1
          PROVE  (\E u \in new : SpawnsLater(u, i)) <=> SpawnsLater(v, i)
      BY <2>8, <2>9, <2>10 DEF SpawnsLater
    <3>2. ASSUME NEW i \in 0..n-1
          PROVE  SpawnsLater(v, i) <=> end <= i /\ i < End(t)
      <4>1. SpawnsLater(v, i) <=> t.low + g <= i /\ i < t.high
        BY <2>8 DEF SpawnsLater, Owns
      <4>2. i \in Nat
        BY <1>1
      <4> QED
        BY <2>3, <2>7, <4>1, <4>2
    <3> QED
      BY <3>1, <3>2
  <2>12. Counted(m, p, c, g)'
    <3>1. /\ First(t) = k * p + j * g /\ j * g < p /\ end <= (k + 1) * p
          /\ end <= k * p + j * g + g /\ First(t) < end /\ end <= End(t)
      BY <2>2, <2>3, <2>4, <2>6, <2>7
    <3>2. t.role # "worker" /\ workers' = workers + 1 /\ end \in Nat
      BY <2>1, <2>7
    <3> QED
      BY <2>1, <2>11, <3>1, <3>2, CountedChunk
  <2>13. InChunks(v, m, p, g)
    <3>1. v.low = k * p + (j + 1) * g /\ v.high = (k + 1) * p /\ j + 1 \in Nat
      BY <2>2, <2>4, <2>5, <2>6, <2>8
    <3> QED
      BY <2>8, <3>1 DEF InChunks
  <2>14. InChunks(w, m, p, g)
    BY <2>8 DEF InChunks
  <2> QED
    BY <1>3, <2>1, <2>9, <2>12, <2>13, <2>14
<1>6. CASE SpawnChunkAt(t)
  <2> DEFINE stop == ((t.low \div LocalN) + 1) * LocalN
             end == IF t.low + Grain <= stop THEN t.low + Grain ELSE stop
             w == Thread("worker", t.low, end)
             v == Thread("shallow", end, t.high)
             new == {w, v}
  <2>1. /\ t.role = "shallow" /\ t.low < t.high /\ UNCHANGED <<n, num_threads>>
        /\ threads' = (threads \ {t}) \cup new
        /\ t.low < end => workers' = workers + 1
    BY <1>6 DEF SpawnChunkAt, Replace
  <2>2. /\ m = NumNodelets /\ p = LocalN /\ t.high = n
        /\ First(t) = t.low /\ End(t) = n
    BY <1>1, <2>1, RangeIs DEF NodeletRoles, InChunks, TypeOK
  <2>3. PICK k \in Nat, j \in Nat : t.low = k * p + j * g /\ j * g < p
    <3>1. AtChunk(t.low, p, g)
      BY <1>1, <2>1, <2>2 DEF InChunks
    <3> QED
      BY <3>1 DEF AtChunk
  <2>4. PICK kp \in Nat, jg \in Nat : kp = k * p /\ jg = j * g
    OBVIOUS
  <2>5. (k + 1) * p = kp + p /\ (j + 1) * g = jg + g
    BY <2>4, TimesMonotone
  <2>6. t.low = kp + jg /\ jg < p
    BY <2>3, <2>4
  <2>7. k \in 0..m-1
    <3>1. kp < m * p
      BY <1>1, <2>1, <2>2, <2>6
    <3>2. k < m
      BY <2>4, <3>1, Cancel
    <3> QED
      BY <3>2
  <2>8. t.low \div LocalN = k
    <3>1. PICK q \in Nat : q = t.low \div LocalN
      BY <1>1, Quotient
    <3>2. q * p <= t.low /\ t.low < q * p + p /\ q * p \in Nat
      BY <1>1, <2>2, <3>1, Quotient
    <3>3. (q + 1) * p = q * p + p
      BY TimesMonotone
    <3>4. q * p < (k + 1) * p /\ k * p < (q + 1) * p
      BY <2>4, <2>5, <2>6, <3>2, <3>3
    <3>5. q < k + 1 /\ k < q + 1
      BY <3>4, Cancel
    <3> QED
      BY <3>1, <3>5
  <2>9. stop = kp + p /\ stop <= n
    <3>1. stop = (k + 1) * p
      BY <2>2, <2>8
    <3>2. (k + 1) * p <= m * p
      BY <2>7, TimesMonotone
    <3> QED
      BY <1>1, <2>5, <3>1, <3>2
  <2> HIDE DEF stop
  <2>10. end \in Nat /\ t.low < end /\ end <= n /\ end <= t.low + g /\ end <= kp + p
         /\ (end = kp + jg + g \/ end = kp + p)
    BY <1>1, <2>6, <2>9
  <2> HIDE DEF end
  <2>11. /\ w.role = "worker" /\ v.role = "shallow" /\ v.low = end
         /\ First(v) = end /\ End(v) = n
    BY <2>2, ThreadIs DEF NodeletRoles
  <2>12. (\A u \in new : u = w \/ u = v) /\ v \in new
    OBVIOUS
  <2> HIDE DEF w, v, new
  <2>13. \A i \in 0..n-1 : (\E u \in new : SpawnsLater(u, i)) <=> end <= i /\ i < End(t)
    <3>1. ASSUME NEW i \in 0..n-1
          PROVE  (\E u \in new : SpawnsLater(u, i)) <=> SpawnsLater(v, i)
      BY <2>11, <2>12 DEF SpawnsLater
    <3>2. ASSUME NEW i \in 0..n-1
          PROVE  SpawnsLater(v, i) <=> end <= i /\ i < End(t)
      BY <2>2, <2>11 DEF SpawnsLater, Owns
    <3> QED
      BY <3>1, <3>2
  <2>14. Counted(m, p, c, g)'
    <3>1. /\ First(t) = k * p + j * g /\ j * g < p /\ end <= (k + 1) * p
          /\ end <= k * p + j * g + g /\ First(t) < end /\ end <= End(t)
      BY <2>2, <2>3, <2>4, <2>5, <2>6, <2>10
    <3>2. t.role # "worker" /\ workers' = workers + 1 /\ end \in Nat
      BY <2>1, <2>10
    <3> QED
      BY <2>1, <2>7, <2>13, <3>1, <3>2, CountedChunk
  <2>15. InChunks(v, m, p, g)
    <3>1. CASE end = kp + p
      <4>1. end = (k + 1) * p + 0 * g /\ 0 * g < p /\ k + 1 \in Nat
        BY <2>5, <3>1
      <4> QED
        BY <2>2, <2>11, <4>1 DEF InChunks, AtChunk
    <3>2. CASE end = kp + jg + g /\ jg + g < p
      <4>1. end = k * p + (j + 1) * g /\ (j + 1) * g < p /\ j + 1 \in Nat
        BY <2>4, <2>5, <3>2
      <4> QED
        BY <2>2, <2>11, <4>1 DEF InChunks, AtChunk
    <3> QED
      BY <2>10, <3>1, <3>2
  <2>16. InChunks(w, m, p, g)
    BY <2>11 DEF InChunks
  <2> QED
    BY <1>3, <2>1, <2>12, <2>14, <2>15, <2>16
<1>7. CASE Body(t)
  <2> DEFINE new == {Thread("worker", t.low + 1, t.high)}
  <2>1. threads' = (threads \ {t}) \cup new /\ n' = n
    BY <1>7 DEF Body, Replace
  <2>2. \A u \in new : InChunks(u, m, p, g)
    BY ThreadIs DEF InChunks
  <2> HIDE DEF new
  <2> QED
    BY <1>3, <1>7, <2>1, <2>2, CountedWork
<1>8. CASE Exit(t)
  <2>1. threads' = (threads \ {t}) \cup {} /\ n' = n
    BY <1>8 DEF Exit, Replace
  <2> QED
    BY <1>3, <1>8, <2>1, CountedWork
<1>9. ~SplitNodelets(t) /\ ~OneNodelet(t) /\ ~SpawnHalf(t) /\ ~BaseCase(t)
  BY <1>2 DEF SplitNodelets, OneNodelet, SpawnHalf, BaseCase
<1> QED
  BY <1>4, <1>5, <1>6, <1>7, <1>8, <1>9 DEF Step

\* Workers that are started although the grain is 0 find nothing to do.
LEMMA NoGrainStep == ASSUME Inv, NoGrain, NEW t \in threads, Step(t) PROVE NoGrain'
<1>1. /\ Grain = 0 /\ t.low \in Nat /\ t.high \in Nat /\ TypeOK
      /\ \A u \in threads : u.role = "worker" => u.high <= u.low
  BY RangeSplitAssumption DEF NoGrain, Inv, TypeOK
<1>2. ~Body(t)
  BY <1>1 DEF Body
<1>3. n' = n /\ num_threads' = num_threads /\ written' = written
  BY <1>2 DEF Step, SpawnNodelet, SplitNodelets, OneNodelet, SpawnHalf, BaseCase, SpawnChunk,
              SpawnChunkAt, Exit
<1>4. \A u \in threads' \ threads : u.role = "worker" => u.high <= u.low
  <2>1. CASE BaseCase(t)
    <3>1. t.high - t.low <= 0 /\ threads' = (threads \ {t}) \cup {Thread("worker", t.low, t.high)}
      BY <1>1, <2>1 DEF BaseCase, Replace
    <3> QED
      BY <1>1, <3>1, ThreadIs
  <2>2. CASE SpawnChunk(t)
    <3>1. /\ t.low < t.high
          /\ threads' = (threads \ {t}) \cup {Thread("worker", t.low, t.low),
                                              Thread("serial", t.low, t.high)}
      BY <1>1, <2>2 DEF SpawnChunk, Replace
    <3> QED
      BY <1>1, <3>1, ThreadIs
  <2>3. CASE SpawnChunkAt(t)
    <3> DEFINE stop == ((t.low \div LocalN) + 1) * LocalN
               end == IF t.low + Grain <= stop THEN t.low + Grain ELSE stop
    <3>1. /\ t.low < t.high
          /\ threads' = (threads \ {t}) \cup {Thread("worker", t.low, end),
                                              Thread("shallow", end, t.high)}
      BY <2>3 DEF SpawnChunkAt, Replace
    <3>2. t.low \in 0..n-1
      <4>1. t.high = n /\ n \in Nat
        BY <1>1, <2>3, RangeSplitAssumption DEF TypeOK, SpawnChunkAt
      <4> QED
        BY <1>1, <3>1, <4>1
    <3>3. stop \in Nat /\ t.low < stop
      BY <1>1, <3>2, StopInside
    <3> HIDE DEF stop
    <3>4. end = t.low
      BY <1>1, <3>3
    <3> HIDE DEF end
    <3> QED
      BY <1>1, <3>1, <3>4, ThreadIs
  <2>4. CASE SpawnNodelet(t) \/ SplitNodelets(t) \/ OneNodelet(t) \/ SpawnHalf(t) \/ Exit(t)
    BY <2>4 DEF SpawnNodelet, SplitNodelets, OneNodelet, SpawnHalf, Exit, Replace, OnNodelet,
                Thread
  <2> QED
    BY <1>2, <2>1, <2>2, <2>3, <2>4 DEF Step
<1>5. Grain' = 0
  BY <1>1, <1>3 DEF Grain
<1> QED
  BY <1>1, <1>3, <1>4, <1>5 DEF NoGrain

\* Every step of the loop keeps the plan of chunks.
LEMMA CountStep ==
    ASSUME \A size \in Sizes : PowerOfTwo(size), Inv, CountInv, [Next]_vars
    PROVE  CountInv'
<1>1. PowerOfTwo(n)
  BY DEF Inv, TypeOK
<1>2. CASE UNCHANGED vars
  <2>1. Grain' = Grain /\ LocalN' = LocalN
    BY <1>2 DEF vars, Grain, LocalN
  <2>2. NoGrain' <=> NoGrain
    BY <1>2, <2>1 DEF vars, NoGrain
  <2>3. \A m, p, c, g : Counted(m, p, c, g)' <=> Counted(m, p, c, g)
    BY <1>2, <2>1 DEF vars, Counted, Planned, Unspawned, SpawnsLater, Owns, First, End
  <2>4. \A u, g : InHalves(u, g)' <=> InHalves(u, g)
    <3>1. \A low, high, g : SomeChunks(low, high, g)' <=> SomeChunks(low, high, g)
      BY <1>2 DEF vars, SomeChunks
    <3> QED
      BY <2>1, <3>1 DEF InHalves
  <2>5. \A u, m, p, g : InChunks(u, m, p, g)' <=> InChunks(u, m, p, g)
    BY <1>2, <2>1 DEF vars, InChunks
  <2>6. threads' = threads /\ n' = n
    BY <1>2 DEF vars
  <2> QED
    BY <2>1, <2>2, <2>3, <2>4, <2>5, <2>6 DEF CountInv
<1>3. ASSUME NEW t \in threads, Step(t) PROVE CountInv'
  <2>1. CASE NoGrain
    BY <1>3, <2>1, NoGrainStep DEF CountInv
  <2>2. CASE ~NoGrain
    <3>1. PICK m \in Nat \ {0}, p \in Nat \ {0}, c \in Nat \ {0}, g \in Nat \ {0} :
             /\ Counted(m, p, c, g)
             /\ \/ /\ m = 1 /\ n = c * g /\ g <= Grain /\ Grain < 2 * g
                   /\ \A u \in threads : InHalves(u, g)
                \/ /\ g = Grain
                   /\ \A u \in threads : InChunks(u, m, p, g)
      BY <2>2 DEF CountInv
    <3>2. n' = n /\ Grain' = Grain
      BY <1>3 DEF Step, SpawnNodelet, SplitNodelets, OneNodelet, SpawnHalf, BaseCase, SpawnChunk,
                  SpawnChunkAt, Body, Exit, Grain
    <3>3. CASE /\ m = 1 /\ n = c * g /\ g <= Grain /\ Grain < 2 * g
               /\ \A u \in threads : InHalves(u, g)
      <4>1. p = n
        BY <3>1, <3>3 DEF Counted
      <4>2. Counted(m, p, c, g)' /\ \A u \in threads' : InHalves(u, g)'
        BY <1>1, <1>3, <3>1, <3>3, <4>1, HalvesStep
      <4> QED
        BY <3>2, <3>3, <4>2 DEF CountInv
    <3>4. CASE /\ g = Grain
               /\ \A u \in threads : InChunks(u, m, p, g)
      <4>1. Counted(m, p, c, g)' /\ \A u \in threads' : InChunks(u, m, p, g)'
        BY <1>3, <3>1, <3>4, ChunksStep
      <4> QED
        BY <3>2, <3>4, <4>1 DEF CountInv
    <3> QED
      BY <3>1, <3>3, <3>4
  <2> QED
    BY <2>1, <2>2
<1> QED
  BY <1>2, <1>3 DEF Next, Synced

\* How many workers a loop starts, in every spawn mode and for every order of the
\* threads, if the number of elements is a power of two, as 1L << log2_num_elements
\* is: num_threads of them if num_threads divides n, and otherwise more but less than
\* twice as many.  (A loop that asks for more threads than there are elements never ends.)
THEOREM RangeSplitWorkerCount ==
    ASSUME \A size \in Sizes : PowerOfTwo(size)
    PROVE  Spec => []WorkerCount
<1>1. Init => Inv /\ CountInv
  BY InvInit, CountInit
<1>2. Inv /\ CountInv /\ [Next]_vars => Inv' /\ CountInv'
  BY InvStep, CountStep
<1>3. Inv /\ CountInv => WorkerCount
  BY CountEnd
<1> QED
  BY <1>1, <1>2, <1>3, PTL DEF Spec

-----------------------------------------------------------------------------
(* The migrations of ping_pong.c *)

MainPhases == {"select", "spawn", "sync", "displaced", "finished"}

MigrationTypeOK ==
    /\ args \in Arguments
    /\ phase \in MainPhases
    /\ left \subseteq Pairs
    /\ here \in Nat /\ start \in Nat
    /\ at \in [Threads -> Int]
    /\ turns \in [Threads -> Nat]
    /\ hops \in [Threads -> Nat]

Measuring == phase \in {"spawn", "sync", "displaced"}

\* The main thread is where the measurement began, or on the stack's nodelet.
PairInUse ==
    Measuring => /\ pair \in Pairs
                 /\ start = pair[1]
                 /\ here \in {start, 0}

\* Where a thread is that has turned as often as t has.
Side(t) == IF turns[t] % 2 = 0 THEN pair[1] ELSE pair[2]

\* If the main thread has not been moved, each thread began on the source, and has
\* never executed a MIGRATE to the nodelet it was on.
EveryTurnHops ==
    Measuring /\ here = start =>
        \A t \in Threads :
            /\ hops[t] = turns[t]
            /\ IF at[t] = Nowhere THEN turns[t] = 0 ELSE at[t] = Side(t)

\* Between two measurements no thread exists.
NoThreads ==
    ~Measuring =>
        \A t \in Threads : at[t] = Nowhere /\ turns[t] = 0 /\ hops[t] = 0

MigrationInv == MigrationTypeOK /\ PairInUse /\ EveryTurnHops /\ NoThreads

\* The two sides of a pair are different nodelets.
LEMMA PairIs ==
    ASSUME PingPongAssumption, args \in Arguments,
           NEW p \in Pairs
    PROVE  p[1] \in Nat /\ p[2] \in Nat /\ p[1] # p[2]
<1>1. args.nodelets \in Nat
  BY DEF PingPongAssumption
<1>2. \A k \in Nodelets : k \in Nat
  BY <1>1 DEF Nodelets
<1>3. /\ p[1] \in Nodelets /\ p[2] \in Nodelets
      /\ p[1] < p[2] \/ p[1] # p[2]
  BY DEF Pairs, AllPairs, DistPairs
<1> QED
  BY <1>2, <1>3

\* num_migrations is a multiple of four: the loop executes as many as it was asked for.
LEMMA RoundsAre ==
    ASSUME PingPongAssumption, args \in Arguments
    PROVE  /\ args.num_migrations \in Nat \ {0}
           /\ Rounds = args.num_migrations
           /\ args.num_migrations % 2 = 0
<1> DEFINE Fours == {4, 8, 16, 32, 64, 128, 256, 512, 1024, 2048, 4096, 8192, 16384, 32768,
                     65536, 131072, 262144, 524288, 1048576, 2097152, 4194304, 8388608,
                     16777216, 33554432, 67108864, 134217728, 268435456, 536870912,
                     1073741824}
<1>1. /\ 2^2 = 4 /\ 2^3 = 8 /\ 2^4 = 16 /\ 2^5 = 32 /\ 2^6 = 64 /\ 2^7 = 128
      /\ 2^8 = 256 /\ 2^9 = 512 /\ 2^10 = 1024 /\ 2^11 = 2048 /\ 2^12 = 4096
      /\ 2^13 = 8192 /\ 2^14 = 16384 /\ 2^15 = 32768 /\ 2^16 = 65536 /\ 2^17 = 131072
      /\ 2^18 = 262144 /\ 2^19 = 524288 /\ 2^20 = 1048576 /\ 2^21 = 2097152
      /\ 2^22 = 4194304 /\ 2^23 = 8388608 /\ 2^24 = 16777216 /\ 2^25 = 33554432
      /\ 2^26 = 67108864 /\ 2^27 = 134217728 /\ 2^28 = 268435456
      /\ 2^29 = 536870912 /\ 2^30 = 1073741824
  OBVIOUS
<1>2. \A x \in Fours : x \in Nat \ {0} /\ (x \div 4) * 4 = x /\ x % 2 = 0
  OBVIOUS
<1>3. args.num_migrations \in {2^k : k \in 2..30}
  BY DEF PingPongAssumption
<1>4. args.num_migrations \in Fours
  BY <1>1, <1>3
<1> HIDE DEF Fours
<1> QED
  BY <1>2, <1>4 DEF Rounds

\* After each turn a thread is on the other side.
LEMMA TurnsAlternate ==
    ASSUME NEW k \in Nat PROVE k + 1 \in Nat /\ ((k + 1) % 2 = 0 <=> k % 2 # 0)
OBVIOUS

\* A migration takes a thread to the other nodelet of its pair.
LEMMA MigrateKeeps ==
    ASSUME PingPongAssumption, MigrationInv,
           NEW t \in Threads, Migrate(t)
    PROVE  MigrationInv'
<1>1. PICK target : /\ target = IF turns[t] % 2 = 0 THEN pair[2] ELSE pair[1]
                    /\ at' = [at EXCEPT ![t] = target]
                    /\ hops' = [hops EXCEPT ![t] = IF at[t] = target THEN @ ELSE @ + 1]
  BY DEF Migrate
<1>2. /\ at[t] # Nowhere /\ turns' = [turns EXCEPT ![t] = @ + 1]
      /\ UNCHANGED <<args, phase, trial, left, pair, here, start, results>>
  BY DEF Migrate
<1>3. Threads' = Threads /\ Pairs' = Pairs
  BY <1>2 DEF Threads, Pairs, AllPairs, DistPairs,
              Nodelets, Given
<1>4. at \in [Threads -> Int] /\ turns \in [Threads -> Nat]
         /\ hops \in [Threads -> Nat]
  BY DEF MigrationInv, MigrationTypeOK
<1>5. Measuring
  BY <1>2 DEF MigrationInv, NoThreads
<1>6. /\ pair \in Pairs /\ pair[1] \in Nat /\ pair[2] \in Nat
      /\ pair[1] # pair[2] /\ target \in {pair[1], pair[2]}
  BY <1>1, <1>5, PairIs DEF MigrationInv, MigrationTypeOK, PairInUse
<1>7. MigrationTypeOK' /\ PairInUse' /\ NoThreads'
  <2>1. /\ at' \in [Threads -> Int] /\ turns' \in [Threads -> Nat]
        /\ hops' \in [Threads -> Nat]
    BY <1>1, <1>2, <1>4, <1>6
  <2>2. Measuring'
    BY <1>2, <1>5 DEF Measuring
  <2> QED
    BY <1>2, <1>3, <2>1, <2>2 DEF MigrationInv, MigrationTypeOK, PairInUse, NoThreads, Measuring
<1>8. EveryTurnHops'
  <2>1. SUFFICES ASSUME here = start, NEW u \in Threads
                 PROVE  /\ hops'[u] = turns'[u]
                        /\ IF at'[u] = Nowhere THEN turns'[u] = 0
                                                         ELSE at'[u] = Side(u)'
    BY <1>2, <1>3 DEF EveryTurnHops, Nowhere
  <2>2. /\ hops[u] = turns[u]
        /\ IF at[u] = Nowhere THEN turns[u] = 0 ELSE at[u] = Side(u)
    BY <1>5, <2>1 DEF MigrationInv, EveryTurnHops
  <2>3. CASE u # t
    BY <1>1, <1>2, <1>4, <2>2, <2>3 DEF Side
  <2>4. CASE u = t
    <3>1. turns[t] \in Nat /\ turns'[t] = turns[t] + 1 /\ at'[t] = target
      BY <1>1, <1>2, <1>4
    <3>2. at[t] # target
      BY <1>1, <1>2, <1>6, <2>2, <2>4 DEF Side
    <3>3. hops'[t] = hops[t] + 1
      BY <1>1, <1>4, <3>2
    <3>4. target # Nowhere
      BY <1>6 DEF Nowhere
    <3>5. turns'[t] % 2 = 0 <=> turns[t] % 2 # 0
      BY <3>1, TurnsAlternate
    <3>6. target = Side(t)'
      BY <1>1, <1>2, <3>5 DEF Side
    <3> QED
      BY <2>2, <2>4, <3>1, <3>3, <3>4, <3>6
  <2> QED
    BY <2>3, <2>4
<1> QED
  BY <1>7, <1>8 DEF MigrationInv

\* The sets that depend on the command line alone.
LEMMA SameSets ==
    ASSUME args' = args
    PROVE  Threads' = Threads /\ Pairs' = Pairs
BY DEF Threads, Pairs, AllPairs, DistPairs,
       Nodelets, Given

\* A new pair is taken when no thread of the last one is left.
LEMMA SelectPairKeeps ==
    ASSUME PingPongAssumption, MigrationInv, SelectPair
    PROVE  MigrationInv'
<1>1. PICK p \in left : left' = left \ {p} /\ pair' = p /\ here' = p[1] /\ start' = p[1]
  BY DEF SelectPair
<1>2. /\ phase = "select" /\ phase' = "spawn"
      /\ UNCHANGED <<args, trial, at, turns, hops, results>>
  BY DEF SelectPair, threadVars
<1>3. p \in Pairs /\ p[1] \in Nat
  BY PairIs DEF MigrationInv, MigrationTypeOK
<1>4. \A t \in Threads : at[t] = Nowhere /\ turns[t] = 0 /\ hops[t] = 0
  BY <1>2 DEF MigrationInv, NoThreads, Measuring
<1>5. MigrationTypeOK'
  BY <1>1, <1>2, <1>3, SameSets DEF MigrationInv, MigrationTypeOK, MainPhases
<1>6. PairInUse' /\ NoThreads'
  BY <1>1, <1>2, <1>3, SameSets DEF PairInUse, NoThreads, Measuring
<1>7. EveryTurnHops'
  BY <1>2, <1>4, SameSets DEF EveryTurnHops, Nowhere
<1> QED
  BY <1>5, <1>6, <1>7 DEF MigrationInv

\* A thread starts on the source of its pair, with no turn done.
LEMMA SpawnKeeps ==
    ASSUME PingPongAssumption, MigrationInv, Spawn
    PROVE  MigrationInv'
<1>1. PICK t \in Threads :
         /\ at[t] = Nowhere
         /\ at' = [at EXCEPT ![t] = here]
         /\ phase' = IF t + 1 = args.num_threads THEN "sync" ELSE "spawn"
  BY DEF Spawn
<1>2. /\ phase = "spawn" /\ here' = IF args.spills THEN 0 ELSE here
      /\ UNCHANGED <<args, trial, left, pair, start, turns, hops, results>>
  BY DEF Spawn
<1>3. Measuring /\ Measuring'
  BY <1>1, <1>2 DEF Measuring
<1>4. /\ pair \in Pairs /\ start = pair[1] /\ here \in {start, 0}
      /\ here \in Nat /\ start \in Nat
  BY <1>3 DEF MigrationInv, MigrationTypeOK, PairInUse
<1>5. at \in [Threads -> Int]
  BY DEF MigrationInv, MigrationTypeOK
<1>6. MigrationTypeOK'
  <2>1. at' \in [Threads -> Int] /\ phase' \in MainPhases /\ here' \in Nat
    BY <1>1, <1>2, <1>4, <1>5 DEF MainPhases
  <2> QED
    BY <1>2, <2>1, SameSets DEF MigrationInv, MigrationTypeOK
<1>7. PairInUse' /\ NoThreads'
  BY <1>2, <1>3, <1>4, SameSets DEF PairInUse, NoThreads
<1>8. EveryTurnHops'
  <2>1. SUFFICES ASSUME here' = start, NEW u \in Threads
                 PROVE  /\ hops'[u] = turns'[u]
                        /\ IF at'[u] = Nowhere THEN turns'[u] = 0
                                                         ELSE at'[u] = Side(u)'
    BY <1>2, SameSets DEF EveryTurnHops, Nowhere
  <2>2. here = start
    BY <1>2, <1>4, <2>1
  <2>3. /\ hops[u] = turns[u]
        /\ IF at[u] = Nowhere THEN turns[u] = 0 ELSE at[u] = Side(u)
    BY <1>3, <2>2 DEF MigrationInv, EveryTurnHops
  <2>4. Side(u)' = Side(u)
    BY <1>2 DEF Side
  <2>5. CASE u # t
    BY <1>1, <1>2, <1>5, <2>3, <2>4, <2>5
  <2>6. CASE u = t
    <3>1. turns[t] = 0 /\ at'[t] = start
      BY <1>1, <1>5, <2>2, <2>3, <2>6
    <3>2. Side(t) = start
      BY <1>4, <3>1 DEF Side
    <3> QED
      BY <1>2, <2>3, <2>4, <2>6, <3>1, <3>2
  <2> QED
    BY <2>5, <2>6
<1> QED
  BY <1>6, <1>7, <1>8 DEF MigrationInv

\* All threads that are waited for have done all turns: the sums are those asked for.
LEMMA CollectKeeps ==
    ASSUME PingPongAssumption, MigrationInv, Collect
    PROVE  MigrationInv'
<1>1. /\ phase' = "select" /\ here' \in Nodelets
      /\ UNCHANGED <<args, trial, left, pair, start>>
      /\ at' = [t \in Threads |-> Nowhere]
      /\ turns' = [t \in Threads |-> 0]
      /\ hops' = [t \in Threads |-> 0]
  BY DEF Collect, Idle
<1>2. here' \in Nat /\ Nowhere \in Int
  <2>1. args.nodelets \in Nat
    BY DEF MigrationInv, MigrationTypeOK, PingPongAssumption
  <2> QED
    BY <1>1, <2>1 DEF Nodelets, Nowhere
<1>3. MigrationTypeOK'
  BY <1>1, <1>2, SameSets DEF MigrationInv, MigrationTypeOK, MainPhases
<1>4. ~Measuring' /\ Nowhere' = Nowhere
  BY <1>1 DEF Measuring, Nowhere
<1> QED
  BY <1>1, <1>3, <1>4, SameSets DEF MigrationInv, PairInUse, EveryTurnHops, NoThreads

\* A main thread that finds itself elsewhere adds nothing.
LEMMA DisplacedKeeps ==
    ASSUME MigrationInv, Displaced
    PROVE  MigrationInv'
<1>1. /\ phase = "sync" /\ phase' = "displaced"
      /\ UNCHANGED <<args, trial, left, pair, here, start, at, turns, hops, results>>
  BY DEF Displaced, ThreadsDone, threadVars
<1>2. Measuring /\ Measuring'
  BY <1>1 DEF Measuring
<1>3. Nowhere' = Nowhere
  BY DEF Nowhere
<1>4. MigrationTypeOK'
  BY <1>1, SameSets DEF MigrationInv, MigrationTypeOK, MainPhases
<1>5. EveryTurnHops'
  <2>1. \A t : Side(t)' = Side(t)
    BY <1>1 DEF Side
  <2> QED
    BY <1>1, <1>2, <1>3, <2>1, SameSets DEF MigrationInv, EveryTurnHops
<1> QED
  BY <1>1, <1>2, <1>4, <1>5, SameSets DEF MigrationInv, PairInUse, NoThreads

\* A trial ends when no pair is left.
LEMMA EndOfTrialKeeps ==
    ASSUME MigrationInv, EndTrial
    PROVE  MigrationInv'
<1>1. /\ phase = "select" /\ phase' \in {"select", "finished"}
      /\ left' \in {left, Pairs}
      /\ UNCHANGED <<args, pair, here, start, at, turns, hops, results>>
  BY DEF EndTrial, threadVars
<1>2. ~Measuring /\ ~Measuring' /\ Nowhere' = Nowhere
  BY <1>1 DEF Measuring, Nowhere
<1>3. MigrationTypeOK'
  BY <1>1, SameSets DEF MigrationInv, MigrationTypeOK, MainPhases
<1> QED
  BY <1>1, <1>2, <1>3, SameSets DEF MigrationInv, PairInUse, EveryTurnHops, NoThreads

\* The invariant holds at the start, when nothing is measured.
LEMMA MigrationInvInit == PingPongInit => MigrationInv
<1> SUFFICES ASSUME PingPongInit PROVE MigrationInv
  OBVIOUS
<1> USE DEF PingPongInit
<1>1. MigrationTypeOK
  BY DEF MigrationTypeOK, MainPhases, Nowhere
<1>2. ~Measuring
  BY DEF Measuring
<1> QED
  BY <1>1, <1>2 DEF MigrationInv, PairInUse, EveryTurnHops, NoThreads

\* Every step of the program keeps the invariant.
LEMMA MigrationInvStep ==
    PingPongAssumption /\ MigrationInv /\ [PingPongNext]_pingPongVars
        => MigrationInv'
<1> SUFFICES ASSUME PingPongAssumption, MigrationInv,
                    [PingPongNext]_pingPongVars
             PROVE  MigrationInv'
  OBVIOUS
<1>1. CASE MainStep
  BY <1>1, SelectPairKeeps, SpawnKeeps, CollectKeeps, DisplacedKeeps, EndOfTrialKeeps
     DEF MainStep
<1>2. ASSUME NEW t \in Threads, Migrate(t) PROVE MigrationInv'
  BY <1>2, MigrateKeeps
<1>3. CASE UNCHANGED pingPongVars
  BY <1>3, SameSets DEF pingPongVars, threadVars, MigrationInv, MigrationTypeOK,
     PairInUse, EveryTurnHops, NoThreads, Measuring, Side, Nowhere
<1> QED
  BY <1>1, <1>2, <1>3 DEF PingPongNext

\* What ping_pong.c adds to its results is the time of real migrations: for any number
\* of threads, nodelets and migrations, every thread has left the nodelet it was on
\* num_migrations times and is back on the source, or the program has noticed that
\* the main thread was moved, and adds nothing.
THEOREM PingPongMeasuresMigrations ==
    ASSUME PingPongAssumption
    PROVE  PingPongSpec => MeasuresMigrations
<1>1. ASSUME MigrationInv, [PingPongNext]_pingPongVars, results' # results,
             NEW t \in Threads
      PROVE  hops[t] = args.num_migrations /\ at[t] = pair[1]
  <2>1. Collect
    BY <1>1 DEF PingPongNext, MainStep, SelectPair, Spawn,
       Displaced, EndTrial, Migrate, pingPongVars
  <2>2. /\ phase = "sync" /\ here = start /\ turns[t] = Rounds
    BY <1>1, <2>1 DEF Collect, ThreadsDone
  <2>3. turns[t] # 0 /\ turns[t] % 2 = 0 /\ turns[t] = args.num_migrations
    BY <1>1, <2>2, RoundsAre DEF MigrationInv, MigrationTypeOK
  <2>4. /\ hops[t] = turns[t]
        /\ IF at[t] = Nowhere THEN turns[t] = 0 ELSE at[t] = Side(t)
    BY <1>1, <2>2 DEF MigrationInv, EveryTurnHops, Measuring
  <2> QED
    BY <2>3, <2>4 DEF Side
<1>2. MigrationInv /\ [PingPongNext]_pingPongVars
         => [results' # results =>
                \A t \in Threads :
                    hops[t] = args.num_migrations /\ at[t] = pair[1]]_pingPongVars
  BY <1>1
<1>3. MigrationInv /\ [PingPongNext]_pingPongVars => MigrationInv'
  BY MigrationInvStep
<1> QED
  BY <1>2, <1>3, MigrationInvInit, PTL DEF PingPongSpec, MeasuresMigrations
=============================================================================
