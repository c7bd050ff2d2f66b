-------------------------- MODULE TrunkRing_proofs --------------------------
(***************************************************************************)
(* Machine-checked facts about TrunkRing, for every trunk, every pin count *)
(* and both ring sizes.                                                    *)
(***************************************************************************)
EXTENDS TrunkRingInv, NumberFacts, TLAPS

USE DEF Signal, Broadcast

(***************************************************************************)
(* The arithmetic of a walk.                                               *)
(***************************************************************************)
LEMMA Repeats ==
  ASSUME NEW w \in Walks
  PROVE  /\ Span(w) \in Nat \ {0}
         /\ (w.passes - 1) * Span(w) \in Nat
         /\ NV(w) \in Nat \ {0}
         /\ w.b < NV(w)
  <1>1. w \in WalkType /\ w.a <= w.b /\ w.b < w.bound
    BY WalkAssumption
  <1>2. Span(w) \in Nat \ {0} /\ w.passes - 1 \in Nat
    BY <1>1, WalkAssumption DEF WalkType, Span
  <1>3. \A m, n \in Nat : m * n \in Nat
    OBVIOUS
  <1>4. (w.passes - 1) * Span(w) \in Nat
    BY <1>2, <1>3
  <1>5. QED
    BY <1>1, <1>2, <1>4, WalkAssumption DEF NV, WalkType

(* Every position of a walk runs one of the layers the run binds. *)
LEMMA WalkStaysBound ==
  ASSUME NEW w \in Walks, NEW v \in 0 .. NV(w) - 1
  PROVE  LayerAt(w, v) \in 0 .. w.bound - 1
  <1> DEFINE rep == (w.passes - 1) * Span(w)
  <1>1. w \in WalkType /\ w.a <= w.b /\ w.b < w.bound
    BY WalkAssumption
  <1>2. Span(w) \in Nat \ {0} /\ rep \in Nat /\ NV(w) = w.bound + rep
    BY Repeats DEF NV
  <1>3. w.a \in Nat /\ w.b \in Nat /\ w.bound \in Nat
    BY <1>1, WalkAssumption DEF WalkType
  <1>4. CASE v <= w.b
    BY <1>1, <1>3, <1>4 DEF LayerAt
  <1>5. CASE v > w.b /\ v <= w.b + rep
    <2>1. (v - w.b - 1) % Span(w) \in 0 .. Span(w) - 1
      BY <1>2, <1>3
    <2>2. LayerAt(w, v) = w.a + ((v - w.b - 1) % Span(w))
      BY <1>3, <1>5 DEF LayerAt
    <2>3. QED
      BY <2>1, <2>2, <1>1, <1>3 DEF Span
  <1>6. CASE v > w.b + rep
    <2>1. LayerAt(w, v) = v - rep
      BY <1>2, <1>3, <1>6 DEF LayerAt
    <2> HIDE DEF rep
    <2>2. QED
      BY <2>1, <1>1, <1>2, <1>3, <1>6
  <1> HIDE DEF rep
  <1>7. QED
    BY <1>2, <1>3, <1>4, <1>5, <1>6

LEMMA FollowingStays ==
  ASSUME NEW w \in Walks, NEW v \in 0 .. NV(w) - 1
  PROVE  Following(w, v) \subseteq 0 .. NV(w) - 1
  <1> DEFINE rep == (w.passes - 1) * Span(w)
  <1>1. rep \in Nat /\ NV(w) = w.bound + rep /\ NV(w) \in Nat \ {0}
    BY Repeats DEF NV
  <1>2. w.b \in Nat /\ w.bound \in Nat
    BY WalkAssumption DEF WalkType
  <1>3. AfterSpan(w) = w.b + 1 + rep
    BY DEF AfterSpan
  <1> HIDE DEF rep
  <1>4. \A u \in Nat : Wrap(w, u) \in 0 .. NV(w) - 1
    BY <1>1 DEF Wrap
  <1>5. AfterSpan(w) \in Nat /\ v + 1 \in Nat
    BY <1>1, <1>2, <1>3
  <1>6. QED
    BY <1>4, <1>5 DEF Following

(***************************************************************************)
(* Type correctness, whatever the walks.                                   *)
(***************************************************************************)
LEMMA TypeSteps ==
  /\ RInit => RTypeOK
  /\ RTypeOK /\ [RNext]_rvars => RTypeOK'
  <1>1. RInit => RTypeOK
    <2> SUFFICES ASSUME RInit PROVE RTypeOK
      OBVIOUS
    <2>1. 0 \in 0 .. NV(walk) - 1
      BY Repeats DEF RInit
    <2>2. 0 \in Layers
      BY WalkAssumption DEF Layers
    <2>3. /\ rpc \in {"none", "poll", "read", "exited"}
          /\ ring \in Slots /\ io_slot \in Slots /\ cur \in Slots \cup {-1}
      BY DEF RInit, TrunkOpen, Slots
    <2>4. /\ layer_of \in [Slots -> Layers \cup {-1}]
          /\ slot_of \in [Layers -> Int]
          /\ content \in [Slots -> Layers \cup {-1, Torn}]
          /\ writing \in [Slots -> SUBSET {"main", "reader"}]
      BY DEF RInit, TrunkOpen
    <2>5. QED
      BY <2>1, <2>2, <2>3, <2>4 DEF RInit, TrunkOpen, RTypeOK
  <1>2. RTypeOK /\ [RNext]_rvars => RTypeOK'
    <2> SUFFICES ASSUME RTypeOK, [RNext]_rvars PROVE RTypeOK'
      OBVIOUS
    <2> USE DEF RTypeOK, sizes
    <2>1. L \in Layers /\ L < walk.bound /\ walk.bound <= NLayers
      BY WalkStaysBound, WalkAssumption DEF L, Layers, WalkType
    <2>2. Hint \in Layers \/ Hint = NLayers
      <3>1. NV(walk) \in Nat \ {0}
        BY Repeats
      <3>2. CASE pos + 1 < NV(walk)
        <4>1. Hint = LayerAt(walk, pos + 1) /\ pos + 1 \in 0 .. NV(walk) - 1
          BY <3>1, <3>2 DEF Hint
        <4>2. Hint \in 0 .. walk.bound - 1
          BY <4>1, WalkStaysBound
        <4>3. QED
          BY <4>2, <2>1, WalkAssumption DEF Layers, WalkType
      <3>3. CASE ~(pos + 1 < NV(walk))
        BY <3>3, WalkAssumption DEF Hint, Layers, WalkType
      <3>4. QED
        BY <3>2, <3>3
    <2>3. /\ (ring + 1) % nslot \in Slots
          /\ \A s \in Slots : s \in Int
      BY DEF Slots
    <2>4. CASE BindPinned
      <3>1. slot_of' \in [Layers -> Int]
        BY <2>1, <2>4 DEF BindPinned, Layers
      <3>2. cur' \in Slots \cup {-1} /\ mpc' \in {"bound", "failed"} /\ Slots' = Slots
        BY <2>4 DEF BindPinned, Slots
      <3>3. UNCHANGED <<sizes, pos, layer_of, ring, handoff, reader, asleep, memory>>
        BY <2>4 DEF BindPinned
      <3>4. QED
        BY <3>1, <3>2, <3>3 DEF handoff, reader, memory
    <2>5. CASE BindHit
      BY <2>5 DEF BindHit, Resident, ringing, handoff, reader, memory, Slots
    <2>6. CASE BindMiss
      BY <2>3, <2>6 DEF BindMiss, Claim, BeginRead, handoff, reader, Slots, Torn
    <2>7. CASE \E ok \in BOOLEAN : ReadSync(ok)
      <3> PICK ok \in BOOLEAN : ReadSync(ok)
        BY <2>7
      <3>1. content' \in [Slots -> Layers \cup {-1, Torn}]
        BY <2>1 DEF ReadSync, EndRead
      <3>2. writing' \in [Slots -> SUBSET {"main", "reader"}]
        BY DEF ReadSync, EndRead
      <3>3. layer_of' \in [Slots -> Layers \cup {-1}]
        BY <2>1 DEF ReadSync
      <3>4. QED
        BY <3>1, <3>2, <3>3 DEF ReadSync, handoff, reader, Slots
    <2>8. CASE WaitTake
      <3>1. /\ layer_of' \in [Slots -> Layers \cup {-1}]
            /\ slot_of' \in [Layers -> Int]
            /\ cur' \in Slots \cup {-1} /\ mpc' \in {"bound", "failed"}
        BY <2>1, <2>3, <2>8 DEF WaitTake
      <3>2. done' \in BOOLEAN /\ Slots' = Slots
        BY <2>8 DEF WaitTake, Slots
      <3>3. UNCHANGED <<sizes, pos, ring, busy, io_layer, io_slot, io_ok, stop,
                        reader, asleep, memory>>
        BY <2>8 DEF WaitTake
      <3>4. QED
        BY <3>1, <3>2, <3>3 DEF reader, memory
    <2>9. CASE WaitSleep
      BY <2>9 DEF WaitSleep, ringing, handoff, reader, memory, Slots
    <2>10. CASE PrefetchIgnored
      BY <2>10 DEF PrefetchIgnored, ringing, handoff, reader, memory, Slots
    <2>11. CASE Prefetch
      <3>1. Hint \in Layers
        BY <2>2, <2>11, WalkAssumption DEF Prefetch, Wanted, Layers
      <3>2. /\ layer_of' \in [Slots -> Layers \cup {-1}]
            /\ slot_of' \in [Layers -> Int]
            /\ ring' \in Slots
        BY <2>3, <2>11 DEF Prefetch, Claim
      <3>3. QED
        BY <3>1, <3>2, <2>11 DEF Prefetch, reader, memory, Slots
    <2>12. CASE ComputeLayer
      BY FollowingStays, <2>12 DEF ComputeLayer, ringing, handoff, reader, memory, Slots
    <2>13. CASE CloseBegin \/ CloseEnd
      BY <2>13 DEF CloseBegin, CloseEnd, ringing, handoff, reader, memory, Slots
    <2>14. CASE ReaderPoll
      <3>1. job' \in [layer : Layers, slot : Slots]
        BY <2>14 DEF ReaderPoll, reader
      <3>2. content' \in [Slots -> Layers \cup {-1, Torn}]
        BY <2>14 DEF ReaderPoll, BeginRead, memory
      <3>3. writing' \in [Slots -> SUBSET {"main", "reader"}]
        BY <2>14 DEF ReaderPoll, BeginRead, memory
      <3>4. asleep' \subseteq {"main", "reader"} /\ rpc' \in {"poll", "read", "exited"}
        BY <2>14 DEF ReaderPoll, reader
      <3>5. QED
        BY <3>1, <3>2, <3>3, <3>4, <2>14 DEF ReaderPoll, ringing, handoff, Slots
    <2>15. CASE \E ok \in BOOLEAN : ReaderPost(ok)
      <3> PICK ok \in BOOLEAN : ReaderPost(ok)
        BY <2>15
      <3>1. content' \in [Slots -> Layers \cup {-1, Torn}]
        BY DEF ReaderPost, EndRead
      <3>2. writing' \in [Slots -> SUBSET {"main", "reader"}]
        BY DEF ReaderPost, EndRead
      <3>3. QED
        BY <3>1, <3>2 DEF ReaderPost, ringing, Slots
    <2>16. CASE \E t \in {"main", "reader"} : SpuriousWakeup(t)
      BY <2>16 DEF SpuriousWakeup, ringing, handoff, reader, memory, Slots
    <2>17. CASE UNCHANGED rvars
      BY <2>17 DEF rvars, Slots
    <2>18. QED
      BY <2>4, <2>5, <2>6, <2>7, <2>8, <2>9, <2>10, <2>11, <2>12, <2>13, <2>14,
         <2>15, <2>16, <2>17 DEF RNext, MainStep, ReaderStep, Terminated
  <1>3. QED
    BY <1>1, <1>2

(* Every variable of TrunkRing keeps its type, for every set of walks. *)
THEOREM TypeCorrect == RSpec => []RTypeOK
  BY TypeSteps, PTL DEF RSpec
-----------------------------------------------------------------------------
(***************************************************************************)
(* The walks that bind the whole stack and stop no token early.            *)
(***************************************************************************)

(* Numbers of a walk: rep positions are repeats of the span a .. b.        *)
LEMMA WalkNumbers ==
  ASSUME NEW w \in Walks, FullWalk(w)
  PROVE  /\ NLayers \in Nat \ {0} /\ w.a \in Nat /\ w.b \in Nat /\ w.passes \in Nat \ {0}
         /\ w.a <= w.b /\ w.b < NLayers
         /\ Span(w) \in Nat \ {0} /\ (w.passes - 1) * Span(w) \in Nat
         /\ NV(w) = NLayers + (w.passes - 1) * Span(w)
         /\ AfterSpan(w) = w.b + 1 + (w.passes - 1) * Span(w)
  <1>1. w \in WalkType /\ w.a <= w.b /\ w.b < w.bound /\ NLayers \in Nat \ {0}
    BY WalkAssumption
  <1>2. w.bound = NLayers /\ w.a \in Nat /\ w.b \in Nat /\ w.passes \in Nat \ {0}
    BY <1>1 DEF WalkType, FullWalk
  <1>3. Span(w) \in Nat \ {0} /\ (w.passes - 1) * Span(w) \in Nat
    BY Repeats
  <1>4. NV(w) = NLayers + (w.passes - 1) * Span(w)
    BY <1>2 DEF NV
  <1>5. AfterSpan(w) = w.b + 1 + (w.passes - 1) * Span(w)
    BY DEF AfterSpan
  <1>6. QED
    BY <1>1, <1>2, <1>3, <1>4, <1>5

(* Place d of the repeats, and the one behind it, within their passes.     *)
InSpan(span, rep, d) ==
  LET t == d % span
      u == (d + 1) % span
  IN  /\ t \in 0 .. span - 1
      /\ t # span - 1 => u = t + 1 /\ d + 1 < rep
      /\ t = span - 1 => u = 0
      /\ d + 1 = rep => t = span - 1

(* Where in its pass a position of the repeats is: pass q of them begins   *)
(* q spans behind b, and there the span's layer t is served.               *)
LEMMA SpanNumbers ==
  ASSUME NEW span \in Nat \ {0}, NEW passes \in Nat \ {0}, NEW d \in Nat,
         NEW rep, rep = (passes - 1) * span, d < rep
  PROVE  InSpan(span, rep, d)
  <1>1. PICK q \in Int, t \in 0 .. span - 1 :
          q = d \div span /\ t = d % span /\ q * span \in Int /\ d = q * span + t
    <2>1. /\ d \div span \in Int /\ d % span \in 0 .. span - 1
          /\ (d \div span) * span \in Int /\ d = (d \div span) * span + (d % span)
      BY DivMod
    <2>2. QED
      BY <2>1
  <1>2. q * span \in Int /\ d = q * span + t
    BY <1>1
  <1>3. t # span - 1 => (d + 1) % span = t + 1
    <2> SUFFICES ASSUME t # span - 1 PROVE (d + 1) % span = t + 1
      OBVIOUS
    <2>1. PICK u \in 0 .. span - 1 : u = t + 1
      OBVIOUS
    <2>2. (q * span + u) % span = u
      BY DivModUnique
    <2>3. d + 1 = q * span + u
      BY <1>2, <2>1
    <2>4. QED
      BY <2>1, <2>2, <2>3
  <1>4. t = span - 1 => (d + 1) % span = 0
    <2> SUFFICES ASSUME t = span - 1 PROVE (d + 1) % span = 0
      OBVIOUS
    <2>1. PICK z \in 0 .. span - 1 : z = 0
      OBVIOUS
    <2>2. PICK p \in Int : p = q + 1
      OBVIOUS
    <2>3. (p * span + z) % span = z
      BY DivModUnique
    <2>4. p * span = q * span + span
      BY <2>2, Distribute
    <2>5. PICK x \in Int : x = q * span
      BY <1>2
    <2>6. d + 1 = p * span + z
      BY <1>2, <2>1, <2>4, <2>5
    <2>7. QED
      BY <2>1, <2>3, <2>6
  <1>5. d + 1 = rep => t = span - 1
    <2> SUFFICES ASSUME d + 1 = rep PROVE t = span - 1
      OBVIOUS
    <2>1. PICK p \in Int : p = passes - 2 /\ passes - 1 = p + 1
      OBVIOUS
    <2>2. PICK u \in 0 .. span - 1 : u = span - 1
      OBVIOUS
    <2>3. (p * span + u) % span = u
      BY DivModUnique
    <2>4. rep = p * span + span
      BY <2>1, Distribute
    <2>5. PICK x \in Int : x = p * span
      OBVIOUS
    <2>6. d = p * span + u
      BY <2>2, <2>4, <2>5
    <2>7. QED
      BY <1>1, <2>2, <2>3, <2>6
  <1>6. rep \in Nat
    <2>1. PICK p \in Nat : p = passes - 1
      OBVIOUS
    <2>2. p * span \in Nat
      OBVIOUS
    <2>3. QED
      BY <2>1, <2>2
  <1>7. t # span - 1 => d + 1 < rep
    BY <1>5, <1>6
  <1>8. QED
    BY <1>1, <1>3, <1>4, <1>5, <1>7 DEF InSpan

(* The layer after layer l: the next one, but after the last layer of the  *)
(* span its first, as long as repeats are left.                            *)
LEMMA WalkSteps ==
  ASSUME walk \in Walks, FullWalk(walk), NEW v \in 0 .. NV(walk) - 1,
         NEW l, l = LayerAt(walk, v)
  PROVE  /\ l \in 0 .. NLayers - 1
         /\ v <= walk.b => l = v /\ ~AgainAt(v)
         /\ AgainAt(v) => l \in walk.a .. walk.b
         /\ v + 1 < NV(walk) /\ l # walk.b =>
              LayerAt(walk, v + 1) = l + 1 /\ (AgainAt(v + 1) <=> AgainAt(v))
         /\ v + 1 < NV(walk) /\ l = walk.b =>
              \/ LayerAt(walk, v + 1) = walk.a /\ AgainAt(v + 1)
              \/ LayerAt(walk, v + 1) = walk.b + 1 /\ ~AgainAt(v + 1)
         /\ v + 1 = NV(walk) => l = NLayers - 1
  <1>1. PICK a \in Nat, b \in Nat, passes \in Nat \ {0} :
          a = walk.a /\ b = walk.b /\ passes = walk.passes
    BY WalkNumbers
  <1>2. PICK span \in Nat \ {0}, rep \in Nat :
          span = Span(walk) /\ rep = (passes - 1) * span
    BY <1>1, WalkNumbers
  <1>3. /\ span = b - a + 1 /\ a <= b /\ b < NLayers /\ NLayers \in Nat
        /\ NV(walk) = NLayers + rep /\ AfterSpan(walk) = b + 1 + rep
    BY <1>1, <1>2, WalkNumbers DEF Span
  <1> DEFINE turn == [d \in Nat |-> d % span]
  <1>4. \A u \in Nat :
          LayerAt(walk, u) = IF u <= b THEN u
                             ELSE IF u <= b + rep THEN a + turn[u - b - 1] ELSE u - rep
    <2> SUFFICES ASSUME NEW u \in Nat
                 PROVE  LayerAt(walk, u) = IF u <= b THEN u
                          ELSE IF u <= b + rep THEN a + turn[u - b - 1] ELSE u - rep
      OBVIOUS
    <2>1. u > b => u - b - 1 \in Nat
      OBVIOUS
    <2>2. u > b => turn[u - b - 1] = (u - b - 1) % span
      BY <2>1
    <2>3. LayerAt(walk, u) = IF u <= b THEN u
                             ELSE IF u <= b + rep THEN a + ((u - b - 1) % span) ELSE u - rep
      BY <1>1, <1>2 DEF LayerAt
    <2>4. QED
      BY <2>2, <2>3
  <1>5. turn[0] = 0
    <2>1. PICK z \in 0 .. span - 1 : z = 0
      OBVIOUS
    <2>2. PICK q \in Int : q = 0
      OBVIOUS
    <2>3. (q * span + z) % span = z
      BY DivModUnique
    <2>4. q * span + z = 0
      BY <2>1, <2>2
    <2>5. QED
      BY <2>1, <2>3, <2>4
  <1>6. ASSUME NEW d \in Nat, d < rep
        PROVE  /\ turn[d] \in 0 .. span - 1
               /\ turn[d] # span - 1 => turn[d + 1] = turn[d] + 1 /\ d + 1 < rep
               /\ turn[d] = span - 1 => turn[d + 1] = 0
               /\ d + 1 = rep => turn[d] = span - 1
    <2>1. InSpan(span, rep, d)
      BY <1>2, <1>6, SpanNumbers
    <2>2. PICK t, t1 : /\ t = d % span /\ t1 = (d + 1) % span
                       /\ t \in 0 .. span - 1
                       /\ t # span - 1 => t1 = t + 1 /\ d + 1 < rep
                       /\ t = span - 1 => t1 = 0
                       /\ d + 1 = rep => t = span - 1
      BY <2>1 DEF InSpan
    <2>3. turn[d] = t /\ turn[d + 1] = t1
      BY <2>2
    <2> HIDE DEF turn
    <2>4. QED
      BY <2>2, <2>3
  <1> HIDE DEF turn
  <1>7. \A u \in Nat : AgainAt(u) <=> u > b /\ u <= b + rep
    BY <1>1, <1>3 DEF AgainAt
  <1>8. v \in Nat /\ v + 1 \in Nat /\ v < NLayers + rep
    BY <1>3
  <1>9. CASE v < b
    <2>1. l = v /\ ~AgainAt(v) /\ ~AgainAt(v + 1) /\ LayerAt(walk, v + 1) = v + 1
      BY <1>4, <1>7, <1>8, <1>9
    <2>2. QED
      BY <1>1, <1>3, <1>8, <1>9, <2>1
  <1>10. CASE v = b
    <2>1. l = b /\ ~AgainAt(v)
      BY <1>4, <1>7, <1>8, <1>10
    <2>2. CASE rep = 0
      <3>1. ~AgainAt(v + 1) /\ LayerAt(walk, v + 1) = b + 1
        BY <1>4, <1>7, <1>8, <1>10, <2>2
      <3>2. QED
        BY <1>1, <1>3, <1>8, <1>10, <2>1, <2>2, <3>1
    <2>3. CASE rep > 0
      <3>1. AgainAt(v + 1) /\ LayerAt(walk, v + 1) = a + turn[0]
        <4>1. v + 1 > b /\ v + 1 <= b + rep /\ v + 1 - b - 1 = 0
          BY <1>8, <1>10, <2>3
        <4>2. QED
          BY <1>4, <1>7, <1>8, <4>1
      <3>2. QED
        BY <1>1, <1>3, <1>8, <1>10, <1>5, <2>1, <2>3, <3>1
    <2>4. QED
      BY <2>2, <2>3
  <1>11. CASE v > b /\ v <= b + rep
    <2>1. PICK d \in Nat : d = v - b - 1 /\ d + 1 = v - b /\ d < rep
      BY <1>8, <1>11
    <2>2. PICK t, t1 : t = turn[d] /\ t1 = turn[d + 1]
      OBVIOUS
    <2>3. /\ t \in 0 .. span - 1
          /\ t # span - 1 => t1 = t + 1 /\ d + 1 < rep
          /\ t = span - 1 => t1 = 0
          /\ d + 1 = rep => t = span - 1
      BY <1>6, <2>1, <2>2
    <2>4. l = a + t /\ AgainAt(v)
      BY <1>4, <1>7, <1>8, <1>11, <2>1, <2>2
    <2>5. CASE d + 1 < rep
      <3>1. AgainAt(v + 1) /\ LayerAt(walk, v + 1) = a + t1
        <4>1. v + 1 > b /\ v + 1 <= b + rep /\ v + 1 - b - 1 = d + 1
          BY <1>8, <1>11, <2>1, <2>5
        <4>2. QED
          BY <1>4, <1>7, <1>8, <2>2, <4>1
      <3>2. v > b /\ v + 1 # NV(walk) /\ l \in a .. b /\ l \in 0 .. NLayers - 1
        BY <1>3, <1>8, <1>11, <2>1, <2>3, <2>4, <2>5
      <3>3. CASE t = span - 1
        <4>1. l = b /\ LayerAt(walk, v + 1) = a
          BY <1>3, <2>3, <2>4, <3>1, <3>3
        <4>2. QED
          BY <1>1, <2>4, <3>1, <3>2, <4>1
      <3>4. CASE t # span - 1
        <4>1. l # b /\ LayerAt(walk, v + 1) = l + 1
          BY <1>3, <2>3, <2>4, <3>1, <3>4
        <4>2. QED
          BY <1>1, <2>4, <3>1, <3>2, <4>1
      <3>5. QED
        BY <3>3, <3>4
    <2>6. CASE d + 1 = rep
      <3>1. ~AgainAt(v + 1) /\ LayerAt(walk, v + 1) = b + 1
        <4>1. v = b + rep
          BY <1>8, <2>1, <2>6
        <4>2. QED
          BY <1>4, <1>7, <1>8, <4>1
      <3>2. l = b /\ v = b + rep
        BY <1>3, <1>8, <2>1, <2>3, <2>4, <2>6
      <3>3. /\ v > b /\ l \in a .. b /\ l \in 0 .. NLayers - 1
            /\ v + 1 = NV(walk) => l = NLayers - 1
        BY <1>3, <1>11, <3>2
      <3>4. QED
        BY <1>1, <2>4, <3>1, <3>2, <3>3
    <2>7. QED
      BY <2>1, <2>5, <2>6
  <1>12. CASE v > b + rep
    <2>1. /\ l = v - rep /\ ~AgainAt(v) /\ ~AgainAt(v + 1)
          /\ LayerAt(walk, v + 1) = v + 1 - rep
      BY <1>4, <1>7, <1>8, <1>12
    <2>2. QED
      BY <1>1, <1>3, <1>8, <1>12, <2>1
  <1>13. QED
    BY <1>8, <1>9, <1>10, <1>11, <1>12

(* The same of the position served.                                        *)
Advances ==
  /\ L \in Layers /\ walk.a \in Nat /\ walk.b \in Layers /\ walk.a <= walk.b
  /\ pos = 0 => L = 0 /\ ~Again
  /\ Again => L \in walk.a .. walk.b
  /\ pos + 1 < NV(walk) =>
       /\ Hint \in Layers
       /\ L # walk.b => Hint = L + 1 /\ (AgainAt(pos + 1) <=> Again)
       /\ L = walk.b => \/ Hint = walk.a /\ AgainAt(pos + 1)
                        \/ Hint = walk.b + 1 /\ ~AgainAt(pos + 1)
  /\ ~(pos + 1 < NV(walk)) => Hint = NLayers /\ L = Final

LEMMA WalkFacts ==
  ASSUME RTypeOK, FullWalk(walk)
  PROVE  Advances /\ Following(walk, pos) = {IF pos + 1 < NV(walk) THEN pos + 1 ELSE 0}
  <1>1. walk \in Walks /\ pos \in 0 .. NV(walk) - 1
    BY DEF RTypeOK
  <1>2. NV(walk) \in Nat \ {0} /\ NLayers \in Nat \ {0} /\ walk.bound = NLayers
        /\ walk.a \in Nat /\ walk.b \in Layers /\ walk.a <= walk.b
    BY <1>1, Repeats, WalkNumbers DEF FullWalk, Layers
  <1>3. L = LayerAt(walk, pos) /\ (Again <=> AgainAt(pos))
    BY DEF L, Again
  <1>4. /\ L \in 0 .. NLayers - 1
        /\ pos <= walk.b => L = pos /\ ~Again
        /\ Again => L \in walk.a .. walk.b
        /\ pos + 1 = NV(walk) => L = NLayers - 1
    BY <1>1, <1>3, WalkSteps
  <1>5. pos + 1 < NV(walk) =>
          /\ Hint = LayerAt(walk, pos + 1)
          /\ L # walk.b => Hint = L + 1 /\ (AgainAt(pos + 1) <=> Again)
          /\ L = walk.b => \/ Hint = walk.a /\ AgainAt(pos + 1)
                           \/ Hint = walk.b + 1 /\ ~AgainAt(pos + 1)
    BY <1>1, <1>3, WalkSteps DEF Hint
  <1>6. pos + 1 < NV(walk) => Hint \in Layers
    <2> SUFFICES ASSUME pos + 1 < NV(walk) PROVE Hint \in Layers
      OBVIOUS
    <2>1. pos + 1 \in 0 .. NV(walk) - 1
      BY <1>1, <1>2
    <2>2. LayerAt(walk, pos + 1) \in 0 .. NLayers - 1
      BY <1>1, <2>1, WalkSteps
    <2>3. QED
      BY <1>5, <2>2 DEF Layers
  <1>7. ~(pos + 1 < NV(walk)) => Hint = NLayers /\ L = Final
    BY <1>1, <1>2, <1>4 DEF Hint, Final
  <1>8. Following(walk, pos) = {IF pos + 1 < NV(walk) THEN pos + 1 ELSE 0}
    <2>1. ~CanStop(walk, pos)
      BY DEF CanStop, FullWalk
    <2>2. QED
      BY <2>1 DEF Following, Wrap
  <1>9. pos = 0 => L = 0 /\ ~Again
    BY <1>2, <1>4 DEF Layers
  <1>10. QED
    BY <1>2, <1>4, <1>5, <1>6, <1>7, <1>8, <1>9 DEF Advances, Layers

(* Two slots alternate; one slot is always the victim. *)
LEMMA RingFacts ==
  ASSUME RTypeOK
  PROVE  /\ Async => Slots = {0, 1} /\ (ring + 1) % nslot = 1 - ring
         /\ ~Async => Slots = {0} /\ ring = 0 /\ (ring + 1) % nslot = ring
         /\ ring \in {0, 1}
  <1>1. nslot = 2 => Slots = {0, 1}
    BY DEF Slots
  <1>2. nslot = 1 => Slots = {0}
    BY DEF Slots
  <1>3. QED
    BY <1>1, <1>2 DEF RTypeOK, Async

LEMMA Advancing == RTypeOK /\ FullWalk(walk) => Advances
  BY WalkFacts

LEMMA FullInit == ASSUME FullWalk(walk), RInit PROVE IInv
  <1>1. RTypeOK
    BY TypeSteps
  <1>2. L = 0 /\ L \in Layers /\ ~Resting
    BY <1>1, WalkFacts DEF RInit, Advances, Resting
  <1>3. HandOff
    BY <1>1, RingFacts DEF RInit, TrunkOpen, HandOff, Pending, Async
  <1>4. Bytes
    BY <1>1 DEF RInit, TrunkOpen, Bytes, Torn
  <1>5. Index
    BY DEF RInit, TrunkOpen, Index
  <1>6. Async => Moving
    BY <1>1, <1>2, RingFacts DEF RInit, TrunkOpen, Moving, Pending, AtStart, Newer, Older
  <1>7. QED
    BY <1>1, <1>3, <1>4, <1>5, <1>6 DEF IInv

(* Claiming the victim slot forgets the layer that was in it, and no other. *)
LEMMA ClaimKeepsIndex ==
  ASSUME RTypeOK, Index, Claim, npin' = npin, nslot' = nslot
  PROVE  Index'
  <1>1. Slots' = Slots
    BY DEF Slots
  <1> SUFFICES ASSUME NEW l \in Layers, l >= npin, slot_of'[l] >= 0
               PROVE  slot_of'[l] \in Slots /\ layer_of'[slot_of'[l]] = l
    BY <1>1 DEF Index
  <1>2. slot_of'[l] = slot_of[l] /\ layer_of[ring] # l
    <2>1. CASE layer_of[ring] = l
      <3>1. slot_of' = [slot_of EXCEPT ![l] = -1]
        BY <2>1 DEF Claim, Layers
      <3>2. QED
        BY <3>1 DEF RTypeOK
    <2>2. CASE layer_of[ring] # l
      BY <2>2 DEF Claim, RTypeOK
    <2>3. QED
      BY <2>1, <2>2
  <1>3. slot_of[l] \in Slots /\ layer_of[slot_of[l]] = l
    BY <1>2 DEF Index
  <1>4. QED
    BY <1>2, <1>3 DEF Claim, RTypeOK

(***************************************************************************)
(* What the two slots hold, by the position served.                        *)
(***************************************************************************)
LEMMA Numbers ==
  ASSUME RTypeOK, FullWalk(walk), Async
  PROVE  /\ NLayers \in Nat \ {0} /\ npin \in Nat /\ npin <= NLayers
         /\ L \in Nat /\ L < NLayers /\ Final = NLayers - 1
         /\ walk.a \in Nat /\ walk.b \in Nat /\ walk.a <= walk.b /\ walk.b < NLayers
         /\ Older \in Int /\ Newer \in Int
         /\ Slots = {0, 1} /\ ring \in {0, 1} /\ 1 - ring \in {0, 1}
         /\ \A s \in Slots : layer_of[s] = Older \/ layer_of[s] = Newer
         /\ \A l \in Int : (\E s \in Slots : layer_of[s] = l) <=> l = Older \/ l = Newer
  <1>1. NLayers \in Nat \ {0} /\ npin \in 0 .. NLayers
    BY WalkAssumption DEF RTypeOK
  <1>2. L \in 0 .. NLayers - 1 /\ walk.a \in Nat /\ walk.b \in 0 .. NLayers - 1
        /\ walk.a <= walk.b
    BY WalkFacts DEF Advances, Layers
  <1>3. Slots = {0, 1} /\ ring \in {0, 1} /\ 1 - ring \in {0, 1}
    BY RingFacts
  <1>4. \A s \in Slots : layer_of[s] \in Int
    BY <1>1 DEF RTypeOK, Layers
  <1>5. Older \in Int /\ Newer \in Int
    BY <1>3, <1>4 DEF Older, Newer
  <1>6. \A s \in Slots : s = ring \/ s = 1 - ring
    BY <1>3
  <1>7. \A s \in Slots : layer_of[s] = Older \/ layer_of[s] = Newer
    BY <1>6 DEF Older, Newer
  <1>8. \A l \in Int : (\E s \in Slots : layer_of[s] = l) <=> l = Older \/ l = Newer
    BY <1>3, <1>6 DEF Older, Newer
  <1>9. QED
    BY <1>1, <1>2, <1>3, <1>5, <1>7, <1>8 DEF Final

(* A repeat of a span that fits is served from the ring alone.             *)
LEMMA RestingServes ==
  ASSUME RTypeOK, FullWalk(walk), Async, Resting, Behind(walk.b), L >= npin
  PROVE  /\ L = Older \/ L = Newer
         /\ L # walk.b => L + 1 = walk.b
  <1>1. Again /\ L \in walk.a .. walk.b /\ Short
    BY WalkFacts, Numbers DEF Resting, Advances
  <1>2. L = walk.b \/ L + 1 = walk.b
    BY <1>1, Numbers DEF Short, From
  <1>3. L + 1 = walk.b => Older = L
    BY Numbers DEF Behind, Before
  <1>4. QED
    BY <1>2, <1>3, Numbers DEF Behind

(* Nothing asked for at the start of a forward is in the ring.             *)
LEMMA StartMisses ==
  ASSUME RTypeOK, FullWalk(walk), Async, AtStart
  PROVE  /\ Newer = -1 \/ (Many /\ Newer = Final)
         /\ npin # Older /\ npin # Newer
  BY Numbers DEF AtStart, Many

(* The two slots once the layer served is in the ring.                     *)
LEMMA StreamedHeld ==
  ASSUME RTypeOK, FullWalk(walk), Async, Held, L >= npin
  PROVE  /\ Older # L \/ Newer # L
         /\ Resting \/ Newer = L
         /\ ~Turned => Resting \/ Behind(L)
         /\ Turned => Newer = L /\ Older = walk.b /\ L + 1 < walk.b
         /\ L = walk.b => Behind(walk.b)
  <1>1. CASE Resting
    <2>1. Behind(walk.b) /\ (L # walk.b => L + 1 = walk.b)
      BY <1>1, RestingServes DEF Held
    <2>2. ~Turned
      BY <1>1, Numbers DEF Resting, Turned
    <2>3. Older # Newer
      BY <2>1, <1>1, Numbers DEF Behind, Before, AfterFirst, Many, Resting
    <2>4. QED
      BY <1>1, <2>1, <2>2, <2>3
  <1>2. CASE ~Resting
    <2>1. Newer = L /\ Previous
      BY <1>2, Numbers DEF Held
    <2>2. CASE Turned
      <3>1. Older = walk.b /\ L + 1 < walk.b
        BY <2>1, <2>2, Numbers DEF Previous, Turned, Short, From
      <3>2. QED
        BY <2>1, <2>2, <3>1, Numbers
    <2>3. CASE ~Turned
      <3>1. Before(L)
        BY <2>1, <2>3 DEF Previous
      <3>2. Older # L
        BY <3>1, Numbers DEF Before, AfterFirst, Many
      <3>3. QED
        BY <2>1, <2>3, <3>1, <3>2 DEF Behind
    <2>4. QED
      BY <2>2, <2>3
  <1>3. QED
    BY <1>1, <1>2

(* What a hint the ring does not hold says of the slots.                   *)
LEMMA HintMisses ==
  ASSUME RTypeOK, FullWalk(walk), Async, Held,
         Hint \in Layers, Hint >= npin, Hint # Older, Hint # Newer
  PROVE  /\ pos + 1 < NV(walk)
         /\ ~(Short /\ AgainAt(pos + 1))
         /\ L >= npin => Newer = L /\ Older # L
         /\ L < npin => IF Resting THEN Newer = walk.b ELSE AtStart
  <1>1. Advances /\ pos + 1 < NV(walk)
    BY WalkFacts, Numbers DEF Advances, Layers
  <1>2. L < npin => IF Resting THEN Newer = walk.b ELSE AtStart
    BY Numbers DEF Held, Behind
  <1>3. L >= npin => Newer = L
    <2> SUFFICES ASSUME L >= npin, Newer # L PROVE FALSE
      OBVIOUS
    <2>1. Resting /\ Behind(walk.b) /\ L # walk.b
      BY StreamedHeld DEF Held, Behind
    <2>2. Hint = walk.b
      BY <1>1, <2>1, RestingServes DEF Advances
    <2>3. QED
      BY <2>1, <2>2 DEF Behind
  <1>4. ~(Short /\ AgainAt(pos + 1))
    <2> SUFFICES ASSUME Short, AgainAt(pos + 1) PROVE FALSE
      OBVIOUS
    <2>1. CASE L = walk.b
      <3>1. Hint = walk.a
        BY <1>1, <2>1, Numbers DEF Advances
      <3>2. L >= npin /\ From = walk.a /\ Behind(walk.b)
        BY <2>1, <3>1, StreamedHeld, Numbers DEF From
      <3>3. Hint = walk.b \/ Hint + 1 = walk.b
        BY <3>1, <3>2, Numbers DEF Short
      <3>4. Hint + 1 = walk.b => Older = Hint
        BY <3>1, <3>2, Numbers DEF Behind, Before
      <3>5. QED
        BY <3>2, <3>3, <3>4 DEF Behind
    <2>2. CASE L # walk.b
      <3>1. Again /\ Hint = L + 1 /\ L \in walk.a .. walk.b
        BY <1>1, <2>2 DEF Advances
      <3>2. Resting /\ Behind(walk.b)
        BY <2>2, <3>1, Numbers DEF Resting, Held
      <3>3. L < npin
        <4> SUFFICES ASSUME L >= npin PROVE FALSE
          BY Numbers
        <4>1. Hint = walk.b
          BY <2>2, <3>1, <3>2, RestingServes
        <4>2. QED
          BY <3>2, <4>1 DEF Behind
      <3>4. Hint = npin /\ From = npin
        BY <3>1, <3>3, Numbers DEF From
      <3>5. npin = walk.b \/ npin + 1 = walk.b
        BY <2>2, <3>1, <3>4, Numbers DEF Short
      <3>6. npin + 1 = walk.b => Older = npin
        BY <3>2, Numbers DEF Behind, Before
      <3>7. QED
        BY <3>2, <3>4, <3>5, <3>6 DEF Behind
    <2>3. QED
      BY <2>1, <2>2
  <1>5. QED
    BY <1>1, <1>2, <1>3, <1>4, StreamedHeld

(* The layer hinted and not read is pinned, or the next position rests.    *)
LEMMA HintHeld ==
  ASSUME RTypeOK, FullWalk(walk), Async, Held, pos + 1 < NV(walk),
         Hint < npin \/ Hint = Older \/ Hint = Newer,
         NEW rests,
         rests <=> AgainAt(pos + 1) /\ npin <= walk.b /\ (Hint < npin \/ Short)
  PROVE  IF rests THEN Behind(walk.b) ELSE AtStart /\ Hint < npin
  <1>1. /\ Advances /\ Hint \in Nat
        /\ L # walk.b => Hint = L + 1 /\ (AgainAt(pos + 1) <=> Again)
        /\ L = walk.b => \/ Hint = walk.a /\ AgainAt(pos + 1)
                         \/ Hint = walk.b + 1 /\ ~AgainAt(pos + 1)
    BY WalkFacts, Numbers DEF Advances, Layers
  <1>2. CASE L < npin /\ Resting
    <2>1. Behind(walk.b) /\ L # walk.b /\ Hint = L + 1 /\ AgainAt(pos + 1)
          /\ npin <= walk.b /\ walk.a <= L
      BY <1>1, <1>2, Numbers DEF Held, Resting, Advances
    <2>2. Hint < npin => rests
      BY <2>1
    <2>3. Hint >= npin => rests
      <3> SUFFICES ASSUME Hint >= npin PROVE Short
        BY <2>1
      <3>1. Hint = npin /\ From = npin
        BY <1>2, <2>1, Numbers DEF From
      <3>2. npin = walk.b \/ npin + 1 = walk.b
        BY <2>1, <3>1, Numbers DEF Behind, Before, AfterFirst, Many
      <3>3. QED
        BY <3>1, <3>2, Numbers DEF Short
    <2>4. QED
      BY <2>1, <2>2, <2>3, <1>1, Numbers
  <1>3. CASE L < npin /\ ~Resting
    <2>1. AtStart
      BY <1>3 DEF Held
    <2>2. ~(Again /\ npin <= walk.b)
      BY <1>3 DEF Resting
    <2>3. Hint <= npin
      BY <1>1, <1>3, Numbers
    <2>4. Hint < npin
      BY <2>1, <2>3, <1>1, StartMisses, Numbers
    <2>5. ~rests
      BY <1>1, <1>3, <2>2, Numbers
    <2>6. QED
      BY <2>1, <2>4, <2>5
  <1>4. CASE L >= npin /\ L = walk.b
    <2>1. Behind(walk.b) /\ npin <= walk.b
      BY <1>4, StreamedHeld
    <2>2. CASE Hint = walk.b + 1
      BY <2>1, <2>2, Numbers DEF Behind, Before, AfterFirst, Many
    <2>3. CASE Hint = walk.a /\ AgainAt(pos + 1)
      <3>1. Hint >= npin => Short
        <4> SUFFICES ASSUME Hint >= npin PROVE Short
          OBVIOUS
        <4>1. From = walk.a
          BY <2>3, Numbers DEF From
        <4>2. walk.a = walk.b \/ walk.a + 1 = walk.b
          BY <2>1, <2>3, Numbers DEF Behind, Before, AfterFirst, Many
        <4>3. QED
          BY <4>1, <4>2, Numbers DEF Short
      <3>2. QED
        BY <2>1, <2>3, <3>1, <1>1, Numbers
    <2>4. QED
      BY <1>1, <1>4, <2>2, <2>3
  <1>5. CASE L >= npin /\ L # walk.b
    <2>1. Hint = L + 1 /\ (AgainAt(pos + 1) <=> Again)
      BY <1>1, <1>5
    <2>2. ~Turned /\ ~Behind(L)
      <3>1. ~Turned
        BY <2>1, <1>5, StreamedHeld, Numbers
      <3>2. ~Behind(L)
        BY <2>1, <1>5, Numbers DEF Behind, Before, AfterFirst, Many
      <3>3. QED
        BY <3>1, <3>2
    <2>3. Resting
      BY <2>2, <1>5, StreamedHeld
    <2>4. Behind(walk.b) /\ rests
      BY <1>5, <2>1, <2>3, Numbers DEF Held, Resting
    <2>5. QED
      BY <2>4
  <1>6. QED
    BY <1>2, <1>3, <1>4, <1>5, Numbers

(* After the last layer of a forward the next one starts afresh, unless    *)
(* all streamed layers have come to rest.                                  *)
LEMMA ForwardEnds ==
  ASSUME RTypeOK, FullWalk(walk), Async, Held, ~(pos + 1 < NV(walk))
  PROVE  \/ AtStart
         \/ \A l \in Layers : l >= npin => \E s \in Slots : layer_of[s] = l
  <1>1. L = Final
    BY WalkFacts DEF Advances
  <1>2. CASE L < npin
    <2>1. ~Resting
      BY <1>1, <1>2, Numbers DEF Resting
    <2>2. QED
      BY <1>2, <2>1 DEF Held
  <1>3. CASE L >= npin
    <2>1. ~Turned
      BY <1>1, <1>3, StreamedHeld, Numbers
    <2>2. Resting => L = walk.b
      BY <1>1, WalkFacts, Numbers DEF Resting, Advances
    <2>3. Behind(Final)
      BY <1>1, <1>3, <2>1, <2>2, StreamedHeld
    <2>4. CASE Many
      BY <2>3, <2>4, Numbers DEF Behind, Before, AtStart, Many
    <2>5. CASE ~Many
      <3>1. \A l \in Layers : l >= npin => l = Older \/ l = Newer
        BY <1>1, <1>3, <2>3, <2>5, Numbers DEF Behind, Before, Many, Layers
      <3>2. QED
        BY <3>1, Numbers DEF Layers
    <2>6. QED
      BY <2>4, <2>5
  <1>4. QED
    BY <1>2, <1>3, Numbers

LEMMA AdvancingNext == (RTypeOK /\ FullWalk(walk) => Advances)'
  BY Advancing, PTL

(* A layer on its way meets the slot that was filled before it.            *)
LEMMA Arrives ==
  ASSUME RTypeOK, RTypeOK', FullWalk(walk), Async, walk' = walk, npin' = npin,
         Older' = Older, pos + 1 < NV(walk), L' = Hint, Again' <=> AgainAt(pos + 1),
         Hint >= npin, ~(Short /\ AgainAt(pos + 1)),
         IF L >= npin THEN Older = L ELSE IF Resting THEN Older = walk.b ELSE AfterFirst
  PROVE  Previous'
  <1>1. /\ L # walk.b => Hint = L + 1 /\ (AgainAt(pos + 1) <=> Again)
        /\ L = walk.b => \/ Hint = walk.a /\ AgainAt(pos + 1)
                         \/ Hint = walk.b + 1 /\ ~AgainAt(pos + 1)
        /\ Again => L \in walk.a .. walk.b
        /\ Hint \in Nat
    BY WalkFacts, Numbers DEF Advances, Layers
  <1>2. Turned' <=> AgainAt(pos + 1) /\ ~Short /\ Hint = From
    BY DEF Turned, Short, From
  <1>3. AfterFirst' <=> AfterFirst
    BY DEF AfterFirst, Many, Final
  <1>4. Previous' <=> IF Turned' THEN Older = walk.b
                      ELSE IF Hint > npin THEN Older = Hint - 1 ELSE AfterFirst
    BY <1>3 DEF Previous, Before
  <1>5. CASE L = walk.b /\ AgainAt(pos + 1)
    <2>1. Hint = walk.a /\ Turned'
      BY <1>1, <1>2, <1>5, Numbers DEF From
    <2>2. Older = walk.b
      BY <2>1, <1>5, Numbers
    <2>3. QED
      BY <1>4, <2>1, <2>2
  <1>6. CASE L = walk.b /\ ~AgainAt(pos + 1)
    <2>1. Hint = L + 1 /\ ~Turned'
      BY <1>1, <1>2, <1>6
    <2>2. L < npin => ~Resting
      BY <1>6, Numbers DEF Resting
    <2>3. QED
      BY <1>4, <2>1, <2>2, Numbers
  <1>7. CASE L # walk.b /\ L >= npin
    <2>1. Hint = L + 1 /\ Older = L
      BY <1>1, <1>7
    <2>2. ~Turned'
      BY <1>1, <1>2, <1>7, <2>1, Numbers DEF From
    <2>3. QED
      BY <1>4, <2>1, <2>2, <1>7, Numbers
  <1>8. CASE L # walk.b /\ L < npin
    <2>1. Hint = L + 1 /\ Hint = npin /\ (AgainAt(pos + 1) <=> Again)
      BY <1>1, <1>8, Numbers
    <2>2. CASE Resting
      <3>1. Turned' /\ Older = walk.b
        BY <1>1, <1>2, <1>8, <2>1, <2>2, Numbers DEF Resting, From
      <3>2. QED
        BY <1>4, <3>1
    <2>3. CASE ~Resting
      <3>1. ~Turned' /\ AfterFirst
        BY <1>1, <1>2, <1>8, <2>1, <2>3, Numbers DEF Resting
      <3>2. QED
        BY <1>4, <2>1, <3>1, Numbers
    <2>4. QED
      BY <2>2, <2>3
  <1>9. QED
    BY <1>5, <1>6, <1>7, <1>8, Numbers

(* What the invariant says depends on the position and the two slots only. *)
LEMMA SamePlace ==
  ASSUME walk' = walk, npin' = npin
  PROVE  /\ pos' = pos => Hint' = Hint /\ NV(walk)' = NV(walk)
         /\ pos' = pos => (AgainAt(pos + 1)' <=> AgainAt(pos + 1))
         /\ pos' = pos => (Resting' <=> Resting)
         /\ Short' <=> Short
         /\ pos' = pos /\ Older' = Older => (Previous' <=> Previous)
         /\ Newer' = Newer /\ Older' = Older => (AtStart' <=> AtStart)
         /\ Newer' = Newer /\ Older' = Older => (Behind(walk.b)' <=> Behind(walk.b))
         /\ pos' = pos /\ Newer' = Newer /\ Older' = Older => (Held' <=> Held)
         /\ Older' = Older => (AfterFirst' <=> AfterFirst)
  <1>1. From' = From /\ (Short' <=> Short)
    BY DEF From, Short
  <1>2. pos' = pos => L' = L /\ Hint' = Hint /\ (Again' <=> Again)
                      /\ (AgainAt(pos + 1)' <=> AgainAt(pos + 1))
    BY DEF L, Hint, Again, AgainAt
  <1>3. pos' = pos => (Resting' <=> Resting) /\ (Turned' <=> Turned)
    BY <1>1, <1>2 DEF Resting, Turned
  <1>4. Older' = Older => (AfterFirst' <=> AfterFirst)
    BY DEF AfterFirst, Many, Final
  <1>5. pos' = pos /\ Older' = Older => (Previous' <=> Previous)
    BY <1>2, <1>3, <1>4 DEF Previous, Before
  <1>6. Newer' = Newer /\ Older' = Older => (AtStart' <=> AtStart)
    BY DEF AtStart, Many, Final
  <1>7. Newer' = Newer /\ Older' = Older => (Behind(walk.b)' <=> Behind(walk.b))
    BY <1>4 DEF Behind, Before
  <1>8. pos' = pos /\ Newer' = Newer /\ Older' = Older => (Held' <=> Held)
    BY <1>2, <1>3, <1>5, <1>6, <1>7 DEF Held
  <1>9. QED
    BY <1>1, <1>2, <1>3, <1>4, <1>5, <1>6, <1>7, <1>8

(***************************************************************************)
(* One step of either thread keeps the invariant.                          *)
(***************************************************************************)
LEMMA FullStep ==
  ASSUME IInv, [RNext]_rvars
  PROVE  IInv'
  <1> DEFINE Rest == (Async /\ Binding => Settled \/ Moving)
  <1>1. RTypeOK /\ RTypeOK'
    BY TypeSteps DEF IInv
  <1>2. /\ FullWalk(walk) /\ walk' = walk
        /\ npin' = npin /\ nslot' = nslot /\ Slots' = Slots
    BY DEF IInv, RNext, MainStep, ReaderStep, BindPinned, BindHit, BindMiss,
           ReadSync, WaitTake, WaitSleep, PrefetchIgnored, Prefetch,
           ComputeLayer, CloseBegin, CloseEnd, ReaderPoll, ReaderPost,
           SpuriousWakeup, Terminated, sizes, rvars, Slots
  <1>3. /\ L \in Layers
        /\ Following(walk, pos) = {IF pos + 1 < NV(walk) THEN pos + 1 ELSE 0}
    BY <1>1, <1>2, WalkFacts DEF Advances
  <1>4. pos' = pos => L' = L
    BY <1>2 DEF L
  <1>5. /\ Async => Slots = {0, 1} /\ (ring + 1) % nslot = 1 - ring
        /\ ~Async => Slots = {0} /\ ring = 0 /\ (ring + 1) % nslot = ring
        /\ ring \in {0, 1}
        /\ Async' = Async
    BY <1>1, <1>2, RingFacts DEF Async
  <1>6. HandOff /\ Bytes /\ Index /\ Rest
    BY DEF IInv
  <1>7. NLayers \in Nat \ {0} /\ Layers = 0 .. NLayers - 1 /\ npin \in 0 .. NLayers
    BY <1>1, WalkAssumption DEF Layers, RTypeOK
  <1> SUFFICES HandOff' /\ Bytes' /\ Index' /\ Rest'
    BY <1>1, <1>2 DEF IInv, FullWalk
  <1>a. /\ pos' = pos => Hint' = Hint /\ NV(walk)' = NV(walk)
        /\ pos' = pos => (AgainAt(pos + 1)' <=> AgainAt(pos + 1))
        /\ pos' = pos => (Resting' <=> Resting)
        /\ Short' <=> Short
        /\ pos' = pos /\ Older' = Older => (Previous' <=> Previous)
        /\ Newer' = Newer /\ Older' = Older => (AtStart' <=> AtStart)
        /\ Newer' = Newer /\ Older' = Older => (Behind(walk.b)' <=> Behind(walk.b))
        /\ pos' = pos /\ Newer' = Newer /\ Older' = Older => (Held' <=> Held)
        /\ Older' = Older => (AfterFirst' <=> AfterFirst)
    BY <1>1, <1>2, <1>4, SamePlace
  <1>b. layer_of' = layer_of /\ ring' = ring => Older' = Older /\ Newer' = Newer
    BY DEF Older, Newer
  <1>8. CASE BindPinned
    <2> USE <1>8 DEF BindPinned, sizes, handoff, reader, memory
    <2>1. HandOff'
      BY <1>1, <1>2, <1>4, <1>6 DEF HandOff, Pending, Async, RTypeOK
    <2>2. Bytes'
      BY <1>1, <1>2, <1>3, <1>4, <1>6 DEF Bytes, RTypeOK
    <2>3. Index'
      BY <1>1, <1>2, <1>3, <1>6 DEF Index, RTypeOK
    <2>4. Rest'
      <3> SUFFICES ASSUME Async, mpc' = "bound", ~Settled PROVE Moving'
        BY <1>2, <1>5, <1>6 DEF Binding, Settled, Pending
      <3>1. Moving /\ ~Pending /\ ~Pending'
        BY <1>3, <1>6, <1>7 DEF Binding, Moving, Pending, HandOff
      <3>2. Held
        BY <3>1 DEF Moving, Held
      <3>3. QED
        BY <3>1, <3>2, <1>a, <1>b DEF Moving
    <2>5. QED
      BY <2>1, <2>2, <2>3, <2>4
  <1>9. CASE BindHit
    <2> USE <1>9 DEF BindHit, sizes, ringing, handoff, reader, memory
    <2>1. HandOff'
      BY <1>1, <1>2, <1>4, <1>6 DEF HandOff, Pending, Async, RTypeOK
    <2>2. Bytes'
      BY <1>1, <1>2, <1>3, <1>4, <1>6, <1>7 DEF Bytes, Resident, RTypeOK
    <2>3. Index'
      BY <1>1, <1>2, <1>3, <1>6 DEF Index, RTypeOK
    <2>4. Rest'
      <3> SUFFICES ASSUME Async, ~Settled PROVE Moving'
        BY <1>2, <1>5 DEF Settled, Pending
      <3>1. Moving /\ ~Pending /\ ~Pending'
        BY <1>6 DEF Binding, Moving, InFlight, Pending
      <3>2. Resting
        <4> SUFFICES ASSUME ~Resting PROVE FALSE
          OBVIOUS
        <4>1. AtStart /\ L = 0 /\ npin = 0
          BY <3>1, <1>1, <1>2, <1>7, WalkFacts DEF Moving, Advances
        <4>2. Older = L \/ Newer = L
          BY <1>1, <1>2, Numbers DEF Resident
        <4>3. QED
          BY <4>1, <4>2, <1>1, <1>2, StartMisses
      <3>3. Held
        BY <3>1, <3>2 DEF Moving, Held
      <3>4. QED
        BY <3>1, <3>3, <1>a, <1>b DEF Moving
    <2>5. QED
      BY <2>1, <2>2, <2>3, <2>4
  <1>10. CASE BindMiss
    <2> USE <1>10 DEF BindMiss, sizes, handoff, reader
    <2>1. ~Pending
      BY <1>1, <1>3, <1>6 DEF InFlight, Pending, HandOff, Binding, Settled, Moving
    <2>2. HandOff'
      <3>1. rpc # "read" /\ ~stop
        BY <2>1, <1>6 DEF HandOff, Pending
      <3>2. \A s \in Slots : /\ "reader" \in writing'[s] <=> rpc' = "read" /\ s = io_slot'
                             /\ "main" \in writing'[s] <=> mpc' = "reading" /\ s = cur'
        BY <3>1, <1>1, <1>6 DEF HandOff, BeginRead, RTypeOK
      <3>3. cur' \in Slots /\ layer_of'[cur'] = -1
        BY <1>1 DEF Claim, RTypeOK
      <3>4. QED
        BY <3>1, <3>2, <3>3, <2>1, <1>2, <1>3, <1>4, <1>5, <1>6 DEF HandOff, Pending
    <2>3. Bytes'
      BY <2>1, <1>1, <1>2, <1>6 DEF Bytes, HandOff, Pending, RTypeOK, Claim, BeginRead, Torn
    <2>4. Index'
      BY <1>1, <1>2, <1>6, ClaimKeepsIndex
    <2>5. Rest'
      <3> SUFFICES ASSUME Async PROVE Moving'
        BY <1>5
      <3>1. L # Older /\ L # Newer
        BY <1>1, <1>2, Numbers DEF Resident
      <3>2. Moving
        BY <3>1, <1>1, <1>2, <1>3, <1>6, Numbers DEF Binding, Settled
      <3>3. ~Resting
        BY <3>1, <3>2, <2>1, <1>1, <1>2, RestingServes DEF Moving
      <3>4. AtStart /\ pos = 0
        BY <3>2, <3>3, <2>1, <1>1, <1>2, Numbers DEF Moving
      <3>5. npin = 0
        BY <3>4, <1>1, <1>2, <1>7, WalkFacts, Numbers DEF Advances
      <3>6. ring' = 1 - ring /\ Older' = Newer /\ cur' = 1 - ring'
        BY <1>1, <1>5 DEF Claim, Older, Newer, RTypeOK
      <3>7. AfterFirst'
        BY <3>4, <3>6, <1>1, <1>2, StartMisses DEF AfterFirst, Many, Final
      <3>8. QED
        BY <3>4, <3>5, <3>6, <3>7, <1>2 DEF Moving
    <2>6. QED
      BY <2>2, <2>3, <2>4, <2>5
  <1>11. CASE \E ok \in BOOLEAN : ReadSync(ok)
    <2> PICK ok \in BOOLEAN : ReadSync(ok)
      BY <1>11
    <2> USE DEF ReadSync, sizes, handoff, reader
    <2>1. HandOff'
      BY <1>1, <1>2, <1>4, <1>6 DEF HandOff, Pending, Async, RTypeOK, EndRead
    <2>2. Bytes'
      <3>1. \A s \in Slots : /\ content'[s] # Torn
                             /\ layer_of'[s] >= 0 => content'[s] = layer_of'[s] /\ layer_of'[s] >= npin
        BY <1>1, <1>2, <1>3, <1>6, <1>7 DEF Bytes, HandOff, RTypeOK, EndRead, Torn
      <3>2. ~done'
        BY <1>6 DEF HandOff, Pending
      <3>3. mpc' \in {"bound", "compute"} => cur' \in Slots /\ layer_of'[cur'] = L
        BY <1>1, <1>6 DEF HandOff, RTypeOK
      <3>4. QED
        BY <3>1, <3>2, <3>3, <1>2, <1>3, <1>4, <1>6, <1>7 DEF Bytes, HandOff
    <2>3. Index'
      BY <1>1, <1>2, <1>3, <1>6 DEF Index, HandOff, RTypeOK
    <2>4. Rest'
      <3> SUFFICES ASSUME Async, mpc' = "bound" PROVE Moving'
        BY <1>5 DEF Binding
      <3>1. Moving /\ ~Pending /\ ~Pending' /\ npin = 0 /\ pos = 0 /\ cur = 1 - ring /\ AfterFirst
        BY <1>6 DEF Binding, Settled, Moving, HandOff, Pending
      <3>2. L = 0 /\ ~Again
        BY <3>1, <1>1, <1>2, WalkFacts DEF Advances
      <3>3. Older' = Older /\ Newer' = L
        BY <3>1, <1>1, <1>5 DEF Older, Newer, RTypeOK
      <3>4. ~Resting /\ Previous
        BY <3>1, <3>2 DEF Resting, Previous, Turned, Before
      <3>5. Held'
        BY <3>1, <3>2, <3>3, <3>4, <1>2, <1>4, <1>a DEF Held
      <3>6. QED
        BY <3>1, <3>5 DEF Moving
    <2>5. QED
      BY <2>1, <2>2, <2>3, <2>4
  <1>12. CASE WaitTake
    <2> USE <1>12 DEF WaitTake, sizes, reader, memory
    <2>1. io_layer = L /\ Async /\ L >= npin
      BY <1>6 DEF InFlight, HandOff, Binding, Settled, Moving, Pending
    <2>2. HandOff'
      BY <2>1, <1>1, <1>2, <1>3, <1>4, <1>6 DEF HandOff, Pending, Async, RTypeOK
    <2>3. Bytes'
      <3>1. \A s \in Slots : /\ content'[s] # Torn
                             /\ layer_of'[s] >= 0 => content'[s] = layer_of'[s] /\ layer_of'[s] >= npin
        <4>1. content' = content /\ done
          OBVIOUS
        <4>2. \A s \in Slots : layer_of'[s] = layer_of[s] \/ (io_ok /\ s = io_slot /\ layer_of'[s] = L)
          BY <1>1 DEF RTypeOK
        <4>3. io_ok => content[io_slot] = L
          BY <4>1, <2>1, <1>6 DEF Bytes
        <4>4. QED
          BY <4>1, <4>2, <4>3, <2>1, <1>6 DEF Bytes
      <3>2. mpc' \in {"bound", "compute"} => cur' \in Slots /\ layer_of'[cur'] = L
        BY <1>1 DEF RTypeOK
      <3>3. QED
        BY <2>1, <3>1, <3>2, <1>1, <1>2, <1>3, <1>4, <1>7 DEF Bytes
    <2>4. Index'
      <3>1. CASE ~io_ok
        BY <3>1, <1>2, <1>6 DEF Index
      <3>2. CASE io_ok
        <4> SUFFICES ASSUME NEW l \in Layers, l >= npin, slot_of'[l] >= 0
                     PROVE  slot_of'[l] \in Slots /\ layer_of'[slot_of'[l]] = l
          BY <1>2 DEF Index
        <4>1. CASE l = L
          BY <3>2, <4>1, <1>1, <1>3 DEF RTypeOK
        <4>2. CASE l # L
          <5>1. slot_of'[l] = slot_of[l] /\ slot_of[l] \in Slots /\ layer_of[slot_of[l]] = l
            BY <3>2, <4>2, <1>1, <1>6 DEF Index, RTypeOK
          <5>2. slot_of[l] # io_slot
            BY <5>1, <1>6, <1>7 DEF HandOff, Pending
          <5>3. QED
            BY <3>2, <5>1, <5>2, <1>1 DEF RTypeOK
        <4>3. QED
          BY <4>1, <4>2
      <3>3. QED
        BY <3>1, <3>2
    <2>5. Rest'
      <3> SUFFICES ASSUME mpc' = "bound" PROVE Moving'
        BY DEF Binding
      <3>1. Pending /\ ~Pending' /\ io_ok
        BY <1>6 DEF Pending, HandOff
      <3>2. io_slot = 1 - ring /\ Previous /\ ~Resting
        BY <2>1, <3>1, <1>6 DEF Binding, Settled, Moving
      <3>3. Older' = Older /\ Newer' = L
        BY <3>1, <3>2, <2>1, <1>1, <1>5 DEF Older, Newer, RTypeOK
      <3>4. Held'
        BY <3>2, <3>3, <2>1, <1>2, <1>3, <1>4, <1>7, <1>a DEF Held
      <3>5. QED
        BY <3>1, <3>4 DEF Moving
    <2>6. QED
      BY <2>2, <2>3, <2>4, <2>5
  <1>13. CASE WaitSleep
    <2> USE <1>13 DEF WaitSleep, sizes, ringing, handoff, reader, memory
    <2>1. Async /\ Pending
      BY <1>6 DEF InFlight, Pending, HandOff
    <2>2. HandOff'
      BY <2>1, <1>1, <1>2, <1>3, <1>4, <1>6 DEF HandOff, Pending, Async, RTypeOK
    <2>3. Bytes'
      BY <1>1, <1>2, <1>3, <1>4, <1>6 DEF Bytes
    <2>4. Index'
      BY <1>2, <1>6 DEF Index
    <2>5. Rest'
      <3>1. Moving /\ Pending'
        BY <2>1, <1>6 DEF Binding, Settled, Pending
      <3>2. QED
        BY <3>1, <2>1, <1>4, <1>a, <1>b DEF Moving
    <2>6. QED
      BY <2>2, <2>3, <2>4, <2>5
  <1>14. CASE PrefetchIgnored
    <2> USE <1>14 DEF PrefetchIgnored, sizes, ringing, handoff, reader, memory
    <2>1. HandOff'
      BY <1>1, <1>2, <1>4, <1>6 DEF HandOff, Pending, Async, RTypeOK
    <2>2. Bytes'
      BY <1>1, <1>2, <1>3, <1>4, <1>6 DEF Bytes
    <2>3. Index'
      BY <1>2, <1>6 DEF Index
    <2>4. Rest'
      <3> SUFFICES ASSUME Async, Moving, ~Settled PROVE Moving'
        BY <1>2, <1>5, <1>6 DEF Binding, Settled, Pending
      <3>1. ~Pending /\ ~Pending' /\ Held
        BY DEF Moving, Pending
      <3>2. pos + 1 < NV(walk) => Hint \in Layers
        BY <1>1, <1>2, WalkFacts DEF Advances
      <3>3. Hint \in Layers /\ Hint >= npin => \E s \in Slots : layer_of[s] = Hint
        <4> SUFFICES ASSUME Hint \in Layers, Hint >= npin,
                            \A s \in Slots : layer_of[s] # Hint
                     PROVE  FALSE
          OBVIOUS
        <4>1. ~(slot_of[Hint] >= 0)
          BY <1>6 DEF Index
        <4>2. slot_of[Hint] < 0
          BY <4>1, <1>1 DEF RTypeOK
        <4>3. Wanted
          BY <4>2, <3>1, <1>7 DEF Wanted, Pending
        <4>4. QED
          BY <4>3
      <3>4. Hint \in Layers /\ Hint >= npin => Hint = Older \/ Hint = Newer
        BY <3>3, <1>1, <1>2, <1>7, Numbers
      <3>5. pos + 1 < NV(walk) => Hint < npin \/ Hint = Older \/ Hint = Newer
        BY <3>2, <3>4, <1>7
      <3>6. QED
        BY <3>1, <3>5, <1>2, <1>a, <1>b DEF Moving
    <2>5. QED
      BY <2>1, <2>2, <2>3, <2>4
  <1>15. CASE Prefetch
    <2> USE <1>15 DEF Prefetch, sizes, reader, memory
    <2>1. Async /\ Hint \in Layers /\ Hint >= npin /\ \A s \in Slots : layer_of[s] # Hint
      BY <1>1, <1>2, <1>7, WalkFacts DEF Wanted, Advances
    <2>a. ~Settled /\ Moving
      BY <2>1, <1>6 DEF Settled, Binding
    <2>d. Held /\ Hint # Older /\ Hint # Newer
      BY <2>1, <2>a, <1>1, <1>2, <1>5, Numbers DEF Moving, Layers
    <2>b. ~Pending /\ (cur = -1 \/ cur # ring)
      <3>1. L >= npin => Older # L
        BY <2>1, <2>d, <1>1, <1>2, HintMisses
      <3>2. IF L < npin THEN cur = -1 ELSE layer_of[cur] = L
        BY <1>6 DEF Bytes
      <3>3. QED
        BY <3>1, <3>2, <2>a, <1>3, <1>7 DEF Moving, Older
    <2>c. layer_of'[ring] = -1 /\ \A s \in Slots : s # ring => layer_of'[s] = layer_of[s]
      BY <1>1 DEF Claim, RTypeOK
    <2>2. HandOff'
      <3>1. rpc # "read" /\ rpc' = rpc /\ writing' = writing /\ ~stop
        BY <2>b, <1>6 DEF HandOff, Pending
      <3>2. \A s \in Slots : /\ "reader" \in writing'[s] <=> rpc' = "read" /\ s = io_slot'
                             /\ "main" \in writing'[s] <=> mpc' = "reading" /\ s = cur'
        BY <3>1, <1>6 DEF HandOff
      <3>3. layer_of'[io_slot'] = -1 /\ io_layer' >= npin
        BY <2>1, <2>c
      <3>4. QED
        BY <3>1, <3>2, <3>3, <2>1, <1>2, <1>5, <1>6 DEF HandOff, Pending
    <2>3. Bytes'
      <3>1. \A s \in Slots : layer_of'[s] >= 0 => layer_of'[s] = layer_of[s]
        BY <2>c, <1>1 DEF RTypeOK
      <3>2. IF L < npin THEN cur = -1 ELSE cur \in Slots /\ layer_of'[cur] = L
        BY <2>b, <2>c, <1>5, <1>6 DEF Bytes
      <3>3. QED
        BY <3>1, <3>2, <1>2, <1>3, <1>4, <1>6 DEF Bytes
    <2>4. Index'
      BY <1>1, <1>2, <1>6, ClaimKeepsIndex
    <2>5. Rest'
      <3>1. ring' = 1 - ring /\ Older' = Newer
        BY <2>1, <2>c, <1>5 DEF Claim, Older, Newer
      <3>2. pos + 1 < NV(walk) /\ ~(Short /\ AgainAt(pos + 1))
            /\ (L >= npin => Newer = L)
            /\ (L < npin => IF Resting THEN Newer = walk.b ELSE AtStart)
        BY <2>1, <2>d, <1>1, <1>2, HintMisses
      <3>3. AtStart => AfterFirst'
        BY <3>1, <2>1, <1>1, <1>2, StartMisses DEF AfterFirst, Many, Final
      <3>4. IF L >= npin THEN Older' = L ELSE IF Resting THEN Older' = walk.b ELSE AfterFirst'
        BY <3>1, <3>2, <3>3, <1>3, <1>7
      <3>5. io_layer' = Hint' /\ io_slot' = 1 - ring' /\ Pending'
        BY <3>1, <1>5, <1>a DEF Pending
      <3>6. QED
        BY <3>2, <3>4, <3>5, <1>2, <1>4, <1>a DEF Moving
    <2>6. QED
      BY <2>2, <2>3, <2>4, <2>5
  <1>16. CASE ComputeLayer
    <2> USE <1>16 DEF ComputeLayer, sizes, ringing, handoff, reader, memory
    <2>1. \/ pos' = (IF pos + 1 < NV(walk) THEN pos + 1 ELSE 0) /\ mpc' = "bind"
          \/ pos' = pos /\ mpc' = "failed"
      BY <1>3
    <2>2. HandOff'
      BY <2>1, <1>1, <1>2, <1>4, <1>6 DEF HandOff, Pending, Async, RTypeOK
    <2>3. Bytes'
      BY <2>1, <1>1, <1>2, <1>3, <1>4, <1>6 DEF Bytes
    <2>4. Index'
      BY <1>2, <1>6 DEF Index
    <2>5. Rest'
      <3> SUFFICES ASSUME Async, mpc' = "bind", ~Settled PROVE Moving'
        BY <2>1, <1>2, <1>5, <1>6 DEF Binding, Settled, Pending
      <3>1. Moving /\ (Pending' <=> Pending) /\ Older' = Older /\ Newer' = Newer
        BY <1>6, <1>b DEF Binding, Pending
      <3>2. pos + 1 < NV(walk) => L' = Hint /\ (Again' <=> AgainAt(pos + 1))
        BY <2>1, <1>2 DEF L, Hint, Again, AgainAt
      <3>3. CASE Pending
        <4>1. /\ pos + 1 < NV(walk) /\ ~(Short /\ AgainAt(pos + 1))
              /\ io_layer = Hint /\ io_slot = 1 - ring
              /\ IF L >= npin THEN Older = L ELSE IF Resting THEN Older = walk.b ELSE AfterFirst
          BY <3>1, <3>3 DEF Moving
        <4>2. Hint >= npin /\ Hint \in Layers
          BY <4>1, <3>3, <1>1, <1>6 DEF HandOff, RTypeOK
        <4>3. ~Resting'
          BY <4>1, <4>2, <3>2, <1>2, <1>7, <1>a DEF Resting
        <4>4. Previous'
          BY <4>1, <4>2, <3>1, <3>2, <1>1, <1>2, <1>a, Arrives
        <4>5. QED
          BY <4>1, <4>3, <4>4, <3>1, <3>2, <3>3 DEF Moving
      <3>4. CASE ~Pending /\ pos + 1 < NV(walk)
        <4>1. Held /\ (Hint < npin \/ Hint = Older \/ Hint = Newer)
          BY <3>1, <3>4 DEF Moving
        <4>2. Resting' <=> AgainAt(pos + 1) /\ npin <= walk.b /\ (Hint < npin \/ Short)
          BY <3>2, <3>4, <1>2, <1>a DEF Resting
        <4>3. IF Resting' THEN Behind(walk.b) ELSE AtStart /\ Hint < npin
          BY <4>1, <4>2, <3>4, <1>1, <1>2, HintHeld
        <4>4. QED
          BY <4>3, <3>1, <3>2, <3>4, <1>2, <1>a DEF Moving
      <3>5. CASE ~Pending /\ ~(pos + 1 < NV(walk))
        <4>1. Held /\ pos' = 0
          BY <3>1, <3>5, <2>1 DEF Moving
        <4>2. AtStart
          BY <4>1, <3>5, <1>1, <1>2, ForwardEnds DEF Settled
        <4>3. ~Resting'
          BY <4>1, <1>1, <1>2, AdvancingNext DEF Advances, Resting
        <4>4. QED
          BY <4>1, <4>2, <4>3, <3>1, <3>5, <1>a DEF Moving
      <3>6. QED
        BY <3>3, <3>4, <3>5
    <2>6. QED
      BY <2>2, <2>3, <2>4, <2>5
  <1>17. CASE CloseBegin \/ CloseEnd
    <2> USE <1>17 DEF CloseBegin, CloseEnd, sizes, ringing, handoff, reader, memory
    <2>1. HandOff'
      BY <1>1, <1>2, <1>4, <1>6 DEF HandOff, Pending, Async, RTypeOK
    <2>2. Bytes'
      BY <1>1, <1>2, <1>3, <1>4, <1>6 DEF Bytes
    <2>3. Index'
      BY <1>2, <1>6 DEF Index
    <2>4. QED
      BY <2>1, <2>2, <2>3 DEF Binding
  <1>18. CASE ReaderPoll
    <2> USE <1>18 DEF ReaderPoll, sizes, ringing, handoff, reader, memory
    <2>1. Async
      BY <1>6 DEF HandOff
    <2>2. HandOff'
      <3>1. CASE ~stop /\ busy /\ rpc' = "read"
        <4>1. \A s \in Slots : /\ "reader" \in writing'[s] <=> s = io_slot
                               /\ "main" \in writing'[s] <=> mpc = "reading" /\ s = cur
          BY <3>1, <1>1, <1>6 DEF HandOff, BeginRead, RTypeOK
        <4>2. job' = [layer |-> io_layer, slot |-> io_slot]
          BY <3>1
        <4>3. QED
          BY <4>1, <4>2, <3>1, <1>2, <1>3, <1>4, <1>5, <1>6, <2>1 DEF HandOff, Pending
      <3>2. CASE rpc' # "read"
        BY <3>2, <1>1, <1>2, <1>3, <1>4, <1>5, <1>6, <2>1 DEF HandOff, Pending, RTypeOK
      <3>3. QED
        BY <3>1, <3>2
    <2>3. Bytes'
      <3>1. CASE ~stop /\ busy /\ rpc' = "read"
        <4>1. writing[io_slot] = {} /\ layer_of[io_slot] = -1 /\ ~done
          BY <3>1, <1>1, <1>6 DEF HandOff, Pending, RTypeOK
        <4>2. content' = [content EXCEPT ![io_slot] = -1]
          BY <3>1, <4>1 DEF BeginRead
        <4>3. QED
          BY <4>1, <4>2, <1>1, <1>2, <1>3, <1>4, <1>6 DEF Bytes, RTypeOK, Torn
      <3>2. CASE rpc' # "read"
        BY <3>2, <1>1, <1>2, <1>3, <1>4, <1>6 DEF Bytes
      <3>3. QED
        BY <3>1, <3>2
    <2>4. Index'
      BY <1>2, <1>6 DEF Index
    <2>5. Rest'
      BY <2>1, <1>1, <1>2, <1>4, <1>5, <1>6, <1>a, <1>b DEF Pending, Binding, Settled, Moving
    <2>6. QED
      BY <2>2, <2>3, <2>4, <2>5
  <1>19. CASE \E ok \in BOOLEAN : ReaderPost(ok)
    <2> PICK ok \in BOOLEAN : ReaderPost(ok)
      BY <1>19
    <2> USE DEF ReaderPost, sizes, ringing
    <2>1. busy /\ job.layer = io_layer /\ job.slot = io_slot /\ Async
      BY <1>6 DEF HandOff
    <2>2. HandOff'
      <3>1. \A s \in Slots : /\ "reader" \notin writing'[s]
                             /\ "main" \in writing'[s] <=> mpc = "reading" /\ s = cur
        BY <2>1, <1>1, <1>6 DEF HandOff, EndRead, RTypeOK
      <3>2. QED
        BY <3>1, <2>1, <1>2, <1>3, <1>4, <1>5, <1>6 DEF HandOff, Pending
    <2>3. Bytes'
      <3>1. \A s \in Slots : s # io_slot => content'[s] = content[s]
        BY <2>1, <1>1 DEF EndRead, RTypeOK
      <3>2. content'[io_slot] = (IF ok THEN io_layer ELSE content[io_slot])
        BY <2>1, <1>1, <1>6 DEF EndRead, RTypeOK, Bytes
      <3>3. layer_of[io_slot] = -1
        BY <2>1, <1>6 DEF HandOff, Pending
      <3>4. QED
        BY <3>1, <3>2, <3>3, <1>1, <1>2, <1>3, <1>4, <1>6, <1>7 DEF Bytes, RTypeOK, Torn
    <2>4. Index'
      BY <1>2, <1>6 DEF Index
    <2>5. Rest'
      <3>1. Pending /\ Pending'
        BY <2>1 DEF Pending
      <3>2. QED
        BY <3>1, <2>1, <1>1, <1>2, <1>4, <1>5, <1>6, <1>a, <1>b DEF Binding, Settled, Moving
    <2>6. QED
      BY <2>2, <2>3, <2>4, <2>5
  <1>20. CASE (\E t \in {"main", "reader"} : SpuriousWakeup(t)) \/ UNCHANGED rvars
    <2> USE <1>20 DEF SpuriousWakeup, sizes, ringing, handoff, reader, memory, rvars
    <2>1. HandOff'
      BY <1>1, <1>2, <1>3, <1>4, <1>5, <1>6 DEF HandOff, Pending
    <2>2. Bytes' /\ Index'
      BY <1>2, <1>3, <1>4, <1>6 DEF Bytes, Index
    <2>3. Rest'
      BY <1>1, <1>2, <1>4, <1>5, <1>6, <1>a, <1>b DEF Pending, Binding, Settled, Moving
    <2>4. QED
      BY <2>1, <2>2, <2>3
  <1>21. QED
    BY <1>8, <1>9, <1>10, <1>11, <1>12, <1>13, <1>14, <1>15, <1>16, <1>17, <1>18,
       <1>19, <1>20 DEF RNext, MainStep, ReaderStep, Terminated
-----------------------------------------------------------------------------
LEMMA WalkConstant == [RNext]_rvars => walk' = walk
  BY DEF RNext, MainStep, ReaderStep, BindPinned, BindHit, BindMiss, ReadSync,
         WaitTake, WaitSleep, PrefetchIgnored, Prefetch, ComputeLayer, CloseBegin,
         CloseEnd, ReaderPoll, ReaderPost, SpuriousWakeup, Terminated, sizes, rvars

(* Whatever other walks an instance has, k3_trunk_bind, k3_trunk_prefetch  *)
(* and the reader keep IInv along every one that binds the whole stack and *)
(* repeats its span a fixed number of times, once included.                *)
THEOREM FullInvariant == RSpec => []FullInv
  <1>1. RInit => FullInv
    BY FullInit DEF FullInv
  <1>2. FullInv /\ [RNext]_rvars => FullInv'
    <2> SUFFICES ASSUME FullInv, [RNext]_rvars, FullWalk(walk')
                 PROVE  IInv'
      BY DEF FullInv, FullWalk
    <2>1. FullWalk(walk)
      BY WalkConstant
    <2>2. QED
      BY <2>1, FullStep DEF FullInv
  <1>3. QED
    BY <1>1, <1>2, PTL DEF RSpec

LEMMA FullRuns == FullSpec => []IInv
  BY FullInit, FullStep, PTL DEF FullSpec, RSpec

(* However often a span is repeated, no slot is ever filled by both threads *)
(* and none is filled under the layer being computed on.                   *)
THEOREM FullNoOverwrite == FullSpec => []NoOverwrite
  <1>1. IInv => NoOverwrite
    <2> SUFFICES ASSUME IInv, NEW s \in Slots
                 PROVE  writing[s] # {"main", "reader"} /\ (InUse(s) => writing[s] = {})
      BY DEF NoOverwrite
    <2>1. RTypeOK /\ HandOff /\ Bytes
      BY DEF IInv
    <2>2. writing[s] \subseteq {"main", "reader"}
      BY <2>1 DEF RTypeOK
    <2>3. "reader" \in writing[s] => busy /\ layer_of[s] = -1
      BY <2>1 DEF HandOff, Pending
    <2>4. "main" \in writing[s] => mpc = "reading" /\ ~busy
      BY <2>1 DEF HandOff, Pending
    <2>5. InUse(s) => layer_of[s] # -1 /\ mpc # "reading"
      BY <2>1, WalkFacts DEF IInv, Advances, InUse, Bytes, RTypeOK, Slots, Layers
    <2>6. QED
      BY <2>2, <2>3, <2>4, <2>5
  <1>2. QED
    BY <1>1, FullRuns, PTL

(* A ring slot that carries a layer's name holds that layer's bytes.       *)
THEOREM FullNamedSlotsHold == FullSpec => []NamedSlotsHold
  <1>1. IInv => NamedSlotsHold
    <2> SUFFICES ASSUME IInv, NEW s \in Slots, layer_of[s] >= 0
                 PROVE  content[s] = layer_of[s] /\ writing[s] = {}
      BY DEF NamedSlotsHold
    <2>1. RTypeOK /\ HandOff /\ Bytes
      BY DEF IInv
    <2>2. writing[s] \subseteq {"main", "reader"}
      BY <2>1 DEF RTypeOK
    <2>3. "reader" \notin writing[s] /\ "main" \notin writing[s]
      BY <2>1 DEF HandOff, Pending
    <2>4. QED
      BY <2>1, <2>2, <2>3 DEF Bytes
  <1>2. QED
    BY <1>1, FullRuns, PTL

(* The read handed to the reader is always the one asked for next.         *)
THEOREM FullHintNeverWrong == FullSpec => []HintNeverWrong
  <1>1. IInv => HintNeverWrong
    <2> SUFFICES ASSUME IInv, Pending, Binding
                 PROVE  io_layer = IF mpc \in {"bind", "waiting"} THEN L ELSE Hint
      BY DEF HintNeverWrong, Pending, Binding
    <2>1. Async /\ mpc # "reading" /\ Moving
      BY DEF IInv, HandOff, Pending, Settled
    <2>2. QED
      BY <2>1 DEF Moving, Binding
  <1>2. QED
    BY <1>1, FullRuns, PTL

(* On every full walk the main thread reads a streamed layer itself only at    *)
(* layer 0 of a forward: the reader was given every other one a layer ago. *)
THEOREM FullOverlaps == FullSpec => []EveryOtherReadOverlaps
  <1>1. IInv => EveryOtherReadOverlaps
    <2> SUFFICES ASSUME IInv, mpc = "reading", Async
                 PROVE  pos = 0
      BY DEF EveryOtherReadOverlaps
    <2>1. Moving
      BY DEF IInv, Binding, Settled
    <2>2. QED
      BY <2>1 DEF Moving
  <1>2. QED
    BY <1>1, FullRuns, PTL

LEMMA RightBytes ==
  IInv => BytesBound = IF mpc \in {"bound", "compute"} THEN L ELSE -1
  <1> SUFFICES ASSUME IInv, mpc \in {"bound", "compute"} PROVE BytesBound = L
    BY DEF BytesBound
  <1>1. L \in Layers /\ RTypeOK /\ Bytes
    BY WalkFacts DEF IInv, Advances
  <1>2. CASE cur = -1
    BY <1>2 DEF BytesBound
  <1>3. CASE cur # -1
    <2>1. cur \in Slots /\ layer_of[cur] = L
      BY <1>1, <1>3 DEF Bytes
    <2>2. content[cur] = L
      BY <1>1, <2>1 DEF Bytes, Layers
    <2>3. QED
      BY <1>3, <2>2 DEF BytesBound
  <1>4. QED
    BY <1>2, <1>3

(* The ring implements LayerBinding: at every position of a full walk the  *)
(* layer of it is computed on its own bytes, from the bind to the end of   *)
(* its arithmetic.                                                         *)
THEOREM FullRefines == FullSpec => BindsTheLayer
  <1>1. RInit => Promise!Init
    BY DEF RInit, Promise!Init, PhaseOf, BytesBound
  <1>2. (IInv => BytesBound = IF mpc \in {"bound", "compute"} THEN L ELSE -1)'
    BY RightBytes, PTL
  <1>3. \A w, v : /\ LayerAt(w, v) = Promise!LayerAt(w, v)
                   /\ Following(w, v) = Promise!Following(w, v)
    BY DEF LayerAt, Following, CanStop, AfterSpan, Wrap, NV, Span,
           Promise!LayerAt, Promise!Following, Promise!CanStop,
           Promise!AfterSpan, Promise!Wrap, Promise!NV, Promise!Span
  <1>4. IInv /\ IInv' /\ [RNext]_rvars => [Promise!Next]_Promise!vars
    <2> SUFFICES ASSUME IInv, IInv', [RNext]_rvars
                 PROVE  Promise!Next \/ UNCHANGED Promise!vars
      OBVIOUS
    <2>1. /\ BytesBound = IF mpc \in {"bound", "compute"} THEN L ELSE -1
          /\ BytesBound' = IF mpc' \in {"bound", "compute"} THEN L' ELSE -1
      BY <1>2, RightBytes
    <2>2. L' = LayerAt(walk', pos') /\ L = LayerAt(walk, pos)
      BY DEF L
    <2>3. CASE BindPinned \/ BindHit \/ WaitTake \/ \E ok \in BOOLEAN : ReadSync(ok)
      <3>1. mpc \in {"bind", "waiting", "reading"} /\ mpc' \in {"bound", "failed"}
            /\ UNCHANGED <<walk, pos>>
        BY <2>3 DEF BindPinned, BindHit, WaitTake, ReadSync, sizes
      <3>2. CASE mpc' = "bound"
        <4>1. Promise!Bind
          BY <3>1, <3>2, <2>1, <2>2, <1>3 DEF PhaseOf, Promise!Bind
        <4>2. QED
          BY <4>1 DEF Promise!Next
      <3>3. CASE mpc' = "failed"
        <4>1. Promise!Fail
          BY <3>1, <3>3, <2>1 DEF PhaseOf, Promise!Fail
        <4>2. QED
          BY <4>1 DEF Promise!Next
      <3>4. QED
        BY <3>1, <3>2, <3>3
    <2>4. CASE BindMiss \/ WaitSleep
      <3>1. mpc \in {"bind", "waiting"} /\ mpc' \in {"reading", "waiting"}
            /\ UNCHANGED <<walk, pos>>
        BY <2>4 DEF BindMiss, WaitSleep, sizes
      <3>2. QED
        BY <3>1, <2>1 DEF PhaseOf, Promise!vars
    <2>5. CASE PrefetchIgnored \/ Prefetch
      <3>1. mpc = "bound" /\ mpc' = "compute" /\ UNCHANGED <<walk, pos>>
        BY <2>5 DEF PrefetchIgnored, Prefetch, sizes
      <3>2. QED
        BY <3>1, <2>1, <2>2 DEF PhaseOf, Promise!vars
    <2>6. CASE ComputeLayer
      <3>1. CASE mpc' = "bind"
        <4>1. Promise!Compute
          BY <2>6, <3>1, <2>1, <1>3 DEF ComputeLayer, sizes, PhaseOf, Promise!Compute
        <4>2. QED
          BY <4>1 DEF Promise!Next
      <3>2. CASE mpc' # "bind"
        <4>1. Promise!Fail
          BY <2>6, <3>2, <2>1 DEF ComputeLayer, sizes, PhaseOf, Promise!Fail
        <4>2. QED
          BY <4>1 DEF Promise!Next
      <3>3. QED
        BY <3>1, <3>2
    <2>7. CASE CloseBegin
      <3>1. Promise!Close
        BY <2>7, <2>1 DEF CloseBegin, sizes, PhaseOf, Promise!Close
      <3>2. QED
        BY <3>1 DEF Promise!Next
    <2>8. CASE CloseEnd
      BY <2>8, <2>1 DEF CloseEnd, sizes, PhaseOf, Promise!vars
    <2>9. CASE \/ ReaderPoll \/ \E ok \in BOOLEAN : ReaderPost(ok)
               \/ \E t \in {"main", "reader"} : SpuriousWakeup(t)
               \/ UNCHANGED rvars
      <3>1. UNCHANGED <<walk, pos, mpc>>
        BY <2>9 DEF ReaderPoll, ReaderPost, SpuriousWakeup, rvars, sizes
      <3>2. QED
        BY <3>1, <2>1, <2>2 DEF PhaseOf, Promise!vars
    <2>10. QED
      BY <2>3, <2>4, <2>5, <2>6, <2>7, <2>8, <2>9
         DEF RNext, MainStep, ReaderStep, Terminated
  <1>5. QED
    BY <1>1, <1>4, FullRuns, PTL DEF FullSpec, RSpec, BindsTheLayer, Promise!Spec
=============================================================================
