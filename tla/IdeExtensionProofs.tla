------------------------- MODULE IdeExtensionProofs -------------------------
(***************************************************************************)
(* Whatever flushes of the VS Code extension overlap, in any number: what  *)
(* was counted is accounted for, stored twice only for a reason, and the   *)
(* status bar shows when the editor has to be paired again.                *)
(***************************************************************************)
EXTENDS IdeExtension, SequenceTheorems, FiniteSetTheorems, TLAPS

(* Lemmas about events and queues.                                          *)

\* No unit is in two events.
Apart(events) == \A m, n \in DOMAIN events : m # n => events[m] \cap events[n] = {}

LEMMA NoEvents == <<>> \in Seq(Events) /\ UnitsOf(<<>>) = {} /\ Apart(<<>>)
  BY EmptySeq DEF UnitsOf, Apart

LEMMA NoUnits ==
    ASSUME NEW s \in Seq(Events)
    PROVE  UnitsOf(s) \in Events
  BY LenProperties DEF UnitsOf, Events

\* One bucket makes an event, an empty one none.
LEMMA OneEvent ==
    ASSUME NEW b \in Events
    PROVE  LET q == IF b = {} THEN <<>> ELSE <<b>>
           IN  q \in Seq(Events) /\ UnitsOf(q) = b /\ Apart(q)
  <1>1. CASE b = {}
    BY <1>1, NoEvents
  <1>2. CASE b # {}
    <2>1. <<b>> \in Seq(Events) /\ DOMAIN <<b>> = {1} /\ <<b>>[1] = b
      OBVIOUS
    <2> QED
      BY <1>2, <2>1 DEF UnitsOf, Apart
  <1> QED
    BY <1>1, <1>2

LEMMA UnitsConcat ==
    ASSUME NEW s \in Seq(Events), NEW t \in Seq(Events)
    PROVE  /\ s \o t \in Seq(Events)
           /\ UnitsOf(s \o t) = UnitsOf(s) \cup UnitsOf(t)
           /\ Apart(s) /\ Apart(t) /\ UnitsOf(s) \cap UnitsOf(t) = {} => Apart(s \o t)
           /\ s \o t = <<>> => s = <<>> /\ t = <<>>
  <1>1. /\ s \o t \in Seq(Events) /\ Len(s) \in Nat /\ Len(t) \in Nat
        /\ DOMAIN s = 1 .. Len(s) /\ DOMAIN t = 1 .. Len(t)
        /\ DOMAIN (s \o t) = 1 .. Len(s) + Len(t)
        /\ \A n \in 1 .. Len(s) : (s \o t)[n] = s[n]
        /\ \A n \in 1 .. Len(s) + Len(t) : n > Len(s) => (s \o t)[n] = t[n - Len(s)]
    BY ConcatProperties, LenProperties
  <1>2. ASSUME NEW n \in DOMAIN (s \o t)
        PROVE  \/ n \in DOMAIN s /\ (s \o t)[n] = s[n]
               \/ n - Len(s) \in DOMAIN t /\ (s \o t)[n] = t[n - Len(s)] /\ n \notin DOMAIN s
    <2>1. CASE n <= Len(s)
      BY <1>1, <2>1
    <2>2. CASE n > Len(s)
      BY <1>1, <2>2
    <2> QED
      BY <1>1, <2>1, <2>2
  <1>3. ASSUME NEW n \in DOMAIN t
        PROVE  Len(s) + n \in DOMAIN (s \o t) /\ (s \o t)[Len(s) + n] = t[n]
    BY <1>1
  <1>4. UnitsOf(s \o t) = UnitsOf(s) \cup UnitsOf(t)
    <2>1. UnitsOf(s \o t) \subseteq UnitsOf(s) \cup UnitsOf(t)
      BY <1>2 DEF UnitsOf
    <2>2. UnitsOf(s) \subseteq UnitsOf(s \o t)
      BY <1>1 DEF UnitsOf
    <2>3. UnitsOf(t) \subseteq UnitsOf(s \o t)
      BY <1>3 DEF UnitsOf
    <2> QED
      BY <2>1, <2>2, <2>3
  <1>5. ASSUME Apart(s), Apart(t), UnitsOf(s) \cap UnitsOf(t) = {},
               NEW m \in DOMAIN (s \o t), NEW n \in DOMAIN (s \o t), m # n
        PROVE  (s \o t)[m] \cap (s \o t)[n] = {}
    <2>1. \A i \in DOMAIN s, j \in DOMAIN t : s[i] \cap t[j] = {}
      BY <1>5 DEF UnitsOf
    <2>2. m - Len(s) # n - Len(s)
      BY <1>1, <1>5
    <2> QED
      BY <1>2, <1>5, <2>1, <2>2 DEF Apart
  <1>6. s \o t = <<>> => s = <<>> /\ t = <<>>
    BY ConcatEqualIffEmpty
  <1> QED
    BY <1>1, <1>4, <1>5, <1>6 DEF Apart

\* The cap keeps the last MaxQueueSize events.
LEMMA NewestKeeps ==
    ASSUME NEW q \in Seq(Events)
    PROVE  /\ Newest(q) \in Seq(Events) /\ Len(Newest(q)) <= MaxQueueSize
           /\ UnitsOf(Newest(q)) \subseteq UnitsOf(q)
           /\ Apart(q) => Apart(Newest(q))
  <1>1. Len(q) \in Nat /\ DOMAIN q = 1 .. Len(q)
    BY LenProperties
  <1>2. PICK k \in Nat : /\ k <= Len(q) /\ Len(q) - k <= MaxQueueSize
                        /\ Newest(q) = SubSeq(q, 1 + k, Len(q))
    <2>1. CASE Len(q) > MaxQueueSize
      <3>1. /\ Len(q) - MaxQueueSize \in Nat
            /\ Len(q) - MaxQueueSize <= Len(q) /\ Len(q) - (Len(q) - MaxQueueSize) <= MaxQueueSize
        BY <1>1, <2>1, IdeExtensionAssumption
      <3> QED
        BY <2>1, <3>1 DEF Newest
    <2>2. CASE ~(Len(q) > MaxQueueSize)
      <3>1. 0 <= Len(q) /\ Len(q) - 0 <= MaxQueueSize
        BY <1>1, <2>2, IdeExtensionAssumption
      <3> QED
        BY <2>2, <3>1 DEF Newest
    <2> QED
      BY <2>1, <2>2
  <1>3. /\ Newest(q) \in Seq(Events) /\ Len(Newest(q)) = Len(q) - k
        /\ \A n \in 1 .. Len(q) - k : n + k \in DOMAIN q /\ Newest(q)[n] = q[n + k]
    <2>1. \A i \in 1 + k .. Len(q) : q[i] \in Events
      BY <1>1, <1>2, ElementOfSeq
    <2>2. /\ Newest(q) \in Seq(Events)
          /\ Len(Newest(q)) = IF 1 + k <= Len(q) THEN Len(q) - (1 + k) + 1 ELSE 0
          /\ \A i \in 1 .. Len(q) - (1 + k) + 1 : Newest(q)[i] = q[1 + k + i - 1]
      BY <1>1, <1>2, <2>1, SubSeqProperties
    <2>3. Len(Newest(q)) = Len(q) - k
      <3>1. CASE 1 + k <= Len(q)
        BY <1>1, <1>2, <2>2, <3>1
      <3>2. CASE k = Len(q)
        BY <1>1, <1>2, <2>2, <3>2
      <3>3. k \in Nat /\ Len(q) \in Nat /\ k <= Len(q)
        BY <1>1, <1>2
      <3>4. 1 + k <= Len(q) \/ k = Len(q)
        BY <3>3
      <3> QED
        BY <3>1, <3>2, <3>4
    <2>4. ASSUME NEW n \in 1 .. Len(q) - k
          PROVE  n + k \in DOMAIN q /\ Newest(q)[n] = q[n + k]
      <3>1. n + k \in 1 .. Len(q) /\ n \in 1 .. Len(q) - (1 + k) + 1 /\ 1 + k + n - 1 = n + k
        BY <1>1, <1>2
      <3> QED
        BY <1>1, <1>2, <2>2, <3>1
    <2> QED
      BY <2>2, <2>3, <2>4
  <1>4. DOMAIN Newest(q) = 1 .. Len(q) - k
    BY <1>3, LenProperties
  <1>5. UnitsOf(Newest(q)) \subseteq UnitsOf(q)
    BY <1>3, <1>4 DEF UnitsOf
  <1>6. Apart(q) => Apart(Newest(q))
    <2>1. SUFFICES ASSUME Apart(q), NEW m \in 1 .. Len(q) - k, NEW n \in 1 .. Len(q) - k, m # n
                   PROVE  Newest(q)[m] \cap Newest(q)[n] = {}
      BY <1>4 DEF Apart
    <2>2. m + k # n + k
      BY <1>2, <2>1
    <2> QED
      BY <1>3, <2>1, <2>2 DEF Apart
  <1> QED
    BY <1>1, <1>2, <1>3, <1>5, <1>6

\* Every unit of the buckets is in one event, whatever its category.
LEMMA BucketEvents ==
    ASSUME NEW units \in Events
    PROVE  /\ BucketsToEvents(units) \in Seq(Events)
           /\ UnitsOf(BucketsToEvents(units)) = units
           /\ Apart(BucketsToEvents(units))
  <1> DEFINE of(c) == {u \in units : u[1] = c}
             one(c) == IF of(c) = {} THEN <<>> ELSE <<of(c)>>
             two == one("manual") \o one("ai")
             three == two \o one("refactor")
             four == three \o one("other")
  <1>1. ASSUME NEW c
        PROVE  one(c) \in Seq(Events) /\ UnitsOf(one(c)) = of(c) /\ Apart(one(c))
    <2>1. of(c) \in Events
      BY DEF Events
    <2> QED
      BY <2>1, OneEvent
  <1>2. \A c, d : c # d => of(c) \cap of(d) = {}
    OBVIOUS
  <1>3. units = of("manual") \cup of("ai") \cup of("refactor") \cup of("other")
    BY DEF Events, Units, Categories
  <1>4. BucketsToEvents(units) = four
    BY DEF BucketsToEvents
  <1> HIDE DEF of, one
  <1>5. two \in Seq(Events) /\ UnitsOf(two) = of("manual") \cup of("ai") /\ Apart(two)
    BY <1>1, <1>2, UnitsConcat
  <1> HIDE DEF two
  <1>6. /\ three \in Seq(Events) /\ Apart(three)
        /\ UnitsOf(three) = of("manual") \cup of("ai") \cup of("refactor")
    <2>1. UnitsOf(two) \cap of("refactor") = {}
      BY <1>2, <1>5
    <2> QED
      BY <1>1, <1>5, <2>1, UnitsConcat
  <1> HIDE DEF three
  <1>7. four \in Seq(Events) /\ Apart(four) /\ UnitsOf(four) = UnitsOf(three) \cup of("other")
    <2>1. UnitsOf(three) \cap of("other") = {}
      BY <1>2, <1>6
    <2> QED
      BY <1>1, <1>6, <2>1, UnitsConcat
  <1> QED
    BY <1>3, <1>4, <1>6, <1>7

-----------------------------------------------------------------------------
(* What a receiver stores.                                                  *)

\* At most one copy of each unit is stored, and only of these units.
Delivers(units) ==
    /\ delivered' \in [Units -> 0 .. 2]
    /\ \A u \in Units : delivered[u] > 0 => delivered'[u] > 0
    /\ \A u \in Units : delivered'[u] > 0 => delivered[u] > 0 \/ u \in units
    /\ \A u \in Units : delivered'[u] > 1 => delivered[u] > 1 \/ (delivered[u] > 0 /\ u \in units)

\* A set of events in which no unit is twice delivers each unit once.
LEMMA StoredEvents ==
    ASSUME delivered \in [Units -> 0 .. 2],
           NEW e, IsFiniteSet(DOMAIN e), Apart(e), Store(e)
    PROVE  Delivers(UnitsOf(e)) /\ \A u \in Units : u \in UnitsOf(e) => delivered'[u] > 0
  <1> DEFINE at(u) == {n \in DOMAIN e : u \in e[n]}
             copies(u) == Cardinality(at(u))
  <1>1. delivered' = [u \in Units |-> IF delivered[u] + copies(u) > 2 THEN 2
                                     ELSE delivered[u] + copies(u)]
    BY DEF Store
  <1>2. ASSUME NEW u \in Units
        PROVE  /\ copies(u) \in Nat
               /\ copies(u) > 0 <=> u \in UnitsOf(e)
               /\ copies(u) <= 1
    <2>1. IsFiniteSet(at(u)) /\ Cardinality(at(u)) \in Nat
      BY FS_Subset, FS_CardinalityType
    <2>2. Cardinality(at(u)) = 0 <=> at(u) = {}
      BY <2>1, FS_EmptySet
    <2>3. at(u) # {} <=> u \in UnitsOf(e)
      BY DEF UnitsOf
    <2>4. ASSUME at(u) # {} PROVE Cardinality(at(u)) = 1
      <3>1. \E n : at(u) = {n}
        BY <2>4 DEF Apart
      <3> QED
        BY <2>1, <3>1, FS_Singleton
    <2> QED
      BY <2>1, <2>2, <2>3, <2>4
  <1> HIDE DEF copies
  <1>3. ASSUME NEW u \in Units
        PROVE  /\ delivered'[u] \in 0 .. 2
               /\ delivered'[u] > 0 <=> delivered[u] > 0 \/ u \in UnitsOf(e)
               /\ delivered'[u] > 1 => delivered[u] > 1 \/ (delivered[u] > 0 /\ u \in UnitsOf(e))
    <2>1. copies(u) \in Nat /\ delivered[u] \in 0 .. 2 /\ copies(u) <= 1
      BY <1>2
    <2>2. delivered'[u] = IF delivered[u] + copies(u) > 2 THEN 2 ELSE delivered[u] + copies(u)
      BY <1>1
    <2>3. /\ delivered'[u] \in 0 .. 2
          /\ delivered'[u] > 0 <=> delivered[u] > 0 \/ copies(u) > 0
          /\ delivered'[u] > 1 => delivered[u] > 1 \/ (delivered[u] > 0 /\ copies(u) > 0)
      <3>1. ASSUME NEW c \in Nat, c <= 1, NEW d \in 0 .. 2,
                   NEW r, r = IF d + c > 2 THEN 2 ELSE d + c
            PROVE  /\ r \in 0 .. 2
                   /\ r > 0 <=> d > 0 \/ c > 0
                   /\ r > 1 => d > 1 \/ (d > 0 /\ c > 0)
        BY <3>1
      <3> QED
        BY <2>1, <2>2, <3>1
    <2> QED
      BY <1>2, <2>3
  <1> QED
    BY <1>1, <1>3 DEF Delivers

LEMMA StoredQueue ==
    ASSUME delivered \in [Units -> 0 .. 2], NEW q \in Seq(Events), Apart(q), Store(q)
    PROVE  Delivers(UnitsOf(q)) /\ \A u \in Units : u \in UnitsOf(q) => delivered'[u] > 0
  <1>1. IsFiniteSet(DOMAIN q)
    BY LenProperties, FS_Interval
  <1> QED
    BY <1>1, StoredEvents

\* The agent stores each event or leaves it unpushed.
LEMMA AgentStored ==
    ASSUME delivered \in [Units -> 0 .. 2], NEW q \in Seq(Events), Apart(q), AgentStores(q)
    PROVE  /\ Delivers(UnitsOf(q))
           /\ unpushed \subseteq unpushed' /\ unpushed' \subseteq unpushed \cup UnitsOf(q)
           /\ \A u \in Units : u \in UnitsOf(q) => delivered'[u] > 0 \/ u \in unpushed'
  <1>1. PICK kept \in SUBSET DOMAIN q :
             /\ Store([n \in kept |-> q[n]])
             /\ unpushed' = unpushed \cup UnitsOf([n \in DOMAIN q \ kept |-> q[n]])
    <2>1. PICK kept \in IF "store" \in Faults THEN SUBSET DOMAIN q ELSE {DOMAIN q} :
             /\ Store([n \in kept |-> q[n]])
             /\ unpushed' = unpushed \cup UnitsOf([n \in DOMAIN q \ kept |-> q[n]])
      BY DEF AgentStores
    <2>2. kept \in SUBSET DOMAIN q
      OBVIOUS
    <2> QED
      BY <2>1, <2>2
  <1> DEFINE e == [n \in kept |-> q[n]]
             rest == [n \in DOMAIN q \ kept |-> q[n]]
  <1>2. IsFiniteSet(DOMAIN e)
    <2>1. IsFiniteSet(DOMAIN q)
      BY LenProperties, FS_Interval
    <2> QED
      BY <2>1, FS_Subset
  <1>3. Apart(e)
    BY DEF Apart
  <1>4. UnitsOf(q) = UnitsOf(e) \cup UnitsOf(rest)
    BY DEF UnitsOf
  <1> HIDE DEF e, rest
  <1>5. Delivers(UnitsOf(e)) /\ \A u \in Units : u \in UnitsOf(e) => delivered'[u] > 0
    <2>1. Store(e)
      BY <1>1 DEF e
    <2> QED
      BY <1>2, <1>3, <2>1, StoredEvents
  <1>6. unpushed' = unpushed \cup UnitsOf(rest)
    BY <1>1 DEF rest
  <1>7. Delivers(UnitsOf(q))
    BY <1>4, <1>5 DEF Delivers
  <1> QED
    BY <1>4, <1>5, <1>6, <1>7

-----------------------------------------------------------------------------
(* The inductive invariant.                                                 *)

\* A flush has its events from the copy of the queue to the last answer.
Sending(f) == flush[f].at \in {"local", "cloud"}

InFlush(f) == UnitsOf(flush[f].events)

\* The part of TypeOK about counting and sending, and the rest.
DataOK ==
    /\ buckets \in Events /\ burst \subseteq Activities
    /\ queue \in Seq(Events) /\ Len(queue) <= MaxQueueSize
    /\ flush \in [Flushes -> Flush]
    /\ seen \subseteq Activities
    /\ delivered \in [Units -> 0 .. 2]
    /\ discarded \cup doubted \cup shared \cup killed \cup unpushed \subseteq recorded
    /\ recorded \in Events

ControlOK ==
    /\ window \in {"open", "closing", "closed"}
    /\ {focused, paused, authRequired, retryTimer} \subseteq BOOLEAN
    /\ token \in 0 .. MaxToken /\ revoked \subseteq 1 .. MaxToken
    /\ retryAttempt \in 0 .. MaxRetryAttempts
    /\ localToken \in {"unread", "missing", "stale", "current"}
    /\ status \in {"idle", "sending", "auth-required", "paused"}

HeldRecorded == Held \subseteq recorded

IdleFlushes == \A f \in Flushes : ~Sending(f) => flush[f].events = <<>>

\* No flush writes the queue away but with units it has sent itself, unless a
\* second flush was under way.
QueueTaken == \A f \in Flushes : Sending(f) => UnitsOf(queue) \subseteq InFlush(f) \cup shared

OverlapShared ==
    \A f, g \in Flushes : f # g /\ Sending(f) /\ Sending(g) => InFlush(f) \subseteq shared

\* An activity is counted at most once in each category.
CountedOnce ==
    /\ \A u \in recorded : u[2] \in seen
    /\ burst \subseteq seen
    /\ \A a \in burst : <<"ai", a>> \notin recorded

SentRecorded == \A u \in Units : delivered[u] > 0 => u \in recorded \ buckets

BucketsApart ==
    /\ buckets \cap UnitsOf(queue) = {} /\ Apart(queue)
    /\ \A f \in Flushes : buckets \cap InFlush(f) = {} /\ Apart(flush[f].events)

\* What was stored and may be sent again is in doubt or was under way twice.
AgainExplained ==
    \A u \in UnitsOf(queue) \cup UNION {InFlush(f) : f \in Flushes} :
        delivered[u] > 0 => u \in doubted \cup shared

DataInv ==
    /\ DataOK /\ HeldRecorded /\ IdleFlushes
    /\ QueueTaken /\ OverlapShared /\ CountedOnce
    /\ SentRecorded /\ BucketsApart /\ AgainExplained
    /\ NothingVanishes /\ DuplicatesExplained

IInv == ControlOK /\ DataInv

LEMMA QuietData == DataInv /\ UNCHANGED <<queue, flush, edits, ghosts>> => DataInv'
  BY DEF DataInv, DataOK, HeldRecorded, Held, IdleFlushes, Sending, InFlush, QueueTaken,
         OverlapShared, CountedOnce, SentRecorded, BucketsApart, AgainExplained,
         NothingVanishes, DuplicatesExplained, edits, ghosts

\* Units never recorded before are counted.
LEMMA CountData ==
    ASSUME DataInv, NEW units \in Events, units \cap recorded = {},
           buckets' = buckets \cup units, recorded' = recorded \cup units,
           seen \subseteq seen', seen' \subseteq Activities, \A u \in units : u[2] \in seen',
           burst' \subseteq seen', \A a \in burst' : <<"ai", a>> \notin recorded',
           UNCHANGED <<queue, flush, ghosts>>
    PROVE  DataInv'
  <1> USE DEF ghosts
  <1>1. DataOK'
    BY DEF DataInv, DataOK, Events
  <1>2. Held' = Held \cup units
    BY DEF Held
  <1>3. HeldRecorded' /\ IdleFlushes' /\ QueueTaken' /\ OverlapShared' /\ CountedOnce'
    BY <1>2 DEF DataInv, HeldRecorded, IdleFlushes, QueueTaken, OverlapShared, CountedOnce,
                Sending, InFlush
  <1>4. SentRecorded'
    BY DEF DataInv, SentRecorded
  <1>5. BucketsApart'
    <2>1. UnitsOf(queue) \subseteq recorded /\ \A f \in Flushes : InFlush(f) \subseteq recorded
      BY DEF DataInv, HeldRecorded, Held, InFlush
    <2> QED
      BY <2>1 DEF DataInv, BucketsApart, InFlush
  <1>6. AgainExplained' /\ DuplicatesExplained'
    BY DEF DataInv, AgainExplained, DuplicatesExplained, InFlush
  <1>7. NothingVanishes'
    BY <1>2 DEF DataInv, NothingVanishes
  <1> QED
    BY <1>1, <1>3, <1>4, <1>5, <1>6, <1>7 DEF DataInv

\* A flush takes a copy of the queue and the buckets.
LEMMA TakeData ==
    ASSUME DataInv, NEW units \in Events, units \cap recorded = {},
           recorded' = recorded \cup units,
           seen \subseteq seen', seen' \subseteq Activities, \A u \in units : u[2] \in seen',
           \A a \in burst : <<"ai", a>> \notin units,
           buckets' = {}, burst' = burst,
           NEW f \in Flushes \ Underway,
           NEW events, events = queue \o BucketsToEvents(buckets \cup units),
           flush' = [flush EXCEPT ![f] = [Free EXCEPT !.at = "local", !.events = events]],
           shared' = IF Underway = {} THEN shared
                     ELSE shared \cup UnitsOf(events)
                            \cup UNION {UnitsOf(flush[g].events) : g \in Underway},
           UNCHANGED <<queue, delivered, discarded, doubted, killed, unpushed>>
    PROVE  DataInv'
  <1> DEFINE all == buckets \cup units
  <1>1. all \in Events /\ queue \in Seq(Events) /\ f \in Flushes
    BY DEF DataInv, DataOK, Events
  <1>2. /\ UnitsOf(queue) \subseteq recorded /\ buckets \subseteq recorded
        /\ \A g \in Flushes : InFlush(g) \subseteq recorded
    BY DEF DataInv, HeldRecorded, Held, InFlush
  <1>3. UnitsOf(queue) \cap all = {}
    BY <1>2 DEF DataInv, BucketsApart
  <1>4. events \in Seq(Events) /\ UnitsOf(events) = UnitsOf(queue) \cup all /\ Apart(events)
    <2>1. /\ BucketsToEvents(all) \in Seq(Events) /\ UnitsOf(BucketsToEvents(all)) = all
          /\ Apart(BucketsToEvents(all))
      BY <1>1, BucketEvents
    <2>2. Apart(queue)
      BY DEF DataInv, BucketsApart
    <2> QED
      BY <1>1, <1>3, <2>1, <2>2, UnitsConcat
  <1> HIDE DEF all
  <1>5. /\ flush' \in [Flushes -> Flush]
        /\ flush'[f].at = "local" /\ flush'[f].events = events
        /\ \A g \in Flushes : g # f => flush'[g] = flush[g]
    <2>1. flush \in [Flushes -> Flush]
      BY DEF DataInv, DataOK
    <2>2. 0 \in 0 .. MaxToken
      BY IdeExtensionAssumption
    <2>3. [Free EXCEPT !.at = "local", !.events = events] \in Flush
      BY <1>4, <2>2 DEF Free, Flush
    <2>4. /\ [Free EXCEPT !.at = "local", !.events = events].at = "local"
          /\ [Free EXCEPT !.at = "local", !.events = events].events = events
      BY DEF Free
    <2> QED
      BY <1>1, <2>1, <2>3, <2>4
  <1>6. /\ Sending(f)' /\ InFlush(f)' = UnitsOf(events)
        /\ \A g \in Flushes : g # f => (Sending(g)' <=> Sending(g)) /\ InFlush(g)' = InFlush(g)
    BY <1>5 DEF Sending, InFlush
  <1>7. flush[f].events = <<>> /\ ~Sending(f) /\ InFlush(f) = {}
    BY <1>1, NoEvents DEF Underway, DataInv, IdleFlushes, Sending, InFlush
  <1>8. \A g \in Flushes : Sending(g) => g \in Underway
    BY DEF Sending, Underway
  <1>9. shared \subseteq shared' /\ shared' \subseteq recorded'
    <2>1. UnitsOf(events) \subseteq recorded'
      BY <1>2, <1>4 DEF all
    <2>2. UNION {UnitsOf(flush[g].events) : g \in Underway} \subseteq recorded
      BY <1>2 DEF Underway, InFlush
    <2>3. shared \subseteq recorded
      BY DEF DataInv, DataOK
    <2> QED
      BY <2>1, <2>2, <2>3
  <1>10. Held' = Held \cup units
    <2>1. UNION {InFlush(g)' : g \in Flushes} =
            UnitsOf(events) \cup UNION {InFlush(g) : g \in Flushes}
      BY <1>1, <1>6, <1>7
    <2>2. Held' = UnitsOf(queue) \cup UNION {InFlush(g)' : g \in Flushes}
      BY DEF Held, InFlush
    <2>3. Held = buckets \cup UnitsOf(queue) \cup UNION {InFlush(g) : g \in Flushes}
      BY DEF Held, InFlush
    <2> QED
      BY <1>4, <2>1, <2>2, <2>3 DEF all
  <1>11. DataOK'
    <2>1. recorded' \in Events /\ {} \in Events
      BY DEF DataInv, DataOK, Events
    <2> QED
      BY <1>5, <1>9, <2>1 DEF DataInv, DataOK
  <1>12. HeldRecorded' /\ CountedOnce' /\ SentRecorded' /\ NothingVanishes'
    BY <1>9, <1>10 DEF DataInv, HeldRecorded, CountedOnce, SentRecorded, NothingVanishes
  <1>13. IdleFlushes'
    BY <1>5, <1>6 DEF DataInv, IdleFlushes
  <1>14. ASSUME NEW g \in Flushes, g # f, Sending(g)
         PROVE  InFlush(g) \subseteq shared' /\ UnitsOf(events) \subseteq shared'
    <2>1. g \in Underway
      BY <1>8, <1>14
    <2> QED
      BY <2>1 DEF InFlush
  <1>15. QueueTaken' /\ OverlapShared'
    <2>1. QueueTaken'
      BY <1>4, <1>6, <1>9 DEF DataInv, QueueTaken
    <2>2. OverlapShared'
      BY <1>6, <1>14 DEF OverlapShared
    <2> QED
      BY <2>1, <2>2
  <1>16. BucketsApart'
    BY <1>4, <1>5, <1>6 DEF DataInv, BucketsApart
  <1>17. AgainExplained'
    <2>1. ASSUME NEW u \in UnitsOf(events), delivered[u] > 0 PROVE u \in doubted \cup shared
      <3>1. u \in Units /\ u \notin units /\ u \notin buckets
        <4>1. u \in Units
          BY <1>4, NoUnits DEF Events
        <4> QED
          BY <2>1, <4>1 DEF DataInv, SentRecorded
      <3>2. u \in UnitsOf(queue)
        BY <1>4, <3>1 DEF all
      <3> QED
        BY <2>1, <3>2 DEF DataInv, AgainExplained
    <2>2. ASSUME NEW u \in UnitsOf(queue) \cup UNION {InFlush(g)' : g \in Flushes},
                 delivered[u] > 0
          PROVE  u \in doubted \cup shared
      <3>1. CASE u \in UnitsOf(queue)
        BY <2>2, <3>1 DEF DataInv, AgainExplained
      <3>2. ASSUME NEW g \in Flushes, u \in InFlush(g)'
            PROVE  u \in doubted \cup shared
        <4>1. CASE g = f
          BY <1>6, <2>1, <2>2, <3>2, <4>1
        <4>2. CASE g # f
          BY <1>6, <2>2, <3>2, <4>2 DEF DataInv, AgainExplained
        <4> QED
          BY <4>1, <4>2
      <3> QED
        BY <2>2, <3>1, <3>2
    <2> QED
      BY <1>9, <2>2 DEF AgainExplained
  <1>18. DuplicatesExplained'
    BY <1>9 DEF DataInv, DuplicatesExplained
  <1> QED
    BY <1>11, <1>12, <1>13, <1>15, <1>16, <1>17, <1>18 DEF DataInv


\* A flush goes on: it keeps its events or ends with them, and with the queue.
LEMMA GoingData ==
    ASSUME DataInv, NEW f \in Flushes, NEW task \in Flush,
           flush' = [flush EXCEPT ![f] = task],
           \/ Sending(f) /\ task.at \in {"local", "cloud"} /\ task.events = flush[f].events
           \/ task.at \notin {"local", "cloud"} /\ task.events = <<>>,
           queue' \in {queue, Newest(<<>>), Newest(flush[f].events)},
           Delivers(InFlush(f)),
           doubted \subseteq doubted', doubted' \subseteq recorded,
           discarded \subseteq discarded', discarded' \subseteq recorded,
           unpushed \subseteq unpushed', unpushed' \subseteq recorded,
           \A u \in UnitsOf(queue) \cup InFlush(f) :
              u \in UnitsOf(queue') \cup UnitsOf(task.events) \cup discarded' \cup unpushed'
                      \cup shared
              \/ delivered'[u] > 0,
           \A u \in UnitsOf(queue') \cup UnitsOf(task.events) :
              delivered'[u] > 0 => delivered[u] > 0 \/ u \in doubted',
           UNCHANGED <<edits, shared, killed>>
    PROVE  DataInv'
  <1> USE DEF edits
  <1>1. flush[f] \in Flush /\ flush[f].events \in Seq(Events) /\ Apart(flush[f].events)
    BY DEF DataInv, DataOK, BucketsApart, Flush
  <1>2. /\ queue' \in Seq(Events) /\ Len(queue') <= MaxQueueSize /\ Apart(queue')
        /\ UnitsOf(queue') \subseteq UnitsOf(queue) \/ UnitsOf(queue') \subseteq InFlush(f)
    <2>1. CASE queue' = queue
      BY <2>1 DEF DataInv, DataOK, BucketsApart
    <2>2. CASE queue' = Newest(<<>>)
      BY <2>2, NoEvents, NewestKeeps
    <2>3. CASE queue' = Newest(flush[f].events)
      BY <1>1, <2>3, NewestKeeps DEF InFlush
    <2> QED
      BY <2>1, <2>2, <2>3
  <1>3. flush' \in [Flushes -> Flush] /\ flush'[f] = task
        /\ \A g \in Flushes : g # f => flush'[g] = flush[g]
    BY DEF DataInv, DataOK
  <1>4. /\ Sending(f)' <=> task.at \in {"local", "cloud"}
        /\ InFlush(f)' = UnitsOf(task.events)
        /\ InFlush(f)' \subseteq InFlush(f)
        /\ Sending(f)' => Sending(f)
        /\ \A g \in Flushes : g # f => (Sending(g)' <=> Sending(g)) /\ InFlush(g)' = InFlush(g)
    BY <1>3, NoEvents DEF Sending, InFlush
  <1>5. ~Sending(f) => InFlush(f) = {}
    BY NoEvents DEF DataInv, IdleFlushes, InFlush
  <1>6. \A g \in Flushes : InFlush(g)' \subseteq InFlush(g)
    BY <1>4
  <1>7. /\ UnitsOf(queue) \subseteq recorded /\ buckets \subseteq recorded
        /\ \A g \in Flushes : InFlush(g) \subseteq recorded
    BY DEF DataInv, HeldRecorded, Held, InFlush
  <1>8. Held' = buckets \cup UnitsOf(queue') \cup UNION {InFlush(g)' : g \in Flushes}
    BY DEF Held, InFlush
  <1>9. DataOK' /\ CountedOnce'
    BY <1>2, <1>3 DEF DataInv, DataOK, CountedOnce, Delivers
  <1>10. HeldRecorded'
    BY <1>2, <1>6, <1>7, <1>8 DEF HeldRecorded
  <1>11. IdleFlushes'
    BY <1>3, <1>4 DEF DataInv, IdleFlushes
  <1>12. QueueTaken'
    <2>1. ASSUME NEW g \in Flushes, Sending(g)'
          PROVE  UnitsOf(queue') \subseteq InFlush(g)' \cup shared
      <3>1. CASE g = f
        <4>1. Sending(f) /\ InFlush(f)' = InFlush(f)
          BY <1>4, <2>1, <3>1 DEF InFlush
        <4>2. UnitsOf(queue) \subseteq InFlush(f) \cup shared
          BY <4>1 DEF DataInv, QueueTaken
        <4> QED
          BY <1>2, <3>1, <4>1, <4>2
      <3>2. CASE g # f
        <4>1. Sending(g) /\ InFlush(g)' = InFlush(g)
          BY <1>4, <2>1, <3>2
        <4>2. UnitsOf(queue) \subseteq InFlush(g) \cup shared
          BY <4>1 DEF DataInv, QueueTaken
        <4>3. InFlush(f) \subseteq shared
          BY <1>5, <3>2, <4>1 DEF DataInv, OverlapShared
        <4> QED
          BY <1>2, <4>1, <4>2, <4>3
      <3> QED
        BY <3>1, <3>2
    <2> QED
      BY <2>1 DEF QueueTaken
  <1>13. OverlapShared'
    <2>1. \A g \in Flushes : Sending(g)' => Sending(g)
      BY <1>4
    <2> QED
      BY <1>6, <2>1 DEF DataInv, OverlapShared
  <1>14. SentRecorded'
    <2>1. InFlush(f) \cap buckets = {}
      BY DEF DataInv, BucketsApart
    <2> QED
      BY <1>7, <2>1 DEF DataInv, SentRecorded, Delivers
  <1>15. BucketsApart'
    <2>1. \A g \in Flushes : Apart(flush'[g].events)
      BY <1>1, <1>3, NoEvents DEF DataInv, BucketsApart
    <2> QED
      BY <1>2, <1>6, <2>1 DEF DataInv, BucketsApart
  <1>16. ASSUME NEW u \in UnitsOf(queue) \cup UNION {InFlush(g) : g \in Flushes}, delivered[u] > 0
         PROVE  u \in doubted' \cup shared
    BY <1>16 DEF DataInv, AgainExplained
  <1>17. AgainExplained'
    <2>1. ASSUME NEW u \in UnitsOf(queue') \cup UnitsOf(task.events), delivered'[u] > 0
          PROVE  u \in doubted' \cup shared
      <3>1. u \in UnitsOf(queue) \cup InFlush(f)
        BY <1>2, <1>4
      <3> QED
        BY <1>16, <2>1, <3>1
    <2>2. ASSUME NEW g \in Flushes, g # f, NEW u \in InFlush(g), delivered'[u] > 0
          PROVE  u \in doubted' \cup shared
      <3>1. CASE delivered[u] > 0
        BY <1>16, <2>2, <3>1
      <3>2. CASE u \in InFlush(f)
        <4>1. Sending(f) /\ Sending(g)
          <5>1. ~Sending(g) => InFlush(g) = {}
            BY NoEvents DEF DataInv, IdleFlushes, InFlush
          <5> QED
            BY <1>5, <2>2, <3>2, <5>1
        <4> QED
          BY <2>2, <3>2, <4>1 DEF DataInv, OverlapShared
      <3>3. u \in Units
        BY <1>7 DEF DataInv, DataOK, Events
      <3> QED
        BY <2>2, <3>1, <3>2, <3>3 DEF Delivers
    <2>3. ASSUME NEW u \in UnitsOf(queue') \cup UNION {InFlush(g)' : g \in Flushes},
                 delivered'[u] > 0
          PROVE  u \in doubted' \cup shared
      <3>1. CASE u \in UnitsOf(queue')
        BY <2>1, <2>3, <3>1
      <3>2. ASSUME NEW g \in Flushes, u \in InFlush(g)'
            PROVE  u \in doubted' \cup shared
        <4>1. CASE g = f
          BY <1>4, <2>1, <2>3, <3>2, <4>1
        <4>2. CASE g # f
          BY <1>4, <2>2, <2>3, <3>2, <4>2
        <4> QED
          BY <4>1, <4>2
      <3> QED
        BY <2>3, <3>1, <3>2
    <2> QED
      BY <2>3 DEF AgainExplained
  <1>18. DuplicatesExplained'
    <2>1. ASSUME NEW u \in Units, delivered'[u] > 1
          PROVE  u \in doubted' \cup shared
      <3>1. CASE delivered[u] > 1
        BY <3>1 DEF DataInv, DuplicatesExplained
      <3>2. CASE delivered[u] > 0 /\ u \in InFlush(f)
        BY <1>16, <3>2
      <3> QED
        BY <2>1, <3>1, <3>2 DEF Delivers
    <2> QED
      BY <2>1 DEF DuplicatesExplained
  <1>19. NothingVanishes'
    <2>1. ASSUME NEW u \in recorded
          PROVE  \/ u \in Held' \cup discarded' \cup killed \cup shared \cup unpushed'
                 \/ delivered'[u] > 0
      <3>1. u \in Units
        BY DEF DataInv, DataOK, Events
      <3>2. CASE u \in UnitsOf(queue) \cup InFlush(f)
        BY <1>4, <1>8, <3>2
      <3>3. CASE u \in buckets
        BY <1>8, <3>3
      <3>4. ASSUME NEW g \in Flushes, g # f, u \in InFlush(g)
            PROVE  u \in Held'
        BY <1>4, <1>8, <3>4
      <3>5. CASE delivered[u] > 0
        BY <3>1, <3>5 DEF Delivers
      <3>6. \/ u \in buckets \cup UnitsOf(queue) \/ \E g \in Flushes : u \in InFlush(g)
            \/ delivered[u] > 0 \/ u \in discarded \cup killed \cup shared \cup unpushed
        BY DEF DataInv, NothingVanishes, Held, InFlush
      <3> QED
        BY <3>2, <3>3, <3>4, <3>5, <3>6
    <2>2. recorded \subseteq Units
      BY DEF DataInv, DataOK, Events
    <2> QED
      BY <2>1, <2>2 DEF NothingVanishes
  <1> QED
    BY <1>9, <1>10, <1>11, <1>12, <1>13, <1>14, <1>15, <1>17, <1>18, <1>19 DEF DataInv


-----------------------------------------------------------------------------
(* Counting and flushing.                                                   *)

LEMMA InitData == Init => DataInv
  <1> SUFFICES ASSUME Init PROVE DataInv
    OBVIOUS
  <1>1. queue = <<>> /\ buckets = {} /\ recorded = {}
        /\ \A f \in Flushes : flush[f] = Free
    BY DEF Init
  <1>2. Free.events = <<>> /\ Free.at = "free" /\ Free \in Flush
    BY NoEvents, IdeExtensionAssumption DEF Free, Flush
  <1>3. \A f \in Flushes : ~Sending(f) /\ flush[f].events = <<>> /\ InFlush(f) = {}
    BY <1>1, <1>2, NoEvents DEF Sending, InFlush
  <1>4. Held = {}
    BY <1>1, <1>3, NoEvents DEF Held, InFlush
  <1>5. DataOK
    <2>1. Len(<<>>) = 0 /\ 0 <= MaxQueueSize
      BY IdeExtensionAssumption
    <2> QED
      BY <1>2, <2>1, NoEvents DEF Init, DataOK, Events
  <1>6. HeldRecorded /\ IdleFlushes /\ QueueTaken /\ OverlapShared
    BY <1>3, <1>4 DEF HeldRecorded, IdleFlushes, QueueTaken, OverlapShared
  <1>7. CountedOnce /\ SentRecorded /\ NothingVanishes /\ DuplicatesExplained
    BY <1>1 DEF Init, CountedOnce, SentRecorded, NothingVanishes, DuplicatesExplained
  <1>8. BucketsApart /\ AgainExplained
    BY <1>1, <1>3, NoEvents DEF BucketsApart, AgainExplained
  <1> QED
    BY <1>5, <1>6, <1>7, <1>8 DEF DataInv

LEMMA LargeData ==
    ASSUME DataInv, NEW a \in Activities, LargeChange(a)
    PROVE  DataInv'
  <1>1. PICK c \in {"ai", "refactor"} : AddToBucket({<<c, a>>})
    BY DEF LargeChange
  <1>2. {<<c, a>>} \in Events /\ {<<c, a>>} \cap recorded = {}
    BY DEF LargeChange, Counting, DataInv, CountedOnce, Events, Units, Categories
  <1>3. /\ buckets' = buckets \cup {<<c, a>>} /\ recorded' = recorded \cup {<<c, a>>}
        /\ seen' = seen \cup {a} /\ seen' \subseteq Activities /\ burst' = {}
        /\ UNCHANGED <<queue, flush, ghosts>>
    BY <1>1 DEF LargeChange, Counting, AddToBucket, DataInv, DataOK, stored
  <1> QED
    BY <1>2, <1>3, CountData

LEMMA SmallData ==
    ASSUME DataInv, NEW a \in Activities, SmallChange(a)
    PROVE  DataInv'
  <1>1. /\ a \notin seen /\ seen' = seen \cup {a} /\ seen' \subseteq Activities
        /\ UNCHANGED <<queue, flush, ghosts>> /\ {} \in Events
    BY DEF SmallChange, Counting, DataInv, DataOK, stored, Events
  <1>2. \A u \in recorded : u[2] \in seen
    BY DEF DataInv, CountedOnce
  <1>3. CASE burst' = {a} /\ AddToBucket({<<"manual", a>>})
    <2>1. {<<"manual", a>>} \in Events /\ {<<"manual", a>>} \cap recorded = {}
      BY <1>1, <1>2 DEF Events, Units, Categories
    <2>2. <<"ai", a>> \notin recorded \cup {<<"manual", a>>}
      BY <1>1, <1>2
    <2> QED
      BY <1>1, <1>3, <2>1, <2>2, CountData DEF AddToBucket
  <1>4. CASE AddToBucket({"ai"} \X (burst \cup {a})) /\ burst' = {}
    <2>1. burst \subseteq seen /\ \A b \in burst : <<"ai", b>> \notin recorded
      BY DEF DataInv, CountedOnce
    <2>2. {"ai"} \X (burst \cup {a}) \in Events
      BY DEF DataInv, DataOK, Events, Units, Categories
    <2>3. ({"ai"} \X (burst \cup {a})) \cap recorded = {}
      BY <1>1, <1>2, <2>1
    <2>4. \A u \in {"ai"} \X (burst \cup {a}) : u[2] \in seen'
      BY <1>1, <2>1
    <2> QED
      BY <1>1, <1>4, <2>2, <2>3, <2>4, CountData DEF AddToBucket
  <1>5. CASE burst' = burst \cup {a} /\ UNCHANGED <<buckets, recorded>>
    <2>1. burst' \subseteq seen' /\ \A b \in burst' : <<"ai", b>> \notin recorded
      BY <1>1, <1>2, <1>5 DEF DataInv, CountedOnce
    <2> QED
      BY <1>1, <1>5, <2>1, CountData
  <1> QED
    BY <1>3, <1>4, <1>5 DEF SmallChange

LEMMA DeletionData ==
    ASSUME DataInv, NEW a \in Activities, Deletion(a)
    PROVE  DataInv'
  <1>1. {<<"manual", a>>} \in Events /\ {<<"manual", a>>} \cap recorded = {}
    BY DEF Deletion, Counting, DataInv, CountedOnce, Events, Units, Categories
  <1>2. /\ buckets' = buckets \cup {<<"manual", a>>}
        /\ recorded' = recorded \cup {<<"manual", a>>}
        /\ seen' = seen \cup {a} /\ seen' \subseteq Activities /\ burst' = burst
        /\ UNCHANGED <<queue, flush, ghosts>>
    BY DEF Deletion, Counting, AddToBucket, DataInv, DataOK, stored
  <1>3. burst' \subseteq seen' /\ \A b \in burst' : <<"ai", b>> \notin recorded'
    BY <1>2 DEF DataInv, CountedOnce
  <1> QED
    BY <1>1, <1>2, <1>3, CountData

\* A stretch of focus is one fresh unit or none.
LEMMA FocusUnits ==
    ASSUME DataInv, NEW units \in FocusTime
    PROVE  /\ units \in Events /\ units \cap recorded = {}
           /\ \A a \in Activities : <<"ai", a>> \notin units
           /\ LET now == seen \cup {u[2] : u \in units}
              IN  now \subseteq Activities /\ \A u \in units : u[2] \in now
  <1>1. CASE units = {}
    BY <1>1 DEF Events, DataInv, DataOK
  <1>2. ASSUME NEW a \in Activities \ seen, units = {<<"other", a>>}
        PROVE  /\ units \in Events /\ units \cap recorded = {}
               /\ \A b \in Activities : <<"ai", b>> \notin units
               /\ {u[2] : u \in units} = {a}
    BY <1>2 DEF DataInv, CountedOnce, Events, Units, Categories
  <1>3. units = {} \/ \E a \in Activities \ seen : units = {<<"other", a>>}
    BY DEF FocusTime
  <1>4. seen \subseteq Activities
    BY DEF DataInv, DataOK
  <1> QED
    BY <1>1, <1>2, <1>3, <1>4

LEMMA FocusData == DataInv /\ FlushFocus => DataInv'
  <1> SUFFICES ASSUME DataInv, FlushFocus PROVE DataInv'
    OBVIOUS
  <1>1. PICK units \in FocusTime \ {{}} :
             AddToBucket(units) /\ seen' = seen \cup {u[2] : u \in units}
    BY DEF FlushFocus
  <1>2. /\ units \in Events /\ units \cap recorded = {} /\ seen' \subseteq Activities
        /\ \A u \in units : u[2] \in seen'
        /\ \A a \in Activities : <<"ai", a>> \notin units
    BY <1>1, FocusUnits
  <1>3. /\ buckets' = buckets \cup units /\ recorded' = recorded \cup units
        /\ burst' = burst /\ UNCHANGED <<queue, flush, ghosts>> /\ seen \subseteq seen'
    BY <1>1 DEF FlushFocus, AddToBucket, stored
  <1>4. burst' \subseteq seen' /\ \A a \in burst' : <<"ai", a>> \notin recorded'
    BY <1>2, <1>3 DEF DataInv, DataOK, CountedOnce
  <1> QED
    BY <1>2, <1>3, <1>4, CountData

LEMMA FlushData ==
    ASSUME DataInv, NEW verbose, FlushAll(verbose)
    PROVE  DataInv'
  <1>1. PICK units \in FocusTime :
         LET all    == buckets \cup units
             events == queue \o BucketsToEvents(all)
         IN  /\ recorded' = recorded \cup units
             /\ seen' = seen \cup {u[2] : u \in units}
             /\ \/ /\ buckets' = all
                   /\ UNCHANGED <<flush, shared>>
                \/ /\ buckets' = {}
                   /\ IF events = <<>> THEN UNCHANGED <<flush, shared>> ELSE
                      \E f \in Flushes \ Underway :
                         /\ flush' = [flush EXCEPT ![f] =
                                        [Free EXCEPT !.at = "local", !.events = events]]
                         /\ shared' = IF Underway = {} THEN shared
                                      ELSE shared \cup UnitsOf(events)
                                             \cup UNION {UnitsOf(flush[g].events) : g \in Underway}
    BY DEF FlushAll
  <1> DEFINE all == buckets \cup units
             events == queue \o BucketsToEvents(all)
  <1>2. /\ units \in Events /\ units \cap recorded = {} /\ seen' \subseteq Activities
        /\ \A u \in units : u[2] \in seen'
        /\ \A a \in Activities : <<"ai", a>> \notin units
    BY <1>1, FocusUnits
  <1>3. /\ recorded' = recorded \cup units /\ burst' = burst /\ seen \subseteq seen'
        /\ UNCHANGED <<queue, delivered, discarded, doubted, killed, unpushed>>
    BY <1>1 DEF FlushAll, stored
  <1>4. /\ burst' \subseteq seen' /\ \A a \in burst' : <<"ai", a>> \notin recorded'
        /\ \A a \in burst : <<"ai", a>> \notin units
    BY <1>2, <1>3 DEF DataInv, DataOK, CountedOnce
  <1>5. CASE buckets' = all /\ UNCHANGED <<flush, shared>>
    BY <1>2, <1>3, <1>4, <1>5, CountData DEF ghosts
  <1>6. CASE buckets' = {} /\ events = <<>> /\ UNCHANGED <<flush, shared>>
    <2>1. all \in Events
      BY <1>2 DEF DataInv, DataOK, Events
    <2>2. BucketsToEvents(all) \in Seq(Events) /\ UnitsOf(BucketsToEvents(all)) = all
      BY <2>1, BucketEvents
    <2>3. BucketsToEvents(all) = <<>>
      BY <1>6, <2>2, UnitsConcat DEF DataInv, DataOK
    <2>4. all = {}
      BY <2>2, <2>3, NoEvents
    <2>5. buckets' = buckets \cup units
      BY <1>6, <2>4
    <2> QED
      BY <1>2, <1>3, <1>4, <1>6, <2>5, CountData DEF ghosts
  <1>7. ASSUME buckets' = {}, NEW f \in Flushes \ Underway,
               flush' = [flush EXCEPT ![f] = [Free EXCEPT !.at = "local", !.events = events]],
               shared' = IF Underway = {} THEN shared
                         ELSE shared \cup UnitsOf(events)
                                \cup UNION {UnitsOf(flush[g].events) : g \in Underway}
        PROVE  DataInv'
    BY <1>2, <1>3, <1>4, <1>7, TakeData
  <1> QED
    BY <1>1, <1>5, <1>6, <1>7


-----------------------------------------------------------------------------
(* The answers to a flush.                                                  *)

LEMMA TaskOf ==
    ASSUME DataInv, ControlOK, NEW f \in Flushes, NEW retries \in BOOLEAN, NEW resets \in BOOLEAN
    PROVE  /\ Settle(flush[f], retries, resets) \in Flush
           /\ Settle(flush[f], retries, resets).at = "settle"
           /\ Settle(flush[f], retries, resets).events = <<>>
           /\ Free \in Flush /\ Free.at = "free" /\ Free.events = <<>>
           /\ Request(f) \in Flush
           /\ Request(f).at = "cloud"
           /\ Request(f).events = flush[f].events
  <1>1. flush[f] \in Flush /\ token \in 0 .. MaxToken /\ 0 \in 0 .. MaxToken
    BY IdeExtensionAssumption DEF DataInv, DataOK, ControlOK
  <1> QED
    BY <1>1, NoEvents DEF Settle, Free, Flush, Request

LEMMA HeldUnits ==
    ASSUME DataInv, NEW f \in Flushes
    PROVE  /\ UnitsOf(queue) \subseteq recorded /\ InFlush(f) \subseteq recorded
           /\ recorded \subseteq Units
           /\ discarded \subseteq recorded /\ doubted \subseteq recorded
           /\ unpushed \subseteq recorded
           /\ delivered \in [Units -> 0 .. 2]
           /\ flush[f].events \in Seq(Events) /\ Apart(flush[f].events)
           /\ UnitsOf(<<>>) = {} /\ UnitsOf(Newest(<<>>)) = {}
           /\ UnitsOf(Newest(flush[f].events)) \subseteq InFlush(f)
           /\ delivered' = delivered => Delivers(InFlush(f))
  <1>1. flush[f].events \in Seq(Events) /\ Apart(flush[f].events)
    BY DEF DataInv, DataOK, BucketsApart, Flush
  <1>2. UnitsOf(queue) \subseteq recorded /\ InFlush(f) \subseteq recorded
    BY DEF DataInv, HeldRecorded, Held, InFlush
  <1>3. UnitsOf(<<>>) = {} /\ UnitsOf(Newest(<<>>)) = {}
    BY NoEvents, NewestKeeps
  <1>4. UnitsOf(Newest(flush[f].events)) \subseteq InFlush(f)
    BY <1>1, NewestKeeps DEF InFlush
  <1>5. delivered' = delivered => Delivers(InFlush(f))
    BY DEF DataInv, DataOK, Delivers
  <1> QED
    BY <1>1, <1>2, <1>3, <1>4, <1>5 DEF DataInv, DataOK, Events

\* A flush ends whose units are stored, left unpushed, given up or back in the
\* queue: what else is queued is shared.
LEMMA EndsData ==
    ASSUME DataInv, NEW f \in Flushes, Sending(f), NEW task \in Flush,
           flush' = [flush EXCEPT ![f] = task],
           task.at \notin {"local", "cloud"}, task.events = <<>>,
           queue' \in {Newest(<<>>), Newest(flush[f].events)},
           Delivers(InFlush(f)),
           doubted \subseteq doubted', doubted' \subseteq recorded,
           discarded \subseteq discarded', discarded' \subseteq recorded,
           unpushed \subseteq unpushed', unpushed' \subseteq recorded,
           \A u \in InFlush(f) :
              u \in UnitsOf(queue') \cup discarded' \cup unpushed' \/ delivered'[u] > 0,
           queue' = Newest(<<>>)
              \/ \A u \in InFlush(f) : delivered'[u] > 0 => delivered[u] > 0 \/ u \in doubted',
           UNCHANGED <<edits, shared, killed>>
    PROVE  DataInv'
  <1>1. UnitsOf(queue) \subseteq InFlush(f) \cup shared
    BY DEF DataInv, QueueTaken
  <1>2. \A u \in UnitsOf(queue) \cup InFlush(f) :
            u \in UnitsOf(queue') \cup UnitsOf(task.events) \cup discarded' \cup unpushed'
                    \cup shared
            \/ delivered'[u] > 0
    BY <1>1
  <1>3. \A u \in UnitsOf(queue') \cup UnitsOf(task.events) :
            delivered'[u] > 0 => delivered[u] > 0 \/ u \in doubted'
    BY HeldUnits
  <1> QED
    BY <1>2, <1>3, GoingData

LEMMA LocalOkData ==
    ASSUME IInv, NEW f \in Flushes, LocalAgentOk(f)
    PROVE  DataInv'
  <1> DEFINE task == Settle(flush[f], FALSE, TRUE)
  <1>1. DataInv /\ Sending(f) /\ task \in Flush /\ task.at = "settle" /\ task.events = <<>>
    BY TaskOf DEF IInv, LocalAgentOk, Sending
  <1>2. /\ flush' = [flush EXCEPT ![f] = task] /\ queue' = Newest(<<>>)
        /\ AgentStores(flush[f].events)
        /\ UNCHANGED <<edits, discarded, doubted, shared, killed>>
    BY DEF LocalAgentOk, Going, SaveQueue, Remaining
  <1> HIDE DEF task
  <1>3. /\ Delivers(InFlush(f))
        /\ unpushed \subseteq unpushed' /\ unpushed' \subseteq unpushed \cup InFlush(f)
        /\ \A u \in Units : u \in InFlush(f) => delivered'[u] > 0 \/ u \in unpushed'
    BY <1>1, <1>2, HeldUnits, AgentStored DEF InFlush
  <1>4. /\ unpushed' \subseteq recorded
        /\ \A u \in InFlush(f) : u \in unpushed' \/ delivered'[u] > 0
        /\ doubted \subseteq recorded /\ discarded \subseteq recorded
    BY <1>1, <1>3, HeldUnits
  <1> QED
    BY <1>1, <1>2, <1>3, <1>4, EndsData

LEMMA CloudOkData ==
    ASSUME IInv, NEW f \in Flushes, CloudOk(f)
    PROVE  DataInv'
  <1> DEFINE task == Settle(flush[f], FALSE, FALSE)
  <1>1. DataInv /\ Sending(f) /\ task \in Flush /\ task.at = "settle" /\ task.events = <<>>
    BY TaskOf DEF IInv, CloudOk, Sending
  <1>2. /\ flush' = [flush EXCEPT ![f] = task] /\ queue' = Newest(<<>>)
        /\ Store(flush[f].events)
        /\ UNCHANGED <<edits, discarded, doubted, unpushed, shared, killed>>
    BY DEF CloudOk, Going, SaveQueue, Remaining
  <1> HIDE DEF task
  <1>3. Delivers(InFlush(f)) /\ \A u \in Units : u \in InFlush(f) => delivered'[u] > 0
    BY <1>1, <1>2, HeldUnits, StoredQueue DEF InFlush
  <1>4. /\ \A u \in InFlush(f) : delivered'[u] > 0
        /\ doubted \subseteq recorded /\ discarded \subseteq recorded /\ unpushed \subseteq recorded
    BY <1>1, <1>3, HeldUnits
  <1> QED
    BY <1>1, <1>2, <1>3, <1>4, EndsData

\* 401, or another 4xx.
LEMMA DroppedData ==
    ASSUME IInv, NEW f \in Flushes, CloudUnauthorized(f) \/ CloudRefused(f)
    PROVE  DataInv'
  <1> DEFINE task == Settle(flush[f], FALSE, FALSE)
  <1>1. DataInv /\ Sending(f) /\ task \in Flush /\ task.at = "settle" /\ task.events = <<>>
    BY TaskOf DEF IInv, CloudUnauthorized, CloudRefused, Sending
  <1>2. /\ flush' = [flush EXCEPT ![f] = task] /\ queue' = Newest(<<>>)
        /\ discarded' = discarded \cup InFlush(f)
        /\ UNCHANGED <<edits, delivered, doubted, unpushed, shared, killed>>
    BY DEF CloudUnauthorized, CloudRefused, Going, SaveQueue, GiveUp, InFlush
  <1> HIDE DEF task
  <1>3. /\ Delivers(InFlush(f)) /\ discarded' \subseteq recorded
        /\ doubted \subseteq recorded /\ unpushed \subseteq recorded
    BY <1>1, <1>2, HeldUnits
  <1> QED
    BY <1>1, <1>2, <1>3, EndsData

\* A request fails that was stored or not: what it stored is in doubt.
InDoubt(f) ==
    /\ Delivers(InFlush(f))
    /\ doubted \subseteq doubted' /\ doubted' \subseteq recorded
    /\ unpushed \subseteq unpushed' /\ unpushed' \subseteq recorded
    /\ \A u \in Units : delivered'[u] > 0 => delivered[u] > 0 \/ u \in doubted'

\* What cannot be sent goes back to the queue, up to the cap.
LEMMA PutBackData ==
    ASSUME IInv, NEW f \in Flushes, Sending(f), InDoubt(f), NEW task \in Flush,
           flush' = [flush EXCEPT ![f] = task],
           task.at \notin {"local", "cloud"}, task.events = <<>>,
           SaveQueue(Unsent(flush[f].events)), GiveUp(Overflow(Unsent(flush[f].events))),
           UNCHANGED <<edits, shared, killed>>
    PROVE  DataInv'
  <1>1. DataInv
    BY DEF IInv
  <1>2. /\ queue' = Newest(flush[f].events)
        /\ discarded' = discarded \cup (InFlush(f) \ UnitsOf(queue'))
    BY DEF SaveQueue, Unsent, GiveUp, Overflow, InFlush
  <1>3. /\ discarded \subseteq discarded' /\ discarded' \subseteq recorded
        /\ \A u \in InFlush(f) : u \in UnitsOf(queue') \cup discarded'
        /\ \A u \in InFlush(f) : u \in Units
    BY <1>1, <1>2, HeldUnits
  <1> QED
    BY <1>1, <1>2, <1>3, EndsData DEF InDoubt

LEMMA RetryableData ==
    ASSUME IInv, NEW f \in Flushes, CloudRetryable(f)
    PROVE  DataInv'
  <1>1. DataInv /\ ControlOK /\ Sending(f)
    BY DEF IInv, CloudRetryable, Sending
  <1>2. InDoubt(f)
    <2>1. CASE UNCHANGED <<delivered, doubted>>
      BY <1>1, <2>1, HeldUnits DEF CloudRetryable, InDoubt
    <2>2. CASE Store(flush[f].events) /\ doubted' = doubted \cup InFlush(f)
      <3>1. Delivers(InFlush(f))
        BY <1>1, <2>2, HeldUnits, StoredQueue DEF InFlush
      <3> QED
        BY <1>1, <2>2, <3>1, HeldUnits DEF CloudRetryable, InDoubt, Delivers
    <2> QED
      BY <2>1, <2>2 DEF CloudRetryable, InFlush
  <1>3. /\ Settle(flush[f], TRUE, FALSE) \in Flush
        /\ Settle(flush[f], TRUE, FALSE).at = "settle"
        /\ Settle(flush[f], TRUE, FALSE).events = <<>>
    BY <1>1, TaskOf
  <1> QED
    BY <1>1, <1>2, <1>3, PutBackData DEF CloudRetryable, Going

LEMMA LocalFailsData ==
    ASSUME IInv, NEW f \in Flushes, LocalAgentFails(f)
    PROVE  DataInv'
  <1>1. DataInv /\ ControlOK /\ Sending(f)
    BY DEF IInv, LocalAgentFails, Sending
  <1>2. UNCHANGED <<edits, shared, killed>>
    BY DEF LocalAgentFails
  <1>3. InDoubt(f)
    <2>1. CASE UNCHANGED <<delivered, doubted, unpushed>>
      BY <1>1, <2>1, HeldUnits DEF InDoubt
    <2>2. CASE AgentStores(flush[f].events) /\ doubted' = doubted \cup InFlush(f)
      <3>1. /\ Delivers(InFlush(f))
            /\ unpushed \subseteq unpushed' /\ unpushed' \subseteq unpushed \cup InFlush(f)
        BY <1>1, <2>2, HeldUnits, AgentStored DEF InFlush
      <3> QED
        BY <1>1, <2>2, <3>1, HeldUnits DEF InDoubt, Delivers
    <2> QED
      BY <2>1, <2>2 DEF LocalAgentFails, InFlush
  <1>4. CASE /\ SaveQueue(Unsent(flush[f].events)) /\ GiveUp(Overflow(Unsent(flush[f].events)))
             /\ Going(f, Free)
    <2>1. Free \in Flush /\ Free.at = "free" /\ Free.events = <<>>
      BY <1>1, TaskOf
    <2> QED
      BY <1>1, <1>2, <1>3, <1>4, <2>1, PutBackData DEF Going
  <1>5. CASE /\ Going(f, Request(f))
             /\ UNCHANGED <<queue, discarded>>
    <2> DEFINE task == Request(f)
    <2>1. /\ task \in Flush /\ task.at = "cloud" /\ task.events = flush[f].events
          /\ flush' = [flush EXCEPT ![f] = task]
      BY <1>1, <1>5, TaskOf DEF Going
    <2> HIDE DEF task
    <2>2. UnitsOf(task.events) = InFlush(f) /\ UnitsOf(queue') = UnitsOf(queue)
      BY <1>5, <2>1 DEF InFlush
    <2>3. \A u \in UnitsOf(queue') \cup UnitsOf(task.events) :
              delivered'[u] > 0 => delivered[u] > 0 \/ u \in doubted'
      BY <1>1, <1>3, <2>2, HeldUnits DEF InDoubt
    <2>4. \A u \in UnitsOf(queue) \cup InFlush(f) :
              u \in UnitsOf(queue') \cup UnitsOf(task.events) \cup discarded' \cup unpushed'
                      \cup shared
              \/ delivered'[u] > 0
      BY <2>2
    <2>5. discarded \subseteq discarded' /\ discarded' \subseteq recorded
      BY <1>1, <1>5, HeldUnits
    <2> QED
      BY <1>1, <1>2, <1>3, <1>5, <2>1, <2>3, <2>4, <2>5, GoingData DEF InDoubt
  <1> QED
    BY <1>4, <1>5 DEF LocalAgentFails, ToCloud

LEMMA AfterSaveData ==
    ASSUME IInv, NEW f \in Flushes, AfterSave(f)
    PROVE  DataInv'
  <1>1. DataInv /\ ControlOK /\ ~Sending(f)
    BY DEF IInv, AfterSave, Sending
  <1>2. Free \in Flush /\ Free.at = "free" /\ Free.events = <<>>
    BY <1>1, TaskOf
  <1>3. /\ flush' = [flush EXCEPT ![f] = Free]
        /\ UNCHANGED <<edits, delivered, doubted, unpushed, shared, killed>>
        /\ \/ UNCHANGED <<queue, discarded>>
           \/ queue' = Newest(<<>>) /\ discarded' = discarded \cup UnitsOf(queue)
    BY DEF AfterSave, Going, ScheduleRetry, SaveQueue, GiveUp
  <1>4. InFlush(f) = {}
    BY <1>1, NoEvents DEF DataInv, IdleFlushes, InFlush
  <1>5. /\ Delivers(InFlush(f)) /\ doubted \subseteq recorded /\ unpushed \subseteq recorded
        /\ discarded \subseteq discarded' /\ discarded' \subseteq recorded
        /\ \A u \in UnitsOf(queue) : u \in UnitsOf(queue') \cup discarded'
    BY <1>1, <1>3, HeldUnits
  <1> QED
    BY <1>1, <1>2, <1>3, <1>4, <1>5, GoingData


-----------------------------------------------------------------------------
(* The host stops, and what the user and others do.                         *)

LEMMA StopsData ==
    ASSUME IInv, HostStops
    PROVE  DataInv'
  <1>1. DataInv /\ ControlOK
    BY DEF IInv
  <1>2. /\ buckets' = {} /\ burst' = {} /\ flush' = [f \in Flushes |-> Free]
        /\ queue' = queue /\ seen' = seen /\ recorded' = recorded
        /\ discarded' = discarded /\ shared' = shared
        /\ killed' = killed \cup (Held \ UnitsOf(queue))
    BY DEF HostStops, stored
  <1>3. Free \in Flush /\ Free.at = "free" /\ Free.events = <<>>
    BY NoEvents, IdeExtensionAssumption DEF Free, Flush
  <1>4. \A f \in Flushes : ~Sending(f)' /\ flush'[f].events = <<>> /\ InFlush(f)' = {}
    BY <1>2, <1>3, NoEvents DEF Sending, InFlush
  <1>5. /\ delivered' \in [Units -> 0 .. 2]
        /\ doubted \subseteq doubted' /\ doubted' \subseteq recorded
        /\ unpushed \subseteq unpushed' /\ unpushed' \subseteq recorded
        /\ \A u \in Units : delivered[u] > 0 => delivered'[u] > 0
        /\ \A u \in Units : delivered'[u] > 0 =>
              delivered[u] > 0 \/ (u \in doubted' /\ u \in recorded)
        /\ \A u \in Units : delivered'[u] > 1 => delivered[u] > 1 \/ u \in doubted'
    <2>1. CASE UNCHANGED <<delivered, doubted, unpushed>>
      BY <1>1, <2>1 DEF DataInv, DataOK
    <2>2. ASSUME NEW f \in Flushes,
                 \/ Store(flush[f].events) /\ UNCHANGED unpushed
                 \/ AgentStores(flush[f].events),
                 doubted' = doubted \cup InFlush(f)
          PROVE  /\ Delivers(InFlush(f))
                 /\ doubted \subseteq doubted' /\ doubted' \subseteq recorded
                 /\ unpushed \subseteq unpushed' /\ unpushed' \subseteq recorded
                 /\ InFlush(f) \subseteq recorded
      <3>1. CASE Store(flush[f].events) /\ UNCHANGED unpushed
        <4>1. Delivers(InFlush(f))
          BY <1>1, <3>1, HeldUnits, StoredQueue DEF InFlush
        <4> QED
          BY <1>1, <2>2, <3>1, <4>1, HeldUnits
      <3>2. CASE AgentStores(flush[f].events)
        <4>1. /\ Delivers(InFlush(f))
              /\ unpushed \subseteq unpushed' /\ unpushed' \subseteq unpushed \cup InFlush(f)
          BY <1>1, <3>2, HeldUnits, AgentStored DEF InFlush
        <4> QED
          BY <1>1, <2>2, <4>1, HeldUnits
      <3> QED
        BY <2>2, <3>1, <3>2
    <2>3. ASSUME NEW f \in Flushes,
                 \/ Store(flush[f].events) /\ UNCHANGED unpushed
                 \/ AgentStores(flush[f].events),
                 doubted' = doubted \cup InFlush(f)
          PROVE  /\ \A u \in Units : delivered'[u] > 0 =>
                       delivered[u] > 0 \/ (u \in doubted' /\ u \in recorded)
                 /\ \A u \in Units : delivered'[u] > 1 => delivered[u] > 1 \/ u \in doubted'
      BY <2>2, <2>3 DEF Delivers
    <2>4. \/ UNCHANGED <<delivered, doubted, unpushed>>
          \/ \E f \in Flushes : /\ \/ Store(flush[f].events) /\ UNCHANGED unpushed
                                   \/ AgentStores(flush[f].events)
                                /\ doubted' = doubted \cup InFlush(f)
      BY DEF HostStops, InFlush
    <2> QED
      BY <2>1, <2>2, <2>3, <2>4 DEF Delivers
  <1>6. Held' = UnitsOf(queue) /\ UnitsOf(queue) \subseteq recorded /\ Held \subseteq recorded
    BY <1>1, <1>2, <1>4 DEF Held, InFlush, DataInv, HeldRecorded
  <1>7. DataOK'
    BY <1>1, <1>2, <1>3, <1>5, <1>6 DEF DataInv, DataOK, Events
  <1>8. HeldRecorded' /\ CountedOnce' /\ IdleFlushes' /\ QueueTaken' /\ OverlapShared'
    BY <1>1, <1>2, <1>4, <1>6 DEF DataInv, HeldRecorded, CountedOnce, IdleFlushes, QueueTaken,
                                  OverlapShared
  <1>9. SentRecorded'
    BY <1>1, <1>2, <1>5 DEF DataInv, SentRecorded
  <1>10. BucketsApart'
    BY <1>1, <1>2, <1>4, NoEvents DEF DataInv, BucketsApart
  <1>11. AgainExplained'
    <2>1. ASSUME NEW u \in UnitsOf(queue), delivered'[u] > 0
          PROVE  u \in doubted' \cup shared
      <3>1. u \in Units
        BY <1>1, <1>6 DEF DataInv, DataOK, Events
      <3> QED
        BY <1>1, <1>5, <2>1, <3>1 DEF DataInv, AgainExplained
    <2>2. UNION {InFlush(f)' : f \in Flushes} = {}
      BY <1>4
    <2> QED
      BY <1>2, <2>1, <2>2 DEF AgainExplained
  <1>12. DuplicatesExplained'
    BY <1>1, <1>2, <1>5 DEF DataInv, DuplicatesExplained
  <1>13. NothingVanishes'
    BY <1>1, <1>2, <1>5, <1>6 DEF DataInv, NothingVanishes
  <1> QED
    BY <1>7, <1>8, <1>9, <1>10, <1>11, <1>12, <1>13 DEF DataInv

LEMMA StepData ==
    ASSUME IInv, NEW f \in Flushes, Step(f)
    PROVE  DataInv'
  BY LocalOkData, LocalFailsData, CloudOkData, DroppedData, RetryableData, AfterSaveData DEF Step

LEMMA NextData == IInv /\ [Next]_vars => DataInv'
  <1> SUFFICES ASSUME IInv, [Next]_vars PROVE DataInv'
    OBVIOUS
  <1>1. DataInv
    BY DEF IInv
  <1>2. CASE \E a \in Activities : LargeChange(a) \/ SmallChange(a) \/ Deletion(a)
    BY <1>1, <1>2, LargeData, SmallData, DeletionData
  <1>3. CASE FlushFocus
    BY <1>1, <1>3, FocusData
  <1>4. CASE Interval \/ RetryTimer \/ FlushCmd \/ Deactivate
    BY <1>1, <1>4, FlushData DEF Interval, RetryTimer, FlushCmd, Deactivate
  <1>5. CASE \E f \in Flushes : Step(f)
    BY <1>5, StepData
  <1>6. CASE HostStops
    BY <1>6, StopsData
  <1>7. CASE \/ SetPaused \/ WindowFocus \/ Pair \/ LogoutCmd \/ Activate
             \/ Revoke \/ RotateLocalToken \/ UNCHANGED vars
    <2>1. UNCHANGED <<queue, flush, edits, ghosts>>
      BY <1>7 DEF SetPaused, WindowFocus, Pair, LogoutCmd, Activate, Revoke, RotateLocalToken,
                  vars, stored
    <2> QED
      BY <1>1, <2>1, QuietData
  <1> QED
    BY <1>2, <1>3, <1>4, <1>5, <1>6, <1>7 DEF Next


-----------------------------------------------------------------------------
(* The account, the timer and the status bar.                               *)

\* While the window lives, a status bar that looks well means a token, and a
\* refusal only until the flush that met it renders the status again.
StatusTrue ==
    window # "closed" /\ status \in {"idle", "paused"} =>
        /\ token # 0
        /\ authRequired => \E f \in Flushes : flush[f].at = "settle"

StatusInv == IInv /\ StatusTrue

LEMMA RenderedStatus ==
    ASSUME NEW tok, NEW required \in BOOLEAN, NEW pause \in BOOLEAN
    PROVE  /\ Rendered(tok, required, pause) \in {"idle", "auth-required", "paused"}
           /\ Rendered(tok, required, pause) \in {"idle", "paused"} => tok # 0 /\ ~required
  <1>1. CASE tok = 0 \/ required
    BY <1>1 DEF Rendered
  <1>2. CASE ~(tok = 0 \/ required) /\ pause
    BY <1>2 DEF Rendered
  <1>3. CASE ~(tok = 0 \/ required) /\ ~pause
    BY <1>3 DEF Rendered
  <1> QED
    BY <1>1, <1>2, <1>3

LEMMA StepControl ==
    ASSUME IInv, NEW f \in Flushes, Step(f)
    PROVE  ControlOK'
  <1>1. ControlOK /\ {TRUE, FALSE} = BOOLEAN
    BY DEF IInv
  <1>2. LocalTokenRead \subseteq {"unread", "missing", "stale", "current"}
    BY <1>1 DEF LocalTokenRead, ControlOK
  <1>3. CASE LocalAgentOk(f)
    BY <1>1, <1>3 DEF LocalAgentOk, ControlOK
  <1>4. CASE LocalAgentFails(f)
    <2>1. localToken' \in {"unread", "missing", "stale", "current"}
      BY <1>2, <1>4 DEF LocalAgentFails
    <2>2. status' \in {status, "sending"}
      BY <1>4 DEF LocalAgentFails, ToCloud
    <2>3. UNCHANGED <<window, focused, paused, retryTimer, retryAttempt, token, revoked,
                      authRequired>>
      BY <1>4 DEF LocalAgentFails
    <2> QED
      BY <1>1, <2>1, <2>2, <2>3 DEF ControlOK
  <1>5. CASE CloudOk(f)
    <2>1. 0 \in 0 .. MaxRetryAttempts
      BY IdeExtensionAssumption
    <2> QED
      BY <1>1, <1>5, <2>1 DEF CloudOk, ControlOK
  <1>6. CASE CloudUnauthorized(f)
    BY <1>1, <1>6 DEF CloudUnauthorized, ControlOK
  <1>7. CASE CloudRetryable(f) \/ CloudRefused(f)
    BY <1>1, <1>7 DEF CloudRetryable, CloudRefused, ControlOK, session
  <1>8. CASE AfterSave(f)
    <2>1. retryAttempt' \in 0 .. MaxRetryAttempts /\ retryTimer' \in BOOLEAN
      <3>1. /\ retryAttempt \in 0 .. MaxRetryAttempts /\ MaxRetryAttempts \in Nat
            /\ retryTimer \in BOOLEAN
        BY <1>1, IdeExtensionAssumption DEF ControlOK
      <3>2. \/ retryAttempt' \in {0, retryAttempt}
            \/ retryAttempt' = retryAttempt + 1 /\ retryAttempt' <= MaxRetryAttempts
        BY <1>8 DEF AfterSave, ScheduleRetry, NextAttempt
      <3>3. retryTimer' \in {retryTimer, TRUE}
        BY <1>8 DEF AfterSave, ScheduleRetry
      <3>4. retryAttempt' \in 0 .. MaxRetryAttempts
        BY <3>1, <3>2
      <3> QED
        BY <3>1, <3>3, <3>4
    <2>2. authRequired' \in BOOLEAN
      BY <1>8 DEF AfterSave
    <2>3. status' \in {"idle", "auth-required", "paused"}
      <3>1. status' = Rendered(token, authRequired', paused) /\ paused \in BOOLEAN
        BY <1>1, <1>8 DEF AfterSave, StatusAfter, ControlOK
      <3> QED
        BY <2>2, <3>1, RenderedStatus
    <2>4. UNCHANGED <<window, focused, paused, localToken, token, revoked>>
      BY <1>8 DEF AfterSave
    <2> QED
      BY <1>1, <2>1, <2>2, <2>3, <2>4 DEF ControlOK
  <1> QED
    BY <1>3, <1>4, <1>5, <1>6, <1>7, <1>8 DEF Step

LEMMA NextControl == IInv /\ [Next]_vars => ControlOK'
  <1> SUFFICES ASSUME IInv, [Next]_vars PROVE ControlOK'
    OBVIOUS
  <1>1. ControlOK /\ 0 \in 0 .. MaxRetryAttempts
    BY IdeExtensionAssumption DEF IInv
  <1>2. CASE \E a \in Activities : LargeChange(a) \/ SmallChange(a) \/ Deletion(a)
    BY <1>1, <1>2 DEF LargeChange, SmallChange, Deletion, Counting, ControlOK, stored, session
  <1>3. CASE FlushFocus
    BY <1>1, <1>3 DEF FlushFocus, ControlOK, stored, session
  <1>4. CASE Interval \/ RetryTimer \/ FlushCmd \/ Deactivate
    <2>1. UNCHANGED <<focused, paused, localToken, retryAttempt, session>>
      BY <1>4 DEF Interval, RetryTimer, FlushCmd, Deactivate, FlushAll, stored
    <2>2. window' \in {window, "closing"} /\ retryTimer' \in {retryTimer, FALSE}
      BY <1>4 DEF Interval, RetryTimer, FlushCmd, Deactivate
    <2> QED
      BY <1>1, <2>1, <2>2 DEF ControlOK, session
  <1>5. CASE \E f \in Flushes : Step(f)
    BY <1>5, StepControl
  <1>6. CASE HostStops
    BY <1>1, <1>6 DEF HostStops, ControlOK, stored, session
  <1>7. CASE SetPaused
    BY <1>1, <1>7, RenderedStatus DEF SetPaused, ControlOK, stored
  <1>8. CASE WindowFocus
    BY <1>1, <1>8 DEF WindowFocus, ControlOK, stored, session
  <1>9. CASE Pair \/ LogoutCmd
    <2>1. status' \in {"idle", "auth-required", "paused"}
      <3>1. \E tok : status' = Rendered(tok, FALSE, paused)
        BY <1>9 DEF Pair, LogoutCmd
      <3> QED
        BY <1>1, <3>1, RenderedStatus DEF ControlOK
    <2>2. token' \in 0 .. MaxToken /\ authRequired' = FALSE
      <3>1. token' \in 1 .. MaxToken \/ token' = 0
        BY <1>9 DEF Pair, LogoutCmd
      <3>2. MaxToken \in Nat
        BY IdeExtensionAssumption
      <3>3. authRequired' = FALSE
        BY <1>9 DEF Pair, LogoutCmd
      <3> QED
        BY <3>1, <3>2, <3>3
    <2>3. UNCHANGED <<window, focused, paused, retryTimer, localToken, retryAttempt, revoked>>
      BY <1>9 DEF Pair, LogoutCmd, stored
    <2> QED
      BY <1>1, <2>1, <2>2, <2>3 DEF ControlOK
  <1>10. CASE Activate
    BY <1>1, <1>10, RenderedStatus DEF Activate, ControlOK
  <1>11. CASE Revoke
    BY <1>1, <1>11 DEF Revoke, ControlOK, stored
  <1>12. CASE RotateLocalToken
    BY <1>1, <1>12 DEF RotateLocalToken, ControlOK, stored, session
  <1>13. CASE UNCHANGED vars
    BY <1>1, <1>13 DEF vars, ControlOK, stored, session
  <1> QED
    BY <1>2, <1>3, <1>4, <1>5, <1>6, <1>7, <1>8, <1>9, <1>10, <1>11, <1>12, <1>13 DEF Next

LEMMA InitControl == Init => ControlOK
  <1>1. 0 \in 0 .. MaxToken /\ 0 \in 0 .. MaxRetryAttempts
    BY IdeExtensionAssumption
  <1> QED
    BY <1>1 DEF Init, ControlOK

LEMMA StepStatus ==
    ASSUME StatusInv, NEW f \in Flushes, Step(f)
    PROVE  StatusTrue'
  <1>1. StatusTrue /\ flush \in [Flushes -> Flush] /\ window' = window /\ token' = token
    BY DEF StatusInv, IInv, DataInv, DataOK, Step, LocalAgentOk, LocalAgentFails, CloudOk,
           CloudUnauthorized, CloudRetryable, CloudRefused, AfterSave, session
  <1>2. CASE LocalAgentOk(f)
    BY <1>2 DEF LocalAgentOk, StatusTrue
  <1>3. CASE LocalAgentFails(f)
    <2>1. status' = "sending" \/ (status' = status /\ token = 0)
      BY <1>3 DEF LocalAgentFails, ToCloud
    <2> QED
      BY <1>1, <2>1 DEF StatusTrue
  <1>4. CASE CloudOk(f)
    BY <1>1, <1>4 DEF CloudOk, StatusTrue
  <1>5. CASE CloudUnauthorized(f) \/ CloudRetryable(f) \/ CloudRefused(f)
    <2>1. status' = status /\ flush'[f].at = "settle"
      <3>1. \E retries \in BOOLEAN : flush' = [flush EXCEPT ![f] = Settle(flush[f], retries, FALSE)]
        BY <1>5 DEF CloudUnauthorized, CloudRetryable, CloudRefused, Going
      <3>2. \A retries \in BOOLEAN : Settle(flush[f], retries, FALSE).at = "settle"
        BY TaskOf DEF StatusInv, IInv
      <3>3. status' = status
        BY <1>5 DEF CloudUnauthorized, CloudRetryable, CloudRefused, session
      <3> QED
        BY <1>1, <3>1, <3>2, <3>3
    <2> QED
      BY <1>1, <2>1 DEF StatusTrue
  <1>6. CASE AfterSave(f)
    <2>1. status' = Rendered(token, authRequired', paused)
      BY <1>6 DEF AfterSave, StatusAfter
    <2>2. authRequired' \in BOOLEAN /\ paused \in BOOLEAN
      BY <1>6 DEF AfterSave, StatusInv, IInv, ControlOK
    <2> QED
      BY <1>1, <2>1, <2>2, RenderedStatus DEF StatusTrue
  <1> QED
    BY <1>2, <1>3, <1>4, <1>5, <1>6 DEF Step

LEMMA NextStatus == StatusInv /\ [Next]_vars => StatusTrue'
  <1> SUFFICES ASSUME StatusInv, [Next]_vars PROVE StatusTrue'
    OBVIOUS
  <1>1. StatusTrue /\ flush \in [Flushes -> Flush]
    BY DEF StatusInv, IInv, DataInv, DataOK
  <1>2. CASE \E a \in Activities : LargeChange(a) \/ SmallChange(a) \/ Deletion(a)
    BY <1>1, <1>2 DEF LargeChange, SmallChange, Deletion, Counting, StatusTrue, session
  <1>3. CASE FlushFocus \/ WindowFocus \/ Revoke \/ RotateLocalToken \/ UNCHANGED vars
    BY <1>1, <1>3 DEF FlushFocus, WindowFocus, Revoke, RotateLocalToken, vars, StatusTrue, session
  <1>4. CASE Interval \/ RetryTimer \/ FlushCmd \/ Deactivate
    <2>1. UNCHANGED session /\ window = "open" /\ \E v : FlushAll(v)
      BY <1>4 DEF Interval, RetryTimer, FlushCmd, Deactivate, FlushAll
    <2>2. ASSUME NEW g \in Flushes, flush[g].at = "settle"
          PROVE  flush'[g].at = "settle"
      <3>1. flush' = flush \/ \E f \in Flushes \ Underway : \E t : flush' = [flush EXCEPT ![f] = t]
        BY <2>1 DEF FlushAll
      <3>2. g \in Underway
        BY <2>2 DEF Underway
      <3> QED
        BY <1>1, <2>2, <3>1, <3>2
    <2> QED
      BY <1>1, <2>1, <2>2 DEF StatusTrue, session
  <1>5. CASE \E f \in Flushes : Step(f)
    BY <1>5, StepStatus
  <1>6. CASE HostStops
    BY <1>6 DEF HostStops, StatusTrue
  <1>7. CASE SetPaused \/ Pair \/ LogoutCmd \/ Activate
    <2>1. status' = Rendered(token', authRequired', paused')
      BY <1>7 DEF SetPaused, Pair, LogoutCmd, Activate, stored
    <2>2. authRequired' \in BOOLEAN /\ paused' \in BOOLEAN
      BY NextControl DEF StatusInv, ControlOK
    <2> QED
      BY <2>1, <2>2, RenderedStatus DEF StatusTrue
  <1> QED
    BY <1>2, <1>3, <1>4, <1>5, <1>6, <1>7 DEF Next

LEMMA InitStatus == Init => StatusTrue
  BY DEF Init, StatusTrue

-----------------------------------------------------------------------------
(* Theorems.                                                                *)

\* The strengthening and the meaning of the status bar hold in every state that
\* is reached, for any number of flushes under way.
THEOREM Invariance == Spec => []StatusInv
<1>1. StatusInv /\ [Next]_vars => StatusInv'
  BY NextData, NextControl, NextStatus DEF StatusInv, IInv
<1>2. Init => StatusInv
  BY InitData, InitControl, InitStatus DEF StatusInv, IInv
<1> QED
  BY <1>1, <1>2, PTL DEF Spec

\* Every variable of the extension keeps its type: the queue never exceeds
\* MAX_QUEUE_SIZE and the attempts never MAX_RETRY_ATTEMPTS
\* (extension.ts:337-353).
THEOREM TypeCorrect == Spec => []TypeOK
<1>1. StatusInv => TypeOK
  BY DEF StatusInv, IInv, DataInv, DataOK, ControlOK, TypeOK
<1> QED
  BY <1>1, Invariance, PTL

\* However flushes overlap, requests fail and windows close, what was counted
\* is held, stored or given up on purpose, but for what a stopped host had in
\* memory, what two flushes had at once, and what the agent accepted without
\* storing it (extension.ts:253-337, local_api.rs:106-117).
THEOREM NothingCountedVanishes == Spec => []NothingVanishes
<1>1. StatusInv => NothingVanishes
  BY DEF StatusInv, IInv, DataInv
<1> QED
  BY <1>1, Invariance, PTL

\* What is stored twice was in a request of unknown outcome, or in two flushes
\* at once, which both took the same queue (extension.ts:263-270).
THEOREM TwiceOnlyForAReason == Spec => []DuplicatesExplained
<1>1. StatusInv => DuplicatesExplained
  BY DEF StatusInv, IInv, DataInv
<1> QED
  BY <1>1, Invariance, PTL

\* While no flush is between its answer and its last line, a status bar that
\* shows neither an error nor sending means that there is a token and that no
\* refusal is outstanding: none has come since the last request answered well and
\* since the editor was paired, logged out or opened (extension.ts:270-276, 299-336,
\* 462-477).
THEOREM StatusIsTrue == Spec => []StatusWarns
<1>1. StatusInv => StatusWarns
  BY DEF StatusInv, StatusTrue, StatusWarns
<1> QED
  BY <1>1, Invariance, PTL


-----------------------------------------------------------------------------
(* One flush at a time: the reasons for a loss and for a duplicate, each    *)
(* tied to its cause.                                                       *)

LEMMA AllPushed ==
    ASSUME "store" \notin Faults, NEW events, AgentStores(events)
    PROVE  UNCHANGED unpushed
  <1>1. unpushed' = unpushed \cup UnitsOf([n \in DOMAIN events \ DOMAIN events |-> events[n]])
    BY DEF AgentStores
  <1>2. UnitsOf([n \in DOMAIN events \ DOMAIN events |-> events[n]]) = {}
    BY DEF UnitsOf
  <1> QED
    BY <1>1, <1>2

\* Only a flush that starts beside another one shares units.
LEMMA NeverShared ==
    ASSUME NEW f, Flushes = {f}, [Next]_vars
    PROVE  UNCHANGED shared
  <1>1. CASE Interval \/ RetryTimer \/ FlushCmd \/ Deactivate
    <2>1. \E v : FlushAll(v)
      BY <1>1 DEF Interval, RetryTimer, FlushCmd, Deactivate
    <2>2. Underway # {} => Flushes \ Underway = {}
      BY DEF Underway
    <2>3. Underway = {} => UNCHANGED shared
      BY <2>1 DEF FlushAll
    <2>4. Flushes \ Underway = {} => UNCHANGED shared
      BY <2>1 DEF FlushAll
    <2> QED
      BY <2>2, <2>3, <2>4
  <1>2. CASE \E g \in Flushes : Step(g)
    BY <1>2 DEF Step, LocalAgentOk, LocalAgentFails, CloudOk, CloudUnauthorized,
                CloudRetryable, CloudRefused, AfterSave
  <1>3. CASE \/ \E a \in Activities : LargeChange(a) \/ SmallChange(a) \/ Deletion(a)
             \/ FlushFocus \/ SetPaused \/ WindowFocus \/ Pair \/ LogoutCmd
             \/ HostStops \/ Activate \/ Revoke \/ RotateLocalToken \/ UNCHANGED vars
    BY <1>3 DEF LargeChange, SmallChange, Deletion, Counting, FlushFocus, SetPaused, WindowFocus, Pair,
                LogoutCmd, HostStops, Activate, Revoke, RotateLocalToken, vars, ghosts
  <1> QED
    BY <1>1, <1>2, <1>3 DEF Next

\* A window that is never closed kills nothing, an agent that can store leaves
\* nothing unpushed.
LEMMA NeverKilled ==
    ASSUME "close" \notin Inputs, "store" \notin Faults, window = "open", [Next]_vars
    PROVE  window' = "open" /\ UNCHANGED <<killed, unpushed>>
  <1>1. CASE Interval \/ RetryTimer \/ FlushCmd \/ Deactivate
    BY <1>1 DEF Interval, RetryTimer, FlushCmd, Deactivate, FlushAll
  <1>2. ASSUME NEW g \in Flushes, Step(g)
        PROVE  window' = "open" /\ UNCHANGED <<killed, unpushed>>
    <2>1. CASE LocalAgentOk(g)
      BY <2>1, AllPushed DEF LocalAgentOk
    <2>2. CASE LocalAgentFails(g)
      BY <2>2, AllPushed DEF LocalAgentFails
    <2>3. CASE \/ CloudOk(g) \/ CloudUnauthorized(g) \/ CloudRetryable(g) \/ CloudRefused(g)
               \/ AfterSave(g)
      BY <2>3 DEF CloudOk, CloudUnauthorized, CloudRetryable, CloudRefused, AfterSave
    <2> QED
      BY <1>2, <2>1, <2>2, <2>3 DEF Step
  <1>3. CASE \/ \E a \in Activities : LargeChange(a) \/ SmallChange(a) \/ Deletion(a)
             \/ FlushFocus \/ SetPaused \/ WindowFocus \/ Pair \/ LogoutCmd
             \/ HostStops \/ Activate \/ Revoke \/ RotateLocalToken \/ UNCHANGED vars
    BY <1>3 DEF LargeChange, SmallChange, Deletion, Counting, FlushFocus, SetPaused, WindowFocus, Pair,
                LogoutCmd, HostStops, Activate, Revoke, RotateLocalToken, vars, ghosts
  <1> QED
    BY <1>1, <1>2, <1>3 DEF Next

\* With one flush at a time, an open window and an agent that can store, what
\* is counted is held, stored, or given up by the cap, a refusal or the last
\* retry, whatever requests fail (extension.ts:253-354).
THEOREM OneFlushLosesNothing ==
    ASSUME NEW f, Flushes = {f}, "close" \notin Inputs, "store" \notin Faults
    PROVE  Spec => [](recorded \subseteq Held \cup {u \in Units : delivered[u] > 0} \cup discarded)
<1> DEFINE None == window = "open" /\ shared = {} /\ killed = {} /\ unpushed = {}
<1>1. Init => None
  BY DEF Init
<1>2. None /\ [Next]_vars => None'
  BY NeverShared, NeverKilled
<1>3. None /\ StatusInv =>
        recorded \subseteq Held \cup {u \in Units : delivered[u] > 0} \cup discarded
  BY DEF StatusInv, IInv, DataInv, NothingVanishes
<1> HIDE DEF None
<1> QED
  BY <1>1, <1>2, <1>3, Invariance, PTL DEF Spec

\* With one flush at a time, whatever else happens, a unit is stored twice only
\* after a request that failed although it was stored (extension.ts:330-332).
THEOREM OneFlushDuplicatesOnlyInDoubt ==
    ASSUME NEW f, Flushes = {f}
    PROVE  Spec => [](\A u \in Units : delivered[u] > 1 => u \in doubted)
<1>1. Init => shared = {}
  BY DEF Init
<1>2. shared = {} /\ [Next]_vars => (shared = {})'
  BY NeverShared
<1>3. shared = {} /\ StatusInv => \A u \in Units : delivered[u] > 1 => u \in doubted
  BY DEF StatusInv, IInv, DataInv, DuplicatesExplained
<1> QED
  BY <1>1, <1>2, <1>3, Invariance, PTL DEF Spec
=============================================================================
