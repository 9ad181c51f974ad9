----------------------- MODULE BrowserExtensionProofs -----------------------
(***************************************************************************)
(* What the browser extension's unlocked storage costs and what it does    *)
(* not: for any number of overlapping handlers every lost event has a      *)
(* reason, every event stored twice a cause, and only a focus that was     *)
(* checked before the pause is tracked during it.  While handlers do not   *)
(* overlap none is lost.                                                   *)
(***************************************************************************)
EXTENDS BrowserExtension, SequenceTheorems, FiniteSetTheorems, TLAPS

(* Lemmas about the queues.                                                 *)

AtMostOnce(x, s) == \A m, n \in DOMAIN s : s[m] = x /\ s[n] = x => m = n

LEMMA ToSetEmpty == ToSet(<<>>) = {}
  BY DEF ToSet

LEMMA ToSetAppend ==
    ASSUME NEW S, NEW s \in Seq(S), NEW x \in S
    PROVE  /\ Append(s, x) \in Seq(S)
           /\ ToSet(Append(s, x)) = ToSet(s) \cup {x}
           /\ \A y : AtMostOnce(y, s) /\ (y = x => y \notin ToSet(s)) => AtMostOnce(y, Append(s, x))
  <1>1. /\ Append(s, x) \in Seq(S) /\ Len(s) \in Nat /\ DOMAIN s = 1 .. Len(s)
        /\ DOMAIN Append(s, x) = 1 .. Len(s) + 1
        /\ \A n \in 1 .. Len(s) : Append(s, x)[n] = s[n]
        /\ Append(s, x)[Len(s) + 1] = x
    BY AppendProperties, LenProperties
  <1>2. ToSet(Append(s, x)) = ToSet(s) \cup {x}
    BY <1>1 DEF ToSet
  <1>3. ASSUME NEW y, AtMostOnce(y, s), y = x => y \notin ToSet(s)
        PROVE  AtMostOnce(y, Append(s, x))
    BY <1>1, <1>3 DEF AtMostOnce, ToSet
  <1> QED
    BY <1>1, <1>2, <1>3

LEMMA ToSetConcat ==
    ASSUME NEW S, NEW s \in Seq(S), NEW t \in Seq(S)
    PROVE  /\ s \o t \in Seq(S)
           /\ ToSet(s \o t) = ToSet(s) \cup ToSet(t)
           /\ \A y : /\ AtMostOnce(y, s) /\ AtMostOnce(y, t)
                     /\ y \notin ToSet(s) \/ y \notin ToSet(t)
                     => AtMostOnce(y, s \o t)
  <1>1. /\ s \o t \in Seq(S) /\ Len(s) \in Nat /\ Len(t) \in Nat
        /\ DOMAIN s = 1 .. Len(s) /\ DOMAIN t = 1 .. Len(t)
        /\ DOMAIN (s \o t) = 1 .. Len(s) + Len(t)
        /\ \A n \in 1 .. Len(s) : (s \o t)[n] = s[n]
        /\ \A n \in 1 .. Len(s) + Len(t) : n > Len(s) => (s \o t)[n] = t[n - Len(s)]
    BY ConcatProperties, LenProperties
  <1>2. ToSet(s \o t) = ToSet(s) \cup ToSet(t)
    <2>1. ToSet(s \o t) \subseteq ToSet(s) \cup ToSet(t)
      BY <1>1 DEF ToSet
    <2>2. ToSet(s) \subseteq ToSet(s \o t)
      BY <1>1 DEF ToSet
    <2>3. ASSUME NEW n \in DOMAIN t PROVE t[n] \in ToSet(s \o t)
      <3>1. Len(s) + n \in DOMAIN (s \o t) /\ (s \o t)[Len(s) + n] = t[n]
        BY <1>1
      <3> QED
        BY <3>1 DEF ToSet
    <2> QED
      BY <2>1, <2>2, <2>3 DEF ToSet
  <1>3. ASSUME NEW y, AtMostOnce(y, s), AtMostOnce(y, t), y \notin ToSet(s) \/ y \notin ToSet(t),
               NEW m \in DOMAIN (s \o t), NEW n \in DOMAIN (s \o t),
               (s \o t)[m] = y, (s \o t)[n] = y
        PROVE  m = n
    <2>1. ASSUME NEW k \in DOMAIN (s \o t)
          PROVE  \/ k \in DOMAIN s /\ (s \o t)[k] = s[k]
                 \/ k - Len(s) \in DOMAIN t /\ (s \o t)[k] = t[k - Len(s)]
      <3>1. CASE k <= Len(s)
        BY <1>1, <3>1
      <3>2. CASE k > Len(s)
        BY <1>1, <3>2
      <3> QED
        BY <1>1, <3>1, <3>2
    <2>2. \A i \in DOMAIN s, j \in DOMAIN t : ~(s[i] = y /\ t[j] = y)
      BY <1>3 DEF ToSet
    <2> QED
      BY <1>1, <1>3, <2>1, <2>2 DEF AtMostOnce
  <1> QED
    BY <1>1, <1>2, <1>3 DEF AtMostOnce

\* The cap keeps the last MaxBuffer events.
LEMMA NewestKeeps ==
    ASSUME NEW q \in Seq(Items)
    PROVE  /\ Newest(q) \in Seq(Items) /\ Len(Newest(q)) <= MaxBuffer
           /\ ToSet(Newest(q)) \subseteq ToSet(q)
           /\ \A y : AtMostOnce(y, q) => AtMostOnce(y, Newest(q))
  <1>1. Len(q) \in Nat /\ DOMAIN q = 1 .. Len(q)
    BY LenProperties
  <1>2. PICK k \in Nat : /\ k <= Len(q) /\ Len(q) - k <= MaxBuffer
                        /\ Newest(q) = SubSeq(q, 1 + k, Len(q))
    <2>1. CASE Len(q) > MaxBuffer
      <3>1. /\ Len(q) - MaxBuffer \in Nat
            /\ Len(q) - MaxBuffer <= Len(q) /\ Len(q) - (Len(q) - MaxBuffer) <= MaxBuffer
        BY <1>1, <2>1, BrowserExtensionAssumption
      <3> QED
        BY <2>1, <3>1 DEF Newest
    <2>2. CASE ~(Len(q) > MaxBuffer)
      <3>1. 0 <= Len(q) /\ Len(q) - 0 <= MaxBuffer
        BY <1>1, <2>2, BrowserExtensionAssumption
      <3> QED
        BY <2>2, <3>1 DEF Newest
    <2> QED
      BY <2>1, <2>2
  <1>3. /\ Newest(q) \in Seq(Items) /\ Len(Newest(q)) = Len(q) - k
        /\ \A n \in 1 .. Len(q) - k : n + k \in DOMAIN q /\ Newest(q)[n] = q[n + k]
    <2>1. \A i \in 1 + k .. Len(q) : q[i] \in Items
      BY <1>1, <1>2, ElementOfSeq
    <2>2. /\ Newest(q) \in Seq(Items)
          /\ Len(Newest(q)) = IF 1 + k <= Len(q) THEN Len(q) - (1 + k) + 1 ELSE 0
          /\ \A i \in 1 .. Len(q) - (1 + k) + 1 : Newest(q)[i] = q[1 + k + i - 1]
      BY <1>1, <1>2, <2>1, SubSeqProperties
    <2>3. Len(Newest(q)) = Len(q) - k
      <3>1. CASE 1 + k <= Len(q)
        BY <1>1, <1>2, <2>2, <3>1
      <3>2. CASE k = Len(q)
        BY <1>1, <1>2, <2>2, <3>2
      <3>3. k \in Nat /\ Len(q) \in Nat /\ k <= Len(q)
        BY <1>1, <1>2
      <3>4. 1 + k <= Len(q) \/ k = Len(q)
        BY <3>3
      <3> QED
        BY <3>1, <3>2, <3>4
    <2>4. ASSUME NEW n \in 1 .. Len(q) - k
          PROVE  n + k \in DOMAIN q /\ Newest(q)[n] = q[n + k]
      <3>1. n + k \in 1 .. Len(q) /\ n \in 1 .. Len(q) - (1 + k) + 1 /\ 1 + k + n - 1 = n + k
        BY <1>1, <1>2
      <3> QED
        BY <1>1, <1>2, <2>2, <3>1
    <2> QED
      BY <2>2, <2>3, <2>4
  <1>4. DOMAIN Newest(q) = 1 .. Len(q) - k
    BY <1>3, LenProperties
  <1>5. ToSet(Newest(q)) \subseteq ToSet(q)
    BY <1>3, <1>4 DEF ToSet
  <1>6. ASSUME NEW y, AtMostOnce(y, q) PROVE AtMostOnce(y, Newest(q))
    <2>1. SUFFICES ASSUME NEW m \in 1 .. Len(q) - k, NEW n \in 1 .. Len(q) - k,
                          Newest(q)[m] = y, Newest(q)[n] = y
                   PROVE  m = n
      BY <1>4 DEF AtMostOnce
    <2>2. m + k = n + k
      BY <1>3, <1>6, <2>1 DEF AtMostOnce
    <2> QED
      BY <1>1, <1>2, <2>2
  <1> QED
    BY <1>1, <1>2, <1>3, <1>5, <1>6

\* What Stored counts.
LEMMA CountCopies ==
    ASSUME NEW S, NEW s \in Seq(S), NEW x
    PROVE  LET copies == Cardinality({n \in DOMAIN s : s[n] = x})
           IN  /\ copies \in Nat
               /\ copies > 0 <=> x \in ToSet(s)
               /\ AtMostOnce(x, s) => copies <= 1
  <1> DEFINE at == {n \in DOMAIN s : s[n] = x}
  <1>1. IsFiniteSet(at) /\ Cardinality(at) \in Nat
    <2>1. IsFiniteSet(DOMAIN s)
      BY LenProperties, FS_Interval
    <2> QED
      BY <2>1, FS_Subset, FS_CardinalityType
  <1>2. Cardinality(at) = 0 <=> at = {}
    BY <1>1, FS_EmptySet
  <1>3. at # {} <=> x \in ToSet(s)
    BY DEF ToSet
  <1>4. ASSUME AtMostOnce(x, s), at # {} PROVE Cardinality(at) = 1
    <2>1. \E n : at = {n}
      BY <1>4 DEF AtMostOnce
    <2> QED
      BY <1>1, <2>1, FS_Singleton
  <1> QED
    BY <1>1, <1>2, <1>3, <1>4

-----------------------------------------------------------------------------
(* Lemmas about the stored state.                                           *)

LEMMA EmptyState ==
    /\ Empty \in StoredState /\ Empty.current = NoItem /\ Queued(Empty) = {}
    /\ Free \in Handler /\ Free.at = "free" /\ Free.batch = <<>> /\ Free.read = Empty
    /\ ~Free.flushes /\ Free.change = "close"
  <1>1. <<>> \in Seq(Items)
    BY EmptySeq
  <1>2. 0 \in 0 .. MaxAttempts
    BY BrowserExtensionAssumption
  <1>3. Empty \in StoredState /\ Empty.current = NoItem
    BY <1>1, <1>2 DEF Empty, StoredState
  <1>4. Queued(Empty) = {}
    BY ToSetEmpty DEF Queued, Empty
  <1>5. Free \in Handler
    BY <1>1, <1>2, <1>3 DEF Free, Handler, Changes
  <1> QED
    BY <1>3, <1>4, <1>5 DEF Free

\* Capping loses only what was queued and changes nothing else.
LEMMA CappedState ==
    ASSUME NEW s \in StoredState
    PROVE  /\ Capped(s) \in StoredState
           /\ Len(Capped(s).buffer) <= MaxBuffer /\ Len(Capped(s).retryQueue) <= MaxBuffer
           /\ Capped(s).current = s.current /\ Capped(s).paused = s.paused
           /\ Queued(Capped(s)) \subseteq Queued(s)
           /\ Capped(s).buffer = Newest(s.buffer) /\ Capped(s).retryQueue = Newest(s.retryQueue)
  <1>1. s.buffer \in Seq(Items) /\ s.retryQueue \in Seq(Items)
    BY DEF StoredState
  <1>2. /\ Capped(s).buffer = Newest(s.buffer) /\ Capped(s).retryQueue = Newest(s.retryQueue)
        /\ Capped(s).current = s.current /\ Capped(s).paused = s.paused
        /\ Capped(s).retryAttempts = s.retryAttempts
    BY DEF Capped, StoredState
  <1>3. Capped(s) \in StoredState
    BY <1>1, NewestKeeps DEF Capped, StoredState
  <1> QED
    BY <1>1, <1>2, <1>3, NewestKeeps DEF Queued

\* The focus that ends may become an event.
LEMMA FinalizedState ==
    ASSUME NEW s \in StoredState, NEW f \in Finalized(s)
    PROVE  /\ f \in StoredState
           /\ f.current = s.current /\ f.paused = s.paused /\ f.retryQueue = s.retryQueue
           /\ \/ f.buffer = s.buffer
              \/ s.current \in Items /\ f.buffer = Append(s.buffer, s.current)
  <1>1. s.buffer \in Seq(Items) /\ s.current \in Items \cup {NoItem}
    BY DEF StoredState
  <1>2. CASE f = s
    BY <1>2
  <1>3. CASE s.current \in Items /\ f = [s EXCEPT !.buffer = Append(@, s.current)]
    <2>1. Append(s.buffer, s.current) \in Seq(Items)
      BY <1>1, <1>3, ToSetAppend
    <2> QED
      BY <1>3, <2>1 DEF StoredState
  <1> QED
    BY <1>1, <1>2, <1>3 DEF Finalized

\* What a mutate writes, before the cap: it keeps what it has read, unless it
\* clears the queues, and adds no event but the focus that ends, the copy and
\* the batch that is put back.
LEMMA ChangedState ==
    ASSUME NEW s \in StoredState, NEW task \in Handler, NEW item \in Items \cup {NoItem},
           task.change \in {"focus", "copy"} => item \in Items,
           NEW next \in Changed(s, task, item)
    PROVE  /\ next \in StoredState
           /\ next.current \in {s.current, item, NoItem}
           /\ Queued(next) \subseteq Queued(s) \cup {s.current, item} \cup ToSet(task.batch)
           /\ Queued(next) \subseteq Items
           /\ task.change # "clear" => Queued(s) \subseteq Queued(next)
           /\ task.change = "putback" => ToSet(task.batch) \subseteq Queued(next)
  <1> USE DEF Queued
  <1>1. /\ s.buffer \in Seq(Items) /\ s.retryQueue \in Seq(Items)
        /\ task.batch \in Seq(Items) /\ <<>> \in Seq(Items)
        /\ 0 \in 0 .. MaxAttempts /\ task.attempts \in 0 .. MaxAttempts
        /\ task.change \in Changes
    BY EmptySeq, BrowserExtensionAssumption DEF StoredState, Handler
  <1>2. ASSUME NEW q \in Seq(Items) PROVE ToSet(q) \subseteq Items
    BY LenProperties DEF ToSet
  <1>3. next \in StoredState => Queued(next) \subseteq Items
    BY <1>2 DEF StoredState
  <1>4. CASE task.change \in {"focus", "close"}
    <2>1. PICK f \in Finalized(s) : next = [f EXCEPT !.current = IF task.change = "focus" THEN item
                                                                ELSE NoItem]
      BY <1>4 DEF Changed
    <2>2. /\ f \in StoredState /\ f.current = s.current /\ f.retryQueue = s.retryQueue
          /\ \/ f.buffer = s.buffer
             \/ s.current \in Items /\ f.buffer = Append(s.buffer, s.current)
      BY FinalizedState
    <2>3. next \in StoredState /\ next.current \in {item, NoItem}
      BY <2>1, <2>2, <1>4 DEF StoredState
    <2>4. next.buffer = f.buffer /\ next.retryQueue = s.retryQueue
      BY <2>1, <2>2 DEF StoredState
    <2>5. /\ ToSet(f.buffer) \subseteq ToSet(s.buffer) \cup {s.current}
          /\ ToSet(s.buffer) \subseteq ToSet(f.buffer)
      <3>1. CASE f.buffer = s.buffer
        BY <3>1
      <3>2. CASE s.current \in Items /\ f.buffer = Append(s.buffer, s.current)
        BY <1>1, <3>2, ToSetAppend
      <3> QED
        BY <2>2, <3>1, <3>2
    <2> QED
      BY <1>3, <1>4, <2>3, <2>4, <2>5
  <1>5. CASE task.change = "copy"
    <2>1. /\ item \in Items /\ next = [s EXCEPT !.buffer = Append(@, item)]
          /\ Append(s.buffer, item) \in Seq(Items)
          /\ ToSet(Append(s.buffer, item)) = ToSet(s.buffer) \cup {item}
      BY <1>1, <1>5, ToSetAppend DEF Changed
    <2>2. /\ next \in StoredState /\ next.current = s.current
          /\ next.buffer = Append(s.buffer, item) /\ next.retryQueue = s.retryQueue
      BY <2>1 DEF StoredState
    <2> QED
      BY <1>3, <1>5, <2>1, <2>2
  <1>6. CASE task.change \in {"pause", "resume", "sent", "exhausted"}
    <2>1. next \in {[s EXCEPT !.paused = TRUE, !.current = NoItem], [s EXCEPT !.paused = FALSE],
                    [s EXCEPT !.retryAttempts = 0]}
      BY <1>6 DEF Changed, Pausing
    <2>2. /\ next \in StoredState /\ next.current \in {s.current, NoItem}
          /\ next.buffer = s.buffer /\ next.retryQueue = s.retryQueue
      BY <1>1, <2>1 DEF StoredState
    <2> QED
      BY <1>3, <1>6, <2>2
  <1>7. CASE task.change = "clear"
    <2>1. next = [s EXCEPT !.buffer = <<>>, !.retryQueue = <<>>]
      BY <1>7 DEF Changed, Cleared
    <2>2. /\ next \in StoredState /\ next.current = s.current
          /\ next.buffer = <<>> /\ next.retryQueue = <<>>
      BY <1>1, <2>1 DEF StoredState
    <2> QED
      BY <1>7, <2>2, ToSetEmpty
  <1>8. CASE task.change = "putback"
    <2>1. /\ next = [s EXCEPT !.retryQueue = task.batch \o @, !.retryAttempts = task.attempts]
          /\ task.batch \o s.retryQueue \in Seq(Items)
          /\ ToSet(task.batch \o s.retryQueue) = ToSet(task.batch) \cup ToSet(s.retryQueue)
      BY <1>1, <1>8, ToSetConcat DEF Changed, PutBack
    <2>2. /\ next \in StoredState /\ next.current = s.current
          /\ next.buffer = s.buffer /\ next.retryQueue = task.batch \o s.retryQueue
      BY <1>1, <2>1 DEF StoredState
    <2> QED
      BY <1>3, <1>8, <2>1, <2>2
  <1> QED
    BY <1>1, <1>4, <1>5, <1>6, <1>7, <1>8 DEF Changes

-----------------------------------------------------------------------------
(* Any number of handlers.                                                  *)

\* The focus, in the store and in every copy of it, is an item that was seen.
FocusSeen ==
    /\ store.current \in seen \cup {NoItem}
    /\ \A h \in Handlers : handler[h].read.current \in seen \cup {NoItem}

\* Nothing is queued, read or in a batch that was not recorded.
HeldRecorded ==
    /\ Queued(store) \subseteq recorded
    /\ \A h \in Handlers :
          Queued(handler[h].read) \subseteq recorded /\ ToSet(handler[h].batch) \subseteq recorded

\* A handler has a batch from the clearing of the queues until it is sent, and
\* again while it puts it back; only the periodic alarm's close is followed by
\* a flush.
TaskOK(task) ==
    /\ task.batch # <<>> =>
          \/ task.at \in {"ingest", "request"}
          \/ task.at \in {"get", "set"} /\ task.change \in {"clear", "putback"}
    /\ task.flushes => task.change = "close"

TasksOK == \A h \in Handlers : TaskOK(handler[h])

IInv == TypeOK /\ FocusSeen /\ HeldRecorded /\ TasksOK /\ LossExplained

LEMMA InitIInv == Init => IInv
  <1> SUFFICES ASSUME Init PROVE IInv
    OBVIOUS
  <1>1. Len(<<>>) = 0 /\ MaxBuffer \in Nat
    BY EmptySeq, BrowserExtensionAssumption
  <1>2. TypeOK
    <2>1. Len(Empty.buffer) <= MaxBuffer /\ Len(Empty.retryQueue) <= MaxBuffer
      BY <1>1 DEF Empty
    <2>2. handler \in [Handlers -> Handler]
      BY EmptyState DEF Init
    <2>3. /\ store \in StoredState
          /\ Len(store.buffer) <= MaxBuffer /\ Len(store.retryQueue) <= MaxBuffer
      BY <2>1, EmptyState DEF Init
    <2>4. delivered \in [Items -> 0 .. 2]
      BY DEF Init
    <2> QED
      BY <2>2, <2>3, <2>4 DEF Init, TypeOK
  <1>3. FocusSeen /\ HeldRecorded /\ TasksOK
    BY EmptyState, ToSetEmpty DEF Init, FocusSeen, HeldRecorded, TasksOK, TaskOK
  <1>4. LossExplained
    BY DEF Init, LossExplained
  <1> QED
    BY <1>2, <1>3, <1>4 DEF IInv

\* A handler goes on with another task, the store as it was.  A batch that the
\* task leaves behind is delivered or given up.
LEMMA TaskIInv ==
    ASSUME IInv, NEW h \in Handlers, NEW task \in Handler,
           handler' = [handler EXCEPT ![h] = task],
           UNCHANGED <<store, seen, recorded, overtaken, killed, revived, outrun, slipped>>,
           shared' \subseteq recorded, paired' \in BOOLEAN, retryAlarm' \in BOOLEAN,
           task.read.current \in seen \cup {NoItem},
           Queued(task.read) \cup ToSet(task.batch) \subseteq recorded,
           TaskOK(task),
           delivered' \in [Items -> 0 .. 2],
           \A i \in Items : delivered[i] > 0 => delivered'[i] > 0,
           discarded \subseteq discarded', discarded' \subseteq recorded,
           doubted' \subseteq recorded,
           ToSet(handler[h].batch) \subseteq
               ToSet(task.batch) \cup {i \in Items : delivered'[i] > 0} \cup discarded'
    PROVE  IInv'
  <1> USE DEF IInv
  <1>1. /\ handler \in [Handlers -> Handler] /\ handler'[h] = task
        /\ \A g \in Handlers \ {h} : handler'[g] = handler[g]
    BY DEF TypeOK
  <1>2. TypeOK'
    BY DEF TypeOK
  <1>3. FocusSeen' /\ HeldRecorded' /\ TasksOK'
    BY <1>1 DEF FocusSeen, HeldRecorded, TasksOK
  <1>4. LossExplained'
    <2>1. recorded \subseteq Items /\ Queued(store)' = Queued(store)
      BY DEF TypeOK, Queued
    <2>2. ASSUME NEW i \in InMemory
          PROVE  i \in InMemory' \cup ToSet(handler[h].batch)
      BY <1>1 DEF InMemory
    <2>3. ToSet(task.batch) \subseteq InMemory'
      BY <1>1 DEF InMemory
    <2> QED
      BY <2>1, <2>2, <2>3 DEF LossExplained, Held
  <1> QED
    BY <1>2, <1>3, <1>4

\* Steps that leave no batch behind and send nothing.
LEMMA QuietIInv ==
    ASSUME IInv, NEW h \in Handlers, NEW task \in Handler,
           handler' = [handler EXCEPT ![h] = task],
           UNCHANGED <<store, paired, seen, recorded, ghosts>>, retryAlarm' \in BOOLEAN,
           task.read.current \in seen \cup {NoItem},
           Queued(task.read) \cup ToSet(task.batch) \subseteq recorded,
           TaskOK(task), ToSet(handler[h].batch) \subseteq ToSet(task.batch)
    PROVE  IInv'
  BY TaskIInv DEF IInv, TypeOK, ghosts, history

LEMMA MutateTask ==
    ASSUME NEW change \in Changes
    PROVE  /\ Mutate(change) \in Handler
           /\ Mutate(change).at = "get" /\ Mutate(change).change = change
           /\ Mutate(change).batch = <<>> /\ Mutate(change).read = Empty
           /\ Mutate(change).attempts = 0 /\ ~Mutate(change).flushes
  BY EmptyState DEF Mutate, Handler, Free

\* A handler ends, starts or is sent to its first await without a batch.
LEMMA FreshIInv ==
    ASSUME IInv, NEW h \in Handlers, NEW task \in Handler,
           handler' = [handler EXCEPT ![h] = task],
           UNCHANGED <<store, paired, seen, recorded, ghosts>>, retryAlarm' \in BOOLEAN,
           task.read = Empty, task.batch = <<>>, handler[h].batch = <<>>,
           task.flushes => task.change = "close"
    PROVE  IInv'
  <1>1. /\ task.read.current \in seen \cup {NoItem}
        /\ Queued(task.read) \cup ToSet(task.batch) \subseteq recorded
        /\ TaskOK(task) /\ ToSet(handler[h].batch) \subseteq ToSet(task.batch)
    BY EmptyState, ToSetEmpty DEF TaskOK
  <1> QED
    BY <1>1, QuietIInv

LEMMA StartIInv ==
    ASSUME IInv, NEW h \in Handlers,
           \/ HandleFocus(h) \/ CloseCurrent(h) \/ HandleAiCopy(h)
           \/ SetPaused(h, "pause") \/ SetPaused(h, "resume") \/ FlushAlarm(h) \/ RetryAlarm(h)
    PROVE  IInv'
  <1>1. PICK task \in {[Free EXCEPT !.at = "check", !.change = "focus"],
                      [Free EXCEPT !.at = "check", !.change = "copy"],
                      Mutate("close"), Mutate("pause"), Mutate("resume"),
                      [Mutate("close") EXCEPT !.flushes = TRUE],
                      [Free EXCEPT !.at = "flush"]} :
          /\ handler[h].at = "free" /\ handler' = [handler EXCEPT ![h] = task]
          /\ UNCHANGED <<store, paired, seen, recorded, ghosts>> /\ retryAlarm' \in BOOLEAN
    BY DEF IInv, TypeOK, HandleFocus, CloseCurrent, HandleAiCopy, SetPaused, FlushAlarm,
           RetryAlarm, Start
  <1>2. handler[h].batch = <<>>
    BY <1>1 DEF IInv, TasksOK, TaskOK
  <1>3. \A c \in {"close", "pause", "resume"} :
           /\ Mutate(c) \in Handler /\ Mutate(c).read = Empty /\ Mutate(c).batch = <<>>
           /\ Mutate(c).change = c /\ ~Mutate(c).flushes
    BY MutateTask DEF Changes
  <1>4. /\ task \in Handler /\ task.read = Empty /\ task.batch = <<>>
        /\ task.flushes => task.change = "close"
    BY <1>1, <1>3, EmptyState DEF Handler, Changes
  <1> QED
    BY <1>1, <1>2, <1>4, FreshIInv

LEMMA CheckIInv ==
    ASSUME IInv, NEW h \in Handlers, Check(h)
    PROVE  IInv'
  <1>1. /\ handler[h].batch = <<>> /\ handler[h].change \in Changes /\ retryAlarm \in BOOLEAN
    BY DEF IInv, TypeOK, TasksOK, TaskOK, Check, Handler
  <1>2. CASE handler' = [handler EXCEPT ![h] = Free]
    BY <1>1, <1>2, EmptyState, FreshIInv DEF Check
  <1>3. CASE handler' = [handler EXCEPT ![h] = Mutate(handler[h].change)]
    BY <1>1, <1>3, MutateTask, FreshIInv DEF Check
  <1> QED
    BY <1>2, <1>3 DEF Check

LEMMA GetIInv ==
    ASSUME IInv, NEW h \in Handlers, Get(h)
    PROVE  IInv'
  <1> DEFINE task == [handler[h] EXCEPT !.at = "set", !.read = store]
  <1>1. handler[h] \in Handler /\ store \in StoredState /\ retryAlarm \in BOOLEAN
    BY DEF IInv, TypeOK
  <1>2. /\ task \in Handler /\ task.read = store /\ task.batch = handler[h].batch
        /\ task.at = "set" /\ task.change = handler[h].change
        /\ task.flushes = handler[h].flushes
    BY <1>1 DEF Handler
  <1>3. handler' = [handler EXCEPT ![h] = task]
    BY DEF Get, IInv, TypeOK
  <1>4. /\ store.current \in seen \cup {NoItem}
        /\ Queued(store) \cup ToSet(handler[h].batch) \subseteq recorded
        /\ handler[h].batch # <<>> => handler[h].change \in {"clear", "putback"}
        /\ handler[h].flushes => handler[h].change = "close"
    BY DEF IInv, FocusSeen, HeldRecorded, TasksOK, TaskOK, Get
  <1>5. TaskOK(task)
    BY <1>2, <1>4 DEF TaskOK
  <1> HIDE DEF task
  <1> QED
    BY <1>1, <1>2, <1>3, <1>4, <1>5, QuietIInv DEF Get

\* The batch is what the store holds.
LEMMA BatchState ==
    ASSUME NEW s \in StoredState
    PROVE  Batch(s) \in Seq(Items) /\ ToSet(Batch(s)) = Queued(s)
  BY ToSetConcat DEF Batch, Queued, StoredState

\* The batch exists from here on; ingest looks for the token.
LEMMA TokenIInv ==
    ASSUME IInv, NEW h \in Handlers, NoToken(h) \/ Request(h)
    PROVE  IInv'
  <1>1. /\ handler[h] \in Handler /\ handler[h].at = "ingest"
        /\ handler[h].read.current \in seen \cup {NoItem}
        /\ Queued(handler[h].read) \cup ToSet(handler[h].batch) \subseteq recorded
        /\ handler[h].flushes => handler[h].change = "close"
        /\ retryAlarm \in BOOLEAN /\ paired \in BOOLEAN /\ delivered \in [Items -> 0 .. 2]
        /\ discarded \subseteq recorded /\ doubted \subseteq recorded /\ shared \subseteq recorded
    BY DEF IInv, TypeOK, FocusSeen, HeldRecorded, TasksOK, TaskOK, NoToken, Request
  <1>2. CASE NoToken(h)
    <2>1. /\ Free.read.current \in seen \cup {NoItem} /\ TaskOK(Free) /\ Free \in Handler
          /\ Queued(Free.read) \cup ToSet(Free.batch) \subseteq recorded
      BY EmptyState, ToSetEmpty DEF TaskOK
    <2>2. /\ discarded' = discarded \cup ToSet(handler[h].batch)
          /\ handler' = [handler EXCEPT ![h] = Free]
          /\ UNCHANGED <<store, paired, retryAlarm, seen, recorded, delivered, doubted, history>>
      BY <1>2 DEF NoToken, GiveUp
    <2> QED
      BY <1>1, <2>1, <2>2, TaskIInv DEF history
  <1>3. CASE Request(h)
    <2> DEFINE task == [handler[h] EXCEPT !.at = "request"]
    <2>1. /\ task \in Handler /\ task.at = "request" /\ task.batch = handler[h].batch
          /\ task.read = handler[h].read /\ task.change = handler[h].change
          /\ task.flushes = handler[h].flushes
      BY <1>1 DEF Handler
    <2>2. handler' = [handler EXCEPT ![h] = task]
      BY <1>3 DEF Request, IInv, TypeOK
    <2> HIDE DEF task
    <2>3. TaskOK(task)
      BY <1>1, <2>1 DEF TaskOK
    <2> QED
      BY <1>1, <1>3, <2>1, <2>2, <2>3, QuietIInv DEF Request
  <1> QED
    BY <1>2, <1>3

LEMMA FlushIInv ==
    ASSUME IInv, NEW h \in Handlers, Flush(h)
    PROVE  IInv'
  <1> DEFINE task == [Mutate("clear") EXCEPT !.batch = Batch(store),
                                             !.attempts = store.retryAttempts]
  <1>1. /\ handler[h].batch = <<>> /\ retryAlarm \in BOOLEAN
        /\ store \in StoredState /\ Queued(store) \subseteq recorded
    BY DEF IInv, TypeOK, HeldRecorded, TasksOK, TaskOK, Flush
  <1>2. CASE handler' = [handler EXCEPT ![h] = Free] /\ UNCHANGED shared
    BY <1>1, <1>2, EmptyState, FreshIInv DEF Flush, ghosts, history
  <1>3. CASE /\ handler' = [handler EXCEPT ![h] = task]
             /\ shared' = shared \cup (ToSet(Batch(store)) \cap OthersBatches(h))
    <2>1. /\ task \in Handler /\ task.read = Empty /\ task.batch = Batch(store)
          /\ task.at = "get" /\ task.change = "clear" /\ ~task.flushes
      BY <1>1, MutateTask, BatchState DEF Handler, Changes, StoredState
    <2> HIDE DEF task
    <2>2. /\ task.read.current \in seen \cup {NoItem}
          /\ Queued(task.read) \cup ToSet(task.batch) \subseteq recorded
          /\ TaskOK(task) /\ ToSet(handler[h].batch) \subseteq ToSet(task.batch)
      BY <1>1, <2>1, EmptyState, ToSetEmpty, BatchState DEF TaskOK
    <2>3. /\ shared \subseteq recorded /\ delivered \in [Items -> 0 .. 2] /\ paired \in BOOLEAN
          /\ discarded \subseteq recorded /\ doubted \subseteq recorded
          /\ UNCHANGED <<store, seen, recorded, overtaken, killed, revived, outrun, slipped,
                         paired, retryAlarm, delivered, discarded, doubted>>
      BY DEF IInv, TypeOK, Flush
    <2>4. shared' \subseteq recorded
      BY <1>1, <1>3, <2>3, BatchState
    <2> QED
      BY <1>1, <1>3, <2>1, <2>2, <2>3, <2>4, TaskIInv
  <1> QED
    BY <1>2, <1>3 DEF Flush

-----------------------------------------------------------------------------
(* The write of a mutate, and the answers of the backend.                   *)

\* What a write based on task.read leaves in the store, the task it ends, and
\* what becomes of the events that were queued.
LEMMA SetStep ==
    ASSUME IInv, NEW h \in Handlers, Set(h)
    PROVE  \E item \in (Items \ seen) \cup {NoItem}, next \in StoredState :
              /\ next \in Changed(handler[h].read, handler[h], item)
              /\ handler[h].change \in {"focus", "copy"} <=> item # NoItem
              /\ store' = Capped(next) /\ next.current \in {handler[h].read.current, item, NoItem}
              /\ seen' = seen \cup ({item} \ {NoItem}) /\ seen' \subseteq Items
              /\ recorded' = recorded \cup Queued(next)
              /\ Queued(next) \subseteq recorded \cup seen'
              /\ discarded' = discarded \cup (Queued(next) \ Queued(store)')
              /\ handler[h].change # "clear" => Queued(handler[h].read) \subseteq Queued(next)
              /\ handler[h].change = "putback" => ToSet(handler[h].batch) \subseteq Queued(next)
              /\ slipped' = slipped \cup (IF handler[h].change = "focus" /\ h \in outrun
                                         THEN {item} ELSE {})
              /\ outrun' = (outrun \ {h}) \cup (IF next.paused THEN PastCheck(h) ELSE {})
  <1> USE BrowserExtensionAssumption
  <1> DEFINE task == handler[h]
  <1>1. /\ task \in Handler /\ task.read \in StoredState /\ seen \subseteq Items
        /\ task.read.current \in seen \cup {NoItem} /\ recorded \subseteq seen
        /\ Queued(task.read) \subseteq recorded /\ ToSet(task.batch) \subseteq recorded
    BY DEF IInv, TypeOK, FocusSeen, HeldRecorded, Handler
  <1>2. PICK item \in IF task.change \in {"focus", "copy"} THEN Items \ seen ELSE {NoItem} :
          \E next \in Changed(task.read, task, item) :
             /\ store' = Capped(next)
             /\ seen' = seen \cup ({item} \ {NoItem})
             /\ recorded' = recorded \cup Queued(next)
             /\ discarded' = discarded \cup (Queued(next) \ Queued(Capped(next)))
             /\ slipped' = slipped \cup (IF task.change = "focus" /\ h \in outrun
                                        THEN {item} ELSE {})
             /\ outrun' = (outrun \ {h}) \cup (IF next.paused THEN PastCheck(h) ELSE {})
    BY DEF Set
  <1>3. PICK next \in Changed(task.read, task, item) :
             /\ store' = Capped(next)
             /\ seen' = seen \cup ({item} \ {NoItem})
             /\ recorded' = recorded \cup Queued(next)
             /\ discarded' = discarded \cup (Queued(next) \ Queued(Capped(next)))
             /\ slipped' = slipped \cup (IF task.change = "focus" /\ h \in outrun
                                        THEN {item} ELSE {})
             /\ outrun' = (outrun \ {h}) \cup (IF next.paused THEN PastCheck(h) ELSE {})
    BY <1>2
  <1>4. /\ item \in (Items \ seen) \cup {NoItem}
        /\ task.change \in {"focus", "copy"} <=> item # NoItem
    BY <1>2
  <1> HIDE DEF task
  <1>5. /\ next \in StoredState
        /\ next.current \in {task.read.current, item, NoItem}
        /\ Queued(next) \subseteq Queued(task.read) \cup {task.read.current, item} \cup ToSet(task.batch)
        /\ Queued(next) \subseteq Items
        /\ task.change # "clear" => Queued(task.read) \subseteq Queued(next)
        /\ task.change = "putback" => ToSet(task.batch) \subseteq Queued(next)
    BY <1>1, <1>4, ChangedState
  <1>6. Queued(next) \subseteq recorded \cup seen'
    BY <1>1, <1>3, <1>4, <1>5
  <1>7. Queued(store)' = Queued(Capped(next))
    BY <1>3 DEF Queued
  <1> QED
    BY <1>1, <1>3, <1>4, <1>5, <1>6, <1>7 DEF task

LEMMA AfterTask ==
    ASSUME NEW task \in Handler, task.flushes => task.change = "close"
    PROVE  /\ After(task) \in Handler /\ After(task).read = Empty
           /\ task.change = "clear" =>
                 After(task).at = "ingest" /\ After(task).batch = task.batch
           /\ task.change # "clear" =>
                 After(task).at \in {"free", "flush"} /\ After(task).batch = <<>>
           /\ TaskOK(After(task))
  <1>1. CASE task.change = "clear"
    <2>1. After(task) = [task EXCEPT !.at = "ingest", !.read = Empty]
      BY <1>1 DEF After
    <2>2. /\ After(task) \in Handler /\ After(task).read = Empty
          /\ After(task).at = "ingest" /\ After(task).batch = task.batch
          /\ After(task).flushes = task.flushes
      BY <2>1, EmptyState DEF Handler
    <2> QED
      BY <1>1, <2>2 DEF TaskOK
  <1>2. CASE task.change # "clear"
    BY <1>2, EmptyState DEF After, Handler, TaskOK
  <1> QED
    BY <1>1, <1>2

LEMMA SetIInv ==
    ASSUME IInv, NEW h \in Handlers, Set(h)
    PROVE  IInv'
  <1> USE DEF IInv
  <1> DEFINE task == handler[h]
  <1>1. PICK item \in (Items \ seen) \cup {NoItem}, next \in StoredState :
              /\ store' = Capped(next) /\ next.current \in {task.read.current, item, NoItem}
              /\ seen' = seen \cup ({item} \ {NoItem}) /\ seen' \subseteq Items
              /\ recorded' = recorded \cup Queued(next)
              /\ Queued(next) \subseteq recorded \cup seen'
              /\ discarded' = discarded \cup (Queued(next) \ Queued(store)')
              /\ task.change # "clear" => Queued(task.read) \subseteq Queued(next)
              /\ task.change = "putback" => ToSet(task.batch) \subseteq Queued(next)
              /\ slipped' \subseteq slipped \cup ({item} \ {NoItem}) /\ outrun' \subseteq Handlers
    <2>1. outrun \subseteq Handlers /\ PastCheck(h) \subseteq Handlers
      BY DEF TypeOK, PastCheck
    <2> QED
      BY <2>1, SetStep
  <1>2. /\ task \in Handler /\ task.at = "set"
        /\ task.read.current \in seen \cup {NoItem}
        /\ ToSet(task.batch) \subseteq recorded /\ recorded \subseteq seen
        /\ task.change \notin {"clear", "putback"} => task.batch = <<>>
        /\ task.flushes => task.change = "close"
        /\ Queued(store) \subseteq recorded
        /\ overtaken' = overtaken \cup Erased(task)
        /\ revived' = revived \cup BroughtBack(task)
        /\ Queued(task.read) \subseteq recorded
        /\ UNCHANGED <<paired, delivered, doubted, killed, shared>>
        /\ retryAlarm' = (retryAlarm \/ task.change = "putback")
    BY DEF Set, TypeOK, FocusSeen, HeldRecorded, TasksOK, TaskOK
  <1>3. /\ handler' \in [Handlers -> Handler] /\ handler'[h] = After(task)
        /\ \A g \in Handlers \ {h} : handler'[g] = handler[g]
    BY <1>2, AfterTask DEF Set, TypeOK
  <1>4. /\ store' \in StoredState /\ Queued(store)' \subseteq Queued(next)
        /\ Len(store'.buffer) <= MaxBuffer /\ Len(store'.retryQueue) <= MaxBuffer
        /\ store'.current = next.current
    BY <1>1, CappedState DEF Queued
  <1>5. /\ Erased(task) \subseteq Queued(store)
        /\ BroughtBack(task) \subseteq seen
    BY <1>2 DEF Erased, BroughtBack, Places
  <1> HIDE DEF task
  <1>6. TypeOK'
    BY <1>1, <1>2, <1>3, <1>4, <1>5 DEF TypeOK
  <1>7. FocusSeen'
    BY <1>1, <1>2, <1>3, <1>4, AfterTask, EmptyState DEF FocusSeen
  <1>8. HeldRecorded'
    <2>1. ASSUME NEW g \in Handlers
          PROVE  Queued(handler'[g].read) \subseteq recorded' /\ ToSet(handler'[g].batch) \subseteq recorded'
      BY <1>1, <1>2, <1>3, AfterTask, EmptyState, ToSetEmpty DEF HeldRecorded
    <2> QED
      BY <1>1, <1>4, <2>1 DEF HeldRecorded, Queued
  <1>9. TasksOK'
    BY <1>2, <1>3, AfterTask DEF TasksOK
  <1>10. LossExplained'
    <2>1. ASSUME NEW i \in Queued(next) PROVE i \in Queued(store)' \cup discarded'
      BY <1>1, <2>1
    <2>2. ASSUME NEW i \in InMemory PROVE i \in InMemory' \cup Queued(next)
      <3>1. PICK g \in Handlers : i \in ToSet(handler[g].batch)
        BY <2>2 DEF InMemory
      <3>2. CASE g = h
        BY <1>1, <1>2, <1>3, <3>1, <3>2, AfterTask, ToSetEmpty DEF InMemory, task
      <3>3. CASE g # h
        BY <1>3, <3>1, <3>3 DEF InMemory
      <3> QED
        BY <3>2, <3>3
    <2>3. ASSUME NEW i \in Queued(store) PROVE i \in InMemory' \cup Queued(next) \cup overtaken'
      <3>1. CASE task.change = "clear"
        <4>1. ToSet(task.batch) \subseteq InMemory'
          BY <1>2, <1>3, <3>1, AfterTask DEF InMemory
        <4> QED
          BY <1>2, <2>3, <3>1, <4>1 DEF Erased
      <3>2. CASE task.change # "clear"
        BY <1>1, <1>2, <2>3, <3>2 DEF Erased
      <3> QED
        BY <3>1, <3>2
    <2>4. recorded' = recorded \cup Queued(next) /\ discarded \subseteq discarded'
          /\ overtaken \subseteq overtaken' /\ UNCHANGED <<delivered, killed>>
      BY <1>1, <1>2
    <2> QED
      BY <2>1, <2>2, <2>3, <2>4 DEF LossExplained, Held
  <1> QED
    BY <1>6, <1>7, <1>8, <1>9, <1>10

\* What the backend stored it has, and no count leaves its range.
LEMMA StoredBatch ==
    ASSUME delivered \in [Items -> 0 .. 2], NEW batch \in Seq(Items), Stored(batch)
    PROVE  /\ delivered' \in [Items -> 0 .. 2]
           /\ \A i \in Items : delivered[i] > 0 => delivered'[i] > 0
           /\ \A i \in Items : delivered'[i] > 0 <=> delivered[i] > 0 \/ i \in ToSet(batch)
           /\ \A i \in Items : i \notin ToSet(batch) => delivered'[i] = delivered[i]
           /\ \A i \in Items : AtMostOnce(i, batch) /\ delivered[i] = 0 => delivered'[i] <= 1
           /\ ToSet(batch) \subseteq Items
  <1> DEFINE copies(i) == Cardinality({n \in DOMAIN batch : batch[n] = i})
  <1>1. delivered' = [i \in Items |-> IF delivered[i] + copies(i) > 2 THEN 2
                                     ELSE delivered[i] + copies(i)]
    BY DEF Stored
  <1>2. ASSUME NEW i \in Items
        PROVE  /\ copies(i) \in Nat
               /\ copies(i) > 0 <=> i \in ToSet(batch)
               /\ AtMostOnce(i, batch) => copies(i) <= 1
    BY CountCopies
  <1> HIDE DEF copies
  <1>3. ASSUME NEW i \in Items
        PROVE  /\ delivered'[i] \in 0 .. 2
               /\ delivered'[i] > 0 <=> delivered[i] > 0 \/ i \in ToSet(batch)
               /\ i \notin ToSet(batch) => delivered'[i] = delivered[i]
               /\ AtMostOnce(i, batch) /\ delivered[i] = 0 => delivered'[i] <= 1
    <2>1. copies(i) \in Nat /\ delivered[i] \in 0 .. 2
      BY <1>2
    <2>2. delivered'[i] = IF delivered[i] + copies(i) > 2 THEN 2 ELSE delivered[i] + copies(i)
      BY <1>1
    <2>3. /\ delivered'[i] \in 0 .. 2
          /\ delivered'[i] > 0 <=> delivered[i] > 0 \/ copies(i) > 0
          /\ ~(copies(i) > 0) => delivered'[i] = delivered[i]
          /\ copies(i) <= 1 /\ delivered[i] = 0 => delivered'[i] <= 1
      <3>1. ASSUME NEW c \in Nat, NEW d \in 0 .. 2,
                   NEW e, e = IF d + c > 2 THEN 2 ELSE d + c
            PROVE  /\ e \in 0 .. 2
                   /\ e > 0 <=> d > 0 \/ c > 0
                   /\ ~(c > 0) => e = d
                   /\ c <= 1 /\ d = 0 => e <= 1
        BY <3>1
      <3> QED
        BY <2>1, <2>2, <3>1
    <2> QED
      BY <1>2, <2>3
  <1>4. ToSet(batch) \subseteq Items
    BY LenProperties DEF ToSet
  <1> QED
    BY <1>1, <1>3, <1>4

LEMMA AnswerIInv ==
    ASSUME IInv, NEW h \in Handlers, IngestOk(h) \/ IngestRefused(h) \/ IngestRetryLater(h)
    PROVE  IInv'
  <1> DEFINE batch == handler[h].batch
  <1>1. /\ batch \in Seq(Items) /\ ToSet(batch) \subseteq recorded /\ handler[h].at = "request"
        /\ shared \subseteq recorded /\ paired \in BOOLEAN /\ retryAlarm \in BOOLEAN /\ delivered \in [Items -> 0 .. 2]
        /\ discarded \subseteq recorded /\ doubted \subseteq recorded
        /\ handler[h].attempts \in 0 .. MaxAttempts /\ handler[h] \in Handler
    BY DEF IInv, TypeOK, HeldRecorded, IngestOk, IngestRefused, IngestRetryLater, Handler
  <1>2. \A c \in {"sent", "exhausted", "putback"} :
          /\ Mutate(c) \in Handler /\ Mutate(c).at = "get" /\ Mutate(c).change = c
          /\ Mutate(c).read = Empty /\ Mutate(c).batch = <<>> /\ ~Mutate(c).flushes
    BY MutateTask DEF Changes
  <1>3. \A task \in {Free, Mutate("sent"), Mutate("exhausted")} :
          /\ task \in Handler /\ task.read.current \in seen \cup {NoItem}
          /\ Queued(task.read) \cup ToSet(task.batch) \subseteq recorded /\ TaskOK(task)
    BY <1>2, EmptyState, ToSetEmpty DEF TaskOK
  <1> HIDE DEF batch
  <1>4. CASE IngestOk(h)
    <2>1. /\ Stored(batch) /\ handler' = [handler EXCEPT ![h] = Mutate("sent")]
          /\ UNCHANGED <<store, seen, recorded, history, paired, retryAlarm, discarded, doubted>>
      BY <1>4 DEF IngestOk, batch
    <2>2. /\ delivered' \in [Items -> 0 .. 2]
          /\ \A i \in Items : delivered[i] > 0 => delivered'[i] > 0
          /\ ToSet(batch) \subseteq {i \in Items : delivered'[i] > 0}
      BY <1>1, <2>1, StoredBatch
    <2> QED
      BY <1>1, <1>3, <2>1, <2>2, TaskIInv DEF batch, history
  <1>5. CASE IngestRefused(h)
    <2>1. /\ discarded' = discarded \cup ToSet(batch)
          /\ handler' = [handler EXCEPT ![h] = Free]
          /\ UNCHANGED <<store, seen, recorded, history, paired, retryAlarm, delivered, doubted>>
      BY <1>5 DEF IngestRefused, GiveUp, batch
    <2> QED
      BY <1>1, <1>3, <2>1, TaskIInv DEF batch, history
  <1>6. CASE IngestRetryLater(h)
    <2> DEFINE attempts == handler[h].attempts + 1
               task == [Mutate("putback") EXCEPT !.batch = batch, !.attempts = attempts]
    <2>1. /\ \/ UNCHANGED <<delivered, doubted>>
             \/ Stored(batch) /\ doubted' = doubted \cup ToSet(batch)
          /\ UNCHANGED <<store, seen, recorded, history, paired, retryAlarm>>
      BY <1>6 DEF IngestRetryLater, batch
    <2>2. /\ delivered' \in [Items -> 0 .. 2] /\ doubted' \subseteq recorded
          /\ \A i \in Items : delivered[i] > 0 => delivered'[i] > 0
      BY <1>1, <2>1, StoredBatch
    <2>3. CASE /\ discarded' = discarded \cup ToSet(batch)
               /\ handler' = [handler EXCEPT ![h] = Mutate("exhausted")]
      BY <1>1, <1>3, <2>1, <2>2, <2>3, TaskIInv DEF batch, history
    <2>4. CASE /\ attempts <= MaxAttempts /\ UNCHANGED discarded
               /\ handler' = [handler EXCEPT ![h] = task]
      <3>1. attempts \in 0 .. MaxAttempts
        BY <1>1, <2>4, BrowserExtensionAssumption
      <3>2. /\ task \in Handler /\ task.read = Empty /\ task.batch = batch
            /\ task.at = "get" /\ task.change = "putback" /\ ~task.flushes
        BY <1>1, <1>2, <3>1 DEF Handler
      <3> HIDE DEF task
      <3>3. /\ task.read.current \in seen \cup {NoItem}
            /\ Queued(task.read) \cup ToSet(task.batch) \subseteq recorded /\ TaskOK(task)
        BY <1>1, <3>2, EmptyState DEF TaskOK
      <3> QED
        BY <1>1, <2>1, <2>2, <2>4, <3>2, <3>3, TaskIInv DEF batch, history
    <2> QED
      BY <1>6, <2>3, <2>4 DEF IngestRetryLater, NextAttempts, GiveUp, batch
  <1> QED
    BY <1>4, <1>5, <1>6

\* The handlers are gone; what only they held is counted as killed.
LEMMA TerminateIInv ==
    ASSUME IInv, Terminate
    PROVE  IInv'
  <1> USE DEF IInv
  <1>1. /\ handler' = [h \in Handlers |-> Free] /\ Queued(store)' = Queued(store)
        /\ killed' = killed \cup (InMemory \ Queued(store))
        /\ outrun' = {}
        /\ UNCHANGED <<store, paired, retryAlarm, seen, recorded, delivered, discarded, doubted,
                       overtaken, shared, revived, slipped>>
    BY DEF Terminate, Queued
  <1>2. InMemory \subseteq recorded
    BY DEF HeldRecorded, InMemory
  <1>3. TypeOK'
    BY <1>1, <1>2, EmptyState DEF TypeOK
  <1>4. FocusSeen' /\ HeldRecorded' /\ TasksOK'
    BY <1>1, EmptyState, ToSetEmpty DEF FocusSeen, HeldRecorded, TasksOK, TaskOK
  <1>5. LossExplained'
    BY <1>1 DEF LossExplained, Held
  <1> QED
    BY <1>3, <1>4, <1>5

LEMMA NextIInv == IInv /\ [Next]_vars => IInv'
  <1> SUFFICES ASSUME IInv, [Next]_vars PROVE IInv'
    OBVIOUS
  <1>1. ASSUME NEW h \in Handlers, Step(h) PROVE IInv'
    BY <1>1, CheckIInv, GetIInv, SetIInv, FlushIInv, TokenIInv, AnswerIInv DEF Step
  <1>2. CASE SetConfig \/ UNCHANGED vars
    <2>1. UNCHANGED <<store, retryAlarm, handler, seen, recorded, ghosts>> /\ paired' \in BOOLEAN
      BY <1>2 DEF SetConfig, vars, ghosts, history, IInv, TypeOK
    <2> QED
      BY <2>1 DEF IInv, TypeOK, FocusSeen, HeldRecorded, TasksOK, LossExplained, Held, InMemory,
                  Queued, ghosts, history
  <1> QED
    BY <1>1, <1>2, StartIInv, TerminateIInv DEF Next

\* The inductive invariant holds in every reachable state.
THEOREM Invariance == Spec => []IInv
  BY InitIInv, NextIInv, PTL DEF Spec

\* Every variable keeps its type: however handlers overlap, no queue outgrows
\* MAX_BUFFER_SIZE and no attempt MAX_RETRY_ATTEMPTS (background.ts:40-41).
THEOREM TypeCorrect == Spec => []TypeOK
<1>1. IInv => TypeOK
  BY DEF IInv
<1> QED
  BY <1>1, Invariance, PTL

\* With any number of handlers, events and faults, an event that left the
\* extension was delivered or given up, or was the price of the unlocked
\* read-modify-write or of a stopped worker (mutate and flush,
\* background.ts:96-104, 259-317).
THEOREM EveryLossHasAReason == Spec => []LossExplained
<1>1. IInv => LossExplained
  BY DEF IInv
<1> QED
  BY <1>1, Invariance, PTL

-----------------------------------------------------------------------------
(* A pause and the focus handlers it comes too late for.                    *)

\* A focus handler that reads a pause had its check before the pause was
\* written, so it is marked; and what has the focus during a pause, in the store
\* or in a copy of it, was put there by one that was.
PauseInv ==
    /\ PausedTracksOnlySlipped
    /\ \A h \in Handlers :
          LET task == handler[h]
          IN  /\ task.change = "focus" =>
                    /\ task.at = "get" /\ store.paused => h \in outrun
                    /\ task.at = "set" /\ task.read.paused => h \in outrun
              /\ task.read.paused /\ task.read.current # NoItem => task.read.current \in slipped

\* A mutate that leaves a pause with a focus found the pause; the focus it found
\* there too, or has just set.
LEMMA ChangedPause ==
    ASSUME NEW s \in StoredState, NEW task \in Handler, NEW item \in Items \cup {NoItem},
           NEW next \in Changed(s, task, item), next.paused, next.current # NoItem
    PROVE  /\ s.paused
           /\ next.current = s.current \/ (task.change = "focus" /\ next.current = item)
  <1>1. task.change \in Changes
    BY DEF Handler
  <1>2. CASE task.change \in {"focus", "close"}
    <2>1. PICK f \in Finalized(s) : next = [f EXCEPT !.current = IF task.change = "focus" THEN item
                                                                ELSE NoItem]
      BY <1>2 DEF Changed
    <2>2. f \in StoredState /\ f.paused = s.paused
      BY FinalizedState
    <2>3. next.paused = s.paused /\ next.current = IF task.change = "focus" THEN item ELSE NoItem
      BY <2>1, <2>2 DEF StoredState
    <2> QED
      BY <1>2, <2>3
  <1>3. CASE task.change = "putback"
    BY <1>3 DEF Changed, PutBack, StoredState
  <1>4. CASE task.change \in {"copy", "pause", "resume", "clear", "sent", "exhausted"}
    BY <1>4 DEF Changed, Pausing, Cleared, StoredState
  <1> QED
    BY <1>1, <1>2, <1>3, <1>4 DEF Changes

\* The store stays, and the handler does not pass its check on a pause.
LEMMA QuietPause ==
    ASSUME IInv, PauseInv, NEW h \in Handlers, NEW task \in Handler,
           handler' = [handler EXCEPT ![h] = task],
           UNCHANGED <<store, outrun, slipped>>,
           task.read \in {Empty, handler[h].read, store},
           task.change = "focus" =>
               /\ task.at = "get" => ~store.paused
               /\ task.at = "set" => task.read = store /\ handler[h].at = "get"
                                     /\ handler[h].change = "focus"
    PROVE  PauseInv'
  <1>1. handler'[h] = task /\ \A g \in Handlers \ {h} : handler'[g] = handler[g]
    BY DEF IInv, TypeOK
  <1>2. Empty.current = NoItem
    BY EmptyState
  <1>3. PausedTracksOnlySlipped'
    BY DEF PauseInv, PausedTracksOnlySlipped
  <1> QED
    BY <1>1, <1>2, <1>3 DEF PauseInv, PausedTracksOnlySlipped

LEMMA StepPause ==
    ASSUME IInv, PauseInv, NEW h \in Handlers,
           \/ HandleFocus(h) \/ CloseCurrent(h) \/ HandleAiCopy(h)
           \/ SetPaused(h, "pause") \/ SetPaused(h, "resume") \/ FlushAlarm(h) \/ RetryAlarm(h)
           \/ Check(h) \/ Get(h) \/ Flush(h) \/ NoToken(h) \/ Request(h)
           \/ IngestOk(h) \/ IngestRefused(h) \/ IngestRetryLater(h)
    PROVE  PauseInv'
  <1>1. /\ UNCHANGED <<store, outrun, slipped>>
        /\ handler[h] \in Handler /\ store \in StoredState /\ handler \in [Handlers -> Handler]
    BY DEF IInv, TypeOK, HandleFocus, CloseCurrent, HandleAiCopy, SetPaused, FlushAlarm, RetryAlarm,
           Start, Check, Get, Flush, NoToken, Request, IngestOk, IngestRefused, IngestRetryLater,
           ghosts, history
  <1>2. Empty.current = NoItem /\ Free.read = Empty /\ Free \in Handler /\ Free.at = "free"
        /\ Free.change = "close"
    BY EmptyState
  <1>3. ASSUME \/ HandleFocus(h) \/ CloseCurrent(h) \/ HandleAiCopy(h)
               \/ SetPaused(h, "pause") \/ SetPaused(h, "resume") \/ FlushAlarm(h) \/ RetryAlarm(h)
        PROVE  PauseInv'
    <2>1. PICK task \in {[Free EXCEPT !.at = "check", !.change = "focus"],
                        [Free EXCEPT !.at = "check", !.change = "copy"],
                        Mutate("close"), Mutate("pause"), Mutate("resume"),
                        [Mutate("close") EXCEPT !.flushes = TRUE],
                        [Free EXCEPT !.at = "flush"]} :
            handler' = [handler EXCEPT ![h] = task]
      BY <1>3 DEF HandleFocus, CloseCurrent, HandleAiCopy, SetPaused, FlushAlarm, RetryAlarm, Start
    <2>2. \A c \in {"close", "pause", "resume"} :
             /\ Mutate(c) \in Handler /\ Mutate(c).read = Empty
             /\ Mutate(c).at = "get" /\ Mutate(c).change = c
      BY MutateTask DEF Changes
    <2>3. /\ task \in Handler /\ task.read = Empty
          /\ task.change = "focus" => task.at = "check"
      BY <1>2, <2>1, <2>2, EmptyState DEF Handler, Changes
    <2> QED
      BY <1>1, <2>1, <2>3, QuietPause
  <1>4. ASSUME Check(h) PROVE PauseInv'
    <2>1. CASE handler' = [handler EXCEPT ![h] = Free]
      BY <1>1, <1>2, <2>1, QuietPause
    <2>2. CASE ~store.paused /\ handler' = [handler EXCEPT ![h] = Mutate(handler[h].change)]
      <3>1. handler[h].change \in Changes
        BY <1>1 DEF Handler
      <3>2. /\ Mutate(handler[h].change) \in Handler /\ Mutate(handler[h].change).read = Empty
            /\ Mutate(handler[h].change).at = "get"
        BY <3>1, MutateTask
      <3> QED
        BY <1>1, <2>2, <3>2, QuietPause
    <2> QED
      BY <1>4, <2>1, <2>2 DEF Check
  <1>5. ASSUME Get(h) PROVE PauseInv'
    <2> DEFINE task == [handler[h] EXCEPT !.at = "set", !.read = store]
    <2>1. /\ task \in Handler /\ task.read = store /\ task.at = "set"
          /\ task.change = handler[h].change
      BY <1>1 DEF Handler
    <2>2. handler' = [handler EXCEPT ![h] = task] /\ handler[h].at = "get"
      BY <1>1, <1>5 DEF Get
    <2> HIDE DEF task
    <2> QED
      BY <1>1, <2>1, <2>2, QuietPause
  <1>6. ASSUME Request(h) PROVE PauseInv'
    <2> DEFINE task == [handler[h] EXCEPT !.at = "request"]
    <2>1. /\ task \in Handler /\ task.read = handler[h].read /\ task.at = "request"
      BY <1>1 DEF Handler
    <2>2. handler' = [handler EXCEPT ![h] = task]
      BY <1>1, <1>6 DEF Request
    <2> HIDE DEF task
    <2> QED
      BY <1>1, <2>1, <2>2, QuietPause
  <1>7. ASSUME Flush(h) \/ NoToken(h) \/ IngestOk(h) \/ IngestRefused(h) \/ IngestRetryLater(h)
        PROVE  PauseInv'
    <2> DEFINE Sent(change, batch, attempts) ==
                 [Mutate(change) EXCEPT !.batch = batch, !.attempts = attempts]
    <2>1. /\ handler[h].attempts \in 0 .. MaxAttempts /\ handler[h].batch \in Seq(Items)
          /\ store.retryAttempts \in 0 .. MaxAttempts /\ Batch(store) \in Seq(Items)
      BY <1>1, BatchState DEF Handler, StoredState
    <2>2. \A c \in {"clear", "sent", "exhausted", "putback"} :
             /\ Mutate(c) \in Handler /\ Mutate(c).read = Empty /\ Mutate(c).change = c
      BY MutateTask DEF Changes
    <2>3. ASSUME NEW task \in Handler, handler' = [handler EXCEPT ![h] = task],
                 task.read = Empty, task.change # "focus"
          PROVE  PauseInv'
      BY <1>1, <2>3, QuietPause
    <2>4. CASE handler' = [handler EXCEPT ![h] = Free]
      BY <1>2, <2>3, <2>4
    <2>5. CASE handler' = [handler EXCEPT ![h] = Mutate("sent")]
               \/ handler' = [handler EXCEPT ![h] = Mutate("exhausted")]
      BY <2>2, <2>3, <2>5
    <2>6. CASE handler' = [handler EXCEPT ![h] = Sent("clear", Batch(store), store.retryAttempts)]
      <3>1. /\ Sent("clear", Batch(store), store.retryAttempts) \in Handler
            /\ Sent("clear", Batch(store), store.retryAttempts).read = Empty
            /\ Sent("clear", Batch(store), store.retryAttempts).change = "clear"
        BY <2>1, <2>2 DEF Handler
      <3> QED
        BY <2>3, <2>6, <3>1
    <2>7. CASE /\ handler[h].attempts + 1 <= MaxAttempts
               /\ handler' = [handler EXCEPT ![h] =
                                Sent("putback", handler[h].batch, handler[h].attempts + 1)]
      <3>1. handler[h].attempts + 1 \in 0 .. MaxAttempts
        BY <2>1, <2>7, BrowserExtensionAssumption
      <3>2. /\ Sent("putback", handler[h].batch, handler[h].attempts + 1) \in Handler
            /\ Sent("putback", handler[h].batch, handler[h].attempts + 1).read = Empty
            /\ Sent("putback", handler[h].batch, handler[h].attempts + 1).change = "putback"
        BY <2>1, <2>2, <3>1 DEF Handler
      <3> QED
        BY <2>3, <2>7, <3>2
    <2> QED
      BY <1>7, <2>4, <2>5, <2>6, <2>7
         DEF Flush, NoToken, IngestOk, IngestRefused, IngestRetryLater, NextAttempts
  <1> QED
    BY <1>3, <1>4, <1>5, <1>6, <1>7

LEMMA SetPause ==
    ASSUME IInv, PauseInv, NEW h \in Handlers, Set(h)
    PROVE  PauseInv'
  <1> USE BrowserExtensionAssumption
  <1> DEFINE task == handler[h]
  <1>1. PICK item \in (Items \ seen) \cup {NoItem}, next \in StoredState :
              /\ next \in Changed(task.read, task, item) /\ store' = Capped(next)
              /\ task.change \in {"focus", "copy"} <=> item # NoItem
              /\ slipped' = slipped \cup (IF task.change = "focus" /\ h \in outrun
                                         THEN {item} ELSE {})
              /\ outrun' = (outrun \ {h}) \cup (IF next.paused THEN PastCheck(h) ELSE {})
    BY SetStep
  <1>2. /\ task \in Handler /\ task.at = "set" /\ task.read \in StoredState
        /\ item \in Items \cup {NoItem} /\ task.flushes => task.change = "close"
    BY DEF Set, IInv, TypeOK, TasksOK, TaskOK, Handler
  <1>3. /\ handler'[h] = After(task)
        /\ \A g \in Handlers \ {h} : handler'[g] = handler[g]
    BY DEF Set, IInv, TypeOK
  <1>4. /\ task.change = "focus" /\ task.read.paused => h \in outrun
        /\ task.read.paused /\ task.read.current # NoItem => task.read.current \in slipped
    BY <1>2 DEF PauseInv
  <1> HIDE DEF task
  <1>5. store'.current = next.current /\ store'.paused = next.paused
    BY <1>1, CappedState
  <1>6. PausedTracksOnlySlipped'
    <2>1. ASSUME next.paused, next.current # NoItem
          PROVE  next.current \in slipped'
      <3>1. task.read.paused
            /\ (next.current = task.read.current \/ (task.change = "focus" /\ next.current = item))
        BY <1>1, <1>2, <2>1, ChangedPause
      <3> QED
        BY <1>1, <1>4, <2>1, <3>1
    <2> QED
      BY <1>5, <2>1 DEF PausedTracksOnlySlipped
  <1>7. ASSUME NEW g \in Handlers
        PROVE  /\ handler'[g].change = "focus" =>
                    /\ handler'[g].at = "get" /\ store'.paused => g \in outrun'
                    /\ handler'[g].at = "set" /\ handler'[g].read.paused => g \in outrun'
               /\ handler'[g].read.paused /\ handler'[g].read.current # NoItem
                    => handler'[g].read.current \in slipped'
    <2>1. CASE g = h
      BY <1>2, <1>3, <2>1, AfterTask, EmptyState
    <2>2. CASE g # h
      BY <1>1, <1>3, <1>5, <2>2 DEF PauseInv, PastCheck
    <2> QED
      BY <2>1, <2>2
  <1> QED
    BY <1>6, <1>7 DEF PauseInv

LEMMA NextPause == IInv /\ PauseInv /\ [Next]_vars => PauseInv'
  <1> SUFFICES ASSUME IInv, PauseInv, [Next]_vars PROVE PauseInv'
    OBVIOUS
  <1>1. CASE SetConfig \/ UNCHANGED vars
    BY <1>1 DEF SetConfig, vars, ghosts, history, PauseInv, PausedTracksOnlySlipped
  <1>2. CASE Terminate
    BY <1>2, EmptyState DEF Terminate, PauseInv, PausedTracksOnlySlipped
  <1> QED
    BY <1>1, <1>2, StepPause, SetPause DEF Next, Step

\* However handlers overlap, a site that has the focus during a pause was put
\* there by a handler that had checked before the pause was written
\* (handleFocus, background.ts:203-211; set-paused, background.ts:163-167).
THEOREM PauseSlips == Spec => []PausedTracksOnlySlipped
<1>1. Init => PauseInv
  BY EmptyState DEF Init, PauseInv, PausedTracksOnlySlipped
<1>2. PauseInv => PausedTracksOnlySlipped
  BY DEF PauseInv
<1> QED
  BY <1>1, <1>2, NextPause, Invariance, PTL DEF Spec
-----------------------------------------------------------------------------
(* What an event that is stored twice went through.                         *)

\* The event is in at most one place of the stored value, and once in it.
Single(i, s) ==
    /\ AtMostOnce(i, s.buffer) /\ AtMostOnce(i, s.retryQueue)
    /\ i \notin ToSet(s.buffer) \/ i \notin ToSet(s.retryQueue)
    /\ i = s.current => i \notin Queued(s)

\* From the batch on to the write that clears the queues.
Clearing(task) == task.at \in {"get", "set"} /\ task.change = "clear"

\* An event that no doubtful request, shared batch or revival touched is in one
\* place: of the store and of every copy, or of one batch; once it is cleared for
\* a batch it is not in the store; and once delivered it is nowhere.
Unique(i) ==
    /\ Single(i, store)
    /\ \A h \in Handlers :
          LET task == handler[h]
          IN  /\ Single(i, task.read) /\ AtMostOnce(i, task.batch)
              /\ i \in ToSet(task.batch) =>
                    /\ store.current # i
                    /\ ~Clearing(task) => i \notin Queued(store)
                    /\ \A g \in Handlers \ {h} : i \notin ToSet(handler[g].batch)
    /\ delivered[i] > 0 =>
          delivered[i] = 1 /\ i \notin Places(store) \cup InMemory

SentRecorded == \A i \in Items : delivered[i] > 0 => i \in recorded

Explained == doubted \cup shared \cup revived

TraceInv == SentRecorded /\ \A i \in Items \ Explained : Unique(i)

LEMMA EmptySingle ==
    /\ \A i \in Items : Single(i, Empty)
    /\ \A i : AtMostOnce(i, <<>>) /\ i \notin ToSet(<<>>)
  BY BrowserExtensionAssumption, ToSetEmpty DEF Single, AtMostOnce, Empty, Queued

\* A handler goes on with another task, the store as it was.  Its batch is the
\* one it had, or the present queues, or none, and no event is delivered
\* that the batch gives up without being in doubt.
LEMMA QuietTrace ==
    ASSUME IInv, TraceInv, NEW h \in Handlers, NEW task \in Handler,
           handler' = [handler EXCEPT ![h] = task],
           UNCHANGED <<store, recorded, revived>>,
           doubted \subseteq doubted', shared \subseteq shared',
           task.read \in {Empty, handler[h].read, store},
           \/ task.batch = <<>>
           \/ task.batch = handler[h].batch /\ (Clearing(handler[h]) => Clearing(task))
           \/ /\ task.batch = Batch(store) /\ Clearing(task)
              /\ Queued(store) \cap OthersBatches(h) \subseteq shared',
           delivered' \in [Items -> 0 .. 2],
           \A i \in Items : delivered'[i] > 0 => delivered[i] > 0 \/ i \in ToSet(handler[h].batch),
           \A i \in Items \ Explained' :
              \/ delivered'[i] = delivered[i]
              \/ /\ delivered[i] = 0 => delivered'[i] <= 1
                 /\ task.batch = <<>> /\ ~Clearing(handler[h]) /\ i \in ToSet(handler[h].batch)
    PROVE  TraceInv'
  <1>1. /\ handler'[h] = task /\ \A g \in Handlers \ {h} : handler'[g] = handler[g]
        /\ store \in StoredState /\ ToSet(handler[h].batch) \subseteq recorded
        /\ delivered \in [Items -> 0 .. 2] /\ ToSet(Batch(store)) = Queued(store)
    BY BatchState DEF IInv, TypeOK, HeldRecorded
  <1>2. SentRecorded'
    BY <1>1 DEF TraceInv, SentRecorded
  <1>3. ASSUME NEW i \in Items, i \notin Explained'
        PROVE  Unique(i)'
    <2>1. Unique(i)
      BY <1>3 DEF TraceInv, Explained
    <2>2. AtMostOnce(i, Batch(store))
      BY <1>1, <2>1, ToSetConcat DEF Unique, Single, Batch, StoredState
    <2>3. Single(i, store)' /\ Single(i, task.read)
      BY <2>1, EmptySingle DEF Unique, Single, Queued
    <2>4. AtMostOnce(i, task.batch)
      BY <2>1, <2>2, EmptySingle DEF Unique
    <2>5. ASSUME i \in ToSet(task.batch)
          PROVE  /\ store.current # i
                 /\ ~Clearing(task) => i \notin Queued(store)
                 /\ \A g \in Handlers \ {h} : i \notin ToSet(handler[g].batch)
      <3>1. CASE task.batch = <<>>
        BY <2>5, <3>1, EmptySingle
      <3>2. CASE task.batch = handler[h].batch /\ (Clearing(handler[h]) => Clearing(task))
        BY <2>1, <2>5, <3>2 DEF Unique
      <3>3. CASE /\ task.batch = Batch(store) /\ Clearing(task)
                 /\ Queued(store) \cap OthersBatches(h) \subseteq shared'
        <4>1. i \in Queued(store) /\ i \notin OthersBatches(h)
          BY <1>1, <1>3, <2>5, <3>3 DEF Explained
        <4> QED
          BY <2>1, <3>3, <4>1 DEF Unique, Single, OthersBatches
      <3> QED
        BY <3>1, <3>2, <3>3
    <2>6. ASSUME NEW g \in Handlers \ {h}, i \in ToSet(handler[g].batch)
          PROVE  /\ i \notin ToSet(task.batch) /\ store.current # i
                 /\ ~Clearing(handler[g]) => i \notin Queued(store)
                 /\ \A f \in Handlers \ {g} : i \notin ToSet(handler'[f].batch)
      <3>1. i \notin ToSet(task.batch)
        BY <2>5, <2>6
      <3> QED
        BY <1>1, <2>1, <2>6, <3>1 DEF Unique
    <2>7. ASSUME delivered'[i] > 0
          PROVE  delivered'[i] = 1 /\ i \notin Places(store) \cup InMemory'
      <3>1. CASE delivered'[i] = delivered[i]
        <4>1. delivered[i] = 1 /\ i \notin Places(store) \cup InMemory
          BY <2>1, <2>7, <3>1 DEF Unique
        <4>2. i \notin ToSet(task.batch)
          BY <1>1, <4>1, EmptySingle DEF InMemory, Places
        <4> QED
          BY <1>1, <3>1, <4>1, <4>2 DEF InMemory
      <3>2. CASE /\ delivered[i] = 0 => delivered'[i] <= 1
                 /\ task.batch = <<>> /\ ~Clearing(handler[h]) /\ i \in ToSet(handler[h].batch)
        <4>1. i \notin Places(store) /\ \A g \in Handlers \ {h} : i \notin ToSet(handler[g].batch)
          BY <2>1, <3>2 DEF Unique, Places
        <4>2. delivered[i] \in 0 .. 2 /\ delivered'[i] \in 0 .. 2 /\ ~(delivered[i] > 0)
          BY <1>1, <2>1, <3>2 DEF Unique, InMemory
        <4>3. delivered'[i] = 1
          BY <2>7, <3>2, <4>2
        <4> QED
          BY <1>1, <3>2, <4>1, <4>3, EmptySingle DEF InMemory
      <3> QED
        BY <1>3, <3>1, <3>2
    <2>8. Places(store)' = Places(store) /\ Queued(store)' = Queued(store)
      BY DEF Places, Queued
    <2>9. ASSUME NEW g \in Handlers
          PROVE  /\ Single(i, handler'[g].read) /\ AtMostOnce(i, handler'[g].batch)
                 /\ i \in ToSet(handler'[g].batch) =>
                      /\ store'.current # i
                      /\ ~Clearing(handler'[g]) => i \notin Queued(store)'
                      /\ \A f \in Handlers \ {g} : i \notin ToSet(handler'[f].batch)
      <3>1. CASE g = h
        BY <1>1, <2>3, <2>4, <2>5, <2>8, <3>1
      <3>2. CASE g # h
        BY <1>1, <2>1, <2>6, <2>8, <3>2 DEF Unique
      <3> QED
        BY <3>1, <3>2
    <2> QED
      BY <2>3, <2>7, <2>8, <2>9 DEF Unique
  <1> QED
    BY <1>2, <1>3 DEF TraceInv

LEMMA StepTrace ==
    ASSUME IInv, TraceInv, NEW h \in Handlers,
           \/ HandleFocus(h) \/ CloseCurrent(h) \/ HandleAiCopy(h)
           \/ SetPaused(h, "pause") \/ SetPaused(h, "resume") \/ FlushAlarm(h) \/ RetryAlarm(h)
           \/ Check(h) \/ Get(h) \/ NoToken(h) \/ Request(h)
    PROVE  TraceInv'
  <1>1. /\ UNCHANGED <<store, recorded, revived, doubted, shared, delivered>>
        /\ handler[h] \in Handler /\ store \in StoredState /\ handler \in [Handlers -> Handler]
        /\ delivered \in [Items -> 0 .. 2]
    BY DEF IInv, TypeOK, HandleFocus, CloseCurrent, HandleAiCopy, SetPaused, FlushAlarm, RetryAlarm,
           Start, Check, Get, NoToken, Request, ghosts, history
  <1>2. ASSUME NEW task \in Handler, handler' = [handler EXCEPT ![h] = task],
               task.read \in {Empty, handler[h].read, store},
               \/ task.batch = <<>>
               \/ task.batch = handler[h].batch /\ (Clearing(handler[h]) => Clearing(task))
        PROVE  TraceInv'
    BY <1>1, <1>2, QuietTrace
  <1>3. ASSUME \/ HandleFocus(h) \/ CloseCurrent(h) \/ HandleAiCopy(h)
               \/ SetPaused(h, "pause") \/ SetPaused(h, "resume") \/ FlushAlarm(h) \/ RetryAlarm(h)
        PROVE  TraceInv'
    <2>1. PICK task \in {[Free EXCEPT !.at = "check", !.change = "focus"],
                        [Free EXCEPT !.at = "check", !.change = "copy"],
                        Mutate("close"), Mutate("pause"), Mutate("resume"),
                        [Mutate("close") EXCEPT !.flushes = TRUE],
                        [Free EXCEPT !.at = "flush"]} :
            handler' = [handler EXCEPT ![h] = task]
      BY <1>3 DEF HandleFocus, CloseCurrent, HandleAiCopy, SetPaused, FlushAlarm, RetryAlarm, Start
    <2>2. \A c \in {"close", "pause", "resume"} :
             /\ Mutate(c) \in Handler /\ Mutate(c).read = Empty /\ Mutate(c).batch = <<>>
      BY MutateTask DEF Changes
    <2>3. task \in Handler /\ task.read = Empty /\ task.batch = <<>>
      BY <2>1, <2>2, EmptyState DEF Handler, Changes
    <2> QED
      BY <1>2, <2>1, <2>3
  <1>4. CASE Check(h) \/ NoToken(h)
    <2>1. CASE handler' = [handler EXCEPT ![h] = Free]
      BY <1>2, <2>1, EmptyState
    <2>2. CASE handler' = [handler EXCEPT ![h] = Mutate(handler[h].change)]
      <3>1. handler[h].change \in Changes
        BY <1>1 DEF Handler
      <3> QED
        BY <1>2, <2>2, <3>1, MutateTask
    <2> QED
      BY <1>4, <2>1, <2>2 DEF Check, NoToken
  <1>5. CASE Get(h)
    <2> DEFINE task == [handler[h] EXCEPT !.at = "set", !.read = store]
    <2>1. /\ task \in Handler /\ task.read = store /\ task.at = "set"
          /\ task.change = handler[h].change /\ task.batch = handler[h].batch
      BY <1>1 DEF Handler
    <2>2. handler' = [handler EXCEPT ![h] = task] /\ handler[h].at = "get"
      BY <1>1, <1>5 DEF Get
    <2> HIDE DEF task
    <2>3. Clearing(handler[h]) => Clearing(task)
      BY <2>1, <2>2 DEF Clearing
    <2> QED
      BY <1>2, <2>1, <2>2, <2>3
  <1>6. CASE Request(h)
    <2> DEFINE task == [handler[h] EXCEPT !.at = "request"]
    <2>1. /\ task \in Handler /\ task.read = handler[h].read /\ task.batch = handler[h].batch
      BY <1>1 DEF Handler
    <2>2. handler' = [handler EXCEPT ![h] = task] /\ handler[h].at = "ingest"
      BY <1>1, <1>6 DEF Request
    <2> HIDE DEF task
    <2>3. ~Clearing(handler[h])
      BY <2>2 DEF Clearing
    <2> QED
      BY <1>2, <2>1, <2>2, <2>3
  <1> QED
    BY <1>3, <1>4, <1>5, <1>6

LEMMA FlushTrace ==
    ASSUME IInv, TraceInv, NEW h \in Handlers, Flush(h)
    PROVE  TraceInv'
  <1> DEFINE task == [Mutate("clear") EXCEPT !.batch = Batch(store),
                                             !.attempts = store.retryAttempts]
  <1>1. /\ UNCHANGED <<store, recorded, revived, doubted, delivered>> /\ shared \subseteq shared'
        /\ store \in StoredState /\ delivered \in [Items -> 0 .. 2]
    BY DEF IInv, TypeOK, Flush
  <1>2. CASE handler' = [handler EXCEPT ![h] = Free]
    BY <1>1, <1>2, EmptyState, QuietTrace
  <1>3. CASE /\ handler' = [handler EXCEPT ![h] = task]
             /\ shared' = shared \cup (ToSet(Batch(store)) \cap OthersBatches(h))
    <2>1. /\ task \in Handler /\ task.read = Empty /\ task.batch = Batch(store)
          /\ task.at = "get" /\ task.change = "clear"
      BY <1>1, MutateTask, BatchState DEF Handler, Changes, StoredState
    <2> HIDE DEF task
    <2>2. Clearing(task) /\ Queued(store) \cap OthersBatches(h) \subseteq shared'
      BY <1>1, <1>3, <2>1, BatchState DEF Clearing
    <2> QED
      BY <1>1, <1>3, <2>1, <2>2, QuietTrace
  <1> QED
    BY <1>2, <1>3 DEF Flush

LEMMA AnswerTrace ==
    ASSUME IInv, TraceInv, NEW h \in Handlers,
           IngestOk(h) \/ IngestRefused(h) \/ IngestRetryLater(h)
    PROVE  TraceInv'
  <1> DEFINE batch == handler[h].batch
  <1>1. /\ batch \in Seq(Items) /\ handler[h].at = "request" /\ delivered \in [Items -> 0 .. 2]
        /\ handler[h].attempts \in 0 .. MaxAttempts
        /\ UNCHANGED <<store, recorded, revived, shared>>
    BY DEF IInv, TypeOK, IngestOk, IngestRefused, IngestRetryLater, Handler, history
  <1>2. ~Clearing(handler[h])
    BY <1>1 DEF Clearing
  <1>3. \A i \in Items \ Explained : AtMostOnce(i, batch)
    BY DEF TraceInv, Unique
  <1>4. \A c \in {"sent", "exhausted", "putback"} :
          Mutate(c) \in Handler /\ Mutate(c).read = Empty /\ Mutate(c).batch = <<>>
    BY MutateTask DEF Changes
  <1>5. Free \in Handler /\ Free.read = Empty /\ Free.batch = <<>>
    BY EmptyState
  <1> HIDE DEF batch
  <1>6. CASE IngestOk(h)
    <2>1. /\ Stored(batch) /\ UNCHANGED doubted
          /\ handler' = [handler EXCEPT ![h] = Mutate("sent")]
      BY <1>6 DEF IngestOk, batch
    <2>2. /\ delivered' \in [Items -> 0 .. 2]
          /\ \A i \in Items : delivered'[i] > 0 => delivered[i] > 0 \/ i \in ToSet(batch)
          /\ \A i \in Items : i \notin ToSet(batch) => delivered'[i] = delivered[i]
          /\ \A i \in Items : AtMostOnce(i, batch) /\ delivered[i] = 0 => delivered'[i] <= 1
      BY <1>1, <2>1, StoredBatch
    <2>3. \A i \in Items \ Explained' : AtMostOnce(i, batch)
      BY <1>1, <1>3, <2>1 DEF Explained
    <2> QED
      BY <1>1, <1>2, <1>4, <2>1, <2>2, <2>3, QuietTrace DEF batch
  <1>7. CASE IngestRefused(h)
    BY <1>1, <1>5, <1>7, QuietTrace DEF IngestRefused
  <1>8. CASE IngestRetryLater(h)
    <2> DEFINE attempts == handler[h].attempts + 1
               task == [Mutate("putback") EXCEPT !.batch = batch, !.attempts = attempts]
    <2>1. \/ UNCHANGED <<delivered, doubted>>
          \/ Stored(batch) /\ doubted' = doubted \cup ToSet(batch)
      BY <1>8 DEF IngestRetryLater, batch
    <2>2. /\ delivered' \in [Items -> 0 .. 2] /\ doubted \subseteq doubted'
          /\ \A i \in Items : delivered'[i] > 0 => delivered[i] > 0 \/ i \in ToSet(batch)
          /\ \A i \in Items \ Explained' : delivered'[i] = delivered[i]
      BY <1>1, <2>1, StoredBatch DEF Explained
    <2>3. CASE handler' = [handler EXCEPT ![h] = Mutate("exhausted")]
      BY <1>1, <1>4, <2>2, <2>3, QuietTrace DEF batch
    <2>4. CASE attempts <= MaxAttempts /\ handler' = [handler EXCEPT ![h] = task]
      <3>1. attempts \in 0 .. MaxAttempts
        BY <1>1, <2>4, BrowserExtensionAssumption
      <3>2. task \in Handler /\ task.read = Empty /\ task.batch = batch
        BY <1>1, <1>4, <3>1 DEF Handler
      <3> HIDE DEF task
      <3> QED
        BY <1>1, <1>2, <2>2, <2>4, <3>2, QuietTrace DEF batch
    <2> QED
      BY <1>8, <2>3, <2>4 DEF IngestRetryLater, NextAttempts, batch
  <1> QED
    BY <1>6, <1>7, <1>8

LEMMA CappedSingle ==
    ASSUME NEW s \in StoredState, NEW i, Single(i, s)
    PROVE  Single(i, Capped(s))
  <1>1. s.buffer \in Seq(Items) /\ s.retryQueue \in Seq(Items)
    BY DEF StoredState
  <1> QED
    BY <1>1, CappedState, NewestKeeps DEF Single, Queued

\* A mutate puts no event in two places that was in one.
LEMMA ChangedSingle ==
    ASSUME NEW s \in StoredState, NEW task \in Handler, NEW item \in Items \cup {NoItem},
           task.change \in {"focus", "copy"} <=> item # NoItem,
           NEW next \in Changed(s, task, item),
           NEW i \in Items, Single(i, s), AtMostOnce(i, task.batch),
           i = item => i \notin Places(s),
           task.change = "putback" /\ i \in ToSet(task.batch) => i \notin Places(s)
    PROVE  Single(i, next)
  <1> USE BrowserExtensionAssumption DEF Queued, Places
  <1>1. /\ s.buffer \in Seq(Items) /\ s.retryQueue \in Seq(Items)
        /\ task.batch \in Seq(Items) /\ task.change \in Changes
    BY DEF StoredState, Handler
  <1>2. CASE task.change \in {"focus", "close"}
    <2>1. PICK f \in Finalized(s) : next = [f EXCEPT !.current = IF task.change = "focus" THEN item
                                                                ELSE NoItem]
      BY <1>2 DEF Changed
    <2>2. /\ f \in StoredState /\ f.retryQueue = s.retryQueue
          /\ \/ f.buffer = s.buffer
             \/ s.current \in Items /\ f.buffer = Append(s.buffer, s.current)
      BY FinalizedState
    <2>3. /\ next.current = IF task.change = "focus" THEN item ELSE NoItem
          /\ next.buffer = f.buffer /\ next.retryQueue = s.retryQueue
      BY <2>1, <2>2 DEF StoredState
    <2>4. CASE f.buffer = s.buffer
      BY <2>3, <2>4 DEF Single
    <2>5. CASE s.current \in Items /\ f.buffer = Append(s.buffer, s.current)
      <3>1. /\ AtMostOnce(i, f.buffer)
            /\ ToSet(f.buffer) = ToSet(s.buffer) \cup {s.current}
        BY <1>1, <2>5, ToSetAppend DEF Single
      <3>2. i = next.current => i = item
        BY <2>3
      <3> QED
        BY <2>3, <2>5, <3>1, <3>2 DEF Single
    <2> QED
      BY <2>2, <2>4, <2>5
  <1>3. CASE task.change = "copy"
    <2>1. /\ item \in Items /\ next = [s EXCEPT !.buffer = Append(@, item)]
      BY <1>3 DEF Changed
    <2>2. /\ next.current = s.current /\ next.retryQueue = s.retryQueue
          /\ next.buffer = Append(s.buffer, item)
      BY <2>1 DEF StoredState
    <2>3. /\ AtMostOnce(i, next.buffer)
          /\ ToSet(next.buffer) = ToSet(s.buffer) \cup {item}
      BY <1>1, <2>1, <2>2, ToSetAppend DEF Single
    <2> QED
      BY <2>2, <2>3 DEF Single
  <1>4. CASE task.change \in {"pause", "resume", "sent", "exhausted"}
    <2>1. next \in {[s EXCEPT !.paused = TRUE, !.current = NoItem], [s EXCEPT !.paused = FALSE],
                    [s EXCEPT !.retryAttempts = 0]}
      BY <1>4 DEF Changed, Pausing
    <2>2. /\ next.current = NoItem \/ next.current = s.current
          /\ next.buffer = s.buffer /\ next.retryQueue = s.retryQueue
      BY <2>1 DEF StoredState
    <2> QED
      BY <2>2 DEF Single
  <1>5. CASE task.change = "clear"
    <2>1. next.buffer = <<>> /\ next.retryQueue = <<>>
      BY <1>5 DEF Changed, Cleared, StoredState
    <2> QED
      BY <2>1, EmptySingle DEF Single
  <1>6. CASE task.change = "putback"
    <2>1. next = [s EXCEPT !.retryQueue = task.batch \o @, !.retryAttempts = task.attempts]
      BY <1>6 DEF Changed, PutBack
    <2>2. /\ next.current = s.current /\ next.buffer = s.buffer
          /\ next.retryQueue = task.batch \o s.retryQueue
      BY <2>1 DEF StoredState
    <2>3. /\ AtMostOnce(i, next.retryQueue)
          /\ ToSet(next.retryQueue) = ToSet(task.batch) \cup ToSet(s.retryQueue)
      BY <1>1, <1>6, <2>2, ToSetConcat DEF Single
    <2> QED
      BY <1>6, <2>2, <2>3 DEF Single
  <1> QED
    BY <1>1, <1>2, <1>3, <1>4, <1>5, <1>6 DEF Changes

\* Only a put back brings events of a batch into the store.
LEMMA ChangedQueues ==
    ASSUME NEW s \in StoredState, NEW task \in Handler, NEW item \in Items \cup {NoItem},
           task.change \in {"focus", "copy"} => item \in Items,
           NEW next \in Changed(s, task, item)
    PROVE  /\ Queued(next) \subseteq Queued(s) \cup {s.current, item}
                                \cup (IF task.change = "putback" THEN ToSet(task.batch) ELSE {})
           /\ task.change = "clear" => Queued(next) = {}
  <1>1. CASE task.change = "putback"
    BY <1>1, ChangedState
  <1>2. CASE task.change # "putback"
    <2> DEFINE bare == [task EXCEPT !.batch = <<>>]
    <2>1. bare \in Handler /\ bare.change = task.change /\ bare.batch = <<>>
      BY EmptySeq DEF Handler
    <2>2. next \in Changed(s, bare, item)
      BY <1>2, <2>1 DEF Changed
    <2> HIDE DEF bare
    <2>3. Queued(next) \subseteq Queued(s) \cup {s.current, item} \cup ToSet(bare.batch)
      BY <2>1, <2>2, ChangedState
    <2>4. task.change = "clear" => next.buffer = <<>> /\ next.retryQueue = <<>>
      BY DEF Changed, Cleared, StoredState
    <2> QED
      BY <1>2, <2>1, <2>3, <2>4, ToSetEmpty DEF Queued
  <1> QED
    BY <1>1, <1>2

LEMMA SetTrace ==
    ASSUME IInv, TraceInv, NEW h \in Handlers, Set(h)
    PROVE  TraceInv'
  <1> USE BrowserExtensionAssumption
  <1> DEFINE task == handler[h]
  <1>1. PICK item \in (Items \ seen) \cup {NoItem}, next \in StoredState :
              /\ next \in Changed(task.read, task, item) /\ store' = Capped(next)
              /\ task.change \in {"focus", "copy"} <=> item # NoItem
              /\ recorded' = recorded \cup Queued(next)
              /\ next.current \in {task.read.current, item, NoItem}
    BY SetStep
  <1>2. /\ task \in Handler /\ task.at = "set" /\ task.read \in StoredState
        /\ item \in Items \cup {NoItem} /\ task.flushes => task.change = "close"
        /\ recorded \subseteq seen /\ delivered \in [Items -> 0 .. 2]
        /\ Queued(task.read) \subseteq recorded /\ task.read.current \in seen \cup {NoItem}
        /\ \A g \in Handlers : ToSet(handler[g].batch) \subseteq recorded
        /\ revived' = revived \cup BroughtBack(task)
        /\ UNCHANGED <<delivered, doubted, shared>>
    BY DEF Set, IInv, TypeOK, TasksOK, TaskOK, HeldRecorded, FocusSeen, Handler
  <1>3. /\ handler'[h] = After(task)
        /\ \A g \in Handlers \ {h} : handler'[g] = handler[g]
    BY DEF Set, IInv, TypeOK
  <1>4. /\ After(task).read = Empty
        /\ task.change = "clear" => After(task).at = "ingest" /\ After(task).batch = task.batch
        /\ task.change # "clear" => After(task).batch = <<>>
    BY <1>2, AfterTask
  <1>5. /\ store'.current = next.current /\ Queued(store)' \subseteq Queued(next)
        /\ Queued(store') = Queued(store)'
    BY <1>1, CappedState DEF Queued
  <1>6. /\ Queued(next) \subseteq Queued(task.read) \cup {task.read.current, item}
                                \cup (IF task.change = "putback" THEN ToSet(task.batch) ELSE {})
        /\ task.change = "clear" => Queued(next) = {}
    BY <1>1, <1>2, ChangedQueues
  <1>7. SentRecorded'
    BY <1>1, <1>2 DEF TraceInv, SentRecorded
  <1>8. ASSUME NEW i \in Items, i \notin Explained'
        PROVE  Unique(i)'
    <2>1. Unique(i) /\ i \notin BroughtBack(task)
      BY <1>2, <1>8 DEF TraceInv, Explained
    <2>2. /\ i \in Places(task.read) /\ i \in Places(store') => i \in Places(store)
          /\ i = task.read.current /\ i = store'.current => i = store.current
      BY <2>1 DEF BroughtBack
    <2>3. ASSUME i \in seen
          PROVE  /\ i # item
                 /\ i \in Queued(store)' => i \in Places(task.read)
                                            \/ (task.change = "putback" /\ i \in ToSet(task.batch))
                 /\ i = store'.current => i = task.read.current
      BY <1>1, <1>2, <1>5, <1>6, <2>3 DEF Places
    <2>4. Places(store)' = Places(store') /\ i # NoItem
      BY DEF Places, Queued
    <2>5. Single(i, store)'
      <3>1. CASE i \notin Places(store')
        <4>1. ToSet(store'.buffer) \subseteq Places(store') /\ ToSet(store'.retryQueue) \subseteq Places(store')
              /\ i # store'.current
          BY <2>4, <3>1 DEF Places, Queued
        <4> QED
          BY <3>1, <4>1 DEF Single, AtMostOnce, ToSet, Queued
      <3>2. CASE i \in Places(store')
        <4>1. Single(i, task.read) /\ AtMostOnce(i, task.batch)
          BY <2>1 DEF Unique
        <4>2. i = item => i \notin Places(task.read)
          BY <1>1, <1>2 DEF Places
        <4>3. task.change = "putback" /\ i \in ToSet(task.batch) => i \notin Places(task.read)
          BY <2>1, <2>2, <3>2 DEF Unique, Clearing, Places
        <4>4. Single(i, next)
          BY <1>1, <1>2, <4>1, <4>2, <4>3, ChangedSingle
        <4> QED
          BY <1>1, <4>4, CappedSingle DEF Single, Queued
      <3> QED
        BY <3>1, <3>2
    <2>6. ASSUME NEW g \in Handlers
          PROVE  /\ Single(i, handler'[g].read) /\ AtMostOnce(i, handler'[g].batch)
                 /\ i \in ToSet(handler'[g].batch) =>
                      /\ i \in ToSet(handler[g].batch)
                      /\ store'.current # i
                      /\ ~Clearing(handler'[g]) => i \notin Queued(store)'
      <3>1. CASE g = h
        <4>1. Single(i, handler'[g].read) /\ AtMostOnce(i, handler'[g].batch)
          BY <1>3, <1>4, <2>1, <3>1, EmptySingle DEF Unique
        <4>2. ASSUME i \in ToSet(handler'[g].batch)
              PROVE  /\ i \in ToSet(task.batch) /\ store'.current # i
                     /\ i \notin Queued(store)'
          <5>1. task.change = "clear" /\ i \in ToSet(task.batch) /\ i \in seen
            BY <1>2, <1>3, <1>4, <3>1, <4>2, EmptySingle
          <5>2. store.current # i
            BY <2>1, <5>1 DEF Unique
          <5> QED
            BY <1>5, <1>6, <2>2, <2>3, <5>1, <5>2
        <4> QED
          BY <3>1, <4>1, <4>2
      <3>2. CASE g # h
        <4>1. handler'[g] = handler[g]
          BY <1>3, <3>2
        <4>2. ASSUME i \in ToSet(handler[g].batch)
              PROVE  /\ store'.current # i
                     /\ ~Clearing(handler[g]) => i \notin Queued(store)'
          <5>1. /\ i \in seen /\ store.current # i /\ i \notin ToSet(task.batch)
                /\ ~Clearing(handler[g]) => i \notin Queued(store)
            BY <1>2, <2>1, <3>2, <4>2 DEF Unique
          <5>2. store'.current # i
            BY <2>2, <2>3, <5>1
          <5>3. ASSUME ~Clearing(handler[g]), i \in Queued(store)' PROVE FALSE
            <6>1. i \in Places(task.read) /\ i \in Places(store') /\ i \notin Places(store)
              BY <1>5, <2>3, <5>1, <5>3 DEF Places
            <6> QED
              BY <2>2, <6>1
          <5> QED
            BY <5>2, <5>3
        <4> QED
          BY <2>1, <4>1, <4>2 DEF Unique
      <3> QED
        BY <3>1, <3>2
    <2>7. ASSUME NEW g \in Handlers, i \in ToSet(handler'[g].batch), NEW f \in Handlers \ {g}
          PROVE  i \notin ToSet(handler'[f].batch)
      BY <2>1, <2>6, <2>7 DEF Unique
    <2>8. ASSUME delivered'[i] > 0
          PROVE  delivered'[i] = 1 /\ i \notin Places(store)' \cup InMemory'
      <3>1. /\ delivered[i] = 1 /\ i \notin Places(store) \cup InMemory /\ i \in seen
        BY <1>2, <2>1, <2>8 DEF Unique, TraceInv, SentRecorded
      <3>2. i \notin InMemory'
        BY <2>6, <3>1 DEF InMemory
      <3>3. i \notin ToSet(task.batch)
        BY <3>1 DEF InMemory
      <3>4. i \notin Places(store')
        <4>1. ASSUME i \in Places(store') PROVE i \in Places(task.read)
          BY <1>5, <2>3, <2>4, <3>1, <3>3, <4>1 DEF Places
        <4> QED
          BY <2>2, <3>1, <4>1
      <3> QED
        BY <1>2, <2>4, <3>1, <3>2, <3>4
    <2> QED
      BY <2>5, <2>6, <2>7, <2>8 DEF Unique
  <1> QED
    BY <1>7, <1>8 DEF TraceInv

LEMMA NextTrace == IInv /\ TraceInv /\ [Next]_vars => TraceInv'
  <1> SUFFICES ASSUME IInv, TraceInv, [Next]_vars PROVE TraceInv'
    OBVIOUS
  <1>1. CASE SetConfig \/ UNCHANGED vars
    <2>1. UNCHANGED <<store, handler, recorded, delivered, doubted, shared, revived>>
      BY <1>1 DEF SetConfig, vars, ghosts, history
    <2> QED
      BY <2>1 DEF TraceInv, SentRecorded, Explained, Unique, Single, Places, Queued, InMemory
  <1>2. CASE Terminate
    <2>1. /\ handler' = [h \in Handlers |-> Free]
          /\ UNCHANGED <<store, recorded, delivered, doubted, shared, revived>>
      BY <1>2 DEF Terminate
    <2>2. Free.batch = <<>> /\ Free.read = Empty
      BY EmptyState
    <2>3. InMemory' = {} /\ Places(store)' = Places(store) /\ \A i : Single(i, store)' <=> Single(i, store)
      BY <2>1, <2>2, ToSetEmpty DEF InMemory, Places, Queued, Single
    <2>4. ASSUME NEW i \in Items, Unique(i) PROVE Unique(i)'
      BY <2>1, <2>2, <2>3, <2>4, EmptySingle DEF Unique
    <2> QED
      BY <2>1, <2>4 DEF TraceInv, SentRecorded, Explained
  <1> QED
    BY <1>1, <1>2, StepTrace, FlushTrace, AnswerTrace, SetTrace DEF Next, Step

\* However handlers overlap, fail and are stopped, an event stored twice was in a
\* request that failed although the backend stored it, in the batches of two
\* flushes at a time, or brought back by a write based on an older value (mutate
\* and flush, background.ts:62-73, 265-317).
THEOREM EveryDuplicateHasACause == Spec => []DuplicatesTraced
<1>1. Init => TraceInv
  <2>1. ASSUME Init PROVE TraceInv
    <3>1. /\ store = Empty /\ Queued(Empty) = {} /\ Empty.current = NoItem
          /\ \A h \in Handlers : handler[h].batch = <<>> /\ handler[h].read = Empty
          /\ \A i \in Items : delivered[i] = 0
      BY <2>1, EmptyState DEF Init
    <3>2. \A i \in Items : Unique(i)
      BY <3>1, EmptySingle, BrowserExtensionAssumption DEF Unique
    <3> QED
      BY <3>1, <3>2 DEF TraceInv, SentRecorded
  <2> QED
    BY <2>1
<1>2. IInv /\ TraceInv => DuplicatesTraced
  <2>1. ASSUME IInv, TraceInv, NEW i \in Items, delivered[i] > 1, i \notin Explained PROVE FALSE
    <3>1. delivered[i] \in 0 .. 2
      BY <2>1 DEF IInv, TypeOK
    <3>2. delivered[i] > 0 => delivered[i] = 1
      BY <2>1 DEF TraceInv, Unique
    <3> QED
      BY <2>1, <3>1, <3>2
  <2> QED
    BY <2>1 DEF DuplicatesTraced, Explained
<1> QED
  BY <1>1, <1>2, NextTrace, Invariance, PTL DEF Spec

-----------------------------------------------------------------------------
(* Handlers that do not overlap: one at a time.                             *)

\* Between two awaits nobody else writes: what was read is still there, and the
\* batch is what the queues hold until they are cleared.
Ordered(task) ==
    /\ task.at = "check" => task.change \in {"focus", "copy"}
    /\ task.at = "set" => task.read = store
    /\ Clearing(task) => task.batch = Batch(store)

\* So no write is based on an older value.
NothingErased ==
    /\ overtaken = {} /\ shared = {} /\ revived = {}
    /\ "terminate" \notin Faults => killed = {}

AloneInv == NothingErased /\ \A h \in Handlers : Ordered(handler[h])

\* The one handler goes on and the store stays as it was.
LEMMA AloneQuiet ==
    ASSUME IInv, AloneInv, NEW h, Handlers = {h}, NEW task,
           handler' = [handler EXCEPT ![h] = task],
           UNCHANGED <<store, overtaken, killed, shared, revived>>, Ordered(task)
    PROVE  AloneInv'
  <1>1. handler'[h] = task
    BY DEF IInv, TypeOK
  <1>2. Ordered(handler[h])'
    BY <1>1 DEF Ordered, Clearing, Batch
  <1> QED
    BY <1>2 DEF AloneInv, NothingErased

LEMMA StepAlone ==
    ASSUME IInv, AloneInv, NEW h, Handlers = {h},
           \/ HandleFocus(h) \/ CloseCurrent(h) \/ HandleAiCopy(h)
           \/ SetPaused(h, "pause") \/ SetPaused(h, "resume") \/ FlushAlarm(h) \/ RetryAlarm(h)
           \/ Check(h) \/ Get(h) \/ NoToken(h) \/ Request(h)
           \/ IngestOk(h) \/ IngestRefused(h) \/ IngestRetryLater(h)
    PROVE  AloneInv'
  <1>1. /\ UNCHANGED <<store, overtaken, killed, shared, revived>>
        /\ handler[h] \in Handler /\ handler \in [Handlers -> Handler] /\ Ordered(handler[h])
    BY DEF IInv, TypeOK, AloneInv, HandleFocus, CloseCurrent, HandleAiCopy, SetPaused, FlushAlarm,
           RetryAlarm, Start, Check, Get, NoToken, Request, IngestOk, IngestRefused,
           IngestRetryLater, ghosts, history
  <1>2. ASSUME NEW task, handler' = [handler EXCEPT ![h] = task], task.at # "set",
               task.at = "get" => task.change # "clear",
               task.at = "check" => task.change \in {"focus", "copy"}
        PROVE  AloneInv'
    BY <1>1, <1>2, AloneQuiet DEF Ordered, Clearing
  <1>3. Free.at = "free"
    BY EmptyState
  <1>4. \A c \in Changes : Mutate(c) \in Handler /\ Mutate(c).at = "get" /\ Mutate(c).change = c
    BY MutateTask
  <1>5. ASSUME \/ HandleFocus(h) \/ CloseCurrent(h) \/ HandleAiCopy(h)
               \/ SetPaused(h, "pause") \/ SetPaused(h, "resume") \/ FlushAlarm(h) \/ RetryAlarm(h)
        PROVE  AloneInv'
    <2>1. PICK task \in {[Free EXCEPT !.at = "check", !.change = "focus"],
                        [Free EXCEPT !.at = "check", !.change = "copy"],
                        Mutate("close"), Mutate("pause"), Mutate("resume"),
                        [Mutate("close") EXCEPT !.flushes = TRUE],
                        [Free EXCEPT !.at = "flush"]} :
            handler' = [handler EXCEPT ![h] = task]
      BY <1>5 DEF HandleFocus, CloseCurrent, HandleAiCopy, SetPaused, FlushAlarm, RetryAlarm, Start
    <2>2. /\ task.at # "set" /\ (task.at = "get" => task.change # "clear")
          /\ task.at = "check" => task.change \in {"focus", "copy"}
      BY <2>1, <1>4, EmptyState DEF Handler, Changes
    <2> QED
      BY <1>2, <2>1, <2>2
  <1>6. CASE Check(h)
    <2>1. CASE handler' = [handler EXCEPT ![h] = Free]
      BY <1>2, <1>3, <2>1
    <2>2. CASE handler' = [handler EXCEPT ![h] = Mutate(handler[h].change)]
      <3>1. handler[h].change \in {"focus", "copy"}
        BY <1>1, <1>6 DEF Check, Ordered
      <3>2. /\ Mutate(handler[h].change).at = "get"
            /\ Mutate(handler[h].change).change # "clear"
        BY <1>4, <3>1 DEF Changes
      <3> QED
        BY <1>2, <2>2, <3>2
    <2> QED
      BY <1>6, <2>1, <2>2 DEF Check
  <1>7. CASE Get(h)
    <2> DEFINE task == [handler[h] EXCEPT !.at = "set", !.read = store]
    <2>1. /\ task.read = store /\ task.at = "set" /\ task.batch = handler[h].batch
          /\ task.change = handler[h].change
      BY <1>1 DEF Handler
    <2>2. handler' = [handler EXCEPT ![h] = task] /\ handler[h].at = "get"
      BY <1>1, <1>7 DEF Get
    <2> HIDE DEF task
    <2>3. Ordered(task)
      BY <1>1, <2>1, <2>2 DEF Ordered, Clearing
    <2> QED
      BY <1>1, <2>2, <2>3, AloneQuiet
  <1>8. CASE Request(h)
    <2> DEFINE task == [handler[h] EXCEPT !.at = "request"]
    <2>1. handler' = [handler EXCEPT ![h] = task] /\ task.at = "request"
      BY <1>1, <1>8 DEF Request, Handler
    <2> QED
      BY <1>2, <2>1
  <1>9. CASE NoToken(h) \/ IngestOk(h) \/ IngestRefused(h) \/ IngestRetryLater(h)
    <2> DEFINE task(attempts) == [Mutate("putback") EXCEPT !.batch = handler[h].batch,
                                                           !.attempts = attempts]
    <2>1. \/ handler' = [handler EXCEPT ![h] = Free]
          \/ handler' = [handler EXCEPT ![h] = Mutate("sent")]
          \/ handler' = [handler EXCEPT ![h] = Mutate("exhausted")]
          \/ handler' = [handler EXCEPT ![h] = task(handler[h].attempts + 1)]
      BY <1>9 DEF NoToken, IngestOk, IngestRefused, IngestRetryLater, NextAttempts
    <2>2. task(handler[h].attempts + 1).at = "get"
          /\ task(handler[h].attempts + 1).change = "putback"
      BY <1>4 DEF Handler, Changes
    <2> HIDE DEF task
    <2> QED
      BY <1>2, <1>3, <1>4, <2>1, <2>2 DEF Changes
  <1> QED
    BY <1>5, <1>6, <1>7, <1>8, <1>9

LEMMA FlushAlone ==
    ASSUME IInv, AloneInv, NEW h, Handlers = {h}, Flush(h)
    PROVE  AloneInv'
  <1> DEFINE task == [Mutate("clear") EXCEPT !.batch = Batch(store),
                                             !.attempts = store.retryAttempts]
  <1>1. OthersBatches(h) = {}
    BY DEF OthersBatches
  <1>2. UNCHANGED <<store, overtaken, killed, shared, revived>>
    BY <1>1 DEF Flush, AloneInv, NothingErased
  <1>3. CASE handler' = [handler EXCEPT ![h] = Free]
    <2>1. Ordered(Free)
      BY EmptyState DEF Ordered, Clearing
    <2> QED
      BY <1>2, <1>3, <2>1, AloneQuiet
  <1>4. CASE handler' = [handler EXCEPT ![h] = task]
    <2>1. task.batch = Batch(store) /\ task.at = "get"
      BY MutateTask DEF Handler, Changes
    <2> HIDE DEF task
    <2>2. Ordered(task)
      BY <2>1 DEF Ordered, Clearing
    <2> QED
      BY <1>2, <1>4, <2>2, AloneQuiet
  <1> QED
    BY <1>3, <1>4 DEF Flush

LEMMA SetAlone ==
    ASSUME IInv, AloneInv, NEW h, Handlers = {h}, Set(h)
    PROVE  AloneInv'
  <1> DEFINE task == handler[h]
  <1>1. /\ task \in Handler /\ task.at = "set" /\ task.read = store /\ store \in StoredState
        /\ task.change = "clear" => task.batch = Batch(store)
        /\ task.flushes => task.change = "close"
        /\ overtaken' = overtaken \cup Erased(task)
        /\ revived' = revived \cup BroughtBack(task)
        /\ UNCHANGED <<killed, shared>> /\ handler'[h] = After(task)
    BY DEF Set, IInv, TypeOK, TasksOK, TaskOK, AloneInv, Ordered, Clearing
  <1> HIDE DEF task
  <1>2. Erased(task) = {} /\ BroughtBack(task) = {}
    BY <1>1, BatchState DEF Erased, BroughtBack
  <1>3. After(task).at \in {"ingest", "free", "flush"}
    BY <1>1, AfterTask
  <1> QED
    BY <1>1, <1>2, <1>3 DEF AloneInv, NothingErased, Ordered, Clearing

LEMMA NextAlone ==
    ASSUME IInv, AloneInv, NEW h, Handlers = {h}, [Next]_vars
    PROVE  AloneInv'
  <1>1. CASE Terminate
    BY <1>1, EmptyState DEF Terminate, AloneInv, NothingErased, Ordered, Clearing
  <1>2. CASE SetConfig \/ UNCHANGED vars
    BY <1>2 DEF SetConfig, vars, ghosts, history, AloneInv, NothingErased, Ordered, Clearing, Batch
  <1> QED
    BY <1>1, <1>2, StepAlone, FlushAlone, SetAlone DEF Next, Step

\* While one handler ends before the next begins, the strengthening holds.
THEOREM AloneInvariance ==
    ASSUME NEW h, Handlers = {h}
    PROVE  Spec => []AloneInv
<1>1. Init => AloneInv
  BY EmptyState DEF Init, AloneInv, NothingErased, Ordered, Clearing
<1>2. IInv /\ AloneInv /\ [Next]_vars => AloneInv'
  BY NextAlone
<1> QED
  BY <1>1, <1>2, Invariance, PTL DEF Spec

\* While handlers do not overlap and the browser does not stop the worker,
\* nothing recorded is lost: every event is queued, in a batch, delivered or
\* given up on purpose (background.ts:6-8, flush at 265-317).
THEOREM AloneLosesNothing ==
    ASSUME NEW h, Handlers = {h}, "terminate" \notin Faults
    PROVE  Spec => []NothingVanishes
<1>1. IInv /\ AloneInv => NothingVanishes
  BY DEF IInv, AloneInv, NothingErased, LossExplained, NothingVanishes
<1> QED
  BY <1>1, Invariance, AloneInvariance, PTL

\* While handlers do not overlap, of the three causes of a duplicate only the
\* request that failed after the backend had stored it is left
\* (background.ts:265-317).
THEOREM AloneDuplicatesOnlyInDoubt ==
    ASSUME NEW h, Handlers = {h}
    PROVE  Spec => []DuplicatesExplained
<1>1. AloneInv /\ DuplicatesTraced => DuplicatesExplained
  BY DEF AloneInv, NothingErased, DuplicatesTraced, DuplicatesExplained
<1> QED
  BY <1>1, AloneInvariance, EveryDuplicateHasACause, PTL
=============================================================================
