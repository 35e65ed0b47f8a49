---------------------------- MODULE SrcPort_proofs ----------------------------
(***************************************************************************)
(* Proofs about the src port, for every client: events are served in the   *)
(* order they were sent, so no answer repeats or overtakes another; and as *)
(* long as the first generator of every list has work, no stale event is   *)
(* read, no event is answered before its generators have completed, and    *)
(* the clock runs when a generator does.                                   *)
(***************************************************************************)
EXTENDS SrcPort, FiniteSetTheorems, TLAPS

(* Events arrive in the order of their keys: those on the link follow the  *)
(* one being served.                                                       *)
LinkInOrder ==
  /\ sentLists \in Seq(GeneratorLists)
  /\ srcLink \in Seq(Nat)
  /\ srcReqEvent \in Nat
  /\ \A k \in 1..Len(srcLink) : srcLink[k] = srcReqEvent + k
  /\ srcReqEvent + Len(srcLink) = Len(sentLists)

LEMMA LinkInit ==
  ASSUME SrcInit
  PROVE  LinkInOrder
BY DEF SrcInit, LinkInOrder

LEMMA LinkSend ==
  ASSUME LinkInOrder, NEW list \in GeneratorLists, SendEvent(list)
  PROVE  LinkInOrder'
<1>1. /\ sentLists' = Append(sentLists, list)
      /\ srcLink' = Append(srcLink, Len(sentLists) + 1)
      /\ srcReqEvent' = srcReqEvent
  BY DEF SendEvent
<1>2. sentLists' \in Seq(GeneratorLists) /\ Len(sentLists') = Len(sentLists) + 1
  BY <1>1 DEF LinkInOrder
<1>3. /\ Len(srcLink) \in Nat /\ Len(sentLists) \in Nat
      /\ Len(srcLink') = Len(srcLink) + 1
      /\ srcLink' \in Seq(Nat)
      /\ \A k \in 1..Len(srcLink) : srcLink'[k] = srcLink[k]
      /\ srcLink'[Len(srcLink) + 1] = Len(sentLists) + 1
  BY <1>1 DEF LinkInOrder
<1>4. \A k \in 1..Len(srcLink') : srcLink'[k] = srcReqEvent' + k
  <2> TAKE k \in 1..Len(srcLink')
  <2>1. CASE k \in 1..Len(srcLink)
    BY <2>1, <1>1, <1>3 DEF LinkInOrder
  <2>2. CASE k = Len(srcLink) + 1
    BY <2>2, <1>1, <1>3 DEF LinkInOrder
  <2> QED
    BY <1>3, <2>1, <2>2
<1> QED
  BY <1>1, <1>2, <1>3, <1>4 DEF LinkInOrder

(* The event that the handler takes is the next one.                       *)
LEMMA NextKey ==
  ASSUME LinkInOrder, srcLink # <<>>
  PROVE  /\ Head(srcLink) = srcReqEvent + 1
         /\ Head(srcLink) \in 1..Len(sentLists)
         /\ sentLists[Head(srcLink)] \in GeneratorLists
<1>1. Len(srcLink) \in Nat \ {0} /\ Len(sentLists) \in Nat
  BY DEF LinkInOrder
<1>2. Head(srcLink) = srcLink[1] /\ 1 \in 1..Len(srcLink)
  BY <1>1 DEF LinkInOrder
<1>3. Head(srcLink) = srcReqEvent + 1
  BY <1>2 DEF LinkInOrder
<1>4. Head(srcLink) \in 1..Len(sentLists)
  BY <1>1, <1>3 DEF LinkInOrder
<1> QED
  BY <1>3, <1>4 DEF LinkInOrder

LEMMA LinkReceive ==
  ASSUME LinkInOrder, HandleSrcEvent
  PROVE  LinkInOrder'
<1>1. /\ srcLink # <<>>
      /\ srcLink' = Tail(srcLink)
      /\ srcReqEvent' = Head(srcLink)
      /\ sentLists' = sentLists
  BY DEF HandleSrcEvent, Stored
<1>2. srcReqEvent' = srcReqEvent + 1
  BY <1>1, NextKey
<1>3. /\ Len(srcLink) \in Nat \ {0}
      /\ Len(srcLink') = Len(srcLink) - 1
      /\ srcLink' \in Seq(Nat)
      /\ \A k \in 1..Len(srcLink') : srcLink'[k] = srcLink[k + 1]
  BY <1>1 DEF LinkInOrder
<1>4. \A k \in 1..Len(srcLink') : srcLink'[k] = srcReqEvent' + k
  <2> TAKE k \in 1..Len(srcLink')
  <2>1. k + 1 \in 1..Len(srcLink)
    BY <1>3
  <2> QED
    BY <2>1, <1>2, <1>3 DEF LinkInOrder
<1> QED
  BY <1>1, <1>2, <1>3, <1>4 DEF LinkInOrder

LEMMA LinkKept ==
  ASSUME LinkInOrder, UNCHANGED <<sentLists, srcLink, srcReqEvent>>
  PROVE  LinkInOrder'
BY DEF LinkInOrder

-----------------------------------------------------------------------------
(* Answers.                                                                *)

OrderInv ==
  /\ LinkInOrder
  /\ answers \in Seq(Nat)
  /\ AnswersInOrder
  /\ \A k \in DOMAIN answers : answers[k] <= srcReqEvent

(* What a tick does to the answers and to the events that are alive.       *)
LEMMA TickAnswers ==
  ASSUME NEW gen, NEW lists, NEW live, Tick(gen, lists, live)
  PROVE  \/ answers' = answers /\ alive' = live
         \/ /\ srcReqEvent \in live
            /\ answers' = Append(answers, srcReqEvent)
            /\ alive' = live \ {srcReqEvent}
BY DEF Tick, Work, AnswerEvent, NextGenerator, ReadStale, Deleted

LEMMA AnswerKeepsOrder ==
  ASSUME OrderInv, NEW live, \A k \in DOMAIN answers : answers[k] \notin live,
         \/ answers' = answers /\ alive' = live
         \/ /\ srcReqEvent \in live
            /\ answers' = Append(answers, srcReqEvent)
            /\ alive' = live \ {srcReqEvent}
  PROVE  /\ answers' \in Seq(Nat)
         /\ AnswersInOrder'
         /\ \A k \in DOMAIN answers' : answers'[k] <= srcReqEvent
<1>1. CASE answers' = answers /\ alive' = live
  BY <1>1 DEF OrderInv, AnswersInOrder
<1>2. CASE /\ srcReqEvent \in live
           /\ answers' = Append(answers, srcReqEvent)
           /\ alive' = live \ {srcReqEvent}
  <2>1. srcReqEvent \in Nat /\ answers \in Seq(Nat)
    BY DEF OrderInv, LinkInOrder
  <2>2. /\ Len(answers) \in Nat /\ DOMAIN answers = 1..Len(answers)
        /\ answers' \in Seq(Nat)
        /\ DOMAIN answers' = 1..(Len(answers) + 1)
        /\ \A k \in DOMAIN answers : answers'[k] = answers[k] /\ answers[k] \in Nat
        /\ answers'[Len(answers) + 1] = srcReqEvent
    BY <2>1, <1>2
  <2>3. \A k \in DOMAIN answers : answers[k] < srcReqEvent
    <3> TAKE k \in DOMAIN answers
    <3>1. answers[k] # srcReqEvent /\ answers[k] <= srcReqEvent
      BY <1>2 DEF OrderInv
    <3> QED
      BY <2>1, <2>2, <3>1
  <2>4. \A k \in DOMAIN answers' : k \in DOMAIN answers \/ k = Len(answers) + 1
    BY <2>2
  <2>5. \A j, k \in DOMAIN answers' : j < k => answers'[j] < answers'[k]
    <3> TAKE j, k \in DOMAIN answers'
    <3> HAVE j < k
    <3>1. j \in DOMAIN answers
      BY <2>2
    <3>2. CASE k \in DOMAIN answers
      BY <3>1, <3>2, <2>2 DEF OrderInv, AnswersInOrder
    <3>3. CASE k = Len(answers) + 1
      BY <3>1, <3>3, <2>2, <2>3
    <3> QED
      BY <2>4, <3>2, <3>3
  <2>6. \A k \in DOMAIN answers' : answers'[k] \notin alive'
    <3> TAKE k \in DOMAIN answers'
    <3>1. CASE k \in DOMAIN answers
      BY <3>1, <2>2, <1>2
    <3>2. CASE k = Len(answers) + 1
      BY <3>2, <2>2, <1>2
    <3> QED
      BY <2>4, <3>1, <3>2
  <2>7. \A k \in DOMAIN answers' : answers'[k] <= srcReqEvent
    BY <2>1, <2>2, <2>3, <2>4
  <2> QED
    BY <2>2, <2>5, <2>6, <2>7 DEF AnswersInOrder
<1> QED
  BY <1>1, <1>2

LEMMA OrderKept ==
  ASSUME OrderInv, [SrcNext]_srcVars
  PROVE  OrderInv'
<1>1. ASSUME NEW list \in GeneratorLists, SendEvent(list)
      PROVE  OrderInv'
  <2>1. UNCHANGED <<answers, alive, srcReqEvent>>
    BY <1>1 DEF SendEvent
  <2>2. LinkInOrder'
    BY <1>1, LinkSend DEF OrderInv
  <2> QED
    BY <2>1, <2>2 DEF OrderInv, AnswersInOrder
<1>2. ASSUME HandleSrcEvent
      PROVE  OrderInv'
  <2> DEFINE key == Head(srcLink)
  <2>1. LinkInOrder' /\ key = srcReqEvent + 1 /\ srcReqEvent' = key
    BY <1>2, LinkReceive, NextKey DEF OrderInv, HandleSrcEvent, Stored
  <2>2. srcReqEvent \in Nat
    BY DEF OrderInv, LinkInOrder
  <2>3. \A k \in DOMAIN answers : answers[k] \notin alive \cup {key}
    <3> TAKE k \in DOMAIN answers
    <3>1. answers[k] \notin alive /\ answers[k] <= srcReqEvent /\ answers[k] \in Nat
      BY DEF OrderInv, AnswersInOrder
    <3> QED
      BY <3>1, <2>1, <2>2
  <2>4. \/ answers' = answers /\ alive' = alive \cup {key}
        \/ /\ srcReqEvent \in alive \cup {key}
           /\ answers' = Append(answers, srcReqEvent)
           /\ alive' = (alive \cup {key}) \ {srcReqEvent}
    <3>1. CASE LoadInFirstCycle(key)
      BY <3>1 DEF LoadInFirstCycle
    <3>2. CASE LoadAndTick(key)
      BY <3>2, TickAnswers DEF LoadAndTick
    <3> QED
      BY <1>2, <3>1, <3>2 DEF HandleSrcEvent
  <2>5. /\ answers' \in Seq(Nat)
        /\ AnswersInOrder'
        /\ \A k \in DOMAIN answers' : answers'[k] <= srcReqEvent
    <3> HIDE DEF key
    <3> QED
      BY <2>3, <2>4, AnswerKeepsOrder
  <2>6. \A k \in DOMAIN answers' : answers'[k] <= srcReqEvent'
    <3> TAKE k \in DOMAIN answers'
    <3>1. answers'[k] \in Nat /\ answers'[k] <= srcReqEvent
      BY <2>5
    <3> QED
      BY <3>1, <2>1, <2>2
  <2> QED
    BY <2>1, <2>5, <2>6 DEF OrderInv
<1>3. ASSUME ClockTick
      PROVE  OrderInv'
  <2>1. LinkInOrder'
    BY <1>3, LinkKept DEF OrderInv, ClockTick
  <2>2. srcReqEvent' = srcReqEvent
    BY <1>3 DEF ClockTick
  <2>3. \/ answers' = answers /\ alive' = alive
        \/ /\ srcReqEvent \in alive
           /\ answers' = Append(answers, srcReqEvent)
           /\ alive' = alive \ {srcReqEvent}
    <3>1. CASE TickIdle
      BY <3>1 DEF TickIdle
    <3>2. CASE TickGenerator
      BY <3>2, TickAnswers DEF TickGenerator
    <3> QED
      BY <1>3, <3>1, <3>2 DEF ClockTick
  <2>4. \A k \in DOMAIN answers : answers[k] \notin alive
    BY DEF OrderInv, AnswersInOrder
  <2> QED
    BY <2>1, <2>2, <2>3, <2>4, AnswerKeepsOrder DEF OrderInv
<1>4. ASSUME UNCHANGED srcVars
      PROVE  OrderInv'
  BY <1>4, LinkKept DEF OrderInv, AnswersInOrder, srcVars
<1> QED
  BY <1>1, <1>2, <1>3, <1>4 DEF SrcNext

(* Whatever the client sends and however long its generators take, the CPU *)
(* answers every event at most once, in the order they were sent, and has  *)
(* deleted what it answered.                                               *)
THEOREM AnswersOrdered == SrcSpec => []AnswersInOrder
<1>1. SrcInit => OrderInv
  <2> SUFFICES ASSUME SrcInit PROVE OrderInv
    OBVIOUS
  <2>1. LinkInOrder
    BY LinkInit
  <2>2. answers = <<>>
    BY DEF SrcInit
  <2> QED
    BY <2>1, <2>2 DEF OrderInv, AnswersInOrder
<1>2. OrderInv /\ [SrcNext]_srcVars => OrderInv'
  BY OrderKept
<1>3. OrderInv => AnswersInOrder
  BY DEF OrderInv
<1> QED
  BY <1>1, <1>2, <1>3, PTL DEF SrcSpec

-----------------------------------------------------------------------------
(* Stale events.                                                           *)

AliveInv ==
  /\ LinkInOrder
  /\ BusyLists => /\ ~undefined
                  /\ reqGen # Null => srcReqEvent \in alive

LEMMA AliveKept ==
  ASSUME AliveInv, [SrcNext]_srcVars
  PROVE  AliveInv'
<1>1. ASSUME NEW list \in GeneratorLists, SendEvent(list)
      PROVE  AliveInv'
  <2>1. LinkInOrder'
    BY <1>1, LinkSend DEF AliveInv
  <2>2. sentLists' = Append(sentLists, list) /\ sentLists \in Seq(GeneratorLists)
    BY <1>1 DEF SendEvent, AliveInv, LinkInOrder
  <2>3. \A key \in Keys : key \in Keys' /\ sentLists'[key] = sentLists[key]
    BY <2>2 DEF Keys
  <2>4. BusyLists' => BusyLists
    <3>1. BusyLists' <=> \A key \in Keys' : Head(sentLists'[key]) > 0
      BY DEF BusyLists
    <3> QED
      BY <2>3, <3>1 DEF BusyLists
  <2> QED
    BY <1>1, <2>1, <2>4 DEF AliveInv, SendEvent, Null
<1>2. ASSUME HandleSrcEvent
      PROVE  AliveInv'
  <2> DEFINE key == Head(srcLink)
             gen == Front(Arrived(key), key)
  <2>1. LinkInOrder' /\ srcReqEvent' = key
    BY <1>2, LinkReceive DEF AliveInv, HandleSrcEvent, Stored
  <2>2. key \in 1..Len(sentLists)
    BY <1>2, NextKey DEF AliveInv, HandleSrcEvent
  <2>3. key \in 1..key
    BY <2>2
  <2>4. Arrived(key)[key] = sentLists[key]
    BY <2>3, Zenon DEF Arrived
  <2>5. gen.ticks = Head(sentLists[key])
    BY <2>4 DEF Front
  <2>6. BusyLists' <=> BusyLists
    BY <1>2 DEF HandleSrcEvent, BusyLists, Keys
  <2>7. SUFFICES ASSUME BusyLists
                 PROVE  ~undefined' /\ srcReqEvent' \in alive'
    BY <2>1, <2>6 DEF AliveInv
  <2>8. HasWork(gen)
    BY <2>2, <2>5, <2>7 DEF HasWork, BusyLists, Keys
  <2>9. CASE LoadInFirstCycle(key)
    BY <2>1, <2>7, <2>9 DEF LoadInFirstCycle, AliveInv
  <2>10. CASE LoadAndTick(key)
    <3>1. Tick(gen, WithoutFront(Arrived(key), key), alive \cup {key})
      BY <2>10 DEF LoadAndTick
    <3>2. Work(gen, WithoutFront(Arrived(key), key), alive \cup {key})
      BY <3>1, <2>8 DEF Tick, AnswerEvent, NextGenerator, ReadStale, GeneratorDone
    <3>3. alive' = alive \cup {key} /\ undefined' = undefined
      BY <3>2 DEF Work
    <3> QED
      BY <2>1, <2>7, <3>3 DEF AliveInv
  <2> QED
    BY <1>2, <2>9, <2>10 DEF HandleSrcEvent
<1>3. ASSUME ClockTick
      PROVE  AliveInv'
  <2>1. LinkInOrder'
    BY <1>3, LinkKept DEF AliveInv, ClockTick
  <2>2. srcReqEvent' = srcReqEvent /\ (BusyLists' <=> BusyLists)
    BY <1>3 DEF ClockTick, BusyLists, Keys
  <2>3. CASE TickIdle
    BY <2>1, <2>2, <2>3 DEF TickIdle, AliveInv, Null
  <2>4. CASE TickGenerator
    <3>1. SUFFICES ASSUME BusyLists
                   PROVE  ~undefined' /\ (reqGen' # Null => srcReqEvent' \in alive')
      BY <2>1, <2>2 DEF AliveInv
    <3>2. srcReqEvent \in alive /\ ~undefined /\ Tick(reqGen, generators, alive)
      BY <2>4, <3>1 DEF TickGenerator, AliveInv
    <3>3. undefined' = undefined /\ (alive' = alive \/ reqGen' = Null)
      BY <3>2 DEF Tick, Work, AnswerEvent, NextGenerator, ReadStale
    <3> QED
      BY <2>2, <3>2, <3>3
  <2> QED
    BY <1>3, <2>3, <2>4 DEF ClockTick
<1>4. ASSUME UNCHANGED srcVars
      PROVE  AliveInv'
  <2>1. LinkInOrder' /\ (BusyLists' <=> BusyLists)
    BY <1>4, LinkKept DEF AliveInv, srcVars, BusyLists, Keys
  <2> QED
    BY <1>4, <2>1 DEF AliveInv, srcVars, Null
<1> QED
  BY <1>1, <1>2, <1>3, <1>4 DEF SrcNext

(* As long as no list sent starts with a generator that is finished when   *)
(* it is loaded, the tick never reads an event that is deleted or not      *)
(* stored yet, for any number of events under way.                         *)
THEOREM NoStaleEvent == SrcSpec => []EventAliveWhenRead
<1>1. SrcInit => AliveInv
  <2> SUFFICES ASSUME SrcInit PROVE AliveInv
    OBVIOUS
  <2>1. LinkInOrder
    BY LinkInit
  <2> QED
    BY <2>1 DEF SrcInit, AliveInv
<1>2. AliveInv /\ [SrcNext]_srcVars => AliveInv'
  BY AliveKept
<1>3. AliveInv => EventAliveWhenRead
  BY DEF AliveInv, EventAliveWhenRead
<1> QED
  BY <1>1, <1>2, <1>3, PTL DEF SrcSpec

-----------------------------------------------------------------------------
(* Answers and work.  What is known of an event concerns the events that   *)
(* have arrived, up to number n.                                           *)
KnownUpTo(n) ==
  /\ generators \in [1..n -> Seq(Nat)]
  /\ alive \subseteq 1..n
  /\ reqGen \in [key : 0..n, ticks : Nat]
  /\ completed \in Seq(Nat)
  /\ \A k \in DOMAIN completed : completed[k] <= n
  /\ answers \in Seq(Nat)
  /\ \A k \in DOMAIN answers : answers[k] \in 1..n

Known == KnownUpTo(srcReqEvent)

(* The running generator is one of the event that is being served, and     *)
(* every generator of that event has completed, runs or is in its list.    *)
Running == reqGen # Null
Serving ==
  /\ srcReqEvent \in Keys
  /\ reqGen.key = srcReqEvent
  /\ TimesCompleted(srcReqEvent) + 1 + Len(generators[srcReqEvent]) = Len(sentLists[srcReqEvent])

WorkInv ==
  /\ BusyLists /\ Running => Serving
  /\ AnsweredAfterWork

LEMMA ListTyping ==
  ASSUME NEW list \in GeneratorLists
  PROVE  /\ list \in Seq(Nat) /\ list # <<>>
         /\ Head(list) \in Nat /\ Tail(list) \in Seq(Nat)
         /\ Len(list) \in Nat /\ Len(Tail(list)) = Len(list) - 1
<1>1. list \in Seq(Nat) /\ list # <<>>
  BY SrcAssumption
<1> QED
  BY <1>1

LEMMA AppendedElements ==
  ASSUME NEW s \in Seq(Nat), NEW x \in Nat
  PROVE  /\ Append(s, x) \in Seq(Nat)
         /\ \A k \in DOMAIN Append(s, x) :
              Append(s, x)[k] = x \/ (k \in DOMAIN s /\ Append(s, x)[k] = s[k])
<1>1. /\ Len(s) \in Nat /\ DOMAIN s = 1..Len(s) /\ Append(s, x) \in Seq(Nat)
      /\ Len(Append(s, x)) = Len(s) + 1
      /\ Append(s, x)[Len(s) + 1] = x
      /\ \A k \in 1..Len(s) : Append(s, x)[k] = s[k]
  OBVIOUS
<1>2. DOMAIN Append(s, x) = 1..(Len(s) + 1)
  BY <1>1
<1>3. \A k \in 1..(Len(s) + 1) : k = Len(s) + 1 \/ k \in 1..Len(s)
  BY <1>1
<1> QED
  BY <1>1, <1>2, <1>3

LEMMA KnownTick ==
  ASSUME NEW n \in Nat, NEW gen \in [key : 0..n, ticks : Nat], NEW lists \in [1..n -> Seq(Nat)],
         NEW live \in SUBSET (1..n), Tick(gen, lists, live), completed \in Seq(Nat),
         \A k \in DOMAIN completed : completed[k] <= n,
         answers \in Seq(Nat), \A k \in DOMAIN answers : answers[k] \in 1..n
  PROVE  KnownUpTo(n)'
<1>1. gen.key \in 0..n /\ gen.ticks \in Nat
  OBVIOUS
<1>2. completed' \in Seq(Nat) /\ \A k \in DOMAIN completed' : completed'[k] <= n
  <2>1. completed' = completed \/ completed' = Append(completed, gen.key)
    BY DEF Tick, Work, AnswerEvent, NextGenerator, ReadStale, GeneratorDone
  <2>2. CASE completed' = Append(completed, gen.key)
    <3>1. gen.key \in Nat /\ gen.key <= n
      BY <1>1
    <3>2. /\ completed' \in Seq(Nat)
          /\ \A k \in DOMAIN completed' :
               completed'[k] = gen.key \/ (k \in DOMAIN completed /\ completed'[k] = completed[k])
      BY <2>2, <3>1, AppendedElements
    <3> QED
      BY <3>1, <3>2
  <2>3. CASE completed' = completed
    BY <2>3
  <2> QED
    BY <2>1, <2>2, <2>3
<1>3. answers' \in Seq(Nat) /\ \A k \in DOMAIN answers' : answers'[k] \in 1..n
  <2>1. \/ answers' = answers
        \/ answers' = Append(answers, srcReqEvent) /\ srcReqEvent \in 1..n
    BY DEF Tick, Work, AnswerEvent, NextGenerator, ReadStale
  <2>2. CASE answers' = Append(answers, srcReqEvent) /\ srcReqEvent \in 1..n
    <3>1. /\ answers' \in Seq(Nat)
          /\ \A k \in DOMAIN answers' :
               answers'[k] = srcReqEvent \/ (k \in DOMAIN answers /\ answers'[k] = answers[k])
      BY <2>2, AppendedElements
    <3> QED
      BY <2>2, <3>1
  <2>3. CASE answers' = answers
    BY <2>3
  <2> QED
    BY <2>1, <2>2, <2>3
<1>4. alive' \subseteq 1..n
  BY DEF Tick, Work, AnswerEvent, NextGenerator, ReadStale, Deleted
<1>5. /\ generators' \in [1..n -> Seq(Nat)]
      /\ reqGen' \in [key : 0..n, ticks : Nat]
  <2>1. CASE Work(gen, lists, live)
    <3>1. gen.ticks - 1 \in Nat
      BY <1>1, <2>1 DEF Work, HasWork
    <3> QED
      BY <2>1, <3>1 DEF Work
  <2>2. CASE AnswerEvent(gen, lists, live) \/ ReadStale(gen, lists, live)
    <3>1. Null \in [key : 0..n, ticks : Nat]
      BY DEF Null
    <3> QED
      BY <2>2, <3>1 DEF AnswerEvent, ReadStale
  <2>3. CASE NextGenerator(gen, lists, live)
    <3>1. /\ srcReqEvent \in 1..n /\ lists[srcReqEvent] \in Seq(Nat) /\ lists[srcReqEvent] # <<>>
          /\ reqGen' = [key |-> srcReqEvent, ticks |-> Head(lists[srcReqEvent])]
          /\ generators' = [lists EXCEPT ![srcReqEvent] = Tail(@)]
      BY <2>3 DEF NextGenerator, NoneLeft, Front, WithoutFront
    <3>2. /\ Head(lists[srcReqEvent]) \in Nat /\ Tail(lists[srcReqEvent]) \in Seq(Nat)
      BY <3>1
    <3> QED
      BY <3>1, <3>2
  <2> QED
    BY <2>1, <2>2, <2>3 DEF Tick
<1> QED
  BY <1>2, <1>3, <1>4, <1>5 DEF KnownUpTo

(* The event that arrives: its first generator is loaded.                  *)
LEMMA Arrival ==
  ASSUME LinkInOrder, Known, srcLink # <<>>
  PROVE  LET key   == Head(srcLink)
             gen   == Front(Arrived(key), key)
             lists == WithoutFront(Arrived(key), key)
         IN  /\ key = srcReqEvent + 1 /\ srcReqEvent \in Nat /\ key \in Keys
             /\ gen = [key |-> key, ticks |-> Head(sentLists[key])]
             /\ gen \in [key : 0..key, ticks : Nat]
             /\ lists \in [1..key -> Seq(Nat)]
             /\ lists[key] = Tail(sentLists[key])
             /\ sentLists[key] \in GeneratorLists
<1> DEFINE key == Head(srcLink)
<1>1. /\ key = srcReqEvent + 1 /\ srcReqEvent \in Nat /\ key \in Keys
      /\ sentLists[key] \in GeneratorLists
  BY NextKey DEF Keys, LinkInOrder
<1> HIDE DEF key
<1>2. /\ sentLists[key] \in Seq(Nat) /\ Tail(sentLists[key]) \in Seq(Nat)
      /\ Head(sentLists[key]) \in Nat
  BY <1>1, ListTyping
<1>3. generators \in [1..srcReqEvent -> Seq(Nat)]
  BY DEF Known, KnownUpTo
<1>4. /\ Arrived(key) \in [1..key -> Seq(Nat)]
      /\ Arrived(key)[key] = sentLists[key]
      /\ key \in 1..key
  <2>1. \A k \in 1..key : k # key => k \in 1..srcReqEvent
    BY <1>1
  <2>2. key \in 1..key
    BY <1>1
  <2> QED
    BY <1>2, <1>3, <2>1, <2>2 DEF Arrived
<1>5. /\ Front(Arrived(key), key) = [key |-> key, ticks |-> Head(sentLists[key])]
      /\ Front(Arrived(key), key) \in [key : 0..key, ticks : Nat]
  <2>1. key \in 0..key
    BY <1>1
  <2> QED
    BY <1>2, <1>4, <2>1 DEF Front
<1>6. /\ WithoutFront(Arrived(key), key) \in [1..key -> Seq(Nat)]
      /\ WithoutFront(Arrived(key), key)[key] = Tail(sentLists[key])
  BY <1>2, <1>4 DEF WithoutFront
<1> QED
  BY <1>1, <1>5, <1>6 DEF key

LEMMA KnownStep ==
  ASSUME LinkInOrder, Known, [SrcNext]_srcVars
  PROVE  Known'
<1>1. CASE \/ UNCHANGED srcVars
           \/ \E list \in GeneratorLists : SendEvent(list)
           \/ ClockTick /\ TickIdle
  <2>1. UNCHANGED <<generators, alive, reqGen, completed, answers, srcReqEvent>>
    BY <1>1 DEF srcVars, SendEvent, ClockTick, TickIdle
  <2> QED
    BY <2>1 DEF Known, KnownUpTo
<1>2. CASE ClockTick /\ TickGenerator
  <2>1. Tick(reqGen, generators, alive) /\ srcReqEvent' = srcReqEvent /\ srcReqEvent \in Nat
    BY <1>2 DEF ClockTick, TickGenerator, LinkInOrder
  <2>2. KnownUpTo(srcReqEvent)
    BY DEF Known
  <2>3. \A n \in Nat : n = srcReqEvent => KnownUpTo(n)'
    <3> SUFFICES ASSUME NEW n \in Nat, n = srcReqEvent PROVE KnownUpTo(n)'
      OBVIOUS
    <3> QED
      BY <2>1, <2>2, KnownTick DEF KnownUpTo
  <2> QED
    BY <2>1, <2>3 DEF Known, KnownUpTo
<1>3. CASE HandleSrcEvent
  <2> DEFINE key == Head(srcLink)
             gen == Front(Arrived(key), key)
             lists == WithoutFront(Arrived(key), key)
             live == alive \cup {key}
  <2>1. /\ key = srcReqEvent + 1 /\ srcReqEvent \in Nat
        /\ gen \in [key : 0..key, ticks : Nat] /\ lists \in [1..key -> Seq(Nat)]
        /\ srcReqEvent' = key
    BY <1>3, Arrival DEF HandleSrcEvent, Stored
  <2>2. \/ Tick(gen, lists, live)
        \/ /\ reqGen' = gen /\ generators' = lists /\ alive' = live
           /\ UNCHANGED <<answers, completed>>
    BY <1>3 DEF HandleSrcEvent, LoadInFirstCycle, LoadAndTick
  <2> HIDE DEF key, gen, lists
  <2>3. /\ live \in SUBSET (1..key) /\ key \in Nat
        /\ completed \in Seq(Nat) /\ answers \in Seq(Nat)
        /\ \A k \in DOMAIN completed : completed[k] <= key
        /\ \A k \in DOMAIN answers : answers[k] \in 1..key
    <3>1. 1..srcReqEvent \subseteq 1..key /\ key \in 1..key
      BY <2>1
    <3>2. /\ alive \subseteq 1..srcReqEvent /\ completed \in Seq(Nat) /\ answers \in Seq(Nat)
          /\ \A k \in DOMAIN completed : completed[k] <= srcReqEvent /\ completed[k] \in Nat
          /\ \A k \in DOMAIN answers : answers[k] \in 1..srcReqEvent
      BY DEF Known, KnownUpTo
    <3> QED
      BY <2>1, <3>1, <3>2
  <2> HIDE DEF live
  <2>4. ASSUME NEW n \in Nat, n = key PROVE KnownUpTo(n)'
    <3>1. CASE Tick(gen, lists, live)
      BY <2>1, <2>3, <2>4, <3>1, KnownTick
    <3>2. CASE /\ reqGen' = gen /\ generators' = lists /\ alive' = live
               /\ UNCHANGED <<answers, completed>>
      BY <2>1, <2>3, <2>4, <3>2 DEF KnownUpTo
    <3> QED
      BY <2>2, <3>1, <3>2
  <2>5. \A n \in Nat : n = key => KnownUpTo(n)'
    BY <2>4
  <2> QED
    BY <2>1, <2>3, <2>5 DEF Known, KnownUpTo
<1> QED
  BY <1>1, <1>2, <1>3 DEF SrcNext, ClockTick

LEMMA CompletedMore ==
  ASSUME completed \in Seq(Nat), NEW g \in Nat, completed' = Append(completed, g), NEW key
  PROVE  /\ TimesCompleted(key) \in Nat
         /\ key = g => TimesCompleted(key)' = TimesCompleted(key) + 1
         /\ key # g => TimesCompleted(key)' = TimesCompleted(key)
<1> DEFINE n == Len(completed)
           S == {k \in DOMAIN completed : completed[k] = key}
<1>1. /\ n \in Nat /\ DOMAIN completed = 1..n
      /\ DOMAIN completed' = 1..(n + 1)
      /\ completed'[n + 1] = g
      /\ \A k \in 1..n : completed'[k] = completed[k]
  OBVIOUS
<1>2. \A k : k \in 1..(n + 1) <=> (k \in 1..n \/ k = n + 1)
  BY <1>1
<1>3. n + 1 \notin S
  BY <1>1
<1>4. IsFiniteSet(S) /\ Cardinality(S) \in Nat
  <2>1. IsFiniteSet(1..n)
    BY <1>1, FS_Interval
  <2>2. S \in SUBSET (1..n)
    BY <1>1
  <2> HIDE DEF S, n
  <2>3. IsFiniteSet(S)
    BY <2>1, <2>2, FS_Subset
  <2> QED
    BY <2>3, FS_CardinalityType
<1>5. TimesCompleted(key)' = Cardinality({k \in DOMAIN completed' : completed'[k] = key})
  BY DEF TimesCompleted
<1>6. ASSUME key = g PROVE {k \in DOMAIN completed' : completed'[k] = key} = S \cup {n + 1}
  <2> HIDE DEF n
  <2> QED
    BY <1>1, <1>2, <1>6
<1>7. ASSUME key # g PROVE {k \in DOMAIN completed' : completed'[k] = key} = S
  <2> HIDE DEF n
  <2> QED
    BY <1>1, <1>2, <1>7
<1>8. TimesCompleted(key) = Cardinality(S)
  BY DEF TimesCompleted
<1> HIDE DEF S, n
<1>9. Cardinality(S \cup {n + 1}) = Cardinality(S) + 1
  BY <1>3, <1>4, FS_AddElement
<1> QED
  BY <1>4, <1>5, <1>6, <1>7, <1>8, <1>9

LEMMA NothingCompleted ==
  ASSUME NEW key, \A k \in DOMAIN completed : completed[k] # key
  PROVE  TimesCompleted(key) = 0
BY FS_EmptySet DEF TimesCompleted

(* A tick of the running generator while its event, e, is there.           *)
LEMMA ServingTick ==
  ASSUME LinkInOrder, Known, Running, Serving, NEW e, e = srcReqEvent, e \in alive,
         Tick(reqGen, generators, alive)
  PROVE  /\ \A key : key # e => TimesCompleted(key)' = TimesCompleted(key)
         /\ \/ /\ answers' = answers /\ Running' /\ reqGen'.key = e
               /\ TimesCompleted(e)' + 1 + Len(generators'[e]) = Len(sentLists[e])
            \/ /\ answers' = Append(answers, e) /\ ~Running'
               /\ TimesCompleted(e)' = Len(sentLists[e])
<1> DEFINE t == TimesCompleted(e)
           g == generators[e]
           n == Len(sentLists[e])
<1>1. /\ e \in 1..Len(sentLists) /\ reqGen.key = e /\ e \in Nat \ {0}
      /\ reqGen \in [key : 0..e, ticks : Nat]
      /\ generators \in [1..e -> Seq(Nat)] /\ completed \in Seq(Nat)
      /\ t + 1 + Len(g) = n
  BY DEF Serving, Keys, LinkInOrder, Known, KnownUpTo
<1>2. g \in Seq(Nat) /\ Len(g) \in Nat /\ e \in 1..e
  BY <1>1
<1>3. \A r : r.key = e => r # Null
  BY <1>1 DEF Null
<1>4. CASE Work(reqGen, generators, alive)
  <2>1. /\ reqGen' = [reqGen EXCEPT !.ticks = @ - 1] /\ generators' = generators
        /\ UNCHANGED <<answers, completed>>
    BY <1>4 DEF Work
  <2>2. reqGen'.key = e
    BY <1>1, <2>1
  <2>3. \A key : TimesCompleted(key)' = TimesCompleted(key)
    BY <2>1 DEF TimesCompleted
  <2>4. Running'
    BY <1>3, <2>2 DEF Running, Null
  <2> QED
    BY <1>1, <2>1, <2>2, <2>3, <2>4
<1>5. ASSUME GeneratorDone(reqGen)
      PROVE  /\ \A key : key # e => TimesCompleted(key)' = TimesCompleted(key)
             /\ TimesCompleted(e)' = t + 1 /\ t \in Nat
  <2>1. completed' = Append(completed, e)
    BY <1>1, <1>5 DEF GeneratorDone
  <2>2. ASSUME NEW key
        PROVE  /\ TimesCompleted(key) \in Nat
               /\ key = e => TimesCompleted(key)' = TimesCompleted(key) + 1
               /\ key # e => TimesCompleted(key)' = TimesCompleted(key)
    <3>1. e \in Nat
      BY <1>1
    <3> QED
      BY <1>1, <2>1, <3>1, CompletedMore
  <2> QED
    BY <2>2
<1>6. CASE AnswerEvent(reqGen, generators, alive)
  <2>1. GeneratorDone(reqGen) /\ answers' = Append(answers, e) /\ g = <<>> /\ reqGen' = Null
    BY <1>6 DEF AnswerEvent, NoneLeft
  <2>2. Len(g) = 0 /\ ~Running'
    BY <2>1 DEF Running, Null
  <2> QED
    BY <1>1, <1>5, <2>1, <2>2
<1>7. CASE NextGenerator(reqGen, generators, alive)
  <2>1. /\ GeneratorDone(reqGen) /\ answers' = answers /\ g # <<>>
        /\ reqGen' = Front(generators, e) /\ generators' = [generators EXCEPT ![e] = Tail(@)]
    BY <1>7 DEF NextGenerator, NoneLeft, WithoutFront
  <2>2. Len(generators'[e]) = Len(g) - 1
    <3>1. generators'[e] = Tail(g)
      BY <1>1, <1>2, <2>1
    <3>2. Len(Tail(g)) = Len(g) - 1
      BY <1>2, <2>1
    <3> QED
      BY <3>1, <3>2
  <2>3. reqGen'.key = e /\ Running'
    <3>1. reqGen'.key = e
      BY <2>1 DEF Front
    <3> QED
      BY <1>3, <3>1 DEF Running, Null
  <2>4. TimesCompleted(e)' = t + 1 /\ t \in Nat
    BY <1>5, <2>1
  <2> HIDE DEF t, n, g
  <2>5. TimesCompleted(e)' + 1 + Len(generators'[e]) = n
    BY <1>1, <1>2, <2>2, <2>4
  <2> QED
    BY <1>5, <2>1, <2>3, <2>5 DEF n
<1>8. ~ReadStale(reqGen, generators, alive)
  BY DEF ReadStale
<1> QED
  BY <1>4, <1>6, <1>7, <1>8 DEF Tick

(* The lists sent do not change; a longer history of them that is busy was *)
(* busy before.                                                            *)
LEMMA SentMore ==
  ASSUME LinkInOrder, [SrcNext]_srcVars
  PROVE  /\ \A key \in Keys : key \in Keys' /\ sentLists'[key] = sentLists[key]
         /\ BusyLists' => BusyLists
<1>1. CASE UNCHANGED sentLists
  BY <1>1 DEF Keys, BusyLists
<1>2. CASE \E list \in GeneratorLists : SendEvent(list)
  <2>1. PICK list \in GeneratorLists : sentLists' = Append(sentLists, list)
    BY <1>2 DEF SendEvent
  <2>2. sentLists \in Seq(GeneratorLists)
    BY DEF LinkInOrder
  <2>3. \A key \in Keys : key \in Keys' /\ sentLists'[key] = sentLists[key]
    BY <2>1, <2>2 DEF Keys
  <2>4. BusyLists' <=> \A key \in Keys' : Head(sentLists'[key]) > 0
    BY DEF BusyLists
  <2> QED
    BY <2>3, <2>4 DEF BusyLists
<1> QED
  BY <1>1, <1>2 DEF SrcNext, HandleSrcEvent, ClockTick, srcVars

(* The tick that handleSrcEvent makes itself only works.                   *)
LEMMA BusyArrival ==
  ASSUME LinkInOrder, Known, BusyLists, HandleSrcEvent, NEW key, key = Head(srcLink)
  PROVE  /\ key = srcReqEvent + 1 /\ srcReqEvent \in Nat /\ key \in Keys
         /\ srcReqEvent' = key /\ Running' /\ reqGen'.key = key
         /\ generators'[key] = Tail(sentLists[key]) /\ DOMAIN generators' = 1..key
         /\ UNCHANGED <<answers, completed, sentLists, ticked>>
         /\ clocks' = (IF ticked THEN clocks + 1 ELSE clocks)
<1> DEFINE gen == Front(Arrived(key), key)
           lists == WithoutFront(Arrived(key), key)
<1>1. /\ key = srcReqEvent + 1 /\ srcReqEvent \in Nat /\ key \in Keys
      /\ gen = [key |-> key, ticks |-> Head(sentLists[key])]
      /\ lists \in [1..key -> Seq(Nat)] /\ lists[key] = Tail(sentLists[key])
  BY Arrival DEF HandleSrcEvent
<1>2. /\ srcReqEvent' = key /\ UNCHANGED <<sentLists, ticked>>
      /\ \/ LoadInFirstCycle(key)
         \/ LoadAndTick(key)
  BY DEF HandleSrcEvent, Stored
<1>3. gen.key = key /\ HasWork(gen)
  <2>1. Head(sentLists[key]) > 0
    BY <1>1 DEF BusyLists
  <2> QED
    BY <1>1, <2>1 DEF HasWork
<1>4. /\ reqGen'.key = key /\ generators' = lists /\ UNCHANGED <<answers, completed>>
      /\ clocks' = (IF ticked THEN clocks + 1 ELSE clocks)
  <2>1. CASE LoadInFirstCycle(key)
    BY <1>3, <2>1 DEF LoadInFirstCycle
  <2>2. CASE LoadAndTick(key)
    <3>1. Tick(gen, lists, alive \cup {key}) /\ ticked /\ clocks' = clocks + 1
      BY <2>2 DEF LoadAndTick, Reregistered
    <3>2. Work(gen, lists, alive \cup {key})
      BY <1>3, <3>1 DEF Tick, AnswerEvent, NextGenerator, ReadStale, GeneratorDone
    <3>3. reqGen' = [gen EXCEPT !.ticks = @ - 1]
      BY <3>2 DEF Work
    <3>4. reqGen'.key = key
      BY <1>1, <3>3
    <3> QED
      BY <3>1, <3>2, <3>4 DEF Work
  <2> QED
    BY <1>2, <2>1, <2>2
<1>5. Running'
  BY <1>1, <1>4 DEF Running, Null
<1> QED
  BY <1>1, <1>2, <1>4, <1>5

LEMMA WorkStep ==
  ASSUME OrderInv, AliveInv, Known, WorkInv, [SrcNext]_srcVars
  PROVE  WorkInv'
<1>1. \A e : e = srcReqEvent' =>
        (Serving' <=> /\ e \in Keys' /\ reqGen'.key = e
                      /\ TimesCompleted(e)' + 1 + Len(generators'[e]) = Len(sentLists'[e]))
  BY DEF Serving, TimesCompleted
<1> SUFFICES ASSUME BusyLists'
             PROVE  /\ Running' => Serving'
                    /\ \A k \in DOMAIN answers' : \A key :
                         key = answers'[k] => TimesCompleted(key)' = Len(sentLists'[key])
  BY DEF WorkInv, AnsweredAfterWork, TimesCompleted
<1>2. /\ LinkInOrder /\ BusyLists
      /\ \A key \in Keys : key \in Keys' /\ sentLists'[key] = sentLists[key]
  BY SentMore DEF OrderInv
<1>3. \A k \in DOMAIN answers : answers[k] \in Keys /\ answers[k] <= srcReqEvent
  <2>1. srcReqEvent \in Nat /\ srcReqEvent <= Len(sentLists) /\ Len(sentLists) \in Nat
    BY DEF OrderInv, LinkInOrder
  <2> QED
    BY <2>1 DEF Known, KnownUpTo, Keys
<1>4. \A k \in DOMAIN answers : TimesCompleted(answers[k]) = Len(sentLists[answers[k]])
  BY <1>2 DEF WorkInv, AnsweredAfterWork
<1>5. Running => Serving
  BY <1>2 DEF WorkInv
<1>6. CASE \/ UNCHANGED srcVars
           \/ \E list \in GeneratorLists : SendEvent(list)
           \/ ClockTick /\ TickIdle
  <2>1. UNCHANGED <<generators, reqGen, completed, answers, srcReqEvent>>
    BY <1>6 DEF srcVars, SendEvent, ClockTick, TickIdle
  <2>2. \A key : TimesCompleted(key)' = TimesCompleted(key)
    BY <2>1 DEF TimesCompleted
  <2>3. Running' => Serving'
    BY <1>1, <1>2, <1>5, <2>1, <2>2 DEF Running, Serving, Null
  <2> QED
    BY <1>2, <1>3, <1>4, <2>1, <2>2, <2>3
<1>7. CASE HandleSrcEvent
  <2> SUFFICES ASSUME NEW new, new = Head(srcLink)
               PROVE  /\ Running' => Serving'
                      /\ \A k \in DOMAIN answers' : \A key :
                           key = answers'[k] => TimesCompleted(key)' = Len(sentLists'[key])
    OBVIOUS
  <2>1. /\ new = srcReqEvent + 1 /\ srcReqEvent \in Nat /\ new \in Keys
        /\ srcReqEvent' = new /\ reqGen'.key = new
        /\ generators'[new] = Tail(sentLists[new])
        /\ UNCHANGED <<answers, completed, sentLists>>
    BY <1>2, <1>7, BusyArrival
  <2>2. \A key : TimesCompleted(key)' = TimesCompleted(key)
    BY <2>1 DEF TimesCompleted
  <2>3. TimesCompleted(new) = 0
    <3>1. \A k \in DOMAIN completed : completed[k] # new
      <4> TAKE k \in DOMAIN completed
      <4>1. completed[k] \in Nat /\ completed[k] <= srcReqEvent
        BY DEF Known, KnownUpTo
      <4> QED
        BY <2>1, <4>1
    <3> QED
      BY <3>1, NothingCompleted
  <2>4. Len(sentLists[new]) \in Nat /\ Len(Tail(sentLists[new])) = Len(sentLists[new]) - 1
    <3>1. sentLists[new] \in GeneratorLists
      BY <1>2, <2>1 DEF LinkInOrder, Keys
    <3> QED
      BY <3>1, ListTyping
  <2>5. TimesCompleted(new)' + 1 + Len(generators'[new]) = Len(sentLists'[new])
    <3>1. TimesCompleted(new)' = 0
      BY <2>2, <2>3
    <3>2. Len(generators'[new]) = Len(sentLists[new]) - 1
      BY <2>1, <2>4
    <3>3. sentLists' = sentLists
      BY <2>1
    <3> QED
      BY <2>4, <3>1, <3>2, <3>3
  <2>6. Serving'
    BY <1>1, <1>2, <2>1, <2>5
  <2> QED
    BY <1>4, <2>1, <2>2, <2>6
<1>8. CASE ClockTick /\ TickGenerator
  <2> SUFFICES ASSUME NEW e, e = srcReqEvent
               PROVE  /\ Running' => Serving'
                      /\ \A k \in DOMAIN answers' : \A key :
                           key = answers'[k] => TimesCompleted(key)' = Len(sentLists'[key])
    OBVIOUS
  <2>1. /\ Running /\ Tick(reqGen, generators, alive) /\ e \in alive
        /\ UNCHANGED <<srcReqEvent, sentLists>>
    BY <1>2, <1>8 DEF ClockTick, TickGenerator, Running, AliveInv
  <2>2. /\ \A key : key # e => TimesCompleted(key)' = TimesCompleted(key)
        /\ \/ /\ answers' = answers /\ Running' /\ reqGen'.key = e
              /\ TimesCompleted(e)' + 1 + Len(generators'[e]) = Len(sentLists[e])
           \/ /\ answers' = Append(answers, e) /\ ~Running'
              /\ TimesCompleted(e)' = Len(sentLists[e])
    BY <1>2, <1>5, <2>1, ServingTick
  <2>3. \A k \in DOMAIN answers : /\ answers[k] # e
                                  /\ TimesCompleted(answers[k])  = Len(sentLists[answers[k]])
    BY <1>4, <2>1 DEF OrderInv, AnswersInOrder
  <2>4. \A k \in DOMAIN answers : \A key :
          key = answers[k] => TimesCompleted(key)' = Len(sentLists[key])
    BY <2>2, <2>3
  <2>5. CASE /\ answers' = answers /\ reqGen'.key = e
             /\ TimesCompleted(e)' + 1 + Len(generators'[e]) = Len(sentLists[e])
    <3>1. e \in Keys
      BY <1>5, <2>1 DEF Serving
    <3>2. Serving'
      BY <1>1, <1>2, <2>1, <2>5, <3>1
    <3> QED
      BY <2>1, <2>4, <2>5, <3>2
  <2>6. CASE /\ answers' = Append(answers, e) /\ ~Running'
             /\ TimesCompleted(e)' = Len(sentLists[e])
    <3>1. answers \in Seq(Nat) /\ e \in Nat
      BY DEF OrderInv, LinkInOrder
    <3>2. \A k \in DOMAIN answers' :
            answers'[k] = e \/ (k \in DOMAIN answers /\ answers'[k] = answers[k])
      BY <2>6, <3>1, AppendedElements
    <3> QED
      BY <2>1, <2>4, <2>6, <3>2
  <2> QED
    BY <2>2, <2>5, <2>6
<1> QED
  BY <1>6, <1>7, <1>8 DEF SrcNext, ClockTick

(* What is known of every state: the order of the events, which are there, *)
(* what each brought, and how far its generators have come.                *)
PortInv == OrderInv /\ AliveInv /\ Known /\ WorkInv

LEMMA PortInit ==
  ASSUME SrcInit
  PROVE  PortInv
<1>1. LinkInOrder
  BY LinkInit
<1>2. /\ srcReqEvent = 0 /\ answers = <<>> /\ completed = <<>> /\ generators = <<>>
      /\ alive = {} /\ reqGen = Null /\ ~undefined
  BY DEF SrcInit
<1>3. OrderInv /\ AliveInv
  BY <1>1, <1>2 DEF OrderInv, AliveInv, AnswersInOrder
<1>4. Known
  <2>1. generators \in [1..0 -> Seq(Nat)]
    BY <1>2
  <2>2. reqGen \in [key : 0..0, ticks : Nat]
    BY <1>2 DEF Null
  <2> QED
    BY <1>2, <2>1, <2>2 DEF Known, KnownUpTo
<1>5. WorkInv
  BY <1>2 DEF WorkInv, Running, AnsweredAfterWork
<1> QED
  BY <1>3, <1>4, <1>5 DEF PortInv

LEMMA PortStep ==
  ASSUME PortInv, [SrcNext]_srcVars
  PROVE  PortInv'
<1>1. OrderInv' /\ AliveInv'
  BY OrderKept, AliveKept DEF PortInv
<1>2. Known'
  BY KnownStep DEF PortInv, OrderInv
<1>3. WorkInv'
  BY WorkStep DEF PortInv
<1> QED
  BY <1>1, <1>2, <1>3 DEF PortInv

(* As long as no list sent starts with a generator that is finished when   *)
(* it is loaded, an event is answered only when as many of its generators  *)
(* have completed as it brought, whatever has replaced it meanwhile.       *)
THEOREM WorkBeforeAnswer == SrcSpec => []AnsweredAfterWork
<1>1. SrcInit => PortInv
  BY PortInit
<1>2. PortInv /\ [SrcNext]_srcVars => PortInv'
  BY PortStep
<1>3. PortInv => AnsweredAfterWork
  BY DEF PortInv, WorkInv
<1> QED
  BY <1>1, <1>2, <1>3, PTL DEF SrcSpec

-----------------------------------------------------------------------------
(* The clock.  Every registration beyond that of the running generator was *)
(* made for an event that is lost; without a generator, the last event has *)
(* its answer.                                                             *)
Answered(key) == \E k \in DOMAIN answers : answers[k] = key

ClockInv ==
  /\ clocks \in Nat
  /\ ~ticked => clocks = 1
  /\ BusyLists => /\ Running => clocks >= 1
                  /\ Running \/ srcReqEvent = 0 \/ Answered(srcReqEvent)
                  /\ ticked /\ Running => clocks <= Cardinality(Lost) + 1
                  /\ ticked /\ ~Running => clocks <= Cardinality(Lost)

LEMMA LostFinite ==
  ASSUME Known, LinkInOrder
  PROVE  IsFiniteSet(Lost) /\ Cardinality(Lost) \in Nat
<1>1. DOMAIN generators = 1..srcReqEvent /\ srcReqEvent \in Nat
  BY DEF Known, KnownUpTo, LinkInOrder
<1>2. IsFiniteSet(1..srcReqEvent) /\ Lost \in SUBSET (1..srcReqEvent)
  BY <1>1, FS_Interval DEF Lost
<1> HIDE DEF Lost
<1>3. IsFiniteSet(Lost)
  BY <1>2, FS_Subset
<1> QED
  BY <1>3, FS_CardinalityType

(* A new event adds the one before it to those lost if its generators have *)
(* not finished.                                                           *)
LEMMA LostMore ==
  ASSUME PortInv, ClockInv, BusyLists, HandleSrcEvent
  PROVE  Cardinality(Lost') = (IF Running THEN Cardinality(Lost) + 1 ELSE Cardinality(Lost))
<1> SUFFICES ASSUME NEW e, e = srcReqEvent
             PROVE  Cardinality(Lost') = (IF Running THEN Cardinality(Lost) + 1
                                                     ELSE Cardinality(Lost))
  OBVIOUS
<1>1. /\ e \in Nat /\ srcReqEvent' = e + 1
      /\ answers' = answers
      /\ DOMAIN generators' = 1..(e + 1)
      /\ DOMAIN generators = 1..e
  <2>1. LinkInOrder /\ Known /\ DOMAIN generators = 1..e
    BY DEF PortInv, OrderInv, Known, KnownUpTo
  <2> QED
    BY <2>1, BusyArrival
<1>2. Lost' = {key \in 1..e : \A k \in DOMAIN answers : answers[k] # key}
  <2>1. \A key : key \in 1..(e + 1) /\ key # e + 1 <=> key \in 1..e
    BY <1>1
  <2> QED
    BY <1>1, <2>1 DEF Lost
<1>3. Lost = {key \in 1..e : key # e /\ \A k \in DOMAIN answers : answers[k] # key}
  BY <1>1 DEF Lost
<1>4. CASE Running
  <2>1. e \in alive /\ e \in 1..e
    BY <1>4 DEF PortInv, AliveInv, Running, Known, KnownUpTo
  <2>2. \A k \in DOMAIN answers : answers[k] # e
    BY <2>1 DEF PortInv, OrderInv, AnswersInOrder
  <2>3. Lost' = Lost \cup {e} /\ e \notin Lost
    BY <1>2, <1>3, <2>1, <2>2
  <2>4. IsFiniteSet(Lost)
    BY LostFinite DEF PortInv, OrderInv
  <2> HIDE DEF Lost
  <2>5. Cardinality(Lost \cup {e}) = Cardinality(Lost) + 1
    BY <2>3, <2>4, FS_AddElement
  <2> QED
    BY <1>4, <2>3, <2>5
<1>5. CASE ~Running
  <2>1. e = 0 \/ \E k \in DOMAIN answers : answers[k] = e
    BY <1>5 DEF ClockInv, Answered
  <2>2. Lost' = Lost
    BY <1>1, <1>2, <1>3, <2>1
  <2> QED
    BY <1>5, <2>2
<1> QED
  BY <1>4, <1>5

LEMMA ClockStep ==
  ASSUME PortInv, ClockInv, [SrcNext]_srcVars
  PROVE  ClockInv'
<1>1. LinkInOrder /\ Known /\ Known' /\ Cardinality(Lost) \in Nat
  BY PortStep, LostFinite DEF PortInv, OrderInv
<1>2. clocks \in Nat /\ (~ticked => clocks = 1)
  BY DEF ClockInv
<1>3. BusyLists' => BusyLists
  BY <1>1, SentMore
<1>4. clocks' \in Nat /\ (~ticked' => clocks' = 1)
  <2>1. CASE UNCHANGED srcVars \/ \E list \in GeneratorLists : SendEvent(list)
    BY <1>2, <2>1 DEF srcVars, SendEvent
  <2>2. CASE HandleSrcEvent
    BY <1>2, <2>2 DEF HandleSrcEvent, LoadInFirstCycle, LoadAndTick, Reregistered
  <2>3. CASE ClockTick
    BY <1>2, <2>3 DEF ClockTick, TickIdle, TickGenerator
  <2> QED
    BY <2>1, <2>2, <2>3 DEF SrcNext
<1> SUFFICES ASSUME BusyLists'
             PROVE  /\ Running' => clocks' >= 1
                    /\ Running' \/ srcReqEvent' = 0 \/ Answered(srcReqEvent)'
                    /\ ticked' /\ Running' => clocks' <= Cardinality(Lost') + 1
                    /\ ticked' /\ ~Running' => clocks' <= Cardinality(Lost')
  BY <1>4 DEF ClockInv
<1>5. /\ Running => clocks >= 1
      /\ Running \/ srcReqEvent = 0 \/ Answered(srcReqEvent)
      /\ ticked /\ Running => clocks <= Cardinality(Lost) + 1
      /\ ticked /\ ~Running => clocks <= Cardinality(Lost)
  BY <1>3 DEF ClockInv
<1>6. CASE UNCHANGED srcVars \/ \E list \in GeneratorLists : SendEvent(list)
  <2>1. UNCHANGED <<generators, reqGen, answers, srcReqEvent, clocks, ticked>>
    BY <1>6 DEF srcVars, SendEvent
  <2>2. Lost' = Lost /\ (Running' <=> Running) /\ (Answered(srcReqEvent)' <=> Answered(srcReqEvent))
    BY <2>1 DEF Lost, Running, Null, Answered
  <2> HIDE DEF Lost, Running, Answered
  <2> QED
    BY <1>5, <2>1, <2>2
<1>7. CASE HandleSrcEvent
  <2>1. /\ Running' /\ ticked' = ticked
        /\ clocks' = (IF ticked THEN clocks + 1 ELSE clocks)
    BY <1>1, <1>3, <1>7, BusyArrival
  <2>2. Cardinality(Lost') = (IF Running THEN Cardinality(Lost) + 1 ELSE Cardinality(Lost))
    BY <1>3, <1>7, LostMore
  <2> HIDE DEF Lost, Running, Answered
  <2>3. CASE ticked
    <3>1. clocks' = clocks + 1
      BY <2>1, <2>3
    <3>2. CASE Running
      BY <1>1, <1>2, <1>5, <2>1, <2>2, <2>3, <3>1, <3>2
    <3>3. CASE ~Running
      BY <1>1, <1>2, <1>5, <2>1, <2>2, <2>3, <3>1, <3>3
    <3> QED
      BY <3>2, <3>3
  <2>4. CASE ~ticked
    BY <1>2, <2>1, <2>4
  <2> QED
    BY <2>3, <2>4
<1>8. CASE ClockTick /\ TickIdle
  <2>1. /\ UNCHANGED <<generators, reqGen, answers, srcReqEvent>> /\ ~Running
        /\ clocks' = clocks - 1 /\ clocks > 0
    BY <1>8 DEF ClockTick, TickIdle, Running
  <2>2. Lost' = Lost /\ ~Running' /\ (Answered(srcReqEvent)' <=> Answered(srcReqEvent))
    BY <2>1 DEF Lost, Running, Null, Answered
  <2> HIDE DEF Lost, Running, Answered
  <2>3. clocks' <= Cardinality(Lost)
    BY <1>1, <1>2, <1>5, <2>1
  <2> QED
    BY <1>5, <2>1, <2>2, <2>3
<1>9. CASE ClockTick /\ TickGenerator
  <2> SUFFICES ASSUME NEW e, e = srcReqEvent
               PROVE  /\ Running' => clocks' >= 1
                      /\ Running' \/ srcReqEvent' = 0 \/ Answered(srcReqEvent)'
                      /\ ticked' /\ Running' => clocks' <= Cardinality(Lost') + 1
                      /\ ticked' /\ ~Running' => clocks' <= Cardinality(Lost')
    OBVIOUS
  <2>1. /\ Running /\ Tick(reqGen, generators, alive) /\ e \in alive /\ Serving
        /\ srcReqEvent' = e /\ clocks > 0
        /\ clocks' = (IF Stops THEN clocks - 1 ELSE clocks)
    BY <1>3, <1>9 DEF ClockTick, TickGenerator, Running, PortInv, AliveInv, WorkInv
  <2>2. \/ answers' = answers /\ Running'
        \/ answers' = Append(answers, e) /\ ~Running'
    BY <1>1, <2>1, ServingTick
  <2>3. answers \in Seq(Nat) /\ e \in Nat /\ DOMAIN generators = 1..e /\ DOMAIN generators' = 1..e
    BY <1>1, <2>1 DEF LinkInOrder, Known, KnownUpTo
  <2>4. CASE answers' = answers /\ Running'
    <3>1. Lost' = Lost
      BY <2>1, <2>3, <2>4 DEF Lost
    <3>2. clocks' = clocks
      BY <2>1, <2>3, <2>4 DEF Stops
    <3> HIDE DEF Lost, Running, Answered
    <3> QED
      BY <1>1, <1>2, <1>5, <2>1, <2>4, <3>1, <3>2
  <2>5. CASE answers' = Append(answers, e) /\ ~Running'
    <3>1. /\ DOMAIN answers' = 1..(Len(answers) + 1) /\ DOMAIN answers = 1..Len(answers)
          /\ Len(answers) \in Nat /\ Len(answers') = Len(answers) + 1
          /\ answers'[Len(answers) + 1] = e
          /\ \A k \in DOMAIN answers : answers'[k] = answers[k]
      BY <2>3, <2>5
    <3>2. \A k : k \in DOMAIN answers' <=> k \in DOMAIN answers \/ k = Len(answers) + 1
      BY <3>1
    <3>3. Lost' = Lost
      BY <2>1, <2>3, <3>1, <3>2 DEF Lost
    <3>4. Answered(srcReqEvent)'
      BY <2>1, <3>1, <3>2 DEF Answered
    <3>5. clocks' = clocks - 1
      BY <2>1, <3>1 DEF Stops
    <3> HIDE DEF Lost, Running, Answered
    <3>6. clocks <= Cardinality(Lost) + 1
      BY <1>1, <1>2, <1>5, <2>1
    <3>7. clocks' <= Cardinality(Lost')
      BY <1>1, <1>2, <3>3, <3>5, <3>6
    <3> QED
      BY <2>5, <3>4, <3>7
  <2> QED
    BY <2>2, <2>4, <2>5
<1> QED
  BY <1>6, <1>7, <1>8, <1>9 DEF SrcNext, ClockTick

(* As long as no list sent starts with a generator that is finished when   *)
(* it is loaded, a running generator has its clock, and the registrations  *)
(* beyond one number no more than the events that another has replaced.    *)
THEOREM ClockForGenerator == SrcSpec => []ClockRegistered
<1> DEFINE Inv == PortInv /\ ClockInv
<1>1. SrcInit => Inv
  <2> SUFFICES ASSUME SrcInit PROVE ClockInv
    BY PortInit
  <2>1. clocks = 1 /\ ~ticked /\ srcReqEvent = 0 /\ ~Running
    BY DEF SrcInit, Running
  <2> QED
    BY <2>1 DEF ClockInv
<1>2. Inv /\ [SrcNext]_srcVars => Inv'
  BY PortStep, ClockStep
<1>3. Inv => ClockRegistered
  <2> SUFFICES ASSUME Inv, BusyLists
               PROVE  clocks <= 1 + Cardinality(Lost) /\ (Running => clocks >= 1)
    BY DEF ClockRegistered, Running
  <2>1. Cardinality(Lost) \in Nat
    BY LostFinite DEF PortInv, OrderInv
  <2> QED
    BY <2>1 DEF ClockInv
<1> QED
  BY <1>1, <1>2, <1>3, PTL DEF SrcSpec
=============================================================================
