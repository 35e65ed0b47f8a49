-------------------------------- MODULE SrcPort --------------------------------
(***************************************************************************)
(* The CPU without a generator of its own (src/mirandaCPU.cc): it gets     *)
(* lists of generators as events on its src port (src/mirandaEvent.h),     *)
(* runs them one after the other, answers the event when the last is done, *)
(* and stops its clock while it has nothing to do.                         *)
(*                                                                         *)
(* Of a generator only this matters here: after how many ticks is it       *)
(* finished with nothing left in the window or in memory.  Reading the     *)
(* members of an event that was never stored or is deleted is undefined.   *)
(***************************************************************************)
EXTENDS Integers, Sequences, FiniteSets

CONSTANTS
  GeneratorLists,  (* the lists a client can send: ticks, by generator     *)
  MaxEvents,       (* BOUND: events sent                                   *)
  MaxUnanswered    (* how many events a client has sent and not got back   *)

ASSUME SrcAssumption ==
  /\ GeneratorLists \subseteq Seq(Nat) \ {<<>>}
  /\ MaxEvents \in Nat
  /\ MaxUnanswered \in Nat \ {0}

VARIABLES
  sentLists,     (* the client: the lists it has sent, by key              *)
  srcLink,       (* events on their way to the CPU, by key                 *)
  answers,       (* keys of the MirandaRspEvents sent                      *)
  generators,    (* by event: the generators it still holds                *)
  alive,         (* events received and not deleted                        *)
  srcReqEvent,   (* the event being served; 0 before the first             *)
  reqGen,        (* the generator running, or NULL                         *)
  clocks,        (* how often the clock handler is registered              *)
  ticked,        (* has the first clock cycle passed?                      *)
  undefined,     (* has a stale srcReqEvent been read?                     *)
  completed      (* history: generators completed, in order                *)

srcVars == <<sentLists, srcLink, answers, generators, alive, srcReqEvent,
             reqGen, clocks, ticked, undefined, completed>>

Keys == 1..Len(sentLists)
Null == [key |-> 0, ticks |-> 0]

-----------------------------------------------------------------------------
(* The client.                                                             *)
SendEvent(list) ==
  /\ Len(sentLists) < MaxEvents
  /\ Len(sentLists) - Len(answers) < MaxUnanswered
  /\ sentLists' = Append(sentLists, list)
  /\ srcLink' = Append(srcLink, Len(sentLists) + 1)
  /\ UNCHANGED <<answers, generators, alive, srcReqEvent, reqGen, clocks,
                 ticked, undefined, completed>>

-----------------------------------------------------------------------------
(* clockTick with generator gen, events lists and live; it returns true in *)
(* one case, which unregisters the clock when the clock made the call.     *)

(* What a tick generates and issues (RequestGenCPU) is abstracted to the   *)
(* number of ticks a generator takes until it is finished and everything   *)
(* is answered.                                                            *)
HasWork(gen) == gen.ticks > 0

Work(gen, lists, live) ==
  /\ HasWork(gen)
  /\ reqGen' = [gen EXCEPT !.ticks = @ - 1]
  /\ generators' = lists
  /\ alive' = live
  /\ UNCHANGED <<answers, undefined, completed>>

GeneratorDone(gen) ==
  /\ ~HasWork(gen)
  /\ completed' = Append(completed, gen.key)

(* Everything is done: the answer, and true.                               *)
FirstOnly(lists) == TRUE   \* mutant: the other generators are forgotten
NoneLeft(lists) == lists[srcReqEvent] = <<>>

NotDeleted(live) == live   \* mutant: the event is leaked
Deleted(live) == live \ {srcReqEvent}

AnswerEvent(gen, lists, live) ==
  /\ GeneratorDone(gen)
  /\ srcReqEvent \in live
  /\ NoneLeft(lists)
  /\ answers' = Append(answers, srcReqEvent)
  /\ alive' = Deleted(live)
  /\ generators' = lists
  /\ reqGen' = Null
  /\ UNCHANGED undefined

(* loadGenerator(event): the front of its list becomes the generator.      *)
Front(lists, key) == [key |-> key, ticks |-> Head(lists[key])]
WithoutFront(lists, key) == [lists EXCEPT ![key] = Tail(@)]

NextGenerator(gen, lists, live) ==
  /\ GeneratorDone(gen)
  /\ srcReqEvent \in live
  /\ ~NoneLeft(lists)
  /\ reqGen' = Front(lists, srcReqEvent)
  /\ generators' = WithoutFront(lists, srcReqEvent)
  /\ alive' = live
  /\ UNCHANGED <<answers, undefined>>

ReadStale(gen, lists, live) ==
  /\ GeneratorDone(gen)
  /\ srcReqEvent \notin live
  /\ undefined' = TRUE
  /\ reqGen' = Null
  /\ generators' = lists
  /\ alive' = live
  /\ UNCHANGED answers

Tick(gen, lists, live) ==
  \/ Work(gen, lists, live)
  \/ AnswerEvent(gen, lists, live)
  \/ NextGenerator(gen, lists, live)
  \/ ReadStale(gen, lists, live)

(* The clock calls it: true stops the clock.                               *)
TickIdle ==
  /\ reqGen = Null
  /\ clocks' = clocks - 1
  /\ UNCHANGED <<answers, generators, alive, reqGen, undefined, completed>>

NeverStops == FALSE   \* mutant: the tick that answers returns false
Stops == Len(answers') > Len(answers)

TickGenerator ==
  /\ reqGen # Null
  /\ Tick(reqGen, generators, alive)
  /\ clocks' = IF Stops THEN clocks - 1 ELSE clocks

ClockTick ==
  /\ clocks > 0
  /\ ~undefined
  /\ TickIdle \/ TickGenerator
  /\ ticked' = TRUE
  /\ UNCHANGED <<sentLists, srcLink, srcReqEvent>>

-----------------------------------------------------------------------------
(* handleSrcEvent.  In the first cycle the clock is still registered since *)
(* the constructor.  Later it is registered again and a tick is made at    *)
(* once, before the event is stored; what that tick returns is ignored.    *)

Earlier(key) == srcReqEvent   \* mutant: the event is not stored
Stored(key) == key

AsBefore == clocks   \* mutant: the clock is not registered again
Reregistered == clocks + 1

Arrived(key) == [k \in 1..key |-> IF k = key THEN sentLists[k] ELSE generators[k]]

LoadInFirstCycle(key) ==
  /\ ~ticked
  /\ reqGen' = Front(Arrived(key), key)
  /\ generators' = WithoutFront(Arrived(key), key)
  /\ alive' = alive \cup {key}
  /\ UNCHANGED <<answers, clocks, undefined, completed>>

LoadAndTick(key) ==
  /\ ticked
  /\ Tick(Front(Arrived(key), key), WithoutFront(Arrived(key), key), alive \cup {key})
  /\ clocks' = Reregistered

HandleSrcEvent ==
  /\ srcLink # <<>>
  /\ ~undefined
  /\ LoadInFirstCycle(Head(srcLink)) \/ LoadAndTick(Head(srcLink))
  /\ srcLink' = Tail(srcLink)
  /\ srcReqEvent' = Stored(Head(srcLink))
  /\ UNCHANGED <<sentLists, ticked>>

-----------------------------------------------------------------------------
SrcInit ==
  /\ sentLists = <<>>
  /\ srcLink = <<>>
  /\ answers = <<>>
  /\ generators = <<>>
  /\ alive = {}
  /\ srcReqEvent = 0
  /\ reqGen = Null
  /\ clocks = 1
  /\ ticked = FALSE
  /\ undefined = FALSE
  /\ completed = <<>>

SrcNext ==
  \/ \E list \in GeneratorLists : SendEvent(list)
  \/ HandleSrcEvent
  \/ ClockTick

SrcSpec == SrcInit /\ [][SrcNext]_srcVars

(* The link delivers, the registered clock ticks.                          *)
FairSrcSpec == SrcSpec /\ WF_srcVars(HandleSrcEvent) /\ WF_srcVars(ClockTick)

-----------------------------------------------------------------------------
(* Properties.                                                             *)

(* The first generator of every list has work when it is loaded, as every  *)
(* generator of this repository but the base class has.                    *)
BusyLists == \A key \in Keys : Head(sentLists[key]) > 0

(* The tick never reads an event that is not there: the CPU stores it too  *)
(* late for the tick it makes itself, which is harmless as long as the     *)
(* first generator of a list is not finished when it is loaded.            *)
EventAliveWhenRead == BusyLists => ~undefined

(* A running generator always has a clock handler registered; a second     *)
(* registration, and with it a second tick in each cycle, is left behind   *)
(* only by an event that another has replaced.                             *)
Lost == {key \in DOMAIN generators :
           key # srcReqEvent /\ \A k \in DOMAIN answers : answers[k] # key}
ClockRegistered ==
  BusyLists => /\ clocks <= 1 + Cardinality(Lost)
               /\ reqGen # Null => clocks >= 1

(* No event is answered twice nor after a later one, and an answered event *)
(* is deleted: whatever its generators, a client that has lost an event    *)
(* can tell which from the next answer.                                    *)
AnswersInOrder ==
  /\ \A j, k \in DOMAIN answers : j < k => answers[j] < answers[k]
  /\ \A k \in DOMAIN answers : answers[k] \notin alive

(* No event is answered before every generator it brought has completed,   *)
(* even when a second event has taken the place of the first.              *)
TimesCompleted(key) == Cardinality({k \in DOMAIN completed : completed[k] = key})
AnsweredAfterWork ==
  BusyLists =>
    \A k \in DOMAIN answers : TimesCompleted(answers[k]) = Len(sentLists[answers[k]])

(* Every event is answered unless its client sends another before it has   *)
(* the answer: the clock is not stopped between the events for good, and   *)
(* an event that is lost is lost only to a later one.                      *)
EveryEventAnswered ==
  \A key \in 1..MaxEvents :
    key \in Keys ~> \/ \E k \in DOMAIN answers : answers[k] = key
                   \/ key + 1 \in Keys
                   \/ ~BusyLists
=============================================================================
