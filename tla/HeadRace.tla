------------------------------ MODULE HeadRace ------------------------------
(***************************************************************************)
(* One call of Router.raceHead: rounds of HEAD probes (raceHeadOnce), one  *)
(* goroutine per candidate, a buffered channel of results per round, a     *)
(* timer that is reset to the grace period by the first success, and the   *)
(* retries.  The probes of a round outlive it: returning cancels their     *)
(* context, and they still send on that round's channel.                   *)
(***************************************************************************)
EXTENDS Priority

CONSTANT Calls   \* the routes and settings that raceHead may be called with

\* The priorities of cr.upstreams, and r.headRetries, which Load makes non-negative.
CallType == [rank : Seq(Int) \ {<<>>}, retries : Nat]

ASSUME HeadRaceAssumption == Calls \subseteq CallType

Candidates == UNION {DOMAIN c.rank : c \in Calls}
Attempts == UNION {0..c.retries : c \in Calls}

VARIABLES call,       \* what this call is about
          pc,         \* between rounds, in one, or returned
          attempt,    \* the loop variable of raceHead
          gone,       \* the client's request context is cancelled
          probe,      \* probe[a][c]: the goroutine of round a for candidate c,
                      \* and what it sent
          chan,       \* chan[a]: the candidates whose results are in the channel
          pending,    \* results still awaited
          firstDone,  \* a success was received
          healthy,    \* the successes received, as they came
          deadline,   \* which duration the timer was last set to
          fired,      \* the duration that the value in timer.C is the end of
          result      \* what raceHead returned

vars == <<call, pc, attempt, gone, probe, chan, pending, firstDone, healthy,
          deadline, fired, result>>

Idle == "idle"
Flying == "flying"
Answers == {"ok", "definitive", "error"}   \* 2xx or 3xx, 4xx or 5xx, err

Count == Len(call.rank)

Init ==
  /\ call \in Calls
  /\ pc = "between"
  /\ attempt = 0
  /\ gone = FALSE
  /\ probe = [a \in Attempts |-> [c \in Candidates |-> Idle]]
  /\ chan = [a \in Attempts |-> <<>>]
  /\ pending = 0
  /\ firstDone = FALSE
  /\ healthy = <<>>
  /\ deadline = "first"
  /\ fired = "none"
  /\ result = <<>>

TypeOK ==
  /\ call \in Calls
  /\ pc \in {"between", "racing", "returned"}
  /\ attempt \in 0..(call.retries + 1)
  /\ gone \in BOOLEAN
  /\ probe \in [Attempts -> [Candidates -> {Idle, Flying} \cup Answers]]
  /\ \A a \in Attempts : Len(chan[a]) <= Count /\ ToSet(chan[a]) \subseteq DOMAIN call.rank
  /\ pending \in 0..Count
  /\ firstDone \in BOOLEAN
  /\ Len(healthy) <= Count /\ ToSet(healthy) \subseteq DOMAIN call.rank
  /\ deadline \in {"first", "grace"}
  /\ fired \in {"none", "first", "grace"}
  /\ Len(result) <= Count /\ ToSet(result) \subseteq DOMAIN call.rank

-----------------------------------------------------------------------------
\* The context of round a's probes is cancelled.
Cancelled(a) == gone \/ a # attempt \/ pc # "racing"

StartRound ==
  /\ pc = "between"
  /\ attempt <= call.retries
  /\ pc' = "racing"
  /\ probe' = [probe EXCEPT ![attempt] =
                  [c \in Candidates |-> IF c <= Count THEN Flying ELSE Idle]]
  /\ pending' = Count
  /\ firstDone' = FALSE
  /\ healthy' = <<>>
  /\ deadline' = "first"
  /\ fired' = "none"
  /\ UNCHANGED <<call, attempt, gone, chan, result>>

\* All rounds came to nothing.
GiveUp ==
  /\ pc = "between"
  /\ attempt > call.retries
  /\ pc' = "returned"
  /\ UNCHANGED <<call, attempt, gone, probe, chan, pending, firstDone, healthy,
                 deadline, fired, result>>

\* The client disconnects.
Disconnect ==
  /\ ~gone
  /\ pc # "returned"
  /\ gone' = TRUE
  /\ UNCHANGED <<call, pc, attempt, probe, chan, pending, firstDone, healthy,
                 deadline, fired, result>>

\* Fault: the channel has room for one result.
ChannelRoomForOne == 1

ChannelRoom == Len(call.rank)

\* Fault: a goroutine sends again after its result was sent.
ReplyTwice(a, c, answer) ==
  /\ probe[a][c] # Idle
  /\ Len(chan[a]) < ChannelRoom
  /\ probe' = [probe EXCEPT ![a][c] = answer]
  /\ chan' = [chan EXCEPT ![a] = Append(@, c)]
  /\ UNCHANGED <<call, pc, attempt, gone, pending, firstDone, healthy,
                 deadline, fired, result>>

\* The HEAD of a probe ends, and its goroutine sends the result and exits.
Reply(a, c, answer) ==
  /\ probe[a][c] = Flying
  /\ Len(chan[a]) < ChannelRoom
  /\ probe' = [probe EXCEPT ![a][c] = answer]
  /\ chan' = [chan EXCEPT ![a] = Append(@, c)]
  /\ UNCHANGED <<call, pc, attempt, gone, pending, firstDone, healthy,
                 deadline, fired, result>>

IsHealthy(c) == probe[attempt][c] = "ok"

\* Fault: the timer is set to the grace period with its channel as it is.
ReceiveWithoutDraining ==
  /\ pc = "racing"
  /\ pending > 0
  /\ chan[attempt] # <<>>
  /\ LET c == Head(chan[attempt])
         first == IsHealthy(c) /\ ~firstDone
     IN /\ healthy' = IF IsHealthy(c) THEN Append(healthy, c) ELSE healthy
        /\ firstDone' = (firstDone \/ IsHealthy(c))
        /\ deadline' = IF first THEN "grace" ELSE deadline
  /\ chan' = [chan EXCEPT ![attempt] = Tail(@)]
  /\ pending' = pending - 1
  /\ UNCHANGED <<call, pc, attempt, gone, probe, fired, result>>

\* select takes a result.  The first success sets the timer anew and takes what
\* it sent before out of its channel (resetTimer).
Receive ==
  /\ pc = "racing"
  /\ pending > 0
  /\ chan[attempt] # <<>>
  /\ LET c == Head(chan[attempt])
         first == IsHealthy(c) /\ ~firstDone
     IN /\ healthy' = IF IsHealthy(c) THEN Append(healthy, c) ELSE healthy
        /\ firstDone' = (firstDone \/ IsHealthy(c))
        /\ deadline' = IF first THEN "grace" ELSE deadline
        /\ fired' = IF first THEN "none" ELSE fired
  /\ chan' = [chan EXCEPT ![attempt] = Tail(@)]
  /\ pending' = pending - 1
  /\ UNCHANGED <<call, pc, attempt, gone, probe, result>>

\* Fault: the first success stops the timer and does not start it again.
FireBeforeSuccess ==
  /\ pc = "racing"
  /\ fired = "none"
  /\ ~firstDone
  /\ fired' = deadline
  /\ UNCHANGED <<call, pc, attempt, gone, probe, chan, pending, firstDone, healthy,
                 deadline, result>>

\* The duration that the timer was set to is over.
Fire ==
  /\ pc = "racing"
  /\ fired = "none"
  /\ fired' = deadline
  /\ UNCHANGED <<call, pc, attempt, gone, probe, chan, pending, firstDone, healthy,
                 deadline, result>>

\* raceHeadOnce returned these; raceHead returns or goes round again.
Return(found) ==
  /\ healthy' = found
  /\ IF found # <<>>
     THEN /\ pc' = "returned"
          /\ result' = ByPriority(found, call.rank)
          /\ UNCHANGED attempt
     ELSE /\ pc' = "between"
          /\ attempt' = attempt + 1
          /\ UNCHANGED result

\* Every result came.
Complete ==
  /\ pc = "racing"
  /\ pending = 0
  /\ Return(healthy)
  /\ UNCHANGED <<call, gone, probe, chan, pending, firstDone, deadline, fired>>

\* Fault: what is in the channel at the deadline is not looked at.
TimeoutWithoutCollecting ==
  /\ pc = "racing"
  /\ pending > 0
  /\ fired # "none"
  /\ Return(healthy)
  /\ UNCHANGED <<call, gone, probe, chan, pending, firstDone, deadline, fired>>

\* select takes the timer; collectHealthy empties the channel.
Timeout ==
  /\ pc = "racing"
  /\ pending > 0
  /\ fired # "none"
  /\ Return(healthy \o Filter(chan[attempt], {c \in Candidates : IsHealthy(c)}))
  /\ chan' = [chan EXCEPT ![attempt] = <<>>]
  /\ UNCHANGED <<call, gone, probe, pending, firstDone, deadline, fired>>

Next ==
  \/ StartRound \/ GiveUp \/ Disconnect
  \/ \E a \in Attempts, c \in Candidates, answer \in Answers : Reply(a, c, answer)
  \/ Receive \/ Fire \/ Complete \/ Timeout

Spec == Init /\ [][Next]_vars

\* The goroutine of raceHead runs and its timer fires.  A probe need not end
\* while its round lasts (headClient has no timeout), but a cancelled one does.
Fairness ==
  /\ WF_vars(StartRound \/ GiveUp \/ Receive \/ Complete \/ Timeout)
  /\ WF_vars(Fire)
  /\ \A a \in Attempts, c \in Candidates :
       WF_vars(Cancelled(a) /\ \E answer \in Answers : Reply(a, c, answer))

FairSpec == Spec /\ Fairness

-----------------------------------------------------------------------------
(* raceHead returns healthy candidates of its last round, each once, "the  *)
(* ones that reported the resource available, ordered by priority", those  *)
(* of one priority in the order in which their answers were received; and  *)
(* it meets the contract that serve relies on.                             *)
ReturnsHealthy ==
  /\ \A c \in ToSet(result) : probe[attempt][c] = "ok"
  /\ IsInjective(result)
  /\ \A i, j \in DOMAIN result : i < j =>
       \/ call.rank[result[i]] < call.rank[result[j]]
       \/ /\ call.rank[result[i]] = call.rank[result[j]]
          /\ \E k, l \in DOMAIN healthy :
               k < l /\ healthy[k] = result[i] /\ healthy[l] = result[j]
  /\ result \in RaceOutcomes(DOMAIN call.rank, call.rank)

(* "Already-arrived healthy results at the deadline are included"          *)
(* (raceHeadOnce): a round that ends has all the successes sent to it.     *)
NothingDropped ==
  [][pc = "racing" /\ pc' # "racing"
       => ToSet(healthy') = {c \in Candidates : IsHealthy(c)}]_vars

(* "wait up to headFirst for the first success, then up to headGrace       *)
(* longer for the rest": a round is cut short only when the duration is    *)
(* over that it was then waiting out.  The first deadline, when it fires   *)
(* just before the first success is received, does not end the round in    *)
(* place of the grace period.                                              *)
GraceGranted ==
  [][pc = "racing" /\ pc' # "racing" /\ pending > 0
       => fired = IF firstDone THEN "grace" ELSE "first"]_vars

(* raceHead returns, whatever the upstreams and the client do.             *)
Terminates == <>(pc = "returned")

(* No goroutine leaks: every probe that starts, ends, also those whose     *)
(* round returned without them.                                            *)
ProbesEnd ==
  \A a \in Attempts, c \in Candidates : probe[a][c] = Flying ~> probe[a][c] # Flying

(* "re-run the whole race if every probe times out" (router.go 23,         *)
(* config.go 46): a round that every candidate answered definitively is    *)
(* not repeated.                                                           *)
RetriesOnlyTimeouts ==
  [][attempt' # attempt /\ attempt' <= call.retries
       => \E c \in DOMAIN call.rank : probe[attempt][c] # "definitive"]_vars
=============================================================================
