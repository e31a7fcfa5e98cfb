-------------------------- MODULE RelayAgent_proofs --------------------------
(***************************************************************************)
(* Proofs about the relay agent.  Its main loop (AgentLoop), for any       *)
(* number of jobs, crashes, clears and any waits: its types, that the two  *)
(* kinds of calls of the terminal stay Settle apart, and that a driver     *)
(* listed as enrolled was written.  Its stamp path (StampOutbox), for any  *)
(* persons, events and sizes of page, batch and queue: that every event is *)
(* read, kept and queued once, and what leaves the queue was ingested.     *)
(***************************************************************************)
EXTENDS AgentLoop, StampOutbox, WellFoundedInduction, FiniteSetTheorems, SequenceTheorems, TLAPS

-----------------------------------------------------------------------------
(* The main loop: AgentLoop                                                *)


(* The constants, one by one.                                              *)
LEMMA Constants ==
    /\ Settle \in Nat /\ MaxAge \in Nat /\ ClearEvery \in Nat
    /\ MaxEvents \in Nat
    /\ EnrolEvery \in Nat /\ EnrolMost \in Nat /\ EnrolMost >= EnrolEvery /\ EnrolEvery > 0
    /\ StampEvery \in Nat /\ StampEvery > 0 /\ Cooldown \in Nat /\ Cooldown > 0
    /\ MaxRetries \in Nat /\ MaxRetries > 0
    /\ PauseBase \in Nat /\ PauseMost \in Nat /\ PauseMost >= PauseBase /\ PauseBase > 0
    /\ LongSleep \in Nat /\ LongSleep > 0
BY LoopAssumption

-----------------------------------------------------------------------------
(* Ages and waits *)

(* An age that grows stays below its cap.                                  *)
LEMMA OlderTyped ==
    ASSUME NEW most \in Nat, NEW age \in 0..most
    PROVE  Older(age, most) \in 0..most
BY DEF Older, Least

(* Of two ages with one cap the larger stays the larger.                   *)
LEMMA OlderMonotone ==
    ASSUME NEW most \in Nat, NEW a \in 0..most, NEW b \in 0..most, a <= b
    PROVE  Older(a, most) <= Older(b, most)
BY DEF Older, Least

(* A wait that passes stays a wait.                                        *)
LEMMA LessTyped ==
    ASSUME NEW most \in Nat, NEW wait \in 0..most
    PROVE  Less(wait) \in 0..most
BY DEF Less

(* A doubled wait stays between its first and its largest value.           *)
LEMMA DoubledTyped ==
    ASSUME NEW first \in Nat, NEW most \in Nat, most >= first, NEW wait \in first..most
    PROVE  Least(2 * wait, most) \in first..most
BY DEF Least

-----------------------------------------------------------------------------
(* Rows: what the server's handlers leave                                   *)

States == {"none", "pending", "failed", "synced", "denied", "removed"}

LEMMA RowsTyped ==
    ASSUME row \in [Jobs -> States], NEW j \in Jobs
    PROVE  /\ Cleared \in [Jobs -> States]
           /\ Acked(j) \in [Jobs -> States]
           /\ Denied(j) \in [Jobs -> States]
BY DEF Cleared, Acked, Denied, States

-----------------------------------------------------------------------------
(* The type invariant in parts: the server's rows, the place of the loop,  *)
(* its counts and its timers.                                              *)
Rows == /\ row \in [Jobs -> States]
        /\ rowAge \in [Jobs -> 0..MaxAge + 1]
        /\ written \subseteq Jobs
        /\ events \in 0..MaxEvents

Place == /\ pc \in Places /\ cur \in Jobs \cup {NoJob} /\ mayTouch \in BOOLEAN
         /\ pc \in {"write", "ack", "nack"} => cur \in Jobs

Counts == /\ cool \in [Jobs -> 0..Cooldown] /\ fails \in [Jobs -> 0..MaxRetries - 1]
          /\ clearAge \in 0..ClearEvery

Timers == /\ coolingDown \in BOOLEAN
          /\ enrolEvery \in EnrolEvery..EnrolMost /\ enrolAge \in 0..EnrolMost
          /\ stampAge \in 0..StampEvery
          /\ sinceEnrol \in 0..Settle /\ sinceStamp \in 0..Settle
          /\ backoff \in PauseBase..PauseMost /\ pause \in 0..PauseMost
          /\ sleep \in 0..LongSleep
          /\ calledFor \in {"none", "enrol", "stamp"} /\ sinceCall \in 0..Settle
          /\ restarted \in BOOLEAN

Typed == Rows /\ Place /\ Counts /\ Timers

LEMMA TypedIsTypeOK == Typed <=> TypeOK
BY DEF Typed, Rows, Place, Counts, Timers, TypeOK, States

(* What a start, a success and a retry do to the counts of the jobs.       *)
LEMMA CountsTyped ==
    ASSUME Counts
    PROVE  /\ [j \in Jobs |-> 0] \in [Jobs -> 0..Cooldown]
           /\ [j \in Jobs |-> 0] \in [Jobs -> 0..MaxRetries - 1]
           /\ \A j : [cool EXCEPT ![j] = 0] \in [Jobs -> 0..Cooldown]
           /\ \A j : [cool EXCEPT ![j] = Cooldown] \in [Jobs -> 0..Cooldown]
           /\ \A j : [fails EXCEPT ![j] = 0] \in [Jobs -> 0..MaxRetries - 1]
           /\ \A j \in Jobs : fails[j] + 1 < MaxRetries =>
                 [fails EXCEPT ![j] = @ + 1] \in [Jobs -> 0..MaxRetries - 1]
           /\ 0 \in 0..ClearEvery /\ ClearEvery \in 0..ClearEvery
<1>1. /\ 0 \in 0..Cooldown /\ Cooldown \in 0..Cooldown /\ 0 \in 0..MaxRetries - 1
      /\ 0 \in 0..ClearEvery /\ ClearEvery \in 0..ClearEvery
      BY Constants
<1>2. ASSUME NEW j \in Jobs, fails[j] + 1 < MaxRetries
      PROVE  [fails EXCEPT ![j] = @ + 1] \in [Jobs -> 0..MaxRetries - 1]
      <2>1. fails[j] + 1 \in 0..MaxRetries - 1 BY <1>2, Constants DEF Counts
      <2> QED BY <2>1 DEF Counts
<1> QED BY <1>1, <1>2 DEF Counts

(* A process that starts is typed.                                         *)
LEMMA InitTyped == Init => Typed
<1> SUFFICES ASSUME Init PROVE Typed
    OBVIOUS
<1>1. Rows BY Constants DEF Init, Rows, States
<1>2. Place BY DEF Init, Fresh, Place, Places
<1>3. Counts BY Constants DEF Init, Fresh, Counts
<1>4. Timers
      <2>1. coolingDown \in BOOLEAN BY DEF Init, Fresh
      <2>2. enrolEvery \in EnrolEvery..EnrolMost /\ enrolAge \in 0..EnrolMost
            BY Constants DEF Init, Fresh
      <2>3. /\ stampAge \in 0..StampEvery /\ sinceEnrol \in 0..Settle /\ sinceStamp \in 0..Settle
            /\ sinceCall \in 0..Settle
            BY Constants DEF Init, Fresh
      <2>4. backoff \in PauseBase..PauseMost /\ pause \in 0..PauseMost /\ sleep \in 0..LongSleep
            BY Constants DEF Init, Fresh
      <2>5. calledFor \in {"none", "enrol", "stamp"} /\ restarted \in BOOLEAN BY DEF Init
      <2> QED BY <2>1, <2>2, <2>3, <2>4, <2>5 DEF Timers
<1> QED BY <1>1, <1>2, <1>3, <1>4 DEF Typed

LEMMA RowsStep == Typed /\ [Next]_vars => Rows'
<1> SUFFICES ASSUME Typed, [Next]_vars PROVE Rows'
    OBVIOUS
<1> USE Constants DEF Typed
<1>1. ASSUME NEW j \in Jobs, AddJob(j) PROVE Rows'
      BY <1>1 DEF AddJob, Rows, States
<1>2. ASSUME NEW j \in Jobs, Requeue(j) PROVE Rows'
      BY <1>2 DEF Requeue, Rows, States
<1>3. CASE ClearElsewhere
      <2>1. row' \in [Jobs -> States] BY <1>3 DEF ClearElsewhere, Cleared, Rows, States
      <2> QED BY <1>3, <2>1 DEF ClearElsewhere, Rows
<1>4. CASE Round
      <2>1. CASE LookAtQueue \/ ListFails \/ NothingToDo \/ TooSoonToClear \/ AskToClear
            BY <2>1 DEF LookAtQueue, ListFails, NothingToDo, TooSoonToClear, AskToClear, server, Rows
      <2>2. CASE ClearFails \/ TakeJob \/ NackFails \/ SkipPoll \/ StartPoll \/ PollDone
                 \/ PollFails \/ Wake \/ Restart
            BY <2>2 DEF ClearFails, TakeJob, NackFails, SkipPoll, StartPoll, PollDone, PollFails,
                        Rest, Wake, Restart, server, Rows
      <2>3. CASE Clear \/ Start
            <3>1. row' \in [Jobs -> States] BY <2>3 DEF Clear, Start, Cleared, Rows, States
            <3> QED BY <2>3, <3>1 DEF Clear, Start, history, Rows
      <2>4. CASE WriteFace
            BY <2>4 DEF WriteFace, server, Rows, Place
      <2>5. CASE WriteFails
            BY <2>5 DEF WriteFails, server, Rows, Place
      <2>6. CASE Ack \/ AckFails \/ Nack
            <3>1. cur \in Jobs BY <2>6 DEF Ack, AckFails, Nack, Place
            <3>2. row' \in [Jobs -> States]
                  BY <2>6, <3>1, RowsTyped DEF Ack, AckFails, Nack, Rows
            <3> QED BY <2>6, <3>2 DEF Ack, AckFails, Nack, Rows
      <2> QED BY <1>4, <2>1, <2>2, <2>3, <2>4, <2>5, <2>6 DEF Round
<1>5. CASE Tick
      <2>1. rowAge' \in [Jobs -> 0..MaxAge + 1]
            BY <1>5, OlderTyped DEF Tick, Rows
      <2> QED BY <1>5, <2>1 DEF Tick, Rows
<1>6. CASE Crash
      <2>1. written' \subseteq Jobs BY <1>6 DEF Crash, CutShort, Rows, Place
      <2> QED BY <1>6, <2>1 DEF Crash, server, Rows
<1>7. CASE UNCHANGED vars
      BY <1>7 DEF vars, server, Rows
<1> QED BY <1>1, <1>2, <1>3, <1>4, <1>5, <1>6, <1>7 DEF Next

LEMMA PlaceStep == Typed /\ [Next]_vars => Place'
<1> SUFFICES ASSUME Typed, [Next]_vars PROVE Place'
    OBVIOUS
<1> USE DEF Typed, Place, Places, Go
<1>1. ASSUME NEW j \in Jobs, AddJob(j) \/ Requeue(j) PROVE Place'
      BY <1>1 DEF AddJob, Requeue
<1>2. CASE ClearElsewhere \/ Tick \/ Crash \/ UNCHANGED vars
      BY <1>2 DEF ClearElsewhere, Tick, Crash, vars
<1>3. CASE Round
      <2>1. CASE LookAtQueue
            <3>1. CASE enrolAge >= enrolEvery
                  <4>1. mayTouch' = (sinceStamp >= Settle) BY <2>1, <3>1, Zenon DEF LookAtQueue
                  <4>2. pc' = "list" /\ cur' = cur BY <2>1, <3>1 DEF LookAtQueue
                  <4>3. CASE sinceStamp >= Settle
                        <5>1. mayTouch' = TRUE BY <4>1, <4>3, Zenon
                        <5> QED BY <4>2, <5>1
                  <4>4. CASE ~(sinceStamp >= Settle)
                        <5>1. (sinceStamp >= Settle) = FALSE BY <4>4
                        <5>2. mayTouch' = FALSE BY <4>1, <5>1, Zenon
                        <5> QED BY <4>2, <5>2
                  <4> QED BY <4>3, <4>4
            <3>2. CASE ~(enrolAge >= enrolEvery)
                  BY <2>1, <3>2 DEF LookAtQueue
            <3> QED BY <3>1, <3>2
      <2>7. CASE ListFails \/ AskToClear
            BY <2>7 DEF ListFails, AskToClear
      <2>6. CASE TakeJob
            <3>1. cur' \in Jobs BY <2>6 DEF TakeJob, Ready, Pending
            <3> QED BY <2>6, <3>1 DEF TakeJob
      <2>2. CASE NothingToDo \/ TooSoonToClear \/ Clear \/ ClearFails \/ Ack \/ Nack \/ NackFails
            BY <2>2 DEF NothingToDo, TooSoonToClear, Clear, ClearFails, Ack, Nack, NackFails, Result
      <2>3. CASE WriteFace
            BY <2>3 DEF WriteFace
      <2>4. CASE WriteFails \/ AckFails
            BY <2>4 DEF WriteFails, AckFails, Failure, TryLater, GiveUp, Deny, Result
      <2>5. CASE SkipPoll \/ StartPoll \/ PollDone \/ PollFails \/ Wake \/ Restart \/ Start
            BY <2>5 DEF SkipPoll, StartPoll, PollDone, PollFails, Wake, Restart, Start, Rest
      <2> QED BY <1>3, <2>1, <2>2, <2>3, <2>4, <2>5, <2>6, <2>7 DEF Round
<1> QED BY <1>1, <1>2, <1>3 DEF Next

LEMMA CountsStep == Typed /\ [Next]_vars => Counts'
<1> SUFFICES ASSUME Typed, [Next]_vars PROVE Counts'
    OBVIOUS
<1> USE DEF Typed, Counts, queue
<1>1. ASSUME NEW j \in Jobs, AddJob(j) \/ Requeue(j) PROVE Counts'
      BY <1>1 DEF AddJob, Requeue
<1>2. CASE ClearElsewhere \/ UNCHANGED vars
      BY <1>2 DEF ClearElsewhere, vars
<1>3. CASE Round
      <2>1. CASE LookAtQueue \/ ListFails \/ NothingToDo \/ TooSoonToClear \/ ClearFails \/ TakeJob
                 \/ WriteFace \/ Nack \/ NackFails
            BY <2>1 DEF LookAtQueue, ListFails, NothingToDo, TooSoonToClear, ClearFails, TakeJob,
                        WriteFace, Nack, NackFails
      <2>2. CASE SkipPoll \/ StartPoll \/ PollDone \/ PollFails \/ Wake \/ Restart
            BY <2>2 DEF SkipPoll, StartPoll, PollDone, PollFails, Wake, Restart, Rest
      <2>3. CASE AskToClear \/ Clear \/ Start
            BY <2>3, CountsTyped DEF AskToClear, Clear, Start
      <2>4. CASE Ack
            BY <2>4, CountsTyped DEF Ack, Forget
      <2>5. CASE WriteFails \/ AckFails
            <3>1. clearAge' = clearAge BY <2>5 DEF WriteFails, AckFails
            <3>2. CASE TryLater
                  <4>1. cur \in Jobs BY <2>5 DEF WriteFails, AckFails, Place
                  <4>2. fails' \in [Jobs -> 0..MaxRetries - 1]
                        BY <3>2, <4>1, CountsTyped DEF TryLater
                  <4> QED BY <3>1, <3>2, <4>2, CountsTyped DEF TryLater
            <3>3. CASE Deny
                  BY <3>1, <3>3, CountsTyped DEF Deny, Forget
            <3> QED BY <2>5, <3>2, <3>3 DEF WriteFails, AckFails, Failure, GiveUp
      <2> QED BY <1>3, <2>1, <2>2, <2>3, <2>4, <2>5 DEF Round
<1>4. CASE Tick
      <2>1. cool' \in [Jobs -> 0..Cooldown] BY <1>4, LessTyped, Constants DEF Tick
      <2>2. clearAge' \in 0..ClearEvery BY <1>4, OlderTyped, Constants DEF Tick
      <2> QED BY <1>4, <2>1, <2>2 DEF Tick
<1>5. CASE Crash
      BY <1>5, CountsTyped DEF Crash
<1> QED BY <1>1, <1>2, <1>3, <1>4, <1>5 DEF Next

(* What a call of the terminal leaves in the history.                      *)
LEMMA CalledTyped ==
    ASSUME NEW kind \in {"enrol", "stamp"}, Called(kind)
    PROVE  /\ calledFor' \in {"none", "enrol", "stamp"} /\ sinceCall' \in 0..Settle
           /\ restarted' \in BOOLEAN
<1>1. restarted' = FALSE BY DEF Called
<1>2. restarted' \in BOOLEAN BY <1>1, Zenon
<1> QED BY <1>2, Constants DEF Called

LEMMA TimersStep == Typed /\ [Next]_vars => Timers'
<1> SUFFICES ASSUME Typed, [Next]_vars PROVE Timers'
    OBVIOUS
<1> USE Constants DEF Typed, Timers, schedule, history
<1>1. ASSUME NEW j \in Jobs, AddJob(j) \/ Requeue(j) PROVE Timers'
      BY <1>1 DEF AddJob, Requeue
<1>2. CASE ClearElsewhere \/ UNCHANGED vars
      BY <1>2 DEF ClearElsewhere, vars
<1>3. CASE Round
      <2>1. CASE LookAtQueue \/ AskToClear \/ TakeJob \/ StartPoll \/ Wake \/ Restart \/ Start
            BY <2>1 DEF LookAtQueue, AskToClear, TakeJob, StartPoll, Wake, Restart, Start
      <2>2. CASE ListFails
            <3>1. enrolEvery' \in EnrolEvery..EnrolMost BY <2>2, DoubledTyped DEF ListFails
            <3> QED BY <2>2, <3>1 DEF ListFails
      <2>3. ASSUME NEW cooling \in BOOLEAN, NEW touched \in BOOLEAN, Result(cooling, touched),
                   UNCHANGED history \/ Called("enrol")
            PROVE  Timers'
            BY <2>3, CalledTyped DEF Result
      <2>4. CASE NothingToDo \/ TooSoonToClear \/ Clear \/ ClearFails \/ Ack \/ Nack \/ NackFails
            BY <2>3, <2>4 DEF NothingToDo, TooSoonToClear, Clear, ClearFails, Ack, Nack, NackFails
      <2>5. CASE WriteFace
            BY <2>5, CalledTyped DEF WriteFace
      <2>6. CASE WriteFails \/ AckFails
            <3>1. UNCHANGED history \/ Called("enrol") BY <2>6 DEF WriteFails, AckFails
            <3>2. CASE TryLater BY <2>3, <3>1, <3>2 DEF TryLater
            <3>3. CASE Deny BY <3>1, <3>3, CalledTyped DEF Deny
            <3> QED BY <2>6, <3>2, <3>3 DEF WriteFails, AckFails, Failure, GiveUp
      <2>7. CASE SkipPoll \/ PollDone
            BY <2>7, CalledTyped DEF SkipPoll, PollDone, Rest
      <2>8. CASE PollFails
            <3>1. backoff' \in PauseBase..PauseMost BY <2>8, DoubledTyped DEF PollFails
            <3> QED BY <2>8, <3>1, CalledTyped DEF PollFails, Rest
      <2> QED BY <1>3, <2>1, <2>2, <2>4, <2>5, <2>6, <2>7, <2>8 DEF Round
<1>4. CASE Tick
      <2>1. /\ enrolAge' \in 0..EnrolMost /\ stampAge' \in 0..StampEvery
            /\ sinceEnrol' \in 0..Settle /\ sinceStamp' \in 0..Settle
            /\ sinceCall' \in 0..Settle
            BY <1>4, OlderTyped DEF Tick
      <2>2. pause' \in 0..PauseMost /\ sleep' \in 0..LongSleep
            BY <1>4, LessTyped DEF Tick
      <2> QED BY <1>4, <2>1, <2>2 DEF Tick
<1>5. CASE Crash
      <2>1. coolingDown' \in BOOLEAN BY <1>5 DEF Crash
      <2>2. enrolEvery' \in EnrolEvery..EnrolMost /\ enrolAge' \in 0..EnrolMost
            BY <1>5 DEF Crash
      <2>3. /\ stampAge' \in 0..StampEvery /\ sinceEnrol' \in 0..Settle /\ sinceStamp' \in 0..Settle
            /\ sinceCall' \in 0..Settle
            BY <1>5 DEF Crash, CutShort
      <2>4. backoff' \in PauseBase..PauseMost /\ pause' \in 0..PauseMost /\ sleep' \in 0..LongSleep
            BY <1>5 DEF Crash
      <2>5. calledFor' \in {"none", "enrol", "stamp"} /\ restarted' \in BOOLEAN BY <1>5 DEF Crash, CutShort
      <2> QED BY <2>1, <2>2, <2>3, <2>4, <2>5 DEF Timers
<1> QED BY <1>1, <1>2, <1>3, <1>4, <1>5 DEF Next

(* The types hold of every state of every run.                             *)
THEOREM TypeCorrect == Spec => []TypeOK
<1>1. Init => Typed BY InitTyped
<1>2. Typed /\ [Next]_vars => Typed'
      BY RowsStep, PlaceStep, CountsStep, TimersStep DEF Typed
<1>3. Typed => TypeOK BY TypedIsTypeOK
<1> QED BY <1>1, <1>2, <1>3, PTL DEF Spec

-----------------------------------------------------------------------------
(* Apart.  A call of the terminal is over before the loop records it, so   *)
(* what it watches is not older than the call: for a stamp poll at once,   *)
(* for an enrolment when its result is known; and what canTouchDevice was  *)
(* computed from still holds when the job is taken.  A process that starts *)
(* watches nothing yet.                                                    *)
StampRecorded == calledFor = "stamp" /\ ~ restarted => sinceStamp <= sinceCall

EnrolRecorded ==
    calledFor = "enrol" /\ ~ restarted /\ pc \notin {"write", "ack", "nack"} => sinceEnrol <= sinceCall

TouchAllowed ==
    pc = "list" /\ mayTouch /\ calledFor = "stamp" /\ ~ restarted => sinceCall >= Settle

Settled == StampRecorded /\ EnrolRecorded /\ TouchAllowed

LEMMA InitSettled == Init => Settled
BY DEF Init, Settled, StampRecorded, EnrolRecorded, TouchAllowed

LEMMA SettledStep == Typed /\ Settled /\ [Next]_vars => Settled'
<1> SUFFICES ASSUME Typed, Settled, [Next]_vars PROVE Settled'
    OBVIOUS
<1>t. /\ sinceEnrol \in 0..Settle /\ sinceStamp \in 0..Settle /\ sinceCall \in 0..Settle
      /\ Settle \in Nat
      BY Constants DEF Typed, Timers
<1> USE DEF Settled, StampRecorded, EnrolRecorded, TouchAllowed, Go
<1>1. ASSUME NEW j \in Jobs, AddJob(j) \/ Requeue(j) PROVE Settled'
      BY <1>1 DEF AddJob, Requeue, schedule, history
<1>2. CASE ClearElsewhere \/ UNCHANGED vars
      BY <1>2 DEF ClearElsewhere, vars, schedule, history
<1>3. CASE Round
      <2>1. CASE LookAtQueue
            <3>1. UNCHANGED <<history, sinceEnrol, sinceStamp>>
                  BY <2>1 DEF LookAtQueue
            <3>2. pc' \in {"list", "stamp"} /\ pc = "enrol" BY <2>1 DEF LookAtQueue
            <3>3. pc' = "list" /\ mayTouch' => sinceStamp >= Settle
                  BY <2>1, Zenon DEF LookAtQueue
            <3> QED BY <1>t, <3>1, <3>2, <3>3 DEF history
      <2>2. CASE ListFails \/ AskToClear \/ TakeJob
            BY <2>2 DEF ListFails, AskToClear, TakeJob, schedule, history
      <2>3. CASE NothingToDo \/ TooSoonToClear
            BY <2>3 DEF NothingToDo, TooSoonToClear, Result, history
      <2>4. CASE Clear \/ ClearFails
            BY <2>4 DEF Clear, ClearFails, Result, history
      <2>5. CASE WriteFace
            BY <2>5 DEF WriteFace, Called, schedule
      <2>6. ASSUME Result(TRUE, TRUE) \/ Result(FALSE, TRUE), UNCHANGED history \/ Called("enrol")
            PROVE  Settled'
            <3>1. sinceCall' \in 0..Settle BY <1>t, <2>6 DEF history, Called
            <3> QED BY <2>6, <3>1 DEF Result, history, Called
      <2>7. CASE Ack \/ Nack \/ NackFails
            BY <2>6, <2>7 DEF Ack, Nack, NackFails
      <2>8. CASE WriteFails \/ AckFails
            <3>1. UNCHANGED history \/ Called("enrol") BY <2>8 DEF WriteFails, AckFails
            <3>2. CASE TryLater BY <2>6, <3>1, <3>2 DEF TryLater
            <3>3. CASE Deny BY <3>1, <3>3 DEF Deny, Called, schedule, history
            <3> QED BY <2>8, <3>2, <3>3 DEF WriteFails, AckFails, Failure, GiveUp
      <2>9. CASE PollDone \/ PollFails
            BY <2>9 DEF PollDone, PollFails, Rest, Called
      <2>10. CASE SkipPoll \/ StartPoll \/ Wake \/ Restart \/ Start
            BY <2>10 DEF SkipPoll, StartPoll, Wake, Restart, Start, Rest, schedule, history
      <2> QED BY <1>3, <2>1, <2>2, <2>3, <2>4, <2>5, <2>7, <2>8, <2>9, <2>10 DEF Round
<1>4. CASE Tick
      <2>1. /\ sinceStamp <= sinceCall => sinceStamp' <= sinceCall'
            /\ sinceEnrol <= sinceCall => sinceEnrol' <= sinceCall'
            BY <1>4, <1>t, OlderMonotone DEF Tick
      <2>2. sinceCall >= Settle => sinceCall' >= Settle
            BY <1>4, <1>t DEF Tick, Older, Least
      <2> QED BY <1>4, <2>1, <2>2 DEF Tick
<1>5. CASE Crash
      BY <1>5 DEF Crash
<1> QED BY <1>1, <1>2, <1>3, <1>4, <1>5 DEF Next

LEMMA ApartByStep == Typed /\ Settled /\ [Next]_vars => [ApartStep]_vars
<1> SUFFICES ASSUME Typed, Settled, Next PROVE ApartStep
    BY DEF vars
<1>t. sinceEnrol \in 0..Settle /\ sinceCall \in 0..Settle /\ Settle \in Nat
      BY Constants DEF Typed, Timers
<1>1. ASSUME pc = "list", pc' = "write" PROVE TakeJob
      BY <1>1 DEF Next, Round, AddJob, Requeue, ClearElsewhere, Tick, Crash, LookAtQueue, ListFails,
                  NothingToDo, TooSoonToClear, AskToClear, Clear, ClearFails, WriteFace, WriteFails,
                  Ack, AckFails, Nack, NackFails, SkipPoll, StartPoll, PollDone, PollFails, Wake,
                  Restart, Start, Result, Go
<1>2. ASSUME pc = "stamp", pc' = "poll" PROVE StartPoll
      BY <1>2 DEF Next, Round, AddJob, Requeue, ClearElsewhere, Tick, Crash, LookAtQueue, ListFails,
                  NothingToDo, TooSoonToClear, AskToClear, Clear, ClearFails, TakeJob, WriteFace,
                  WriteFails, Ack, AckFails, Nack, NackFails, SkipPoll, PollDone, PollFails, Wake,
                  Restart, Start, Rest, Go
<1>3. pc = "list" /\ pc' = "write" /\ calledFor = "stamp" => sinceCall >= Settle \/ restarted
      BY <1>1 DEF TakeJob, Settled, TouchAllowed
<1>4. pc = "stamp" /\ pc' = "poll" /\ calledFor = "enrol" => sinceCall >= Settle \/ restarted
      BY <1>2, <1>t DEF StartPoll, ShouldPollStamp, Settled, EnrolRecorded
<1> QED BY <1>3, <1>4 DEF ApartStep

(* Whatever jobs fail, are retried, given up or cleared, and however long  *)
(* the calls take, the two kinds of calls stay Settle apart, but for the   *)
(* first call of a process that has started since the last one.            *)
THEOREM CallsApart == Spec => Apart
<1>1. Init => Typed /\ Settled BY InitTyped, InitSettled
<1>2. Typed /\ Settled /\ [Next]_vars => (Typed /\ Settled)'
      BY RowsStep, PlaceStep, CountsStep, TimersStep, SettledStep DEF Typed
<1>3. Typed /\ Settled /\ [Next]_vars => [ApartStep]_vars BY ApartByStep
<1> QED BY <1>1, <1>2, <1>3, PTL DEF Spec, Apart

-----------------------------------------------------------------------------
(* SyncedIsWritten.  A success is acknowledged only after enrolOnDevice    *)
(* has returned, so a job at "ack" is written.                             *)
AckedIsWritten == pc = "ack" => cur \in written

Enrolled == SyncedIsWritten /\ AckedIsWritten

LEMMA InitEnrolled == Init => Enrolled
BY DEF Init, Enrolled, SyncedIsWritten, AckedIsWritten

LEMMA EnrolledStep == Typed /\ Enrolled /\ [Next]_vars => Enrolled'
<1> SUFFICES ASSUME Typed, Enrolled, [Next]_vars PROVE Enrolled'
    OBVIOUS
<1>t. row \in [Jobs -> States] /\ (pc \in {"write", "ack", "nack"} => cur \in Jobs)
      BY DEF Typed, Rows, Place
<1> USE DEF Enrolled, SyncedIsWritten, AckedIsWritten, Go
<1>1. ASSUME NEW j \in Jobs, AddJob(j) \/ Requeue(j) PROVE Enrolled'
      BY <1>1, <1>t DEF AddJob, Requeue
<1>2. CASE ClearElsewhere
      BY <1>2, <1>t DEF ClearElsewhere, Cleared
<1>3. CASE Round
      <2>1. CASE LookAtQueue \/ ListFails \/ AskToClear \/ TakeJob
            BY <2>1 DEF LookAtQueue, ListFails, AskToClear, TakeJob, server
      <2>2. CASE NothingToDo \/ TooSoonToClear \/ ClearFails \/ NackFails
            BY <2>2 DEF NothingToDo, TooSoonToClear, ClearFails, NackFails, Result, server
      <2>3. CASE Clear \/ Start
            <3>1. /\ \A j \in Jobs : row'[j] \in {"synced", "denied"} => row[j] \in {"synced", "denied"}
                  /\ written' = written
                  BY <2>3, <1>t DEF Clear, Start, Cleared
            <3> QED BY <2>3, <3>1 DEF Clear, Start, Result
      <2>4. CASE WriteFace
            BY <2>4 DEF WriteFace, server
      <2>5. CASE WriteFails
            <3>1. pc' # "ack" BY <2>5 DEF WriteFails, Failure, TryLater, GiveUp, Deny, Result
            <3> QED BY <2>5, <3>1 DEF WriteFails, server
      <2>6. CASE Ack \/ AckFails
            <3>1. cur \in Jobs /\ cur \in written /\ written' = written
                  BY <2>6, <1>t DEF Ack, AckFails
            <3>2. pc' # "ack"
                  BY <2>6 DEF Ack, AckFails, Failure, TryLater, GiveUp, Deny, Result
            <3>3. row' \in {row, Acked(cur)} BY <2>6 DEF Ack, AckFails
            <3> QED BY <1>t, <3>1, <3>2, <3>3 DEF Acked
      <2>7. CASE Nack
            <3>1. cur \in Jobs /\ written' = written /\ pc' # "ack"
                  BY <2>7, <1>t DEF Nack, Result
            <3>2. row' = Denied(cur) BY <2>7 DEF Nack
            <3> QED BY <1>t, <3>1, <3>2 DEF Denied
      <2>8. CASE SkipPoll \/ StartPoll \/ PollDone \/ PollFails \/ Wake \/ Restart
            BY <2>8 DEF SkipPoll, StartPoll, PollDone, PollFails, Wake, Restart, Rest, server
      <2> QED BY <1>3, <2>1, <2>2, <2>3, <2>4, <2>5, <2>6, <2>7, <2>8 DEF Round
<1>4. CASE Tick \/ UNCHANGED vars
      BY <1>4 DEF Tick, vars, server
<1>5. CASE Crash
      <2>1. written \subseteq written' BY <1>5 DEF Crash, CutShort
      <2> QED BY <1>5, <2>1 DEF Crash, server
<1> QED BY <1>1, <1>2, <1>3, <1>4, <1>5 DEF Next

(* For any number of jobs, lost answers, restarts and clears: a driver the *)
(* server lists as enrolled is one whose face the terminal has taken.      *)
THEOREM EnrolledWasWritten == Spec => []SyncedIsWritten
<1>1. Init => Typed /\ Enrolled BY InitTyped, InitEnrolled
<1>2. Typed /\ Enrolled /\ [Next]_vars => (Typed /\ Enrolled)'
      BY RowsStep, PlaceStep, CountsStep, TimersStep, EnrolledStep DEF Typed
<1>3. Enrolled => SyncedIsWritten BY DEF Enrolled
<1> QED BY <1>1, <1>2, <1>3, PTL DEF Spec


-----------------------------------------------------------------------------
(* The stamp path: StampOutbox                                             *)

(* The constants, one by one.                                              *)
LEMMA StampConstants ==
    /\ Lookback \in Nat /\ MaxTime \in Nat /\ MaxFaces \in Nat /\ MaxCrashes \in Nat
    /\ MaxResults \in Nat \ {0} /\ Debounce \in Nat \ {0}
    /\ MaxOutbox \in Nat \ {0} /\ BatchSize \in Nat \ {0}
    /\ Face \in [Serials -> Persons]
BY OutboxAssumption DEF Serials

LEMMA SerialsAreNumbers == \A i \in Serials : i \in Nat
BY StampConstants DEF Serials

(* The first and the last elements of a sequence.                          *)
LEMMA FirstPart ==
    ASSUME NEW S, NEW s \in Seq(S), NEW n \in Nat
    PROVE  /\ First(s, n) \in Seq(S)
           /\ Len(First(s, n)) = Shorter(n, Len(s))
           /\ \A i \in 1..Len(First(s, n)) : First(s, n)[i] = s[i]
<1>1. Len(s) \in Nat /\ Shorter(n, Len(s)) \in 0..Len(s)
      BY DEF Shorter
<1>2. \A i \in 1..Shorter(n, Len(s)) : s[i] \in S
      BY <1>1
<1> QED BY <1>1, <1>2, SubSeqProperties DEF First

LEMMA LastPart ==
    ASSUME NEW S, NEW s \in Seq(S), NEW n \in Nat
    PROVE  /\ Last(s, n) \in Seq(S)
           /\ Len(Last(s, n)) = Shorter(n, Len(s))
           /\ \A i \in 1..Len(Last(s, n)) : Last(s, n)[i] = s[Len(s) - Len(Last(s, n)) + i]
<1> DEFINE k == Shorter(n, Len(s))
<1>1. Len(s) \in Nat /\ k \in 0..Len(s)
      BY DEF Shorter
<1>2. \A i \in Len(s) - k + 1 .. Len(s) : s[i] \in S
      BY <1>1
<1>3. Last(s, n) = SubSeq(s, Len(s) - k + 1, Len(s))
      BY DEF Last
<1> HIDE DEF k
<1>4. /\ Last(s, n) \in Seq(S) /\ Len(Last(s, n)) = k
      /\ \A i \in 1..k : Last(s, n)[i] = s[Len(s) - k + 1 + i - 1]
      BY <1>1, <1>2, <1>3, SubSeqProperties
<1> QED BY <1>1, <1>4 DEF k

LEMMA ElementsTyped ==
    ASSUME NEW S, NEW s \in Seq(S)
    PROVE  ElementsOf(s) = {s[i] : i \in 1..Len(s)} /\ ElementsOf(s) \subseteq S
BY DEF ElementsOf

-----------------------------------------------------------------------------
(* A set of serials can be put in order: otherwise take the least n such   *)
(* that some subset of 1..n cannot; without n it can, and n comes last.    *)
Ascending(s) == \A i, j \in DOMAIN s : i < j => s[i] < s[j]
Orderable(S) == \E s \in [1..Cardinality(S) -> S] : Ascending(s)

LEMMA EmptyOrderable == Orderable({})
<1>1. Cardinality({}) = 0
      BY FS_EmptySet
<1>2. [i \in 1..0 |-> i] \in [1..0 -> {}] /\ Ascending([i \in 1..0 |-> i])
      BY DEF Ascending
<1> QED BY <1>1, <1>2 DEF Orderable

LEMMA LargerOrderable ==
    ASSUME NEW n \in Nat \ {0}, NEW S \in SUBSET (1..n - 1), Orderable(S)
    PROVE  Orderable(S \cup {n})
<1> DEFINE c == Cardinality(S)
<1>1. c \in Nat /\ Cardinality(S \cup {n}) = c + 1
      <2>1. n - 1 \in Int /\ IsFiniteSet(1..n - 1)
            BY FS_Interval
      <2>2. IsFiniteSet(S)
            BY <2>1, FS_Subset
      <2>3. n \notin S
            OBVIOUS
      <2> QED BY <2>2, <2>3, FS_CardinalityType, FS_AddElement
<1>2. PICK s \in [1..c -> S] : Ascending(s)
      BY DEF Orderable
<1> DEFINE t == [i \in 1..c + 1 |-> IF i = c + 1 THEN n ELSE s[i]]
<1> HIDE DEF c
<1>3. t \in [1..c + 1 -> S \cup {n}]
      BY <1>1
<1>4. ASSUME NEW i \in 1..c + 1, NEW j \in 1..c + 1, i < j
      PROVE  t[i] < t[j]
      <2>1. i \in 1..c /\ i # c + 1
            BY <1>1, <1>4
      <2>2. t[i] = s[i] /\ s[i] \in S
            BY <1>2, <2>1, i \in 1..c + 1
      <2>3. s[i] < n
            <3> DEFINE x == s[i]
            <3>1. x \in 1..n - 1
                  BY <2>2
            <3> HIDE DEF x
            <3>2. x < n
                  BY <3>1
            <3> QED BY <3>2 DEF x
      <2>4. CASE j = c + 1
            BY <2>2, <2>3, <2>4
      <2>5. CASE j # c + 1
            <3>1. j \in 1..c /\ t[j] = s[j]
                  BY <1>1, <2>5
            <3> QED BY <1>2, <1>4, <2>1, <2>2, <3>1 DEF Ascending
      <2> QED BY <2>4, <2>5
<1> QED BY <1>1, <1>3, <1>4 DEF Ascending, Orderable

(* The least of a set of naturals, from the intervals below its members.   *)
LEMMA LeastMember ==
    ASSUME NEW S \in SUBSET Nat, S # {}
    PROVE  \E n \in S : \A m \in S : n <= m
<1> DEFINE Below == {1..n : n \in S}
<1>1. Below \subseteq FiniteSubsetsOf(Nat) /\ Below # {}
      <2>1. ASSUME NEW n \in S PROVE 1..n \in FiniteSubsetsOf(Nat)
            <3>1. n \in Int /\ 1..n \in SUBSET Nat
                  OBVIOUS
            <3> QED BY <3>1, FS_Interval DEF FiniteSubsetsOf
      <2> QED BY <2>1
<1>2. PICK b \in Below : \A d \in Below : <<d, b>> \notin StrictSubsetOrdering(Nat)
      BY <1>1, FS_StrictSubsetOrderingWellFounded, WFMin
<1>3. PICK n \in S : b = 1..n
      OBVIOUS
<1>4. ASSUME NEW m \in S, m < n PROVE FALSE
      <2>1. m \in Nat /\ n \in Nat
            OBVIOUS
      <2>2. 1..m \subseteq 1..n /\ n \in 1..n /\ n \notin 1..m
            BY <1>4, <2>1
      <2>3. 1..m \in SUBSET Nat /\ b \in SUBSET Nat /\ 1..m \subseteq b /\ 1..m # b
            BY <1>3, <2>2
      <2> QED BY <1>2, <2>3 DEF StrictSubsetOrdering
<1> QED BY <1>4

LEMMA EveryOrderable == \A n \in Nat : \A S \in SUBSET (1..n) : Orderable(S)
<1> DEFINE Bad == {k \in Nat : \E S \in SUBSET (1..k) : ~Orderable(S)}
<1> SUFFICES ASSUME Bad # {} PROVE FALSE
    OBVIOUS
<1>1. PICK n \in Bad : \A m \in Bad : n <= m
      <2>1. Bad \in SUBSET Nat
            OBVIOUS
      <2> HIDE DEF Bad
      <2> QED BY <2>1, LeastMember
<1>2. PICK S \in SUBSET (1..n) : ~Orderable(S)
      OBVIOUS
<1>3. n \in Nat /\ n # 0
      <2>1. n = 0 => S = {}
            BY <1>2
      <2> QED BY <1>2, <2>1, EmptyOrderable
<1>4. n - 1 \in Nat /\ n - 1 \notin Bad
      <2>1. n - 1 \in Nat /\ ~(n <= n - 1)
            BY <1>3
      <2> HIDE DEF Bad
      <2> QED BY <1>1, <2>1
<1>5. S \ {n} \in SUBSET (1..n - 1)
      OBVIOUS
<1>6. Orderable(S \ {n})
      BY <1>4, <1>5
<1>7. n \notin S
      <2> SUFFICES ASSUME n \in S PROVE FALSE
          OBVIOUS
      <2>1. (S \ {n}) \cup {n} = S
            OBVIOUS
      <2> QED BY <1>2, <1>3, <1>5, <1>6, <2>1, LargerOrderable
<1> QED BY <1>2, <1>6, <1>7


LEMMA AscendingApart ==
    ASSUME NEW n \in Nat, NEW s \in [1..n -> Int], Ascending(s)
    PROVE  \A i, j \in 1..n : i # j => s[i] # s[j]
<1> SUFFICES ASSUME NEW i \in 1..n, NEW j \in 1..n, i # j PROVE s[i] # s[j]
    OBVIOUS
<1> DEFINE x == s[i]
           y == s[j]
<1>1. x \in Int /\ y \in Int
      OBVIOUS
<1>2. (i < j => x < y) /\ (j < i => y < x)
      BY DEF Ascending
<1> HIDE DEF x, y
<1>3. x # y
      BY <1>1, <1>2
<1> QED BY <1>3 DEF x, y

(* InOrder lists the serials of a set, each once.                          *)
LEMMA InOrderLists ==
    ASSUME NEW S \in SUBSET Serials
    PROVE  /\ InOrder(S) \in Seq(Serials) /\ Len(InOrder(S)) = Cardinality(S)
           /\ Ascending(InOrder(S)) /\ ElementsOf(InOrder(S)) = S
<1> DEFINE c == Cardinality(S)
           s == InOrder(S)
<1>1. IsFiniteSet(S) /\ c \in Nat
      <2>1. MaxFaces \in Int /\ IsFiniteSet(1..MaxFaces)
            BY StampConstants, FS_Interval
      <2>2. IsFiniteSet(S)
            BY <2>1, FS_Subset DEF Serials
      <2> QED BY <2>2, FS_CardinalityType
<1>2. s \in [1..c -> S] /\ Ascending(s)
      <2>1. Orderable(S)
            BY StampConstants, EveryOrderable DEF Serials
      <2> QED BY <2>1 DEF Orderable, Ascending, InOrder
<1>3. s \in Injection(1..c, S)
      <2>1. s \in [1..c -> Int]
            <3> HIDE DEF c, s
            <3>1. \A i \in 1..c : s[i] \in Int
                  BY <1>2, SerialsAreNumbers
            <3> QED BY <1>2, <3>1
      <2> HIDE DEF c, s
      <2>2. \A i, j \in 1..c : i # j => s[i] # s[j]
            BY <1>1, <1>2, <2>1, AscendingApart
      <2> QED BY <1>2, <2>2 DEF Injection, IsInjective
<1>4. s \in Surjection(1..c, S)
      <2>1. Cardinality(1..c) = c
            BY <1>1, FS_Interval
      <2> QED BY <1>1, <1>3, <2>1, FS_Injection
<1>5. s \in Seq(Serials) /\ Len(s) = c
      BY <1>1, <1>2
<1>6. ElementsOf(s) = S
      <2>1. S \subseteq {s[i] : i \in 1..c}
            BY <1>4 DEF Surjection
      <2> QED BY <1>1, <1>2, <2>1 DEF ElementsOf
<1> QED BY <1>2, <1>5, <1>6

(* No element comes twice.                                                 *)
Distinct(s) == \A i, j \in DOMAIN s : i # j => s[i] # s[j]

LEMMA AscendingDistinct ==
    ASSUME NEW s \in Seq(Serials), Ascending(s)
    PROVE  Distinct(s)
<1>1. \A i \in 1..Len(s) : s[i] \in Int
      BY SerialsAreNumbers
<1>2. Len(s) \in Nat /\ s \in [1..Len(s) -> Int]
      BY <1>1
<1> QED BY <1>2, AscendingApart DEF Distinct

(* What is left of a queue in which nothing comes twice.                   *)
LEMMA PartDistinct ==
    ASSUME NEW s \in Seq(Serials), NEW t \in Seq(Serials), Distinct(s), NEW d \in Nat,
           Len(t) + d <= Len(s), \A i \in 1..Len(t) : t[i] = s[d + i]
    PROVE  Distinct(t)
<1> SUFFICES ASSUME NEW i \in 1..Len(t), NEW j \in 1..Len(t), i # j
             PROVE  t[i] # t[j]
    BY DEF Distinct
<1>1. d + i \in 1..Len(s) /\ d + j \in 1..Len(s) /\ d + i # d + j
      OBVIOUS
<1>2. s[d + i] # s[d + j]
      BY <1>1 DEF Distinct
<1> QED BY <1>2

(* The queue with the new events behind it holds both, each once.          *)
LEMMA LineHolds ==
    ASSUME outbox \in Seq(Serials), fresh \subseteq Serials, QueuedOnce
    PROVE  /\ Line \in Seq(Serials) /\ Distinct(Line)
           /\ ElementsOf(Line) = ElementsOf(outbox) \cup fresh
<1> DEFINE new == InOrder(NotQueued)
<1>1. /\ NotQueued \subseteq Serials /\ NotQueued \cap ElementsOf(outbox) = {}
      /\ NotQueued \cup ElementsOf(outbox) = ElementsOf(outbox) \cup fresh
      BY DEF NotQueued
<1>2. new \in Seq(Serials) /\ Distinct(new) /\ ElementsOf(new) = NotQueued
      BY <1>1, InOrderLists, AscendingDistinct
<1> HIDE DEF new
<1>3. /\ Line \in Seq(Serials) /\ Len(Line) = Len(outbox) + Len(new)
      /\ \A i \in 1..Len(outbox) + Len(new) :
            Line[i] = IF i <= Len(outbox) THEN outbox[i] ELSE new[i - Len(outbox)]
      BY <1>2, ConcatProperties DEF Line, new
<1>4. /\ \A i \in 1..Len(outbox) : outbox[i] \in ElementsOf(outbox)
      /\ \A i \in 1..Len(new) : new[i] \in NotQueued
      BY <1>2 DEF ElementsOf
<1>5. Distinct(Line)
      <2> SUFFICES ASSUME NEW i \in 1..Len(Line), NEW j \in 1..Len(Line), i # j
                   PROVE  Line[i] # Line[j]
          BY <1>3 DEF Distinct
      <2>1. Len(outbox) \in Nat /\ Len(new) \in Nat
            BY <1>2
      <2>2. CASE i <= Len(outbox) /\ j <= Len(outbox)
            BY <1>3, <2>1, <2>2 DEF QueuedOnce
      <2>3. CASE i > Len(outbox) /\ j > Len(outbox)
            <3>1. i - Len(outbox) \in 1..Len(new) /\ j - Len(outbox) \in 1..Len(new)
                  BY <1>3, <2>1, <2>3
            <3> QED BY <1>2, <1>3, <2>1, <2>3, <3>1 DEF Distinct
      <2>4. CASE i <= Len(outbox) /\ j > Len(outbox)
            <3>1. i \in 1..Len(outbox) /\ j - Len(outbox) \in 1..Len(new)
                  BY <1>3, <2>1, <2>4
            <3> QED BY <1>1, <1>3, <1>4, <2>1, <2>4, <3>1
      <2>5. CASE i > Len(outbox) /\ j <= Len(outbox)
            <3>1. j \in 1..Len(outbox) /\ i - Len(outbox) \in 1..Len(new)
                  BY <1>3, <2>1, <2>5
            <3>2. Line[i] = new[i - Len(outbox)] /\ Line[j] = outbox[j]
                  BY <1>3, <2>1, <2>5
            <3> QED BY <1>1, <1>4, <3>1, <3>2
      <2> QED BY <1>3, <2>1, <2>2, <2>3, <2>4, <2>5
<1>6. ElementsOf(Line) = ElementsOf(outbox) \cup NotQueued
      <2>1. Len(outbox) \in Nat /\ Len(new) \in Nat /\ DOMAIN Line = 1..Len(outbox) + Len(new)
            BY <1>2, <1>3
      <2>2. ASSUME NEW i \in 1..Len(outbox) + Len(new)
            PROVE  Line[i] \in ElementsOf(outbox) \cup NotQueued
            <3>1. CASE i <= Len(outbox)
                  <4>1. i \in 1..Len(outbox)
                        BY <2>1, <3>1
                  <4>2. Line[i] = outbox[i]
                        BY <1>3, <3>1
                  <4> QED BY <1>4, <4>1, <4>2
            <3>2. CASE ~(i <= Len(outbox))
                  <4>1. i - Len(outbox) \in 1..Len(new)
                        BY <2>1, <3>2
                  <4>2. Line[i] = new[i - Len(outbox)]
                        BY <1>3, <3>2
                  <4> QED BY <1>4, <4>1, <4>2
            <3> QED BY <3>1, <3>2
      <2>3. ASSUME NEW i \in 1..Len(outbox) PROVE outbox[i] \in ElementsOf(Line)
            <3>1. i \in 1..Len(outbox) + Len(new) /\ i <= Len(outbox)
                  BY <2>1
            <3> QED BY <1>3, <2>1, <3>1 DEF ElementsOf
      <2>4. ASSUME NEW i \in 1..Len(new) PROVE new[i] \in ElementsOf(Line)
            <3>1. Len(outbox) + i \in 1..Len(outbox) + Len(new) /\ ~(Len(outbox) + i <= Len(outbox))
                  /\ Len(outbox) + i - Len(outbox) = i
                  BY <2>1
            <3>2. Line[Len(outbox) + i] = new[i]
                  BY <1>3, <3>1
            <3> QED BY <2>1, <3>1, <3>2 DEF ElementsOf
      <2>5. ElementsOf(Line) \subseteq ElementsOf(outbox) \cup NotQueued
            BY <2>1, <2>2 DEF ElementsOf
      <2>6. ElementsOf(outbox) \subseteq ElementsOf(Line)
            BY <2>3, ElementsTyped
      <2>7. NotQueued \subseteq ElementsOf(Line)
            BY <1>2, <2>4, ElementsTyped
      <2> QED BY <2>5, <2>6, <2>7
<1> QED BY <1>1, <1>3, <1>5, <1>6


-----------------------------------------------------------------------------
(* The types, in parts: clocks, the terminal's log, the state file, the    *)
(* queue, the place of the loop, the server and the histories.             *)
ClocksTyped == /\ now \in 0..MaxTime /\ crashes \in 0..MaxCrashes
               /\ lastPoll \in 0..MaxTime /\ blind \in BOOLEAN
LogTyped == terminal \in Seq(0..MaxTime) /\ Len(terminal) <= MaxFaces
StateTyped == seen \subseteq Serials /\ lastAt \in [Persons -> 0..MaxTime \cup {Never}]
QueueTyped == outbox \in Seq(Serials) /\ Len(outbox) <= MaxOutbox /\ fresh \subseteq Serials
StageTyped == /\ stage \in {"down", "idle", "saved", "queued", "posting"}
              /\ stage # "saved" => fresh = {}
ServiceTyped == wire \subseteq Seq(Serials) /\ answered \in BOOLEAN /\ received \subseteq Serials
KeptTyped == kept \subseteq [event : Serials, at : 0..MaxTime] /\ torn \subseteq {"state", "outbox"}

StampTyped == /\ ClocksTyped /\ LogTyped /\ StateTyped /\ QueueTyped
              /\ StageTyped /\ ServiceTyped /\ KeptTyped

LEMMA StampTypedIsTypeOK == StampTyped <=> StampTypeOK
BY DEF StampTyped, StampTypeOK, ClocksTyped, LogTyped, StateTyped, QueueTyped, StageTyped,
       ServiceTyped, KeptTyped

LEMMA InitStampTyped == StampInit => StampTyped /\ QueuedOnce
<1> SUFFICES ASSUME StampInit PROVE StampTyped /\ QueuedOnce
    OBVIOUS
<1>1. outbox = <<>> /\ terminal = <<>> /\ lastAt = [p \in Persons |-> Never]
      BY DEF StampInit
<1>2. /\ outbox \in Seq(Serials) /\ Len(outbox) = 0 /\ DOMAIN outbox = {}
      /\ terminal \in Seq(0..MaxTime) /\ Len(terminal) = 0
      /\ lastAt \in [Persons -> 0..MaxTime \cup {Never}]
      BY <1>1
<1>3. ClocksTyped
      <2>1. now = 0 /\ crashes = 0 /\ lastPoll = 0 /\ blind = FALSE
            BY DEF StampInit
      <2>2. 0 \in 0..MaxTime /\ 0 \in 0..MaxCrashes
            BY StampConstants
      <2> QED BY <2>1, <2>2 DEF ClocksTyped
<1>6. LogTyped
      BY <1>2, StampConstants DEF LogTyped
<1>4. StateTyped /\ StageTyped /\ ServiceTyped /\ KeptTyped
      BY <1>2 DEF StampInit, StateTyped, StageTyped, ServiceTyped, KeptTyped
<1>5. QueueTyped /\ QueuedOnce
      BY <1>2, StampConstants DEF StampInit, QueueTyped, QueuedOnce
<1> QED BY <1>3, <1>4, <1>5, <1>6 DEF StampTyped

(* The rows of a page are serials of the terminal's log.                   *)
LEMMA PageOfLog ==
    ASSUME LogTyped
    PROVE  Unread \subseteq Serials /\ Window \subseteq Serials
<1>1. 1..Len(terminal) \subseteq Serials
      BY StampConstants DEF LogTyped, Serials
<1> QED BY <1>1 DEF Unread, Page, Window

(* What the queue becomes.                                                 *)
LEMMA SavedLine ==
    ASSUME QueueTyped, QueuedOnce
    PROVE  /\ Saved(Line) \in Seq(Serials) /\ Distinct(Saved(Line))
           /\ Len(Saved(Line)) = Shorter(MaxOutbox, Len(Line))
           /\ \A i \in 1..Len(Saved(Line)) : Saved(Line)[i] = Line[Len(Line) - Len(Saved(Line)) + i]
<1>1. Line \in Seq(Serials) /\ Distinct(Line) /\ Len(Line) \in Nat
      BY LineHolds DEF QueueTyped
<1> DEFINE s == Line
           t == Saved(Line)
<1>2. /\ t \in Seq(Serials) /\ Len(t) = Shorter(MaxOutbox, Len(s))
      /\ \A i \in 1..Len(t) : t[i] = s[Len(s) - Len(t) + i]
      BY <1>1, StampConstants, LastPart DEF Saved
<1>3. Len(t) <= Len(s) /\ Len(s) - Len(t) \in Nat
      BY <1>1, <1>2, StampConstants DEF Shorter
<1> HIDE DEF s, t
<1>4. Distinct(t)
      <2>1. Len(t) + (Len(s) - Len(t)) <= Len(s) /\ s \in Seq(Serials) /\ Distinct(s)
            BY <1>1, <1>2, <1>3 DEF s
      <2> QED BY <1>2, <1>3, <2>1, PartDistinct
<1> QED BY <1>2, <1>4 DEF s, t

LEMMA RemainingPart ==
    ASSUME QueueTyped
    PROVE  /\ Batch \in Seq(Serials) /\ Len(Batch) <= Len(outbox)
           /\ \A i \in 1..Len(Batch) : Batch[i] = outbox[i]
           /\ Remaining \in Seq(Serials) /\ Len(Remaining) = Len(outbox) - Len(Batch)
           /\ \A i \in 1..Len(Remaining) : Remaining[i] = outbox[Len(Batch) + i]
<1>1. /\ outbox \in Seq(Serials) /\ Len(outbox) \in Nat
      /\ BatchSize \in Nat
      BY StampConstants DEF QueueTyped
<1>2. /\ Batch \in Seq(Serials) /\ Len(Batch) = Shorter(BatchSize, Len(outbox))
      /\ \A i \in 1..Len(Batch) : Batch[i] = outbox[i]
      BY <1>1, FirstPart DEF Batch
<1>3. Len(Batch) \in 0..Len(outbox)
      BY <1>1, <1>2 DEF Shorter
<1> DEFINE b == Len(Batch)
<1> HIDE DEF b
<1>4. \A i \in b + 1 .. Len(outbox) : outbox[i] \in Serials
      BY <1>1, <1>3 DEF b
<1>5. /\ Remaining \in Seq(Serials)
      /\ Len(Remaining) = IF b + 1 <= Len(outbox) THEN Len(outbox) - (b + 1) + 1 ELSE 0
      /\ \A i \in 1..Len(outbox) - (b + 1) + 1 : Remaining[i] = outbox[b + 1 + i - 1]
      BY <1>1, <1>3, <1>4, SubSeqProperties DEF Remaining, b
<1>6. Len(Remaining) = Len(outbox) - b
      BY <1>1, <1>3, <1>5 DEF b
<1>7. \A i \in 1..Len(Remaining) : Remaining[i] = outbox[b + i]
      BY <1>1, <1>3, <1>5, <1>6 DEF b
<1> QED BY <1>2, <1>3, <1>5, <1>6, <1>7 DEF b


-----------------------------------------------------------------------------
(* Each part of the types through a step.                                  *)

LEMMA ClocksStep == StampTyped /\ [StampNext]_stampVars => ClocksTyped'
<1> SUFFICES ASSUME StampTyped, [StampNext]_stampVars PROVE ClocksTyped'
    OBVIOUS
<1> USE DEF StampTyped, ClocksTyped
<1>1. CASE ClockTick
      BY <1>1, StampConstants DEF ClockTick, watched
<1>2. CASE Poll
      BY <1>2, StampConstants DEF Poll
<1>3. CASE CrashBetween \/ CrashSavingState \/ CrashSavingOutbox
      BY <1>3, StampConstants DEF CrashBetween, CrashSavingState, CrashSavingOutbox, Die
<1>4. CASE Look
      BY <1>4 DEF Look, watched
<1>5. CASE Enqueue \/ Post \/ NothingToPost \/ Answered \/ NoAnswer \/ StartAgain
      BY <1>5 DEF Enqueue, Post, NothingToPost, Answered, NoAnswer, StartAgain, watched
<1>6. CASE \E b \in wire : Ingest(b) \/ IngestPart(b)
      BY <1>6 DEF Ingest, IngestPart, watched
<1>7. CASE UNCHANGED stampVars
      BY <1>7 DEF stampVars, watched
<1> QED BY <1>1, <1>2, <1>3, <1>4, <1>5, <1>6, <1>7 DEF StampNext, ClocksTyped

LEMMA LogStep == StampTyped /\ [StampNext]_stampVars => LogTyped'
<1> SUFFICES ASSUME StampTyped, [StampNext]_stampVars PROVE LogTyped'
    OBVIOUS
<1>1. CASE Look
      <2>1. Len(terminal) < MaxFaces /\ terminal' = Append(terminal, now)
            BY <1>1 DEF Look
      <2>2. terminal \in Seq(0..MaxTime) /\ now \in 0..MaxTime
            BY DEF StampTyped, LogTyped, ClocksTyped
      <2>3. terminal' \in Seq(0..MaxTime) /\ Len(terminal') = Len(terminal) + 1
            BY <2>1, <2>2, AppendProperties
      <2> QED BY <2>1, <2>2, <2>3, StampConstants DEF LogTyped
<1>2. CASE UNCHANGED terminal
      BY <1>2 DEF StampTyped, LogTyped
<1>3. Look \/ UNCHANGED terminal
      BY DEF StampNext, stampVars, ClockTick, Poll, Enqueue, Post, NothingToPost, Answered, NoAnswer,
             Ingest, IngestPart, CrashBetween, CrashSavingState, CrashSavingOutbox, Die, StartAgain
<1> QED BY <1>1, <1>2, <1>3

LEMMA StateStep == StampTyped /\ [StampNext]_stampVars => StateTyped'
<1> SUFFICES ASSUME StampTyped, [StampNext]_stampVars PROVE StateTyped'
    OBVIOUS
<1> USE DEF StampTyped
<1>1. CASE Poll
      <2>1. Unread \subseteq Serials
            BY PageOfLog
      <2>2. seen' = seen \cup Unread
            BY <1>1 DEF Poll
      <2>3. lastAt' \in [Persons -> 0..MaxTime \cup {Never}]
            <3> DEFINE persons == {Face[i] : i \in {i \in Unread : KeptRow(i)}}
            <3>1. lastAt' = [p \in Persons |-> IF p \in persons THEN now ELSE lastAt[p]]
                  BY <1>1 DEF Poll
            <3> HIDE DEF persons
            <3> QED BY <3>1 DEF StateTyped, ClocksTyped
      <2> QED BY <2>1, <2>2, <2>3 DEF StateTyped
<1>2. CASE CrashSavingState
      BY <1>2 DEF CrashSavingState, StateTyped
<1>3. CASE UNCHANGED <<seen, lastAt>>
      BY <1>3 DEF StateTyped
<1>4. Poll \/ CrashSavingState \/ UNCHANGED <<seen, lastAt>>
      BY DEF StampNext, stampVars, files, ClockTick, Look, Enqueue, Post, NothingToPost, Answered, NoAnswer,
             Ingest, IngestPart, CrashBetween, CrashSavingOutbox, Die, StartAgain
<1> QED BY <1>1, <1>2, <1>3, <1>4

(* The queue keeps its type, and no event comes into it twice.             *)
LEMMA QueueStep ==
    StampTyped /\ QueuedOnce /\ [StampNext]_stampVars => QueueTyped' /\ QueuedOnce'
<1> SUFFICES ASSUME StampTyped, QueuedOnce, [StampNext]_stampVars
             PROVE  QueueTyped' /\ QueuedOnce'
    OBVIOUS
<1> USE DEF StampTyped
<1>1. CASE Enqueue
      <2>1. /\ Saved(Line) \in Seq(Serials) /\ Distinct(Saved(Line))
            /\ Len(Saved(Line)) = Shorter(MaxOutbox, Len(Line)) /\ Len(Line) \in Nat
            BY SavedLine, LineHolds DEF QueueTyped
      <2>2. Len(Saved(Line)) <= MaxOutbox
            BY <2>1, StampConstants DEF Shorter
      <2>3. outbox' = Saved(Line) /\ fresh' = {}
            BY <1>1 DEF Enqueue
      <2> QED BY <2>1, <2>2, <2>3 DEF QueueTyped, QueuedOnce, Distinct
<1>2. CASE Answered
      <2>1. /\ outbox \in Seq(Serials) /\ Distinct(outbox) /\ Remaining \in Seq(Serials)
            /\ Len(Batch) \in Nat /\ Len(Batch) <= Len(outbox)
            /\ Len(Remaining) = Len(outbox) - Len(Batch)
            /\ \A i \in 1..Len(Remaining) : Remaining[i] = outbox[Len(Batch) + i]
            BY RemainingPart DEF QueueTyped, QueuedOnce, Distinct
      <2>2. Len(Remaining) + Len(Batch) <= Len(outbox) /\ Len(Remaining) <= Len(outbox)
            BY <2>1
      <2>3. Distinct(Remaining)
            BY <2>1, <2>2, PartDistinct
      <2>4. outbox' = Remaining /\ fresh' = fresh
            BY <1>2 DEF Answered
      <2>5. Len(outbox') <= MaxOutbox
            BY <2>1, <2>2, <2>4, StampConstants DEF QueueTyped
      <2> QED BY <2>1, <2>3, <2>4, <2>5 DEF QueueTyped, QueuedOnce, Distinct
<1>3. CASE CrashSavingOutbox
      <2>1. outbox' = <<>> /\ fresh' = {}
            BY <1>3 DEF CrashSavingOutbox, Die
      <2> QED BY <2>1, StampConstants DEF QueueTyped, QueuedOnce
<1>4. CASE Poll
      <2>1. outbox' = outbox /\ fresh' \subseteq Unread
            BY <1>4 DEF Poll
      <2>2. Unread \subseteq Serials
            BY PageOfLog
      <2> QED BY <2>1, <2>2 DEF QueueTyped, QueuedOnce
<1>5. CASE outbox' = outbox /\ fresh' \subseteq fresh
      BY <1>5 DEF QueueTyped, QueuedOnce
<1>6. Enqueue \/ Answered \/ CrashSavingOutbox \/ Poll \/ (outbox' = outbox /\ fresh' \subseteq fresh)
      BY DEF StampNext, stampVars, files, ClockTick, Look, Post, NothingToPost, NoAnswer,
             Ingest, IngestPart, CrashBetween, CrashSavingState, Die, StartAgain
<1> QED BY <1>1, <1>2, <1>3, <1>4, <1>5, <1>6

LEMMA StageStep == StampTyped /\ [StampNext]_stampVars => StageTyped'
<1> SUFFICES ASSUME StampTyped, [StampNext]_stampVars PROVE StageTyped'
    OBVIOUS
<1> USE DEF StampTyped, StageTyped
<1>1. CASE ClockTick \/ Look
      BY <1>1 DEF ClockTick, Look
<1>2. CASE Poll \/ Enqueue
      BY <1>2 DEF Poll, Enqueue
<1>3. CASE Post \/ NothingToPost \/ Answered \/ NoAnswer
      BY <1>3 DEF Post, NothingToPost, Answered, NoAnswer
<1>4. CASE \E b \in wire : Ingest(b) \/ IngestPart(b)
      BY <1>4 DEF Ingest, IngestPart
<1>5. CASE CrashBetween \/ CrashSavingState \/ CrashSavingOutbox
      BY <1>5 DEF CrashBetween, CrashSavingState, CrashSavingOutbox, Die
<1>6. CASE StartAgain
      BY <1>6 DEF StartAgain
<1>7. CASE UNCHANGED stampVars
      BY <1>7 DEF stampVars
<1> QED BY <1>1, <1>2, <1>3, <1>4, <1>5, <1>6, <1>7 DEF StampNext

LEMMA ServiceStep == StampTyped /\ [StampNext]_stampVars => ServiceTyped'
<1> SUFFICES ASSUME StampTyped, [StampNext]_stampVars PROVE ServiceTyped'
    OBVIOUS
<1> USE DEF StampTyped
<1>1. CASE Post
      <2>1. Batch \in Seq(Serials)
            BY RemainingPart
      <2> QED BY <1>1, <2>1 DEF Post, ServiceTyped
<1>2. CASE \E b \in wire : Ingest(b)
      <2>1. PICK b \in wire : Ingest(b)
            BY <1>2
      <2>2. ElementsOf(b) \subseteq Serials
            BY ElementsTyped DEF ServiceTyped
      <2>3. answered' \in BOOLEAN
            BY <2>1 DEF Ingest, ServiceTyped
      <2> QED BY <2>1, <2>2, <2>3 DEF Ingest, ServiceTyped
<1>3. CASE \E b \in wire : IngestPart(b)
      <2>1. PICK b \in wire : IngestPart(b)
            BY <1>3
      <2>2. PICK n \in 0..Len(b) - 1 : received' = received \cup ElementsOf(First(b, n))
            BY <2>1 DEF IngestPart
      <2>3. b \in Seq(Serials) /\ n \in Nat
            BY DEF ServiceTyped
      <2>4. ElementsOf(First(b, n)) \subseteq Serials
            BY <2>3, FirstPart, ElementsTyped
      <2> QED BY <2>1, <2>2, <2>4 DEF IngestPart, ServiceTyped
<1>4. CASE UNCHANGED service
      BY <1>4 DEF service, ServiceTyped
<1>5. Post \/ (\E b \in wire : Ingest(b) \/ IngestPart(b)) \/ UNCHANGED service
      BY DEF StampNext, stampVars, ClockTick, Look, Poll, Enqueue, NothingToPost, Answered, NoAnswer,
             CrashBetween, CrashSavingState, CrashSavingOutbox, Die, StartAgain
<1> QED BY <1>1, <1>2, <1>3, <1>4, <1>5

LEMMA KeptTypedStep == StampTyped /\ [StampNext]_stampVars => KeptTyped'
<1> SUFFICES ASSUME StampTyped, [StampNext]_stampVars PROVE KeptTyped'
    OBVIOUS
<1> USE DEF StampTyped
<1>1. CASE Poll
      <2> DEFINE keep == {i \in Unread : KeptRow(i)}
      <2>1. /\ kept' = kept \cup {[event |-> i, at |-> now] : i \in keep}
            /\ torn' = torn
            BY <1>1 DEF Poll
      <2>2. keep \subseteq Serials
            BY PageOfLog
      <2>3. now \in 0..MaxTime
            BY DEF ClocksTyped
      <2> HIDE DEF keep
      <2> QED BY <2>1, <2>2, <2>3 DEF KeptTyped
<1>2. CASE CrashSavingState \/ CrashSavingOutbox
      BY <1>2 DEF CrashSavingState, CrashSavingOutbox, Die, KeptTyped
<1>3. CASE UNCHANGED <<kept, torn>>
      BY <1>3 DEF KeptTyped
<1>4. Poll \/ CrashSavingState \/ CrashSavingOutbox \/ UNCHANGED <<kept, torn>>
      BY DEF StampNext, stampVars, watched, ClockTick, Look, Enqueue, Post, NothingToPost, Answered, NoAnswer,
             Ingest, IngestPart, CrashBetween, Die, StartAgain
<1> QED BY <1>1, <1>2, <1>3, <1>4

LEMMA StampTypedStep ==
    StampTyped /\ QueuedOnce /\ [StampNext]_stampVars => StampTyped' /\ QueuedOnce'
BY ClocksStep, LogStep, StateStep, QueueStep, StageStep, ServiceStep, KeptTypedStep DEF StampTyped


(* Every variable of the stamp path keeps its type: the queue never grows  *)
(* over MaxOutbox, and outside of a poll nothing is held in memory only.   *)
THEOREM StampTypeCorrect == StampSpec => []StampTypeOK
<1>1. StampInit => StampTyped /\ QueuedOnce
      BY InitStampTyped
<1>2. StampTyped /\ QueuedOnce /\ [StampNext]_stampVars => (StampTyped /\ QueuedOnce)'
      BY StampTypedStep
<1>3. StampTyped => StampTypeOK
      BY StampTypedIsTypeOK
<1> QED BY <1>1, <1>2, <1>3, PTL DEF StampSpec

-----------------------------------------------------------------------------
(* ReadOnce.  As long as the state file is whole, what was kept is marked  *)
(* as read, and its person's debounce began no earlier; and no date lies   *)
(* in the future.                                                          *)
DatesPast == lastPoll <= now /\ \A p \in Persons : lastAt[p] <= now

KeptMarked ==
    "state" \notin torn =>
        \A k \in kept : k.event \in seen /\ k.at <= lastAt[Face[k.event]]

Watched == DatesPast /\ KeptMarked /\ KeptApart /\ NoneMissed

LEMMA InitWatched == StampInit => Watched
<1> SUFFICES ASSUME StampInit PROVE Watched
    OBVIOUS
<1>1. /\ terminal = <<>> /\ kept = {} /\ lastPoll = 0 /\ now = 0
      /\ \A p \in Persons : lastAt[p] = Never
      BY DEF StampInit
<1>2. Len(terminal) = 0 /\ Never <= 0
      BY <1>1, StampConstants DEF Never
<1> QED BY <1>1, <1>2 DEF Watched, DatesPast, KeptMarked, KeptApart, NoneMissed

LEMMA DatesStep == StampTyped /\ DatesPast /\ [StampNext]_stampVars => DatesPast'
<1> SUFFICES ASSUME StampTyped, DatesPast, [StampNext]_stampVars PROVE DatesPast'
    OBVIOUS
<1>0. /\ now \in Nat /\ lastPoll \in Nat /\ \A p \in Persons : lastAt[p] \in Int
      /\ Never \in Int /\ Never <= 0
      BY StampConstants DEF StampTyped, ClocksTyped, StateTyped, Never
<1>1. CASE ClockTick
      <2>1. now' = now + 1 /\ lastPoll' = lastPoll /\ lastAt' = lastAt
            BY <1>1 DEF ClockTick, watched, files
      <2> QED BY <1>0, <2>1 DEF DatesPast
<1>2. CASE Poll
      <2> DEFINE persons == {Face[i] : i \in {i \in Unread : KeptRow(i)}}
      <2>1. /\ lastAt' = [p \in Persons |-> IF p \in persons THEN now ELSE lastAt[p]]
            /\ now' = now /\ lastPoll' = now
            BY <1>2 DEF Poll
      <2> HIDE DEF persons
      <2>2. \A p \in Persons : lastAt'[p] <= now
            BY <1>0, <2>1 DEF DatesPast
      <2> QED BY <1>0, <2>1, <2>2 DEF DatesPast
<1>3. CASE CrashSavingState
      <2>1. /\ lastAt' = [p \in Persons |-> Never]
            /\ now' = now /\ lastPoll' = lastPoll
            BY <1>3 DEF CrashSavingState, Die
      <2>2. \A p \in Persons : lastAt'[p] <= now
            BY <1>0, <2>1
      <2> QED BY <2>1, <2>2 DEF DatesPast
<1>4. CASE UNCHANGED <<now, lastPoll, lastAt>>
      BY <1>4 DEF DatesPast
<1>5. ClockTick \/ Poll \/ CrashSavingState \/ UNCHANGED <<now, lastPoll, lastAt>>
      BY DEF StampNext, stampVars, files, watched, Look, Enqueue, Post, NothingToPost, Answered, NoAnswer,
             Ingest, IngestPart, CrashBetween, CrashSavingOutbox, Die, StartAgain
<1> QED BY <1>1, <1>2, <1>3, <1>4, <1>5

(* A poll marks what it keeps and keeps what is new, a debounce after what *)
(* was kept of the person before.                                          *)
LEMMA PollKeeps ==
    ASSUME StampTyped, DatesPast, KeptMarked, KeptApart, Poll
    PROVE  KeptMarked' /\ KeptApart'
<1> SUFFICES ASSUME "state" \notin torn PROVE KeptMarked' /\ KeptApart'
    BY DEF Poll, KeptMarked, KeptApart
<1> DEFINE keep == {i \in Unread : KeptRow(i)}
           persons == {Face[i] : i \in keep}
<1>1. /\ seen' = seen \cup Unread
      /\ lastAt' = [p \in Persons |-> IF p \in persons THEN now ELSE lastAt[p]]
      /\ kept' = kept \cup {[event |-> i, at |-> now] : i \in keep}
      /\ torn' = torn /\ now' = now
      BY DEF Poll
<1>2. /\ keep \subseteq Unread /\ keep \subseteq Serials
      /\ \A i \in keep : i \notin seen /\ KeptRow(i)
      BY PageOfLog DEF StampTyped, Unread
<1>3. /\ now \in Nat /\ \A p \in Persons : lastAt[p] \in Int /\ lastAt[p] <= now
      /\ Debounce \in Nat
      /\ \A i \in Serials : Face[i] \in Persons /\ i \in Nat
      BY StampConstants, SerialsAreNumbers DEF StampTyped, ClocksTyped, StateTyped, Never, DatesPast
<1>4. \A k \in kept : /\ k.event \in Serials /\ k.at \in Nat /\ k.event \in seen
                      /\ k.at <= lastAt[Face[k.event]]
      BY DEF StampTyped, KeptTyped, KeptMarked
<1>5. \A k \in kept' : k \in kept \/ (k.event \in keep /\ k = [event |-> k.event, at |-> now] /\ k.at = now)
      BY <1>1
<1> HIDE DEF keep
<1>6. KeptMarked'
      <2> SUFFICES ASSUME NEW k \in kept'
                   PROVE  k.event \in seen' /\ k.at <= lastAt'[Face[k.event]]
          BY DEF KeptMarked
      <2>1. CASE k \in kept
            <3>1. Face[k.event] \in Persons
                  BY <1>3, <1>4, <2>1
            <3>2. lastAt[Face[k.event]] <= lastAt'[Face[k.event]]
                  BY <1>1, <1>3, <3>1
            <3>3. lastAt'[Face[k.event]] \in Int
                  BY <1>1, <1>3, <3>1
            <3> QED BY <1>1, <1>3, <1>4, <2>1, <3>1, <3>2, <3>3
      <2>2. CASE k.event \in keep /\ k.at = now
            <3>1. Face[k.event] \in persons /\ Face[k.event] \in Persons
                  BY <1>2, <1>3, <2>2
            <3>2. lastAt'[Face[k.event]] = now
                  BY <1>1, <3>1
            <3> QED BY <1>1, <1>2, <1>3, <2>2, <3>2
      <2> QED BY <1>5, <2>1, <2>2
<1>7. ASSUME NEW k \in kept, NEW l \in kept', l.event \in keep, l.at = now, Face[k.event] = Face[l.event]
      PROVE  k.event # l.event /\ l.at - k.at >= Debounce
      <2>1. k.event # l.event
            BY <1>2, <1>4, <1>7
      <2>2. now - lastAt[Face[l.event]] >= Debounce
            BY <1>2, <1>7 DEF KeptRow
      <2>3. k.at <= lastAt[Face[l.event]] /\ k.at \in Nat /\ lastAt[Face[l.event]] \in Int
            BY <1>2, <1>3, <1>4, <1>7
      <2> QED BY <1>3, <1>7, <2>1, <2>2, <2>3
<1>8. KeptApart'
      <2> SUFFICES ASSUME NEW k \in kept', NEW l \in kept', Face[k.event] = Face[l.event], k # l
                   PROVE  /\ k.event # l.event
                          /\ k.at - l.at >= Debounce \/ l.at - k.at >= Debounce
          BY DEF KeptApart
      <2>1. CASE k \in kept /\ l \in kept
            BY <2>1 DEF KeptApart
      <2>2. CASE k \in kept /\ l.event \in keep /\ l.at = now
            BY <1>7, <2>2
      <2>3. CASE l \in kept /\ k.event \in keep /\ k.at = now
            BY <1>7, <2>3
      <2>4. CASE /\ k.event \in keep /\ k = [event |-> k.event, at |-> now]
                 /\ l.event \in keep /\ l = [event |-> l.event, at |-> now]
            <3>1. k.event \in Unread /\ l.event \in Unread /\ KeptRow(k.event) /\ KeptRow(l.event)
                  BY <1>2, <2>4
            <3>2. k.event <= l.event /\ l.event <= k.event
                  BY <3>1 DEF KeptRow
            <3>3. k.event = l.event
                  BY <1>2, <1>3, <2>4, <3>2
            <3> QED BY <2>4, <3>3
      <2> QED BY <1>5, <2>1, <2>2, <2>3, <2>4
<1> QED BY <1>6, <1>8

(* A poll in time reads every event from before it: an event since the     *)
(* last poll is in the window, and the window is the page.                 *)
LEMMA PollReads ==
    ASSUME StampTyped, DatesPast, NoneMissed, Poll
    PROVE  NoneMissed'
<1> SUFFICES ASSUME ~blind', "state" \notin torn', NEW i \in 1..Len(terminal'), terminal'[i] < lastPoll'
             PROVE  i \in seen'
    BY DEF NoneMissed
<1>1. /\ terminal' = terminal /\ lastPoll' = now /\ torn' = torn
      /\ blind' = (blind \/ now - lastPoll > Lookback \/ Cardinality(Window) > MaxResults)
      /\ seen' = seen \cup Unread
      BY DEF Poll
<1>2. ~blind /\ ~(now - lastPoll > Lookback) /\ ~(Cardinality(Window) > MaxResults)
      BY <1>1
<1>3. CASE terminal[i] < lastPoll
      BY <1>1, <1>2, <1>3 DEF NoneMissed
<1>4. CASE ~(terminal[i] < lastPoll)
      <2>1. /\ now \in Nat /\ lastPoll \in Nat /\ terminal[i] \in Nat /\ Lookback \in Nat
            /\ MaxResults \in Nat /\ i \in 1..Len(terminal)
            BY <1>1, StampConstants DEF StampTyped, ClocksTyped, LogTyped
      <2>2. i \in Window
            BY <1>2, <1>4, <2>1 DEF Window
      <2>3. IsFiniteSet(Window)
            <3>1. MaxFaces \in Int /\ IsFiniteSet(1..MaxFaces)
                  BY StampConstants, FS_Interval
            <3>2. Window \in SUBSET (1..MaxFaces)
                  BY PageOfLog DEF StampTyped, Serials
            <3> QED BY <3>1, <3>2, FS_Subset
      <2>4. Cardinality({j \in Window : j <= i}) <= MaxResults
            <3> DEFINE upTo == {j \in Window : j <= i}
            <3>1. upTo \in SUBSET Window
                  OBVIOUS
            <3> HIDE DEF upTo
            <3>2. IsFiniteSet(upTo) /\ Cardinality(upTo) <= Cardinality(Window)
                  BY <2>3, <3>1, FS_Subset
            <3>3. Cardinality(upTo) \in Nat /\ Cardinality(Window) \in Nat
                  BY <2>3, <3>2, FS_CardinalityType
            <3>4. Cardinality(upTo) <= MaxResults
                  BY <1>2, <2>1, <3>2, <3>3
            <3> QED BY <3>4 DEF upTo
      <2> QED BY <1>1, <2>2, <2>4 DEF Unread, Page
<1> QED BY <1>3, <1>4

LEMMA WatchedStep == StampTyped /\ Watched /\ [StampNext]_stampVars => Watched'
<1> SUFFICES ASSUME StampTyped, Watched, [StampNext]_stampVars PROVE Watched'
    OBVIOUS
<1>0. DatesPast'
      BY DatesStep DEF Watched
<1>1. CASE Poll
      BY <1>0, <1>1, PollKeeps, PollReads DEF Watched
<1>2. CASE CrashSavingState
      <2>1. "state" \in torn'
            BY <1>2 DEF CrashSavingState
      <2> QED BY <1>0, <2>1 DEF Watched, KeptMarked, KeptApart, NoneMissed
<1>3. CASE Look
      <2>1. terminal' = Append(terminal, now) /\ UNCHANGED <<seen, lastAt, watched>>
            BY <1>3 DEF Look, files
      <2>2. terminal \in Seq(0..MaxTime) /\ now \in 0..MaxTime /\ lastPoll \in Nat /\ lastPoll <= now
            BY DEF StampTyped, LogTyped, ClocksTyped, Watched, DatesPast
      <2>3. /\ Len(terminal') = Len(terminal) + 1 /\ terminal'[Len(terminal) + 1] = now
            /\ \A i \in 1..Len(terminal) : terminal'[i] = terminal[i]
            BY <2>1, <2>2, AppendProperties
      <2>4. \A i \in 1..Len(terminal') : terminal'[i] < lastPoll => i \in 1..Len(terminal) /\ terminal[i] < lastPoll
            BY <2>2, <2>3
      <2>5. KeptMarked' /\ KeptApart'
            BY <2>1 DEF Watched, KeptMarked, KeptApart, watched
      <2>6. NoneMissed'
            BY <2>1, <2>4 DEF Watched, NoneMissed, watched
      <2> QED BY <1>0, <2>5, <2>6 DEF Watched
<1>4. CASE UNCHANGED <<seen, lastAt, terminal, kept, lastPoll, blind>> /\ torn \subseteq torn'
      BY <1>0, <1>4 DEF Watched, KeptMarked, KeptApart, NoneMissed
<1>5. \/ Poll \/ CrashSavingState \/ Look
      \/ UNCHANGED <<seen, lastAt, terminal, kept, lastPoll, blind>> /\ torn \subseteq torn'
      BY DEF StampNext, stampVars, files, watched, ClockTick, Enqueue, Post, NothingToPost, Answered, NoAnswer,
             Ingest, IngestPart, CrashBetween, CrashSavingOutbox, Die, StartAgain
<1> QED BY <1>1, <1>2, <1>3, <1>4, <1>5

(* Every event of the terminal is read, kept and queued once: it is in the *)
(* queue at most once always; while the state file is whole, two kept      *)
(* events of a person are a debounce apart; and while polls come in time   *)
(* and windows fit a page, none is missed.                                 *)
THEOREM EventsReadOnce == StampSpec => []ReadOnce
<1> DEFINE Inv == StampTyped /\ QueuedOnce /\ Watched
<1>1. StampInit => Inv
      BY InitStampTyped, InitWatched
<1>2. Inv /\ [StampNext]_stampVars => Inv'
      BY StampTypedStep, WatchedStep
<1>3. Inv => ReadOnce
      BY StampTypedIsTypeOK DEF ReadOnce, Watched
<1> QED BY <1>1, <1>2, <1>3, PTL DEF StampSpec

-----------------------------------------------------------------------------
(* Custody.  While a post is under way, its batch is the front of the      *)
(* queue; once it is answered, the server has the whole batch.             *)
AnsweredHas == stage = "posting" /\ answered => ElementsOf(Batch) \subseteq received

LEMMA AnsweredHasStep == AnsweredHas /\ [StampNext]_stampVars => AnsweredHas'
<1> SUFFICES ASSUME AnsweredHas, [StampNext]_stampVars PROVE AnsweredHas'
    OBVIOUS
<1>1. CASE \E b \in wire : Ingest(b)
      <2>1. PICK b \in wire : Ingest(b)
            BY <1>1
      <2>2. /\ Batch' = Batch /\ stage' = stage /\ received' = received \cup ElementsOf(b)
            /\ answered' = (answered \/ (stage = "posting" /\ b = Batch))
            BY <2>1 DEF Ingest, files, Batch
      <2>3. CASE b = Batch
            BY <2>2, <2>3 DEF AnsweredHas
      <2>4. CASE b # Batch
            BY <2>2, <2>4 DEF AnsweredHas
      <2> QED BY <2>3, <2>4
<1>2. CASE stage' # "posting" \/ answered' = FALSE
      BY <1>2 DEF AnsweredHas
<1>3. CASE UNCHANGED <<stage, answered, outbox>> /\ received \subseteq received'
      <2>1. Batch' = Batch
            BY <1>3 DEF Batch
      <2> QED BY <1>3, <2>1 DEF AnsweredHas
<1>4. \/ \E b \in wire : Ingest(b)
      \/ stage' # "posting" \/ answered' = FALSE
      \/ UNCHANGED <<stage, answered, outbox>> /\ received \subseteq received'
      BY DEF StampNext, stampVars, files, service, ClockTick, Look, Poll, Enqueue, Post, NothingToPost,
             Answered, NoAnswer, IngestPart, CrashBetween, CrashSavingState, CrashSavingOutbox, Die,
             StartAgain
<1> QED BY <1>1, <1>2, <1>3, <1>4

(* Queueing loses only what MaxOutbox newer events push out.               *)
LEMMA EnqueuePushes ==
    ASSUME StampTyped, QueuedOnce, Enqueue, NEW i \in InHand \ InHand'
    PROVE  PushedOut(i)
<1> DEFINE d == Len(Line) - Len(Saved(Line))
<1>1. /\ outbox' = Saved(Line) /\ fresh' = {}
      BY DEF Enqueue
<1>2. /\ Line \in Seq(Serials) /\ Distinct(Line) /\ Len(Line) \in Nat
      /\ ElementsOf(Line) = InHand
      BY LineHolds DEF StampTyped, QueueTyped, InHand
<1>3. /\ Len(Saved(Line)) = Shorter(MaxOutbox, Len(Line)) /\ Saved(Line) \in Seq(Serials)
      /\ \A n \in 1..Len(Saved(Line)) : Saved(Line)[n] = Line[d + n]
      BY SavedLine DEF StampTyped
<1>4. /\ d \in Nat /\ Len(Saved(Line)) \in Nat /\ d + Len(Saved(Line)) = Len(Line)
      /\ (d > 0 => Len(Saved(Line)) = MaxOutbox)
      BY <1>2, <1>3, StampConstants DEF Shorter
<1> HIDE DEF d
<1>5. i \notin ElementsOf(Saved(Line)) /\ i \in ElementsOf(Line)
      BY <1>1, <1>2 DEF InHand
<1>6. ASSUME NEW n \in 1..Len(Line), n > d PROVE Line[n] \in ElementsOf(Saved(Line))
      <2>1. n - d \in 1..Len(Saved(Line)) /\ d + (n - d) = n
            BY <1>2, <1>4, <1>6
      <2>2. Saved(Line)[n - d] = Line[n]
            BY <1>3, <2>1
      <2> QED BY <1>3, <2>1, <2>2 DEF ElementsOf
<1>7. ASSUME NEW n \in 1..Len(Line), Line[n] = i PROVE n <= d
      BY <1>2, <1>4, <1>5, <1>6, <1>7
<1>8. ASSUME NEW m \in 1..Len(Line), Line[m] \in ElementsOf(Saved(Line)) PROVE m > d
      <2>1. PICK k \in 1..Len(Saved(Line)) : Saved(Line)[k] = Line[m]
            BY <1>3, <1>8 DEF ElementsOf
      <2>2. d + k \in 1..Len(Line) /\ Line[d + k] = Line[m] /\ d + k > d
            BY <1>3, <1>4, <2>1
      <2>3. d + k = m
            BY <1>2, <2>2 DEF Distinct
      <2> QED BY <2>2, <2>3
<1>9. d > 0
      <2>1. PICK n \in 1..Len(Line) : Line[n] = i
            BY <1>2, <1>5 DEF ElementsOf
      <2> QED BY <1>2, <1>4, <1>7, <2>1
<1>10. \A n, m \in DOMAIN Line : Line[n] = i /\ Line[m] \in ElementsOf(Saved(Line)) => n < m
      <2>1. DOMAIN Line = 1..Len(Line)
            BY <1>2
      <2>2. ASSUME NEW n \in 1..Len(Line), NEW m \in 1..Len(Line), Line[n] = i,
                   Line[m] \in ElementsOf(Saved(Line))
            PROVE  n < m
            <3>1. n <= d /\ m > d /\ n \in Int /\ m \in Int
                  BY <1>2, <1>7, <1>8, <2>2
            <3> QED BY <1>4, <3>1
      <2> QED BY <2>1, <2>2
<1>11. Len(outbox') = MaxOutbox
      BY <1>1, <1>4, <1>9
<1>12. ElementsOf(outbox') = ElementsOf(Saved(Line))
      BY <1>1
<1> QED BY <1>10, <1>11, <1>12 DEF PushedOut

(* An answer drops the batch and nothing else.                             *)
LEMMA AnsweredDrops ==
    ASSUME StampTyped, AnsweredHas, Answered, NEW i \in InHand \ InHand'
    PROVE  i \in received
<1>1. stage = "posting" /\ answered /\ outbox' = Remaining /\ fresh' = fresh
      BY DEF Answered
<1>2. /\ outbox \in Seq(Serials) /\ Len(outbox) \in Nat
      /\ Batch \in Seq(Serials) /\ Len(Batch) \in Nat /\ Len(Batch) <= Len(outbox)
      /\ \A n \in 1..Len(Batch) : Batch[n] = outbox[n]
      /\ Remaining \in Seq(Serials) /\ Len(Remaining) = Len(outbox) - Len(Batch)
      /\ \A n \in 1..Len(Remaining) : Remaining[n] = outbox[Len(Batch) + n]
      <2>1. QueueTyped
            BY DEF StampTyped
      <2>2. outbox \in Seq(Serials) /\ Len(outbox) \in Nat
            BY <2>1 DEF QueueTyped
      <2>3. /\ Batch \in Seq(Serials) /\ Len(Batch) <= Len(outbox)
            /\ \A n \in 1..Len(Batch) : Batch[n] = outbox[n]
            /\ Remaining \in Seq(Serials) /\ Len(Remaining) = Len(outbox) - Len(Batch)
            /\ \A n \in 1..Len(Remaining) : Remaining[n] = outbox[Len(Batch) + n]
            BY <2>1, RemainingPart
      <2>4. Len(Batch) \in Nat
            BY <2>3
      <2> QED BY <2>2, <2>3, <2>4
<1>3. i \in ElementsOf(outbox) /\ i \notin ElementsOf(Remaining)
      BY <1>1 DEF InHand
<1>4. PICK n \in 1..Len(outbox) : outbox[n] = i
      BY <1>2, <1>3 DEF ElementsOf
<1>5. CASE n <= Len(Batch)
      <2>1. n \in 1..Len(Batch) /\ Batch[n] = i
            BY <1>2, <1>4, <1>5
      <2>2. i \in ElementsOf(Batch)
            BY <1>2, <2>1 DEF ElementsOf
      <2> QED BY <1>1, <2>2 DEF AnsweredHas
<1>6. CASE n > Len(Batch)
      <2>1. n - Len(Batch) \in 1..Len(Remaining) /\ Len(Batch) + (n - Len(Batch)) = n
            BY <1>2, <1>6
      <2>2. Remaining[n - Len(Batch)] = i
            BY <1>2, <1>4, <2>1
      <2> QED BY <1>2, <1>3, <2>1, <2>2 DEF ElementsOf
<1> QED BY <1>2, <1>5, <1>6

LEMMA CustodyByStep ==
    StampTyped /\ QueuedOnce /\ AnsweredHas /\ [StampNext]_stampVars => [CustodyStep]_stampVars
<1> SUFFICES ASSUME StampTyped, QueuedOnce, AnsweredHas, StampNext,
                    NEW i \in InHand \ InHand'
             PROVE  \/ i \in received
                    \/ stage' = "down" /\ (i \in fresh \/ outbox' = <<>>)
                    \/ PushedOut(i)
    BY DEF CustodyStep
<1>1. CASE Enqueue
      BY <1>1, EnqueuePushes
<1>2. CASE Answered
      BY <1>2, AnsweredDrops
<1>3. CASE CrashSavingOutbox
      BY <1>3 DEF CrashSavingOutbox, Die
<1>4. CASE CrashBetween \/ CrashSavingState
      BY <1>4 DEF CrashBetween, CrashSavingState, Die, files, InHand
<1>5. CASE Poll
      <2>1. stage # "saved" /\ outbox' = outbox
            BY <1>5 DEF Poll
      <2>2. fresh = {}
            BY <2>1 DEF StampTyped, StageTyped
      <2> QED BY <2>1, <2>2 DEF InHand
<1>6. CASE UNCHANGED <<outbox, fresh>>
      BY <1>6 DEF InHand
<1>7. \/ Enqueue \/ Answered \/ CrashSavingOutbox \/ CrashBetween \/ CrashSavingState \/ Poll
      \/ UNCHANGED <<outbox, fresh>>
      BY DEF StampNext, files, ClockTick, Look, Post, NothingToPost, NoAnswer, Ingest, IngestPart, StartAgain
<1> QED BY <1>1, <1>2, <1>3, <1>4, <1>5, <1>6, <1>7

(* An event the agent has kept leaves its hands only when the server has   *)
(* ingested it, by a crash, or pushed out of a full queue: whatever        *)
(* answers are lost or late and however posts are cut up or repeated.      *)
THEOREM EventsInCustody == StampSpec => Custody
<1> DEFINE Inv == StampTyped /\ QueuedOnce /\ AnsweredHas
<1>1. StampInit => Inv
      BY InitStampTyped DEF StampInit, AnsweredHas
<1>2. Inv /\ [StampNext]_stampVars => Inv'
      BY StampTypedStep, AnsweredHasStep
<1>3. Inv /\ [StampNext]_stampVars => [CustodyStep]_stampVars
      BY CustodyByStep
<1> QED BY <1>1, <1>2, <1>3, PTL DEF StampSpec, Custody

=============================================================================
