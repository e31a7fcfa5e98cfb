------------------------------ MODULE AgentLoop ------------------------------
(***************************************************************************)
(* The main loop of the relay agent (relay-agent/index.js, faceid-         *)
(* schedule.js): enrolment jobs and stamp polls share one terminal that    *)
(* takes one call at a time.  A round of the loop asks the server for the  *)
(* pending jobs, writes the face of the first one that is not cooling      *)
(* down, reports the result, polls the stamps (StampOutbox is what a poll  *)
(* does) and sleeps.                                                       *)
(*                                                                         *)
(* Dates are kept as ages and waits as the time left, both cut off where   *)
(* the code can no longer tell the difference, so the clock needs no       *)
(* bound.  Time passes while the loop sleeps and while the terminal is     *)
(* written or polled; what a request to the server takes is counted to the *)
(* sleep.  The server's handlers (agent.service.ts) are single steps.      *)
(***************************************************************************)
EXTENDS Integers, FiniteSets

CONSTANTS
    Jobs,         \* registrations of drivers at this terminal
    Settle,       \* DEVICE_SETTLE_MS
    EnrolEvery,   \* time between two looks at the queue
    EnrolMost,    \* the same while the server does not answer, at most
    StampEvery,   \* time between two stamp polls
    Cooldown,     \* wait of a job after a network error
    MaxRetries,   \* MAX_TRANSIENT_ENROLL_RETRIES
    PauseBase,    \* pause of the stamp polls after a first failure
    PauseMost,    \* and at most
    Many,         \* jobs that make a queue "stuck"
    MaxAge,       \* STUCK_QUEUE_MAX_AGE_MS
    ClearEvery,   \* time between two attempts to clear the queue
    LongSleep,    \* sleep of a round that left the jobs cooling down
    OtherAgents,  \* whether agents of other terminals clear the queue too
    MaxEvents     \* bound on crashes, jobs queued again and clears by other agents, together

ASSUME LoopAssumption ==
    /\ IsFiniteSet(Jobs)
    /\ {Settle, MaxAge, ClearEvery, MaxEvents} \subseteq Nat
    /\ {EnrolEvery, StampEvery, Cooldown, MaxRetries, PauseBase, Many, LongSleep}
          \subseteq Nat \ {0}
    /\ OtherAgents \in BOOLEAN
    /\ EnrolMost \in Nat /\ EnrolMost >= EnrolEvery
    /\ PauseMost \in Nat /\ PauseMost >= PauseBase

VARIABLES
    row,          \* server: the state of each registration; "denied" is FAILED
                  \* with the face id of an earlier success
    rowAge,       \* server: age of the row (createdAt)
    written,      \* terminal: the faces it has taken
    pc, cur,      \* where the loop is and the job it works on
    mayTouch,     \* canTouchDevice, computed before the queue is read
    cool,         \* enrollCooldownUntil: time left
    fails,        \* enrollFailureCount
    coolingDown,  \* every pending job was cooling down at the last look
    enrolAge, enrolEvery, stampAge, clearAge,
    sinceEnrol,   \* age of lastEnrollTouchAt
    sinceStamp,   \* age of lastStampTouchAt
    backoff,      \* the pause after the next failure of a stamp poll
    pause,        \* time left to stampPauseUntil
    sleep,        \* time left to sleep
    calledFor,    \* history: what the terminal was last called for
    sinceCall,    \* history: time since that call ended
    restarted,    \* history: whether the agent has been stopped since
    events        \* how many of the events MaxEvents bounds have happened

server == <<row, rowAge>>
schedule == <<coolingDown, enrolAge, enrolEvery, stampAge, sinceEnrol, sinceStamp,
              backoff, pause, sleep>>
queue == <<cool, fails, clearAge>>
history == <<calledFor, sinceCall, restarted>>
vars == <<server, written, pc, cur, mayTouch, queue, schedule, history, events>>

NoJob == "none"
Least(m, n) == IF m < n THEN m ELSE n
Older(age, most) == Least(age + 1, most)
Less(wait) == IF wait = 0 THEN 0 ELSE wait - 1

Places == {"down", "start", "enrol", "list", "clear", "write", "ack", "nack",
           "stamp", "poll", "sleep"}

(* Type invariant *)
TypeOK ==
    /\ row \in [Jobs -> {"none", "pending", "failed", "synced", "denied", "removed"}]
    /\ rowAge \in [Jobs -> 0..MaxAge + 1]
    /\ written \subseteq Jobs
    /\ pc \in Places /\ cur \in Jobs \cup {NoJob} /\ mayTouch \in BOOLEAN
    /\ pc \in {"write", "ack", "nack"} => cur \in Jobs
    /\ cool \in [Jobs -> 0..Cooldown] /\ fails \in [Jobs -> 0..MaxRetries - 1]
    /\ coolingDown \in BOOLEAN
    /\ enrolEvery \in EnrolEvery..EnrolMost /\ enrolAge \in 0..EnrolMost
    /\ stampAge \in 0..StampEvery /\ clearAge \in 0..ClearEvery
    /\ sinceEnrol \in 0..Settle /\ sinceStamp \in 0..Settle
    /\ backoff \in PauseBase..PauseMost /\ pause \in 0..PauseMost
    /\ sleep \in 0..LongSleep
    /\ calledFor \in {"none", "enrol", "stamp"} /\ sinceCall \in 0..Settle
    /\ restarted \in BOOLEAN
    /\ events \in 0..MaxEvents

(* What a process that starts knows. *)
Fresh == /\ cool = [j \in Jobs |-> 0] /\ fails = [j \in Jobs |-> 0]
         /\ clearAge = ClearEvery
         /\ coolingDown = FALSE
         /\ enrolEvery = EnrolEvery /\ enrolAge = EnrolMost /\ stampAge = StampEvery
         /\ sinceEnrol = Settle /\ sinceStamp = Settle
         /\ backoff = PauseBase /\ pause = 0 /\ sleep = 0
         /\ mayTouch = FALSE /\ cur = NoJob

Init == /\ row = [j \in Jobs |-> "none"]
        /\ rowAge = [j \in Jobs |-> 0]
        /\ written = {}
        /\ pc = "start"
        /\ Fresh
        /\ calledFor = "none" /\ sinceCall = Settle /\ restarted = FALSE
        /\ events = 0

----------------------------------------------------------------------------
(* The server and its staff *)

Pending == {j \in Jobs : row[j] = "pending"}

(* A driver is added with a photo. *)
AddJob(j) == /\ row[j] = "none"
             /\ row' = [row EXCEPT ![j] = "pending"]
             /\ rowAge' = [rowAge EXCEPT ![j] = 0]
             /\ UNCHANGED <<written, pc, cur, mayTouch, queue, schedule, history, events>>

(* requeueEnrollment or a new photo: the upsert keeps the row's createdAt. *)
Requeue(j) == /\ row[j] \in {"failed", "synced", "denied"}
              /\ events < MaxEvents
              /\ events' = events + 1
              /\ row' = [row EXCEPT ![j] = "pending"]
               /\ UNCHANGED <<rowAge, written, pc, cur, mayTouch, queue, schedule, history>>

(* Mutant: only the rows that have failed are deleted. *)
Cleared_OnlyFailed == [j \in Jobs |-> IF row[j] = "failed" THEN "removed" ELSE row[j]]

(* resetEnrollmentBacklog: rows without a face id are deleted. *)
Cleared == [j \in Jobs |-> IF row[j] \in {"pending", "failed"} THEN "removed" ELSE row[j]]

ClearElsewhere == /\ OtherAgents
                  /\ events < MaxEvents
                  /\ events' = events + 1
                  /\ row' = Cleared
                  /\ UNCHANGED <<rowAge, written, pc, cur, mayTouch, queue,
                                 schedule, history>>

(* ack: a success, and a failure that leaves an earlier face id in place.  *)
Acked(j) == IF row[j] \in {"none", "removed"} THEN row ELSE [row EXCEPT ![j] = "synced"]

Denied(j) ==
    CASE row[j] \in {"none", "removed"}   -> row
      [] row[j] \in {"synced", "denied"}  -> [row EXCEPT ![j] = "denied"]
      [] OTHER                            -> [row EXCEPT ![j] = "failed"]

----------------------------------------------------------------------------
(* A round of the loop: pollOnce, when it is due *)

Go(place) == pc' = place

(* What pollOnce returns, and main's use of it. *)
Result(cooling, touched) ==
    /\ coolingDown' = cooling
    /\ sinceEnrol' = IF touched THEN 0 ELSE sinceEnrol
    /\ enrolEvery' = EnrolEvery
    /\ cur' = NoJob /\ mayTouch' = FALSE
    /\ Go("stamp")
    /\ UNCHANGED <<enrolAge, stampAge, sinceStamp, backoff, pause, sleep>>

LookAtQueue ==
    /\ pc = "enrol"
    /\ IF enrolAge >= enrolEvery
       THEN enrolAge' = 0 /\ mayTouch' = (sinceStamp >= Settle) /\ Go("list")
       ELSE UNCHANGED <<enrolAge, mayTouch>> /\ Go("stamp")
    /\ UNCHANGED <<server, written, cur, queue, history, events, coolingDown, enrolEvery,
                   stampAge, sinceEnrol, sinceStamp, backoff, pause, sleep>>

(* The server does not answer, or refuses: a network error slows down. *)
ListFails ==
    /\ pc = "list"
    /\ enrolEvery' \in {enrolEvery, Least(2 * enrolEvery, EnrolMost)}
    /\ mayTouch' = FALSE
    /\ Go("stamp")
    /\ UNCHANGED <<server, written, cur, queue, history, events, coolingDown,
                   enrolAge, stampAge, sinceEnrol, sinceStamp, backoff, pause, sleep>>

Stuck == Cardinality(Pending) >= Many \/ \E j \in Pending : rowAge[j] > MaxAge

Ready == {j \in Pending : cool[j] = 0}

(* The queue is empty, cooling down, or has to wait for the terminal.      *)
NothingToDo ==
    /\ pc = "list"
    /\ ~Stuck
    /\ Ready = {} \/ ~mayTouch
    /\ Result(Pending # {} /\ Ready = {}, FALSE)
    /\ UNCHANGED <<server, written, queue, history, events>>

(* The queue is stuck: it is cleared, unless that was tried just now.      *)
TooSoonToClear ==
    /\ pc = "list"
    /\ Stuck
    /\ clearAge < ClearEvery
    /\ Result(FALSE, FALSE)
    /\ UNCHANGED <<server, written, queue, history, events>>

AskToClear ==
    /\ pc = "list"
    /\ Stuck
    /\ clearAge >= ClearEvery
    /\ clearAge' = 0
    /\ mayTouch' = FALSE
    /\ Go("clear")
    /\ UNCHANGED <<server, written, cur, cool, fails, schedule, history, events>>

(* The server clears or not; the agent forgets its counts when it hears so. *)
Clear == /\ pc = "clear"
         /\ row' = Cleared
         /\ \/ cool' = [j \in Jobs |-> 0] /\ fails' = [j \in Jobs |-> 0]
            \/ UNCHANGED <<cool, fails>>
         /\ Result(FALSE, FALSE)
         /\ UNCHANGED <<rowAge, written, clearAge, history, events>>

ClearFails == /\ pc = "clear"
              /\ Result(FALSE, FALSE)
              /\ UNCHANGED <<server, written, queue, history, events>>

(* The oldest job that is ready.                                            *)
TakeJob ==
    /\ pc = "list"
    /\ ~Stuck
    /\ mayTouch
    /\ \E j \in Ready :
          /\ \A k \in Ready : rowAge[k] <= rowAge[j]
          /\ cur' = j
    /\ mayTouch' = FALSE
    /\ Go("write")
    /\ UNCHANGED <<server, written, queue, schedule, history, events>>

----------------------------------------------------------------------------
(* The attempt: photo, enrollOnDevice, ack                                  *)

Called(kind) == calledFor' = kind /\ sinceCall' = 0 /\ restarted' = FALSE

Forget == cool' = [cool EXCEPT ![cur] = 0] /\ fails' = [fails EXCEPT ![cur] = 0]

(* The job is reported as failed. *)
Deny == Forget /\ Go("nack") /\ UNCHANGED <<cur, mayTouch, schedule>>

(* A network error: the job cools down, or is given up after too many.      *)
TryLater == /\ fails[cur] + 1 < MaxRetries
            /\ fails' = [fails EXCEPT ![cur] = @ + 1]
            /\ cool' = [cool EXCEPT ![cur] = Cooldown]
            /\ Result(TRUE, TRUE)

GiveUp == fails[cur] + 1 >= MaxRetries /\ Deny

Failure == TryLater \/ GiveUp \/ Deny

(* Mutant: a refusal by the terminal is not noticed. *)
WriteFace_Unchecked == /\ pc = "write"
                       /\ written' \in {written, written \cup {cur}}
                       /\ Called("enrol")
                       /\ Go("ack")
                       /\ UNCHANGED <<server, cur, mayTouch, queue, schedule, events>>

WriteFace == /\ pc = "write"
             /\ written' = written \cup {cur}
             /\ Called("enrol")
             /\ Go("ack")
             /\ UNCHANGED <<server, cur, mayTouch, queue, schedule, events>>

(* No photo, before the terminal is called; or a call fails or times out,   *)
(* whatever the terminal made of it.                                        *)
WriteFails == /\ pc = "write"
              /\ Failure
              /\ \/ UNCHANGED <<written, history>>
                 \/ Called("enrol") /\ written' \in {written, written \cup {cur}}
              /\ UNCHANGED <<server, clearAge, events>>

Ack == /\ pc = "ack"
       /\ row[cur] \notin {"none", "removed"}
       /\ row' = Acked(cur)
       /\ Forget
       /\ Result(FALSE, TRUE)
       /\ UNCHANGED <<rowAge, written, clearAge, history, events>>

(* The row is gone (404), or the request or its answer is lost.             *)
AckFails == /\ pc = "ack"
            /\ row' \in {row, Acked(cur)}
            /\ Failure
            /\ UNCHANGED <<rowAge, written, clearAge, history, events>>

Nack == /\ pc = "nack"
        /\ row' = Denied(cur)
        /\ Result(FALSE, TRUE)
        /\ UNCHANGED <<rowAge, written, queue, history, events>>

NackFails == /\ pc = "nack"
             /\ Result(FALSE, TRUE)
             /\ UNCHANGED <<server, written, queue, history, events>>

----------------------------------------------------------------------------
(* The stamp poll, sleep and time                                           *)

(* Mutant: the enrolment's last touch of the terminal is not looked at. *)
ShouldPollStamp_AtOnce ==
    /\ ~coolingDown
    /\ pause = 0
    /\ stampAge >= StampEvery

ShouldPollStamp ==
    /\ ~coolingDown
    /\ sinceEnrol >= Settle
    /\ pause = 0
    /\ stampAge >= StampEvery

Rest == /\ sleep' = IF coolingDown THEN LongSleep ELSE 1
        /\ Go("sleep")
        /\ UNCHANGED <<server, written, cur, mayTouch, queue, events, coolingDown, enrolAge,
                       enrolEvery, sinceEnrol>>

SkipPoll == /\ pc = "stamp"
            /\ ~ShouldPollStamp
            /\ Rest
            /\ UNCHANGED <<stampAge, sinceStamp, backoff, pause, history>>

StartPoll == /\ pc = "stamp"
             /\ ShouldPollStamp
             /\ stampAge' = 0
             /\ Go("poll")
             /\ UNCHANGED <<server, written, cur, mayTouch, queue, history, events, coolingDown,
                            enrolAge, enrolEvery, sinceEnrol, sinceStamp, backoff, pause, sleep>>

PollDone == /\ pc = "poll"
            /\ backoff' = PauseBase
            /\ sinceStamp' = 0
            /\ Called("stamp")
            /\ Rest
            /\ UNCHANGED <<stampAge, pause>>

PollFails == /\ pc = "poll"
             /\ pause' = backoff
             /\ backoff' = Least(2 * backoff, PauseMost)
             /\ sinceStamp' = 0
             /\ Called("stamp")
             /\ Rest
             /\ UNCHANGED stampAge

Wake == /\ pc = "sleep"
        /\ sleep = 0
        /\ Go("enrol")
        /\ UNCHANGED <<server, written, cur, mayTouch, queue, schedule, history, events>>

Tick ==
    /\ pc \in {"down", "write", "poll"} \/ sleep > 0
    /\ rowAge' = [j \in Jobs |-> IF row[j] \in {"none", "removed"} THEN 0
                                 ELSE Older(rowAge[j], MaxAge + 1)]
    /\ cool' = [j \in Jobs |-> Less(cool[j])]
    /\ clearAge' = Older(clearAge, ClearEvery)
    /\ enrolAge' = Older(enrolAge, EnrolMost) /\ stampAge' = Older(stampAge, StampEvery)
    /\ sinceEnrol' = Older(sinceEnrol, Settle) /\ sinceStamp' = Older(sinceStamp, Settle)
    /\ pause' = Less(pause) /\ sleep' = Less(sleep)
    /\ sinceCall' = Older(sinceCall, Settle)
    /\ UNCHANGED <<row, written, pc, cur, mayTouch, fails, coolingDown, enrolEvery, backoff,
                   calledFor, restarted, events>>

(* What the terminal made of a call that its caller did not live to end.    *)
CutShort ==
    \/ UNCHANGED <<calledFor, sinceCall, written>>
    \/ /\ pc = "write"
       /\ calledFor' = "enrol" /\ sinceCall' = 0 /\ written' \in {written, written \cup {cur}}
    \/ /\ pc = "poll"
       /\ calledFor' = "stamp" /\ sinceCall' = 0 /\ UNCHANGED written

(* The window is closed, the power fails, or new agent files are loaded:    *)
(* the process forgets when the terminal was last called.                   *)
Crash == /\ pc # "down"
         /\ events < MaxEvents
         /\ events' = events + 1
         /\ pc' = "down"
         /\ cool' = [j \in Jobs |-> 0] /\ fails' = [j \in Jobs |-> 0]
         /\ clearAge' = ClearEvery
         /\ coolingDown' = FALSE
         /\ enrolEvery' = EnrolEvery /\ enrolAge' = EnrolMost /\ stampAge' = StampEvery
         /\ sinceEnrol' = Settle /\ sinceStamp' = Settle
         /\ backoff' = PauseBase /\ pause' = 0 /\ sleep' = 0
         /\ mayTouch' = FALSE /\ cur' = NoJob
         /\ CutShort /\ restarted' = TRUE
         /\ UNCHANGED server

Restart == /\ pc = "down"
           /\ Go("start")
           /\ UNCHANGED <<server, written, cur, mayTouch, queue, schedule, history, events>>

(* main before its loop: a long queue is cleared, if the server answers.    *)
Start == /\ pc = "start"
         /\ Go("enrol")
         /\ \/ UNCHANGED <<row, clearAge>>
            \/ Cardinality(Pending) >= Many /\ row' \in {row, Cleared} /\ clearAge' = 0
         /\ UNCHANGED <<rowAge, written, cur, mayTouch, cool, fails, schedule,
                        history, events>>

----------------------------------------------------------------------------
Round == \/ LookAtQueue \/ ListFails \/ NothingToDo \/ TooSoonToClear \/ AskToClear
         \/ Clear \/ ClearFails \/ TakeJob
         \/ WriteFace \/ WriteFails \/ Ack \/ AckFails \/ Nack \/ NackFails
         \/ SkipPoll \/ StartPoll \/ PollDone \/ PollFails \/ Wake \/ Restart \/ Start

Next == \/ \E j \in Jobs : AddJob(j) \/ Requeue(j)
        \/ ClearElsewhere \/ Round \/ Tick \/ Crash

Spec == Init /\ [][Next]_vars

(* Every wait of the loop ends (all calls have time limits), time passes    *)
(* while it sleeps, and of the calls it makes again and again some succeed: *)
(* the queue is read, a report of a failure arrives.                        *)
FairSpec == /\ Spec
            /\ WF_vars(Round)
            /\ WF_vars(pc = "sleep" /\ Tick)
            /\ SF_vars(TakeJob) /\ SF_vars(AskToClear)
            /\ SF_vars(Clear) /\ SF_vars(Nack)

----------------------------------------------------------------------------
(* Properties *)

(* "Each side only watches the OTHER side's last touch": the terminal is    *)
(* called for a stamp poll no sooner than Settle after a call for an        *)
(* enrolment, and the other way round, on every path of success and error,  *)
(* unless the agent was stopped since: the touches are in memory only, and  *)
(* a process that starts may call the terminal at once.                     *)
ApartStep ==
    /\ pc = "list" /\ pc' = "write" /\ calledFor = "stamp" => sinceCall >= Settle \/ restarted
    /\ pc = "stamp" /\ pc' = "poll" /\ calledFor = "enrol" => sinceCall >= Settle \/ restarted

Apart == [][ApartStep]_vars

(* The server lists a driver as enrolled only if the terminal took the face. *)
SyncedIsWritten == \A j \in Jobs : row[j] \in {"synced", "denied"} => j \in written

(* A job does not wait for ever: it is written, given up, or cleared.       *)
QueueMoves == \A j \in Jobs : row[j] = "pending" ~> row[j] # "pending"

============================================================================
