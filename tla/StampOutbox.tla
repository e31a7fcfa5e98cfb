----------------------------- MODULE StampOutbox -----------------------------
(***************************************************************************)
(* The stamp path of the relay agent (relay-agent/acs-events.js): it reads *)
(* the face events of the last Lookback units from the terminal, keeps the *)
(* first one of a person per Debounce, writes acs-state.json, queues what  *)
(* it kept in acs-outbox.json, and posts the queue in batches.             *)
(*                                                                         *)
(* An event is its serial number, the index in the terminal's log.  The    *)
(* two files survive a crash; readJson takes a file the crash cut short    *)
(* for an empty one.  A poll the terminal does not answer changes nothing  *)
(* and skips queueing and posting too: it is a stutter.                    *)
(*                                                                         *)
(* Left out: seenKeys is cut to its last 1500 entries above 2000 and a     *)
(* lastPersonAt older than an hour is dropped; both are far larger than a  *)
(* page of 20 events and the debounce.                                     *)
(*                                                                         *)
(* The names differ from those of AgentLoop, the agent's other half, so    *)
(* that RelayAgent_proofs may speak of both.                               *)
(***************************************************************************)
EXTENDS Integers, Sequences, FiniteSets

CONSTANTS
    Persons,     \* the terminal's Person IDs
    Face,        \* whose face each event of the terminal is
    Lookback,    \* length of the window a poll asks for
    MaxResults,  \* events on the one page a poll reads
    Debounce,    \* PERSON_DEBOUNCE_MS
    MaxOutbox,   \* events saveOutbox keeps
    BatchSize,   \* events of one post
    MaxTime,     \* bound on the clock
    MaxFaces,    \* bound on the terminal's events
    MaxCrashes   \* bound on the agent's crashes

ASSUME OutboxAssumption ==
    /\ {Lookback, MaxTime, MaxFaces, MaxCrashes} \subseteq Nat
    /\ Face \in [1..MaxFaces -> Persons]
    /\ {MaxResults, Debounce, MaxOutbox, BatchSize} \subseteq Nat \ {0}

VARIABLES
    now,       \* the clock
    terminal,  \* the terminal's log: the time of each event
    seen,      \* acs-state.json: the events read so far
    lastAt,    \* acs-state.json: when an event of a person was last kept
    outbox,    \* acs-outbox.json
    stage,     \* where the agent's loop is, "down" when it does not run
    fresh,     \* the events kept by this poll, in memory only
    wire,      \* batches on their way to the server or being ingested there
    answered,  \* the server has answered the post that is under way
    received,  \* events the server has ingested
    kept,      \* history: each event kept and when
    lastPoll,  \* history: when the terminal was last read
    blind,     \* history: a poll came too late or met more than a page
    torn,      \* history: the files a crash has cut short
    crashes

files == <<seen, lastAt, outbox>>
service == <<wire, answered, received>>
watched == <<kept, lastPoll, blind, torn>>
stampVars == <<now, terminal, files, stage, fresh, service, watched, crashes>>

Serials == 1..MaxFaces
Never == -Debounce
ElementsOf(s) == {s[i] : i \in DOMAIN s}
Shorter(m, n) == IF m < n THEN m ELSE n
First(s, n) == SubSeq(s, 1, Shorter(n, Len(s)))
Last(s, n) == SubSeq(s, Len(s) - Shorter(n, Len(s)) + 1, Len(s))
InOrder(S) == CHOOSE s \in [1..Cardinality(S) -> S] : \A i, j \in DOMAIN s : i < j => s[i] < s[j]

(* Type invariant *)
StampTypeOK ==
    /\ now \in 0..MaxTime /\ crashes \in 0..MaxCrashes
    /\ terminal \in Seq(0..MaxTime)
    /\ Len(terminal) <= MaxFaces
    /\ seen \subseteq Serials /\ received \subseteq Serials
    /\ lastAt \in [Persons -> 0..MaxTime \cup {Never}]
    /\ fresh \subseteq Serials /\ outbox \in Seq(Serials) /\ Len(outbox) <= MaxOutbox
    /\ stage \in {"down", "idle", "saved", "queued", "posting"}
    /\ wire \subseteq Seq(Serials) /\ answered \in BOOLEAN
    /\ kept \subseteq [event : Serials, at : 0..MaxTime]
    /\ lastPoll \in 0..MaxTime /\ blind \in BOOLEAN
    /\ torn \subseteq {"state", "outbox"}
    /\ stage # "saved" => fresh = {}

StampInit ==
    /\ now = 0 /\ crashes = 0
    /\ terminal = <<>>
    /\ seen = {} /\ lastAt = [p \in Persons |-> Never] /\ outbox = <<>>
    /\ stage = "idle" /\ fresh = {}
    /\ wire = {} /\ answered = FALSE /\ received = {}
    /\ kept = {} /\ lastPoll = 0 /\ blind = FALSE /\ torn = {}

----------------------------------------------------------------------------
(* The terminal and the clock *)

ClockTick ==
    /\ now < MaxTime
    /\ now' = now + 1
    /\ UNCHANGED <<terminal, files, stage, fresh, service, watched, crashes>>

(* A face is recognised; one glance often gives several events. *)
Look == /\ Len(terminal) < MaxFaces
        /\ terminal' = Append(terminal, now)
        /\ UNCHANGED <<now, files, stage, fresh, service, watched, crashes>>

----------------------------------------------------------------------------
(* pollNewFaceEvents *)

(* Mutant: the window starts where the last poll ended.                     *)
Window_SinceLastPoll == {i \in 1..Len(terminal) : terminal[i] > lastPoll}

Window == {i \in 1..Len(terminal) : terminal[i] >= now - Lookback}

(* The rows of the page: the oldest of the window.                          *)
Page == {i \in Window : Cardinality({j \in Window : j <= i}) <= MaxResults}

(* Those that were not read before.                                         *)
Unread == Page \ seen

(* Mutant: the debounce of a person starts with the next page.              *)
KeptRow_EachRow(i) == now - lastAt[Face[i]] >= Debounce

(* A row is kept when it is its person's first on the page and the person's *)
(* last kept event is out of the debounce.                                  *)
KeptRow(i) ==
    /\ now - lastAt[Face[i]] >= Debounce
    /\ \A j \in Unread : Face[j] = Face[i] => i <= j

(* Every row read is marked, the kept ones start their person's debounce,   *)
(* and the state is saved before the kept rows reach the outbox.            *)
Poll ==
    LET keep == {i \in Unread : KeptRow(i)}
        persons == {Face[i] : i \in keep}
    IN  /\ stage = "idle"
        /\ seen' = seen \cup Unread
        /\ lastAt' = [p \in Persons |-> IF p \in persons THEN now ELSE lastAt[p]]
        /\ fresh' = keep
        /\ stage' = "saved"
        /\ kept' = kept \cup {[event |-> i, at |-> now] : i \in keep}
        /\ lastPoll' = now
        /\ blind' = (blind \/ now - lastPoll > Lookback \/ Cardinality(Window) > MaxResults)
        /\ UNCHANGED <<now, terminal, outbox, service, torn, crashes>>

----------------------------------------------------------------------------
(* enqueueEvents and flushOutbox *)

(* Mutant: the events are queued without a look at their keys.              *)
NotQueued_Any == fresh

NotQueued == fresh \ ElementsOf(outbox)

(* The queue with what is new behind it, in the order of the rows.          *)
Line == outbox \o InOrder(NotQueued)

(* saveOutbox: a queue that is too long loses its oldest events.            *)
Saved(s) == Last(s, MaxOutbox)

Enqueue == /\ stage = "saved"
           /\ outbox' = Saved(Line)
           /\ fresh' = {}
           /\ stage' = "queued"
           /\ UNCHANGED <<now, terminal, seen, lastAt, service, watched, crashes>>

Batch == First(outbox, BatchSize)

Post == /\ stage = "queued"
        /\ outbox # <<>>
        /\ wire' = wire \cup {Batch}
        /\ answered' = FALSE
        /\ stage' = "posting"
        /\ UNCHANGED <<now, terminal, files, fresh, received, watched, crashes>>

NothingToPost == /\ stage = "queued"
                 /\ outbox = <<>>
                 /\ stage' = "idle"
                 /\ UNCHANGED <<now, terminal, files, fresh, service, watched, crashes>>

(* Mutant: the answered batch stays in the queue. *)
Remaining_All == outbox

(* The rest of the queue once the server has answered the post. *)
Remaining == SubSeq(outbox, Len(Batch) + 1, Len(outbox))

Answered == /\ stage = "posting"
            /\ answered
            /\ outbox' = Remaining
            /\ stage' = "idle"
            /\ UNCHANGED <<now, terminal, seen, lastAt, fresh, service, watched, crashes>>

(* Mutant: the batch leaves the queue however the post ends. *)
NoAnswer_Dropped == /\ stage = "posting"
                    /\ outbox' = Remaining
                    /\ stage' = "idle"
                    /\ UNCHANGED <<now, terminal, seen, lastAt, fresh, service, watched, crashes>>

(* The post times out, its answer is lost or the server refuses it: the     *)
(* queue stays as it is.                                                    *)
NoAnswer == /\ stage = "posting"
            /\ stage' = "idle"
            /\ UNCHANGED <<now, terminal, files, fresh, service, watched, crashes>>

----------------------------------------------------------------------------
(* The server: ingestRecognitionEvents takes the events one by one; an      *)
(* exception ends the batch after some of them.  A post the agent has given *)
(* up may be ingested late.                                                 *)

Ingest(b) ==
    /\ wire' = wire \ {b}
    /\ received' = received \cup ElementsOf(b)
    /\ answered' = (answered \/ (stage = "posting" /\ b = Batch))
    /\ UNCHANGED <<now, terminal, files, stage, fresh, watched, crashes>>

IngestPart(b) ==
    /\ wire' = wire \ {b}
    /\ \E n \in 0..Len(b) - 1 : received' = received \cup ElementsOf(First(b, n))
    /\ UNCHANGED <<now, terminal, files, stage, fresh, answered, watched, crashes>>

----------------------------------------------------------------------------
(* The agent dies: killed, power lost, window closed, and starts again.     *)

Die == /\ stage # "down"
       /\ crashes < MaxCrashes
       /\ crashes' = crashes + 1
       /\ stage' = "down"
       /\ fresh' = {}
       /\ UNCHANGED <<now, terminal, service, kept, lastPoll, blind>>

CrashBetween == Die /\ UNCHANGED <<files, torn>>

(* Death within saveState: the rows were read but the file is cut short.    *)
CrashSavingState ==
    /\ stage = "idle"
    /\ Die
    /\ seen' = {}
    /\ lastAt' = [p \in Persons |-> Never]
    /\ torn' = torn \cup {"state"}
    /\ UNCHANGED outbox

(* Death within saveOutbox, called after keeping events and after an answer. *)
CrashSavingOutbox ==
    /\ (stage = "saved" /\ fresh # {}) \/ (stage = "posting" /\ answered)
    /\ Die
    /\ outbox' = <<>>
    /\ torn' = torn \cup {"outbox"}
    /\ UNCHANGED <<seen, lastAt>>

StartAgain ==
    /\ stage = "down"
    /\ stage' = "idle"
    /\ UNCHANGED <<now, terminal, files, fresh, service, watched, crashes>>

----------------------------------------------------------------------------
StampNext ==
    \/ ClockTick
    \/ Look
    \/ Poll \/ Enqueue \/ Post \/ NothingToPost \/ Answered \/ NoAnswer
    \/ \E b \in wire : Ingest(b) \/ IngestPart(b)
    \/ CrashBetween \/ CrashSavingState \/ CrashSavingOutbox \/ StartAgain

StampSpec == StampInit /\ [][StampNext]_stampVars

(* The agent's loop goes on, it is started again after a crash, the         *)
(* terminal answers a poll at last, and the server, asked again and again,  *)
(* ingests a batch and its answer arrives.                                  *)
Served == stage = "posting" /\ Batch \in wire /\ Ingest(Batch)

StampFairSpec ==
    /\ StampSpec
    /\ WF_stampVars(Poll) /\ WF_stampVars(Enqueue) /\ WF_stampVars(Post \/ NothingToPost)
    /\ WF_stampVars(NoAnswer \/ Answered) /\ WF_stampVars(StartAgain)
    /\ SF_stampVars(Served) /\ SF_stampVars(Answered)

----------------------------------------------------------------------------
(* Properties *)

(* enqueueEvents: an event is in the queue at most once, also when a state  *)
(* file cut short makes the agent read and keep it again while it waits.    *)
QueuedOnce == \A i, j \in DOMAIN outbox : i # j => outbox[i] # outbox[j]

(* The debounce: two events of one person that the agent keeps are at least *)
(* Debounce apart, whatever crashes and restarts lie between, as long as    *)
(* the state file was not cut short; and no event is kept twice.            *)
KeptApart ==
    "state" \notin torn =>
        \A k, l \in kept :
            Face[k.event] = Face[l.event] /\ k # l =>
                /\ k.event # l.event
                /\ k.at - l.at >= Debounce \/ l.at - k.at >= Debounce

(* The window: as long as polls come at least once per Lookback and a       *)
(* window fits on a page, every event from before the last poll was read,   *)
(* also across restarts.                                                    *)
NoneMissed ==
    ~blind /\ "state" \notin torn =>
        \A i \in 1..Len(terminal) : terminal[i] < lastPoll => i \in seen

(* With the types: every event of the terminal is read, kept and queued     *)
(* once.                                                                    *)
ReadOnce == StampTypeOK /\ QueuedOnce /\ KeptApart /\ NoneMissed

(* Custody: an event the agent has kept leaves its hands only when the      *)
(* server has ingested it, when a crash takes what is in memory or cuts the *)
(* queue's file short, or when MaxOutbox events behind it fill the queue.    *)
InHand == fresh \cup ElementsOf(outbox)

PushedOut(i) ==
    /\ Len(outbox') = MaxOutbox
    /\ \A n, m \in DOMAIN Line : Line[n] = i /\ Line[m] \in ElementsOf(outbox') => n < m

CustodyStep ==
    \A i \in InHand \ InHand' :
        \/ i \in received
        \/ stage' = "down" /\ (i \in fresh \/ outbox' = <<>>)
        \/ PushedOut(i)

Custody == [][CustodyStep]_stampVars

(* Nothing waits in the queue for ever: with Custody, what was queued is    *)
(* ingested unless the queue overflowed or its file was cut short.          *)
Emptied == \A i \in Serials : i \in ElementsOf(outbox) ~> i \notin ElementsOf(outbox)

============================================================================
