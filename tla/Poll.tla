-------------------------------- MODULE Poll --------------------------------
(***************************************************************************)
(* x/voting: polls.  A member of the government starts a poll, everyone    *)
(* who meets its requirements may answer once, and a task of x/schedule    *)
(* ends it.  The counters of the answers are kept beside the answers.      *)
(*                                                                         *)
(* Who meets the requirements (a status in x/referral or the right to run  *)
(* a validator in x/noding) is the changing set eligible.  The chain may   *)
(* be restarted from an exported genesis file: LoadPolls then replays the  *)
(* answers through Answer, which checks the requirements again.  The tasks *)
(* of Blocks are those with PollHookName.                                  *)
(***************************************************************************)
EXTENDS Blocks, FiniteSets

CONSTANTS
    Accounts,   \* potential respondents
    Government, \* those who may start polls
    Quorums,    \* fractions [num, den], and NoQuorum
    NoQuorum,   \* the absent quorum of an informational poll
    NoPoll,     \* the absent current poll
    PollPeriod, \* parameter poll_period
    MaxRestarts \* bound: number of restarts from an exported file

ASSUME PollAssumption ==
    /\ IsFiniteSet(Accounts)
    /\ PollPeriod \in Nat \ {0}
    /\ MaxGap \in Nat /\ MaxNow \in Nat /\ MaxRestarts \in Nat
    /\ NoPoll \notin [author : Government, quorum : Quorums, endTime : Nat]

VARIABLES
    poll,        \* KeyPollCurrent
    answers,     \* KeyPollAnswers: from those who answered to their answers
    yes, no,     \* KeyPollYesCount, KeyPollNoCount
    pollHistory, \* KeyPollHistory: the item under each end time, if any
    eligible,    \* who meets the requirements now
    crashed,     \* InitGenesis has panicked
    restarts     \* number of restarts

pollVars == <<now, poll, answers, yes, no, pollHistory, tasks, eligible,
              crashed, restarts>>

NoAnswers == [a \in {} |-> TRUE]

PollInit ==
    /\ now = 0
    /\ poll = NoPoll /\ answers = NoAnswers /\ yes = 0 /\ no = 0
    /\ pollHistory = [t \in {} |-> NoPoll]
    /\ tasks = {}
    /\ eligible \in SUBSET Accounts
    /\ crashed = FALSE /\ restarts = 0

-----------------------------------------------------------------------------
\* A chain that has started delivers transactions.
Running == ~crashed /\ Delivering

\* Mutant of ScheduleEnd: the task is forgotten.
ScheduleEndMutant(end) == tasks

\* The task that StartPoll schedules.
ScheduleEnd(end) ==
    Put(tasks, [id |-> now, time |-> end, handler |-> "poll", data |-> NoPoll])

StartPoll(author, quorum) ==
    LET end == now + PollPeriod
    IN  /\ Running
        /\ poll = NoPoll
        /\ author \in Government
        /\ tasks' = ScheduleEnd(end)
        /\ poll' = [author |-> author, quorum |-> quorum, endTime |-> end]
        /\ UNCHANGED <<now, answers, yes, no, pollHistory, eligible, crashed,
                       restarts>>

\* Mutant of MayAnswer: the check for an earlier answer is missing.
MayAnswerMutant(acc) == poll # NoPoll /\ acc \in eligible

\* The checks of Answer.
MayAnswer(acc) == poll # NoPoll /\ acc \in eligible /\ acc \notin DOMAIN answers

Answer(acc, ans) ==
    /\ Running
    /\ MayAnswer(acc)
    /\ answers' = [a \in DOMAIN answers \cup {acc} |->
                     IF a = acc THEN ans ELSE answers[a]]
    /\ IF ans THEN yes' = yes + 1 /\ no' = no ELSE no' = no + 1 /\ yes' = yes
    /\ UNCHANGED <<now, poll, pollHistory, tasks, eligible, crashed, restarts>>

\* EndPoll's decision.
Decision ==
    IF poll.quorum = NoQuorum THEN "unspecified"
    ELSE IF yes # 0 /\ yes * poll.quorum.den >= poll.quorum.num * (yes + no)
         THEN "positive" ELSE "negative"

\* Mutant of Cleared: the counters survive the poll.
ClearedMutant == answers' = NoAnswers /\ UNCHANGED <<yes, no>>

\* EndPoll deletes the counters and the answers.
Cleared == answers' = NoAnswers /\ yes' = 0 /\ no' = 0

\* The key EndPoll saves a poll under.
HistoryKey == poll.endTime

\* EndPoll, the hook of the task.  Without a poll it panics, and the panic is
\* recovered by x/schedule; the task is dropped in either case.
EndPoll ==
    /\ ~crashed
    /\ \E t \in DueAt(tasks, now) :
          /\ tasks' = tasks \ {t}
          /\ IF poll = NoPoll
             THEN UNCHANGED <<poll, answers, yes, no, pollHistory>>
             ELSE /\ pollHistory' =
                       [k \in DOMAIN pollHistory \cup {HistoryKey} |->
                          IF k = HistoryKey
                          THEN [poll |-> poll, yes |-> yes, no |-> no,
                                decision |-> Decision]
                          ELSE pollHistory[k]]
                  /\ poll' = NoPoll
                  /\ Cleared
    /\ UNCHANGED <<now, eligible, crashed, restarts>>

\* An account gains or loses the status or the right to validate.
Requalify(acc) ==
    /\ Running
    /\ eligible' = (eligible \ {acc}) \cup ({acc} \ eligible)
    /\ UNCHANGED <<now, poll, answers, yes, no, pollHistory, tasks, crashed,
                   restarts>>

\* Mutant of LoadTasks: the import schedules the end of the poll once more.
LoadTasksMutant ==
    tasks' = (IF poll = NoPoll THEN tasks
              ELSE Put(tasks, [id |-> now + 1, time |-> poll.endTime + 1,
                               handler |-> "poll", data |-> NoPoll]))

\* The tasks come back with the genesis file of x/schedule and no other way.
LoadTasks == tasks' = tasks

\* ExportGenesis on one chain, InitGenesis (LoadPolls) on the next.
Restart ==
    /\ Running /\ restarts < MaxRestarts
    /\ restarts' = restarts + 1
    /\ IF DOMAIN answers \subseteq eligible
       THEN /\ yes' = Cardinality({a \in DOMAIN answers : answers[a]})
            /\ no' = Cardinality({a \in DOMAIN answers : ~answers[a]})
            /\ crashed' = FALSE
       ELSE crashed' = TRUE /\ UNCHANGED <<yes, no>>
    /\ LoadTasks
    /\ UNCHANGED <<now, poll, answers, pollHistory, eligible>>

\* The next block.
PollBeginBlock ==
    /\ Running /\ NextBlock
    /\ UNCHANGED <<poll, answers, yes, no, pollHistory, eligible, crashed,
                   restarts>>

PollNext ==
    \/ \E m \in Government, q \in Quorums : StartPoll(m, q)
    \/ \E acc \in Accounts, ans \in BOOLEAN : Answer(acc, ans)
    \/ \E acc \in Accounts : Requalify(acc)
    \/ EndPoll
    \/ Restart
    \/ PollBeginBlock

\* Blocks keep coming and the tasks of a block are run.
PollFairness == WF_pollVars(PollBeginBlock) /\ WF_pollVars(EndPoll)

PollSafety == PollInit /\ [][PollNext]_pollVars
PollSpec == PollSafety /\ PollFairness

-----------------------------------------------------------------------------
Polls == [author : Government, quorum : Quorums, endTime : Nat]

PollTypeOK ==
    /\ now \in Nat
    /\ poll \in Polls \cup {NoPoll}
    /\ DOMAIN answers \subseteq Accounts
    /\ \A a \in DOMAIN answers : answers[a] \in BOOLEAN
    /\ yes \in Nat /\ no \in Nat
    /\ DOMAIN pollHistory \subseteq Nat
    /\ tasks \subseteq Task({"poll"}, {NoPoll})
    /\ eligible \subseteq Accounts
    /\ crashed \in BOOLEAN /\ restarts \in Nat

(***************************************************************************)
(* The counters always agree with the stored answers, over restarts too,   *)
(* and a poll begins with none from the poll before.                       *)
(***************************************************************************)
CountersAgree ==
    /\ yes = Cardinality({a \in DOMAIN answers : answers[a]})
    /\ no = Cardinality({a \in DOMAIN answers : ~answers[a]})
    /\ poll = NoPoll => answers = NoAnswers

(***************************************************************************)
(* An open poll has exactly one task, at its end time, and without a poll  *)
(* there is none, so EndPoll never meets the state it panics in.           *)
(***************************************************************************)
PollTimerArmed ==
    IF poll = NoPoll
    THEN tasks = {}
    ELSE \E t \in tasks : tasks = {t} /\ t.time = poll.endTime

(***************************************************************************)
(* Every poll ends, unless the chain cannot be restarted.                  *)
(***************************************************************************)
PollEventuallyEnds ==
    (poll # NoPoll /\ poll.endTime <= MaxNow) ~> (poll = NoPoll \/ crashed)
=============================================================================
