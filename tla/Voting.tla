------------------------------- MODULE Voting -------------------------------
(***************************************************************************)
(* x/voting: the government and its proposals.                             *)
(*                                                                         *)
(* One proposal at a time is put to the vote of the government.  It ends   *)
(* when everyone has voted or when its timer, a task of x/schedule, fires. *)
(* An accepted proposal is applied at once, in the transaction of the last *)
(* vote.  The some fifty types of proposals fall into the kinds below,     *)
(* which EndProposal treats differently:                                   *)
(*                                                                         *)
(*   "add", "remove"  change the government (a list, also of this module)  *)
(*   "set"            stores a parameter, or a list entry, of a module     *)
(*   "checked"        the same after a validation that may fail            *)
(*   "deprecated"     only logs an error                                   *)
(*                                                                         *)
(* The parameters of all modules are one value.  The tasks of Blocks are   *)
(* those with VoteHookName.  The chain may be restarted from an exported   *)
(* genesis file, with a proposal open, any number of times.                *)
(***************************************************************************)
EXTENDS Blocks, Sequences, FiniteSets

CONSTANTS
    Members,            \* accounts
    Values,             \* parameter values
    ValidValues,        \* those that pass Params.Validate
    InitialGovernments, \* governments of the genesis file
    VotingPeriod,       \* parameter voting_period
    MaxProposals,       \* bound: number of proposals
    MaxVotes,           \* bound: number of votes that they may take together
    NoProposal          \* the absent current proposal

ASSUME VotingAssumption ==
    /\ ValidValues \subseteq Values
    /\ InitialGovernments \subseteq Seq(Members)
    /\ VotingPeriod \in Nat \ {0}
    /\ MaxGap \in Nat /\ MaxNow \in Nat
    /\ MaxProposals \in Nat /\ MaxVotes \in Nat

VARIABLES
    height,           \* of the current block
    gov,              \* KeyGovernment
    proposal,         \* KeyCurrentVote
    agreed,           \* KeyAgreedMembers
    disagreed,        \* KeyDisagreedMembers
    startBlock,       \* KeyStartBlock, 0 when absent
    history,          \* KeyHistoryPrefix: the record under each height, if any
    params,           \* parameters of the other modules
    closed,           \* history variable: number of proposals that have ended
    last              \* history variable: how the last of them has ended

vars == <<height, now, gov, proposal, agreed, disagreed, startBlock, history,
          params, tasks, closed, last>>

Kinds == {"add", "remove", "set", "checked", "deprecated"}

\* What ValidateBasic lets through: an address or a value, by the kind.
Args(kind) == IF kind \in {"add", "remove"} THEN Members ELSE Values

NoTask == "none"

Init ==
    /\ height = 1 /\ now = 0
    /\ gov \in InitialGovernments
    /\ proposal = NoProposal
    /\ agreed = <<>> /\ disagreed = <<>> /\ startBlock = 0
    /\ history = <<>>
    /\ params \in Values
    /\ tasks = {}
    /\ closed = 0
    /\ last = [applied |-> FALSE, how |-> "none", finished |-> 0]

-----------------------------------------------------------------------------
\* Government.Contains, Append and Remove, on the list of members.
Contains(list, m) == \E i \in DOMAIN list : list[i] = m

RemoveAt(list, i) ==
    [j \in 1..(Len(list) - 1) |-> IF j < i THEN list[j] ELSE list[j + 1]]

RemoveMember(list, m) ==
    IF Contains(list, m)
    THEN RemoveAt(list, CHOOSE i \in DOMAIN list :
                          /\ list[i] = m
                          /\ \A j \in DOMAIN list : list[j] = m => i <= j)
    ELSE list

\* Keeper.Validate.
Complete(g, a, d) == Len(g) = Len(a) + Len(d)

\* Mutant of Agreed: half is enough.
AgreedHalfMutant(g, a, d) == Complete(g, a, d) /\ Len(a) * 2 >= Len(g)

Agreed(g, a, d) == Complete(g, a, d) /\ Len(a) * 3 >= Len(g) * 2

\* Mutant of ScheduleEnding: the timer is forgotten.
ScheduleEndingMutant(tks, time) == tks

\* ScheduleEnding, and the DeleteAll at the beginning of EndProposal.
ScheduleEnding(tks, time) ==
    Put(tks, [id |-> height, time |-> time, handler |-> "vote", data |-> NoTask])

\* Mutant of DeleteEnding: the timer is left behind.
DeleteEndingMutant(tks, time) == tks

DeleteEnding(tks, time) == RemoveAll(tks, time, "vote")

-----------------------------------------------------------------------------
\* What EndProposal's switch does with an accepted proposal.
Apply(p) ==
    CASE p.kind = "add" ->
            gov' = Append(gov, p.arg) /\ UNCHANGED params
      [] p.kind = "remove" ->
            gov' = RemoveMember(gov, p.arg) /\ UNCHANGED params
      [] p.kind = "set" ->
            params' = p.arg /\ UNCHANGED gov
      [] p.kind = "checked" ->
            params' = (IF p.arg \in ValidValues THEN p.arg ELSE params)
            /\ UNCHANGED gov
      [] p.kind = "deprecated" ->
            UNCHANGED <<gov, params>>

Outcome(p, agree) == IF agree THEN Apply(p) ELSE UNCHANGED <<gov, params>>

\* SaveProposalToHistory: the record goes under the height of the block.
Record(p, a, d, start) ==
    [proposal |-> p, government |-> gov, agreed |-> a, disagreed |-> d,
     started |-> start, finished |-> height]

\* EndProposal, given what the store holds when it is called.
EndProposal(p, a, d, start, tks, agree, how) ==
    /\ tasks' = DeleteEnding(tks, p.endTime)
    /\ history' = [h \in DOMAIN history \cup {height} |->
                     IF h = height THEN Record(p, a, d, start) ELSE history[h]]
    /\ proposal' = NoProposal
    /\ agreed' = <<>> /\ disagreed' = <<>> /\ startBlock' = 0
    /\ Outcome(p, agree)
    /\ closed' = closed + 1
    /\ last' = [applied |-> agree, how |-> how, finished |-> height]
    /\ UNCHANGED <<height, now>>

Opened == closed + (IF proposal = NoProposal THEN 0 ELSE 1)

\* Propose: the author agrees; a government of one decides at once.
Propose(author, kind, arg) ==
    LET p == [author |-> author, kind |-> kind, arg |-> arg,
              endTime |-> now + VotingPeriod]
        a == <<author>>
        tks == ScheduleEnding(tasks, p.endTime)
    IN  /\ Delivering
        /\ Opened < MaxProposals /\ (Opened + 1) * Len(gov) <= MaxVotes
        /\ proposal = NoProposal
        /\ Contains(gov, author)
        /\ IF Complete(gov, a, <<>>)
           THEN EndProposal(p, a, <<>>, height, tks, Agreed(gov, a, <<>>), "votes")
           ELSE /\ proposal' = p
                /\ agreed' = a /\ disagreed' = <<>>
                /\ tasks' = tks
                /\ startBlock' = height
                /\ UNCHANGED <<height, now, gov, history, params, closed,
                               last>>

\* Mutant of MayVote: a vote in favour may be repeated.
MayVoteMutant(voter) == Contains(gov, voter) /\ ~Contains(disagreed, voter)

\* The checks of Vote.
MayVote(voter) ==
    /\ Contains(gov, voter)
    /\ ~Contains(agreed, voter) /\ ~Contains(disagreed, voter)

\* Vote: the last vote ends the proposal.
Vote(voter, agree) ==
    LET a == IF agree THEN Append(agreed, voter) ELSE agreed
        d == IF agree THEN disagreed ELSE Append(disagreed, voter)
    IN  /\ Delivering
        /\ proposal # NoProposal
        /\ MayVote(voter)
        /\ IF Complete(gov, a, d)
           THEN EndProposal(proposal, a, d, startBlock, tasks, Agreed(gov, a, d), "votes")
           ELSE /\ agreed' = a /\ disagreed' = d
                /\ UNCHANGED <<height, now, gov, proposal, startBlock, history,
                               params, tasks, closed, last>>

\* ProcessSchedule, the hook of the timer; x/schedule drops the task.
ProcessSchedule ==
    /\ \E t \in DueAt(tasks, now) :
          IF proposal # NoProposal
          THEN EndProposal(proposal, agreed, disagreed, startBlock, tasks \ {t},
                           Agreed(gov, agreed, disagreed), "timeout")
          ELSE /\ tasks' = tasks \ {t}
               /\ UNCHANGED <<height, now, gov, proposal, agreed, disagreed,
                              startBlock, history, params, closed,
                               last>>

\* The next block.
BeginBlock ==
    /\ NextBlock
    /\ height' = height + 1
    /\ UNCHANGED <<gov, proposal, agreed, disagreed, startBlock, history,
                   params, closed, last>>

\* ExportGenesis: the records of the history without their keys, and a start
\* block only beside an open proposal.
Exported ==
    [government |-> gov, current |-> proposal, agreed |-> agreed, disagreed |-> disagreed,
     start |-> IF proposal = NoProposal THEN 0 ELSE startBlock,
     history |-> {history[h] : h \in DOMAIN history}]

\* AddProposalHistoryRecord, for each record: its key is the height it ended at.
Filed(records) ==
    [h \in {r.finished : r \in records} |-> CHOOSE r \in records : r.finished = h]

\* InitGenesis of a chain that goes on from an exported file, at the next height.
\* The timer is no part of the file; it comes back with the tasks of x/schedule,
\* as the parameters do with their modules.
ImportGenesis ==
    /\ Delivering
    /\ \E file \in {Exported} :
          /\ gov' = file.government
          /\ proposal' = file.current
          /\ startBlock' = IF file.current = NoProposal THEN 0 ELSE file.start
          /\ agreed' = file.agreed /\ disagreed' = file.disagreed
          /\ history' = Filed(file.history)
    /\ UNCHANGED <<height, now, params, tasks, closed, last>>

Next ==
    \/ \E m \in Members, k \in Kinds : \E x \in Args(k) : Propose(m, k, x)
    \/ \E m \in Members, b \in BOOLEAN : Vote(m, b)
    \/ ProcessSchedule
    \/ BeginBlock
    \/ ImportGenesis

\* Blocks keep coming and the tasks of a block are run.
Fairness == WF_vars(BeginBlock) /\ WF_vars(ProcessSchedule)

Safety == Init /\ [][Next]_vars
Spec == Safety /\ Fairness

-----------------------------------------------------------------------------
Elements(list) == {list[i] : i \in DOMAIN list}
Distinct(list) == \A i, j \in DOMAIN list : list[i] = list[j] => i = j

Proposals ==
    [author : Members, kind : Kinds, arg : Members \cup Values, endTime : Nat]

\* An absent vote is no vote.
ASSUME NoProposalAssumption == NoProposal \notin Proposals

Records ==
    [proposal : Proposals, government : Seq(Members), agreed : Seq(Members),
     disagreed : Seq(Members), started : Nat, finished : Nat]

TypeOK ==
    /\ height \in Nat /\ now \in Nat
    /\ gov \in Seq(Members)
    /\ proposal \in Proposals \cup {NoProposal}
    /\ agreed \in Seq(Members) /\ disagreed \in Seq(Members)
    /\ startBlock \in Nat
    /\ \A h \in DOMAIN history : h \in Nat /\ history[h] \in Records
    /\ params \in Values
    /\ tasks \subseteq Task({"vote"}, {NoTask})
    /\ closed \in Nat
    /\ last \in [applied : BOOLEAN, how : {"none", "votes", "timeout"},
                 finished : Nat]

(***************************************************************************)
(* The votes stored for the open proposal are one per voter, all of the    *)
(* government that will decide, the author's among them, and not everyone  *)
(* has voted yet; without a proposal no vote, start block or timer is left *)
(* over from the last one.                                                 *)
(***************************************************************************)
VotesOfGovernment ==
    IF proposal = NoProposal
    THEN agreed = <<>> /\ disagreed = <<>> /\ startBlock = 0
    ELSE /\ Distinct(agreed) /\ Distinct(disagreed)
         /\ Elements(agreed) \cap Elements(disagreed) = {}
         /\ Elements(agreed) \cup Elements(disagreed) \subseteq Elements(gov)
         /\ proposal.author \in Elements(agreed)
         /\ ~Complete(gov, agreed, disagreed)
         /\ startBlock \in 1..height

(***************************************************************************)
(* The open proposal has exactly one timer, at its end time, and no timer  *)
(* of an earlier proposal is left: EndProposal's DeleteAll hits the task   *)
(* that Propose scheduled, so a timer never ends a later proposal early.   *)
(***************************************************************************)
TimerArmed ==
    IF proposal = NoProposal
    THEN tasks = {}
    ELSE \E t \in tasks : tasks = {t} /\ t.time = proposal.endTime

(***************************************************************************)
(* A proposal is applied only by the vote of everyone in the government,   *)
(* two thirds of the people in it being in favour; the timer only ever     *)
(* rejects.                                                                *)
(***************************************************************************)
AppliedByTwoThirds ==
    last.applied =>
        LET r == history[last.finished]
        IN  /\ last.how = "votes"
            /\ Elements(r.government) = Elements(r.agreed) \cup Elements(r.disagreed)
            /\ 3 * Cardinality(Elements(r.agreed))
                 >= 2 * Cardinality(Elements(r.government))

(***************************************************************************)
(* Every proposal ends, by votes or by its timer.  (The clock is bounded.) *)
(***************************************************************************)
EventuallyEnds ==
    (proposal # NoProposal /\ proposal.endTime <= MaxNow) ~> (proposal = NoProposal)
=============================================================================
