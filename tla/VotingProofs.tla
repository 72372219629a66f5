---------------------------- MODULE VotingProofs ----------------------------
(***************************************************************************)
(* That proposals are decided by two thirds of the government and by no    *)
(* timer, for every government, with repeated members too, and every       *)
(* period.                                                                 *)
(*                                                                         *)
(* That the counters of a poll agree with its answers, that its end is     *)
(* scheduled exactly once, and that the result of a poll is never lost,    *)
(* for every set of accounts, every period and every number of restarts.   *)
(*                                                                         *)
(* Each theorem is about one of the two specifications, Spec of Voting or  *)
(* PollSpec of Poll; they are never taken together.                        *)
(***************************************************************************)
EXTENDS Voting, Poll, FiniteSetTheorems, TLAPS

\* The argument of the open proposal is of its kind (ValidateBasic).
ArgumentFits ==
    proposal # NoProposal => proposal.arg \in Args(proposal.kind)

HeightPositive == height >= 1

\* A record of the history lies under the height it ended at, where an import
\* puts it; that of the last proposal is there.
HistoryFiled ==
    /\ \A h \in DOMAIN history : history[h].finished = h
    /\ last.applied => last.finished \in DOMAIN history

IInv ==
    /\ TypeOK /\ HeightPositive /\ HistoryFiled /\ ArgumentFits
    /\ VotesOfGovernment /\ TimerArmed /\ AppliedByTwoThirds

\* What the record r says: everyone in its government has voted, and two
\* thirds of them in favour.
Decided(r) ==
    /\ Elements(r.government) = Elements(r.agreed) \cup Elements(r.disagreed)
    /\ 3 * Cardinality(Elements(r.agreed))
         >= 2 * Cardinality(Elements(r.government))

(***************************************************************************)
(* Whatever changes the government or a parameter is a decision of the     *)
(* government in office, on record under the height of the block.          *)
(***************************************************************************)
ChangedByGovernment ==
    [][<<gov, params>>' = <<gov, params>>
         \/ (Decided(history'[height]) /\ history'[height].government = gov)]_vars

-----------------------------------------------------------------------------
\* Lists of members.

LEMMA ElementsOf ==
    ASSUME NEW s \in Seq(Members)
    PROVE  /\ \A m : m \in Elements(s) <=> Contains(s, m)
           /\ DOMAIN s = 1..Len(s) /\ Len(s) \in Nat
BY DEF Elements, Contains

LEMMA ElementsAppend ==
    ASSUME NEW s \in Seq(Members), NEW m \in Members
    PROVE  /\ Append(s, m) \in Seq(Members)
           /\ Len(Append(s, m)) = Len(s) + 1
           /\ Elements(Append(s, m)) = Elements(s) \cup {m}
           /\ Distinct(s) /\ ~Contains(s, m) => Distinct(Append(s, m))
<1> DEFINE t == Append(s, m)
<1>1. /\ t \in Seq(Members) /\ Len(t) = Len(s) + 1 /\ Len(s) \in Nat
      /\ DOMAIN s = 1..Len(s) /\ DOMAIN t = 1..(Len(s) + 1)
      /\ t[Len(s) + 1] = m
      /\ \A i \in 1..Len(s) : t[i] = s[i]
  OBVIOUS
<1>. HIDE DEF t
<1>2. Elements(t) = Elements(s) \cup {m}
  <2>1. ASSUME NEW i \in DOMAIN t PROVE t[i] \in Elements(s) \cup {m}
    <3>1. CASE i \in 1..Len(s)
      BY <3>1, <1>1 DEF Elements
    <3>2. CASE i = Len(s) + 1
      BY <3>2, <1>1
    <3>. QED  BY <3>1, <3>2, <1>1
  <2>2. ASSUME NEW i \in DOMAIN s PROVE s[i] \in Elements(t)
    <3>1. i \in DOMAIN t /\ t[i] = s[i]
      BY <1>1
    <3>. QED  BY <3>1 DEF Elements
  <2>3. m \in Elements(t)
    <3>1. Len(s) + 1 \in DOMAIN t
      BY <1>1
    <3>. QED  BY <3>1, <1>1 DEF Elements
  <2>. QED  BY <2>1, <2>2, <2>3 DEF Elements
<1>3. ASSUME Distinct(s), ~Contains(s, m) PROVE Distinct(t)
  <2> SUFFICES ASSUME NEW i \in DOMAIN t, NEW j \in DOMAIN t, t[i] = t[j]
               PROVE  i = j
    BY DEF Distinct
  <2>1. CASE i \in 1..Len(s) /\ j \in 1..Len(s)
    BY <2>1, <1>1, <1>3 DEF Distinct
  <2>2. CASE i \in 1..Len(s) /\ j = Len(s) + 1
    BY <2>2, <1>1, <1>3 DEF Contains
  <2>3. CASE j \in 1..Len(s) /\ i = Len(s) + 1
    BY <2>3, <1>1, <1>3 DEF Contains
  <2>. QED  BY <2>1, <2>2, <2>3, <1>1
<1>. QED  BY <1>1, <1>2, <1>3 DEF t

(***************************************************************************)
(* A list names at most as many members as it is long, and exactly as many *)
(* if it repeats none.                                                     *)
(***************************************************************************)
LEMMA ElementsCount ==
    ASSUME NEW s \in Seq(Members)
    PROVE  /\ IsFiniteSet(Elements(s))
           /\ Cardinality(Elements(s)) \in Nat
           /\ Cardinality(Elements(s)) <= Len(s)
           /\ Distinct(s) => Cardinality(Elements(s)) = Len(s)
<1>1. Len(s) \in Nat /\ DOMAIN s = 1..Len(s)
  OBVIOUS
<1>2. IsFiniteSet(1..Len(s)) /\ Cardinality(1..Len(s)) = Len(s)
  BY <1>1, FS_Interval
<1>3. s \in Surjection(1..Len(s), Elements(s))
  <2>1. s \in [1..Len(s) -> Elements(s)]
    BY <1>1 DEF Elements
  <2>. QED  BY <1>1, <2>1 DEF Surjection, Elements
<1>4. Distinct(s) => s \in Injection(1..Len(s), Elements(s))
  BY <1>1, <1>3 DEF Distinct, Surjection, Injection, IsInjective
<1>5. /\ IsFiniteSet(Elements(s))
      /\ Cardinality(Elements(s)) <= Len(s)
      /\ Cardinality(Elements(s)) = Len(s) <=> s \in Injection(1..Len(s), Elements(s))
  BY <1>2, <1>3, FS_Surjection
<1>. QED  BY <1>4, <1>5, FS_CardinalityType

\* Government.Remove leaves a list.
LEMMA RemoveMemberType ==
    ASSUME NEW s \in Seq(Members), NEW m PROVE RemoveMember(s, m) \in Seq(Members)
<1>1. ASSUME NEW i, Contains(s, m) PROVE RemoveAt(s, i) \in Seq(Members)
  <2>1. Len(s) \in Nat /\ Len(s) > 0 /\ DOMAIN s = 1..Len(s)
    BY <1>1 DEF Contains
  <2>2. ASSUME NEW j \in 1..(Len(s) - 1) PROVE s[j] \in Members /\ s[j + 1] \in Members
    BY <2>1
  <2>3. RemoveAt(s, i) \in [1..(Len(s) - 1) -> Members]
    BY <2>2 DEF RemoveAt
  <2>. QED  BY <2>1, <2>3
<1>. QED  BY <1>1 DEF RemoveMember

(***************************************************************************)
(* When as many votes as the government is long have come in, each of a    *)
(* different member, then everyone has voted: the government names nobody  *)
(* twice.                                                                  *)
(***************************************************************************)
LEMMA CompleteMeansEveryone ==
    ASSUME NEW g \in Seq(Members), NEW a \in Seq(Members), NEW d \in Seq(Members),
           Distinct(a), Distinct(d), Elements(a) \cap Elements(d) = {},
           Elements(a) \cup Elements(d) \subseteq Elements(g),
           Agreed(g, a, d)
    PROVE  /\ Elements(g) = Elements(a) \cup Elements(d)
           /\ 3 * Cardinality(Elements(a)) >= 2 * Cardinality(Elements(g))
<1> DEFINE A == Elements(a)  D == Elements(d)  G == Elements(g)
<1>1. /\ Len(a) \in Nat /\ Len(d) \in Nat /\ Len(g) \in Nat
      /\ Len(g) = Len(a) + Len(d) /\ Len(a) * 3 >= Len(g) * 2
  BY DEF Agreed, Complete
<1>2. /\ IsFiniteSet(A) /\ Cardinality(A) = Len(a)
      /\ IsFiniteSet(D) /\ Cardinality(D) = Len(d)
      /\ IsFiniteSet(G) /\ Cardinality(G) \in Nat /\ Cardinality(G) <= Len(g)
  BY ElementsCount
<1>3. Cardinality(A \cap D) = 0
  BY FS_EmptySet
<1>. HIDE DEF A, D, G
<1>4. Cardinality(A \cup D) = Len(a) + Len(d)
  <2>1. Cardinality(A \cup D) = Cardinality(A) + Cardinality(D) - Cardinality(A \cap D)
    BY <1>2, FS_Union
  <2>. QED  BY <1>1, <1>2, <1>3, <2>1
<1>5. A \cup D \in SUBSET G
  BY DEF A, D, G
<1>6. Cardinality(A \cup D) <= Cardinality(G)
      /\ (Cardinality(G) = Cardinality(A \cup D) => G = A \cup D)
  BY <1>2, <1>5, FS_Subset
<1>7. Cardinality(G) = Len(g) /\ G = A \cup D
  <2>1. Cardinality(A \cup D) = Len(g)
    BY <1>1, <1>4
  <2>2. Cardinality(G) = Len(g)
    <3>1. Len(g) <= Cardinality(G)
      BY <2>1, <1>6
    <3>. QED  BY <3>1, <1>1, <1>2
  <2>. QED  BY <2>1, <2>2, <1>6
<1>. QED  BY <1>1, <1>2, <1>7 DEF A, D, G

-----------------------------------------------------------------------------
\* A chain starts without a proposal.
LEMMA InitIInv == Init => IInv
<1> SUFFICES ASSUME Init PROVE IInv
  OBVIOUS
<1>1. TypeOK
  BY VotingAssumption DEF Init, TypeOK
<1>2. HeightPositive /\ ArgumentFits /\ VotesOfGovernment /\ TimerArmed /\ AppliedByTwoThirds
      /\ HistoryFiled
  BY DEF Init, HeightPositive, HistoryFiled, ArgumentFits, VotesOfGovernment, TimerArmed, AppliedByTwoThirds
<1>. QED  BY <1>1, <1>2 DEF IInv

\* What Apply leaves behind has the right shape.
LEMMA OutcomeType ==
    ASSUME TypeOK, NEW p \in Proposals, NEW agree \in BOOLEAN,
           p.arg \in Args(p.kind), Outcome(p, agree)
    PROVE  /\ gov' \in Seq(Members) /\ params' \in Values
           /\ ~agree => UNCHANGED <<gov, params>>
<1>1. gov \in Seq(Members) /\ params \in Values
  BY DEF TypeOK
<1>2. CASE ~agree
  BY <1>1, <1>2 DEF Outcome
<1>3. CASE agree
  <2>1. Apply(p) /\ p.kind \in Kinds
    BY <1>3 DEF Outcome, Proposals
  <2>2. CASE p.kind = "add"
    BY <1>1, <1>3, <2>1, <2>2, ElementsAppend DEF Apply, Args
  <2>3. CASE p.kind = "remove"
    BY <1>1, <1>3, <2>1, <2>3, RemoveMemberType DEF Apply
  <2>4. CASE p.kind = "set"
    BY <1>1, <1>3, <2>1, <2>4 DEF Apply, Args
  <2>5. CASE p.kind = "checked"
    BY <1>1, <1>3, <2>1, <2>5, VotingAssumption DEF Apply, Args
  <2>6. CASE p.kind = "deprecated"
    BY <1>1, <1>3, <2>1, <2>6 DEF Apply
  <2>. QED  BY <2>1, <2>2, <2>3, <2>4, <2>5, <2>6 DEF Kinds
<1>. QED  BY <1>2, <1>3

(***************************************************************************)
(* However a proposal ends, all traces of it are gone, and it is applied   *)
(* only when the record says that it was decided.                          *)
(***************************************************************************)
LEMMA EndProposalIInv ==
    ASSUME IInv, NEW p \in Proposals, p.arg \in Args(p.kind),
           NEW a \in Seq(Members), NEW d \in Seq(Members), NEW start \in Nat,
           NEW tks, \A t \in tks : t.time = p.endTime /\ t.handler = "vote",
           NEW agree \in BOOLEAN, NEW how \in {"votes", "timeout"},
           agree => /\ how = "votes"
                    /\ Elements(gov) = Elements(a) \cup Elements(d)
                    /\ 3 * Cardinality(Elements(a)) >= 2 * Cardinality(Elements(gov)),
           EndProposal(p, a, d, start, tks, agree, how)
    PROVE  /\ IInv'
           /\ agree => Decided(history'[height]) /\ history'[height].government = gov
           /\ ~agree => UNCHANGED <<gov, params>>
<1> DEFINE r == Record(p, a, d, start)
<1>1. height \in Nat /\ gov \in Seq(Members) /\ closed \in Nat /\ now \in Nat
  BY DEF IInv, TypeOK
<1>2. /\ r \in Records /\ r.government = gov /\ r.agreed = a /\ r.disagreed = d
      /\ r.finished = height
  BY <1>1 DEF Record, Records
<1>3. /\ DOMAIN history' = DOMAIN history \cup {height}
      /\ history'[height] = r
      /\ \A h \in DOMAIN history : h # height => history'[h] = history[h]
  BY DEF EndProposal
<1>4. tasks' = {}
  BY DEF EndProposal, DeleteEnding, RemoveAll
<1>5. /\ gov' \in Seq(Members) /\ params' \in Values
      /\ ~agree => UNCHANGED <<gov, params>>
  BY OutcomeType DEF EndProposal, IInv
<1>6. /\ proposal' = NoProposal /\ agreed' = <<>> /\ disagreed' = <<>>
      /\ startBlock' = 0 /\ closed' = closed + 1 /\ height' = height /\ now' = now
      /\ last' = [applied |-> agree, how |-> how, finished |-> height]
  BY DEF EndProposal
<1>. HIDE DEF r
<1>7. last' \in [applied : BOOLEAN, how : {"none", "votes", "timeout"}, finished : Nat]
  BY <1>1, <1>6, Zenon
<1>8. \A h \in DOMAIN history' : h \in Nat /\ history'[h] \in Records
  BY <1>1, <1>2, <1>3 DEF IInv, TypeOK
<1>9. TypeOK'
  <2>1. agreed' \in Seq(Members) /\ disagreed' \in Seq(Members) /\ closed' \in Nat
    BY <1>1, <1>6
  <2>. QED  BY <1>1, <1>4, <1>5, <1>6, <1>7, <1>8, <2>1 DEF TypeOK
<1>10. HeightPositive' /\ ArgumentFits' /\ VotesOfGovernment' /\ TimerArmed'
  BY <1>4, <1>6 DEF IInv, HeightPositive, ArgumentFits, VotesOfGovernment, TimerArmed
<1>11. agree => Decided(r)
  BY <1>2 DEF Decided
<1>12. AppliedByTwoThirds'
  <2> SUFFICES ASSUME agree
               PROVE  last'.how = "votes" /\ Decided(history'[last'.finished])
    BY <1>6 DEF AppliedByTwoThirds, Decided
  <2>. QED  BY <1>3, <1>6, <1>11
<1>13. HistoryFiled'
  BY <1>2, <1>3, <1>6 DEF IInv, HistoryFiled
<1>. QED  BY <1>2, <1>3, <1>5, <1>9, <1>10, <1>11, <1>12, <1>13 DEF IInv

(***************************************************************************)
(* Propose: a government of one decides at once, and a larger one has not  *)
(* decided with the vote of the author.                                    *)
(***************************************************************************)
LEMMA ProposeIInv ==
    ASSUME IInv, NEW m \in Members, NEW k \in Kinds, NEW x \in Args(k),
           Propose(m, k, x)
    PROVE  /\ IInv'
           /\ \/ UNCHANGED <<gov, params>>
              \/ Decided(history'[height]) /\ history'[height].government = gov
<1> DEFINE p == [author |-> m, kind |-> k, arg |-> x, endTime |-> now + VotingPeriod]
           a == <<m>>
           t == [id |-> height, time |-> now + VotingPeriod, handler |-> "vote",
                 data |-> NoTask]
<1>1. /\ now \in Nat /\ height \in Nat /\ now + VotingPeriod \in Nat
      /\ gov \in Seq(Members) /\ closed \in Nat
  BY VotingAssumption DEF IInv, TypeOK
<1>2. /\ p \in Proposals /\ p.arg \in Args(p.kind) /\ p.author = m
      /\ p.endTime = now + VotingPeriod
  BY <1>1 DEF Proposals, Args
<1>3. p # NoProposal
  BY <1>2, NoProposalAssumption
<1>4. t \in Task({"vote"}, {NoTask}) /\ t.time = p.endTime /\ t.handler = "vote"
  BY <1>1 DEF Task
<1>5. proposal = NoProposal /\ tasks = {} /\ ScheduleEnding(tasks, p.endTime) = {t}
  BY DEF Propose, IInv, TimerArmed, ScheduleEnding, Put
<1>6. /\ a \in Seq(Members) /\ Len(a) = 1 /\ Elements(a) = {m} /\ Distinct(a)
      /\ <<>> \in Seq(Members) /\ Elements(<<>>) = {} /\ Distinct(<<>>)
  BY DEF Elements, Distinct
<1>7. Contains(gov, m) /\ m \in Elements(gov)
  BY DEF Propose, Elements, Contains
<1>8. CASE Complete(gov, a, <<>>)
  <2>1. EndProposal(p, a, <<>>, height, {t}, Agreed(gov, a, <<>>), "votes")
    BY <1>5, <1>8 DEF Propose
  <2>2. Agreed(gov, a, <<>>)
          => /\ Elements(gov) = Elements(a) \cup Elements(<<>>)
             /\ 3 * Cardinality(Elements(a)) >= 2 * Cardinality(Elements(gov))
    <3>. HIDE DEF a
    <3>1. Elements(a) \cap Elements(<<>>) = {}
          /\ Elements(a) \cup Elements(<<>>) \subseteq Elements(gov)
      BY <1>6, <1>7
    <3>. QED  BY <3>1, <1>1, <1>6, CompleteMeansEveryone
  <2>3. Agreed(gov, a, <<>>) \in BOOLEAN
    BY DEF Agreed
  <2>4. \A u \in {t} : u.time = p.endTime /\ u.handler = "vote"
    BY <1>4
  <2>. DEFINE agree == Agreed(gov, a, <<>>)
              none == <<>>
  <2>5. /\ EndProposal(p, a, none, height, {t}, agree, "votes")
        /\ agree => /\ Elements(gov) = Elements(a) \cup Elements(none)
                    /\ 3 * Cardinality(Elements(a)) >= 2 * Cardinality(Elements(gov))
        /\ a \in Seq(Members) /\ none \in Seq(Members) /\ agree \in BOOLEAN
    BY <1>6, <2>1, <2>2, <2>3
  <2>. HIDE DEF p, a, t, agree, none
  <2>. QED  BY <1>1, <1>2, <2>4, <2>5, EndProposalIInv
<1>9. CASE ~Complete(gov, a, <<>>)
  <2>1. /\ proposal' = p /\ agreed' = a /\ disagreed' = <<>>
        /\ tasks' = {t} /\ startBlock' = height
        /\ UNCHANGED <<height, now, gov, history, params, closed, last>>
    BY <1>5, <1>9 DEF Propose
  <2>. HIDE DEF p, a, t
  <2>2. TypeOK'
    BY <1>1, <1>2, <1>4, <1>6, <2>1 DEF IInv, TypeOK
  <2>3. ArgumentFits' /\ TimerArmed'
    BY <1>2, <1>3, <1>4, <2>1 DEF ArgumentFits, TimerArmed
  <2>4. height >= 1
    BY DEF IInv, HeightPositive
  <2>5. VotesOfGovernment'
    BY <1>1, <1>2, <1>3, <1>6, <1>7, <1>9, <2>1, <2>4 DEF VotesOfGovernment
  <2>6. AppliedByTwoThirds' /\ HeightPositive' /\ HistoryFiled'
    BY <2>1 DEF IInv, AppliedByTwoThirds, HeightPositive, HistoryFiled
  <2>. QED  BY <2>1, <2>2, <2>3, <2>5, <2>6 DEF IInv
<1>. QED  BY <1>8, <1>9

(***************************************************************************)
(* Vote: the votes stay one per member of the government, and the last one *)
(* ends the proposal.                                                      *)
(***************************************************************************)
LEMMA VoteIInv ==
    ASSUME IInv, NEW m \in Members, NEW b \in BOOLEAN, Vote(m, b)
    PROVE  /\ IInv'
           /\ \/ UNCHANGED <<gov, params>>
              \/ Decided(history'[height]) /\ history'[height].government = gov
<1> DEFINE a == IF b THEN Append(agreed, m) ELSE agreed
           d == IF b THEN disagreed ELSE Append(disagreed, m)
<1>1. /\ gov \in Seq(Members) /\ agreed \in Seq(Members) /\ disagreed \in Seq(Members)
      /\ startBlock \in Nat
  BY DEF IInv, TypeOK
<1>2. /\ proposal # NoProposal /\ proposal \in Proposals
      /\ proposal.arg \in Args(proposal.kind)
  BY DEF Vote, IInv, TypeOK, ArgumentFits
<1>3. /\ m \in Elements(gov) /\ ~Contains(agreed, m) /\ ~Contains(disagreed, m)
      /\ m \notin Elements(agreed) /\ m \notin Elements(disagreed)
  BY <1>1, ElementsOf DEF Vote, MayVote
<1>4. /\ Distinct(agreed) /\ Distinct(disagreed)
      /\ Elements(agreed) \cap Elements(disagreed) = {}
      /\ Elements(agreed) \cup Elements(disagreed) \subseteq Elements(gov)
      /\ proposal.author \in Elements(agreed)
      /\ startBlock \in 1..height
  BY <1>2 DEF IInv, VotesOfGovernment
<1>5. /\ a \in Seq(Members) /\ d \in Seq(Members) /\ Distinct(a) /\ Distinct(d)
      /\ Elements(a) \cap Elements(d) = {}
      /\ Elements(a) \cup Elements(d) \subseteq Elements(gov)
      /\ proposal.author \in Elements(a)
  <2>1. CASE b
    BY <1>1, <1>3, <1>4, <2>1, ElementsAppend
  <2>2. CASE ~b
    BY <1>1, <1>3, <1>4, <2>2, ElementsAppend
  <2>. QED  BY <2>1, <2>2
<1>6. CASE Complete(gov, a, d)
  <2>1. EndProposal(proposal, a, d, startBlock, tasks, Agreed(gov, a, d), "votes")
    BY <1>6 DEF Vote
  <2>. HIDE DEF a, d
  <2>2. Agreed(gov, a, d)
          => /\ Elements(gov) = Elements(a) \cup Elements(d)
             /\ 3 * Cardinality(Elements(a)) >= 2 * Cardinality(Elements(gov))
    BY <1>1, <1>5, CompleteMeansEveryone
  <2>3. Agreed(gov, a, d) \in BOOLEAN
    BY DEF Agreed
  <2>4. \A t \in tasks : t.time = proposal.endTime /\ t.handler = "vote"
    BY <1>2 DEF IInv, TimerArmed, TypeOK, Task
  <2>. QED  BY <1>1, <1>2, <1>5, <2>1, <2>2, <2>3, <2>4, EndProposalIInv
<1>7. CASE ~Complete(gov, a, d)
  <2>1. /\ agreed' = a /\ disagreed' = d
        /\ UNCHANGED <<height, now, gov, proposal, startBlock, history, params,
                       tasks, closed, last>>
    BY <1>7 DEF Vote
  <2>. HIDE DEF a, d
  <2>2. TypeOK'
    BY <1>5, <2>1 DEF IInv, TypeOK
  <2>3. ArgumentFits' /\ TimerArmed' /\ AppliedByTwoThirds' /\ HeightPositive' /\ HistoryFiled'
    BY <2>1 DEF IInv, ArgumentFits, TimerArmed, AppliedByTwoThirds, HeightPositive, HistoryFiled
  <2>4. VotesOfGovernment'
    BY <1>2, <1>4, <1>5, <1>7, <2>1 DEF VotesOfGovernment
  <2>. QED  BY <2>1, <2>2, <2>3, <2>4 DEF IInv
<1>. QED  BY <1>6, <1>7

(***************************************************************************)
(* The timer finds its proposal open, hence incomplete, and rejects it.    *)
(***************************************************************************)
LEMMA ProcessScheduleIInv ==
    ASSUME IInv, ProcessSchedule
    PROVE  IInv' /\ UNCHANGED <<gov, params>>
<1>1. PICK t \in DueAt(tasks, now) : ProcessSchedule!1!(t)
  BY DEF ProcessSchedule
<1>2. /\ proposal # NoProposal /\ tasks \ {t} = {}
  BY DEF DueAt, IInv, TimerArmed
<1>3. /\ proposal \in Proposals /\ proposal.arg \in Args(proposal.kind)
      /\ agreed \in Seq(Members) /\ disagreed \in Seq(Members) /\ startBlock \in Nat
  BY <1>2 DEF IInv, TypeOK, ArgumentFits
<1>4. Agreed(gov, agreed, disagreed) = FALSE
  BY <1>2 DEF IInv, VotesOfGovernment, Agreed
<1>5. EndProposal(proposal, agreed, disagreed, startBlock, {}, FALSE, "timeout")
  BY <1>1, <1>2, <1>4
<1>. QED  BY <1>3, <1>5, EndProposalIInv

LEMMA BeginBlockIInv ==
    ASSUME IInv, BeginBlock
    PROVE  IInv' /\ UNCHANGED <<gov, params>>
<1>1. /\ now' \in Nat /\ height' = height + 1 /\ height \in Nat /\ height' \in Nat
      /\ UNCHANGED <<gov, proposal, agreed, disagreed, startBlock, history,
                     params, tasks, closed, last>>
  BY VotingAssumption DEF BeginBlock, NextBlock, IInv, TypeOK
<1>2. TypeOK'
  BY <1>1 DEF IInv, TypeOK
<1>3. ArgumentFits' /\ TimerArmed' /\ AppliedByTwoThirds' /\ HistoryFiled'
  BY <1>1 DEF IInv, ArgumentFits, TimerArmed, AppliedByTwoThirds, HistoryFiled
<1>4. VotesOfGovernment' /\ HeightPositive'
  <2>1. startBlock \in 1..height => startBlock \in 1..(height + 1)
    BY <1>1
  <2>. QED  BY <1>1, <2>1 DEF IInv, VotesOfGovernment, Complete, HeightPositive
<1>. QED  BY <1>1, <1>2, <1>3, <1>4 DEF IInv

(***************************************************************************)
(* An import finds what was exported: the records of the history go back   *)
(* under their heights, and without a proposal there was no start block.   *)
(***************************************************************************)
LEMMA ImportFinds ==
    ASSUME IInv, ImportGenesis
    PROVE  /\ UNCHANGED <<height, now, gov, proposal, agreed, disagreed, startBlock, params,
                         tasks, closed, last>>
           /\ history' = [h \in DOMAIN history |-> history[h]]
<1> DEFINE R == {history[h] : h \in DOMAIN history}
<1>1. \A h \in DOMAIN history : history[h].finished = h
  BY DEF IInv, HistoryFiled
<1>2. {r.finished : r \in R} = DOMAIN history
  BY <1>1
<1>3. ASSUME NEW h \in DOMAIN history
      PROVE  (CHOOSE r \in R : r.finished = h) = history[h]
  <2>1. history[h] \in R /\ history[h].finished = h
    BY <1>1
  <2>2. \A r \in R : r.finished = h => r = history[h]
    BY <1>1
  <2>. HIDE DEF R
  <2>. QED  BY <2>1, <2>2
<1>4. Filed(R) = [h \in DOMAIN history |-> history[h]]
  BY <1>2, <1>3 DEF Filed
<1>5. proposal = NoProposal => startBlock = 0
  BY DEF IInv, VotesOfGovernment
<1>6. Exported.history = R
  BY DEF Exported
<1>7. /\ Exported.government = gov /\ Exported.current = proposal
      /\ Exported.agreed = agreed /\ Exported.disagreed = disagreed
      /\ proposal # NoProposal => Exported.start = startBlock
  BY DEF Exported
<1>. HIDE DEF R
<1>. QED  BY <1>4, <1>5, <1>6, <1>7 DEF ImportGenesis

LEMMA ImportGenesisIInv ==
    ASSUME IInv, ImportGenesis
    PROVE  IInv' /\ UNCHANGED <<gov, params>>
<1>1. /\ UNCHANGED <<height, now, gov, proposal, agreed, disagreed, startBlock, params,
                    tasks, closed, last>>
      /\ DOMAIN history' = DOMAIN history
      /\ \A h \in DOMAIN history : history'[h] = history[h]
  BY ImportFinds
<1>2. TypeOK'
  BY <1>1 DEF IInv, TypeOK
<1>3. HeightPositive' /\ HistoryFiled' /\ ArgumentFits' /\ TimerArmed' /\ VotesOfGovernment'
  BY <1>1 DEF IInv, HeightPositive, HistoryFiled, ArgumentFits, TimerArmed, VotesOfGovernment,
              Complete
<1>4. AppliedByTwoThirds'
  BY <1>1 DEF IInv, AppliedByTwoThirds, HistoryFiled
<1>. QED  BY <1>1, <1>2, <1>3, <1>4 DEF IInv

(***************************************************************************)
(* Every step keeps the inductive invariant, and changes the government or *)
(* a parameter only by a decision on record.                               *)
(***************************************************************************)
LEMMA NextIInv ==
    ASSUME IInv, [Next]_vars
    PROVE  /\ IInv'
           /\ \/ UNCHANGED <<gov, params>>
              \/ Decided(history'[height]) /\ history'[height].government = gov
<1> DEFINE Goal == /\ IInv'
                   /\ \/ UNCHANGED <<gov, params>>
                      \/ Decided(history'[height]) /\ history'[height].government = gov
<1> SUFFICES Goal
  OBVIOUS
<1>1. ASSUME NEW m \in Members, NEW k \in Kinds, NEW x \in Args(k), Propose(m, k, x)
      PROVE  Goal
  BY <1>1, ProposeIInv
<1>2. ASSUME NEW m \in Members, NEW b \in BOOLEAN, Vote(m, b)
      PROVE  Goal
  BY <1>2, VoteIInv
<1>3. CASE ProcessSchedule
  BY <1>3, ProcessScheduleIInv
<1>4. CASE BeginBlock
  BY <1>4, BeginBlockIInv
<1>5. CASE ImportGenesis
  BY <1>5, ImportGenesisIInv
<1>6. CASE UNCHANGED vars
  BY <1>6 DEF vars, IInv, TypeOK, ArgumentFits, VotesOfGovernment, TimerArmed,
              AppliedByTwoThirds, Complete, HeightPositive, HistoryFiled
<1>. HIDE DEF Goal
<1>. QED  BY <1>1, <1>2, <1>3, <1>4, <1>5, <1>6 DEF Next

\* The inductive invariant holds always; the theorems below read off its parts.
LEMMA InductiveInvariant == Safety => []IInv
<1>1. IInv /\ [Next]_vars => IInv'
  BY NextIInv
<1>. QED  BY InitIInv, <1>1, PTL DEF Safety

(***************************************************************************)
(* The store keeps its shape.                                              *)
(***************************************************************************)
THEOREM VotingTypeCorrect == Spec => []TypeOK
<1>1. IInv => TypeOK
  BY DEF IInv
<1>. QED  BY <1>1, InductiveInvariant, PTL DEF Spec

(***************************************************************************)
(* The votes on the open proposal are one per voter, all of the government *)
(* that decides, and nothing of them survives the proposal.                *)
(***************************************************************************)
THEOREM VotingVotesOfGovernment == Spec => []VotesOfGovernment
<1>1. IInv => VotesOfGovernment
  BY DEF IInv
<1>. QED  BY <1>1, InductiveInvariant, PTL DEF Spec

(***************************************************************************)
(* One timer per open proposal and none without one.                       *)
(***************************************************************************)
THEOREM VotingTimerArmed == Spec => []TimerArmed
<1>1. IInv => TimerArmed
  BY DEF IInv
<1>. QED  BY <1>1, InductiveInvariant, PTL DEF Spec

(***************************************************************************)
(* keeper.Agreed counts votes against the length of a list that may repeat *)
(* members; nevertheless a proposal is applied only when everyone in the   *)
(* government has voted and two thirds of the people are in favour.        *)
(***************************************************************************)
THEOREM VotingAppliedByTwoThirds == Spec => []AppliedByTwoThirds
<1>1. IInv => AppliedByTwoThirds
  BY DEF IInv
<1>. QED  BY <1>1, InductiveInvariant, PTL DEF Spec

(***************************************************************************)
(* No step changes the government or a parameter without a decision of the *)
(* government in office before the step.                                   *)
(***************************************************************************)
THEOREM VotingChangedByGovernment == Spec => ChangedByGovernment
<1>1. IInv /\ [Next]_vars =>
        [<<gov, params>>' = <<gov, params>>
           \/ (Decided(history'[height]) /\ history'[height].government = gov)]_vars
  BY NextIInv
<1>. QED  BY <1>1, InductiveInvariant, PTL DEF Spec, Safety, ChangedByGovernment

(***************************************************************************)
(* The government, the open proposal with its votes and the records of     *)
(* those before go through a genesis file as they are (genesis.go), though *)
(* the file has no keys for the records and leaves out what is empty.      *)
(***************************************************************************)
ImportLosesNothing ==
    [][ImportGenesis => /\ UNCHANGED <<gov, proposal, agreed, disagreed, startBlock>>
                        /\ DOMAIN history' = DOMAIN history
                        /\ \A h \in DOMAIN history : history'[h] = history[h]]_vars

THEOREM VotingImportLosesNothing == Spec => ImportLosesNothing
<1> DEFINE Kept == /\ UNCHANGED <<gov, proposal, agreed, disagreed, startBlock>>
                   /\ DOMAIN history' = DOMAIN history
                   /\ \A h \in DOMAIN history : history'[h] = history[h]
<1>1. IInv /\ [Next]_vars => [ImportGenesis => Kept]_vars
  <2> SUFFICES ASSUME IInv, ImportGenesis PROVE Kept
    OBVIOUS
  <2>. QED  BY ImportFinds
<1>. QED  BY <1>1, InductiveInvariant, PTL DEF Spec, Safety, ImportLosesNothing

-----------------------------------------------------------------------------
\* Polls.

Yeas(f) == {a \in DOMAIN f : f[a]}
Nays(f) == {a \in DOMAIN f : ~f[a]}

(***************************************************************************)
(* The results on record are those of polls that have ended: their keys,   *)
(* the end times, are over, and lie before the end of the current poll.    *)
(***************************************************************************)
HistoryBehind ==
    \A k \in DOMAIN pollHistory :
        k <= now /\ (poll # NoPoll => k < poll.endTime)

PollIInv == PollTypeOK /\ CountersAgree /\ PollTimerArmed /\ HistoryBehind

(***************************************************************************)
(* A result in the history is never replaced or deleted (keeper.EndPoll    *)
(* saves under the end time of the poll, whatever is there).               *)
(***************************************************************************)
HistoryKept ==
    [][\A k \in DOMAIN pollHistory :
          k \in DOMAIN pollHistory' /\ pollHistory'[k] = pollHistory[k]]_pollVars

(***************************************************************************)
(* The answers are those of finitely many accounts, each either yes or no. *)
(***************************************************************************)
LEMMA AnswersFinite ==
    ASSUME PollTypeOK
    PROVE  IsFiniteSet(Yeas(answers)) /\ IsFiniteSet(Nays(answers))
<1>1. Yeas(answers) \subseteq Accounts /\ Nays(answers) \subseteq Accounts
  BY DEF PollTypeOK, Yeas, Nays
<1>. QED  BY <1>1, PollAssumption, FS_Subset

(***************************************************************************)
(* No answers, no counts.                                                  *)
(***************************************************************************)
LEMMA NoAnswersCount ==
    /\ DOMAIN NoAnswers = {}
    /\ Cardinality(Yeas(NoAnswers)) = 0 /\ Cardinality(Nays(NoAnswers)) = 0
<1>1. Yeas(NoAnswers) = {} /\ Nays(NoAnswers) = {} /\ DOMAIN NoAnswers = {}
  BY DEF Yeas, Nays, NoAnswers
<1>. QED  BY <1>1, FS_EmptySet

\* A chain starts without a poll.
LEMMA PollInitIInv == PollInit => PollIInv
<1> SUFFICES ASSUME PollInit PROVE PollIInv
  OBVIOUS
<1>1. PollTypeOK
  BY NoAnswersCount DEF PollInit, PollTypeOK
<1>2. CountersAgree
  BY NoAnswersCount DEF PollInit, CountersAgree, Yeas, Nays
<1>3. PollTimerArmed /\ HistoryBehind
  BY DEF PollInit, PollTimerArmed, HistoryBehind
<1>. QED  BY <1>1, <1>2, <1>3 DEF PollIInv

(***************************************************************************)
(* StartPoll finds no task, schedules one at the end time, and gives the   *)
(* poll an end time that no result is recorded under.                      *)
(***************************************************************************)
LEMMA StartPollIInv ==
    ASSUME PollIInv, NEW m \in Government, NEW q \in Quorums, StartPoll(m, q)
    PROVE  PollIInv'
<1> DEFINE p == [author |-> m, quorum |-> q, endTime |-> now + PollPeriod]
           t == [id |-> now, time |-> now + PollPeriod, handler |-> "poll",
                 data |-> NoPoll]
<1>1. now \in Nat /\ now + PollPeriod \in Nat /\ now + PollPeriod > now
  BY PollAssumption DEF PollIInv, PollTypeOK
<1>2. p \in Polls /\ p # NoPoll /\ p.endTime = now + PollPeriod
  BY <1>1, PollAssumption DEF Polls
<1>3. t \in Task({"poll"}, {NoPoll}) /\ t.time = now + PollPeriod
  BY <1>1 DEF Task
<1>4. poll' = p /\ tasks = {} /\ tasks' = {t} /\ poll = NoPoll
  BY DEF StartPoll, ScheduleEnd, Put, PollIInv, PollTimerArmed
<1>5. UNCHANGED <<now, answers, yes, no, pollHistory, eligible, crashed, restarts>>
  BY DEF StartPoll
<1>. HIDE DEF p, t
<1>6. PollTypeOK'
  BY <1>2, <1>3, <1>4, <1>5 DEF PollIInv, PollTypeOK
<1>7. CountersAgree'
  BY <1>2, <1>4, <1>5 DEF PollIInv, CountersAgree
<1>8. PollTimerArmed'
  BY <1>2, <1>3, <1>4 DEF PollTimerArmed
<1>9. HistoryBehind'
  <2> SUFFICES ASSUME NEW k \in DOMAIN pollHistory
               PROVE  k <= now /\ k < now + PollPeriod
    BY <1>2, <1>4, <1>5 DEF HistoryBehind
  <2>1. k \in Nat /\ k <= now
    BY DEF PollIInv, PollTypeOK, HistoryBehind
  <2>. QED  BY <2>1, <1>1
<1>. QED  BY <1>6, <1>7, <1>8, <1>9 DEF PollIInv

(***************************************************************************)
(* Answer counts an account once, on the side of its answer.               *)
(***************************************************************************)
LEMMA AnswerIInv ==
    ASSUME PollIInv, NEW acc \in Accounts, NEW ans \in BOOLEAN, Answer(acc, ans)
    PROVE  PollIInv'
<1>1. /\ poll # NoPoll /\ acc \notin DOMAIN answers
      /\ answers' = [a \in DOMAIN answers \cup {acc} |->
                       IF a = acc THEN ans ELSE answers[a]]
      /\ UNCHANGED <<now, poll, pollHistory, tasks, eligible, crashed, restarts>>
  BY DEF Answer, MayAnswer
<1>2. IsFiniteSet(Yeas(answers)) /\ IsFiniteSet(Nays(answers))
  BY AnswersFinite DEF PollIInv
<1>3. acc \notin Yeas(answers) /\ acc \notin Nays(answers)
  BY <1>1 DEF Yeas, Nays
<1>4. /\ yes = Cardinality(Yeas(answers)) /\ no = Cardinality(Nays(answers))
      /\ yes \in Nat /\ no \in Nat
  BY DEF PollIInv, PollTypeOK, CountersAgree, Yeas, Nays
<1>5. /\ DOMAIN answers' = DOMAIN answers \cup {acc}
      /\ answers'[acc] = ans
      /\ \A a \in DOMAIN answers : answers'[a] = answers[a]
  BY <1>1
<1>6. yes' = Cardinality(Yeas(answers')) /\ no' = Cardinality(Nays(answers'))
  <2>1. CASE ans
    <3>1. Yeas(answers') = Yeas(answers) \cup {acc} /\ Nays(answers') = Nays(answers)
      BY <1>1, <1>5, <2>1 DEF Yeas, Nays
    <3>2. yes' = yes + 1 /\ no' = no
      BY <2>1 DEF Answer
    <3>. QED  BY <3>1, <3>2, <1>2, <1>3, <1>4, FS_AddElement
  <2>2. CASE ~ans
    <3>1. Nays(answers') = Nays(answers) \cup {acc} /\ Yeas(answers') = Yeas(answers)
      BY <1>1, <1>5, <2>2 DEF Yeas, Nays
    <3>2. no' = no + 1 /\ yes' = yes
      BY <2>2 DEF Answer
    <3>. QED  BY <3>1, <3>2, <1>2, <1>3, <1>4, FS_AddElement
  <2>. QED  BY <2>1, <2>2
<1>7. yes' \in Nat /\ no' \in Nat
  BY <1>4 DEF Answer
<1>8. PollTypeOK'
  BY <1>1, <1>5, <1>7 DEF PollIInv, PollTypeOK
<1>9. CountersAgree'
  BY <1>1, <1>6 DEF CountersAgree, Yeas, Nays
<1>10. PollTimerArmed' /\ HistoryBehind'
  BY <1>1 DEF PollIInv, PollTimerArmed, HistoryBehind
<1>. QED  BY <1>8, <1>9, <1>10 DEF PollIInv

(***************************************************************************)
(* What EndPoll does: the one task is gone, so is the poll, and its result *)
(* is recorded under a key that was free.                                  *)
(***************************************************************************)
LEMMA EndPollStep ==
    ASSUME PollIInv, EndPoll
    PROVE  /\ poll # NoPoll /\ poll \in Polls /\ poll.endTime <= now
           /\ poll.endTime \notin DOMAIN pollHistory
           /\ tasks' = {} /\ poll' = NoPoll /\ Cleared
           /\ DOMAIN pollHistory' = DOMAIN pollHistory \cup {poll.endTime}
           /\ \A k \in DOMAIN pollHistory : pollHistory'[k] = pollHistory[k]
           /\ UNCHANGED <<now, eligible, crashed, restarts>>
<1>1. PICK t \in DueAt(tasks, now) : EndPoll!2!(t)
  BY DEF EndPoll
<1>2. t \in tasks /\ t.time <= now
  BY DEF DueAt
<1>3. poll # NoPoll /\ tasks = {t} /\ t.time = poll.endTime
  BY <1>2 DEF PollIInv, PollTimerArmed
<1>4. poll \in Polls /\ poll.endTime \in Nat
  BY <1>3 DEF PollIInv, PollTypeOK, Polls
<1>5. poll.endTime \notin DOMAIN pollHistory
  BY <1>3, <1>4 DEF PollIInv, HistoryBehind
<1>6. /\ pollHistory' = [k \in DOMAIN pollHistory \cup {poll.endTime} |->
                          IF k = poll.endTime
                          THEN [poll |-> poll, yes |-> yes, no |-> no,
                                decision |-> Decision]
                          ELSE pollHistory[k]]
      /\ poll' = NoPoll /\ Cleared /\ tasks' = {}
  BY <1>1, <1>3 DEF HistoryKey
<1>7. /\ DOMAIN pollHistory' = DOMAIN pollHistory \cup {poll.endTime}
      /\ \A k \in DOMAIN pollHistory : pollHistory'[k] = pollHistory[k]
  BY <1>5, <1>6
<1>8. UNCHANGED <<now, eligible, crashed, restarts>>
  BY DEF EndPoll
<1>. QED  BY <1>2, <1>3, <1>4, <1>5, <1>6, <1>7, <1>8

LEMMA EndPollIInv == ASSUME PollIInv, EndPoll PROVE PollIInv'
<1>1. answers' = NoAnswers /\ yes' = 0 /\ no' = 0 /\ poll' = NoPoll /\ tasks' = {}
  BY EndPollStep DEF Cleared
<1>2. poll.endTime \in Nat /\ poll.endTime <= now
  BY EndPollStep DEF Polls
<1>3. DOMAIN pollHistory' = DOMAIN pollHistory \cup {poll.endTime}
  BY EndPollStep
<1>4. UNCHANGED <<now, eligible, crashed, restarts>>
  BY EndPollStep
<1>5. PollTypeOK'
  BY <1>1, <1>2, <1>3, <1>4, NoAnswersCount DEF PollIInv, PollTypeOK
<1>6. CountersAgree'
  BY <1>1, NoAnswersCount DEF CountersAgree, Yeas, Nays
<1>7. PollTimerArmed'
  BY <1>1 DEF PollTimerArmed
<1>8. HistoryBehind'
  BY <1>1, <1>2, <1>3, <1>4 DEF PollIInv, HistoryBehind
<1>. QED  BY <1>5, <1>6, <1>7, <1>8 DEF PollIInv

(***************************************************************************)
(* A restart counts the answers afresh, and finds what was counted before. *)
(***************************************************************************)
LEMMA RestartIInv == ASSUME PollIInv, Restart PROVE PollIInv'
<1>1. /\ UNCHANGED <<now, poll, answers, pollHistory, eligible, tasks>>
      /\ restarts' = restarts + 1 /\ crashed' \in BOOLEAN
  BY DEF Restart, LoadTasks
<1>2. restarts' \in Nat
  BY <1>1 DEF PollIInv, PollTypeOK
<1>3. yes' = yes /\ no' = no
  BY DEF Restart, PollIInv, CountersAgree
<1>4. PollTypeOK'
  BY <1>1, <1>3, <1>2, Zenon DEF PollIInv, PollTypeOK
<1>. QED  BY <1>1, <1>3, <1>4 DEF PollIInv, CountersAgree, PollTimerArmed, HistoryBehind

LEMMA RequalifyIInv ==
    ASSUME PollIInv, NEW acc \in Accounts, Requalify(acc) PROVE PollIInv'
<1>1. PollTypeOK'
  BY DEF Requalify, PollIInv, PollTypeOK
<1>. QED  BY <1>1 DEF Requalify, PollIInv, CountersAgree, PollTimerArmed, HistoryBehind

LEMMA PollBeginBlockIInv == ASSUME PollIInv, PollBeginBlock PROVE PollIInv'
<1>1. now \in Nat /\ now' \in Nat /\ now' > now
  BY PollAssumption DEF PollBeginBlock, NextBlock, PollIInv, PollTypeOK
<1>2. UNCHANGED <<poll, answers, yes, no, pollHistory, tasks, eligible, crashed,
                  restarts>>
  BY DEF PollBeginBlock, NextBlock
<1>3. PollTypeOK' /\ CountersAgree' /\ PollTimerArmed'
  BY <1>1, <1>2 DEF PollIInv, PollTypeOK, CountersAgree, PollTimerArmed
<1>4. HistoryBehind'
  <2> SUFFICES ASSUME NEW k \in DOMAIN pollHistory
               PROVE  k <= now' /\ (poll # NoPoll => k < poll.endTime)
    BY <1>2 DEF HistoryBehind
  <2>1. k \in Nat /\ k <= now /\ (poll # NoPoll => k < poll.endTime)
    BY DEF PollIInv, PollTypeOK, HistoryBehind
  <2>. QED  BY <2>1, <1>1
<1>. QED  BY <1>3, <1>4 DEF PollIInv

(***************************************************************************)
(* Every step of the component keeps the inductive invariant.              *)
(***************************************************************************)
LEMMA PollNextIInv == PollIInv /\ [PollNext]_pollVars => PollIInv'
<1> SUFFICES ASSUME PollIInv, [PollNext]_pollVars PROVE PollIInv'
  OBVIOUS
<1>1. ASSUME NEW m \in Government, NEW q \in Quorums, StartPoll(m, q) PROVE PollIInv'
  BY <1>1, StartPollIInv
<1>2. ASSUME NEW acc \in Accounts, NEW ans \in BOOLEAN, Answer(acc, ans) PROVE PollIInv'
  BY <1>2, AnswerIInv
<1>3. ASSUME NEW acc \in Accounts, Requalify(acc) PROVE PollIInv'
  BY <1>3, RequalifyIInv
<1>4. CASE EndPoll
  BY <1>4, EndPollIInv
<1>5. CASE Restart
  BY <1>5, RestartIInv
<1>6. CASE PollBeginBlock
  BY <1>6, PollBeginBlockIInv
<1>7. CASE UNCHANGED pollVars
  BY <1>7 DEF pollVars, PollIInv, PollTypeOK, CountersAgree, PollTimerArmed, HistoryBehind
<1>. QED  BY <1>1, <1>2, <1>3, <1>4, <1>5, <1>6, <1>7 DEF PollNext

\* The inductive invariant holds always; the theorems below read off its parts.
LEMMA PollInductiveInvariant == PollSafety => []PollIInv
BY PollInitIInv, PollNextIInv, PTL DEF PollSafety

(***************************************************************************)
(* The store keeps its shape.                                              *)
(***************************************************************************)
THEOREM PollTypeCorrect == PollSpec => []PollTypeOK
<1>1. PollIInv => PollTypeOK
  BY DEF PollIInv
<1>. QED  BY <1>1, PollInductiveInvariant, PTL DEF PollSpec

(***************************************************************************)
(* The counters of keeper.Answer agree with the stored answers in every    *)
(* state, after a restart from an exported genesis file too.               *)
(***************************************************************************)
THEOREM PollCountersAgree == PollSpec => []CountersAgree
<1>1. PollIInv => CountersAgree
  BY DEF PollIInv
<1>. QED  BY <1>1, PollInductiveInvariant, PTL DEF PollSpec

(***************************************************************************)
(* A poll that is open has one task, at its end time, and without a poll   *)
(* there is none: EndPoll never panics.                                    *)
(***************************************************************************)
THEOREM PollTimerAlwaysArmed == PollSpec => []PollTimerArmed
<1>1. PollIInv => PollTimerArmed
  BY DEF PollIInv
<1>. QED  BY <1>1, PollInductiveInvariant, PTL DEF PollSpec

(***************************************************************************)
(* The key EndPoll saves a result under is always a free one: no result is *)
(* overwritten.                                                            *)
(***************************************************************************)
THEOREM PollHistoryKept == PollSpec => HistoryKept
<1> DEFINE Kept == \A k \in DOMAIN pollHistory :
                     k \in DOMAIN pollHistory' /\ pollHistory'[k] = pollHistory[k]
<1>1. PollIInv /\ [PollNext]_pollVars => [Kept]_pollVars
  <2> SUFFICES ASSUME PollIInv, [PollNext]_pollVars PROVE Kept
    OBVIOUS
  <2>1. CASE EndPoll
    BY <2>1, EndPollStep
  <2>2. CASE UNCHANGED pollHistory
    BY <2>2
  <2>. QED
    BY <2>1, <2>2 DEF PollNext, pollVars, StartPoll, Answer, Requalify, Restart, PollBeginBlock
<1>. QED  BY <1>1, PollInductiveInvariant, PTL DEF PollSpec, PollSafety, HistoryKept
=============================================================================
