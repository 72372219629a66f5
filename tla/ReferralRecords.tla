--------------------------- MODULE ReferralRecords ---------------------------
(***************************************************************************)
(* Proofs about Referral, continued, on what the records say: that every   *)
(* time a record waits for has its task, that who delegates is banished if *)
(* and only if he deserves it, that the index holds just the statuses      *)
(* there are, and that the sums by line are the sums over the team.        *)
(*                                                                         *)
(* Between transactions all of it holds of every record (Sane, Timed).     *)
(* Within a handler it holds but for the accounts that are about to become *)
(* active, X, and for the tasks still to come, rest (Quiet).  So a handler *)
(* is followed call by call: each goes from a quiet world to a quiet one,  *)
(* unless it fails.                                                        *)
(*                                                                         *)
(* Of sums, each line of an account is that of its referrals one line      *)
(* closer (Fit).  Within a handler this is true but for one account, whose *)
(* ancestors the next climb sets right (FitBut).                           *)
(***************************************************************************)
EXTENDS ReferralProofs

-----------------------------------------------------------------------------
(* Timers, banishments and the index.                                      *)

\* Inactive, and compressed.
Shut(r) == r.referrer # None /\ ~r.active /\ r.compressionAt = NoTime

\* Why an account that delegates x is to be banished: it has been compressed, or
\* it is about to be, in this block.
Expelled(r, x) ==
    /\ r.referrer # None /\ ~r.active /\ ~r.banished /\ x <= Dust
    /\ \/ r.compressionAt = NoTime
       \/ /\ phase \in {"begin", "pass"} /\ r.compressionAt < now
          /\ r.banishmentAt = now + Month

\* The record r of a, who delegates x; those of X are about to become active.
Sane(a, r, X, x) ==
    /\ r.active => r.compressionAt = NoTime /\ r.banishmentAt = NoTime
    /\ r.banished => /\ r.referrer # None /\ ~r.active /\ r.status = 0
                     /\ r.compressionAt = NoTime /\ r.banishmentAt = NoTime
                     /\ r.downgradeAt = NoTime /\ x <= Dust /\ a \notin X
    /\ Shut(r) /\ a \notin X => /\ r.referrals = {} /\ r.status <= 1
                                /\ ~r.banished /\ x <= Dust => r.banishmentAt # NoTime
    /\ r.banishmentAt # NoTime => Expelled(r, x)

\* The times of the record r of a have their tasks in P.
Timed(a, r, P) ==
    /\ r.referrer # None => Armed(P, r.compressionAt, "compression", a)
    /\ Armed(P, r.banishmentAt, "banish", a)
    /\ Armed(P, r.downgradeAt, "downgrade", a)
    /\ r.transition # None =>
         \E t \in P : t.handler = "transition-timeout" /\ t.data = a /\ t.time <= now + Day

Blank(r) == IsEmpty(r) => Outside(r)

\* Of the tasks of P those that banish are the ones records wait for.
BanishTasks(P, f) ==
    \A t \in P : t.handler = "banish" => t.id = 0 /\ f[t.data].banishmentAt = t.time

ToCome(P) == \A t \in P : phase # "begin" => t.time > now

\* A world in which accounts delegate D, and the tasks of rest are still to run.
Quiet(w, rest, X, D) ==
    /\ IndexFits(w.index, w.infos)
    /\ \A a \in Accounts : /\ Blank(w.infos[a]) /\ Sane(a, w.infos[a], X, D[a])
                           /\ Timed(a, w.infos[a], w.tasks \cup rest)
    /\ BanishTasks(w.tasks \cup rest, w.infos) /\ ToCome(w.tasks)

-----------------------------------------------------------------------------

\* A record without a status, of an account that is not banished.
LEMMA BlankFields ==
    ASSUME NEW r, IsEmpty(r), Blank(r)
    PROVE  /\ r.referrer = None /\ r.referrals = {} /\ r.activeReferrals = {} /\ ~r.active
           /\ r.compressionAt = NoTime /\ r.banishmentAt = NoTime /\ r.downgradeAt = NoTime
           /\ r.lines = Empty.lines
           /\ r.lines["coins"][0] = 0 /\ r.lines["delegated"][0] = 0
<1> DEFINE e == Empty
           n == r.transition
<1>1. r = [e EXCEPT !.transition = n]
  BY DEF Blank, Outside
<1>2. /\ e \in Info /\ e.referrer = None /\ ~e.active /\ e.activeReferrals = {}
      /\ e.downgradeAt = NoTime /\ e.lines["coins"][0] = 0 /\ e.lines["delegated"][0] = 0
  BY EmptyRecord DEF Records
<1>3. e.referrals = {} /\ e.compressionAt = NoTime /\ e.banishmentAt = NoTime
  BY DEF Empty
<1>. HIDE DEF e, n
<1>4. /\ r.referrer = e.referrer /\ r.referrals = e.referrals /\ r.active = e.active
      /\ r.activeReferrals = e.activeReferrals /\ r.compressionAt = e.compressionAt
      /\ r.banishmentAt = e.banishmentAt /\ r.downgradeAt = e.downgradeAt /\ r.lines = e.lines
  BY <1>1, <1>2 DEF Info
<1>. QED  BY <1>2, <1>3, <1>4 DEF e

LEMMA EmptyBlank == Blank(Empty)
BY EmptyRecord DEF Blank, Outside, Records, Info

LEMMA JudgedSane ==
    ASSUME Earned, NEW a, NEW r \in Records, NEW q \in Records, NEW P, NEW X, NEW x,
           Sane(a, r, X, x), Judged(a, r, q, P),
           Shut(r) /\ a \notin X => r.activeReferrals = {}
    PROVE  Sane(a, q, X, x) /\ Blank(q)
<1>1. q.status \in Nat
  BY InfoFields, Constants DEF Records
<1>2. Shut(q) <=> Shut(r)
  BY DEF Judged, Shut
<1>3. Expelled(r, x) => Expelled(q, x)
  BY DEF Judged, Expelled
<1>4. Blank(q)
  BY <1>1 DEF Judged, Blank, IsEmpty, Sane
<1>5. /\ q.active => q.compressionAt = NoTime /\ q.banishmentAt = NoTime
      /\ q.banished => /\ q.referrer # None /\ ~q.active /\ q.status = 0
                       /\ q.compressionAt = NoTime /\ q.banishmentAt = NoTime
                       /\ q.downgradeAt = NoTime /\ x <= Dust /\ a \notin X
  BY DEF Judged, Sane
<1>6. Shut(q) /\ a \notin X => /\ q.referrals = {} /\ q.status <= 1
                               /\ ~q.banished /\ x <= Dust => q.banishmentAt # NoTime
  BY <1>2 DEF Judged, Sane
<1>7. q.banishmentAt # NoTime => Expelled(q, x)
  BY <1>3 DEF Judged, Sane
<1>. QED  BY <1>4, <1>5, <1>6, <1>7 DEF Sane

LEMMA JudgedTimed ==
    ASSUME NEW a, NEW r, NEW q, NEW P, NEW T, NEW R, Timed(a, r, R), Judged(a, r, q, T),
           R \subseteq P, T \subseteq P
    PROVE  Timed(a, q, P)
BY DEF Timed, Armed, Judged

LEMMA TimedMore ==
    ASSUME NEW a, NEW r, NEW R, NEW P, Timed(a, r, R), R \subseteq P
    PROVE  Timed(a, r, P)
BY DEF Timed, Armed

\* w would be quiet with the record r of a, which may still have no status.
QuietBut(w, a, r, rest, X, D) ==
    LET f == [w.infos EXCEPT ![a] = r]
    IN  /\ IndexFits(w.index, f)
        /\ \A c \in Accounts : /\ c # a => Blank(f[c])
                               /\ Sane(c, f[c], X, D[c]) /\ Timed(c, f[c], w.tasks \cup rest)
        /\ BanishTasks(w.tasks \cup rest, f) /\ ToCome(w.tasks)

(***************************************************************************)
(* Sums do not matter, nor do the lists of who takes referrals.            *)
(***************************************************************************)
LEMMA QuietRecord ==
    ASSUME NEW w \in Worlds, NEW rest, NEW X, NEW D, Quiet(w, rest, X, D),
           rest \subseteq Task(Handlers, Accounts),
           NEW a \in Accounts, NEW r \in Records, SameTerms(w.infos[a], r),
           r.referrals = w.infos[a].referrals \/ ~Shut(r) \/ a \in X
    PROVE  QuietBut(w, a, r, rest, X, D)
<1> DEFINE f == [w.infos EXCEPT ![a] = r]
           q == w.infos[a]
<1>1. w.infos \in [Accounts -> Records] /\ w.tasks \subseteq Task(Handlers, Accounts)
  BY WorldFields
<1>2. f[a] = r /\ \A c \in Accounts \ {a} : f[c] = w.infos[c]
  BY <1>1
<1>. HIDE DEF f
<1>3. \A c \in Accounts : f[c].status = w.infos[c].status /\ f[c].banishmentAt = w.infos[c].banishmentAt
  BY <1>2 DEF SameTerms
<1>4. IndexFits(w.index, f)
  BY <1>3 DEF Quiet, IndexFits
<1>5. \A t \in w.tasks \cup rest : t.data \in Accounts
  BY <1>1 DEF Task
<1>6. BanishTasks(w.tasks \cup rest, f)
  BY <1>3, <1>5 DEF Quiet, BanishTasks
<1>7. Sane(a, r, X, D[a]) /\ Timed(a, r, w.tasks \cup rest)
  <2>1. Sane(a, q, X, D[a]) /\ Timed(a, q, w.tasks \cup rest)
    BY DEF Quiet
  <2>2. Shut(r) <=> Shut(q)
    BY DEF Shut, SameTerms
  <2>3. Expelled(q, D[a]) => Expelled(r, D[a])
    BY DEF Expelled, SameTerms
  <2>4. Timed(a, r, w.tasks \cup rest)
    BY <2>1 DEF Timed, SameTerms
  <2>. HIDE DEF q
  <2>5. Sane(a, r, X, D[a])
    BY <2>1, <2>2, <2>3 DEF Sane, SameTerms, q
  <2>. QED  BY <2>4, <2>5
<1>8. \A c \in Accounts \ {a} : /\ Blank(f[c]) /\ Sane(c, f[c], X, D[c])
                                /\ Timed(c, f[c], w.tasks \cup rest)
  BY <1>2 DEF Quiet
<1>. QED  BY <1>2, <1>4, <1>6, <1>7, <1>8 DEF QuietBut, Quiet, f

LEMMA UpdateQuiet ==
    ASSUME NEW w \in Worlds, NEW rest, NEW X, NEW D, NEW a \in Accounts, NEW r \in Records,
           QuietBut(w, a, r, rest, X, D), Blank(r)
    PROVE  Quiet(Update(w, a, r), rest, X, D)
<1> DEFINE f == [w.infos EXCEPT ![a] = r]
           v == Update(w, a, r)
<1>1. v.infos = f /\ v.tasks = w.tasks /\ v.index = w.index
  BY UpdateWorld, UpdateStores
<1>2. f[a] = r
  BY WorldFields
<1>3. QuietBut(w, a, r, rest, X, D)
  OBVIOUS
<1>. HIDE DEF v
<1>4. /\ IndexFits(w.index, f) /\ BanishTasks(w.tasks \cup rest, f) /\ ToCome(w.tasks)
      /\ \A c \in Accounts : /\ c # a => Blank(f[c])
                             /\ Sane(c, f[c], X, D[c]) /\ Timed(c, f[c], w.tasks \cup rest)
  BY <1>3 DEF QuietBut
<1>. HIDE DEF f
<1>5. \A c \in Accounts : Blank(f[c])
  BY <1>2, <1>4
<1>6. /\ IndexFits(v.index, v.infos) /\ BanishTasks(v.tasks \cup rest, v.infos) /\ ToCome(v.tasks)
      /\ \A c \in Accounts : /\ Blank(v.infos[c])
                             /\ Sane(c, v.infos[c], X, D[c]) /\ Timed(c, v.infos[c], v.tasks \cup rest)
  BY <1>1, <1>4, <1>5
<1>7. Quiet(v, rest, X, D)
  BY <1>6 DEF Quiet
<1>. QED  BY <1>7 DEF v

(***************************************************************************)
(* A check keeps a world quiet.                                            *)
(***************************************************************************)
LEMMA CheckedQuiet ==
    ASSUME now \in Nat, Earned, NEW w \in Worlds, NEW rest, NEW X, NEW D,
           rest \subseteq Task(Handlers, Accounts),
           NEW a \in Accounts, NEW r \in Records, QuietBut(w, a, r, rest, X, D),
           Shut(r) /\ a \notin X => r.activeReferrals = {},
           ~Checked(w, a, r).broken
    PROVE  LET v == Checked(w, a, r)
           IN  /\ Quiet(v, rest, X, D) /\ ~w.broken /\ v \in Worlds /\ Grown(w, v)
               /\ v.infos = [w.infos EXCEPT ![a] = v.infos[a]]
               /\ Judged(a, r, v.infos[a], v.tasks) /\ v.infos[a] \in Records
<1> DEFINE v == Checked(w, a, r)
           f == [w.infos EXCEPT ![a] = r]
           q == v.infos[a]
<1>1. ~w.broken /\ Judges(w, v, a, r)
  BY CheckedJudges
<1>. HIDE DEF v
<1>2. /\ v \in Worlds /\ w.tasks \subseteq v.tasks /\ v.tasks \subseteq Task(Handlers, Accounts)
      /\ v.infos = [w.infos EXCEPT ![a] = q] /\ Judged(a, r, q, v.tasks) /\ Grown(w, v)
      /\ q \in Records /\ w.infos \in [Accounts -> Records]
  BY <1>1, WorldFields DEF Judges, Grown
<1>3. QuietBut(w, a, r, rest, X, D)
  OBVIOUS
<1>4. f[a] = r /\ \A c \in Accounts \ {a} : f[c] = w.infos[c] /\ v.infos[c] = w.infos[c]
  BY <1>2
<1>5. IndexFits(v.index, v.infos)
  BY <1>1, <1>3 DEF Judges, QuietBut
<1>6. \A c \in Accounts : /\ c # a => Blank(f[c])
                          /\ Sane(c, f[c], X, D[c]) /\ Timed(c, f[c], w.tasks \cup rest)
  BY <1>3 DEF QuietBut
<1>7. BanishTasks(w.tasks \cup rest, f) /\ ToCome(w.tasks)
  BY <1>3 DEF QuietBut
<1>. HIDE DEF f
<1>8. Sane(a, q, X, D[a]) /\ Blank(q) /\ Timed(a, q, v.tasks \cup rest)
  <2>1. Sane(a, r, X, D[a]) /\ Timed(a, r, w.tasks \cup rest)
    BY <1>4, <1>6
  <2>. HIDE DEF q
  <2>2. Sane(a, q, X, D[a]) /\ Blank(q)
    BY <1>2, <2>1, JudgedSane
  <2>3. Timed(a, q, v.tasks \cup rest)
    <3>1. w.tasks \cup rest \subseteq v.tasks \cup rest /\ v.tasks \subseteq v.tasks \cup rest
      BY <1>2
    <3>. QED  BY <1>2, <2>1, <3>1, JudgedTimed
  <2>. QED  BY <2>2, <2>3
<1>9. ASSUME NEW c \in Accounts \ {a}
      PROVE  Blank(v.infos[c]) /\ Sane(c, v.infos[c], X, D[c]) /\ Timed(c, v.infos[c], v.tasks \cup rest)
  <2>1. Blank(v.infos[c]) /\ Sane(c, v.infos[c], X, D[c]) /\ Timed(c, v.infos[c], w.tasks \cup rest)
    BY <1>4, <1>6
  <2>. QED  BY <1>2, <2>1, TimedMore
<1>10. BanishTasks(v.tasks \cup rest, v.infos)
  <2>1. ASSUME NEW t \in v.tasks \cup rest, t.handler = "banish"
        PROVE  t.id = 0 /\ v.infos[t.data].banishmentAt = t.time
    <3>1. t \in w.tasks \cup rest
      BY <1>2, <2>1 DEF Grown
    <3>2. t.data \in Accounts
      BY <1>2, <3>1 DEF Task
    <3>3. t.id = 0 /\ f[t.data].banishmentAt = t.time
      BY <1>7, <2>1, <3>1 DEF BanishTasks
    <3>4. q.banishmentAt = r.banishmentAt
      BY <1>2 DEF Judged
    <3>. QED  BY <1>4, <3>2, <3>3, <3>4
  <2>. QED  BY <2>1 DEF BanishTasks
<1>11. ToCome(v.tasks)
  BY <1>2, <1>7 DEF ToCome, Grown
<1>12. Quiet(v, rest, X, D)
  <2>1. \A c \in Accounts : Blank(v.infos[c]) /\ Sane(c, v.infos[c], X, D[c]) /\ Timed(c, v.infos[c], v.tasks \cup rest)
    BY <1>8, <1>9
  <2>. QED  BY <1>5, <1>10, <1>11, <2>1 DEF Quiet
<1>. QED  BY <1>1, <1>2, <1>12 DEF v

\* u comes from w by checks of accounts of S, who take referrals.
Along(check, w, u, S, rest, X, D) ==
    /\ u \in Worlds
    /\ u.broken \/
         /\ ~w.broken /\ Quiet(u, rest, X, D)
         /\ \A c \in S : /\ ~Shut(u.infos[c]) \/ c \in X
                         /\ check \/ ~IsEmpty(u.infos[c])
         /\ \A c \in Accounts \ S : u.infos[c] = w.infos[c]

LEMMA WrittenAlong ==
    ASSUME now \in Nat, Earned, NEW check \in BOOLEAN, NEW w, NEW u, NEW S \in SUBSET Accounts,
           NEW rest, NEW X, NEW D, rest \subseteq Task(Handlers, Accounts),
           Along(check, w, u, S, rest, X, D), NEW a \in S, NEW r \in Records,
           SameTerms(u.infos[a], r)
    PROVE  Along(check, w, Written(check, u, a, r), S, rest, X, D)
<1> DEFINE v == Written(check, u, a, r)
<1>1. u \in Worlds /\ a \in Accounts /\ v \in Worlds /\ (v.broken \/ ~u.broken)
  <2>1. u \in Worlds /\ a \in Accounts
    BY DEF Along
  <2>2. LET x == Written(check, u, a, r) IN Writes(u, x, a, r)
    BY <2>1, WrittenWrites
  <2>. QED  BY <2>1, <2>2 DEF Writes
<1>2. CASE v.broken
  BY <1>1, <1>2 DEF Along
<1>3. CASE ~v.broken
  <2>1. /\ ~u.broken /\ ~w.broken /\ Quiet(u, rest, X, D)
        /\ \A c \in S : /\ ~Shut(u.infos[c]) \/ c \in X
                        /\ check \/ ~IsEmpty(u.infos[c])
        /\ \A c \in Accounts \ S : u.infos[c] = w.infos[c]
        /\ u.infos \in [Accounts -> Records]
    BY <1>1, <1>3, WorldFields DEF Along
  <2>2. Shut(r) <=> Shut(u.infos[a])
    BY DEF Shut, SameTerms
  <2>3. QuietBut(u, a, r, rest, X, D)
    BY <1>1, <2>1, <2>2, QuietRecord
  <2>4. ASSUME NEW q \in Records, v.infos = [u.infos EXCEPT ![a] = q],
               Shut(q) => Shut(r), check \/ ~IsEmpty(q), Quiet(v, rest, X, D)
        PROVE  Along(check, w, v, S, rest, X, D)
    <3>1. v.infos[a] = q /\ \A c \in Accounts \ {a} : v.infos[c] = u.infos[c]
      BY <1>1, <2>1, <2>4
    <3>2. ASSUME NEW c \in S
          PROVE  (~Shut(v.infos[c]) \/ c \in X) /\ (check \/ ~IsEmpty(v.infos[c]))
      BY <2>1, <2>2, <2>4, <3>1
    <3>3. \A c \in Accounts \ S : v.infos[c] = w.infos[c]
      BY <2>1, <3>1
    <3>. HIDE DEF v
    <3>. QED  BY <1>1, <2>1, <2>4, <3>2, <3>3 DEF Along
  <2>5. CASE check
    <3>1. v = Checked(u, a, r)
      BY <2>5 DEF Written
    <3>2. Shut(r) /\ a \notin X => r.activeReferrals = {}
      BY <2>1, <2>2
    <3>5. ~Checked(u, a, r).broken /\ u \in Worlds /\ a \in Accounts
      BY <1>1, <1>3, <3>1
    <3>. HIDE DEF v
    <3>3. LET x == Checked(u, a, r)
          IN  /\ Quiet(x, rest, X, D)
              /\ x.infos = [u.infos EXCEPT ![a] = x.infos[a]]
              /\ Judged(a, r, x.infos[a], x.tasks) /\ x.infos[a] \in Records
      BY <2>3, <3>2, <3>5, CheckedQuiet
    <3>4. Shut(v.infos[a]) => Shut(r)
      BY <3>1, <3>3 DEF Judged, Shut
    <3>. QED  BY <2>4, <2>5, <3>1, <3>3, <3>4 DEF v
  <2>6. CASE ~check
    <3>1. v = Update(u, a, r)
      BY <2>6 DEF Written
    <3>2. ~IsEmpty(r) /\ Blank(r)
      BY <2>1, <2>6 DEF SameTerms, IsEmpty, Blank
    <3>3. Quiet(Update(u, a, r), rest, X, D)
      BY <1>1, <2>3, <3>2, UpdateQuiet
    <3>4. Update(u, a, r).infos = [u.infos EXCEPT ![a] = r]
      BY <1>1, UpdateWorld
    <3>. HIDE DEF v
    <3>. QED  BY <2>4, <3>1, <3>2, <3>3, <3>4 DEF v
  <2>. QED  BY <2>5, <2>6
<1>. QED  BY <1>2, <1>3

(***************************************************************************)
(* A climb along accounts that take referrals keeps a world quiet.         *)
(***************************************************************************)
LEMMA ClimbAlong ==
    ASSUME now \in Nat, Earned, NEW check \in BOOLEAN, NEW w \in Worlds, ~w.broken,
           NEW S \in SUBSET Accounts, NEW rest, NEW X, NEW D,
           rest \subseteq Task(Handlers, Accounts),
           NEW p \in Parents, NEW n \in 1..Depth, NEW link \in Links, NEW gain \in Gains,
           Quiet(w, rest, X, D), Range(Ancestors(w.infos, p, n)) \subseteq S,
           \A c \in S : /\ ~Shut(w.infos[c]) \/ c \in X
                        /\ check \/ ~IsEmpty(w.infos[c])
    PROVE  Along(check, w, ClimbIf(check, w, p, n, link, gain), S, rest, X, D)
<1> DEFINE s == Ancestors(w.infos, p, n)
           L == Len(s)
<1>1. PICK after : /\ Steps(after, check, w, s, link, gain)
                   /\ \A k \in 0..L : after[k] \in Worlds
                   /\ ClimbIf(check, w, p, n, link, gain) = after[L]
  BY ClimbSteps
<1>2. /\ L \in Nat /\ L <= Depth /\ s \in [1..L -> Accounts] /\ Depth \in Nat
  <2>1. HasParents(w.infos)
    BY WorldParents
  <2>. QED  BY <2>1, ChainFields, Constants
<1>3. \A k \in 1..L : s[k] \in S
  BY <1>2 DEF Range
<1>. HIDE DEF s, L
<1> DEFINE A == {k \in 0..L : Along(check, w, after[k], S, rest, X, D)}
<1>4. 0 \in A
  <2>1. Along(check, w, w, S, rest, X, D)
    BY DEF Along
  <2>. QED  BY <1>1, <1>2, <2>1 DEF Steps
<1>5. ASSUME NEW k \in 1..L, k - 1 \in A PROVE k \in A
  <2> DEFINE u == after[k - 1]
             r == Gained(u, s, link, gain, k)
  <2>1. Along(check, w, u, S, rest, X, D) /\ u \in Worlds
    BY <1>5 DEF Along
  <2>2. k \in 1..Depth /\ s[k] \in S /\ s[k] \in Accounts
    BY <1>2, <1>3
  <2>3. after[k] = Written(check, u, s[k], r)
    BY <1>1 DEF Steps, L
  <2>. HIDE DEF u
  <2>4. r \in Records /\ SameTerms(u.infos[s[k]], r)
    BY <2>1, <2>2, GainedRecord
  <2>. HIDE DEF r
  <2>5. Along(check, w, Written(check, u, s[k], r), S, rest, X, D)
    BY <2>1, <2>2, <2>4, WrittenAlong
  <2>6. k \in 0..L
    BY <1>2
  <2>. QED  BY <2>3, <2>5, <2>6
<1>. HIDE DEF A
<1>6. \A k \in 0..L : k \in A
  BY <1>2, <1>4, <1>5, UpTo
<1>. QED  BY <1>1, <1>2, <1>6 DEF A

\* The accounts above those of C are in C; on C the trees f and g agree.
Within(f, C) == C \subseteq Accounts /\ \A b \in C : f[b].referrer \in C \cup {None}
AgreeOn(f, g, C) == \A b \in C : g[b].referrer = f[b].referrer

\* A path upwards in C.
Rising(f, s, C) ==
    /\ \A k \in 1..Len(s) : s[k] \in C
    /\ \A k \in 1..(Len(s) - 1) : f[s[k]].referrer = s[k + 1]

(***************************************************************************)
(* Whatever else has changed, the accounts above p are those of f.         *)
(***************************************************************************)
LEMMA ChainWithin ==
    ASSUME NEW f, NEW g, HasParents(g), NEW C, Within(f, C), AgreeOn(f, g, C),
           NEW p \in C \cup {None}, NEW n \in 1..Depth
    PROVE  Rising(f, Ancestors(g, p, n), C)
<1> DEFINE s == Ancestors(g, p, n)
           L == Len(s)
<1>1. /\ IsChain(g, p, n, s) /\ L \in Nat /\ s \in [1..L -> Accounts]
      /\ (L = 0 => p = None) /\ (L # 0 => s[1] = p)
  <2>1. p \in Parents
    BY DEF Parents, Within
  <2>. QED  BY <2>1, ChainFields
<1>2. \A k \in 1..(L - 1) : g[s[k]].referrer = s[k + 1]
  BY <1>1 DEF IsChain
<1>0. \A b \in C : f[b].referrer \in C \cup {None} /\ g[b].referrer = f[b].referrer
  BY DEF Within, AgreeOn
<1>. HIDE DEF s, L
<1> DEFINE A == {k \in 0..L : k = 0 \/ s[k] \in C}
<1>3. 0 \in A
  BY <1>1
<1>4. ASSUME NEW k \in 1..L, k - 1 \in A PROVE k \in A
  <2>1. CASE k = 1
    <3>1. s[1] = p /\ s[1] \in Accounts
      BY <1>1, <2>1
    <3>2. p \in C
      BY <3>1, Constants
    <3>. QED  BY <1>1, <2>1, <3>1, <3>2
  <2>2. CASE k # 1
    <3>1. k - 1 \in 1..(L - 1) /\ s[k - 1] \in C /\ k \in 0..L
      BY <1>1, <1>4, <2>2
    <3>2. g[s[k - 1]].referrer = s[k - 1 + 1] /\ k - 1 + 1 = k
      BY <1>1, <1>2, <3>1
    <3>3. s[k] \in C \cup {None} /\ s[k] \in Accounts
      BY <1>0, <1>1, <3>1, <3>2
    <3>. QED  BY <3>1, <3>3, Constants
  <2>. QED  BY <2>1, <2>2
<1>. HIDE DEF A
<1>5. \A k \in 0..L : k \in A
  BY <1>1, <1>3, <1>4, UpTo
<1>6. \A k \in 1..L : s[k] \in C
  <2>1. ASSUME NEW k \in 1..L PROVE s[k] \in C
    <3>1. k \in 0..L /\ k # 0
      BY <1>1
    <3>2. k \in A
      BY <1>5, <3>1
    <3>. QED  BY <3>1, <3>2 DEF A
  <2>. QED  BY <2>1
<1>7. \A k \in 1..(L - 1) : k \in 1..L
  BY <1>1
<1>8. \A k \in 1..(L - 1) : f[s[k]].referrer = s[k + 1]
  BY <1>0, <1>2, <1>6, <1>7
<1>. QED  BY <1>6, <1>8 DEF s, L, Rising

AllSane(f, X, D) == \A a \in Accounts : Sane(a, f[a], X, D[a])

(***************************************************************************)
(* Whoever has a referral takes referrals, and so do all above him.        *)
(***************************************************************************)
LEMMA OpenUp ==
    ASSUME NEW f \in [Accounts -> Records], Tree(f), NEW X, NEW D,
           AllSane(f, X, D),
           NEW L \in Nat, NEW s \in [1..L -> Accounts],
           \A k \in 1..(L - 1) : f[s[k]].referrer = s[k + 1],
           L # 0 => ~Shut(f[s[1]]) \/ s[1] \in X
    PROVE  /\ \A k \in 1..L : ~Shut(f[s[k]]) \/ s[k] \in X
           /\ \A k \in 2..L : ~IsEmpty(f[s[k]])
<1> DEFINE A == {k \in 0..L : k = 0 \/ ~Shut(f[s[k]]) \/ s[k] \in X}
<1>1. 0 \in A
  OBVIOUS
<1>2. ASSUME NEW k \in 1..L, k - 1 \in A PROVE k \in A
  <2>1. CASE k = 1
    BY <2>1
  <2>2. CASE k # 1
    <3> DEFINE c == s[k - 1]
               b == s[k]
    <3>1. k - 1 \in 1..(L - 1) /\ k - 1 \in 1..L /\ k - 1 # 0 /\ k \in 0..L
      BY <2>2
    <3>2. c \in Accounts /\ b \in Accounts /\ (~Shut(f[c]) \/ c \in X)
      BY <1>2, <3>1
    <3>3. f[c].referrer = b
      <4>1. k - 1 + 1 = k
        OBVIOUS
      <4>. QED  BY <3>1, <4>1
    <3>. HIDE DEF c, b
    <3>4. ~f[c].banished
      <4>1. Sane(c, f[c], X, D[c])
        BY <3>2 DEF AllSane
      <4>. QED  BY <3>2, <4>1 DEF Sane, Shut
    <3>5. f[b].referrals # {}
      BY <3>2, <3>3, <3>4 DEF Tree
    <3>6. Sane(b, f[b], X, D[b])
      BY <3>2 DEF AllSane
    <3>7. ~Shut(f[b]) \/ b \in X
      BY <3>5, <3>6 DEF Sane
    <3>. QED  BY <3>1, <3>7 DEF b
  <2>. QED  BY <2>1, <2>2
<1>. HIDE DEF A
<1>3. \A k \in 0..L : k \in A
  BY <1>1, <1>2, UpTo
<1>4. ASSUME NEW k \in 1..L PROVE ~Shut(f[s[k]]) \/ s[k] \in X
  <2>1. k \in 0..L /\ k # 0
    OBVIOUS
  <2>2. k \in A
    BY <1>3, <2>1
  <2>. QED  BY <2>1, <2>2 DEF A
<1>5. ASSUME NEW k \in 2..L PROVE ~IsEmpty(f[s[k]])
  <2>1. k - 1 \in 1..(L - 1) /\ k - 1 + 1 = k /\ k - 1 \in 1..L /\ k \in 1..L
    OBVIOUS
  <2>2. f[s[k - 1]].referrer = s[k] /\ s[k - 1] \in Accounts /\ s[k] \in Accounts
    BY <2>1
  <2>. QED  BY <2>2, Constants DEF Tree
<1>. QED  BY <1>4, <1>5

(***************************************************************************)
(* A climb from p, who takes referrals, where the accounts of C, p and all *)
(* above him, are as in the tree f.                                        *)
(***************************************************************************)
LEMMA ClimbQuiet ==
    ASSUME now \in Nat, Earned, NEW check \in BOOLEAN,
           NEW f \in [Accounts -> Records], Tree(f), NEW Y, NEW E,
           AllSane(f, Y, E),
           NEW C, Within(f, C),
           NEW w \in Worlds, ~w.broken, \A b \in C : w.infos[b] = f[b],
           NEW rest, NEW X, NEW D, rest \subseteq Task(Handlers, Accounts),
           Quiet(w, rest, X, D), C \cap Y \subseteq X,
           NEW p \in C \cup {None}, p # None => ~Shut(f[p]) \/ p \in Y,
           p # None => check \/ ~IsEmpty(f[p]),
           NEW n \in 1..Depth, NEW link \in Links, NEW gain \in Gains
    PROVE  LET v == ClimbIf(check, w, p, n, link, gain)
           IN  /\ v \in Worlds
               /\ v.broken \/ /\ Quiet(v, rest, X, D)
                              /\ \A c \in Accounts \ C : v.infos[c] = w.infos[c]
<1> DEFINE s == Ancestors(w.infos, p, n)
           L == Len(s)
           S == {s[k] : k \in 1..L}
           v == ClimbIf(check, w, p, n, link, gain)
<1>1. HasParents(w.infos) /\ p \in Parents
  BY WorldParents DEF Parents, Within
<1>2. L \in Nat /\ s \in [1..L -> Accounts] /\ (L # 0 => s[1] = p)
  BY <1>1, ChainFields
<1>3. /\ \A k \in 1..L : s[k] \in C
      /\ \A k \in 1..(L - 1) : f[s[k]].referrer = s[k + 1]
  <2>1. AgreeOn(f, w.infos, C)
    BY DEF AgreeOn
  <2>2. Rising(f, s, C)
    BY <1>1, <2>1, ChainWithin
  <2>. QED  BY <2>2 DEF Rising
<1>4. Range(s) \subseteq S /\ S \subseteq Accounts
  BY <1>2 DEF Range
<1>. HIDE DEF s, L
<1>5. L # 0 => p # None
  <2>1. L # 0 => 1 \in 1..L
    BY <1>2
  <2>. QED  BY <1>2, <2>1, Constants
<1>11. L # 0 => ~Shut(f[s[1]]) \/ s[1] \in Y
  BY <1>2, <1>5
<1>6. /\ \A k \in 1..L : ~Shut(f[s[k]]) \/ s[k] \in Y
      /\ \A k \in 2..L : ~IsEmpty(f[s[k]])
  BY <1>2, <1>3, <1>11, OpenUp
<1>7. ASSUME NEW c \in S
      PROVE  (~Shut(w.infos[c]) \/ c \in X) /\ (check \/ ~IsEmpty(w.infos[c])) /\ c \in C
  <2>1. PICK k \in 1..L : c = s[k]
    OBVIOUS
  <2>2. c \in C /\ w.infos[c] = f[c]
    BY <1>3, <2>1
  <2>3. ~Shut(f[c]) \/ c \in X
    BY <1>6, <2>1, <2>2
  <2>4. check \/ ~IsEmpty(f[c])
    <3>1. CASE k = 1
      BY <1>2, <1>5, <2>1, <3>1
    <3>2. CASE k # 1
      BY <1>2, <1>6, <2>1, <3>2
    <3>. QED  BY <3>1, <3>2
  <2>. QED  BY <2>2, <2>3, <2>4
<1>. HIDE DEF S
<1>8. Along(check, w, v, S, rest, X, D)
  <2>1. Range(Ancestors(w.infos, p, n)) \subseteq S
    BY <1>4 DEF s
  <2>. QED  BY <1>1, <1>4, <1>7, <2>1, ClimbAlong
<1>9. \A c \in Accounts \ C : c \in Accounts \ S
  BY <1>7
<1>. HIDE DEF v
<1>. QED  BY <1>8, <1>9 DEF Along, v

-----------------------------------------------------------------------------
(* A change of one account.                                                *)

\* w is quiet as far as the other accounts are concerned.
Frame(w, a, rest, X, D) ==
    /\ \A c \in Accounts \ {a} : /\ Blank(w.infos[c]) /\ Sane(c, w.infos[c], X, D[c])
                                 /\ Timed(c, w.infos[c], w.tasks \cup rest)
    /\ \A t \in w.tasks \cup rest :
         t.handler = "banish" /\ t.data # a =>
           t.id = 0 /\ w.infos[t.data].banishmentAt = t.time
    /\ ToCome(w.tasks)

\* No task banishes a at another time than b.
BanishedAt(w, a, rest, b) ==
    \A t \in w.tasks \cup rest : t.handler = "banish" /\ t.data = a => t.id = 0 /\ t.time = b

\* Others than a delegate as much, and are about to become active or not, as before.
Elsewhere(a, X, Y, D, E) ==
    \A c \in Accounts \ {a} : (c \in X <=> c \in Y) /\ D[c] = E[c]

LEMMA QuietSane ==
    ASSUME NEW w, NEW rest, NEW X, NEW D, Quiet(w, rest, X, D)
    PROVE  AllSane(w.infos, X, D)
BY DEF Quiet, AllSane

LEMMA SaneElsewhere ==
    ASSUME NEW c, NEW r, NEW X, NEW Y, NEW x, Sane(c, r, Y, x), c \in X <=> c \in Y
    PROVE  Sane(c, r, X, x)
BY DEF Sane

LEMMA FrameOf ==
    ASSUME NEW w \in Worlds, NEW rest, NEW X, NEW Y, NEW D, NEW E, Quiet(w, rest, Y, E),
           NEW a \in Accounts, Elsewhere(a, X, Y, D, E)
    PROVE  /\ Frame(w, a, rest, X, D) /\ BanishedAt(w, a, rest, w.infos[a].banishmentAt)
           /\ IndexFits(w.index, w.infos)
           /\ Blank(w.infos[a]) /\ Sane(a, w.infos[a], Y, E[a])
           /\ Timed(a, w.infos[a], w.tasks \cup rest)
<1>1. ASSUME NEW c \in Accounts \ {a} PROVE Sane(c, w.infos[c], X, D[c])
  BY SaneElsewhere DEF Quiet, Elsewhere
<1>2. \A t \in w.tasks \cup rest : t.handler = "banish" =>
        t.id = 0 /\ w.infos[t.data].banishmentAt = t.time
  BY DEF Quiet, BanishTasks
<1>. QED  BY <1>1, <1>2 DEF Quiet, Frame, BanishedAt

LEMMA FrameUpdate ==
    ASSUME NEW w \in Worlds, NEW rest, NEW X, NEW D, rest \subseteq Task(Handlers, Accounts),
           NEW a \in Accounts, NEW r \in Records, Frame(w, a, rest, X, D)
    PROVE  /\ Frame(Update(w, a, r), a, rest, X, D)
           /\ \A b : BanishedAt(w, a, rest, b) => BanishedAt(Update(w, a, r), a, rest, b)
<1> DEFINE v == Update(w, a, r)
<1>1. v.infos = [w.infos EXCEPT ![a] = r] /\ v.tasks = w.tasks
  BY UpdateWorld, UpdateStores
<1>. HIDE DEF v
<1>2. \A c \in Accounts \ {a} : v.infos[c] = w.infos[c]
  BY <1>1, WorldFields
<1>3. \A t \in w.tasks \cup rest : t.data \in Accounts
  BY WorldFields DEF Task
<1>4. Frame(v, a, rest, X, D)
  BY <1>1, <1>2, <1>3 DEF Frame
<1>5. \A b : BanishedAt(w, a, rest, b) => BanishedAt(v, a, rest, b)
  BY <1>1 DEF BanishedAt
<1>. QED  BY <1>4, <1>5 DEF v

LEMMA FrameBut ==
    ASSUME NEW w \in Worlds, NEW rest, NEW X, NEW D, rest \subseteq Task(Handlers, Accounts),
           NEW a \in Accounts, NEW r \in Records, Frame(w, a, rest, X, D),
           BanishedAt(w, a, rest, r.banishmentAt),
           IndexFits(w.index, [w.infos EXCEPT ![a] = r]),
           Sane(a, r, X, D[a]), Timed(a, r, w.tasks \cup rest)
    PROVE  QuietBut(w, a, r, rest, X, D)
<1> DEFINE f == [w.infos EXCEPT ![a] = r]
<1>1. f[a] = r /\ \A c \in Accounts \ {a} : f[c] = w.infos[c]
  BY WorldFields
<1>2. \A t \in w.tasks \cup rest : t.data \in Accounts
  BY WorldFields DEF Task
<1>3. IndexFits(w.index, f)
  OBVIOUS
<1>. HIDE DEF f
<1>4. BanishTasks(w.tasks \cup rest, f)
  BY <1>1, <1>2 DEF BanishTasks, BanishedAt, Frame
<1>5. \A c \in Accounts : /\ c # a => Blank(f[c])
                          /\ Sane(c, f[c], X, D[c]) /\ Timed(c, f[c], w.tasks \cup rest)
  BY <1>1 DEF Frame
<1>6. ToCome(w.tasks)
  BY DEF Frame
<1>. QED  BY <1>3, <1>4, <1>5, <1>6 DEF QuietBut, f

\* Statuses below MinIndexed do not matter to the index.
LEMMA IndexLow ==
    ASSUME NEW w \in Worlds, NEW a \in Accounts, NEW r \in Records,
           IndexFits(w.index, w.infos),
           r.status = w.infos[a].status \/ (r.status <= 1 /\ w.infos[a].status <= 1)
    PROVE  IndexFits(w.index, [w.infos EXCEPT ![a] = r])
<1> DEFINE f == [w.infos EXCEPT ![a] = r]
<1>1. f[a] = r /\ \A c \in Accounts \ {a} : f[c] = w.infos[c]
  BY WorldFields
<1>2. MinIndexed > 1 /\ MinIndexed \in Nat
  BY Constants
<1>. HIDE DEF f
<1>3. ASSUME NEW s \in 0..MaxStatus, NEW c \in Accounts
      PROVE  <<s, c>> \in w.index <=> s = f[c].status /\ s >= MinIndexed
  <2>1. <<s, c>> \in w.index <=> s = w.infos[c].status /\ s >= MinIndexed
    BY DEF IndexFits
  <2>2. CASE c = a
    BY <1>1, <1>2, <2>1, <2>2
  <2>3. CASE c # a
    BY <1>1, <2>1, <2>3
  <2>. QED  BY <2>2, <2>3
<1>. QED  BY <1>3 DEF IndexFits, f

\* Without a banishment the record of a is q.
Spares(w, rest, X, D, a, q) ==
    /\ w \in Worlds /\ rest \subseteq Task(Handlers, Accounts) /\ a \in Accounts
    /\ Frame(w, a, rest, X, D) /\ IndexFits(w.index, w.infos)
    /\ BanishedAt(w, a, rest, w.infos[a].banishmentAt)
    /\ rest = {} \/ w.infos[a].banishmentAt = NoTime
    /\ q \in Records /\ q = [w.infos[a] EXCEPT !.banishmentAt = NoTime]
    /\ Sane(a, q, X, D[a]) /\ Timed(a, q, w.tasks \cup rest) /\ Blank(q)

(***************************************************************************)
(* A banishment is called off.                                             *)
(***************************************************************************)
LEMMA SpareQuiet ==
    ASSUME NEW w, NEW rest, NEW X, NEW D, NEW a, NEW q, Spares(w, rest, X, D, a, q)
    PROVE  LET v == Spare(w, a)
           IN  /\ v \in Worlds /\ (v.broken => w.broken) /\ Quiet(v, rest, X, D)
               /\ v.infos[a] = q /\ \A c \in Accounts \ {a} : v.infos[c] = w.infos[c]
<1>. USE DEF Spares
<1> DEFINE r == w.infos[a]
           b == r.banishmentAt
           v == Spare(w, a)
<1>1. w.infos \in [Accounts -> Records] /\ w.tasks \subseteq Task(Handlers, Accounts)
      /\ r \in Records /\ r \in Info
  BY WorldFields DEF Records
<1>2. /\ v \in Worlds /\ v.broken = w.broken /\ v.infos = [w.infos EXCEPT ![a] = q]
      /\ v.index = w.index /\ v.tasks \subseteq w.tasks
      /\ \A t \in w.tasks : t \in v.tasks \/ (b # NoTime /\ t.handler = "banish" /\ t.data = a)
      /\ b # NoTime => \A t \in v.tasks : ~(t.time = b /\ t.handler = "banish" /\ t.data = a)
  <2>1. CASE b = NoTime
    <3>1. v = w
      BY <2>1 DEF Spare
    <3>2. q = r
      BY <1>1, <2>1 DEF Info
    <3>. QED  BY <1>1, <2>1, <3>1, <3>2
  <2>2. CASE b # NoTime
    <3> DEFINE u == Withdrawn(w, b, "banish", a)
    <3>1. /\ u \in Worlds /\ u.infos = w.infos /\ u.broken = w.broken /\ u.index = w.index
          /\ u.tasks = Remove(w.tasks, b, "banish", a)
      BY WithdrawnWorld, WithdrawnStores
    <3>2. v = [u EXCEPT !.infos[a].banishmentAt = NoTime]
      BY <2>2 DEF Spare
    <3>. HIDE DEF u
    <3>3. v = [u EXCEPT !.infos = [u.infos EXCEPT ![a] = q]]
      BY <3>1, <3>2 DEF Worlds
    <3>4. /\ v.infos = [w.infos EXCEPT ![a] = q] /\ v.tasks = u.tasks /\ v.index = w.index
          /\ v.broken = w.broken
      BY <3>1, <3>3 DEF Worlds
    <3>5. [w.infos EXCEPT ![a] = q] \in [Accounts -> Records]
      BY <1>1
    <3>6. v \in Worlds
      BY <3>1, <3>3, <3>5 DEF Worlds
    <3>. HIDE DEF v, r
    <3>. QED  BY <2>2, <3>1, <3>4, <3>6 DEF Remove, Matching
  <2>. QED  BY <2>1, <2>2
<1>. HIDE DEF v
<1>3. v.infos[a] = q /\ \A c \in Accounts \ {a} : v.infos[c] = w.infos[c]
  BY <1>1, <1>2
<1>4. q.status = r.status /\ q.banishmentAt = NoTime
  BY <1>1 DEF Info
<1>5. IndexFits(v.index, v.infos)
  <2>1. IndexFits(w.index, [w.infos EXCEPT ![a] = q])
    BY <1>4, IndexLow
  <2>. QED  BY <1>2, <2>1
<1>6. ASSUME NEW c \in Accounts, NEW u, Timed(c, u, w.tasks \cup rest), c # a \/ u.banishmentAt = NoTime
      PROVE  Timed(c, u, v.tasks \cup rest)
  <2>1. ASSUME NEW time, NEW h, time # NoTime, Timer(time, h, c) \in w.tasks \cup rest,
               c # a \/ h # "banish"
        PROVE  Timer(time, h, c) \in v.tasks \cup rest
    BY <1>2, <2>1 DEF Timer
  <2>2. u.referrer # None => Armed(v.tasks \cup rest, u.compressionAt, "compression", c)
    BY <1>6, <2>1 DEF Timed, Armed
  <2>3. Armed(v.tasks \cup rest, u.banishmentAt, "banish", c)
    BY <1>6, <2>1 DEF Timed, Armed
  <2>4. Armed(v.tasks \cup rest, u.downgradeAt, "downgrade", c)
    BY <1>6, <2>1 DEF Timed, Armed
  <2>5. u.transition # None =>
          \E t \in v.tasks \cup rest :
            t.handler = "transition-timeout" /\ t.data = c /\ t.time <= now + Day
    BY <1>2, <1>6 DEF Timed
  <2>. QED  BY <2>2, <2>3, <2>4, <2>5 DEF Timed
<1>7. \A c \in Accounts : /\ Blank(v.infos[c]) /\ Sane(c, v.infos[c], X, D[c])
                          /\ Timed(c, v.infos[c], v.tasks \cup rest)
  <2>1. Timed(a, q, v.tasks \cup rest)
    BY <1>4, <1>6
  <2>2. ASSUME NEW c \in Accounts \ {a}
        PROVE  /\ Blank(v.infos[c]) /\ Sane(c, v.infos[c], X, D[c])
               /\ Timed(c, v.infos[c], v.tasks \cup rest)
    <3>1. /\ Blank(w.infos[c]) /\ Sane(c, w.infos[c], X, D[c])
          /\ Timed(c, w.infos[c], w.tasks \cup rest)
      BY DEF Frame
    <3>2. Timed(c, w.infos[c], v.tasks \cup rest)
      BY <1>6, <3>1
    <3>. QED  BY <1>3, <3>1, <3>2
  <2>. QED  BY <1>3, <2>1, <2>2
<1>8. BanishTasks(v.tasks \cup rest, v.infos)
  <2>1. ASSUME NEW t \in v.tasks \cup rest, t.handler = "banish"
        PROVE  t.id = 0 /\ v.infos[t.data].banishmentAt = t.time
    <3>1. t \in w.tasks \cup rest /\ t.data \in Accounts /\ t.time \in Nat
      BY <1>1, <1>2, <2>1 DEF Task
    <3>2. CASE t.data # a
      BY <1>3, <2>1, <3>1, <3>2 DEF Frame
    <3>3. CASE t.data = a
      <4>1. t.id = 0 /\ t.time = b
        BY <2>1, <3>1, <3>3 DEF BanishedAt
      <4>2. b # NoTime
        BY <3>1, <4>1, Constants
      <4>. QED  BY <1>2, <2>1, <3>3, <4>1, <4>2
    <3>. QED  BY <3>2, <3>3
  <2>. QED  BY <2>1 DEF BanishTasks
<1>9. ToCome(v.tasks)
  BY <1>2 DEF ToCome, Frame
<1>10. Quiet(v, rest, X, D)
  BY <1>5, <1>7, <1>8, <1>9 DEF Quiet
<1>. QED  BY <1>2, <1>3, <1>10 DEF v

\* With a banishment announced the record of a is q.
Announces(w, rest, X, D, a, q) ==
    /\ w \in Worlds /\ rest \subseteq Task(Handlers, Accounts) /\ a \in Accounts
    /\ Frame(w, a, rest, X, D) /\ IndexFits(w.index, w.infos)
    /\ BanishedAt(w, a, rest, now + Month)
    /\ q \in Records /\ q = [w.infos[a] EXCEPT !.banishmentAt = now + Month]
    /\ Sane(a, q, X, D[a]) /\ Timed(a, [q EXCEPT !.banishmentAt = NoTime], w.tasks \cup rest)
    /\ Blank(q)

(***************************************************************************)
(* A banishment is announced.                                              *)
(***************************************************************************)
LEMMA ScheduleQuiet ==
    ASSUME now \in Nat, NEW w, NEW rest, NEW X, NEW D, NEW a, NEW q, Announces(w, rest, X, D, a, q)
    PROVE  LET v == ScheduleBanishment(w, a)
           IN  /\ v \in Worlds /\ (v.broken => w.broken) /\ Quiet(v, rest, X, D)
               /\ v.infos[a] = q /\ \A c \in Accounts \ {a} : v.infos[c] = w.infos[c]
<1>. USE DEF Announces
<1> DEFINE r == w.infos[a]
           time == now + Month
           new == Timer(time, "banish", a)
           v == ScheduleBanishment(w, a)
<1>1. w.infos \in [Accounts -> Records] /\ w.tasks \subseteq Task(Handlers, Accounts)
      /\ r \in Info
  BY WorldFields DEF Records
<1>2. time \in Nat /\ time > now /\ "banish" \in Handlers
  BY Constants DEF Handlers
<1>3. q.status = r.status /\ q.banishmentAt = time
  BY <1>1 DEF Info
<1>4. new.time = time /\ new.handler = "banish" /\ new.data = a
  BY DEF Timer
<1>. HIDE DEF time
<1>5. /\ v \in Worlds /\ v.broken = w.broken /\ v.infos = [w.infos EXCEPT ![a] = q]
      /\ v.index = w.index /\ v.tasks = w.tasks \cup {new}
  <2> DEFINE u == [w EXCEPT !.infos[a].banishmentAt = time]
  <2>1. u = [w EXCEPT !.infos = [w.infos EXCEPT ![a] = q]]
    BY <1>1 DEF Worlds, time
  <2>2. [w.infos EXCEPT ![a] = q] \in [Accounts -> Records]
    BY <1>1
  <2>3. u \in Worlds /\ u.infos = [w.infos EXCEPT ![a] = q] /\ u.broken = w.broken
        /\ u.tasks = w.tasks /\ u.index = w.index
    BY <2>1, <2>2 DEF Worlds
  <2>4. v = Scheduled(u, time, "banish", a)
    BY DEF ScheduleBanishment, time
  <2>. HIDE DEF u
  <2>. QED  BY <1>2, <2>3, <2>4, ScheduledWorld, ScheduledStores
<1>. HIDE DEF v, new
<1>6. v.infos[a] = q /\ \A c \in Accounts \ {a} : v.infos[c] = w.infos[c]
  BY <1>1, <1>5
<1>7. IndexFits(v.index, v.infos)
  <2>1. IndexFits(w.index, [w.infos EXCEPT ![a] = q])
    BY <1>3, IndexLow
  <2>. QED  BY <1>5, <2>1
<1>8. w.tasks \cup rest \subseteq v.tasks \cup rest /\ new \in v.tasks \cup rest
  BY <1>5
<1>9. \A c \in Accounts : /\ Blank(v.infos[c]) /\ Sane(c, v.infos[c], X, D[c])
                          /\ Timed(c, v.infos[c], v.tasks \cup rest)
  <2>1. Timed(a, q, v.tasks \cup rest)
    <3> DEFINE u == [q EXCEPT !.banishmentAt = NoTime]
    <3>1. Timed(a, u, v.tasks \cup rest)
      BY <1>8, TimedMore
    <3>2. /\ u.referrer = q.referrer /\ u.compressionAt = q.compressionAt
          /\ u.downgradeAt = q.downgradeAt /\ u.transition = q.transition
      BY DEF Records, Info
    <3>3. Armed(v.tasks \cup rest, q.banishmentAt, "banish", a)
      BY <1>3, <1>8 DEF Armed, new
    <3>. HIDE DEF u
    <3>. QED  BY <3>1, <3>2, <3>3 DEF Timed
  <2>2. ASSUME NEW c \in Accounts \ {a}
        PROVE  /\ Blank(v.infos[c]) /\ Sane(c, v.infos[c], X, D[c])
               /\ Timed(c, v.infos[c], v.tasks \cup rest)
    <3>1. /\ Blank(w.infos[c]) /\ Sane(c, w.infos[c], X, D[c])
          /\ Timed(c, w.infos[c], w.tasks \cup rest)
      BY DEF Frame
    <3>2. Timed(c, w.infos[c], v.tasks \cup rest)
      BY <1>8, <3>1, TimedMore
    <3>. QED  BY <1>6, <3>1, <3>2
  <2>. QED  BY <1>6, <2>1, <2>2
<1>10. BanishTasks(v.tasks \cup rest, v.infos)
  <2>1. ASSUME NEW t \in v.tasks \cup rest, t.handler = "banish"
        PROVE  t.id = 0 /\ v.infos[t.data].banishmentAt = t.time
    <3>1. CASE t = new
      BY <1>3, <1>4, <1>6, <3>1 DEF Timer, new
    <3>2. CASE t # new
      <4>1. t \in w.tasks \cup rest /\ t.data \in Accounts
        BY <1>1, <1>5, <3>2 DEF Task
      <4>2. CASE t.data # a
        BY <1>6, <2>1, <4>1, <4>2 DEF Frame
      <4>3. CASE t.data = a
        BY <1>3, <1>6, <2>1, <4>1, <4>3 DEF BanishedAt, time
      <4>. QED  BY <4>2, <4>3
    <3>. QED  BY <3>1, <3>2
  <2>. QED  BY <2>1 DEF BanishTasks
<1>11. ToCome(v.tasks)
  BY <1>2, <1>4, <1>5 DEF ToCome, Frame
<1>12. Quiet(v, rest, X, D)
  BY <1>7, <1>9, <1>10, <1>11 DEF Quiet
<1>. QED  BY <1>5, <1>6, <1>12 DEF v

LEMMA ListsWithin ==
    ASSUME NEW f, Tree(f), NEW a \in Accounts
    PROVE  f[a].activeReferrals \subseteq f[a].referrals
BY DEF Tree

LEMMA OwnParent ==
    ASSUME NEW f \in [Accounts -> Records], Tree(f), NEW a \in Accounts
    PROVE  LET p == f[a].referrer
               C == Over(f, p)
           IN  /\ Within(f, C) /\ p \in C \cup {None} /\ a \notin C /\ p \in Parents
               /\ p # None => p \in Accounts /\ ~IsEmpty(f[p])
               /\ p # None /\ ~f[a].banished => a \in f[p].referrals
<1> DEFINE p == f[a].referrer
           C == Over(f, p)
<1>1. HasParents(f) /\ Acyclic(Referred(f)) /\ p \in Parents
  BY InfoFields DEF HasParents, Records, Tree
<1>2. /\ C \subseteq Accounts /\ p \in C \cup {None} /\ a \notin C
      /\ \A b \in C : f[b].referrer \in C \cup {None}
  BY <1>1, NotOver, OverClosed
<1>3. p # None => p \in Accounts /\ ~IsEmpty(f[p])
  BY <1>1 DEF Tree, Parents
<1>4. p # None /\ ~f[a].banished => a \in f[p].referrals
  BY <1>3 DEF Tree
<1>. HIDE DEF C, p
<1>. QED  BY <1>1, <1>2, <1>3, <1>4 DEF Within, C, p

\* From p upwards, who takes referrals, the accounts are those of C in the tree f.
Ladder(f, Y, E, C, w, rest, X, D, p) ==
    /\ f \in [Accounts -> Records] /\ Tree(f) /\ AllSane(f, Y, E) /\ Within(f, C)
    /\ w \in Worlds /\ ~w.broken /\ \A b \in C : w.infos[b] = f[b]
    /\ rest \subseteq Task(Handlers, Accounts)
    /\ Quiet(w, rest, X, D) /\ C \cap Y \subseteq X
    /\ p \in C \cup {None} /\ (p # None => ~Shut(f[p]) \/ p \in Y)

LEMMA ClimbOpen ==
    ASSUME now \in Nat, Earned, NEW f, NEW Y, NEW E, NEW C, NEW w, NEW rest, NEW X, NEW D, NEW p,
           Ladder(f, Y, E, C, w, rest, X, D, p),
           NEW n \in 1..Depth, NEW link \in Links, NEW gain \in Gains
    PROVE  LET v == Climb(w, p, n, link, gain)
           IN  /\ v \in Worlds
               /\ v.broken \/ /\ Quiet(v, rest, X, D)
                              /\ \A c \in Accounts \ C : v.infos[c] = w.infos[c]
<1>1. PICK check \in BOOLEAN : check = TRUE
  OBVIOUS
<1>2. LET v == ClimbIf(check, w, p, n, link, gain)
      IN  /\ v \in Worlds
          /\ v.broken \/ /\ Quiet(v, rest, X, D)
                         /\ \A c \in Accounts \ C : v.infos[c] = w.infos[c]
  <2>1. p # None => check \/ ~IsEmpty(f[p])
    BY <1>1
  <2>2. /\ f \in [Accounts -> Records] /\ Tree(f) /\ AllSane(f, Y, E) /\ Within(f, C)
        /\ w \in Worlds /\ ~w.broken /\ \A b \in C : w.infos[b] = f[b]
        /\ rest \subseteq Task(Handlers, Accounts)
        /\ Quiet(w, rest, X, D) /\ C \cap Y \subseteq X
        /\ p \in C \cup {None} /\ (p # None => ~Shut(f[p]) \/ p \in Y)
    BY DEF Ladder
  <2>. QED  BY ONLY <2>1, <2>2, check \in BOOLEAN, now \in Nat, Earned,
           n \in 1..Depth, link \in Links, gain \in Gains, ClimbQuiet
<1>3. Climb(w, p, n, link, gain) = ClimbIf(check, w, p, n, link, gain)
  BY <1>1 DEF Climb
<1>. QED  BY <1>2, <1>3

(***************************************************************************)
(* A climb from the referrer of a, where the accounts above are as in f.   *)
(***************************************************************************)
\* The accounts above a, who is in the tree f and not banished, are as in f.
Stands(f, Y, E, a, w, rest, X, D) ==
    /\ f \in [Accounts -> Records] /\ Tree(f) /\ AllSane(f, Y, E)
    /\ a \in Accounts /\ ~f[a].banished
    /\ w \in Worlds /\ ~w.broken
    /\ \A b \in Over(f, f[a].referrer) : w.infos[b] = f[b]
    /\ rest \subseteq Task(Handlers, Accounts) /\ Quiet(w, rest, X, D) /\ Y \ {a} \subseteq X

LEMMA ClimbOwn ==
    ASSUME now \in Nat, Earned, NEW check \in BOOLEAN,
           NEW f, NEW Y, NEW E, NEW a, NEW w, NEW rest, NEW X, NEW D,
           Stands(f, Y, E, a, w, rest, X, D),
           NEW n \in 1..Depth, NEW link \in Links, NEW gain \in Gains
    PROVE  LET v == ClimbIf(check, w, f[a].referrer, n, link, gain)
           IN  /\ v \in Worlds
               /\ v.broken \/ /\ Quiet(v, rest, X, D)
                              /\ \A c \in Accounts \ Over(f, f[a].referrer) :
                                   v.infos[c] = w.infos[c]
                              /\ v.infos[a] = w.infos[a]
<1>. USE DEF Stands
<1> DEFINE p == f[a].referrer
           C == Over(f, p)
           v == ClimbIf(check, w, p, n, link, gain)
<1>1. /\ Within(f, C) /\ p \in C \cup {None} /\ a \notin C /\ p \in Parents
      /\ p # None => p \in Accounts /\ ~IsEmpty(f[p]) /\ a \in f[p].referrals
  BY OwnParent
<1>2. p # None => ~Shut(f[p]) \/ p \in Y
  <2>1. p # None => Sane(p, f[p], Y, E[p])
    BY <1>1 DEF AllSane
  <2>. HIDE DEF p
  <2>. QED  BY <1>1, <2>1 DEF Sane
<1>3. C \cap Y \subseteq X
  BY <1>1
<1>4. \A b \in C : w.infos[b] = f[b]
  OBVIOUS
<1>. HIDE DEF p, C
<1>5. LET u == ClimbIf(check, w, p, n, link, gain)
      IN  /\ u \in Worlds
          /\ u.broken \/ /\ Quiet(u, rest, X, D)
                         /\ \A c \in Accounts \ C : u.infos[c] = w.infos[c]
  BY <1>1, <1>2, <1>3, <1>4, ClimbQuiet
<1>6. a \in Accounts \ C
  BY <1>1
<1>. QED  BY <1>5, <1>6 DEF p, C

LEMMA ClimbChecked ==
    ASSUME now \in Nat, Earned,
           NEW f, NEW Y, NEW E, NEW a, NEW w, NEW rest, NEW X, NEW D,
           Stands(f, Y, E, a, w, rest, X, D),
           NEW n \in 1..Depth, NEW link \in Links, NEW gain \in Gains
    PROVE  LET v == Climb(w, f[a].referrer, n, link, gain)
           IN  /\ v \in Worlds
               /\ v.broken \/ /\ Quiet(v, rest, X, D)
                              /\ \A c \in Accounts \ Over(f, f[a].referrer) :
                                   v.infos[c] = w.infos[c]
                              /\ v.infos[a] = w.infos[a]
<1>1. PICK check \in BOOLEAN : check = TRUE
  OBVIOUS
<1>2. Climb(w, f[a].referrer, n, link, gain) = ClimbIf(check, w, f[a].referrer, n, link, gain)
  BY <1>1 DEF Climb
<1>. QED  BY <1>2, ClimbOwn


(***************************************************************************)
(* An account with the record r joins p, who takes referrals.              *)
(***************************************************************************)
\* a, with the record r, may become a referral of p, the accounts above being in C.
Joins(w, rest, X, Y, D, E, a, r, C, p) ==
    /\ Sound(w) /\ ~w.broken /\ rest \subseteq Task(Handlers, Accounts)
    /\ Quiet(w, rest, Y, E) /\ a \in Accounts /\ Elsewhere(a, X, Y, D, E)
    /\ r \in Records /\ r.status <= 1 /\ w.infos[a].status <= 1
    /\ r.banishmentAt = w.infos[a].banishmentAt
    /\ Sane(a, r, X, D[a]) /\ Timed(a, r, w.tasks \cup rest) /\ Blank(r)
    /\ Within(w.infos, C) /\ a \notin C /\ p \in C \cup {None}
    /\ p # None => ~Shut(w.infos[p])

LEMMA JoinQuiet ==
    ASSUME now \in Nat, Earned, NEW w, NEW rest, NEW X, NEW Y, NEW D, NEW E, NEW a, NEW r,
           NEW C, NEW p, Joins(w, rest, X, Y, D, E, a, r, C, p),
           NEW x \in Amounts, NEW n \in 1..Depth
    PROVE  LET v == Joined(Update(w, a, r), a, p, x, n)
           IN  /\ v \in Worlds
               /\ v.broken \/ (Quiet(v, rest, X, D) /\ v.infos[a] = r)
<1>. USE DEF Joins
<1> DEFINE u == Update(w, a, r)
           link == [NoLink EXCEPT !.join = {a}]
           gain == Brings(x)
           v == Climb(u, p, n, link, gain)
           f == w.infos
<1>1. w \in Worlds /\ f \in [Accounts -> Records] /\ Tree(f)
  BY SoundFields
<1>2. u \in Worlds /\ ~u.broken /\ u.infos = [f EXCEPT ![a] = r]
  BY <1>1, UpdateWorld
<1>3. AllSane(f, Y, E)
  BY QuietSane
<1>4. Quiet(u, rest, X, D)
  <2>1. Frame(w, a, rest, X, D) /\ BanishedAt(w, a, rest, r.banishmentAt)
        /\ IndexFits(w.index, w.infos)
    BY <1>1, FrameOf
  <2>2. IndexFits(w.index, [w.infos EXCEPT ![a] = r])
    BY <1>1, <2>1, IndexLow
  <2>3. QuietBut(w, a, r, rest, X, D)
    BY <1>1, <2>1, <2>2, FrameBut
  <2>. QED  BY <1>1, <2>3, UpdateQuiet
<1>5. u.infos[a] = r /\ \A b \in C : u.infos[b] = f[b]
  BY <1>1, <1>2 DEF Within
<1>6. C \cap Y \subseteq X
  BY DEF Elsewhere, Within
<1>7. link \in Links /\ gain \in Gains
  BY LinksOf, BringsGains
<1>8. Joined(u, a, p, x, n) = v
  BY DEF Joined
<1>9. Within(f, C) /\ (p # None => ~Shut(f[p]) \/ p \in Y)
  OBVIOUS
<1>. HIDE DEF u, link, f, gain
<1>10. LET z == Climb(u, p, n, link, gain)
       IN  /\ z \in Worlds
           /\ z.broken \/ /\ Quiet(z, rest, X, D)
                          /\ \A c \in Accounts \ C : z.infos[c] = u.infos[c]
  <2>1. Ladder(f, Y, E, C, u, rest, X, D, p)
    BY <1>1, <1>2, <1>3, <1>4, <1>5, <1>6, <1>9 DEF Ladder
  <2>. QED  BY <1>7, <2>1, ClimbOpen
<1>11. a \in Accounts \ C
  OBVIOUS
<1>. QED  BY <1>5, <1>8, <1>10, <1>11 DEF u

(***************************************************************************)
(* The referrer whom FirstOpen finds takes referrals.                      *)
(***************************************************************************)
LEMMA FirstOpenOpen ==
    ASSUME NEW f, HasParents(f), NEW p \in Parents, FirstOpen(f, p) # None
    PROVE  ~Shut(f[FirstOpen(f, p)])
<1> DEFINE s == Ancestors(f, p, Cardinality(Accounts))
           open == {k \in DOMAIN s : ~RegistrationClosed(f[s[k]])}
<1>1. s \in Seq(Accounts)
  BY AccountsCount, AncestorsValue DEF IsChain
<1>2. FirstOpen(f, p) = s[Min(open)] /\ open # {}
  BY DEF FirstOpen
<1>. HIDE DEF s
<1>3. Min(open) \in open
  <2>1. open \in SUBSET Nat
    BY <1>1
  <2>2. open # {}
    BY <1>2
  <2>. HIDE DEF open
  <2>. QED  BY <2>1, <2>2, MinOfNaturals
<1>4. ~RegistrationClosed(f[s[Min(open)]])
  BY <1>3
<1>. HIDE DEF open
<1>. QED  BY <1>2, <1>4 DEF RegistrationClosed, Shut

(***************************************************************************)
(* A banished account comes back with the record q.                        *)
(***************************************************************************)
\* What comes back is the record q of a, who is banished.
Returns(w, rest, X, Y, D, E, a, q) ==
    /\ Sound(w) /\ ~w.broken /\ rest \subseteq Task(Handlers, Accounts)
    /\ Quiet(w, rest, Y, E) /\ a \in Accounts /\ Elsewhere(a, X, Y, D, E)
    /\ w.infos[a].banished /\ q \in Records
    /\ q.referrer = FirstOpen(w.infos, w.infos[a].referrer) /\ ~q.banished
    /\ q.active = w.infos[a].active /\ q.status = 1 /\ q.referrals = w.infos[a].referrals
    /\ q.compressionAt = NoTime /\ q.banishmentAt = NoTime
    /\ q.downgradeAt = w.infos[a].downgradeAt /\ q.transition = w.infos[a].transition
    /\ a \in X \/ ~(D[a] <= Dust)

LEMMA BackQuiet ==
    ASSUME now \in Nat, Earned, NEW w, NEW rest, NEW X, NEW Y, NEW D, NEW E, NEW a, NEW q,
           Returns(w, rest, X, Y, D, E, a, q)
    PROVE  LET x == Balance(w.infos[a])
               v == Joined(Update(w, a, q), a, q.referrer, x, Reach(x))
           IN  v \in Worlds /\ (v.broken \/ (Quiet(v, rest, X, D) /\ v.infos[a] = q))
<1>. USE DEF Returns
<1> DEFINE r == w.infos[a]
           p == q.referrer
           C == Over(w.infos, r.referrer)
           x == Balance(r)
<1>1. w \in Worlds /\ w.infos \in [Accounts -> Records] /\ Tree(w.infos) /\ r \in Records
  BY SoundFields
<1>2. /\ p \in C \cup {None} /\ a \notin C /\ Within(w.infos, C)
      /\ r.referrer # None => p # None
  BY <1>1, FirstOpenGood DEF Within
<1>3. p # None => ~Shut(w.infos[p])
  <2>1. HasParents(w.infos) /\ r.referrer \in Parents
    BY <1>1, InfoFields DEF HasParents, Records
  <2>. QED  BY <2>1, FirstOpenOpen
<1>4. Sane(a, r, Y, E[a]) /\ Timed(a, r, w.tasks \cup rest)
  BY <1>1, FrameOf
<1>5. /\ r.referrer # None /\ ~r.active /\ r.status = 0 /\ r.compressionAt = NoTime
      /\ r.banishmentAt = NoTime /\ r.downgradeAt = NoTime /\ a \notin Y
  BY <1>4 DEF Sane
<1>6. r.referrals = {}
  BY <1>4, <1>5 DEF Sane, Shut
<1>7. Blank(q)
  BY DEF Blank, IsEmpty
<1>8. D[a] <= Dust => a \in X
  OBVIOUS
<1>9. Sane(a, q, X, D[a])
  BY <1>2, <1>5, <1>6, <1>8 DEF Sane, Shut
<1>10. Timed(a, q, w.tasks \cup rest)
  BY <1>2, <1>4, <1>5 DEF Timed, Armed
<1>11. x \in Amounts /\ Reach(x) \in 1..Depth
  BY <1>1, BalanceFields, ReachDepth
<1>12. q.banishmentAt = r.banishmentAt /\ q.status <= 1 /\ r.status <= 1
  BY <1>5
<1>. HIDE DEF C, x, p
<1>. HIDE DEF r
<1>13. LET v == Joined(Update(w, a, q), a, p, x, Reach(x))
       IN  v \in Worlds /\ (v.broken \/ (Quiet(v, rest, X, D) /\ v.infos[a] = q))
  <2>1. q.banishmentAt = w.infos[a].banishmentAt /\ q.status <= 1 /\ w.infos[a].status <= 1
    BY <1>12 DEF r
  <2>2. Joins(w, rest, X, Y, D, E, a, q, C, p)
    BY <1>2, <1>3, <1>7, <1>9, <1>10, <2>1 DEF Joins
  <2>. QED  BY <1>11, <2>2, JoinQuiet
<1>. QED  BY <1>13 DEF p, x, r

\* A sound world that is quiet, unless it has failed.
Calm(w, rest, X, D) == Sound(w) /\ (w.broken \/ Quiet(w, rest, X, D))

\* What accounts delegate is in their records.
Holds(w, D) == \A a \in Accounts : w.infos[a].lines["delegated"][0] = D[a]

(***************************************************************************)
(* An account that is not banished may be about to become active.          *)
(***************************************************************************)
LEMMA QuietAwaited ==
    ASSUME NEW w \in Worlds, NEW rest, NEW X, NEW D, Quiet(w, rest, X, D),
           NEW a \in Accounts, ~w.infos[a].banished
    PROVE  Quiet(w, rest, X \cup {a}, D)
<1>1. ASSUME NEW c \in Accounts PROVE Sane(c, w.infos[c], X \cup {a}, D[c])
  <2>1. Sane(c, w.infos[c], X, D[c])
    BY DEF Quiet
  <2>. QED  BY <2>1 DEF Sane
<1>. QED  BY <1>1 DEF Quiet

\* Of D only what accounts delegate matters, and of X only accounts.
LEMMA QuietSame ==
    ASSUME NEW w, NEW rest, NEW X, NEW Y, NEW D, NEW E, Quiet(w, rest, Y, E),
           \A c \in Accounts : (c \in X <=> c \in Y) /\ D[c] = E[c]
    PROVE  Quiet(w, rest, X, D)
<1>1. ASSUME NEW c \in Accounts PROVE Sane(c, w.infos[c], X, D[c])
  <2>1. Sane(c, w.infos[c], Y, E[c]) /\ (c \in X <=> c \in Y) /\ D[c] = E[c]
    BY DEF Quiet
  <2>. QED  BY <2>1, SaneElsewhere
<1>. QED  BY <1>1 DEF Quiet

(***************************************************************************)
(* A banished account that pays is back, and is to become active.          *)
(***************************************************************************)
LEMMA ComeBackQuiet ==
    ASSUME now \in Nat, Earned, NEW w, Sound(w), ~w.broken, NEW rest, NEW D, NEW X,
           rest \subseteq Task(Handlers, Accounts), Quiet(w, rest, X, D),
           NEW a \in Accounts, w.infos[a].banished
    PROVE  Calm(ComeBack(w, a), rest, X \cup {a}, D)
<1> DEFINE r == w.infos[a]
           p == FirstOpen(w.infos, r.referrer)
           q == [r EXCEPT !.referrer = p, !.banished = FALSE, !.status = 1,
                          !.banishmentAt = NoTime, !.compressionAt = NoTime]
           Y == X \cup {a}
<1>1. w \in Worlds /\ r \in Records /\ r \in Info /\ p \in Parents
  <2>1. w \in Worlds /\ w.infos \in [Accounts -> Records] /\ r \in Records
    BY SoundFields
  <2>2. HasParents(w.infos) /\ r.referrer \in Parents
    BY <2>1, InfoFields DEF HasParents, Records
  <2>. HIDE DEF r
  <2>3. p \in Parents
    BY <2>2, FirstOpenType
  <2>. QED  BY <2>1, <2>3 DEF Records
<1>2. 1 \in 0..MaxStatus /\ NoTime \in Moments /\ p \in Accounts \cup {None}
  BY <1>1, Constants DEF Moments, Parents
<1>. HIDE DEF p
<1>3. q \in Info
  BY <1>1, <1>2 DEF Info
<1>4. /\ q.referrer = p /\ ~q.banished /\ q.active = r.active /\ q.status = 1
      /\ q.referrals = r.referrals /\ q.compressionAt = NoTime /\ q.banishmentAt = NoTime
      /\ q.downgradeAt = r.downgradeAt /\ q.transition = r.transition
  BY <1>1 DEF Info
<1>. HIDE DEF q
<1>5. q \in Records
  BY <1>3, <1>4 DEF Records
<1>6. Elsewhere(a, Y, X, D, D)
  BY DEF Elsewhere
<1>7. Returns(w, rest, Y, X, D, D, a, q)
  BY <1>4, <1>5, <1>6 DEF Returns, p
<1> DEFINE v == Joined(Update(w, a, q), a, p, Balance(r), Reach(Balance(r)))
<1>8. v \in Worlds /\ (v.broken \/ Quiet(v, rest, Y, D))
  <2>. HIDE DEF Y
  <2>. QED  BY <1>4, <1>7, BackQuiet
<1>9. ComeBack(w, a) = v
  BY DEF ComeBack, q, p
<1>10. Sound(ComeBack(w, a))
  BY ComeBackKeeps DEF Keeps, Ends
<1>. QED  BY <1>8, <1>9, <1>10 DEF Calm

(***************************************************************************)
(* Who delegates is back in the tree.                                      *)
(***************************************************************************)
LEMMA RedeemedQuiet ==
    ASSUME now \in Nat, Earned, NEW w, Sound(w), ~w.broken, NEW rest, NEW X, NEW D, NEW E,
           rest \subseteq Task(Handlers, Accounts), Quiet(w, rest, X, E),
           NEW a \in Accounts, Elsewhere(a, X, X, D, E), ~(D[a] <= Dust),
           w.infos[a].banished
    PROVE  LET v == Redeemed(w, a)
           IN  Calm(v, rest, X, D) /\ (v.broken \/ ~v.infos[a].banished)
<1> DEFINE r == w.infos[a]
           p == FirstOpen(w.infos, r.referrer)
           q == [r EXCEPT !.referrer = p, !.banished = FALSE, !.status = 1]
<1>1. w \in Worlds /\ r \in Records /\ r \in Info /\ p \in Parents
  <2>1. w \in Worlds /\ w.infos \in [Accounts -> Records] /\ r \in Records
    BY SoundFields
  <2>2. HasParents(w.infos) /\ r.referrer \in Parents
    BY <2>1, InfoFields DEF HasParents, Records
  <2>. HIDE DEF r
  <2>3. p \in Parents
    BY <2>2, FirstOpenType
  <2>. QED  BY <2>1, <2>3 DEF Records
<1>2. 1 \in 0..MaxStatus /\ p \in Accounts \cup {None}
  BY <1>1, Constants DEF Parents
<1>. HIDE DEF p
<1>3. q \in Info
  BY <1>1, <1>2 DEF Info
<1>4. r.banished /\ r.compressionAt = NoTime /\ r.banishmentAt = NoTime
  BY DEF Quiet, Sane
<1>5. /\ q.referrer = p /\ ~q.banished /\ q.active = r.active /\ q.status = 1
      /\ q.referrals = r.referrals /\ q.compressionAt = NoTime /\ q.banishmentAt = NoTime
      /\ q.downgradeAt = r.downgradeAt /\ q.transition = r.transition
  BY <1>1, <1>4 DEF Info
<1>. HIDE DEF q
<1>6. q \in Records
  BY <1>3, <1>5 DEF Records
<1>7. Returns(w, rest, X, X, D, E, a, q)
  BY <1>5, <1>6 DEF Returns, p
<1> DEFINE v == Joined(Update(w, a, q), a, p, Balance(r), Reach(Balance(r)))
<1>8. v \in Worlds /\ (v.broken \/ (Quiet(v, rest, X, D) /\ v.infos[a] = q))
  BY <1>5, <1>7, BackQuiet
<1>9. Redeemed(w, a) = v
  BY DEF Redeemed, q, p
<1>10. Sound(Redeemed(w, a))
  BY RedeemedKeeps DEF Keeps, Ends
<1>. QED  BY <1>5, <1>8, <1>9, <1>10 DEF Calm

\* The balance of a, who is known, becomes h.
Changes(w, rest, X, D, E, a, h) ==
    /\ Sound(w) /\ ~w.broken /\ rest \subseteq Task(Handlers, Accounts)
    /\ Quiet(w, rest, X, E) /\ a \in Accounts /\ Elsewhere(a, X, X, D, E)
    /\ h \in [coins : Int, delegated : Int] /\ D[a] = h.delegated
    /\ 0 <= h.delegated /\ h.delegated <= h.coins
    /\ h.delegated = w.infos[a].lines["delegated"][0] => E[a] = h.delegated
    /\ \/ rest = {}
       \/ /\ phase = "pass"
          /\ h.delegated = w.infos[a].lines["delegated"][0] \/ h.delegated <= Dust

\* What OnBalanceChanged does first.
Stirred(w, a, h) ==
    LET r == w.infos[a]
    IN  IF h.delegated = r.lines["delegated"][0] \/ r.active THEN w
        ELSE IF h.delegated > Dust THEN Redeemed(Spare(w, a), a)
        ELSE IF MustScheduleBanishment(r, h) THEN ScheduleBanishment(w, a)
        ELSE w

\* Some facts about the record of an account.
LEMMA QuietFields ==
    ASSUME NEW w, Sound(w), NEW a \in Accounts
    PROVE  /\ w \in Worlds /\ w.infos \in [Accounts -> Records]
           /\ w.infos[a] \in Records /\ w.infos[a] \in Info
           /\ w.infos[a].lines["delegated"][0] \in Int /\ w.infos[a].lines["coins"][0] \in Int
           /\ w.infos[a].referrer \in Parents
           /\ w.infos[a].banishmentAt \in Moments /\ w.infos[a].compressionAt \in Moments
<1>1. w \in Worlds /\ w.infos \in [Accounts -> Records] /\ w.infos[a] \in Info
  BY SoundFields DEF Records
<1>. QED  BY <1>1, InfoFields, Constants

(***************************************************************************)
(* Of a record only the banishment depends on what its account delegates.  *)
(***************************************************************************)
LEMMA QuietOther ==
    ASSUME NEW w, NEW rest, NEW X, NEW D, NEW E, Quiet(w, rest, X, E),
           NEW a \in Accounts, Elsewhere(a, X, X, D, E), Sane(a, w.infos[a], X, D[a])
    PROVE  Quiet(w, rest, X, D)
<1>1. ASSUME NEW c \in Accounts PROVE Sane(c, w.infos[c], X, D[c])
  <2>1. CASE c = a
    BY <2>1
  <2>2. CASE c # a
    <3>1. D[c] = E[c] /\ Sane(c, w.infos[c], X, E[c])
      BY <2>2 DEF Elsewhere, Quiet
    <3>. QED  BY <3>1
  <2>. QED  BY <2>1, <2>2
<1>. QED  BY <1>1 DEF Quiet

\* Without a banishment the record r of a is as it was.
LEMMA NoBanishment ==
    ASSUME NEW r \in Info, NEW q, q = [r EXCEPT !.banishmentAt = NoTime],
           r.downgradeAt # NoTime => r.status >= 1
    PROVE  /\ q \in Records /\ q.banishmentAt = NoTime /\ q.status = r.status
           /\ q.referrer = r.referrer /\ q.active = r.active /\ q.banished = r.banished
           /\ q.referrals = r.referrals /\ q.activeReferrals = r.activeReferrals
           /\ q.compressionAt = r.compressionAt /\ q.downgradeAt = r.downgradeAt
           /\ q.transition = r.transition /\ q.lines = r.lines
BY DEF Info, Records, Moments

(***************************************************************************)
(* Who delegates is not to be banished.                                    *)
(***************************************************************************)
LEMMA SparedQuiet ==
    ASSUME now \in Nat, NEW w, NEW rest, NEW X, NEW D, NEW E, NEW a, NEW h,
           Changes(w, rest, X, D, E, a, h), ~(h.delegated <= Dust),
           ~w.infos[a].active, ~w.infos[a].banished, ~IsEmpty(w.infos[a]),
           h.delegated # w.infos[a].lines["delegated"][0]
    PROVE  LET v == Spare(w, a)
           IN  /\ Calm(v, rest, X, D) /\ ~v.broken /\ ~v.infos[a].banished
<1>. USE DEF Changes
<1> DEFINE r == w.infos[a]
           q == [r EXCEPT !.banishmentAt = NoTime]
           v == Spare(w, a)
<1>1. w \in Worlds /\ r \in Info /\ r \in Records /\ rest = {}
  BY QuietFields
<1>2. Frame(w, a, rest, X, D) /\ BanishedAt(w, a, rest, r.banishmentAt)
      /\ IndexFits(w.index, w.infos) /\ Sane(a, r, X, E[a])
      /\ Timed(a, r, w.tasks \cup rest)
  BY <1>1, FrameOf
<1>3. /\ q \in Records /\ q.banishmentAt = NoTime /\ q.status = r.status
      /\ q.referrer = r.referrer /\ q.active = r.active /\ q.banished = r.banished
      /\ q.referrals = r.referrals /\ q.compressionAt = r.compressionAt
      /\ q.downgradeAt = r.downgradeAt /\ q.transition = r.transition
  BY <1>1, NoBanishment DEF Records
<1>4. ~(D[a] <= Dust) /\ ~r.active /\ ~r.banished /\ ~IsEmpty(r)
  OBVIOUS
<1>. HIDE DEF q
<1>5. Sane(a, q, X, D[a])
  BY <1>2, <1>3, <1>4 DEF Sane, Shut
<1>6. Timed(a, q, w.tasks \cup rest)
  BY <1>2, <1>3 DEF Timed, Armed
<1>7. Blank(q)
  BY <1>3, <1>4 DEF Blank, IsEmpty
<1>8. q = [w.infos[a] EXCEPT !.banishmentAt = NoTime]
  BY DEF q
<1>9. /\ v \in Worlds /\ (v.broken => w.broken) /\ Quiet(v, rest, X, D) /\ v.infos[a] = q
  <2>1. Spares(w, rest, X, D, a, q)
    BY <1>1, <1>2, <1>3, <1>5, <1>6, <1>7, <1>8 DEF Spares
  <2>. QED  BY <2>1, SpareQuiet
<1>10. Sound(v)
  BY <1>1, SpareKeeps, BecomesKeeps DEF Keeps, Ends
<1>. QED  BY <1>3, <1>4, <1>9, <1>10 DEF Calm

(***************************************************************************)
(* Who has been compressed, or is about to be, and delegates no more than  *)
(* dust is to be banished.                                                 *)
(***************************************************************************)
LEMMA AnnouncedQuiet ==
    ASSUME now \in Nat, NEW w, NEW rest, NEW X, NEW D, NEW E, NEW a, NEW h,
           Changes(w, rest, X, D, E, a, h), h.delegated <= Dust,
           ~w.infos[a].active, MustScheduleBanishment(w.infos[a], h), ~IsEmpty(w.infos[a])
    PROVE  LET v == ScheduleBanishment(w, a)
           IN  /\ Calm(v, rest, X, D) /\ ~v.broken /\ ~v.infos[a].banished
<1>. USE DEF Changes
<1> DEFINE r == w.infos[a]
           time == now + Month
           q == [r EXCEPT !.banishmentAt = time]
           v == ScheduleBanishment(w, a)
<1>1. /\ w \in Worlds /\ r \in Info /\ r \in Records /\ r.compressionAt \in Moments
      /\ time \in Nat
  BY QuietFields, Constants
<1>2. Frame(w, a, rest, X, D) /\ BanishedAt(w, a, rest, r.banishmentAt)
      /\ IndexFits(w.index, w.infos) /\ Sane(a, r, X, E[a])
      /\ Timed(a, r, w.tasks \cup rest)
  BY <1>1, FrameOf
<1>3. /\ r.referrer # None /\ ~r.banished /\ r.banishmentAt = NoTime /\ ~r.active
      /\ r.compressionAt = NoTime \/ now > r.compressionAt
  BY DEF MustScheduleBanishment
<1>. HIDE DEF time
<1>4. BanishedAt(w, a, rest, time)
  <2>1. \A t \in w.tasks \cup rest : t.time \in Nat
    BY <1>1, WorldFields DEF Task
  <2>. QED  BY <1>2, <1>3, <2>1, Constants DEF BanishedAt
<1>5. /\ q \in Records /\ q.banishmentAt = time /\ q.status = r.status
      /\ q.referrer = r.referrer /\ q.active = r.active /\ q.banished = r.banished
      /\ q.referrals = r.referrals /\ q.compressionAt = r.compressionAt
      /\ q.downgradeAt = r.downgradeAt /\ q.transition = r.transition
  BY <1>1 DEF Info, Records, Moments
<1>6. [q EXCEPT !.banishmentAt = NoTime] = r
  BY <1>1, <1>3 DEF Info
<1>. HIDE DEF q
<1>7. Expelled(q, D[a])
  <2>1. CASE r.compressionAt = NoTime
    BY <1>3, <1>5, <2>1 DEF Expelled
  <2>2. CASE r.compressionAt # NoTime
    <3> DEFINE t == Timer(r.compressionAt, "compression", a)
    <3>1. r.compressionAt \in Nat /\ r.compressionAt < now
      BY <1>1, <1>3, <2>2 DEF Moments
    <3>2. t \in w.tasks \cup rest /\ t.time = r.compressionAt
      BY <1>2, <1>3, <2>2 DEF Timed, Armed, Timer
    <3>3. phase \in {"begin", "pass"}
      <4>. HIDE DEF t
      <4>1. t \in w.tasks => phase = "begin"
        BY <1>2, <3>1, <3>2 DEF Frame, ToCome
      <4>2. t \in rest => phase = "pass"
        OBVIOUS
      <4>. QED  BY <3>2, <4>1, <4>2
    <3>. QED  BY <1>3, <1>5, <3>1, <3>3 DEF Expelled, time
  <2>. QED  BY <2>1, <2>2
<1>8. Sane(a, q, X, D[a])
  <2>1. q.banishmentAt # NoTime
    BY <1>1, <1>5, Constants
  <2>2. Shut(q) <=> Shut(r)
    BY <1>5 DEF Shut
  <2>. QED  BY <1>2, <1>3, <1>5, <1>7, <2>1, <2>2 DEF Sane
<1>9. Blank(q)
  BY <1>5 DEF Blank, IsEmpty
<1>10. q = [w.infos[a] EXCEPT !.banishmentAt = now + Month] /\ BanishedAt(w, a, rest, now + Month)
  BY <1>4 DEF q, time
<1>11. /\ v \in Worlds /\ (v.broken => w.broken) /\ Quiet(v, rest, X, D) /\ v.infos[a] = q
  <2>1. Announces(w, rest, X, D, a, q)
    BY <1>1, <1>2, <1>5, <1>6, <1>8, <1>9, <1>10 DEF Announces
  <2>. QED  BY <2>1, ScheduleQuiet
<1>12. Sound(v)
  BY <1>1, ScheduleBanishmentKeeps, BecomesKeeps DEF Keeps, Ends
<1>. QED  BY <1>3, <1>5, <1>11, <1>12 DEF Calm

(***************************************************************************)
(* What OnBalanceChanged does first: banishments are announced, called off *)
(* and undone.                                                             *)
(***************************************************************************)
LEMMA StirredQuiet ==
    ASSUME now \in Nat, Earned, NEW w, NEW rest, NEW X, NEW D, NEW E, NEW a, NEW h,
           Changes(w, rest, X, D, E, a, h), ~IsEmpty(w.infos[a])
    PROVE  Calm(Stirred(w, a, h), rest, X, D)
<1> DEFINE r == w.infos[a]
           v == Stirred(w, a, h)
<1>1. /\ Sound(w) /\ ~w.broken /\ rest \subseteq Task(Handlers, Accounts)
      /\ Quiet(w, rest, X, E) /\ a \in Accounts /\ Elsewhere(a, X, X, D, E)
      /\ h.delegated \in Int /\ Dust \in Int
      /\ D[a] = h.delegated /\ (h.delegated = r.lines["delegated"][0] => E[a] = h.delegated)
  BY Constants DEF Changes
<1>2. w \in Worlds /\ r \in Records /\ Sane(a, r, X, E[a])
  BY <1>1, QuietFields DEF Quiet
<1>3. CASE h.delegated = r.lines["delegated"][0] \/ r.active
  <2>1. v = w
    BY <1>3 DEF Stirred
  <2>2. Sane(a, r, X, D[a])
    <3>1. CASE h.delegated = r.lines["delegated"][0]
      BY <1>1, <1>2, <3>1
    <3>2. CASE r.active
      BY <1>2, <3>2 DEF Sane, Shut, Expelled
    <3>. QED  BY <1>3, <3>1, <3>2
  <2>3. Quiet(w, rest, X, D)
    BY <1>1, <2>2, QuietOther
  <2>. QED  BY <1>1, <2>1, <2>3 DEF Calm
<1>4. CASE /\ ~(h.delegated = r.lines["delegated"][0]) /\ ~r.active /\ ~(h.delegated <= Dust)
  <2>1. h.delegated > Dust
    BY <1>1, <1>4
  <2>2. v = Redeemed(Spare(w, a), a)
    BY <1>4, <2>1 DEF Stirred
  <2>3. CASE r.banished
    <3>1. r.banishmentAt = NoTime
      BY <1>2, <2>3 DEF Sane
    <3>2. Spare(w, a) = w
      BY <3>1 DEF Spare
    <3>3. Calm(Redeemed(w, a), rest, X, D)
      BY <1>1, <1>4, <2>3, RedeemedQuiet
    <3>. QED  BY <2>2, <3>2, <3>3
  <2>4. CASE ~r.banished
    <3> DEFINE u == Spare(w, a)
    <3>1. Calm(u, rest, X, D) /\ ~u.infos[a].banished
      BY <1>4, <2>4, SparedQuiet
    <3>2. Redeemed(u, a) = u
      BY <3>1 DEF Redeemed
    <3>. QED  BY <2>2, <3>1, <3>2
  <2>. QED  BY <2>3, <2>4
<1>5. CASE ~(h.delegated = r.lines["delegated"][0]) /\ ~r.active /\ h.delegated <= Dust
  <2>1. ~(h.delegated > Dust)
    BY <1>1, <1>5
  <2>2. CASE MustScheduleBanishment(r, h)
    <3>1. v = ScheduleBanishment(w, a)
      BY <1>5, <2>1, <2>2 DEF Stirred
    <3>2. Calm(ScheduleBanishment(w, a), rest, X, D)
      BY <1>5, <2>2, AnnouncedQuiet
    <3>. QED  BY <3>1, <3>2
  <2>3. CASE ~MustScheduleBanishment(r, h)
    <3>1. v = w
      BY <1>5, <2>1, <2>3 DEF Stirred
    <3>2. D[a] <= Dust
      BY <1>1, <1>5
    <3>3. r.referrer # None /\ ~r.banished /\ r.compressionAt = NoTime => r.banishmentAt # NoTime
      BY <1>5, <2>3 DEF MustScheduleBanishment
    <3>4. Sane(a, r, X, D[a])
      BY <1>2, <3>2, <3>3 DEF Sane, Shut, Expelled
    <3>5. Quiet(w, rest, X, D)
      BY <1>1, <3>4, QuietOther
    <3>. QED  BY <1>1, <3>1, <3>5 DEF Calm
  <2>. QED  BY <2>2, <2>3
<1>. QED  BY <1>3, <1>4, <1>5

(***************************************************************************)
(* Sums of a, and a check.                                                 *)
(***************************************************************************)
LEMMA AccountedQuiet ==
    ASSUME now \in Nat, Earned, NEW w, NEW rest, NEW X, NEW D, Calm(w, rest, X, D),
           rest \subseteq Task(Handlers, Accounts), NEW a \in Accounts, NEW x \in Amounts
    PROVE  LET v == Checked(w, a, Contribute(w.infos[a], 0, x))
           IN  v.broken \/ /\ ~w.broken /\ v \in Worlds /\ Quiet(v, rest, X, D)
                           /\ v.infos[a].referrer = w.infos[a].referrer
                           /\ v.infos[a].banished = w.infos[a].banished
                           /\ \A c \in Accounts \ {a} : v.infos[c] = w.infos[c]
<1> DEFINE q == w.infos[a]
           d == InLine(0, x)
           r == Adjust(q, d)
           v == Checked(w, a, r)
<1>1. w \in Worlds /\ w.infos \in [Accounts -> Records] /\ q \in Records
  BY SoundFields DEF Calm
<1>2. Contribute(q, 0, x) = r
  BY DEF Contribute
<1>3. d \in LineSums
  BY BringsGains
<1>. HIDE DEF d
<1>. SUFFICES ASSUME ~v.broken
              PROVE  /\ ~w.broken /\ v \in Worlds /\ Quiet(v, rest, X, D)
                     /\ v.infos[a].referrer = w.infos[a].referrer
                     /\ v.infos[a].banished = w.infos[a].banished
                     /\ \A c \in Accounts \ {a} : v.infos[c] = w.infos[c]
  BY <1>2
<1>4. ~w.broken
  BY DEF Checked
<1>5. Quiet(w, rest, X, D) /\ Tree(w.infos)
  BY <1>4, SoundFields DEF Calm
<1>6. r \in Records /\ SameTerms(q, r) /\ r.referrals = q.referrals
      /\ r.activeReferrals = q.activeReferrals
  <2> DEFINE lines == r.lines
  <2>1. r \in Records /\ r = [q EXCEPT !.lines = lines] /\ q \in Info
    <3>. HIDE DEF q
    <3>. QED  BY <1>1, <1>3, AdjustRecord DEF Records
  <2>. HIDE DEF lines, r, q
  <2>. QED  BY <2>1 DEF SameTerms, Info
<1>7. QuietBut(w, a, r, rest, X, D)
  <2>. HIDE DEF r
  <2>. QED  BY <1>1, <1>5, <1>6, QuietRecord
<1>8. Shut(r) /\ a \notin X => r.activeReferrals = {}
  <2>1. Sane(a, q, X, D[a]) /\ q.activeReferrals \subseteq q.referrals
    BY <1>1, <1>5, ListsWithin DEF Quiet
  <2>2. Shut(r) <=> Shut(q)
    <3>. HIDE DEF r, q
    <3>. QED  BY <1>6 DEF SameTerms, Shut
  <2>. HIDE DEF r, q
  <2>. QED  BY <1>6, <2>1, <2>2 DEF Sane
<1>9. /\ Quiet(v, rest, X, D) /\ v \in Worlds
      /\ v.infos = [w.infos EXCEPT ![a] = v.infos[a]]
      /\ Judged(a, r, v.infos[a], v.tasks)
  <2>. HIDE DEF r
  <2>. QED  BY <1>1, <1>6, <1>7, <1>8, CheckedQuiet
<1>10. v.infos[a].referrer = q.referrer /\ v.infos[a].banished = q.banished
  <2>. HIDE DEF r, v, q
  <2>. QED  BY <1>6, <1>9 DEF Judged, SameTerms
<1>11. \A c \in Accounts \ {a} : v.infos[c] = w.infos[c]
  <2>. HIDE DEF v
  <2>. QED  BY <1>1, <1>9
<1>. QED  BY <1>4, <1>9, <1>10, <1>11

\* The world before the climb of OnBalanceChanged, and the climb.
Accounted(w, a, h) ==
    LET m == Stirred(w, a, h)
    IN  Checked(m, a, Contribute(m.infos[a], 0, [f \in Sums |-> Own(h)[f] - Balance(w.infos[a])[f]]))

LEMMA BalanceChangedParts ==
    ASSUME NEW w, Sound(w), NEW a \in Accounts, NEW h \in [coins : Int, delegated : Int]
    PROVE  LET r == w.infos[a]
               q == Stirred(w, a, h).infos[a]
               x == [f \in Sums |-> Own(h)[f] - Balance(r)[f]]
           IN  /\ OnBalanceChanged(w, a, h) =
                    IF IsEmpty(r) THEN w
                    ELSE IF q.banished THEN Accounted(w, a, h)
                    ELSE Climb(Accounted(w, a, h), q.referrer, Depth, NoLink, Brings(x))
               /\ x \in Amounts
               /\ x.delegated = h.delegated - r.lines["delegated"][0]
<1> DEFINE r == w.infos[a]
           x == [f \in Sums |-> Own(h)[f] - Balance(r)[f]]
           moved == IF x.delegated = 0 \/ r.active THEN w
                    ELSE IF h.delegated > Dust THEN Redeemed(Spare(w, a), a)
                    ELSE IF MustScheduleBanishment(r, h) THEN ScheduleBanishment(w, a)
                    ELSE w
           q == moved.infos[a]
           set == Checked(moved, a, Contribute(q, 0, x))
<1>1. /\ r \in Records /\ r.lines["delegated"][0] \in Int
  BY QuietFields
<1>2. /\ x \in Amounts /\ x.delegated = h.delegated - r.lines["delegated"][0]
  <2>1. Balance(r) \in Amounts /\ Balance(r).delegated = r.lines["delegated"][0]
    BY <1>1, BalanceFields
  <2>. HIDE DEF r
  <2>2. \A f \in Sums : Own(h)[f] \in Int /\ Balance(r)[f] \in Int
    BY <2>1 DEF Amounts, Own, Sums
  <2>3. x.delegated = Own(h).delegated - Balance(r).delegated
    BY DEF Sums
  <2>. QED  BY <2>1, <2>2, <2>3 DEF Amounts, Own
<1>3. OnBalanceChanged(w, a, h) =
        IF IsEmpty(r) THEN w
        ELSE IF q.banished THEN set ELSE Climb(set, q.referrer, Depth, NoLink, Brings(x))
  BY DEF OnBalanceChanged
<1>. HIDE DEF x, r
<1>4. x.delegated = 0 <=> h.delegated = r.lines["delegated"][0]
  BY <1>1, <1>2
<1>5. moved = Stirred(w, a, h)
  BY <1>4 DEF Stirred, r
<1>. HIDE DEF moved
<1>6. set = Accounted(w, a, h)
  BY <1>5 DEF Accounted, x, r
<1>. HIDE DEF set
<1>. QED  BY <1>2, <1>3, <1>5, <1>6 DEF x, r

(***************************************************************************)
(* A change of a balance keeps a world quiet.                              *)
(***************************************************************************)
LEMMA BalanceChangedQuiet ==
    ASSUME now \in Nat, Earned, NEW w, NEW rest, NEW X, NEW D, NEW E, NEW a, NEW h,
           Changes(w, rest, X, D, E, a, h)
    PROVE  Calm(OnBalanceChanged(w, a, h), rest, X, D)
<1> DEFINE r == w.infos[a]
           m == Stirred(w, a, h)
           q == m.infos[a]
           x == [f \in Sums |-> Own(h)[f] - Balance(r)[f]]
           set == Accounted(w, a, h)
           v == OnBalanceChanged(w, a, h)
<1>1. /\ Sound(w) /\ ~w.broken /\ rest \subseteq Task(Handlers, Accounts)
      /\ Quiet(w, rest, X, E) /\ a \in Accounts /\ Elsewhere(a, X, X, D, E)
      /\ h \in [coins : Int, delegated : Int] /\ 0 <= h.delegated /\ h.delegated <= h.coins
  BY DEF Changes
<1>2. Sound(v)
  <2>1. Keeps(w, OnBalanceChanged(w, a, h))
    BY <1>1, BalanceChangedKeeps
  <2>. QED  BY <2>1 DEF Keeps, Ends
<1>3. /\ v = IF IsEmpty(r) THEN w
             ELSE IF q.banished THEN set ELSE Climb(set, q.referrer, Depth, NoLink, Brings(x))
      /\ x \in Amounts
  BY <1>1, BalanceChangedParts
<1>4. CASE IsEmpty(r)
  <2>1. Blank(r)
    BY <1>1 DEF Quiet
  <2>2. /\ r.referrer = None /\ ~r.active /\ ~r.banished /\ r.banishmentAt = NoTime
        /\ r.compressionAt = NoTime
    BY <1>4, <2>1, BlankFields DEF IsEmpty
  <2>3. Sane(a, r, X, D[a])
    BY <2>2 DEF Sane, Shut
  <2>4. Quiet(w, rest, X, D)
    BY <1>1, <2>3, QuietOther
  <2>. QED  BY <1>1, <1>3, <1>4, <2>4 DEF Calm
<1>5. CASE ~IsEmpty(r)
  <2>1. Calm(m, rest, X, D)
    BY <1>5, StirredQuiet
  <2>2. set = Checked(m, a, Contribute(m.infos[a], 0, x))
    BY DEF Accounted
  <2>. HIDE DEF m, set, x
  <2>3. set.broken \/ /\ ~m.broken /\ set \in Worlds /\ Quiet(set, rest, X, D)
                      /\ set.infos[a].referrer = m.infos[a].referrer
                      /\ set.infos[a].banished = m.infos[a].banished
                      /\ \A c \in Accounts \ {a} : set.infos[c] = m.infos[c]
    BY <1>1, <1>3, <2>1, <2>2, AccountedQuiet
  <2>4. CASE q.banished
    <3>1. v = set
      BY <1>3, <1>5, <2>4
    <3>. QED  BY <1>2, <2>3, <3>1 DEF Calm
  <2>5. CASE ~q.banished
    <3> DEFINE p == q.referrer
               gain == Brings(x)
    <3>1. v = Climb(set, p, Depth, NoLink, gain)
      BY <1>3, <1>5, <2>5
    <3>2. gain \in Gains /\ NoLink \in Links /\ Depth \in 1..Depth
      <4>1. gain \in Gains
        BY <1>3, BringsGains
      <4>2. NoLink \in Links
        BY <1>1, LinksOf
      <4>3. Depth \in 1..Depth
        BY Constants
      <4>. HIDE DEF gain
      <4>. QED  BY <4>1, <4>2, <4>3
    <3>3. CASE set.broken
      <4>1. set \in Worlds /\ p \in Parents
        <5>1. Sound(m)
          BY <2>1 DEF Calm
        <5>2. m \in Worlds /\ q \in Records /\ q \in Info
          BY <1>1, <5>1, QuietFields
        <5>3. Contribute(q, 0, x) \in Records
          <6>1. InLine(0, x) \in LineSums
            BY <1>3, BringsGains
          <6>. HIDE DEF q
          <6>. QED  BY <5>2, <6>1, AdjustRecord DEF Contribute
        <5>4. Writes(m, Checked(m, a, Contribute(q, 0, x)), a, Contribute(q, 0, x))
          BY <1>1, <5>2, <5>3, CheckedWrites
        <5>5. set \in Worlds
          BY <2>2, <5>4 DEF Writes
        <5>. QED  BY <5>2, <5>5, InfoFields
      <4>. HIDE DEF gain, p
      <4>2. PICK check \in BOOLEAN : check = TRUE
        OBVIOUS
      <4>3. Becomes(set, ClimbIf(check, set, p, Depth, NoLink, gain), set.infos)
        BY <3>2, <4>1, ClimbPlain
      <4>4. v = ClimbIf(check, set, p, Depth, NoLink, gain)
        BY <3>1, <4>2 DEF Climb
      <4>. QED  BY <1>2, <3>3, <4>3, <4>4 DEF Becomes, Calm
    <3>4. CASE ~set.broken
      <4>1. ~m.broken /\ Sound(m) /\ Quiet(m, rest, X, D)
        BY <2>1, <2>3, <3>4 DEF Calm
      <4>2. m.infos \in [Accounts -> Records] /\ Tree(m.infos)
        BY <4>1, SoundFields
      <4>3. a \notin Over(m.infos, m.infos[a].referrer)
            /\ Over(m.infos, m.infos[a].referrer) \subseteq Accounts
        BY <1>1, <4>2, OwnParent DEF Within
      <4>4. \A b \in Over(m.infos, m.infos[a].referrer) : set.infos[b] = m.infos[b]
        BY <2>3, <3>4, <4>3
      <4>5. AllSane(m.infos, X, D)
        BY <4>1, QuietSane
      <4>6. Stands(m.infos, X, D, a, set, rest, X, D)
        BY <1>1, <2>3, <2>5, <3>4, <4>2, <4>4, <4>5 DEF Stands
      <4>. HIDE DEF gain
      <4>7. v.broken \/ Quiet(v, rest, X, D)
        BY <3>1, <3>2, <4>6, ClimbChecked
      <4>. QED  BY <1>2, <4>7 DEF Calm
    <3>. QED  BY <3>3, <3>4
  <2>. QED  BY <2>4, <2>5
<1>. QED  BY <1>4, <1>5

\* And D is what accounts delegate.
Steady(w, rest, X, D) == Calm(w, rest, X, D) /\ (w.broken \/ Holds(w, D))

LEMMA SameHolds ==
    ASSUME NEW w, NEW v, NEW D, SameStakes(w, v), w.broken \/ Holds(w, D), w.broken => v.broken
    PROVE  v.broken \/ Holds(v, D)
BY DEF SameStakes, SameStake, Holds

LEMMA StirredKeeps ==
    ASSUME now \in Nat, NEW w, Sound(w), NEW a \in Accounts, NEW h
    PROVE  Keeps(w, Stirred(w, a, h)) /\ SameStakes(w, Stirred(w, a, h))
<1>1. w \in Worlds
  BY SoundFields
<1>2. Keeps(w, w) /\ SameStakes(w, w)
  BY KeepsReflexive
<1>3. Keeps(w, Redeemed(Spare(w, a), a)) /\ SameStakes(w, Redeemed(Spare(w, a), a))
  <2> DEFINE u == Spare(w, a)
  <2>1. Keeps(w, u) /\ SameStakes(w, u)
    BY <1>1, SpareKeeps, BecomesKeeps
  <2>2. Sound(u)
    BY <2>1 DEF Keeps, Ends
  <2>. HIDE DEF u
  <2>3. Keeps(u, Redeemed(u, a)) /\ SameStakes(u, Redeemed(u, a))
    BY <2>2, RedeemedKeeps
  <2>4. Ends(u, Redeemed(u, a))
    BY <2>3 DEF Keeps
  <2>. QED  BY <2>1, <2>3, <2>4, KeepsTransitive DEF u
<1>4. Keeps(w, ScheduleBanishment(w, a)) /\ SameStakes(w, ScheduleBanishment(w, a))
  BY <1>1, ScheduleBanishmentKeeps, BecomesKeeps
<1>. QED  BY <1>2, <1>3, <1>4 DEF Stirred

(***************************************************************************)
(* After a change of a balance the account delegates what it should, and   *)
(* the others what they did.                                               *)
(***************************************************************************)
LEMMA BalanceStakes ==
    ASSUME now \in Nat, NEW w, Sound(w), NEW a \in Accounts, ~IsEmpty(w.infos[a]),
           NEW h \in [coins : Int, delegated : Int]
    PROVE  LET v == OnBalanceChanged(w, a, h)
           IN  v.broken \/
                 \A c \in Accounts :
                    v.infos[c].lines["delegated"][0] =
                       IF c = a THEN h.delegated ELSE w.infos[c].lines["delegated"][0]
<1> DEFINE r == w.infos[a]
           m == Stirred(w, a, h)
           q == m.infos[a]
           x == [f \in Sums |-> Own(h)[f] - Balance(r)[f]]
           set == Accounted(w, a, h)
           v == OnBalanceChanged(w, a, h)
           c0 == Contribute(q, 0, x)
<1>1. /\ v = IF q.banished THEN set ELSE Climb(set, q.referrer, Depth, NoLink, Brings(x))
      /\ x \in Amounts /\ x.delegated = h.delegated - r.lines["delegated"][0]
      /\ r.lines["delegated"][0] \in Int /\ h.delegated \in Int
  <2>1. ~IsEmpty(r) /\ r.lines["delegated"][0] \in Int
    BY QuietFields
  <2>. QED  BY <2>1, BalanceChangedParts
<1>2. Keeps(w, m) /\ SameStakes(w, m)
  BY StirredKeeps
<1>3. set = Checked(m, a, c0)
  BY DEF Accounted
<1>. HIDE DEF m, x
<1>4. Sound(m) /\ m \in Worlds /\ m.infos \in [Accounts -> Records] /\ q \in Records
      /\ q.referrer \in Parents /\ q.lines["delegated"][0] \in Int
  <2>1. Sound(m)
    BY <1>2 DEF Keeps, Ends
  <2>. QED  BY <2>1, QuietFields
<1>. HIDE DEF q
<1>5. c0 \in Records /\ c0.lines["delegated"][0] = q.lines["delegated"][0] + x.delegated
  <2>1. InLine(0, x) \in LineSums /\ InLine(0, x)["delegated"][0] = x.delegated
    BY <1>1, BringsGains
  <2>2. /\ Adjust(q, InLine(0, x)) \in Records
        /\ \A f \in {"coins", "delegated"} :
             Adjust(q, InLine(0, x)).lines[f][0] = q.lines[f][0] + InLine(0, x)[f][0]
    BY <1>4, <2>1, AdjustRecord
  <2>. QED  BY <2>1, <2>2 DEF Contribute
<1>. HIDE DEF c0
<1>6. Writes(m, set, a, c0)
  BY <1>3, <1>4, <1>5, CheckedWrites
<1>7. Becomes(set, v, set.infos)
  <2> DEFINE p == q.referrer
             gain == Brings(x)
  <2>1. set \in Worlds
    BY <1>6 DEF Writes
  <2>2. gain \in Gains /\ NoLink \in Links
    BY <1>1, BringsGains, LinksOf
  <2>3. Depth \in 1..Depth /\ p \in Parents
    BY <1>4, Constants
  <2>. HIDE DEF set, gain, p
  <2>4. PICK check \in BOOLEAN : check = TRUE
    OBVIOUS
  <2>5. Becomes(set, ClimbIf(check, set, p, Depth, NoLink, gain), set.infos)
    BY <2>1, <2>2, <2>3, ClimbPlain
  <2>6. Becomes(set, Climb(set, p, Depth, NoLink, gain), set.infos)
    BY <2>4, <2>5 DEF Climb
  <2>7. Becomes(set, set, set.infos)
    BY <2>1, AlikeReflexive DEF Becomes
  <2>. QED  BY <1>1, <2>6, <2>7 DEF p, gain
<1>. HIDE DEF set, v
<1>8. SUFFICES ASSUME ~v.broken, NEW c \in Accounts
               PROVE  v.infos[c].lines["delegated"][0] =
                        IF c = a THEN h.delegated ELSE w.infos[c].lines["delegated"][0]
  BY DEF v
<1>9. ~set.broken /\ SameStake(set.infos[c], v.infos[c])
  BY <1>7, <1>8 DEF Becomes, Alike
<1>10. PICK q2 \in Records : Alike(c0, q2) /\ set.infos = [m.infos EXCEPT ![a] = q2]
  BY <1>6, <1>9 DEF Writes
<1>11. ~m.broken
  BY <1>6, <1>9 DEF Writes
<1>12. SameStake(w.infos[c], m.infos[c])
  BY <1>2, <1>11 DEF SameStakes
<1>13. CASE c = a
  <2>1. v.infos[a].lines["delegated"][0] = c0.lines["delegated"][0]
    BY <1>4, <1>9, <1>10, <1>13 DEF Alike, SameStake
  <2>2. q.lines["delegated"][0] = r.lines["delegated"][0]
    BY <1>12, <1>13 DEF SameStake, q
  <2>. HIDE DEF r
  <2>3. c0.lines["delegated"][0] = h.delegated
    BY <1>1, <1>4, <1>5, <2>2
  <2>. QED  BY <1>13, <2>1, <2>3
<1>14. CASE c # a
  <2>1. set.infos[c] = m.infos[c]
    BY <1>4, <1>10, <1>14
  <2>. QED  BY <1>9, <1>12, <1>14, <2>1 DEF SameStake
<1>. QED  BY <1>13, <1>14

(***************************************************************************)
(* A payment.                                                              *)
(***************************************************************************)
LEMMA PaidSteady ==
    ASSUME now \in Nat, Earned, NEW w, NEW X, NEW D, Steady(w, {}, X, D),
           NEW a \in Accounts, NEW x \in Nat, ~IsEmpty(w.infos[a]),
           ~w.broken => w.infos[a].lines["coins"][0] - w.infos[a].lines["delegated"][0] >= x
    PROVE  Steady(Paid(w, a, x), {}, X, D)
<1> DEFINE r == w.infos[a]
           b == Balance(r)
           h == [coins |-> b.coins - x, delegated |-> b.delegated]
           v == Paid(w, a, x)
<1>1. Sound(w) /\ Keeps(w, v)
  BY PaidKeeps DEF Steady, Calm
<1>2. Sound(v) /\ (w.broken => v.broken)
  BY <1>1 DEF Keeps, Ends
<1>3. CASE v.broken
  BY <1>2, <1>3 DEF Steady, Calm
<1>4. CASE ~v.broken /\ x = 0
  BY <1>4 DEF Paid
<1>5. CASE ~v.broken /\ x # 0
  <2>1. ~w.broken /\ Quiet(w, {}, X, D) /\ Holds(w, D) /\ Wealthy(r)
    BY <1>1, <1>2, <1>5, SoundFields DEF Steady, Calm
  <2>2. /\ b.coins = r.lines["coins"][0] /\ b.delegated = r.lines["delegated"][0]
        /\ r.lines["coins"][0] \in Int /\ r.lines["delegated"][0] \in Int
    BY <1>1, QuietFields, BalanceFields
  <2>3. v = OnBalanceChanged(w, a, h)
    BY <1>5 DEF Paid
  <2>4. h.delegated = r.lines["delegated"][0] /\ D[a] = h.delegated
    BY <2>1, <2>2 DEF Holds
  <2>5. /\ h \in [coins : Int, delegated : Int] /\ 0 <= h.delegated /\ h.delegated <= h.coins
    <3>1. r.lines["coins"][0] - r.lines["delegated"][0] >= x
      BY <2>1
    <3>2. h.coins = b.coins - x /\ h.delegated = b.delegated
      OBVIOUS
    <3>3. h \in [coins : Int, delegated : Int]
      <4>1. b.coins - x \in Int /\ b.delegated \in Int
        BY <2>2
      <4>. HIDE DEF b
      <4>. QED  BY <4>1
    <3>. HIDE DEF h, b, r
    <3>. QED  BY <2>1, <2>2, <3>1, <3>2, <3>3 DEF Wealthy
  <2>. HIDE DEF h
  <2>6. {} \subseteq Task(Handlers, Accounts) /\ Elsewhere(a, X, X, D, D)
    BY DEF Elsewhere
  <2>7. Changes(w, {}, X, D, D, a, h)
    BY <1>1, <2>1, <2>4, <2>5, <2>6 DEF Changes
  <2>8. Calm(v, {}, X, D)
    BY <2>3, <2>7, BalanceChangedQuiet
  <2>9. Holds(v, D)
    <3>1. \A c \in Accounts : v.infos[c].lines["delegated"][0] =
             IF c = a THEN h.delegated ELSE w.infos[c].lines["delegated"][0]
      BY <1>1, <1>5, <2>3, <2>5, BalanceStakes
    <3>. HIDE DEF v, r
    <3>. QED  BY <2>1, <2>4, <3>1 DEF Holds
  <2>. QED  BY <2>8, <2>9 DEF Steady
<1>. QED  BY <1>3, <1>4, <1>5

(***************************************************************************)
(* A task that is to be scheduled at the end of a handler may count before *)
(* as one that is still to run.                                            *)
(***************************************************************************)
LEMMA QuietMore ==
    ASSUME NEW w \in Worlds, NEW rest, NEW X, NEW D, Quiet(w, rest, X, D),
           NEW t, t.handler # "banish"
    PROVE  Quiet(w, rest \cup {t}, X, D)
<1>1. w.tasks \cup rest \subseteq w.tasks \cup (rest \cup {t})
  OBVIOUS
<1>2. ASSUME NEW c \in Accounts PROVE Timed(c, w.infos[c], w.tasks \cup (rest \cup {t}))
  <2>1. Timed(c, w.infos[c], w.tasks \cup rest)
    BY DEF Quiet
  <2>. QED  BY <1>1, <2>1, TimedMore
<1>3. BanishTasks(w.tasks \cup (rest \cup {t}), w.infos)
  BY DEF Quiet, BanishTasks
<1>. QED  BY <1>2, <1>3 DEF Quiet

LEMMA Delivered ==
    ASSUME NEW w \in Worlds, NEW rest, NEW X, NEW D, NEW time, NEW h, NEW a,
           Quiet(w, rest \cup {Timer(time, h, a)}, X, D), time > now
    PROVE  Quiet(Scheduled(w, time, h, a), rest, X, D)
<1> DEFINE t == Timer(time, h, a)
           v == Scheduled(w, time, h, a)
<1>1. v.tasks = w.tasks \cup {t} /\ v.index = w.index
  BY ScheduledStores
<1>2. v.infos = w.infos
  BY DEF Scheduled, Worlds
<1>3. t.time = time
  BY DEF Timer
<1>. HIDE DEF t, v
<1>4. v.tasks \cup rest = w.tasks \cup (rest \cup {t})
  BY <1>1
<1>5. ToCome(v.tasks)
  BY <1>1, <1>3 DEF ToCome, Quiet
<1>6. Quiet(w, rest \cup {t}, X, D)
  BY DEF t
<1>7. Quiet(v, rest, X, D)
  BY <1>1, <1>2, <1>4, <1>5, <1>6 DEF Quiet
<1>. QED  BY <1>7 DEF v

(***************************************************************************)
(* Who joins brings what his record says.                                  *)
(***************************************************************************)
LEMMA JoinedStakes ==
    ASSUME now \in Nat, NEW w \in Worlds, NEW a \in Accounts, NEW r \in Records,
           NEW x \in Amounts, NEW n \in 1..Depth, NEW p \in Parents
    PROVE  LET v == Joined(Update(w, a, r), a, p, x, n)
           IN  v.broken \/
                 \A c \in Accounts :
                    v.infos[c].lines["delegated"][0] =
                       IF c = a THEN r.lines["delegated"][0]
                       ELSE w.infos[c].lines["delegated"][0]
<1> DEFINE u == Update(w, a, r)
           link == [NoLink EXCEPT !.join = {a}]
           gain == Brings(x)
           v == Joined(u, a, p, x, n)
<1>1. u \in Worlds /\ u.infos = [w.infos EXCEPT ![a] = r] /\ w.infos \in [Accounts -> Records]
  BY UpdateWorld, WorldFields
<1>2. u.infos \in [Accounts -> Records]
  BY <1>1
<1>3. link \in Links /\ gain \in Gains
  BY LinksOf, BringsGains
<1>4. PICK check \in BOOLEAN : check = TRUE
  OBVIOUS
<1>5. v = ClimbIf(check, u, p, n, link, gain)
  BY <1>4 DEF Joined, Climb
<1>. HIDE DEF u, link, gain
<1>6. Becomes(u, v, Climbed(u.infos, p, link))
  BY <1>1, <1>3, <1>5, ClimbBecomes
<1>. HIDE DEF v
<1>7. ASSUME ~v.broken, NEW c \in Accounts
      PROVE  v.infos[c].lines["delegated"][0] = u.infos[c].lines["delegated"][0]
  <2>1. Alike(Climbed(u.infos, p, link)[c], v.infos[c])
    BY <1>6, <1>7 DEF Becomes
  <2>2. Climbed(u.infos, p, link)[c].lines = u.infos[c].lines
    BY <1>2, <1>3, LinkedRecord DEF Climbed
  <2>. QED  BY <2>1, <2>2 DEF Alike, SameStake
<1>8. \A c \in Accounts : u.infos[c] = IF c = a THEN r ELSE w.infos[c]
  BY <1>1
<1>. QED  BY <1>7, <1>8 DEF v, u

(***************************************************************************)
(* Who is unknown is above nobody else.                                    *)
(***************************************************************************)
LEMMA UnknownBelow ==
    ASSUME NEW f \in [Accounts -> Records], Tree(f), NEW a \in Accounts, IsEmpty(f[a]),
           NEW p \in Accounts, p # a
    PROVE  a \notin Over(f, p)
<1> DEFINE N == Cardinality(Accounts)
           s == Ancestors(f, p, N)
<1>1. HasParents(f) /\ p \in Parents
  BY InfoFields DEF HasParents, Records, Parents
<1>2. \A b \in Accounts : f[b].referrer # a
  <2>1. \A b \in Accounts : f[b].referrer # None => ~IsEmpty(f[f[b].referrer])
    BY DEF Tree
  <2>. QED  BY <2>1, Constants
<1>3. IsChain(f, p, N, s) /\ s \in Seq(Accounts)
  BY <1>1, AccountsCount, AncestorsValue DEF IsChain
<1>4. ASSUME a \in Over(f, p) PROVE FALSE
  <2>1. PICK k \in 1..Len(s) : s[k] = a
    BY <1>3, <1>4 DEF Over, Range
  <2>. HIDE DEF s
  <2>2. CASE k = 1
    BY <1>3, <2>1, <2>2 DEF IsChain
  <2>3. CASE k # 1
    <3>1. k - 1 \in 1..(Len(s) - 1) /\ k - 1 \in 1..Len(s) /\ (k - 1) + 1 = k
      BY <2>1, <2>3
    <3>2. f[s[k - 1]].referrer = s[k] /\ s[k - 1] \in Accounts
      BY <1>3, <3>1 DEF IsChain
    <3>. QED  BY <1>2, <2>1, <3>2
  <2>. QED  BY <2>2, <2>3
<1>. QED  BY <1>4

(***************************************************************************)
(* A newcomer waits for his compression.                                   *)
(***************************************************************************)
LEMMA NewcomerTerms ==
    ASSUME now \in Nat, NEW p \in Accounts, NEW h \in Holding, NEW a, NEW X, NEW x,
           NEW P, Timer(now + CompressionPeriod, "compression", a) \in P
    PROVE  LET r == [NewInfo(p, h) EXCEPT !.compressionAt = now + CompressionPeriod]
           IN  /\ r \in Records /\ r.status = 1 /\ r.banishmentAt = NoTime /\ ~r.banished
               /\ r.lines["delegated"][0] = h.delegated
               /\ Sane(a, r, X, x) /\ Timed(a, r, P) /\ Blank(r)
<1> DEFINE time == now + CompressionPeriod
           r == [NewInfo(p, h) EXCEPT !.compressionAt = time]
<1>1. time \in Nat /\ time \in Moments /\ time # NoTime /\ p \in Parents
  BY Constants DEF CompressionPeriod, Moments, Parents
<1>2. NewRecord(r, p, h)
  BY <1>1, NewInfoRecord
<1>3. r.compressionAt = time /\ r.banishmentAt = NoTime /\ r.transition = None
  BY DEF NewInfo, Empty
<1>. HIDE DEF r
<1>4. Sane(a, r, X, x) /\ Blank(r)
  BY <1>1, <1>2, <1>3 DEF Sane, Shut, Blank, IsEmpty, NewRecord
<1>5. Timed(a, r, P)
  BY <1>2, <1>3 DEF Timed, Armed, NewRecord
<1>6. r \in Records /\ r.status = 1 /\ r.banishmentAt = NoTime /\ ~r.banished
      /\ r.lines["delegated"][0] = h.delegated
  BY <1>2, <1>3 DEF NewRecord
<1>. QED  BY <1>4, <1>5, <1>6 DEF r

Newcomer(w, rest, X, D, p, a, h) ==
    /\ Steady(w, rest, X, D) /\ ~w.broken /\ rest \subseteq Task(Handlers, Accounts)
    /\ p \in Accounts /\ a \in Accounts /\ p # a
    /\ ~Exists(w.infos, a) /\ h \in Holding /\ h.delegated = 0
    /\ ~RegistrationClosed(w.infos[p])

(***************************************************************************)
(* CreateAccount.                                                          *)
(***************************************************************************)
LEMMA AppendedSteady ==
    ASSUME now \in Nat, Earned, NEW w, NEW rest, NEW X, NEW D, NEW p, NEW a, NEW h,
           Newcomer(w, rest, X, D, p, a, h)
    PROVE  LET v == AppendChild(w, p, a, h)
           IN  /\ Steady(Scheduled(v, now + CompressionPeriod, "compression", a), rest, X, D)
               /\ v.broken \/ ~IsEmpty(v.infos[a])
               /\ Calm(v, rest \cup {Timer(now + CompressionPeriod, "compression", a)}, X, D)
<1>. USE DEF Newcomer
<1> DEFINE f == w.infos
           time == now + CompressionPeriod
           t == Timer(time, "compression", a)
           more == rest \cup {t}
           r == [NewInfo(p, h) EXCEPT !.compressionAt = time]
           C == Over(f, p)
           v == Joined(Update(w, a, r), a, p, Own(h), Depth)
<1>1. w \in Worlds /\ f \in [Accounts -> Records] /\ Tree(f) /\ Sound(w)
  BY SoundFields DEF Steady, Calm
<1>2. Quiet(w, rest, X, D) /\ Holds(w, D)
  BY DEF Steady, Calm
<1>3. time \in Nat /\ time > now
  BY Constants DEF CompressionPeriod
<1>4. t \in Task(Handlers, Accounts) /\ t.handler # "banish"
  BY <1>3 DEF Timer, Task, Handlers
<1>5. f[a] = Empty /\ IsEmpty(f[a]) /\ f[a].status <= 1 /\ f[a].banishmentAt = NoTime
      /\ f[a].lines["delegated"][0] = 0
  <2>1. f[a] = Empty
    BY DEF Exists
  <2>. QED  BY <2>1, EmptyRecord DEF Empty
<1>6. /\ r \in Records /\ r.status = 1 /\ r.banishmentAt = NoTime /\ ~r.banished
      /\ r.lines["delegated"][0] = h.delegated
      /\ Sane(a, r, X, D[a]) /\ Timed(a, r, w.tasks \cup more) /\ Blank(r)
  BY NewcomerTerms
<1>7. HasParents(f) /\ p \in Parents /\ p # None /\ Acyclic(Referred(f))
  BY <1>1, InfoFields, Constants DEF HasParents, Records, Parents, Tree
<1>8. Within(f, C) /\ p \in C \cup {None} /\ a \notin C
  <2>1. a \notin C
    BY <1>1, <1>5, UnknownBelow
  <2>. QED  BY <1>7, <2>1, OverClosed DEF Within
<1>9. ~Shut(f[p])
  BY DEF RegistrationClosed, Shut
<1>. HIDE DEF t, r, C, time
<1>10. Quiet(w, more, X, D)
  BY <1>1, <1>2, <1>4, QuietMore
<1>11. Own(h) \in Amounts /\ Depth \in 1..Depth
  BY Constants DEF Own, Amounts, Sums, Holding
<1>12. more \subseteq Task(Handlers, Accounts)
  BY <1>4
<1>. HIDE DEF more
<1>13. Joins(w, more, X, X, D, D, a, r, C, p)
  <2>1. Elsewhere(a, X, X, D, D)
    BY DEF Elsewhere
  <2>. QED  BY <1>1, <1>5, <1>6, <1>8, <1>9, <1>10, <1>12, <2>1 DEF Joins
<1>14. v \in Worlds /\ (v.broken \/ (Quiet(v, more, X, D) /\ v.infos[a] = r))
  BY <1>11, <1>13, JoinQuiet
<1>15. v.broken \/ Holds(v, D)
  <2>1. v.broken \/
          \A c \in Accounts :
             v.infos[c].lines["delegated"][0] =
                IF c = a THEN r.lines["delegated"][0] ELSE w.infos[c].lines["delegated"][0]
    BY <1>1, <1>6, <1>7, <1>11, JoinedStakes
  <2>. QED  BY <1>2, <1>5, <1>6, <2>1 DEF Holds
<1>16. AppendChild(w, p, a, h) = v
  BY DEF AppendChild, r, time
<1>. HIDE DEF v
<1> DEFINE u == Scheduled(v, time, "compression", a)
<1>17. Sound(u) /\ (u.broken <=> v.broken) /\ u.infos = v.infos
  <2>1. Ends(w, v)
    BY <1>1, <1>16, AppendChildKeeps DEF Keeps
  <2>2. Ends(w, u)
    BY <1>3, <2>1, ScheduledEnds DEF Handlers
  <2>3. u.infos = v.infos /\ u.broken = v.broken
    BY <1>3, <1>14, ScheduledWorld DEF Handlers
  <2>. QED  BY <2>2, <2>3 DEF Ends
<1>18. v.broken \/ Quiet(u, rest, X, D)
  BY <1>3, <1>14, Delivered DEF more, t
<1>19. Steady(u, rest, X, D)
  BY <1>15, <1>17, <1>18 DEF Steady, Calm, Holds
<1>20. v.broken \/ ~IsEmpty(v.infos[a])
  BY <1>6, <1>14 DEF IsEmpty
<1>21. Calm(v, more, X, D)
  <2>1. Sound(v)
    BY <1>1, <1>16, AppendChildKeeps DEF Keeps, Ends
  <2>. QED  BY <1>14, <2>1 DEF Calm
<1>. QED  BY <1>16, <1>19, <1>20, <1>21 DEF time, more, t

ActivityRecord(r, active) ==
    [Contribute(r, 0, Delta(active)) EXCEPT !.active = active,
       !.compressionAt = IF active THEN NoTime ELSE now + CompressionPeriod]

\* What SetActive does when activity changes.
Activated(w, a, active, check) ==
    LET own == Update(w, a, ActivityRecord(w.infos[a], active))
    IN  ClimbIf(check, IF active THEN Spare(own, a) ELSE own, w.infos[a].referrer, Depth,
                Activity(a, active), Brings(Delta(active)))

LEMMA SetActiveParts ==
    ASSUME NEW w, NEW a, NEW active, NEW check
    PROVE  SetActive(w, a, active, check) =
             LET v == Activated(w, a, active, check)
             IN  IF w.infos[a].active = active THEN w
                 ELSE IF active \/ w.infos[a].referrer = None \/ v.broken THEN v
                 ELSE Scheduled(v, now + CompressionPeriod, "compression", a)
BY DEF SetActive, Activated, ActivityRecord

LEMMA ActivityParts ==
    ASSUME NEW a \in Accounts, NEW active \in BOOLEAN
    PROVE  Activity(a, active) \in Links /\ Brings(Delta(active)) \in Gains
<1>1. Delta(active) \in Amounts
  BY DEF Delta, Amounts, Sums
<1>2. Activity(a, active) \in Links
  BY LinksOf DEF Activity
<1>. QED  BY <1>1, <1>2, BringsGains

LEMMA ActivityFields ==
    ASSUME now \in Nat, NEW r \in Records, NEW active \in BOOLEAN
    PROVE  LET q == ActivityRecord(r, active)
           IN  /\ q \in Records /\ q.status = r.status /\ q.referrer = r.referrer
               /\ q.referrals = r.referrals /\ q.active = active /\ q.banished = r.banished
               /\ q.transition = r.transition /\ q.banishmentAt = r.banishmentAt
               /\ q.downgradeAt = r.downgradeAt
               /\ q.compressionAt = IF active THEN NoTime ELSE now + CompressionPeriod
<1> DEFINE d == InLine(0, Delta(active))
           u == Adjust(r, d)
           at == IF active THEN NoTime ELSE now + CompressionPeriod
           q == [u EXCEPT !.active = active, !.compressionAt = at]
<1>1. d \in LineSums
  <2>1. Delta(active) \in Amounts
    BY DEF Delta, Amounts, Sums
  <2>. QED  BY <2>1, BringsGains
<1>2. at \in Moments
  BY Constants DEF CompressionPeriod, Moments
<1>3. q = ActivityRecord(r, active)
  BY DEF ActivityRecord, Contribute
<1> DEFINE lines == u.lines
<1>. HIDE DEF d, at
<1>4. u \in Records /\ u = [r EXCEPT !.lines = lines] /\ r \in Info
  BY <1>1, AdjustRecord DEF Records
<1>. HIDE DEF u, lines
<1>5. /\ u.status = r.status /\ u.referrer = r.referrer /\ u.referrals = r.referrals
      /\ u.banished = r.banished /\ u.transition = r.transition
      /\ u.banishmentAt = r.banishmentAt /\ u.downgradeAt = r.downgradeAt
  BY <1>4 DEF Info
<1>6. /\ q \in Records /\ q.status = u.status /\ q.referrer = u.referrer
      /\ q.referrals = u.referrals /\ q.active = active /\ q.banished = u.banished
      /\ q.transition = u.transition /\ q.banishmentAt = u.banishmentAt
      /\ q.downgradeAt = u.downgradeAt /\ q.compressionAt = at
  BY <1>2, <1>4 DEF Records, Info
<1>. HIDE DEF q
<1>. QED  BY <1>3, <1>5, <1>6 DEF at

Rises(w, rest, X, D, a) ==
    /\ Sound(w) /\ ~w.broken /\ rest \subseteq Task(Handlers, Accounts)
    /\ Quiet(w, rest, X, D) /\ a \in Accounts
    /\ rest = {} \/ w.infos[a].banishmentAt = NoTime
    /\ ~w.infos[a].active /\ ~w.infos[a].banished /\ ~IsEmpty(w.infos[a])

(***************************************************************************)
(* Who becomes active is no longer to be compressed or banished.           *)
(***************************************************************************)
LEMMA RisenQuiet ==
    ASSUME now \in Nat, Earned, NEW w, NEW rest, NEW X, NEW D, NEW a, NEW check \in BOOLEAN,
           NEW active \in BOOLEAN, active, Rises(w, rest, X, D, a)
    PROVE  LET v == Activated(w, a, active, check)
           IN  v.broken \/ Quiet(v, rest, X \ {a}, D)
<1>. USE DEF Rises
<1> DEFINE r == w.infos[a]
           s == ActivityRecord(r, active)
           q == [s EXCEPT !.banishmentAt = NoTime]
           own == Update(w, a, s)
           spared == Spare(own, a)
           Y == X \ {a}
           v == ClimbIf(check, spared, r.referrer, Depth, Activity(a, active), Brings(Delta(active)))
<1>1. w \in Worlds /\ w.infos \in [Accounts -> Records] /\ r \in Records /\ r \in Info
      /\ Tree(w.infos)
  BY SoundFields DEF Records
<1>2. /\ s \in Records /\ s.status = r.status /\ s.referrer = r.referrer
      /\ s.referrals = r.referrals /\ s.active /\ s.banished = r.banished
      /\ s.transition = r.transition /\ s.banishmentAt = r.banishmentAt
      /\ s.downgradeAt = r.downgradeAt /\ s.compressionAt = NoTime
  BY <1>1, ActivityFields
<1>3. Activated(w, a, active, check) = v
  BY DEF Activated
<1>. HIDE DEF s
<1>4. /\ q \in Records /\ q.banishmentAt = NoTime /\ q.status = s.status
      /\ q.referrer = s.referrer /\ q.active = s.active /\ q.banished = s.banished
      /\ q.referrals = s.referrals /\ q.compressionAt = s.compressionAt
      /\ q.downgradeAt = s.downgradeAt /\ q.transition = s.transition
  <2>1. s \in Info /\ (s.downgradeAt # NoTime => s.status >= 1)
    BY <1>2 DEF Records
  <2>. HIDE DEF r
  <2>. QED  BY <2>1, NoBanishment
<1>5. /\ Frame(w, a, rest, Y, D) /\ BanishedAt(w, a, rest, r.banishmentAt)
      /\ IndexFits(w.index, w.infos) /\ Sane(a, r, X, D[a])
      /\ Timed(a, r, w.tasks \cup rest)
  <2>1. Elsewhere(a, Y, X, D, D)
    BY DEF Elsewhere
  <2>. HIDE DEF Y
  <2>. QED  BY <1>1, <2>1, FrameOf
<1>6. Sane(a, q, Y, D[a])
  BY <1>2, <1>4, <1>5 DEF Sane, Shut
<1>7. Timed(a, q, w.tasks \cup rest) /\ Blank(q)
  BY <1>2, <1>4, <1>5 DEF Timed, Armed, Blank, IsEmpty
<1>8. /\ own \in Worlds /\ own.infos[a] = s /\ ~own.broken /\ own.tasks = w.tasks
      /\ \A c \in Accounts \ {a} : own.infos[c] = w.infos[c]
      /\ IndexFits(own.index, own.infos)
  <2>1. own \in Worlds /\ own.infos = [w.infos EXCEPT ![a] = s] /\ own.broken = w.broken
    BY <1>1, <1>2, UpdateWorld
  <2>2. own.tasks = w.tasks /\ own.index = w.index
    BY <1>1, UpdateStores
  <2>3. IndexFits(w.index, [w.infos EXCEPT ![a] = s])
    BY <1>1, <1>2, <1>5, IndexLow
  <2>. HIDE DEF own
  <2>. QED  BY <1>1, <2>1, <2>2, <2>3
<1>9. Frame(own, a, rest, Y, D) /\ BanishedAt(own, a, rest, r.banishmentAt)
  <2>. HIDE DEF Y, r
  <2>. QED  BY <1>1, <1>2, <1>5, FrameUpdate
<1>10. q = [own.infos[a] EXCEPT !.banishmentAt = NoTime]
  BY <1>8
<1>. HIDE DEF own, q, Y
<1>11. /\ spared \in Worlds /\ ~spared.broken /\ Quiet(spared, rest, Y, D)
       /\ spared.infos[a] = q /\ \A c \in Accounts \ {a} : spared.infos[c] = w.infos[c]
  <2>1. Spares(own, rest, Y, D, a, q)
    BY <1>2, <1>4, <1>6, <1>7, <1>8, <1>9, <1>10 DEF Spares
  <2>2. /\ spared \in Worlds /\ (spared.broken => own.broken) /\ Quiet(spared, rest, Y, D)
        /\ spared.infos[a] = q /\ \A c \in Accounts \ {a} : spared.infos[c] = own.infos[c]
    BY <2>1, SpareQuiet
  <2>. QED  BY <1>8, <2>2
<1>. HIDE DEF spared
<1>12. Stands(w.infos, X, D, a, spared, rest, Y, D)
  <2>1. AllSane(w.infos, X, D)
    BY QuietSane
  <2>2. a \notin Over(w.infos, r.referrer) /\ Over(w.infos, r.referrer) \subseteq Accounts
    BY <1>1, OwnParent DEF Within
  <2>3. \A b \in Over(w.infos, r.referrer) : spared.infos[b] = w.infos[b]
    BY <1>11, <2>2
  <2>. QED  BY <1>1, <1>11, <2>1, <2>3 DEF Stands, Y
<1>13. v.broken \/ Quiet(v, rest, Y, D)
  <2>1. /\ Activity(a, active) \in Links /\ Brings(Delta(active)) \in Gains
        /\ Depth \in 1..Depth
    <3>1. a \in Accounts /\ active \in BOOLEAN
      OBVIOUS
    <3>2. Activity(a, active) \in Links /\ Brings(Delta(active)) \in Gains
      BY ONLY <3>1, ActivityParts
    <3>. QED  BY ONLY <3>2, Constants
  <2>. QED  BY <1>12, <2>1, ClimbOwn
<1>. QED  BY <1>3, <1>13 DEF Y

Falls(w, rest, X, D, a) ==
    /\ Sound(w) /\ ~w.broken /\ rest \subseteq Task(Handlers, Accounts)
    /\ Quiet(w, rest, X, D) /\ a \in Accounts /\ w.infos[a].active /\ ~IsEmpty(w.infos[a])

(***************************************************************************)
(* Who falls inactive is to be compressed, unless he is at the top.        *)
(***************************************************************************)
LEMMA FallenQuiet ==
    ASSUME now \in Nat, Earned, NEW w, NEW rest, NEW X, NEW D, NEW a, NEW check \in BOOLEAN,
           NEW active \in BOOLEAN, ~active, Falls(w, rest, X, D, a)
    PROVE  LET v == Activated(w, a, active, check)
           IN  v.broken \/
                 Quiet(IF w.infos[a].referrer = None THEN v
                       ELSE Scheduled(v, now + CompressionPeriod, "compression", a),
                       rest, X, D)
<1>. USE DEF Falls
<1> DEFINE r == w.infos[a]
           s == ActivityRecord(r, active)
           time == now + CompressionPeriod
           t == Timer(time, "compression", a)
           more == IF r.referrer = None THEN rest ELSE rest \cup {t}
           own == Update(w, a, s)
           v == ClimbIf(check, own, r.referrer, Depth, Activity(a, active), Brings(Delta(active)))
<1>1. w \in Worlds /\ w.infos \in [Accounts -> Records] /\ r \in Records /\ r \in Info
      /\ Tree(w.infos)
  BY SoundFields DEF Records
<1>2. /\ s \in Records /\ s.status = r.status /\ s.referrer = r.referrer
      /\ s.referrals = r.referrals /\ ~s.active /\ s.banished = r.banished
      /\ s.transition = r.transition /\ s.banishmentAt = r.banishmentAt
      /\ s.downgradeAt = r.downgradeAt /\ s.compressionAt = time
  BY <1>1, ActivityFields
<1>3. Activated(w, a, active, check) = v
  BY DEF Activated
<1>4. time \in Nat /\ time > now /\ time # NoTime
  BY Constants DEF CompressionPeriod
<1>5. t \in Task(Handlers, Accounts) /\ t.handler # "banish"
  BY <1>4 DEF Timer, Task, Handlers
<1>. HIDE DEF s, t, time
<1>6. Quiet(w, more, X, D) /\ more \subseteq Task(Handlers, Accounts)
      /\ rest \subseteq more /\ (r.referrer # None => t \in more)
  <2>1. Quiet(w, rest \cup {t}, X, D)
    BY <1>1, <1>5, QuietMore
  <2>. QED  BY <1>5, <2>1
<1>. HIDE DEF more
<1>7. /\ Frame(w, a, more, X, D) /\ BanishedAt(w, a, more, r.banishmentAt)
      /\ IndexFits(w.index, w.infos) /\ Sane(a, r, X, D[a])
      /\ Timed(a, r, w.tasks \cup more)
  <2>1. Elsewhere(a, X, X, D, D)
    BY DEF Elsewhere
  <2>. QED  BY <1>1, <1>6, <2>1, FrameOf
<1>8. Sane(a, s, X, D[a])
  BY <1>2, <1>4, <1>7 DEF Sane, Shut
<1>9. Timed(a, s, w.tasks \cup more) /\ Blank(s)
  BY <1>2, <1>6, <1>7 DEF Timed, Armed, Blank, IsEmpty, t
<1>10. Quiet(own, more, X, D)
  <2>1. IndexFits(w.index, [w.infos EXCEPT ![a] = s])
    BY <1>1, <1>2, <1>7, IndexLow
  <2>2. BanishedAt(w, a, more, s.banishmentAt)
    BY <1>2, <1>7
  <2>3. QuietBut(w, a, s, more, X, D)
    BY <1>1, <1>2, <1>6, <1>7, <1>8, <1>9, <2>1, <2>2, FrameBut
  <2>. QED  BY <1>1, <1>2, <1>9, <2>3, UpdateQuiet
<1>11. /\ own \in Worlds /\ own.infos[a] = s /\ ~own.broken
       /\ \A c \in Accounts \ {a} : own.infos[c] = w.infos[c]
  <2>1. own \in Worlds /\ own.infos = [w.infos EXCEPT ![a] = s] /\ own.broken = w.broken
    BY <1>1, <1>2, UpdateWorld
  <2>. HIDE DEF own
  <2>. QED  BY <1>1, <2>1
<1>. HIDE DEF own
<1>12. Stands(w.infos, X, D, a, own, more, X, D)
  <2>1. AllSane(w.infos, X, D)
    BY QuietSane
  <2>2. a \notin Over(w.infos, r.referrer) /\ Over(w.infos, r.referrer) \subseteq Accounts
    BY <1>1, OwnParent DEF Within
  <2>3. \A b \in Over(w.infos, r.referrer) : own.infos[b] = w.infos[b]
    BY <1>11, <2>2
  <2>4. ~r.banished
    BY <1>7 DEF Sane
  <2>. QED  BY <1>1, <1>6, <1>10, <1>11, <2>1, <2>3, <2>4 DEF Stands
<1>13. v \in Worlds /\ (v.broken \/ Quiet(v, more, X, D))
  BY <1>12, ClimbOwn, ActivityParts, Constants
<1>. HIDE DEF v
<1>14. CASE r.referrer = None
  BY <1>3, <1>13, <1>14 DEF more
<1>15. CASE r.referrer # None
  <2>1. v.broken \/ Quiet(v, rest \cup {Timer(time, "compression", a)}, X, D)
    BY <1>13, <1>15 DEF more, t
  <2>2. v.broken \/ Quiet(Scheduled(v, time, "compression", a), rest, X, D)
    BY <1>4, <1>13, <2>1, Delivered
  <2>. QED  BY <1>3, <1>15, <2>2 DEF time
<1>. QED  BY <1>14, <1>15

(***************************************************************************)
(* SetActive.                                                              *)
(***************************************************************************)
LEMMA ActivatedSteady ==
    ASSUME now \in Nat, Earned, NEW w, NEW rest, NEW X, NEW D, NEW a \in Accounts,
           NEW check \in BOOLEAN, NEW active \in BOOLEAN, active,
           Steady(w, rest, X, D), rest \subseteq Task(Handlers, Accounts),
           ~w.broken => /\ ~w.infos[a].banished /\ ~IsEmpty(w.infos[a])
                        /\ rest = {} \/ w.infos[a].banishmentAt = NoTime
    PROVE  Steady(SetActive(w, a, active, check), rest, X \ {a}, D)
<1> DEFINE v == SetActive(w, a, active, check)
<1>1. Sound(w) /\ Sound(v) /\ (w.broken => v.broken) /\ SameStakes(w, v)
  BY SetActiveKeeps DEF Steady, Calm, Keeps, Ends
<1>2. v.broken \/ Holds(v, D)
  BY <1>1, SameHolds DEF Steady
<1>3. ASSUME ~v.broken PROVE Quiet(v, rest, X \ {a}, D)
  <2>1. ~w.broken /\ Quiet(w, rest, X, D)
    BY <1>1, <1>3 DEF Steady, Calm
  <2>2. w.infos[a].active \in BOOLEAN
    BY <1>1, QuietFields, InfoFields DEF Records
  <2>3. CASE w.infos[a].active
    <3>1. v = w
      BY <2>2, <2>3, SetActiveParts
    <3>2. \A c \in Accounts : Sane(c, w.infos[c], X \ {a}, D[c])
      <4>1. \A c \in Accounts : Sane(c, w.infos[c], X, D[c])
        BY <2>1 DEF Quiet
      <4>. QED  BY <2>3, <4>1 DEF Sane, Shut
    <3>. QED  BY <2>1, <3>1, <3>2 DEF Quiet
  <2>4. CASE ~w.infos[a].active
    <3>1. Rises(w, rest, X, D, a)
      BY <1>1, <2>1, <2>4 DEF Rises
    <3>2. v = Activated(w, a, active, check)
      BY <2>2, <2>4, SetActiveParts
    <3>3. LET u == Activated(w, a, active, check) IN u.broken \/ Quiet(u, rest, X \ {a}, D)
      BY <3>1, RisenQuiet
    <3>. QED  BY <1>3, <3>2, <3>3
  <2>. QED  BY <2>3, <2>4
<1>. QED  BY <1>1, <1>2, <1>3 DEF Steady, Calm

LEMMA DeactivatedSteady ==
    ASSUME now \in Nat, Earned, NEW w, NEW rest, NEW X, NEW D, NEW a \in Accounts,
           NEW check \in BOOLEAN, NEW active \in BOOLEAN, ~active,
           Steady(w, rest, X, D), ~w.broken, rest \subseteq Task(Handlers, Accounts)
    PROVE  Steady(SetActive(w, a, active, check), rest, X, D)
<1> DEFINE v == SetActive(w, a, active, check)
           u == Activated(w, a, active, check)
<1>1. Sound(w) /\ Sound(v) /\ SameStakes(w, v)
  BY SetActiveKeeps DEF Steady, Calm, Keeps, Ends
<1>2. v.broken \/ Holds(v, D)
  BY <1>1, SameHolds DEF Steady
<1>3. ASSUME ~v.broken PROVE Quiet(v, rest, X, D)
  <2>1. Quiet(w, rest, X, D)
    BY DEF Steady, Calm
  <2>2. w.infos[a].active \in BOOLEAN
    BY <1>1, QuietFields, InfoFields DEF Records
  <2>3. CASE ~w.infos[a].active
    <3>1. v = w
      BY <2>2, <2>3, SetActiveParts
    <3>. QED  BY <2>1, <3>1
  <2>4. CASE w.infos[a].active
    <3>1. ~IsEmpty(w.infos[a])
      <4>1. Blank(w.infos[a])
        BY <2>1 DEF Quiet
      <4>. QED  BY <2>4, <4>1, BlankFields
    <3>2. Falls(w, rest, X, D, a)
      BY <1>1, <2>1, <2>4, <3>1 DEF Falls
    <3>3. v = IF w.infos[a].referrer = None \/ u.broken THEN u
              ELSE Scheduled(u, now + CompressionPeriod, "compression", a)
      BY <2>2, <2>4, SetActiveParts
    <3>4. u.broken \/ Quiet(IF w.infos[a].referrer = None THEN u
                            ELSE Scheduled(u, now + CompressionPeriod, "compression", a),
                            rest, X, D)
      BY <3>2, FallenQuiet
    <3>. QED  BY <1>3, <3>3, <3>4
  <2>. QED  BY <2>3, <2>4
<1>. QED  BY <1>1, <1>2, <1>3 DEF Steady, Calm

-----------------------------------------------------------------------------
(* Tasks.                                                                  *)

(***************************************************************************)
(* A task that has run matters to its account only.                        *)
(***************************************************************************)
LEMMA OthersTimed ==
    ASSUME NEW a, NEW c, a # c, NEW r, NEW P, Timed(c, r, P), NEW t, t.data = a
    PROVE  Timed(c, r, P \ {t})
<1>1. \A time, h : Timer(time, h, c).data = c
  BY DEF Timer
<1>2. \A time, h : Armed(P, time, h, c) => Armed(P \ {t}, time, h, c)
  BY <1>1 DEF Armed
<1>. QED  BY <1>2 DEF Timed

LEMMA FrameWithout ==
    ASSUME NEW w, NEW rest, NEW X, NEW D, NEW t, NEW a \in Accounts, t.data = a,
           Frame(w, a, rest, X, D)
    PROVE  /\ Frame(w, a, rest \ {t}, X, D)
           /\ \A b : BanishedAt(w, a, rest, b) => BanishedAt(w, a, rest \ {t}, b)
<1>1. ASSUME NEW c \in Accounts \ {a}
      PROVE  Timed(c, w.infos[c], w.tasks \cup (rest \ {t}))
  <2>1. Timed(c, w.infos[c], w.tasks \cup rest)
    BY DEF Frame
  <2>2. Timed(c, w.infos[c], (w.tasks \cup rest) \ {t})
    BY <2>1, OthersTimed
  <2>3. (w.tasks \cup rest) \ {t} \subseteq w.tasks \cup (rest \ {t})
    OBVIOUS
  <2>. QED  BY <2>2, <2>3, TimedMore
<1>2. w.tasks \cup (rest \ {t}) \subseteq w.tasks \cup rest
  OBVIOUS
<1>3. Frame(w, a, rest \ {t}, X, D)
  BY <1>1, <1>2 DEF Frame
<1>4. \A b : BanishedAt(w, a, rest, b) => BanishedAt(w, a, rest \ {t}, b)
  BY <1>2 DEF BanishedAt
<1>. QED  BY <1>3, <1>4

LEMMA QuietWithout ==
    ASSUME NEW w, NEW rest, NEW X, NEW D, Quiet(w, rest, X, D), NEW t, NEW a \in Accounts,
           t.data = a, Timed(a, w.infos[a], w.tasks \cup (rest \ {t}))
    PROVE  Quiet(w, rest \ {t}, X, D)
<1>1. ASSUME NEW c \in Accounts
      PROVE  Timed(c, w.infos[c], w.tasks \cup (rest \ {t}))
  <2>1. CASE c # a
    <3>1. Timed(c, w.infos[c], w.tasks \cup rest)
      BY DEF Quiet
    <3>2. Timed(c, w.infos[c], (w.tasks \cup rest) \ {t})
      BY <2>1, <3>1, OthersTimed
    <3>3. (w.tasks \cup rest) \ {t} \subseteq w.tasks \cup (rest \ {t})
      OBVIOUS
    <3>. QED  BY <3>2, <3>3, TimedMore
  <2>. QED  BY <2>1
<1>2. w.tasks \cup (rest \ {t}) \subseteq w.tasks \cup rest
  OBVIOUS
<1>3. BanishTasks(w.tasks \cup (rest \ {t}), w.infos)
  <2>1. BanishTasks(w.tasks \cup rest, w.infos)
    BY DEF Quiet
  <2>. QED  BY <1>2, <2>1 DEF BanishTasks
<1>. QED  BY <1>1, <1>3 DEF Quiet

\* Only the time for a task of the same kind, and only of the same time, waits
\* for t.
Waits(a, r, t) ==
    \/ t.handler = "compression" /\ r.referrer # None /\ r.compressionAt # NoTime
                                 /\ r.compressionAt = t.time
    \/ t.handler = "banish" /\ r.banishmentAt # NoTime /\ r.banishmentAt = t.time
    \/ t.handler = "downgrade" /\ r.downgradeAt # NoTime /\ r.downgradeAt = t.time
    \/ t.handler = "transition-timeout" /\ r.transition # None

LEMMA TimedWithout ==
    ASSUME NEW a, NEW r, NEW P, Timed(a, r, P), NEW t, ~Waits(a, r, t)
    PROVE  Timed(a, r, P \ {t})
<1>1. \A time, h : Timer(time, h, a).handler = h /\ Timer(time, h, a).time = time
  BY DEF Timer
<1>2. r.referrer # None => Armed(P \ {t}, r.compressionAt, "compression", a)
  BY <1>1 DEF Timed, Armed, Waits
<1>3. Armed(P \ {t}, r.banishmentAt, "banish", a)
  BY <1>1 DEF Timed, Armed, Waits
<1>4. Armed(P \ {t}, r.downgradeAt, "downgrade", a)
  BY <1>1 DEF Timed, Armed, Waits
<1>5. r.transition # None =>
        \E u \in P \ {t} :
           u.handler = "transition-timeout" /\ u.data = a /\ u.time <= now + Day
  BY DEF Timed, Waits
<1>. QED  BY <1>2, <1>3, <1>4, <1>5 DEF Timed

\* The same in the form of the lemmas above.
LEMMA TimedRest ==
    ASSUME NEW a, NEW r, NEW P, NEW rest, NEW t, ~Waits(a, r, t), Timed(a, r, P \cup rest)
    PROVE  Timed(a, r, P \cup (rest \ {t}))
<1>1. Timed(a, r, (P \cup rest) \ {t})
  BY TimedWithout
<1>2. (P \cup rest) \ {t} \subseteq P \cup (rest \ {t})
  OBVIOUS
<1>. QED  BY <1>1, <1>2, TimedMore

(***************************************************************************)
(* A task nobody waits for.                                                *)
(***************************************************************************)
LEMMA IdleQuiet ==
    ASSUME NEW w, NEW rest, NEW X, NEW D, Quiet(w, rest, X, D), NEW t, NEW a \in Accounts,
           t.data = a, ~Waits(a, w.infos[a], t)
    PROVE  Quiet(w, rest \ {t}, X, D)
<1>1. Timed(a, w.infos[a], w.tasks \cup rest)
  BY DEF Quiet
<1>2. Timed(a, w.infos[a], w.tasks \cup (rest \ {t}))
  BY <1>1, TimedRest
<1>. QED  BY <1>2, QuietWithout

LEMMA QuietSet ==
    ASSUME NEW w \in Worlds, NEW rest, NEW X, NEW D, NEW a \in Accounts, NEW r \in Records,
           rest \subseteq Task(Handlers, Accounts),
           Frame(w, a, rest, X, D), BanishedAt(w, a, rest, r.banishmentAt),
           w.infos[a] = r, IndexFits(w.index, w.infos),
           Sane(a, r, X, D[a]), Timed(a, r, w.tasks \cup rest), Blank(r)
    PROVE  Quiet(w, rest, X, D)
<1>1. ASSUME NEW c \in Accounts
      PROVE  /\ Blank(w.infos[c]) /\ Sane(c, w.infos[c], X, D[c])
             /\ Timed(c, w.infos[c], w.tasks \cup rest)
  <2>1. CASE c = a
    BY <2>1
  <2>2. CASE c # a
    BY <2>2 DEF Frame
  <2>. QED  BY <2>1, <2>2
<1>2. BanishTasks(w.tasks \cup rest, w.infos)
  BY DEF BanishTasks, Frame, BanishedAt
<1>. QED  BY <1>1, <1>2 DEF Quiet, Frame

-----------------------------------------------------------------------------
(* Compression.                                                            *)

Bared(w, a) == Update(SetIndex(w, a, w.infos[a].status, 1), a, Bare(w.infos[a]))

Forsaken(w, a) ==
    IF w.infos[a].lines["delegated"][0] <= Dust THEN ScheduleBanishment(Bared(w, a), a)
    ELSE Bared(w, a)

Risen(u, R, p) ==
    [u EXCEPT !.infos = [c \in Accounts |-> IF c \in R THEN [u.infos[c] EXCEPT !.referrer = p]
                                            ELSE u.infos[c]]]

\* The task t compresses a.
Compresses(w, rest, X, D, a, t) ==
    /\ Sound(w) /\ ~w.broken /\ rest \subseteq Task(Handlers, Accounts)
    /\ Quiet(w, rest, X, D) /\ Holds(w, D) /\ a \in Accounts
    /\ t.handler = "compression" /\ t.data = a
    /\ w.infos[a].referrer # None
    /\ w.infos[a].compressionAt # NoTime /\ w.infos[a].compressionAt <= now

LEMMA BareTerms ==
    ASSUME NEW r \in Records
    PROVE  /\ Bare(r).compressionAt = NoTime /\ Bare(r).banishmentAt = r.banishmentAt
           /\ Bare(r).transition = r.transition /\ Bare(r).downgradeAt = r.downgradeAt
           /\ Bare(r).lines["delegated"][0] = r.lines["delegated"][0]
<1>1. r \in Info /\ SameStake(r, Bare(r))
  BY BareRecord DEF Records
<1> DEFINE lines == Bare(r).lines
<1>2. Bare(r) = [r EXCEPT !.referrals = {}, !.activeReferrals = {}, !.compressionAt = NoTime,
                          !.status = 1, !.lines = lines]
  BY DEF Bare
<1>. HIDE DEF lines
<1>3. LET q == [r EXCEPT !.referrals = {}, !.activeReferrals = {}, !.compressionAt = NoTime,
                          !.status = 1, !.lines = lines]
      IN  /\ q.compressionAt = NoTime /\ q.banishmentAt = r.banishmentAt
          /\ q.transition = r.transition /\ q.downgradeAt = r.downgradeAt
  BY <1>1 DEF Info
<1>. QED  BY <1>1, <1>2, <1>3 DEF SameStake

\* In b the account a has been laid bare.
LaidBare(w, b, rest, X, D, a, q) ==
    /\ b \in Worlds /\ ~b.broken /\ b.infos[a] = q
    /\ \A c \in Accounts \ {a} : b.infos[c] = w.infos[c]
    /\ Frame(b, a, rest, X, D) /\ IndexFits(b.index, b.infos)
    /\ BanishedAt(b, a, rest, q.banishmentAt)
    /\ Timed(a, q, b.tasks \cup rest) /\ Blank(q)
    /\ q \in Records /\ q.referrals = {} /\ q.referrer # None
    /\ ~q.banished /\ ~q.active /\ q.status = 1 /\ q.compressionAt = NoTime
    /\ q.banishmentAt # NoTime => D[a] <= Dust /\ q.banishmentAt = now + Month

LEMMA BaredFrame ==
    ASSUME now \in Nat, NEW w, NEW rest, NEW X, NEW D, NEW a, NEW t,
           Compresses(w, rest, X, D, a, t)
    PROVE  LaidBare(w, Bared(w, a), rest \ {t}, X, D, a, Bare(w.infos[a]))
<1>. USE DEF Compresses
<1> DEFINE r == w.infos[a]
           i == SetIndex(w, a, r.status, 1)
           b == Bared(w, a)
           q == Bare(r)
           less == rest \ {t}
<1>1. /\ w \in Worlds /\ w.infos \in [Accounts -> Records] /\ r \in Records
  BY SoundFields
<1>2. /\ Frame(w, a, rest, X, D) /\ BanishedAt(w, a, rest, r.banishmentAt)
      /\ IndexFits(w.index, w.infos) /\ Blank(r) /\ Sane(a, r, X, D[a])
      /\ Timed(a, r, w.tasks \cup rest)
  <2>1. Elsewhere(a, X, X, D, D)
    BY DEF Elsewhere
  <2>. QED  BY <1>1, <2>1, FrameOf
<1>3. ~r.active /\ ~r.banished
      /\ (r.banishmentAt # NoTime => D[a] <= Dust /\ r.banishmentAt = now + Month)
  BY <1>2 DEF Sane, Expelled
<1>4. /\ q \in Records /\ q.referrals = {} /\ q.referrer = r.referrer
      /\ q.banished = r.banished /\ q.active = r.active /\ q.status = 1
      /\ q.compressionAt = NoTime /\ q.banishmentAt = r.banishmentAt
      /\ q.transition = r.transition /\ q.downgradeAt = r.downgradeAt
  BY <1>1, BareRecord, BareTerms
<1>. HIDE DEF q
<1>5. i \in Worlds /\ i.infos = w.infos /\ i.broken = w.broken /\ i.tasks = w.tasks
  <2>1. 1 \in 0..MaxStatus
    BY Constants
  <2>. QED  BY <1>1, <2>1, SetIndexWorld, SetIndexStores
<1>6. b = Update(i, a, q)
  BY DEF Bared, q
<1>7. /\ b \in Worlds /\ b.infos = [w.infos EXCEPT ![a] = q] /\ ~b.broken
      /\ b.tasks = w.tasks /\ b.index = i.index
  <2>. HIDE DEF i, b
  <2>. QED  BY <1>4, <1>5, <1>6, UpdateWorld, UpdateStores
<1>8. b.infos[a] = q /\ \A c \in Accounts \ {a} : b.infos[c] = w.infos[c]
  BY <1>1, <1>7
<1>9. IndexFits(b.index, b.infos)
  <2>1. 1 \in 0..MaxStatus
    BY Constants
  <2>2. \A c \in Accounts \ {a} : b.infos[c].status = w.infos[c].status
    BY <1>8
  <2>. HIDE DEF b
  <2>3. IndexFits(i.index, b.infos)
    BY <1>1, <1>2, <1>4, <1>8, <2>1, <2>2, SetIndexFits
  <2>. QED  BY <1>7, <2>3
<1>. HIDE DEF i, b
<1>10. Frame(w, a, less, X, D) /\ BanishedAt(w, a, less, r.banishmentAt)
  <2>. HIDE DEF r
  <2>. QED  BY <1>2, FrameWithout
<1>11. Timed(a, q, b.tasks \cup less)
  <2>1. Timed(a, q, w.tasks \cup rest)
    BY <1>2, <1>4 DEF Timed, Armed
  <2>2. ~Waits(a, q, t)
    BY <1>4 DEF Waits
  <2>3. Timed(a, q, w.tasks \cup less)
    BY <2>1, <2>2, TimedRest
  <2>. QED  BY <1>7, <2>3
<1>12. Frame(b, a, less, X, D) /\ BanishedAt(b, a, less, r.banishmentAt)
  <2>. HIDE DEF r, less
  <2>1. \A u \in b.tasks \cup less : u.data \in Accounts
    <3>1. less \subseteq Task(Handlers, Accounts)
      BY DEF less
    <3>. QED  BY <1>7, <3>1, WorldFields DEF Task
  <2>2. BanishedAt(b, a, less, r.banishmentAt)
    BY <1>7, <1>10 DEF BanishedAt
  <2>3. Frame(b, a, less, X, D)
    BY <1>7, <1>8, <1>10, <2>1 DEF Frame
  <2>. QED  BY <2>2, <2>3
<1>13. Blank(q)
  BY <1>4 DEF Blank, IsEmpty
<1>14. BanishedAt(b, a, less, q.banishmentAt)
  BY <1>4, <1>12
<1>15. LaidBare(w, b, less, X, D, a, q)
  BY <1>3, <1>4, <1>7, <1>8, <1>9, <1>11, <1>12, <1>13, <1>14 DEF LaidBare
<1>. QED  BY <1>15 DEF b, less, q

\* Only the record of a differs.
Apart(w, v, a, rest, X, D) ==
    /\ v \in Worlds /\ ~v.broken /\ Quiet(v, rest, X, D)
    /\ \A c \in Accounts \ {a} : v.infos[c] = w.infos[c]

(***************************************************************************)
(* Who is compressed and delegates no more than dust is to be banished.    *)
(***************************************************************************)
LEMMA ForsakenQuiet ==
    ASSUME now \in Nat, NEW w, NEW rest, NEW X, NEW D, NEW a, NEW t,
           Compresses(w, rest, X, D, a, t)
    PROVE  Apart(w, Forsaken(w, a), a, rest \ {t}, X, D)
<1> DEFINE r == w.infos[a]
           b == Bared(w, a)
           q == Bare(r)
           less == rest \ {t}
           v == Forsaken(w, a)
<1>1. /\ b \in Worlds /\ ~b.broken /\ b.infos[a] = q
      /\ \A c \in Accounts \ {a} : b.infos[c] = w.infos[c]
      /\ Frame(b, a, less, X, D) /\ IndexFits(b.index, b.infos)
      /\ BanishedAt(b, a, less, q.banishmentAt)
      /\ Timed(a, q, b.tasks \cup less) /\ Blank(q)
      /\ q \in Records /\ q.referrals = {} /\ q.referrer # None
      /\ ~q.banished /\ ~q.active /\ q.status = 1 /\ q.compressionAt = NoTime
      /\ q.banishmentAt # NoTime => D[a] <= Dust /\ q.banishmentAt = now + Month
  <2>1. LaidBare(w, b, less, X, D, a, q)
    BY BaredFrame
  <2>. HIDE DEF b, q, less
  <2>. QED  BY <2>1 DEF LaidBare
<1>2. D[a] = r.lines["delegated"][0] /\ less \subseteq Task(Handlers, Accounts) /\ a \in Accounts
  BY DEF Holds, Compresses
<1>3. v = IF r.lines["delegated"][0] <= Dust THEN ScheduleBanishment(b, a) ELSE b
  BY DEF Forsaken
<1>. HIDE DEF b, q, v, less
<1>4. CASE ~(D[a] <= Dust)
  <2>1. v = b
    BY <1>2, <1>3, <1>4
  <2>2. Sane(a, q, X, D[a])
    BY <1>1, <1>4 DEF Sane, Shut
  <2>3. BanishedAt(b, a, less, q.banishmentAt)
    BY <1>1
  <2>4. Quiet(b, less, X, D)
    BY <1>1, <1>2, <2>2, <2>3, QuietSet
  <2>. QED  BY <1>1, <2>1, <2>4 DEF less, v, Apart
<1>5. CASE D[a] <= Dust
  <2> DEFINE time == now + Month
             s == [q EXCEPT !.banishmentAt = time]
  <2>1. v = ScheduleBanishment(b, a)
    BY <1>2, <1>3, <1>5
  <2>2. time \in Nat /\ time \in Moments
    BY Constants DEF Moments
  <2>3. BanishedAt(b, a, less, time)
    <3>1. CASE q.banishmentAt = NoTime
      <4>1. \A u \in b.tasks \cup less : u.time \in Nat
        BY <1>1, <1>2, WorldFields DEF Task
      <4>. QED  BY <1>1, <3>1, <4>1, Constants DEF BanishedAt
    <3>2. CASE q.banishmentAt # NoTime
      BY <1>1, <3>2
    <3>. QED  BY <3>1, <3>2
  <2>. HIDE DEF time
  <2>4. /\ s \in Records /\ s.banishmentAt = time /\ s.status = q.status
        /\ s.referrer = q.referrer /\ s.active = q.active /\ s.banished = q.banished
        /\ s.referrals = q.referrals /\ s.compressionAt = q.compressionAt
        /\ s.downgradeAt = q.downgradeAt /\ s.transition = q.transition
    BY <1>1, <2>2 DEF Records, Info
  <2>5. LET n == [s EXCEPT !.banishmentAt = NoTime]
        IN  /\ n.banishmentAt = NoTime /\ n.referrer = q.referrer
            /\ n.compressionAt = q.compressionAt /\ n.downgradeAt = q.downgradeAt
            /\ n.transition = q.transition
    BY <1>1, <2>4 DEF Records, Info
  <2>6. s = [b.infos[a] EXCEPT !.banishmentAt = time]
    BY <1>1
  <2>. HIDE DEF s
  <2>7. Sane(a, s, X, D[a])
    <3>1. time # NoTime
      BY <2>2, Constants
    <3>2. Expelled(s, D[a])
      BY <1>1, <1>5, <2>4 DEF Expelled
    <3>. QED  BY <1>1, <1>5, <2>4, <3>1, <3>2 DEF Sane, Shut
  <2>8. Timed(a, [s EXCEPT !.banishmentAt = NoTime], b.tasks \cup less)
    BY <1>1, <2>5 DEF Timed, Armed
  <2>9. Blank(s)
    BY <1>1, <2>4 DEF Blank, IsEmpty
  <2>10. BanishedAt(b, a, less, now + Month) /\ s = [b.infos[a] EXCEPT !.banishmentAt = now + Month]
    BY <2>3, <2>6 DEF time
  <2>11. Announces(b, less, X, D, a, s)
    BY <1>1, <1>2, <2>4, <2>7, <2>8, <2>9, <2>10 DEF Announces
  <2>12. /\ v \in Worlds /\ (v.broken => b.broken) /\ Quiet(v, less, X, D)
         /\ \A c \in Accounts \ {a} : v.infos[c] = b.infos[c]
    BY <2>1, <2>11, ScheduleQuiet
  <2>. QED  BY <1>1, <2>12 DEF less, v, Apart
<1>. QED  BY <1>4, <1>5 DEF v

\* The same record under another referrer.
Rehung(r, q) ==
    /\ q.status = r.status /\ q.active = r.active /\ q.banished = r.banished
    /\ q.transition = r.transition \/ q.transition = None
    /\ q.compressionAt = r.compressionAt /\ q.banishmentAt = r.banishmentAt
    /\ q.downgradeAt = r.downgradeAt /\ q.referrals = r.referrals
    /\ r.referrer # None /\ q.referrer # None

LEMMA RehungFits ==
    ASSUME NEW a, NEW r, NEW q, Rehung(r, q), NEW P, NEW X, NEW x,
           Blank(r), Sane(a, r, X, x), Timed(a, r, P)
    PROVE  Blank(q) /\ Sane(a, q, X, x) /\ Timed(a, q, P)
<1>1. ~IsEmpty(r)
  BY BlankFields DEF Rehung
<1>2. Blank(q)
  BY <1>1 DEF Blank, IsEmpty, Rehung
<1>3. Sane(a, q, X, x)
  BY DEF Sane, Shut, Expelled, Rehung
<1>4. Timed(a, q, P)
  BY DEF Timed, Rehung
<1>. QED  BY <1>2, <1>3, <1>4

Rehangs(u, v, rest) ==
    /\ u \in Worlds /\ v \in Worlds /\ rest \subseteq Task(Handlers, Accounts)
    /\ v.tasks = u.tasks /\ v.index = u.index
    /\ \A c \in Accounts : v.infos[c] = u.infos[c] \/ Rehung(u.infos[c], v.infos[c])

LEMMA RehungQuiet ==
    ASSUME NEW u, NEW v, NEW rest, NEW X, NEW D, Rehangs(u, v, rest), Quiet(u, rest, X, D)
    PROVE  Quiet(v, rest, X, D)
<1>. USE DEF Rehangs
<1>1. ASSUME NEW c \in Accounts
      PROVE  /\ Blank(v.infos[c]) /\ Sane(c, v.infos[c], X, D[c])
             /\ Timed(c, v.infos[c], v.tasks \cup rest)
  <2>1. /\ Blank(u.infos[c]) /\ Sane(c, u.infos[c], X, D[c])
        /\ Timed(c, u.infos[c], u.tasks \cup rest)
    BY DEF Quiet
  <2>2. CASE v.infos[c] = u.infos[c]
    BY <2>1, <2>2
  <2>3. CASE Rehung(u.infos[c], v.infos[c])
    BY <2>1, <2>3, RehungFits
  <2>. QED  BY <2>2, <2>3
<1>2. \A c \in Accounts : /\ v.infos[c].status = u.infos[c].status
                          /\ v.infos[c].banishmentAt = u.infos[c].banishmentAt
  BY DEF Rehung
<1>3. IndexFits(v.index, v.infos)
  <2>1. IndexFits(u.index, u.infos)
    BY DEF Quiet
  <2>. QED  BY <1>2, <2>1 DEF IndexFits
<1>4. BanishTasks(v.tasks \cup rest, v.infos)
  <2>1. BanishTasks(u.tasks \cup rest, u.infos)
    BY DEF Quiet
  <2>2. \A t \in u.tasks \cup rest : t.data \in Accounts
    BY WorldFields DEF Task
  <2>. QED  BY <1>2, <2>1, <2>2 DEF BanishTasks
<1>5. ToCome(v.tasks)
  BY DEF Quiet
<1>. QED  BY <1>1, <1>3, <1>4, <1>5 DEF Quiet

(***************************************************************************)
(* The referrals of an account move up.                                    *)
(***************************************************************************)
LEMMA ReferralsRisen ==
    ASSUME NEW w, Sound(w), ~w.broken, NEW a \in Accounts, w.infos[a].referrer # None,
           NEW u \in Worlds, ~u.broken, NEW rest, NEW X, NEW D,
           \A c \in Accounts \ {a} : u.infos[c] = w.infos[c],
           rest \subseteq Task(Handlers, Accounts), Quiet(u, rest, X, D)
    PROVE  LET v == Risen(u, w.infos[a].referrals, w.infos[a].referrer)
           IN  /\ v \in Worlds /\ ~v.broken /\ Quiet(v, rest, X, D)
               /\ \A c \in Over(w.infos, w.infos[a].referrer) : v.infos[c] = w.infos[c]
<1> DEFINE f == w.infos
           R == f[a].referrals
           p == f[a].referrer
           g == [c \in Accounts |-> IF c \in R THEN [u.infos[c] EXCEPT !.referrer = p]
                                    ELSE u.infos[c]]
           v == Risen(u, R, p)
           C == Over(f, p)
<1>1. f \in [Accounts -> Records] /\ Tree(f) /\ p \in Accounts /\ u.infos \in [Accounts -> Records]
  <2>1. f \in [Accounts -> Records] /\ Tree(f)
    BY SoundFields
  <2>2. p \in Parents
    BY <2>1, OwnParent
  <2>. QED  BY <2>1, <2>2, WorldFields DEF Parents
<1>2. R = {b \in Accounts : ~f[b].banished /\ f[b].referrer = a}
  BY <1>1 DEF Tree
<1>3. Within(f, C) /\ a \notin C /\ C \subseteq Accounts
  BY <1>1, OwnParent DEF Within
<1>4. a \notin R /\ \A c \in C : c \notin R /\ c # a
  <2>1. ASSUME a \in R PROVE FALSE
    <3>1. p = a /\ p \in C \cup {None}
      BY <1>1, <1>2, <2>1, OwnParent
    <3>. QED  BY <1>3, <3>1, Constants
  <2>2. ASSUME NEW c \in C, c \in R PROVE FALSE
    <3>1. f[c].referrer = a
      BY <1>2, <2>2
    <3>2. f[c].referrer \in C \cup {None}
      BY <1>3 DEF Within
    <3>. QED  BY <1>3, <3>1, <3>2, Constants
  <2>. QED  BY <1>3, <2>1, <2>2
<1>5. v = [u EXCEPT !.infos = g]
  BY DEF Risen
<1>. HIDE DEF v, p, R, C
<1>6. ASSUME NEW c \in Accounts
      PROVE  /\ g[c] \in Records
             /\ g[c] = u.infos[c] \/ Rehung(u.infos[c], g[c])
             /\ c \notin R => g[c] = u.infos[c]
  <2>1. CASE c \notin R
    BY <1>1, <2>1
  <2>2. CASE c \in R
    <3> DEFINE r == u.infos[c]
               q == [r EXCEPT !.referrer = p]
    <3>1. g[c] = q
      BY <2>2
    <3>2. r \in Records /\ p \in Accounts
      BY <1>1
    <3>3. r.referrer # None
      <4>1. c # a /\ f[c].referrer = a
        BY <1>2, <1>4, <2>2
      <4>. QED  BY <4>1, Constants
    <3>. HIDE DEF g, r
    <3>4. p # None
      BY <3>2, Constants
    <3>5. q \in Records /\ Rehung(r, q)
      BY <3>2, <3>3, <3>4 DEF Records, Info, Rehung
    <3>. QED  BY <2>2, <3>1, <3>5 DEF r
  <2>. QED  BY <2>1, <2>2
<1>7. g \in [Accounts -> Records]
  <2>1. g = [c \in Accounts |-> g[c]]
    OBVIOUS
  <2>. HIDE DEF g
  <2>. QED  BY <1>6, <2>1
<1>. HIDE DEF g
<1>8. /\ v \in Worlds /\ v.infos = g /\ ~v.broken
      /\ v.tasks = u.tasks /\ v.index = u.index
  BY <1>5, <1>7 DEF Worlds
<1>9. Quiet(v, rest, X, D)
  <2>1. Rehangs(u, v, rest)
    BY <1>6, <1>8 DEF Rehangs
  <2>. QED  BY <2>1, RehungQuiet
<1>10. \A c \in C : v.infos[c] = f[c]
  BY <1>3, <1>4, <1>6, <1>8
<1>. QED  BY <1>8, <1>9, <1>10 DEF v, C, p, R

(***************************************************************************)
(* Compress.                                                               *)
(***************************************************************************)
LEMMA CompressedQuiet ==
    ASSUME now \in Nat, Earned, NEW w, NEW rest, NEW X, NEW D, NEW a, NEW t,
           Compresses(w, rest, X, D, a, t)
    PROVE  LET v == Compress(w, a) IN v.broken \/ Quiet(v, rest \ {t}, X, D)
<1> DEFINE r == w.infos[a]
           u == Forsaken(w, a)
           moved == Risen(u, r.referrals, r.referrer)
           less == rest \ {t}
           v == Climb(moved, r.referrer, Depth, Promotions(r), Risings(r))
<1>1. /\ Sound(w) /\ ~w.broken /\ Quiet(w, rest, X, D) /\ a \in Accounts
      /\ r.referrer # None /\ less \subseteq Task(Handlers, Accounts)
      /\ r.compressionAt # NoTime
  BY DEF Compresses
<1>2. w.infos \in [Accounts -> Records] /\ Tree(w.infos) /\ r \in Records
  BY <1>1, SoundFields
<1>3. Compress(w, a) = v
  BY DEF Compress, Forsaken, Bared, Risen, Promotions, Risings
<1>4. /\ u \in Worlds /\ ~u.broken /\ Quiet(u, less, X, D)
      /\ \A c \in Accounts \ {a} : u.infos[c] = w.infos[c]
  <2>1. now \in Nat /\ Compresses(w, rest, X, D, a, t)
    OBVIOUS
  <2>2. Apart(w, Forsaken(w, a), a, rest \ {t}, X, D)
    BY ONLY <2>1, ForsakenQuiet
  <2>. QED  BY <2>2 DEF Apart
<1>. HIDE DEF u, less
<1>5. /\ moved \in Worlds /\ ~moved.broken /\ Quiet(moved, less, X, D)
      /\ \A c \in Over(w.infos, r.referrer) : moved.infos[c] = w.infos[c]
  BY <1>1, <1>4, ReferralsRisen
<1>. HIDE DEF moved
<1>6. Stands(w.infos, X, D, a, moved, less, X, D)
  <2>1. AllSane(w.infos, X, D)
    BY <1>1, QuietSane
  <2>2. ~r.banished
    <3>1. Sane(a, r, X, D[a])
      BY <1>1 DEF Quiet
    <3>. QED  BY <1>1, <3>1 DEF Sane
  <2>. QED  BY <1>1, <1>2, <1>5, <2>1, <2>2 DEF Stands
<1>7. v.broken \/ Quiet(v, less, X, D)
  <2>1. Promotions(r) \in Links /\ Risings(r) \in Gains /\ Depth \in 1..Depth
    BY <1>2, RisingsGains, Constants
  <2>. QED  BY <1>6, <2>1, ClimbChecked
<1>. QED  BY <1>3, <1>7 DEF less

(***************************************************************************)
(* The task of a compression.                                              *)
(***************************************************************************)
LEMMA PerformCompressionSteady ==
    ASSUME now \in Nat, Earned, NEW w, NEW rest, NEW X, NEW D, NEW a \in Accounts,
           Steady(w, rest, X, D), ~w.broken, rest \subseteq Task(Handlers, Accounts),
           NEW t, t.handler = "compression", t.data = a, t.time <= now
    PROVE  Steady(PerformCompression(w, a), rest \ {t}, X, D)
<1> DEFINE r == w.infos[a]
           v == PerformCompression(w, a)
<1>1. Sound(w) /\ Sound(v) /\ SameStakes(w, v) /\ Quiet(w, rest, X, D) /\ Holds(w, D)
  BY PerformCompressionKeeps DEF Steady, Calm, Keeps, Ends
<1>2. v.broken \/ Holds(v, D)
  BY <1>1, SameHolds
<1>3. CASE r.compressionAt = NoTime \/ r.compressionAt > now \/ r.referrer = None
  <2>1. v = w
    BY <1>3 DEF PerformCompression
  <2>2. ~Waits(a, r, t)
    <3>1. r.compressionAt \in Moments
      BY <1>1, QuietFields
    <3>. QED  BY <1>3, <3>1 DEF Waits, Moments
  <2>3. Quiet(w, rest \ {t}, X, D)
    BY <1>1, <2>2, IdleQuiet
  <2>. QED  BY <1>1, <1>2, <2>1, <2>3 DEF Steady, Calm
<1>4. CASE ~(r.compressionAt = NoTime \/ r.compressionAt > now \/ r.referrer = None)
  <2>1. v = Compress(w, a)
    BY <1>4 DEF PerformCompression
  <2>2. r.compressionAt \in Nat
    BY <1>1, <1>4, QuietFields DEF Moments
  <2>3. Compresses(w, rest, X, D, a, t)
    BY <1>1, <1>4, <2>2 DEF Compresses
  <2>4. v.broken \/ Quiet(v, rest \ {t}, X, D)
    BY <2>1, <2>3, CompressedQuiet
  <2>. QED  BY <1>1, <1>2, <2>4 DEF Steady, Calm
<1>. QED  BY <1>3, <1>4

\* What accounts delegate, by their records.
Stakes(f) == [a \in Accounts |-> f[a].lines["delegated"][0]]
Settled(w, rest) == Sound(w) /\ (w.broken \/ Quiet(w, rest, {}, Stakes(w.infos)))

LEMMA SteadySettled ==
    ASSUME NEW w, NEW rest, NEW D, Steady(w, rest, {}, D)
    PROVE  Settled(w, rest)
<1>1. ASSUME ~w.broken PROVE Quiet(w, rest, {}, Stakes(w.infos))
  <2>1. Quiet(w, rest, {}, D) /\ Holds(w, D)
    BY <1>1 DEF Steady, Calm
  <2>2. \A c \in Accounts : (c \in {} <=> c \in {}) /\ Stakes(w.infos)[c] = D[c]
    BY <2>1 DEF Holds, Stakes
  <2>. QED  BY <2>1, <2>2, QuietSame
<1>. QED  BY <1>1 DEF Settled, Steady, Calm

LEMMA SettledSteady ==
    ASSUME NEW w, NEW rest, Settled(w, rest)
    PROVE  Steady(w, rest, {}, Stakes(w.infos))
BY DEF Settled, Steady, Calm, Holds, Stakes

-----------------------------------------------------------------------------
(* Banishment.                                                             *)

Outcast(r) ==
    [r EXCEPT !.banished = TRUE, !.status = 0, !.compressionAt = NoTime,
              !.downgradeAt = NoTime, !.banishmentAt = NoTime]

LEMMA OutcastFields ==
    ASSUME NEW r \in Records
    PROVE  LET q == Outcast(r)
           IN  /\ q \in Records /\ q.banished /\ q.status = 0 /\ q.referrer = r.referrer
               /\ q.active = r.active /\ q.referrals = r.referrals
               /\ q.transition = r.transition /\ q.compressionAt = NoTime
               /\ q.banishmentAt = NoTime /\ q.downgradeAt = NoTime /\ q.lines = r.lines
<1>1. r \in Info /\ 0 \in 0..MaxStatus
  BY Constants DEF Records
<1>. QED  BY <1>1 DEF Records, Info, Moments, Outcast

\* The task t banishes a.
Banishes(w, rest, D, a, t) ==
    /\ Sound(w) /\ ~w.broken /\ rest \subseteq Task(Handlers, Accounts)
    /\ Quiet(w, rest, {}, D) /\ Holds(w, D) /\ a \in Accounts
    /\ t \in rest /\ t.handler = "banish" /\ t.data = a /\ t.time <= now /\ phase = "pass"

(***************************************************************************)
(* Only who has been compressed and delegates no more than dust is         *)
(* banished, and no other task banishes him.                               *)
(***************************************************************************)
LEMMA BanishmentDue ==
    ASSUME now \in Nat, NEW w, NEW rest, NEW D, NEW a, NEW t, Banishes(w, rest, D, a, t)
    PROVE  LET r == w.infos[a]
           IN  /\ MayBanish(r) /\ r.referrals = {} /\ r.status <= 1 /\ D[a] <= Dust
               /\ \A b : BanishedAt(w, a, rest \ {t}, b)
<1>. USE DEF Banishes
<1> DEFINE r == w.infos[a]
<1>1. /\ Sane(a, r, {}, D[a]) /\ BanishTasks(w.tasks \cup rest, w.infos) /\ ToCome(w.tasks)
  BY DEF Quiet
<1>2. r.banishmentAt = t.time /\ t \in Task(Handlers, Accounts) /\ t.time \in Nat
  BY <1>1 DEF BanishTasks, Task
<1>3. Expelled(r, D[a])
  BY <1>1, <1>2, Constants DEF Sane
<1>4. r.compressionAt = NoTime
  <2>1. ~(t.time = now + Month)
    BY <1>2, Constants
  <2>. QED  BY <1>2, <1>3, <2>1 DEF Expelled
<1>5. Shut(r) /\ ~r.banished /\ ~r.active /\ D[a] <= Dust
  BY <1>3, <1>4 DEF Shut, Expelled
<1>6. r.referrals = {} /\ r.status <= 1
  BY <1>1, <1>5 DEF Sane
<1>7. MayBanish(r)
  <2>1. r.lines["delegated"][0] <= Dust
    BY <1>5 DEF Holds
  <2>. QED  BY <1>5, <2>1 DEF MayBanish, Shut
<1>8. ASSUME NEW u \in w.tasks \cup (rest \ {t}), u.handler = "banish", u.data = a
      PROVE  FALSE
  <2>1. u \in Task(Handlers, Accounts)
    BY WorldFields DEF Sound
  <2>2. u.id = 0 /\ t.id = 0 /\ u.time = t.time
    BY <1>1, <1>2, <1>8 DEF BanishTasks
  <2>3. u = t
    BY <1>2, <1>8, <2>1, <2>2 DEF Task
  <2>4. u \in w.tasks
    BY <2>3
  <2>5. u.time > now
    BY <1>1, <2>4 DEF ToCome
  <2>. QED  BY <1>2, <2>3, <2>5
<1>9. \A b : BanishedAt(w, a, rest \ {t}, b)
  BY <1>8 DEF BanishedAt
<1>. QED  BY <1>5, <1>6, <1>7, <1>9

(***************************************************************************)
(* The world once the account has left, before x/delegating hears of it.   *)
(***************************************************************************)
LEMMA OustedQuiet ==
    ASSUME now \in Nat, Earned, NEW w, NEW rest, NEW D, NEW a, NEW t,
           Banishes(w, rest, D, a, t)
    PROVE  LET v == Ousted(w, a)
           IN  v.broken \/ (Quiet(v, rest \ {t}, {}, D) /\ ~IsEmpty(v.infos[a]))
<1> DEFINE r == w.infos[a]
           q == Outcast(r)
           x == Balance(r)
           n == Reach(x)
           u == Update(w, a, q)
           less == rest \ {t}
           v == Climb(u, r.referrer, n, [NoLink EXCEPT !.leave = {a}], Brings(Negated(x)))
<1>1. /\ Sound(w) /\ ~w.broken /\ less \subseteq Task(Handlers, Accounts)
      /\ Quiet(w, rest, {}, D) /\ a \in Accounts /\ t.data = a /\ t.handler = "banish"
  BY DEF Banishes
<1>2. /\ w \in Worlds /\ w.infos \in [Accounts -> Records] /\ Tree(w.infos) /\ r \in Records
  BY <1>1, SoundFields
<1>3. /\ MayBanish(r) /\ r.referrals = {} /\ r.status <= 1 /\ D[a] <= Dust
      /\ \A b : BanishedAt(w, a, less, b)
  BY BanishmentDue
<1>4. Ousted(w, a) = v
  BY DEF Ousted, Outcast
<1>5. /\ q \in Records /\ q.banished /\ q.status = 0 /\ q.referrer = r.referrer
      /\ q.active = r.active /\ q.referrals = r.referrals
      /\ q.transition = r.transition /\ q.compressionAt = NoTime
      /\ q.banishmentAt = NoTime /\ q.downgradeAt = NoTime
  BY <1>2, OutcastFields
<1>6. x \in Amounts /\ Negated(x) \in Amounts /\ n \in 1..Depth
  BY <1>2, BalanceFields, ReachDepth
<1>. HIDE DEF q, x, n, less
<1>7. Frame(w, a, less, {}, D) /\ IndexFits(w.index, w.infos) /\ Timed(a, r, w.tasks \cup rest)
  <2>1. Elsewhere(a, {}, {}, D, D)
    BY DEF Elsewhere
  <2>2. Frame(w, a, rest, {}, D) /\ IndexFits(w.index, w.infos) /\ Timed(a, r, w.tasks \cup rest)
    BY <1>1, <1>2, <2>1, FrameOf
  <2>3. Frame(w, a, less, {}, D)
    BY <1>1, <2>2, FrameWithout DEF less
  <2>. QED  BY <2>2, <2>3
<1>8. Sane(a, q, {}, D[a]) /\ Blank(q)
  BY <1>3, <1>5 DEF Sane, Shut, MayBanish, Blank, IsEmpty
<1>9. Timed(a, q, w.tasks \cup less)
  <2>1. Timed(a, q, w.tasks \cup rest)
    BY <1>5, <1>7 DEF Timed, Armed
  <2>2. ~Waits(a, q, t)
    BY <1>1, <1>5 DEF Waits
  <2>. QED  BY <2>1, <2>2, TimedRest DEF less
<1>10. Quiet(u, less, {}, D)
  <2>1. IndexFits(w.index, [w.infos EXCEPT ![a] = q])
    BY <1>1, <1>2, <1>3, <1>5, <1>7, IndexLow
  <2>2. BanishedAt(w, a, less, q.banishmentAt)
    BY <1>3
  <2>. HIDE DEF r
  <2>3. QuietBut(w, a, q, less, {}, D)
    BY <1>1, <1>2, <1>5, <1>7, <1>8, <1>9, <2>1, <2>2, FrameBut
  <2>. QED  BY <1>1, <1>2, <1>5, <1>8, <2>3, UpdateQuiet
<1>11. /\ u \in Worlds /\ u.infos[a] = q /\ ~u.broken
       /\ \A c \in Accounts \ {a} : u.infos[c] = w.infos[c]
  <2>1. u \in Worlds /\ u.infos = [w.infos EXCEPT ![a] = q] /\ u.broken = w.broken
    BY <1>1, <1>2, <1>5, UpdateWorld
  <2>. HIDE DEF u
  <2>. QED  BY <1>1, <1>2, <2>1
<1>. HIDE DEF u
<1>12. Stands(w.infos, {}, D, a, u, less, {}, D)
  <2>1. AllSane(w.infos, {}, D)
    BY <1>1, QuietSane
  <2>2. a \notin Over(w.infos, r.referrer) /\ Over(w.infos, r.referrer) \subseteq Accounts
    BY <1>1, <1>2, OwnParent DEF Within
  <2>3. \A b \in Over(w.infos, r.referrer) : u.infos[b] = w.infos[b]
    BY <1>11, <2>2
  <2>4. ~r.banished
    BY <1>3 DEF MayBanish
  <2>. QED  BY <1>1, <1>2, <1>10, <1>11, <2>1, <2>3, <2>4 DEF Stands
<1>13. v.broken \/ (Quiet(v, less, {}, D) /\ v.infos[a] = u.infos[a])
  <2>1. [NoLink EXCEPT !.leave = {a}] \in Links /\ Brings(Negated(x)) \in Gains
    BY <1>1, <1>6, LinksOf, BringsGains
  <2>. QED  BY <1>6, <1>12, <2>1, ClimbChecked
<1>14. ~IsEmpty(q)
  BY <1>5 DEF IsEmpty
<1>. QED  BY <1>4, <1>11, <1>13, <1>14 DEF less

(***************************************************************************)
(* The task of a banishment.                                               *)
(***************************************************************************)
LEMMA BanishSettled ==
    ASSUME now \in Nat, Earned, NEW w, NEW rest, NEW D, NEW a, NEW t,
           Banishes(w, rest, D, a, t)
    PROVE  Settled(Banish(w, a), rest \ {t})
<1> DEFINE v == Ousted(w, a)
           less == rest \ {t}
           y == Balance(v.infos[a])
           h == [coins |-> y.coins, delegated |-> 0]
           E == [c \in Accounts |-> IF c = a THEN 0 ELSE D[c]]
           g == OnBalanceChanged(v, a, h)
<1>1. /\ Sound(w) /\ ~w.broken /\ less \subseteq Task(Handlers, Accounts)
      /\ Holds(w, D) /\ a \in Accounts /\ phase = "pass"
  BY DEF Banishes
<1>2. MayBanish(w.infos[a])
  BY BanishmentDue
<1>3. Ends(w, v) /\ SameStakes(w, v)
  BY <1>1, <1>2, OustedEnds
<1>4. Sound(v)
  BY <1>3 DEF Ends
<1>5. v.broken \/ (Quiet(v, less, {}, D) /\ ~IsEmpty(v.infos[a]) /\ Holds(v, D))
  <2>1. v.broken \/ (Quiet(v, less, {}, D) /\ ~IsEmpty(v.infos[a]))
    BY OustedQuiet
  <2>2. v.broken \/ Holds(v, D)
    BY <1>1, <1>3, SameHolds
  <2>. QED  BY <2>1, <2>2
<1>6. Banish(w, a) = IF v.broken \/ y.delegated = 0 THEN v ELSE g
  BY <1>2 DEF Banish, Ousted, OnBanished
<1>. HIDE DEF v, less
<1>7. CASE v.broken \/ y.delegated = 0
  <2>1. Steady(v, less, {}, D)
    BY <1>4, <1>5 DEF Steady, Calm
  <2>2. Settled(v, less)
    BY <2>1, SteadySettled
  <2>. QED  BY <1>6, <1>7, <2>2 DEF less
<1>8. CASE ~(v.broken \/ y.delegated = 0)
  <2>1. Wealthy(v.infos[a]) /\ v.infos[a] \in Records
    BY <1>1, <1>4, <1>8, SoundFields
  <2>2. /\ y.coins \in Int /\ y.delegated \in Int
        /\ y.coins = v.infos[a].lines["coins"][0] /\ y.delegated = v.infos[a].lines["delegated"][0]
    <3>1. y \in Amounts
      BY <2>1, BalanceFields
    <3>. QED  BY <2>1, <3>1, BalanceFields DEF Amounts, Sums
  <2>3. 0 <= y.coins
    <3>1. 0 <= y.delegated /\ y.delegated <= y.coins
      BY <2>1, <2>2 DEF Wealthy
    <3>. HIDE DEF y
    <3>. QED  BY <2>2, <3>1
  <2>. HIDE DEF y
  <2>4. h \in [coins : Int, delegated : Int] /\ h.delegated = 0 /\ h.delegated <= h.coins
    BY <2>2, <2>3
  <2>. HIDE DEF h
  <2>5. Elsewhere(a, {}, {}, E, D) /\ E[a] = 0
    BY <1>1 DEF Elsewhere
  <2>6. h.delegated # v.infos[a].lines["delegated"][0]
    BY <1>8, <2>2, <2>4
  <2>7. Changes(v, less, {}, E, D, a, h)
    <3>. HIDE DEF E
    <3>. QED  BY <1>1, <1>4, <1>5, <1>8, <2>4, <2>5, <2>6, Constants DEF Changes
  <2>8. Calm(g, less, {}, E)
    <3>. HIDE DEF E
    <3>. QED  BY <2>7, BalanceChangedQuiet
  <2>9. g.broken \/ Holds(g, E)
    <3>1. g.broken \/ \A c \in Accounts : g.infos[c].lines["delegated"][0] =
             IF c = a THEN h.delegated ELSE v.infos[c].lines["delegated"][0]
      BY <1>1, <1>4, <1>5, <1>8, <2>4, BalanceStakes
    <3>. HIDE DEF g
    <3>. QED  BY <1>5, <1>8, <2>4, <3>1 DEF Holds
  <2>10. Steady(g, less, {}, E)
    BY <2>8, <2>9 DEF Steady
  <2>11. Settled(g, less)
    <3>. HIDE DEF E, g
    <3>. QED  BY <2>10, SteadySettled
  <2>. QED  BY <1>6, <1>8, <2>11 DEF less
<1>. QED  BY <1>7, <1>8

-----------------------------------------------------------------------------
(* Downgrades and transitions.                                             *)

\* Who has been compressed has no active referrals.
LEMMA ShutAlone ==
    ASSUME NEW w, Sound(w), ~w.broken, NEW rest, NEW X, NEW D, Quiet(w, rest, X, D),
           NEW a \in Accounts, Shut(w.infos[a]), a \notin X
    PROVE  w.infos[a].activeReferrals = {}
<1>1. w.infos[a].referrals = {}
  BY DEF Quiet, Sane
<1>2. w.infos[a].activeReferrals \subseteq w.infos[a].referrals
  BY ListsWithin DEF Sound, Good
<1>. QED  BY <1>1, <1>2

\* The task t downgrades a.
Downgrades(w, rest, X, D, a, t) ==
    /\ Sound(w) /\ ~w.broken /\ rest \subseteq Task(Handlers, Accounts)
    /\ Quiet(w, rest, X, D) /\ a \in Accounts
    /\ t.handler = "downgrade" /\ t.data = a
    /\ w.infos[a].downgradeAt # NoTime /\ w.infos[a].downgradeAt <= now

\* A check may give a the record q in the world i.
Awaits(i, a, q, rest, X, D) ==
    /\ i \in Worlds /\ q \in Records /\ QuietBut(i, a, q, rest, X, D)
    /\ Shut(q) /\ a \notin X => q.activeReferrals = {}

LEMMA DowngradedBut ==
    ASSUME now \in Nat, NEW w, NEW rest, NEW X, NEW D, NEW a, NEW t,
           Downgrades(w, rest, X, D, a, t), NEW q,
           q = [w.infos[a] EXCEPT !.status = @ - 1, !.downgradeAt = NoTime]
    PROVE  Awaits(SetIndex(w, a, w.infos[a].status, w.infos[a].status - 1), a, q,
                  rest \ {t}, X, D)
<1>. USE DEF Downgrades
<1> DEFINE r == w.infos[a]
           i == SetIndex(w, a, r.status, r.status - 1)
           less == rest \ {t}
           g == [w.infos EXCEPT ![a] = q]
<1>1. /\ w \in Worlds /\ w.infos \in [Accounts -> Records] /\ r \in Records /\ r \in Info
  BY SoundFields, QuietFields
<1>2. /\ Frame(w, a, rest, X, D) /\ BanishedAt(w, a, rest, r.banishmentAt)
      /\ IndexFits(w.index, w.infos) /\ Blank(r) /\ Sane(a, r, X, D[a])
      /\ Timed(a, r, w.tasks \cup rest)
  <2>1. Elsewhere(a, X, X, D, D)
    BY DEF Elsewhere
  <2>. QED  BY <1>1, <2>1, FrameOf
<1>3. r.status - 1 \in 0..MaxStatus /\ MaxStatus \in Nat
  BY <1>1, InfoFields, Constants DEF Records
<1>4. /\ q \in Records /\ q.status = r.status - 1 /\ q.downgradeAt = NoTime
      /\ q.referrer = r.referrer /\ q.referrals = r.referrals
      /\ q.activeReferrals = r.activeReferrals /\ q.active = r.active
      /\ q.banished = r.banished /\ q.transition = r.transition
      /\ q.compressionAt = r.compressionAt /\ q.banishmentAt = r.banishmentAt
  BY <1>1, <1>3 DEF Info, Records, Moments
<1>5. i \in Worlds /\ i.infos = w.infos /\ i.tasks = w.tasks
  BY <1>1, <1>3, SetIndexWorld, SetIndexStores
<1>6. IndexFits(i.index, g)
  <2>1. g[a].status = r.status - 1 /\ \A c \in Accounts \ {a} : g[c].status = w.infos[c].status
    BY <1>1, <1>4
  <2>. HIDE DEF g
  <2>. QED  BY <1>1, <1>2, <1>3, <2>1, SetIndexFits
<1>7. Sane(a, q, X, D[a])
  <2>1. r.status \in Int
    BY <1>3, <1>1, InfoFields
  <2>2. ~r.banished
    BY <1>2 DEF Sane
  <2>3. Shut(q) = Shut(r) /\ \A x : Expelled(q, x) = Expelled(r, x)
    BY <1>4 DEF Shut, Expelled
  <2>. HIDE DEF r
  <2>. QED  BY <1>2, <1>4, <2>1, <2>2, <2>3 DEF Sane
<1>8. Timed(a, q, w.tasks \cup less)
  <2>1. Timed(a, q, w.tasks \cup rest)
    BY <1>2, <1>4 DEF Timed, Armed
  <2>2. ~Waits(a, q, t)
    BY <1>4 DEF Waits
  <2>. QED  BY <2>1, <2>2, TimedRest
<1>9. Frame(w, a, less, X, D) /\ BanishedAt(w, a, less, r.banishmentAt)
  <2>. HIDE DEF r
  <2>. QED  BY <1>2, FrameWithout
<1>10. Frame(i, a, less, X, D) /\ BanishedAt(i, a, less, q.banishmentAt)
  <2>. HIDE DEF i, r, less
  <2>. QED  BY <1>4, <1>5, <1>9 DEF Frame, BanishedAt
<1>11. less \subseteq Task(Handlers, Accounts)
  OBVIOUS
<1>12. QuietBut(i, a, q, less, X, D)
  <2>. HIDE DEF i, r, less
  <2>. QED  BY <1>4, <1>5, <1>6, <1>7, <1>8, <1>10, <1>11, FrameBut
<1>13. Shut(q) /\ a \notin X => q.activeReferrals = {}
  <2>1. Shut(q) = Shut(r)
    BY <1>4 DEF Shut
  <2>. QED  BY <1>4, <2>1, ShutAlone
<1>. QED  BY <1>4, <1>5, <1>12, <1>13 DEF Awaits

(***************************************************************************)
(* A downgrade answers the task that a record waited for.                  *)
(***************************************************************************)
LEMMA PerformDowngradeSteady ==
    ASSUME now \in Nat, Earned, NEW w, NEW rest, NEW X, NEW D, NEW a \in Accounts,
           Steady(w, rest, X, D), ~w.broken, rest \subseteq Task(Handlers, Accounts),
           NEW t, t.handler = "downgrade", t.data = a, t.time <= now
    PROVE  Steady(PerformDowngrade(w, a), rest \ {t}, X, D)
<1> DEFINE r == w.infos[a]
           v == PerformDowngrade(w, a)
           less == rest \ {t}
<1>1. Sound(w) /\ Sound(v) /\ SameStakes(w, v) /\ Quiet(w, rest, X, D) /\ Holds(w, D)
  BY PerformDowngradeKeeps DEF Steady, Calm, Keeps, Ends
<1>2. v.broken \/ Holds(v, D)
  BY <1>1, SameHolds
<1>3. w \in Worlds /\ r \in Records /\ r \in Info /\ less \subseteq Task(Handlers, Accounts)
  BY <1>1, QuietFields
<1>4. CASE r.downgradeAt = NoTime \/ r.downgradeAt > now
  <2>1. v = Checked(w, a, r)
    BY <1>4 DEF PerformDowngrade
  <2>2. ~Waits(a, r, t)
    <3>1. r.downgradeAt \in Moments
      BY <1>3, InfoFields
    <3>. QED  BY <1>4, <3>1 DEF Waits, Moments
  <2>3. Quiet(w, less, X, D)
    BY <1>1, <2>2, IdleQuiet
  <2>4. QuietBut(w, a, r, less, X, D)
    <3>1. SameTerms(r, r)
      BY DEF SameTerms
    <3>. HIDE DEF less
    <3>. QED  BY <1>3, <2>3, <3>1, QuietRecord
  <2>5. Shut(r) /\ a \notin X => r.activeReferrals = {}
    BY <1>1, ShutAlone
  <2>6. v.broken \/ Quiet(v, less, X, D)
    <3>. HIDE DEF r, less
    <3>1. ASSUME ~Checked(w, a, r).broken PROVE Quiet(Checked(w, a, r), less, X, D)
      BY <1>3, <2>4, <2>5, <3>1, CheckedQuiet
    <3>. QED  BY <2>1, <3>1
  <2>. QED  BY <1>1, <1>2, <2>6 DEF Steady, Calm
<1>5. CASE ~(r.downgradeAt = NoTime \/ r.downgradeAt > now)
  <2> DEFINE i == SetIndex(w, a, r.status, r.status - 1)
             q == [r EXCEPT !.status = @ - 1, !.downgradeAt = NoTime]
  <2>1. v = Checked(i, a, q)
    BY <1>5 DEF PerformDowngrade
  <2>2. r.downgradeAt \in Nat
    BY <1>3, <1>5, InfoFields DEF Moments
  <2>3. Downgrades(w, rest, X, D, a, t)
    BY <1>1, <1>5, <2>2 DEF Downgrades
  <2>4. Awaits(i, a, q, less, X, D)
    <3>1. q = [w.infos[a] EXCEPT !.status = @ - 1, !.downgradeAt = NoTime]
      OBVIOUS
    <3>. HIDE DEF q
    <3>. QED  BY <2>3, <3>1, DowngradedBut
  <2>5. v.broken \/ Quiet(v, less, X, D)
    <3>. HIDE DEF i, q, r, less
    <3>1. ASSUME ~Checked(i, a, q).broken PROVE Quiet(Checked(i, a, q), less, X, D)
      BY <1>3, <2>4, <3>1, CheckedQuiet DEF Awaits
    <3>. QED  BY <2>1, <3>1
  <2>. QED  BY <1>1, <1>2, <2>5 DEF Steady, Calm
<1>. QED  BY <1>4, <1>5

LEMMA TransitionQuiet ==
    ASSUME NEW w, Sound(w), NEW rest, NEW X, NEW D, Quiet(w, rest, X, D),
           rest \subseteq Task(Handlers, Accounts), NEW a \in Accounts, NEW n \in Parents,
           n # None =>
             \E t \in w.tasks \cup rest :
               t.handler = "transition-timeout" /\ t.data = a /\ t.time <= now + Day
    PROVE  Quiet([w EXCEPT !.infos[a].transition = n], rest, X, D)
<1> DEFINE r == w.infos[a]
           q == [r EXCEPT !.transition = n]
           v == [w EXCEPT !.infos[a].transition = n]
<1>1. /\ w \in Worlds /\ w.infos \in [Accounts -> Records] /\ r \in Records /\ r \in Info
  BY QuietFields
<1>2. v = Update(w, a, q)
  BY <1>1 DEF Update, Worlds
<1>3. /\ q \in Records /\ q.status = r.status /\ q.downgradeAt = r.downgradeAt
      /\ q.referrer = r.referrer /\ q.referrals = r.referrals
      /\ q.active = r.active /\ q.banished = r.banished /\ q.transition = n
      /\ q.compressionAt = r.compressionAt /\ q.banishmentAt = r.banishmentAt
  BY <1>1 DEF Info, Records, Parents
<1>4. /\ Frame(w, a, rest, X, D) /\ BanishedAt(w, a, rest, r.banishmentAt)
      /\ IndexFits(w.index, w.infos) /\ Blank(r) /\ Sane(a, r, X, D[a])
      /\ Timed(a, r, w.tasks \cup rest)
  <2>1. Elsewhere(a, X, X, D, D)
    BY DEF Elsewhere
  <2>. QED  BY <1>1, <2>1, FrameOf
<1>5. Timed(a, q, w.tasks \cup rest)
  BY <1>3, <1>4 DEF Timed
<1>6. Sane(a, q, X, D[a])
  BY <1>3, <1>4 DEF Sane, Shut, Expelled
<1>7. Blank(q)
  <2>1. CASE IsEmpty(r)
    <3> DEFINE e == Empty
               m == r.transition
    <3>1. r = [e EXCEPT !.transition = m] /\ e \in Info
      BY <1>4, <2>1, EmptyRecord DEF Blank, Outside, Records
    <3>2. q = [r EXCEPT !.transition = n] /\ q.transition = n
      BY <1>3
    <3>. HIDE DEF e, m, q, r
    <3>3. q = [e EXCEPT !.transition = q.transition]
      BY <3>1, <3>2 DEF Info
    <3>. QED  BY <3>3 DEF e, Blank, Outside
  <2>2. CASE ~IsEmpty(r)
    BY <1>3, <2>2 DEF Blank, IsEmpty
  <2>. QED  BY <2>1, <2>2
<1>8. IndexFits(w.index, [w.infos EXCEPT ![a] = q])
  BY <1>1, <1>3, <1>4, IndexLow
<1>. HIDE DEF q, v
<1>9. QuietBut(w, a, q, rest, X, D)
  <2>1. BanishedAt(w, a, rest, q.banishmentAt)
    BY <1>3, <1>4
  <2>. HIDE DEF r
  <2>. QED  BY <1>1, <1>3, <1>4, <1>5, <1>6, <1>8, <2>1, FrameBut
<1>10. Quiet(v, rest, X, D)
  BY <1>1, <1>2, <1>3, <1>7, <1>9, UpdateQuiet
<1>. QED  BY <1>10 DEF v

(***************************************************************************)
(* A transition is cancelled.                                              *)
(***************************************************************************)
LEMMA CancelSteady ==
    ASSUME NEW w, NEW rest, NEW X, NEW D, NEW a \in Accounts,
           Steady(w, rest, X, D), ~w.broken, rest \subseteq Task(Handlers, Accounts)
    PROVE  LET v == CancelTransition(w, a)
           IN  /\ Steady(v, rest, X, D) /\ Quiet(v, rest, X, D)
               /\ ~v.broken /\ v.infos[a].transition = None
<1> DEFINE v == CancelTransition(w, a)
<1>1. v = [w EXCEPT !.infos[a].transition = None]
  BY DEF CancelTransition
<1>2. Sound(w) /\ Quiet(w, rest, X, D) /\ Holds(w, D) /\ None \in Parents
  BY DEF Steady, Calm, Parents
<1>3. Sound(v) /\ SameStakes(w, v)
  <2>. HIDE DEF v
  <2>. QED  BY <1>1, <1>2, TransitionSet DEF Keeps, Ends
<1>4. ~v.broken /\ v.infos[a].transition = None
  <2>1. w \in Worlds /\ w.infos \in [Accounts -> Records] /\ w.infos[a] \in Info
    BY <1>2, QuietFields
  <2>. QED  BY <1>1, <2>1 DEF Worlds, Info
<1>. HIDE DEF v
<1>5. Quiet(v, rest, X, D)
  BY <1>1, <1>2, TransitionQuiet
<1>6. Holds(v, D)
  BY <1>2, <1>3, <1>4, SameHolds
<1>7. Steady(v, rest, X, D)
  BY <1>3, <1>5, <1>6 DEF Steady, Calm
<1>. QED  BY <1>4, <1>5, <1>7 DEF v

LEMMA TimeoutSteady ==
    ASSUME NEW w, NEW rest, NEW X, NEW D, NEW a \in Accounts,
           Steady(w, rest, X, D), ~w.broken, rest \subseteq Task(Handlers, Accounts),
           NEW t, t.handler = "transition-timeout", t.data = a
    PROVE  Steady(CancelTransition(w, a), rest \ {t}, X, D)
<1> DEFINE v == CancelTransition(w, a)
<1>1. /\ Steady(v, rest, X, D) /\ Quiet(v, rest, X, D) /\ v.infos[a].transition = None
  BY CancelSteady
<1>. HIDE DEF v
<1>2. ~Waits(a, v.infos[a], t)
  BY <1>1 DEF Waits
<1>3. Quiet(v, rest \ {t}, X, D)
  BY <1>1, <1>2, IdleQuiet
<1>4. Steady(v, rest \ {t}, X, D)
  BY <1>1, <1>3 DEF Steady, Calm
<1>. QED  BY <1>4 DEF v

(***************************************************************************)
(* A transition is requested, with its timeout.                            *)
(***************************************************************************)
LEMMA RequestedSteady ==
    ASSUME now \in Nat, Earned, NEW w, NEW X, NEW D, Steady(w, {}, X, D), ~w.broken,
           NEW a \in Accounts, NEW n \in Accounts
    PROVE  Steady(Scheduled([w EXCEPT !.infos[a].transition = n], now + Day,
                            "transition-timeout", a), {}, X, D)
<1> DEFINE t == Timer(now + Day, "transition-timeout", a)
           u == [w EXCEPT !.infos[a].transition = n]
           v == Scheduled(u, now + Day, "transition-timeout", a)
<1>1. Sound(w) /\ Quiet(w, {}, X, D) /\ Holds(w, D) /\ w \in Worlds /\ n \in Parents
      /\ n # None /\ Day \in Nat \ {0}
  BY QuietFields, Constants DEF Steady, Calm, Parents
<1>2. t.handler = "transition-timeout" /\ t.data = a /\ t.time = now + Day
      /\ t \in Task(Handlers, Accounts)
  BY <1>1 DEF Timer, Task, Handlers
<1>3. Quiet(w, {t}, X, D)
  <2>1. Quiet(w, {} \cup {t}, X, D)
    <3>. HIDE DEF t
    <3>. QED  BY <1>1, <1>2, QuietMore
  <2>. QED  BY <2>1
<1>4. Sound(u) /\ SameStakes(w, u) /\ Keeps(w, u)
  BY <1>1, TransitionSet DEF Keeps, Ends
<1>5. ~u.broken /\ u \in Worlds
  BY <1>1, <1>4 DEF Worlds, Sound
<1>6. Quiet(u, {t}, X, D)
  <2>1. \E s \in w.tasks \cup {t} :
          s.handler = "transition-timeout" /\ s.data = a /\ s.time <= now + Day
    BY <1>1, <1>2
  <2>. HIDE DEF t
  <2>. QED  BY <1>1, <1>2, <1>3, <2>1, TransitionQuiet
<1>7. Holds(u, D)
  <2>. HIDE DEF u
  <2>. QED  BY <1>1, <1>4, <1>5, SameHolds
<1>. HIDE DEF u
<1>8. v \in Worlds /\ v.infos = u.infos /\ v.broken = u.broken
  <2>1. now + Day \in Nat /\ "transition-timeout" \in Handlers
    BY <1>1 DEF Handlers
  <2>. QED  BY <1>5, <2>1, ScheduledWorld
<1>9. Quiet(v, {}, X, D)
  <2>1. Quiet(u, {} \cup {Timer(now + Day, "transition-timeout", a)}, X, D)
    BY <1>6
  <2>2. now + Day > now
    BY <1>1
  <2>. QED  BY <1>5, <2>1, <2>2, Delivered
<1>. HIDE DEF v
<1>10. Sound(v) /\ Holds(v, D)
  BY <1>4, <1>5, <1>7, <1>8 DEF Sound, Holds
<1>11. Steady(v, {}, X, D)
  BY <1>9, <1>10 DEF Steady, Calm
<1>. QED  BY <1>11 DEF v, u

LEMMA ShiftedTerms ==
    ASSUME NEW r \in Records, NEW s \in Records, NEW link \in Links, NEW k \in 1..Depth,
           NEW sign \in Int
    PROVE  LET q == Shifted(IF k = 1 THEN Linked(r, link) ELSE r, s.lines, k, sign)
           IN  q \in Records /\ SameTerms(r, q)
<1> DEFINE d == [l \in Sums |-> [i \in Lines |-> IF i < k THEN 0 ELSE sign * s.lines[l][i - k]]]
           q == Shifted(IF k = 1 THEN Linked(r, link) ELSE r, s.lines, k, sign)
<1>1. d \in LineSums
  <2>1. k \in Nat /\ k >= 1 /\ Depth \in Nat
    BY Constants
  <2>2. ASSUME NEW l \in Sums, NEW i \in Lines
        PROVE  (IF i < k THEN 0 ELSE sign * s.lines[l][i - k]) \in Int
    <3>1. CASE i < k
      BY <3>1
    <3>2. CASE ~(i < k)
      <4>1. i - k \in Lines
        BY <2>1, <3>2 DEF Lines
      <4>2. s.lines[l][i - k] \in Int
        BY <4>1, InfoFields DEF Records, LineSums
      <4> DEFINE y == s.lines[l][i - k]
      <4>3. sign * y \in Int
        <5>1. y \in Int
          BY <4>2
        <5>. HIDE DEF y
        <5>. QED  BY <5>1
      <4>. QED  BY <3>2, <4>3
    <3>. QED  BY <3>1, <3>2
  <2>. QED  BY <2>2 DEF LineSums
<1>2. q = Adjust(IF k = 1 THEN Linked(r, link) ELSE r, d)
  BY DEF Shifted
<1>. HIDE DEF d, q
<1>3. Linked(r, link) \in Records /\ SameTerms(r, Linked(r, link))
  BY LinkedRecord DEF Linked, SameTerms, Records, Info
<1>4. ASSUME NEW u \in Records, SameTerms(r, u)
      PROVE  Adjust(u, d) \in Records /\ SameTerms(r, Adjust(u, d))
  <2>1. Adjust(u, d) \in Records /\ Adjust(u, d) = [u EXCEPT !.lines = Adjust(u, d).lines]
    BY <1>1, AdjustRecord
  <2> DEFINE l == Adjust(u, d).lines
             v == Adjust(u, d)
  <2>2. v = [u EXCEPT !.lines = l] /\ u \in Info
    BY <2>1 DEF Records
  <2>. HIDE DEF l, v
  <2>3. SameTerms(r, v)
    BY <1>4, <2>2 DEF SameTerms, Info
  <2>. QED  BY <2>1, <2>3 DEF v
<1>5. SameTerms(r, r)
  BY DEF SameTerms
<1>6. q \in Records /\ SameTerms(r, q)
  BY <1>2, <1>3, <1>4, <1>5
<1>. QED  BY <1>6 DEF q

LEMMA ShiftAlong ==
    ASSUME now \in Nat, Earned, NEW w, NEW u, NEW S \in SUBSET Accounts,
           NEW rest, NEW X, NEW D, rest \subseteq Task(Handlers, Accounts),
           Along(TRUE, w, u, S, rest, X, D), NEW s \in Records,
           NEW L \in Nat, NEW chain \in [1..L -> S], Len(chain) = L,
           NEW k \in 1..Depth, NEW link \in Links, NEW sign \in Int
    PROVE  Along(TRUE, w, Shift(u, s, chain, k, link, sign), S, rest, X, D)
<1>1. CASE k > L
  BY <1>1 DEF Shift
<1>2. CASE ~(k > L)
  <2> DEFINE c == chain[k]
             r == u.infos[c]
             q == Shifted(IF k = 1 THEN Linked(r, link) ELSE r, s.lines, k, sign)
  <2>1. c \in S /\ c \in Accounts
    BY <1>2
  <2>2. r \in Records
    BY <2>1, WorldFields DEF Along
  <2>3. Shift(u, s, chain, k, link, sign) = Checked(u, c, q)
    BY <1>2 DEF Shift
  <2>. HIDE DEF r, c
  <2>4. q \in Records /\ SameTerms(r, q)
    BY <2>2, ShiftedTerms
  <2>. HIDE DEF q
  <2>5. PICK check \in BOOLEAN : check = TRUE
    OBVIOUS
  <2>6. Along(check, w, Written(check, u, c, q), S, rest, X, D)
    BY <2>1, <2>4, <2>5, WrittenAlong DEF r
  <2>. QED  BY <2>3, <2>5, <2>6 DEF Written
<1>. QED  BY <1>1, <1>2

\* The referral a may move from p to n.
Moving(w, rest, X, D, a, p, n) ==
    /\ Sound(w) /\ ~w.broken /\ rest \subseteq Task(Handlers, Accounts)
    /\ Quiet(w, rest, X, D) /\ a \in Accounts /\ X = {}
    /\ p \in Accounts /\ n \in Accounts /\ p = w.infos[a].referrer
    /\ n = w.infos[a].transition /\ n # p /\ a # n
    /\ a \notin Over(w.infos, n) /\ a \in w.infos[p].referrals
    /\ ~RegistrationClosed(w.infos[n])

\* Whom a transition concerns takes referrals.
LEMMA ChainOpen ==
    ASSUME NEW f \in [Accounts -> Records], Tree(f), NEW D, AllSane(f, {}, D),
           NEW p \in Accounts, ~Shut(f[p]), NEW a, a \notin Over(f, p)
    PROVE  LET s == Ancestors(f, p, Depth)
           IN  /\ Len(s) \in Nat /\ s \in [1..Len(s) -> Accounts]
               /\ \A k \in 1..Len(s) : ~Shut(f[s[k]]) /\ s[k] # a
<1> DEFINE s == Ancestors(f, p, Depth)
           C == Over(f, p)
<1>1. HasParents(f) /\ Acyclic(Referred(f)) /\ p \in Parents /\ p # None
      /\ Depth \in 1..Depth
  BY InfoFields, Constants DEF HasParents, Records, Tree, Parents
<1>2. /\ C \subseteq Accounts /\ p \in C /\ \A b \in C : f[b].referrer \in C \cup {None}
  BY <1>1, OverClosed
<1>3. Len(s) \in Nat /\ s \in [1..Len(s) -> Accounts] /\ (Len(s) # 0 => s[1] = p)
  BY <1>1, ChainFields
<1>4. Rising(f, s, C)
  <2>1. Within(f, C) /\ AgreeOn(f, f, C)
    BY <1>2 DEF Within, AgreeOn
  <2>. HIDE DEF C
  <2>. QED  BY <1>1, <1>2, <2>1, ChainWithin
<1>5. \A k \in 1..Len(s) : ~Shut(f[s[k]]) \/ s[k] \in {}
  <2>1. \A k \in 1..(Len(s) - 1) : f[s[k]].referrer = s[k + 1]
    BY <1>4 DEF Rising
  <2>. HIDE DEF s
  <2>. QED  BY <1>3, <2>1, OpenUp
<1>6. \A k \in 1..Len(s) : s[k] # a
  BY <1>4 DEF Rising
<1>. QED  BY <1>3, <1>5, <1>6

(***************************************************************************)
(* A transition is carried out.                                            *)
(***************************************************************************)
LEMMA AffirmQuiet ==
    ASSUME now \in Nat, Earned, NEW w, NEW rest, NEW X, NEW D, NEW a, NEW p, NEW n,
           Moving(w, rest, X, D, a, p, n)
    PROVE  LET v == AffirmTransition(w, a) IN v.broken \/ Quiet(v, rest, X, D)
<1>. USE DEF Moving
<1> DEFINE f == w.infos
           s == f[a]
           q == [s EXCEPT !.referrer = n, !.transition = None]
           moved == Update(w, a, q)
           old == Ancestors(f, p, Depth)
           new == Ancestors(f, n, Depth)
           S == {old[k] : k \in 1..Len(old)} \cup {new[k] : k \in 1..Len(new)}
<1>1. /\ w \in Worlds /\ f \in [Accounts -> Records] /\ Tree(f) /\ s \in Records /\ s \in Info
      /\ AllSane(f, {}, D)
  BY SoundFields, QuietFields, QuietSane
<1>2. q \in Records /\ Rehung(s, q)
  <2>1. p # None /\ n # None
    BY Constants
  <2>. QED  BY <1>1, <2>1 DEF Records, Info, Rehung
<1>3. /\ moved \in Worlds /\ ~moved.broken /\ moved.infos = [f EXCEPT ![a] = q]
      /\ moved.tasks = w.tasks /\ moved.index = w.index
  <2>. HIDE DEF q
  <2>. QED  BY <1>1, <1>2, UpdateWorld, UpdateStores
<1>. HIDE DEF moved
<1>4. Quiet(moved, rest, X, D)
  <2>1. \A c \in Accounts : moved.infos[c] = f[c] \/ Rehung(f[c], moved.infos[c])
    BY <1>1, <1>2, <1>3
  <2>2. Rehangs(w, moved, rest)
    BY <1>1, <1>3, <2>1 DEF Rehangs
  <2>. QED  BY <2>2, RehungQuiet
<1>5. ~Shut(f[p]) /\ ~Shut(f[n])
  <2>1. f[p].referrals # {}
    OBVIOUS
  <2>2. ~Shut(f[p])
    BY <1>1, <2>1 DEF AllSane, Sane
  <2>. QED  BY <2>2 DEF RegistrationClosed, Shut
<1>6. a \notin Over(f, p)
  BY <1>1, OwnParent
<1>7. /\ Len(old) \in Nat /\ old \in [1..Len(old) -> Accounts]
      /\ \A k \in 1..Len(old) : ~Shut(f[old[k]]) /\ old[k] # a
  BY <1>1, <1>5, <1>6, ChainOpen
<1>8. /\ Len(new) \in Nat /\ new \in [1..Len(new) -> Accounts]
      /\ \A k \in 1..Len(new) : ~Shut(f[new[k]]) /\ new[k] # a
  BY <1>1, <1>5, ChainOpen
<1>9. PICK after : /\ Moves(after, w, a, s, p, n)
                   /\ AffirmTransition(w, a) = after[Depth]
  BY <1>1, AffirmSteps
<1>10. after[0] = moved
       /\ \A k \in 1..Depth : after[k] = AffirmLevel(after[k - 1], s, a, old, new, k)
  BY <1>9 DEF Moves, moved
<1>. HIDE DEF old, new
<1>11. /\ S \subseteq Accounts /\ old \in [1..Len(old) -> S] /\ new \in [1..Len(new) -> S]
       /\ \A c \in S : ~Shut(moved.infos[c])
  <2>1. S \subseteq Accounts /\ old \in [1..Len(old) -> S] /\ new \in [1..Len(new) -> S]
    BY <1>7, <1>8
  <2>2. ASSUME NEW c \in S PROVE ~Shut(f[c]) /\ c # a
    BY <1>7, <1>8
  <2>. HIDE DEF S
  <2>. QED  BY <1>1, <1>3, <2>1, <2>2
<1>. HIDE DEF S, f
<1>12. Leaving(s, a) \in Links /\ Entering(s, a) \in Links /\ -1 \in Int /\ 1 \in Int
  <2>1. -1 \in Int /\ 1 \in Int
    OBVIOUS
  <2>. QED  BY <1>1, <2>1, LinksLeaving
<1> DEFINE A == {k \in 0..Depth : Along(TRUE, moved, after[k], S, rest, X, D)}
<1>13. 0 \in A
  <2>1. Along(TRUE, moved, moved, S, rest, X, D)
    BY <1>3, <1>4, <1>11 DEF Along
  <2>2. 0 \in 0..Depth
    BY Constants
  <2>. QED  BY <1>10, <2>1, <2>2
<1>14. ASSUME NEW k \in 1..Depth, k - 1 \in A PROVE k \in A
  <2> DEFINE u == after[k - 1]
             y == Shift(u, s, old, k, Leaving(s, a), -1)
             z == Shift(y, s, new, k, Entering(s, a), 1)
  <2>1. Along(TRUE, moved, u, S, rest, X, D)
    BY <1>14
  <2>2. after[k] = AffirmLevel(u, s, a, old, new, k)
    BY <1>10
  <2>. HIDE DEF u
  <2>3. after[k] = u \/ after[k] = z
    BY <2>2 DEF AffirmLevel
  <2>. HIDE DEF s
  <2>4. Along(TRUE, moved, y, S, rest, X, D)
    BY <1>1, <1>7, <1>11, <1>12, <2>1, ShiftAlong
  <2>. HIDE DEF y
  <2>5. Along(TRUE, moved, z, S, rest, X, D)
    BY <1>1, <1>8, <1>11, <1>12, <2>4, ShiftAlong
  <2>6. k \in 0..Depth
    BY Constants
  <2>. QED  BY <2>1, <2>3, <2>5, <2>6
<1>. HIDE DEF A
<1>15. \A k \in 0..Depth : k \in A
  BY <1>13, <1>14, UpTo, Constants
<1>16. Along(TRUE, moved, after[Depth], S, rest, X, D)
  <2>1. Depth \in 0..Depth
    BY Constants
  <2>. QED  BY <1>15, <2>1 DEF A
<1>. QED  BY <1>9, <1>16 DEF Along

-----------------------------------------------------------------------------
(* The import of a genesis file.                                           *)

\* Accounts of done delegate what D says, the others nothing yet.
Half(u, done, X, D) ==
    /\ Calm(u, {}, X, D)
    /\ u.broken \/ \A c \in Accounts :
         u.infos[c].lines["delegated"][0] = IF c \in done THEN D[c] ELSE 0

LEMMA HalfStep ==
    ASSUME now \in Nat, Earned, NEW u, NEW done, NEW X, NEW D, Half(u, done, X, D),
           NEW a \in Accounts, ~u.broken => ~IsEmpty(u.infos[a]),
           NEW h \in [coins : Int, delegated : Int], 0 <= h.delegated, h.delegated <= h.coins,
           D[a] = h.delegated
    PROVE  Half(OnBalanceChanged(u, a, h), done \cup {a}, X, D)
<1> DEFINE v == OnBalanceChanged(u, a, h)
<1>1. Sound(u)
  BY DEF Half, Calm
<1>2. Keeps(u, v)
  BY <1>1, BalanceChangedKeeps
<1>3. Sound(v) /\ (u.broken => v.broken)
  BY <1>2 DEF Keeps, Ends
<1>4. CASE u.broken
  BY <1>3, <1>4 DEF Half, Calm
<1>5. CASE ~u.broken
  <2>1. Changes(u, {}, X, D, D, a, h)
    BY <1>1, <1>5 DEF Changes, Half, Calm, Elsewhere
  <2>2. Calm(v, {}, X, D)
    BY <2>1, BalanceChangedQuiet
  <2>3. v.broken \/ \A c \in Accounts :
          v.infos[c].lines["delegated"][0] =
             IF c = a THEN h.delegated ELSE u.infos[c].lines["delegated"][0]
    BY <1>1, <1>5, BalanceStakes
  <2>. HIDE DEF v
  <2>4. \A c \in Accounts :
          u.infos[c].lines["delegated"][0] = IF c \in done THEN D[c] ELSE 0
    BY <1>5 DEF Half
  <2>5. v.broken \/ \A c \in Accounts :
          v.infos[c].lines["delegated"][0] = IF c \in done \cup {a} THEN D[c] ELSE 0
    BY <2>3, <2>4
  <2>6. Half(v, done \cup {a}, X, D)
    BY <2>2, <2>5 DEF Half
  <2>. QED  BY <2>6 DEF v
<1>. QED  BY <1>4, <1>5

\* The balances own of a file are due to the accounts of w, which have none yet.
Pending(w, X, D, own) ==
    /\ Calm(w, {}, X, D) /\ ~w.broken
    /\ \A a \in Accounts : /\ own[a] \in [coins : Int, delegated : Int]
                           /\ 0 <= own[a].delegated /\ own[a].delegated <= own[a].coins
                           /\ D[a] = own[a].delegated
                           /\ own[a] # Nothing => ~IsEmpty(w.infos[a])
                           /\ w.infos[a].lines["delegated"][0] = 0

(***************************************************************************)
(* The balances are imported.                                              *)
(***************************************************************************)
LEMMA FundedSteady ==
    ASSUME now \in Nat, Earned, NEW w, NEW X, NEW D, NEW own, Pending(w, X, D, own)
    PROVE  Steady(Funded(w, own), {}, X, D) /\ Keeps(w, Funded(w, own))
<1> DEFINE S == {a \in Accounts : own[a] # Nothing}
           v == Funded(w, own)
<1>1. Sound(w) /\ Keeps(w, v)
  BY FundedKeeps DEF Pending, Calm
<1>2. PICK after, order, L :
        /\ Trail(after, order, L, S, w, v)
        /\ \A k \in 1..L : after[k] = OnBalanceChanged(after[k - 1], order[k], own[order[k]])
  <2>1. FundedBy(w, own)
    BY <1>1, FundedSteps DEF Pending
  <2>. QED  BY <2>1 DEF FundedBy
<1>. HIDE DEF v
<1>3. /\ L \in Nat /\ order \in [1..L -> S] /\ \A a \in S : \E k \in 1..L : order[k] = a
      /\ after[0] = w /\ v = after[L] /\ \A k \in 0..L : Keeps(w, after[k])
  BY <1>2 DEF Trail
<1> DEFINE done(k) == {order[j] : j \in 1..k}
           A == {k \in 0..L : Half(after[k], done(k), X, D)}
<1>4. 0 \in A
  <2>1. done(0) = {}
    OBVIOUS
  <2>. HIDE DEF done
  <2>2. Half(w, done(0), X, D)
    BY <2>1 DEF Pending, Half
  <2>. QED  BY <1>3, <2>2
<1>5. ASSUME NEW k \in 1..L, k - 1 \in A PROVE k \in A
  <2> DEFINE u == after[k - 1]
             a == order[k]
  <2>1. a \in S /\ a \in Accounts /\ k \in 0..L /\ k - 1 \in 0..L
    BY <1>3
  <2>2. Half(u, done(k - 1), X, D) /\ Keeps(w, u)
    BY <1>3, <1>5, <2>1
  <2>3. after[k] = OnBalanceChanged(u, a, own[a])
    BY <1>2
  <2>4. done(k) = done(k - 1) \cup {a}
    <3>1. 1..k = (1..(k - 1)) \cup {k}
      BY <1>3
    <3>. QED  BY <3>1
  <2>. HIDE DEF u, done, a
  <2>5. ~u.broken => ~IsEmpty(u.infos[a])
    <3>1. ~IsEmpty(w.infos[a])
      BY <2>1 DEF Pending
    <3>. QED  BY <2>1, <2>2, <3>1 DEF Keeps, Ends, Stay
  <2>6. Half(OnBalanceChanged(u, a, own[a]), done(k - 1) \cup {a}, X, D)
    BY <2>1, <2>2, <2>5, HalfStep DEF Pending
  <2>. QED  BY <2>1, <2>3, <2>4, <2>6
<1>. HIDE DEF A
<1>6. \A k \in 0..L : k \in A
  BY <1>3, <1>4, <1>5, UpTo
<1>7. Half(v, done(L), X, D)
  <2>1. L \in 0..L
    BY <1>3
  <2>. QED  BY <1>3, <1>6, <2>1 DEF A
<1>8. ASSUME NEW c \in Accounts PROVE (IF c \in done(L) THEN D[c] ELSE 0) = D[c]
  <2>1. CASE c \in S
    BY <1>3, <2>1
  <2>2. CASE c \notin S
    <3>1. D[c] = 0
      <4>1. own[c] = Nothing /\ D[c] = own[c].delegated
        BY <2>2 DEF Pending
      <4>. QED  BY <4>1 DEF Nothing
    <3>. QED  BY <3>1
  <2>. QED  BY <2>1, <2>2
<1>. HIDE DEF done, S
<1>9. v.broken \/ Holds(v, D)
  BY <1>7, <1>8 DEF Half, Holds
<1>10. Steady(v, {}, X, D)
  BY <1>7, <1>9 DEF Half, Steady
<1>. QED  BY <1>1, <1>10 DEF v

(***************************************************************************)
(* Those who are active are imported.                                      *)
(***************************************************************************)
LEMMA RevivedSteady ==
    ASSUME now \in Nat, Earned, NEW w, NEW X \in SUBSET Accounts, NEW D, Steady(w, {}, X, D),
           w.broken \/ \A a \in X : ~w.infos[a].banished /\ ~IsEmpty(w.infos[a])
    PROVE  Steady(Revived(w, X), {}, {}, D)
<1> DEFINE v == Revived(w, X)
<1>1. Sound(w) /\ (w.broken \/ X \cap Banished(w.infos) = {})
  BY DEF Steady, Calm, Banished
<1>2. PICK after, order, L :
        /\ Trail(after, order, L, X, w, v)
        /\ \A k \in 1..L : after[k] = SetActive(after[k - 1], order[k], TRUE, FALSE)
  <2>1. RevivedBy(w, X)
    BY <1>1, RevivedSteps
  <2>. QED  BY <2>1 DEF RevivedBy
<1>. HIDE DEF v
<1>3. /\ L \in Nat /\ order \in [1..L -> X] /\ \A a \in X : \E k \in 1..L : order[k] = a
      /\ after[0] = w /\ v = after[L] /\ \A k \in 0..L : Keeps(w, after[k])
  BY <1>2 DEF Trail
<1> DEFINE left(k) == X \ {order[j] : j \in 1..k}
           A == {k \in 0..L : Steady(after[k], {}, left(k), D)}
<1>4. 0 \in A
  <2>1. left(0) = X
    OBVIOUS
  <2>. HIDE DEF left
  <2>. QED  BY <1>3, <2>1
<1>5. ASSUME NEW k \in 1..L, k - 1 \in A PROVE k \in A
  <2> DEFINE u == after[k - 1]
             a == order[k]
  <2>1. a \in X /\ a \in Accounts /\ k \in 0..L /\ k - 1 \in 0..L
    BY <1>3
  <2>2. Steady(u, {}, left(k - 1), D) /\ Keeps(w, u)
    BY <1>3, <1>5, <2>1
  <2>3. after[k] = SetActive(u, a, TRUE, FALSE)
    BY <1>2
  <2>4. left(k) = left(k - 1) \ {a}
    <3>1. 1..k = (1..(k - 1)) \cup {k}
      BY <1>3
    <3>. QED  BY <3>1
  <2>. HIDE DEF u, left, a
  <2>5. ~u.broken => ~u.infos[a].banished /\ ~IsEmpty(u.infos[a])
    BY <2>1, <2>2 DEF Keeps, Ends, Stay, Banished
  <2>6. Steady(SetActive(u, a, TRUE, FALSE), {}, left(k - 1) \ {a}, D)
    <3>1. PICK yes \in BOOLEAN : yes = TRUE
      OBVIOUS
    <3>2. PICK no \in BOOLEAN : no = FALSE
      OBVIOUS
    <3>3. Steady(SetActive(u, a, yes, no), {}, left(k - 1) \ {a}, D)
      BY <2>1, <2>2, <2>5, <3>1, ActivatedSteady
    <3>. QED  BY <3>1, <3>2, <3>3
  <2>. QED  BY <2>1, <2>3, <2>4, <2>6
<1>. HIDE DEF A
<1>6. \A k \in 0..L : k \in A
  BY <1>3, <1>4, <1>5, UpTo
<1>7. Steady(v, {}, left(L), D)
  <2>1. L \in 0..L
    BY <1>3
  <2>. QED  BY <1>3, <1>6, <2>1 DEF A
<1>8. left(L) = {}
  BY <1>3
<1>. QED  BY <1>7, <1>8 DEF v

(***************************************************************************)
(* A check of a record as it is.                                           *)
(***************************************************************************)
LEMMA RecheckedSteady ==
    ASSUME now \in Nat, Earned, NEW w, NEW rest, NEW X, NEW D, NEW a \in Accounts,
           Steady(w, rest, X, D), rest \subseteq Task(Handlers, Accounts)
    PROVE  Steady(Checked(w, a, w.infos[a]), rest, X, D)
<1> DEFINE r == w.infos[a]
           v == Checked(w, a, r)
<1>1. Sound(w) /\ w \in Worlds /\ r \in Records
  BY QuietFields DEF Steady, Calm
<1>2. SameStake(r, r)
  BY DEF SameStake
<1>3. Sound(v) /\ SameStakes(w, v) /\ (w.broken => v.broken)
  BY <1>1, <1>2, CheckedKeeps DEF Keeps, Ends
<1>4. v.broken \/ Holds(v, D)
  <2>. HIDE DEF v
  <2>. QED  BY <1>3, SameHolds DEF Steady
<1>5. ASSUME ~v.broken PROVE Quiet(v, rest, X, D)
  <2>1. Quiet(w, rest, X, D) /\ ~w.broken
    BY <1>3, <1>5 DEF Steady, Calm
  <2>2. SameTerms(r, r)
    BY DEF SameTerms
  <2>3. QuietBut(w, a, r, rest, X, D)
    BY <1>1, <2>1, <2>2, QuietRecord
  <2>4. Shut(r) /\ a \notin X => r.activeReferrals = {}
    BY <1>1, <2>1, ShutAlone
  <2>. HIDE DEF r
  <2>. QED  BY <1>1, <1>5, <2>3, <2>4, CheckedQuiet
<1>6. Steady(v, rest, X, D)
  BY <1>3, <1>4, <1>5 DEF Steady, Calm
<1>. QED  BY <1>6

LEMMA IteratedSteady ==
    ASSUME now \in Nat, Earned, NEW w, NEW X, NEW D, Steady(w, {}, X, D)
    PROVE  Steady(Iterated(w), {}, X, D)
<1> DEFINE S == {a \in Accounts : Exists(w.infos, a)}
           v == Iterated(w)
<1>1. Sound(w)
  BY DEF Steady, Calm
<1>2. PICK after, order, L :
        /\ Trail(after, order, L, S, w, v)
        /\ \A k \in 1..L : after[k] = Checked(after[k - 1], order[k], after[k - 1].infos[order[k]])
  <2>1. IteratedBy(w)
    BY <1>1, IteratedSteps
  <2>. QED  BY <2>1 DEF IteratedBy
<1>. HIDE DEF v
<1>3. /\ L \in Nat /\ order \in [1..L -> S] /\ after[0] = w /\ v = after[L]
  BY <1>2 DEF Trail
<1> DEFINE A == {k \in 0..L : Steady(after[k], {}, X, D)}
<1>4. 0 \in A
  BY <1>3
<1>5. ASSUME NEW k \in 1..L, k - 1 \in A PROVE k \in A
  <2> DEFINE u == after[k - 1]
             a == order[k]
  <2>1. a \in Accounts /\ k \in 0..L
    BY <1>3
  <2>2. Steady(u, {}, X, D)
    BY <1>5
  <2>3. after[k] = Checked(u, a, u.infos[a])
    BY <1>2
  <2>. HIDE DEF u, a
  <2>4. Steady(Checked(u, a, u.infos[a]), {}, X, D)
    BY <2>1, <2>2, RecheckedSteady
  <2>. QED  BY <2>1, <2>3, <2>4
<1>. HIDE DEF A, S
<1>6. \A k \in 0..L : k \in A
  BY <1>3, <1>4, <1>5, UpTo
<1>7. Steady(v, {}, X, D)
  <2>1. L \in 0..L
    BY <1>3
  <2>. QED  BY <1>3, <1>6, <2>1 DEF A
<1>. QED  BY <1>7 DEF v

LEMMA PlantedRecord ==
    ASSUME NEW file, file \in [Accounts -> Records], NEW store, NEW a \in Accounts
    PROVE  LET q == Planted(file, store).infos[a]
           IN  /\ SameTerms(file[a], q) /\ q.lines = file[a].lines
               /\ q.referrals = {b \in Accounts : file[b] # Empty /\ ~file[b].banished
                                                  /\ file[b].referrer = a}
<1> DEFINE R == {b \in Accounts : file[b] # Empty /\ ~file[b].banished /\ file[b].referrer = a}
           r == file[a]
           q == [r EXCEPT !.referrals = R]
<1>1. Planted(file, store).infos[a] = q
  BY DEF Planted
<1>2. r \in Info
  BY DEF Records
<1>. HIDE DEF R, r
<1>3. SameTerms(r, q) /\ q.lines = r.lines /\ q.referrals = R
  BY <1>2 DEF SameTerms, Info
<1>. HIDE DEF q
<1>. QED  BY <1>1, <1>3 DEF R, r

LEMMA PlantedStores ==
    ASSUME NEW file, file \in [Accounts -> Records], NEW store
    PROVE  LET w == Planted(file, store)
           IN  w.tasks = store /\ ~w.broken /\ IndexFits(w.index, w.infos)
<1> DEFINE w == Planted(file, store)
<1>1. w.tasks = store /\ ~w.broken
  BY DEF Planted
<1>2. w.index = {<<file[a].status, a>> : a \in {b \in Accounts : file[b].status >= MinIndexed}}
  BY DEF Planted
<1>3. \A a \in Accounts : w.infos[a].status = file[a].status
  BY PlantedRecord DEF SameTerms
<1>. HIDE DEF w
<1>4. IndexFits(w.index, w.infos)
  BY <1>2, <1>3 DEF IndexFits
<1>. QED  BY <1>1, <1>4 DEF w

\* The records of the file wait for the tasks of store; the accounts of X are
\* about to be active, and the balances own to be theirs.
Filed(file, store, X, own) ==
    /\ Stated(file) /\ store \subseteq Task(Handlers, Accounts) /\ X \subseteq Accounts
    /\ \A a \in Accounts :
         /\ own[a] \in [coins : Int, delegated : Int]
         /\ 0 <= own[a].delegated /\ own[a].delegated <= own[a].coins
         /\ own[a] # Nothing \/ a \in X => ~IsEmpty(file[a])
         /\ a \in X => ~file[a].banished
         /\ file[a].lines["delegated"][0] = 0 /\ Blank(file[a])
         /\ Sane(a, Planted(file, store).infos[a], X, own[a].delegated)
         /\ Timed(a, file[a], store)
    /\ BanishTasks(store, file) /\ ToCome(store)

LEMMA PlantedPending ==
    ASSUME NEW file, NEW store, NEW X, NEW own, Filed(file, store, X, own)
    PROVE  Pending(Planted(file, store), X, [a \in Accounts |-> own[a].delegated], own)
<1>. USE DEF Filed
<1> DEFINE w == Planted(file, store)
           D == [a \in Accounts |-> own[a].delegated]
<1>1. Sound(w) /\ Stay(file, w.infos)
  BY PlantedSound
<1>2. file \in [Accounts -> Records]
  BY DEF Stated
<1>3. w.tasks = store /\ ~w.broken /\ IndexFits(w.index, w.infos)
  BY <1>2, PlantedStores
<1>4. \A a \in Accounts :
        /\ SameTerms(file[a], w.infos[a]) /\ w.infos[a].lines = file[a].lines
        /\ w.infos[a].referrals = {b \in Accounts : file[b] # Empty /\ ~file[b].banished
                                                    /\ file[b].referrer = a}
  BY <1>2, PlantedRecord
<1>5. \A a \in Accounts : Sane(a, w.infos[a], X, D[a])
  OBVIOUS
<1>6. \A a \in Accounts : own[a] # Nothing => ~IsEmpty(w.infos[a])
  BY <1>1 DEF Stay
<1>7. ASSUME NEW a \in Accounts PROVE Blank(w.infos[a])
  <2>1. ASSUME IsEmpty(w.infos[a]) PROVE w.infos[a] = file[a] /\ Blank(file[a])
    <3>1. IsEmpty(file[a])
      BY <1>4, <2>1 DEF SameTerms, IsEmpty
    <3>2. Blank(file[a])
      OBVIOUS
    <3> DEFINE R == {b \in Accounts : file[b] # Empty /\ ~file[b].banished /\ file[b].referrer = a}
    <3>3. \A b \in Accounts : file[b].referrer # a
      BY <3>1, Constants DEF Stated
    <3>4. R = {}
      BY <3>3
    <3>5. w.infos[a] = [file[a] EXCEPT !.referrals = R]
      BY DEF Planted
    <3>6. file[a].referrals = {}
      BY <3>1, <3>2, BlankFields
    <3>7. [file[a] EXCEPT !.referrals = {}] = file[a]
      BY <1>2, <3>6 DEF Records, Info
    <3>. HIDE DEF R, w
    <3>. QED  BY <3>2, <3>4, <3>5, <3>7
  <2>. QED  BY <2>1 DEF Blank
<1>8. ASSUME NEW a \in Accounts PROVE Timed(a, w.infos[a], w.tasks \cup {})
  <2>1. w.tasks \cup {} = store
    BY <1>3
  <2>2. Timed(a, file[a], store) /\ SameTerms(file[a], w.infos[a])
    BY <1>4
  <2>. HIDE DEF w
  <2>. QED  BY <2>1, <2>2 DEF Timed, SameTerms
<1>9. BanishTasks(w.tasks \cup {}, w.infos)
  <2>1. w.tasks \cup {} = store
    BY <1>3
  <2>2. \A t \in store : t.data \in Accounts
    BY DEF Task
  <2>. HIDE DEF w
  <2>. QED  BY <1>4, <2>1, <2>2 DEF BanishTasks, SameTerms
<1>10. Quiet(w, {}, X, D)
  <2>. HIDE DEF w, D
  <2>. QED  BY <1>3, <1>5, <1>7, <1>8, <1>9 DEF Quiet
<1>11. \A a \in Accounts : w.infos[a].lines["delegated"][0] = 0
  BY <1>4
<1>12. \A a \in Accounts : /\ own[a] \in [coins : Int, delegated : Int]
                          /\ 0 <= own[a].delegated /\ own[a].delegated <= own[a].coins
                          /\ D[a] = own[a].delegated
  OBVIOUS
<1>. HIDE DEF w, D
<1>13. Calm(w, {}, X, D)
  BY <1>1, <1>10 DEF Calm
<1>. QED  BY <1>3, <1>6, <1>11, <1>12, <1>13 DEF Pending, w, D

LEMMA InitGenesisSettled ==
    ASSUME now \in Nat, Earned, NEW file, NEW store, NEW X, NEW own, Filed(file, store, X, own)
    PROVE  Settled(InitGenesis(file, store, own, X), {})
<1> DEFINE w0 == Planted(file, store)
           w1 == Funded(w0, own)
           w2 == Revived(w1, X)
           w3 == Iterated(w2)
           D == [a \in Accounts |-> own[a].delegated]
<1>1. Pending(w0, X, D, own)
  BY PlantedPending
<1>2. InitGenesis(file, store, own, X) = w3
  BY DEF InitGenesis
<1>3. Stay(file, w0.infos) /\ Banished(w0.infos) = Banished(file) /\ X \in SUBSET Accounts
  BY PlantedSound DEF Filed
<1>. HIDE DEF w0, D
<1>4. Steady(w1, {}, X, D) /\ Keeps(w0, w1)
  BY <1>1, FundedSteady
<1>. HIDE DEF w1
<1>5. w1.broken \/ \A a \in X : ~w1.infos[a].banished /\ ~IsEmpty(w1.infos[a])
  <2>1. \A a \in X : a \in Accounts /\ ~IsEmpty(file[a]) /\ a \notin Banished(file)
    BY DEF Filed, Banished
  <2>. QED  BY <1>3, <1>4, <2>1 DEF Keeps, Ends, Stay, Banished
<1>6. Steady(w2, {}, {}, D)
  BY <1>3, <1>4, <1>5, RevivedSteady
<1>. HIDE DEF w2
<1>7. Steady(w3, {}, {}, D)
  BY <1>6, IteratedSteady
<1>. QED  BY <1>2, <1>7, SteadySettled

LEMMA FirstRecordTerms ==
    ASSUME NEW g \in Genesis, NEW a \in DOMAIN g.referrer
    PROVE  LET r == FirstRecord(g, a)
           IN  /\ r.compressionAt = IF a \in Late(g) THEN CompressionPeriod ELSE NoTime
               /\ r.banishmentAt = NoTime /\ r.transition = None /\ r.downgradeAt = NoTime
BY DEF FirstRecord, NewInfo, Empty

(***************************************************************************)
(* The accounts of a new chain wait for their compression, unless they are *)
(* active or at the top.                                                   *)
(***************************************************************************)
LEMMA FirstFiled ==
    ASSUME now = 0, phase = "genesis", NEW g \in Genesis
    PROVE  Filed(FirstFile(g), FirstStore(g), g.active, FirstOwn(g))
<1> DEFINE file == FirstFile(g)
           store == FirstStore(g)
           own == FirstOwn(g)
           X == g.active
           here == DOMAIN g.referrer
<1>1. Stated(file) /\ store \subseteq Task(Handlers, Accounts) /\ X \subseteq Accounts
  BY FirstFileStated, NewChainParts
<1>2. \A a \in here : /\ file[a] = FirstRecord(g, a)
                      /\ NewRecord(file[a], g.referrer[a], Nothing)
  BY FirstFileStated
<1>3. \A a \in Accounts \ here : file[a] = Empty /\ own[a] = Nothing /\ a \notin X
  BY FirstFileStated, NewChainParts DEF FirstOwn
<1>4. \A a \in Accounts : /\ own[a] \in [coins : Int, delegated : Int]
                          /\ 0 <= own[a].delegated /\ own[a].delegated <= own[a].coins
  BY NewChainParts DEF Holding
<1>5. \A a \in here :
        LET r == file[a]
        IN  /\ r.compressionAt = IF a \in Late(g) THEN CompressionPeriod ELSE NoTime
            /\ r.banishmentAt = NoTime /\ r.transition = None /\ r.downgradeAt = NoTime
  BY <1>2, FirstRecordTerms
<1>6. file \in [Accounts -> Records] /\ here \subseteq Accounts
  BY <1>1, NewChainParts DEF Stated
<1>7. CompressionPeriod \in Nat /\ CompressionPeriod > 0 /\ CompressionPeriod # NoTime
  BY Constants DEF CompressionPeriod
<1>8. \A t \in store : t.handler = "compression" /\ t.time = CompressionPeriod
  BY DEF FirstStore, Timer
<1>9. \A a \in Late(g) : Timer(CompressionPeriod, "compression", a) \in store
  BY DEF FirstStore
<1>. HIDE DEF file, store, own
<1>10. BanishTasks(store, file) /\ ToCome(store)
  BY <1>7, <1>8 DEF BanishTasks, ToCome
<1>11. ASSUME NEW a \in here
       PROVE  /\ ~IsEmpty(file[a]) /\ ~file[a].banished
              /\ file[a].lines["delegated"][0] = 0 /\ Blank(file[a])
              /\ Sane(a, Planted(file, store).infos[a], X, own[a].delegated)
              /\ Timed(a, file[a], store)
  <2> DEFINE q == Planted(file, store).infos[a]
             r == file[a]
  <2>1. /\ r.status = 1 /\ ~r.banished /\ ~r.active /\ r.referrer = g.referrer[a]
        /\ r.lines["delegated"][0] = 0
    BY <1>2 DEF NewRecord, Nothing
  <2>2. SameTerms(r, q)
    BY <1>6, PlantedRecord
  <2>3. a \in Accounts
    BY <1>6
  <2>4. /\ r.compressionAt = IF a \in Late(g) THEN CompressionPeriod ELSE NoTime
        /\ r.banishmentAt = NoTime /\ r.transition = None /\ r.downgradeAt = NoTime
    BY <1>5
  <2>. HIDE DEF q, r
  <2>5. Shut(q) => a \in X
    BY <1>7, <2>1, <2>2, <2>4 DEF Shut, SameTerms, Late
  <2>6. Sane(a, q, X, own[a].delegated)
    BY <2>1, <2>2, <2>4, <2>5 DEF Sane, SameTerms
  <2>7. Timed(a, r, store)
    BY <1>9, <2>4 DEF Timed, Armed
  <2>. QED  BY <2>1, <2>6, <2>7 DEF IsEmpty, Blank, q, r
<1>12. ASSUME NEW a \in Accounts \ here
       PROVE  /\ ~file[a].banished
              /\ file[a].lines["delegated"][0] = 0 /\ Blank(file[a])
              /\ Sane(a, Planted(file, store).infos[a], X, own[a].delegated)
              /\ Timed(a, file[a], store)
  <2> DEFINE q == Planted(file, store).infos[a]
             r == file[a]
  <2>1. /\ r = Empty /\ r.status = 0 /\ ~r.banished /\ ~r.active /\ r.referrer = None
        /\ r.lines["delegated"][0] = 0 /\ r.banishmentAt = NoTime /\ r.transition = None
        /\ r.downgradeAt = NoTime
    <3>1. r = Empty
      BY <1>3
    <3>2. Empty.status = 0 /\ Empty.banishmentAt = NoTime /\ Empty.transition = None
      BY DEF Empty
    <3>. QED  BY <3>1, <3>2, EmptyRecord
  <2>2. SameTerms(r, q)
    BY <1>6, PlantedRecord
  <2>. HIDE DEF q, r
  <2>6. Sane(a, q, X, own[a].delegated)
    BY <2>1, <2>2 DEF Sane, SameTerms, Shut
  <2>7. Timed(a, r, store)
    BY <2>1 DEF Timed, Armed
  <2>. QED  BY <2>1, <2>6, <2>7, EmptyBlank DEF q, r
<1>13. X \subseteq here
  BY NewChainParts
<1>. HIDE DEF here, X
<1>14. \A a \in Accounts : own[a] # Nothing \/ a \in X => ~IsEmpty(file[a])
  BY <1>3, <1>11, <1>13
<1>. QED  BY <1>1, <1>4, <1>10, <1>11, <1>12, <1>14 DEF Filed, file, store, own, X

\* What ExportToGenesis makes of a record.
LEMMA ExportedTerms ==
    ASSUME NEW r \in Records, r.banished => r.compressionAt = NoTime /\ r.banishmentAt = NoTime
                                            /\ r.downgradeAt = NoTime /\ r.status = 0,
           Blank(r), NEW stored \in BOOLEAN
    PROVE  LET q == Exported(r, stored)
           IN  /\ q.referrer = r.referrer /\ q.banished = r.banished /\ ~q.active
               /\ q.compressionAt = r.compressionAt /\ q.banishmentAt = r.banishmentAt
               /\ q.downgradeAt = r.downgradeAt
               /\ q.transition = r.transition \/ q.transition = None
               /\ (r.status <= 1 => q.status <= 1) /\ (r.banished => q.status = 0)
               /\ q.lines["delegated"][0] = 0 /\ Blank(q) /\ (IsEmpty(q) => IsEmpty(r))
<1> DEFINE q == Exported(r, stored)
           e == Empty
<1>1. CASE r = Empty /\ ~stored
  <2>1. q = r
    BY <1>1, EmptyRecord DEF Exported
  <2>. HIDE DEF q
  <2>. QED  BY <1>1, <2>1, EmptyRecord DEF q
<1>2. CASE r.banished
  <2>1. q = [e EXCEPT !.referrer = r.referrer, !.banished = TRUE]
    BY <1>2, EmptyRecord DEF Exported
  <2>2. /\ e.status = 0 /\ ~e.active /\ e.compressionAt = NoTime /\ e.banishmentAt = NoTime
        /\ e.downgradeAt = NoTime /\ e.transition = None /\ e.lines["delegated"][0] = 0
        /\ e \in Info
    BY EmptyRecord DEF Empty, Records
  <2>3. r.banished = TRUE
    BY <1>2 DEF Records, Info
  <2>. HIDE DEF e, q
  <2>4. /\ q.referrer = r.referrer /\ q.banished = TRUE /\ ~q.active
        /\ q.compressionAt = NoTime /\ q.banishmentAt = NoTime /\ q.downgradeAt = NoTime
        /\ q.transition = None /\ q.status = 0 /\ q.lines["delegated"][0] = 0
    BY <2>1, <2>2 DEF Info
  <2>. QED  BY <1>2, <2>3, <2>4 DEF Blank, IsEmpty, q
<1>3. CASE ~(r = Empty /\ ~stored) /\ ~r.banished
  <2> DEFINE n == [NewInfo(r.referrer, Nothing) EXCEPT !.compressionAt = r.compressionAt]
             s == IF r.downgradeAt = NoTime THEN 1 ELSE r.status
  <2>1. q = [n EXCEPT !.status = s, !.banishmentAt = r.banishmentAt,
                      !.downgradeAt = r.downgradeAt, !.transition = r.transition]
    BY <1>3 DEF Exported, NewInfo
  <2>2. r \in Info /\ r.referrer \in Parents /\ r.compressionAt \in Moments
    BY InfoFields DEF Records
  <2>3. Nothing \in Holding /\ Nothing.delegated = 0
    BY DEF Nothing, Holding
  <2>4. NewRecord(n, r.referrer, Nothing)
    BY <2>2, <2>3, NewInfoRecord
  <2>5. n.compressionAt = r.compressionAt
    BY DEF NewInfo, Empty
  <2>6. n \in Info /\ n.referrer = r.referrer /\ n.banished = FALSE /\ ~n.active
        /\ n.lines["delegated"][0] = 0
    <3>. HIDE DEF n
    <3>. QED  BY <2>3, <2>4 DEF NewRecord, Records, Info
  <2>7. r.banished = FALSE /\ r.status \in 0..MaxStatus
    BY <1>3, <2>2 DEF Info
  <2>8. s # 0 /\ (r.status <= 1 => s <= 1)
    <3>1. r.status = 0 => r.downgradeAt = NoTime
      BY <2>7, BlankFields DEF IsEmpty
    <3>. QED  BY <2>7, <3>1, Constants
  <2>. HIDE DEF n, s, q
  <2>9. /\ q.referrer = r.referrer /\ q.banished = FALSE /\ ~q.active
        /\ q.compressionAt = r.compressionAt /\ q.banishmentAt = r.banishmentAt
        /\ q.downgradeAt = r.downgradeAt
        /\ q.transition = r.transition /\ q.status = s /\ q.lines["delegated"][0] = 0
    BY <2>1, <2>5, <2>6 DEF Info
  <2>. QED  BY <2>7, <2>8, <2>9 DEF Blank, IsEmpty, q
<1>. QED  BY <1>1, <1>2, <1>3

\* Balances and activity, as they are exported along with the records f.
Balances(f) == [a \in Accounts |-> [coins |-> f[a].lines["coins"][0],
                                    delegated |-> f[a].lines["delegated"][0]]]
ActiveOnes(f) == {a \in Accounts : f[a].active}

LEMMA ExportedSane ==
    ASSUME NEW a, NEW r, NEW q, NEW X, NEW x, Sane(a, r, {}, x), a \in X <=> r.active,
           q.referrer = r.referrer, q.banished = r.banished, ~q.active,
           q.compressionAt = r.compressionAt, q.banishmentAt = r.banishmentAt,
           q.downgradeAt = r.downgradeAt, r.status <= 1 => q.status <= 1, r.banished => q.status = 0,
           q.referrals = r.referrals
    PROVE  Sane(a, q, X, x)
<1>1. Shut(q) /\ a \notin X => Shut(r)
  BY DEF Shut
<1>2. r.banished => r.status <= 1
  BY DEF Sane
<1>3. Expelled(r, x) => Expelled(q, x)
  BY DEF Expelled
<1>. QED  BY <1>1, <1>2, <1>3 DEF Sane

(***************************************************************************)
(* The exported records wait for what those of the chain wait for.         *)
(***************************************************************************)
LEMMA ExportedFiled ==
    ASSUME NEW w, Sound(w), ~w.broken, Quiet(w, {}, {}, Stakes(w.infos)), NEW S
    PROVE  Filed([a \in Accounts |-> Exported(w.infos[a], a \in S)], w.tasks,
                 ActiveOnes(w.infos), Balances(w.infos))
<1> DEFINE f == w.infos
           file == [a \in Accounts |-> Exported(f[a], a \in S)]
           X == ActiveOnes(f)
           own == Balances(f)
<1>1. /\ f \in [Accounts -> Records] /\ Good(f) /\ w.tasks \subseteq Task(Handlers, Accounts)
  BY WorldFields DEF Sound
<1>2. Stated(file) /\ Banished(file) = Banished(f)
  BY <1>1, ExportedStated
<1>3. \A a \in Accounts : file[a] = Exported(f[a], a \in S) /\ (a \in S) \in BOOLEAN
  OBVIOUS
<1>. HIDE DEF file
<1>4. file \in [Accounts -> Records]
  BY <1>2 DEF Stated
<1>5. \A a \in Accounts : /\ own[a].coins = f[a].lines["coins"][0]
                          /\ own[a].delegated = f[a].lines["delegated"][0]
                          /\ own[a] = [coins |-> f[a].lines["coins"][0],
                                       delegated |-> f[a].lines["delegated"][0]]
  BY DEF Balances
<1>6. \A a \in Accounts :
        /\ own[a] \in [coins : Int, delegated : Int]
        /\ 0 <= own[a].delegated /\ own[a].delegated <= own[a].coins
  <2>1. \A a \in Accounts :
          /\ f[a].lines["coins"][0] \in Int /\ f[a].lines["delegated"][0] \in Int
          /\ Wealthy(f[a])
    BY <1>1, InfoFields, Constants DEF Records, Good
  <2>2. ASSUME NEW a \in Accounts PROVE own[a] \in [coins : Int, delegated : Int]
    BY <2>1 DEF Balances
  <2>. HIDE DEF own, f
  <2>. QED  BY <1>5, <2>1, <2>2 DEF Wealthy
<1>7. \A a \in Accounts :
        /\ Blank(f[a]) /\ Sane(a, f[a], {}, own[a].delegated) /\ Timed(a, f[a], w.tasks)
  <2>1. w.tasks \cup {} = w.tasks
    OBVIOUS
  <2>. QED  BY <1>5, <2>1 DEF Quiet, Stakes
<1>8. BanishTasks(w.tasks, f) /\ ToCome(w.tasks)
  BY DEF Quiet
<1>9. ASSUME NEW a \in Accounts
      PROVE  LET r == f[a]
                 q == file[a]
             IN  /\ q.referrer = r.referrer /\ q.banished = r.banished /\ ~q.active
                 /\ q.compressionAt = r.compressionAt /\ q.banishmentAt = r.banishmentAt
                 /\ q.downgradeAt = r.downgradeAt
                 /\ q.transition = r.transition \/ q.transition = None
                 /\ (r.status <= 1 => q.status <= 1) /\ (r.banished => q.status = 0)
                 /\ q.lines["delegated"][0] = 0 /\ Blank(q) /\ (IsEmpty(q) => IsEmpty(r))
  <2>1. f[a] \in Records /\ Blank(f[a])
    BY <1>1, <1>7
  <2>2. f[a].banished => /\ f[a].compressionAt = NoTime /\ f[a].banishmentAt = NoTime
                         /\ f[a].downgradeAt = NoTime /\ f[a].status = 0
    BY <1>7 DEF Sane
  <2>. HIDE DEF f
  <2> DEFINE r == f[a]
             stored == a \in S
             q == Exported(r, stored)
  <2>3. r \in Records /\ Blank(r) /\ stored \in BOOLEAN /\ q = file[a]
    BY <1>3, <2>1
  <2>4. r.banished => /\ r.compressionAt = NoTime /\ r.banishmentAt = NoTime
                      /\ r.downgradeAt = NoTime /\ r.status = 0
    BY <2>2
  <2>. HIDE DEF r, stored
  <2>5. /\ q.referrer = r.referrer /\ q.banished = r.banished /\ ~q.active
        /\ q.compressionAt = r.compressionAt /\ q.banishmentAt = r.banishmentAt
        /\ q.downgradeAt = r.downgradeAt
        /\ q.transition = r.transition \/ q.transition = None
        /\ (r.status <= 1 => q.status <= 1) /\ (r.banished => q.status = 0)
        /\ q.lines["delegated"][0] = 0 /\ Blank(q) /\ (IsEmpty(q) => IsEmpty(r))
    BY <2>3, <2>4, ExportedTerms
  <2>. QED  BY <2>3, <2>5 DEF r
<1>. HIDE DEF own, f, X
<1>10. BanishTasks(w.tasks, file)
  <2>1. \A t \in w.tasks : t.data \in Accounts
    BY <1>1 DEF Task
  <2>. QED  BY <1>8, <1>9, <2>1 DEF BanishTasks
<1>11. \A a \in Accounts : a \in X <=> f[a].active
  BY DEF X, ActiveOnes, f
<1>12. ASSUME NEW a \in Accounts PROVE Sane(a, Planted(file, w.tasks).infos[a], X, own[a].delegated)
  <2> DEFINE q == Planted(file, w.tasks).infos[a]
             u == file[a]
             r == f[a]
             R == {b \in Accounts : file[b] # Empty /\ ~file[b].banished /\ file[b].referrer = a}
  <2>1. SameTerms(u, q) /\ q.referrals = R
    BY <1>4, PlantedRecord
  <2>2. \A b \in Accounts : file[b].referrer = a => file[b] # Empty
    BY EmptyRecord, Constants
  <2>3. R = {b \in Accounts : ~f[b].banished /\ f[b].referrer = a}
    BY <1>9, <2>2
  <2>4. r.referrals = {b \in Accounts : ~f[b].banished /\ f[b].referrer = a}
    BY <1>1 DEF Good, Tree
  <2>5. /\ u.referrer = r.referrer /\ u.banished = r.banished /\ ~u.active
        /\ u.compressionAt = r.compressionAt /\ u.banishmentAt = r.banishmentAt
        /\ u.downgradeAt = r.downgradeAt
        /\ (r.status <= 1 => u.status <= 1) /\ (r.banished => u.status = 0)
    BY <1>9
  <2>6. q.referrals = r.referrals
    BY <2>1, <2>3, <2>4
  <2>. HIDE DEF q, u, r, R
  <2>7. Sane(a, r, {}, own[a].delegated) /\ (a \in X <=> r.active)
    BY <1>7, <1>11 DEF r
  <2>8. /\ q.referrer = r.referrer /\ q.banished = r.banished /\ ~q.active
        /\ q.compressionAt = r.compressionAt /\ q.banishmentAt = r.banishmentAt
        /\ q.downgradeAt = r.downgradeAt
        /\ (r.status <= 1 => q.status <= 1) /\ (r.banished => q.status = 0)
    BY <2>1, <2>5 DEF SameTerms
  <2>9. Sane(a, q, X, own[a].delegated)
    BY <2>6, <2>7, <2>8, ExportedSane
  <2>. QED  BY <2>9 DEF q
<1>13. ASSUME NEW a \in Accounts PROVE Timed(a, file[a], w.tasks)
  BY <1>7, <1>9 DEF Timed
<1>14. \A a \in Accounts : IsEmpty(f[a]) => own[a] = Nothing /\ a \notin X
  BY <1>5, <1>7, <1>11, BlankFields DEF Nothing
<1>15. \A a \in Accounts : a \in X => ~file[a].banished
  BY <1>9, <1>11, <1>7 DEF Sane
<1>16. X \subseteq Accounts
  BY DEF X, ActiveOnes
<1>17. \A a \in Accounts : own[a] # Nothing \/ a \in X => ~IsEmpty(file[a])
  BY <1>9, <1>14
<1>18. Filed(file, w.tasks, X, own)
  BY <1>1, <1>2, <1>6, <1>8, <1>9, <1>10, <1>12, <1>13, <1>15, <1>16, <1>17 DEF Filed
<1>. QED  BY <1>18 DEF file, X, own, f

\* Every time has its task, and every task its reason.
Timely ==
    /\ Quiet(World, due, {}, Stakes(info))
    /\ phase # "pass" => due = {}
    /\ \A t \in due : t.time <= now
    /\ \A a \in profiles : ~IsEmpty(info[a])

\* The step comes to the world w, with the tasks of rest still to run.
ComesTo(w, rest) ==
    /\ Quiet(w, rest, {}, Stakes(w.infos))
    /\ info' = w.infos /\ tasks' = w.tasks /\ index' = w.index /\ due' = rest
    /\ now \in Nat /\ now' \in Nat /\ now <= now'
    /\ \/ now' = now /\ (phase \in {"begin", "pass"} => phase' \in {"begin", "pass"})
       \/ \A a \in Accounts : w.infos[a].banishmentAt # NoTime => w.infos[a].compressionAt = NoTime
    /\ \A t \in w.tasks : phase' # "begin" => t.time > now'

LEMMA QuietNext ==
    ASSUME NEW w, NEW rest, ComesTo(w, rest), w \in Worlds, rest \subseteq Task(Handlers, Accounts)
    PROVE  Quiet(World, due, {}, Stakes(info))'
<1>. USE DEF ComesTo
<1>1. IndexFits(World.index, World.infos)'
  BY DEF Quiet, IndexFits, World
<1>2. ToCome(World.tasks)'
  BY DEF ToCome, World
<1>3. BanishTasks(World.tasks \cup due, World.infos)'
  BY DEF Quiet, BanishTasks, World
<1>4. ASSUME NEW a \in Accounts PROVE Timed(a, World.infos[a], World.tasks \cup due)'
  <2> DEFINE r == w.infos[a]
             P == w.tasks \cup rest
  <2>1. Timed(a, r, P)
    BY DEF Quiet
  <2>2. World.infos[a]' = r /\ (World.tasks \cup due)' = P
    BY DEF World
  <2>3. \A t \in P : t.time \in Nat
    BY WorldFields DEF Task
  <2>. HIDE DEF r, P
  <2>4. \A t \in P : t.time <= now + Day => t.time <= now' + Day
    BY <2>3, Constants
  <2>5. /\ r.referrer # None /\ r.compressionAt # NoTime => Timer(r.compressionAt, "compression", a) \in P
        /\ r.banishmentAt # NoTime => Timer(r.banishmentAt, "banish", a) \in P
        /\ r.downgradeAt # NoTime => Timer(r.downgradeAt, "downgrade", a) \in P
        /\ r.transition # None =>
             \E t \in P : t.handler = "transition-timeout" /\ t.data = a /\ t.time <= now' + Day
    BY <2>1, <2>4 DEF Timed, Armed
  <2>. QED  BY <2>2, <2>5 DEF Timed, Armed
<1>5. ASSUME NEW a \in Accounts PROVE Blank(World.infos[a])'
  BY DEF Quiet, Blank, World
<1>6. ASSUME NEW a \in Accounts PROVE Sane(a, World.infos[a], {}, Stakes(info)[a])'
  <2> DEFINE r == w.infos[a]
             x == r.lines["delegated"][0]
  <2>1. Sane(a, r, {}, x)
    BY DEF Quiet, Stakes
  <2>2. World.infos[a]' = r /\ Stakes(info)[a]' = x
    BY DEF World, Stakes
  <2>3. r.banishmentAt # NoTime =>
          /\ r.referrer # None /\ ~r.active /\ ~r.banished /\ x <= Dust
          /\ \/ r.compressionAt = NoTime
             \/ /\ phase' \in {"begin", "pass"} /\ r.compressionAt < now'
                /\ r.banishmentAt = now' + Month
    BY <2>1 DEF Sane, Expelled
  <2>. HIDE DEF r, x
  <2>. QED  BY <2>1, <2>2, <2>3 DEF Sane, Expelled, Shut
<1>. QED  BY <1>1, <1>2, <1>3, <1>4, <1>5, <1>6 DEF Quiet

LEMMA WorldSteady ==
    ASSUME IInv, Timely
    PROVE  /\ Steady(World, due, {}, Stakes(info)) /\ ~World.broken /\ World.infos = info
           /\ Sound(World) /\ Quiet(World, due, {}, Stakes(info)) /\ now \in Nat
           /\ due \subseteq Task(Handlers, Accounts)
<1>1. Sound(World) /\ ~World.broken /\ World.infos = info /\ now \in Nat
  BY WorldSound
<1>2. Quiet(World, due, {}, Stakes(info)) /\ due \subseteq Task(Handlers, Accounts)
  BY DEF Timely, IInv
<1>3. Settled(World, due)
  BY <1>1, <1>2 DEF Settled
<1>. QED  BY <1>1, <1>2, <1>3, SettledSteady

LEMMA SettledNext ==
    ASSUME IInv, NEW w, NEW rest, rest \subseteq Task(Handlers, Accounts),
           Settled(w, rest), ~w.broken, info' = w.infos, tasks' = w.tasks, index' = w.index,
           due' = rest, now' = now,
           phase \in {"begin", "pass"} => phase' \in {"begin", "pass"},
           phase = "begin" => phase' = "begin"
    PROVE  Quiet(World, due, {}, Stakes(info))'
<1>1. w \in Worlds /\ Quiet(w, rest, {}, Stakes(w.infos))
  BY DEF Settled, Sound
<1>2. \A t \in w.tasks : phase' # "begin" => t.time > now'
  BY <1>1 DEF Quiet, ToCome
<1>3. ComesTo(w, rest)
  BY <1>1, <1>2 DEF ComesTo, IInv
<1>. QED  BY <1>1, <1>3, QuietNext

\* A transaction, or a call of another module.
LEMMA CallTimely ==
    ASSUME IInv, Timely, Kept, Call, NEW w, Settled(w, due), Hook(w), ~w.broken,
           \A a \in profiles' \ profiles : ~IsEmpty(w.infos[a])
    PROVE  Timely'
<1>1. now' = now /\ phase' = phase /\ due' = due
  BY DEF Call
<1>2. info' = w.infos /\ tasks' = w.tasks /\ index' = w.index
  BY DEF Hook
<1>3. due \subseteq Task(Handlers, Accounts) /\ profiles \subseteq Accounts
  BY DEF IInv
<1>4. Quiet(World, due, {}, Stakes(info))'
  BY <1>1, <1>2, <1>3, SettledNext
<1>5. ASSUME NEW a \in profiles' PROVE ~IsEmpty(info'[a])
  <2>1. CASE a \in profiles
    <3>1. ~IsEmpty(info[a]) /\ a \in Accounts
      BY <1>3, <2>1 DEF Timely
    <3>. QED  BY <3>1 DEF Kept, Stay
  <2>. QED  BY <1>2, <2>1
<1>6. /\ phase' # "pass" => due' = {}
      /\ \A t \in due' : t.time <= now'
  BY <1>1 DEF Timely
<1>. QED  BY <1>4, <1>5, <1>6 DEF Timely

LEMMA CreateAccountTimely ==
    ASSUME Earned, IInv, Timely, NEW p \in Accounts, NEW a \in Accounts, NEW h \in Holdings,
           CreateAccount(p, a, h)
    PROVE  Timely'
<1> DEFINE v == AppendChild(World, p, a, h)
           w == Scheduled(v, now + CompressionPeriod, "compression", a)
           D == Stakes(info)
<1>1. /\ Call /\ a # p /\ ~Exists(info, a) /\ Tx(w) /\ profiles' = profiles \cup {a}
      /\ phase = "txs" /\ h.delegated = 0 /\ ~RegistrationClosed(info[p])
  BY DEF CreateAccount
<1>2. Kept
  BY CreateAccountKept
<1>3. Steady(World, due, {}, D) /\ ~World.broken /\ World.infos = info /\ now \in Nat
      /\ due \subseteq Task(Handlers, Accounts)
  BY WorldSteady
<1> DEFINE u == World
<1>. HIDE DEF D, u
<1>4. Newcomer(u, due, {}, D, p, a, h)
  BY <1>1, <1>3, Constants DEF Newcomer, u
<1>5. Steady(w, due, {}, D) /\ (v.broken \/ ~IsEmpty(v.infos[a]))
  BY <1>3, <1>4, AppendedSteady DEF u
<1>6. w.infos = v.infos /\ w.broken = v.broken
  <2>1. v \in Worlds
    <3>1. Keeps(u, v)
      BY <1>1, <1>3, Constants, AppendChildKeeps, WorldSound DEF u
    <3>. QED  BY <3>1 DEF Keeps, Ends, Sound
  <2>2. now + CompressionPeriod \in Nat /\ "compression" \in Handlers
    BY <1>3, Constants DEF CompressionPeriod, Handlers
  <2>. HIDE DEF v
  <2>. QED  BY <2>1, <2>2, ScheduledWorld
<1>. HIDE DEF v, w
<1>7. ~w.broken /\ Hook(w)
  BY <1>1 DEF Tx, Hook
<1>8. Settled(w, due)
  BY <1>5, SteadySettled
<1>. QED  BY <1>1, <1>2, <1>5, <1>6, <1>7, <1>8, CallTimely

LEMMA PayTariffTimely ==
    ASSUME Earned, IInv, Timely, NEW a \in Accounts, PayTariff(a)
    PROVE  Timely'
<1> DEFINE u == World
           back == IF info[a].banished THEN ComeBack(u, a) ELSE u
           paid == Paid(back, a, Tariff)
           w == SetActive(paid, a, TRUE, TRUE)
           D == Stakes(info)
<1>1. /\ Call /\ Free(info[a]) >= Tariff /\ Tx(w) /\ profiles' = profiles
      /\ phase = "txs" /\ a \in profiles
  BY DEF PayTariff
<1>2. Kept
  BY PayTariffKept
<1>3. /\ Steady(u, due, {}, D) /\ ~u.broken /\ u.infos = info /\ now \in Nat
      /\ Sound(u) /\ Quiet(u, due, {}, D) /\ u \in Worlds
  BY WorldSteady DEF Sound
<1>4. due = {} /\ ~IsEmpty(info[a])
  BY <1>1 DEF Timely
<1>. HIDE DEF u, D
<1>5. /\ Keeps(u, back) /\ SameStakes(u, back) /\ (back.broken \/ ~back.infos[a].banished)
      /\ Calm(back, {}, {a}, D)
  <2>1. CASE info[a].banished
    <3>1. back = ComeBack(u, a)
      BY <2>1
    <3>. HIDE DEF back
    <3>2. Calm(ComeBack(u, a), {}, {} \cup {a}, D)
      BY <1>3, <1>4, <2>1, ComeBackQuiet
    <3>3. {} \cup {a} = {a}
      OBVIOUS
    <3>. QED  BY <1>3, <2>1, <3>1, <3>2, <3>3, ComeBackKeeps
  <2>2. CASE ~info[a].banished
    <3>1. back = u
      BY <2>2
    <3>. HIDE DEF back
    <3>2. Quiet(u, {}, {} \cup {a}, D)
      BY <1>3, <1>4, <2>2, QuietAwaited
    <3>3. {} \cup {a} = {a}
      OBVIOUS
    <3>. QED  BY <1>3, <2>2, <3>1, <3>2, <3>3, KeepsReflexive DEF Calm
  <2>. QED  BY <2>1, <2>2
<1>. HIDE DEF back
<1>6. Steady(back, {}, {a}, D)
  <2>1. u.broken \/ Holds(u, D)
    BY <1>3 DEF Steady
  <2>2. back.broken \/ Holds(back, D)
    BY <1>3, <1>5, <2>1, SameHolds
  <2>. QED  BY <1>5, <2>2 DEF Steady
<1>7. ~back.broken =>
        /\ ~IsEmpty(back.infos[a])
        /\ back.infos[a].lines["coins"][0] - back.infos[a].lines["delegated"][0] >= Tariff
  BY <1>1, <1>3, <1>4, <1>5 DEF Keeps, Ends, Stay, SameStakes, SameStake, Free
<1>8. Keeps(back, paid)
  <2>1. Sound(back) /\ Tariff \in Nat
    BY <1>5, Constants DEF Keeps, Ends
  <2>. QED  BY <1>3, <1>7, <2>1, PaidKeeps
<1>. HIDE DEF paid
<1>9. Keeps(paid, w)
  <2>1. Sound(paid) /\ (paid.broken \/ ~paid.infos[a].banished)
    BY <1>5, <1>8 DEF Keeps, Ends, Banished
  <2>2. PICK t \in BOOLEAN : t = TRUE
    OBVIOUS
  <2>3. Keeps(paid, SetActive(paid, a, t, t))
    BY <1>3, <2>1, <2>2, SetActiveKeeps
  <2>. QED  BY <2>2, <2>3
<1>10. ~w.broken /\ Hook(w)
  BY <1>1 DEF Tx, Hook
<1>11. ~paid.broken /\ ~back.broken
  <2>. HIDE DEF w
  <2>. QED  BY <1>8, <1>9, <1>10 DEF Keeps, Ends
<1>12. Steady(paid, {}, {a}, D)
  BY <1>3, <1>6, <1>7, <1>11, Constants, PaidSteady DEF paid
<1>13. ~paid.infos[a].banished /\ ~IsEmpty(paid.infos[a])
  BY <1>5, <1>7, <1>8, <1>11 DEF Keeps, Ends, Stay, Banished
<1>14. Steady(w, {}, {a} \ {a}, D)
  <2>1. PICK t \in BOOLEAN : t = TRUE
    OBVIOUS
  <2>2. Steady(SetActive(paid, a, t, t), {}, {a} \ {a}, D)
    BY <1>3, <1>12, <1>13, <2>1, ActivatedSteady
  <2>. QED  BY <2>1, <2>2
<1>. HIDE DEF w
<1>15. Settled(w, due)
  <2>1. {a} \ {a} = {}
    OBVIOUS
  <2>. QED  BY <1>4, <1>14, <2>1, SteadySettled
<1>. QED  BY <1>1, <1>2, <1>10, <1>15, CallTimely

LEMMA MonthOverTimely ==
    ASSUME Earned, IInv, Timely, NEW a \in Accounts, MonthOver(a),
           ~SetActive(World, a, FALSE, TRUE).broken
    PROVE  Timely'
<1> DEFINE u == World
           w == SetActive(u, a, FALSE, TRUE)
           D == Stakes(info)
<1>1. Call /\ Hook(w) /\ ~w.broken /\ profiles' = profiles
  BY DEF MonthOver
<1>2. Kept
  BY MonthOverKept
<1>3. Steady(u, due, {}, D) /\ ~u.broken /\ now \in Nat /\ due \subseteq Task(Handlers, Accounts)
  BY WorldSteady
<1>. HIDE DEF u, D
<1>4. Steady(w, due, {}, D)
  <2>1. PICK no \in BOOLEAN : no = FALSE
    OBVIOUS
  <2>2. PICK yes \in BOOLEAN : yes = TRUE
    OBVIOUS
  <2>3. Steady(SetActive(u, a, no, yes), due, {}, D)
    BY <1>3, <2>1, <2>2, DeactivatedSteady
  <2>. QED  BY <2>1, <2>2, <2>3
<1>. HIDE DEF w
<1>5. Settled(w, due)
  BY <1>4, SteadySettled
<1>. QED  BY <1>1, <1>2, <1>5, CallTimely

LEMMA BalanceChangeTimely ==
    ASSUME Earned, IInv, Timely, NEW a \in Accounts, NEW h \in Holdings, BalanceChange(a, h),
           phase = "pass" => ~OnBalanceChanged(World, a, h).broken
    PROVE  Timely'
<1> DEFINE u == World
           w == OnBalanceChanged(u, a, h)
           E == Stakes(info)
           D == [E EXCEPT ![a] = h.delegated]
<1>1. /\ Call /\ profiles' = profiles /\ ~IsEmpty(info[a])
      /\ Tx(w) \/ (phase = "pass" /\ Hook(w))
      /\ \/ phase \in {"txs", "begin"}
         \/ phase = "pass" /\ h.delegated = info[a].lines["delegated"][0]
  BY DEF BalanceChange
<1>2. Kept
  BY BalanceChangeKept
<1>3. /\ ~u.broken /\ u.infos = info /\ Sound(u) /\ Quiet(u, due, {}, E) /\ now \in Nat
      /\ due \subseteq Task(Handlers, Accounts)
  BY WorldSteady
<1>4. /\ E \in [Accounts -> Int] /\ \A c \in Accounts : E[c] = info[c].lines["delegated"][0]
  <2>1. \A c \in Accounts : u.infos[c].lines["delegated"][0] \in Int
    BY <1>3, QuietFields
  <2>. QED  BY <1>3, <2>1 DEF Stakes
<1>5. h \in [coins : Int, delegated : Int] /\ 0 <= h.delegated /\ h.delegated <= h.coins
  BY Constants DEF Holding
<1>6. due = {} \/ (phase = "pass" /\ h.delegated = info[a].lines["delegated"][0])
  BY <1>1 DEF Timely
<1>. HIDE DEF u, E
<1>7. D[a] = h.delegated /\ \A c \in Accounts \ {a} : D[c] = E[c]
  BY <1>4
<1>. HIDE DEF D
<1>8. Changes(u, due, {}, D, E, a, h)
  BY <1>3, <1>4, <1>5, <1>6, <1>7 DEF Changes, Elsewhere
<1>9. Calm(w, due, {}, D)
  BY <1>3, <1>8, BalanceChangedQuiet
<1>10. ~IsEmpty(u.infos[a])
  BY <1>1, <1>3
<1>11. w.broken \/ Holds(w, D)
  BY <1>3, <1>4, <1>5, <1>7, <1>10, BalanceStakes DEF Holds
<1>12. phase = "pass" => ~w.broken
  BY DEF u
<1>. HIDE DEF w
<1>13. ~w.broken /\ Hook(w)
  BY <1>1, <1>12 DEF Tx, Hook
<1>14. Settled(w, due)
  BY <1>9, <1>11, SteadySettled DEF Steady
<1>. QED  BY <1>1, <1>2, <1>13, <1>14, CallTimely

LEMMA RequestTransitionTimely ==
    ASSUME Earned, IInv, Timely, NEW a \in Accounts, NEW n \in Accounts, RequestTransition(a, n)
    PROVE  Timely'
<1> DEFINE u == World
           paid == Paid(u, a, Price)
           w == Scheduled([paid EXCEPT !.infos[a].transition = n], now + Day,
                          "transition-timeout", a)
           D == Stakes(info)
<1>1. /\ Call /\ Tx(w) /\ profiles' = profiles /\ (IsEmpty(info[a]) \/ Free(info[a]) >= Price)
      /\ phase = "txs"
  BY DEF RequestTransition
<1>2. Kept
  BY RequestTransitionKept
<1>3. /\ Steady(u, due, {}, D) /\ ~u.broken /\ u.infos = info /\ Sound(u)
      /\ Quiet(u, due, {}, D) /\ now \in Nat
  BY WorldSteady
<1>4. due = {}
  BY <1>1 DEF Timely
<1>5. IsEmpty(u.infos[a])
        \/ u.infos[a].lines["coins"][0] - u.infos[a].lines["delegated"][0] >= Price
  BY <1>1, <1>3 DEF Free
<1>. HIDE DEF u, D
<1>6. Steady(paid, {}, {}, D)
  <2>1. CASE IsEmpty(u.infos[a])
    <3>1. paid = u
      BY <2>1, StrangerPays
    <3>. QED  BY <1>3, <1>4, <3>1
  <2>2. CASE ~IsEmpty(u.infos[a])
    BY <1>3, <1>4, <1>5, <2>2, Constants, PaidSteady
  <2>. QED  BY <2>1, <2>2
<1>. HIDE DEF paid
<1>7. ~w.broken /\ Hook(w)
  BY <1>1 DEF Tx, Hook
<1>8. ~paid.broken
  BY <1>7 DEF Scheduled
<1>9. Steady(w, {}, {}, D)
  BY <1>3, <1>6, <1>8, RequestedSteady
<1>. HIDE DEF w
<1>10. Settled(w, due)
  BY <1>4, <1>9, SteadySettled
<1>. QED  BY <1>1, <1>2, <1>7, <1>10, CallTimely

LEMMA ResolveTransitionTimely ==
    ASSUME Earned, IInv, Timely, NEW a \in Accounts, NEW approved \in BOOLEAN,
           ResolveTransition(a, approved)
    PROVE  Timely'
<1> DEFINE u == World
           D == Stakes(info)
<1>1. Call /\ profiles' = profiles /\ phase = "txs"
      /\ info[a].referrer # None /\ info[a].transition # None
  BY DEF ResolveTransition
<1>2. Kept
  BY ResolveTransitionKept
<1>3. /\ Steady(u, due, {}, D) /\ ~u.broken /\ u.infos = info /\ Sound(u)
      /\ Quiet(u, due, {}, D) /\ now \in Nat /\ due \subseteq Task(Handlers, Accounts)
  BY WorldSteady
<1>4. due = {}
  BY <1>1 DEF Timely
<1>. HIDE DEF D
<1>5. CASE approved
  <2> DEFINE p == info[a].referrer
             n == info[a].transition
             w == AffirmTransition(u, a)
  <2>1. /\ ValidTransition(a, n, FALSE) /\ a \in info[p].referrals /\ Tx(w)
    BY <1>5 DEF ResolveTransition
  <2>2. /\ a # n /\ p # n /\ ~RegistrationClosed(info[n]) /\ a \notin Over(info, n)
    BY <2>1 DEF ValidTransition, Over
  <2>3. p \in Accounts /\ n \in Accounts
    BY <1>1, <1>3, QuietFields, InfoFields DEF Parents
  <2>. HIDE DEF p, n, u
  <2>4. p = u.infos[a].referrer /\ n = u.infos[a].transition
    BY <1>3 DEF p, n
  <2>5. Moving(u, due, {}, D, a, p, n)
    BY <1>3, <2>1, <2>2, <2>3, <2>4 DEF Moving
  <2>6. w.broken \/ Quiet(w, due, {}, D)
    BY <1>3, <2>5, AffirmQuiet
  <2>7. Keeps(u, w) /\ SameStakes(u, w)
    BY <1>3, <2>1, <2>2, <2>3, <2>4, AffirmKeeps
  <2>8. w.broken \/ Holds(w, D)
    BY <1>3, <2>7, SameHolds DEF Steady
  <2>. HIDE DEF w
  <2>9. Settled(w, due)
    BY <2>6, <2>7, <2>8, SteadySettled DEF Steady, Calm, Keeps, Ends
  <2>10. ~w.broken /\ Hook(w)
    BY <2>1 DEF Tx, Hook
  <2>. QED  BY <1>1, <1>2, <2>9, <2>10, CallTimely
<1>6. CASE ~approved
  <2> DEFINE w == CancelTransition(u, a)
  <2>1. Tx(w)
    BY <1>6 DEF ResolveTransition
  <2>. HIDE DEF u
  <2>2. Steady(w, due, {}, D)
    BY <1>3, CancelSteady
  <2>. HIDE DEF w
  <2>3. Settled(w, due)
    BY <2>2, SteadySettled
  <2>4. ~w.broken /\ Hook(w)
    BY <2>1 DEF Tx, Hook
  <2>. QED  BY <1>1, <1>2, <2>3, <2>4, CallTimely
<1>. QED  BY <1>5, <1>6

\* What the schedule does with a task.
Performed(w, t) ==
    CASE t.handler = "compression" -> PerformCompression(w, t.data)
      [] t.handler = "banish" -> Banish(w, t.data)
      [] t.handler = "downgrade" -> PerformDowngrade(w, t.data)
      [] t.handler = "transition-timeout" -> CancelTransition(w, t.data)

\* No hook panics, neither the end of a month, interest nor a task, on a negative sum of
\* delegated coins (Panics).  After a panic the recover of performSchedule keeps
\* the tasks and the index but not the records, and the task that ran is gone:
\* what its record waits for would never come.
HooksSucceed ==
    /\ \A a \in Accounts : MonthOver(a) => ~SetActive(World, a, FALSE, TRUE).broken
    /\ \A a \in Accounts, h \in Holdings :
         BalanceChange(a, h) /\ phase = "pass" => ~OnBalanceChanged(World, a, h).broken
    /\ \A t \in due : PerformTask /\ due' = due \ {t} => ~Performed(World, t).broken

(***************************************************************************)
(* A task that has run is not waited for any more.                         *)
(***************************************************************************)
LEMMA PerformTaskTimely ==
    ASSUME Earned, IInv, Timely, PerformTask, HooksSucceed
    PROVE  Timely'
<1> DEFINE u == World
           D == Stakes(info)
<1>1. PICK t \in due :
        /\ due' = due \ {t}
        /\ \/ t.handler = "compression" /\ Hook(PerformCompression(World, t.data))
           \/ t.handler = "banish" /\ Hook(Banish(World, t.data))
           \/ t.handler = "downgrade" /\ Hook(PerformDowngrade(World, t.data))
           \/ t.handler = "transition-timeout" /\ Hook(CancelTransition(World, t.data))
  BY DEF PerformTask
<1>2. /\ phase = "pass" /\ now' = now /\ phase' = phase /\ profiles' = profiles
  BY DEF PerformTask
<1>3. ~Performed(World, t).broken
  BY <1>1 DEF HooksSucceed
<1>4. /\ Steady(u, due, {}, D) /\ ~u.broken /\ u.infos = info /\ Sound(u)
      /\ Quiet(u, due, {}, D) /\ now \in Nat /\ due \subseteq Task(Handlers, Accounts)
  BY WorldSteady
<1>5. t \in due /\ t.data \in Accounts /\ t.time \in Nat /\ t.time <= now
  BY <1>4 DEF Timely, Task
<1>6. Kept
  BY PerformTaskKept
<1> DEFINE a == t.data
           rest == due \ {t}
<1>. HIDE DEF u, D
<1>7. ASSUME NEW w, Settled(w, rest), Hook(w), ~w.broken PROVE Timely'
  <2>1. info' = w.infos /\ tasks' = w.tasks /\ index' = w.index
    BY <1>7 DEF Hook
  <2>2. rest \subseteq Task(Handlers, Accounts)
    BY <1>4
  <2>3. Quiet(World, due, {}, Stakes(info))'
    BY <1>1, <1>2, <1>7, <2>1, <2>2, SettledNext
  <2>4. \A b \in profiles' : ~IsEmpty(info'[b])
    BY <1>2, <1>6 DEF Kept, Stay, Timely, IInv
  <2>5. /\ phase' # "pass" => due' = {}
        /\ \A s \in due' : s.time <= now'
    BY <1>1, <1>2 DEF Timely
  <2>. QED  BY <2>3, <2>4, <2>5 DEF Timely
<1>. HIDE DEF rest
<1>8. CASE t.handler = "compression"
  <2> DEFINE w == PerformCompression(u, a)
  <2>1. Hook(w) /\ Performed(u, t) = w
    BY <1>1, <1>8 DEF Performed, u
  <2>2. Steady(w, rest, {}, D)
    BY <1>4, <1>5, <1>8, PerformCompressionSteady DEF rest
  <2>. HIDE DEF w
  <2>3. Settled(w, rest)
    BY <2>2, SteadySettled
  <2>. QED  BY <1>3, <1>7, <2>1, <2>3 DEF u
<1>9. CASE t.handler = "banish"
  <2> DEFINE w == Banish(u, a)
  <2>1. Hook(w) /\ Performed(u, t) = w
    BY <1>1, <1>9 DEF Performed, u
  <2>2. Banishes(u, due, D, a, t)
    BY <1>2, <1>4, <1>5, <1>9 DEF Banishes, Steady
  <2>3. Settled(w, rest)
    BY <1>4, <2>2, BanishSettled DEF rest
  <2>. HIDE DEF w
  <2>. QED  BY <1>3, <1>7, <2>1, <2>3 DEF u
<1>10. CASE t.handler = "downgrade"
  <2> DEFINE w == PerformDowngrade(u, a)
  <2>1. Hook(w) /\ Performed(u, t) = w
    BY <1>1, <1>10 DEF Performed, u
  <2>2. Steady(w, rest, {}, D)
    BY <1>4, <1>5, <1>10, PerformDowngradeSteady DEF rest
  <2>. HIDE DEF w
  <2>3. Settled(w, rest)
    BY <2>2, SteadySettled
  <2>. QED  BY <1>3, <1>7, <2>1, <2>3 DEF u
<1>11. CASE t.handler = "transition-timeout"
  <2> DEFINE w == CancelTransition(u, a)
  <2>1. Hook(w) /\ Performed(u, t) = w
    BY <1>1, <1>11 DEF Performed, u
  <2>2. Steady(w, rest, {}, D)
    BY <1>4, <1>5, <1>11, TimeoutSteady DEF rest
  <2>. HIDE DEF w
  <2>3. Settled(w, rest)
    BY <2>2, SteadySettled
  <2>. QED  BY <1>3, <1>7, <2>1, <2>3 DEF u
<1>. QED  BY <1>1, <1>8, <1>9, <1>10, <1>11

(***************************************************************************)
(* A block begins with nothing due, and ends with everything due done: who *)
(* is to be banished has been compressed by then.                          *)
(***************************************************************************)
LEMMA BlocksTimely ==
    ASSUME IInv, Timely, BeginBlock \/ StartPass \/ EndPass \/ UNCHANGED vars
    PROVE  Timely'
<1> DEFINE D == Stakes(info)
<1>1. /\ Sound(World) /\ Quiet(World, due, {}, D) /\ now \in Nat /\ World.infos = info
      /\ due \subseteq Task(Handlers, Accounts) /\ World \in Worlds
      /\ World.tasks = tasks /\ World.index = index
  BY WorldSteady DEF Sound, World
<1>2. ASSUME NEW a \in Accounts, phase # "begin", due = {}, info[a].banishmentAt # NoTime
      PROVE  info[a].compressionAt = NoTime
  <2> DEFINE r == info[a]
  <2>1. Sane(a, r, {}, D[a]) /\ Timed(a, r, tasks \cup {})
    BY <1>1, <1>2 DEF Quiet
  <2>2. \A t \in tasks : t.time > now
    BY <1>1, <1>2 DEF Quiet, ToCome
  <2>3. r.compressionAt \in Moments
    BY <1>1, QuietFields
  <2>. HIDE DEF r, D
  <2>4. SUFFICES ASSUME r.compressionAt # NoTime PROVE FALSE
    BY DEF r
  <2>5. r.referrer # None /\ r.compressionAt < now
    BY <1>2, <2>1, <2>4 DEF Sane, Expelled, r
  <2>6. Timer(r.compressionAt, "compression", a) \in tasks
    BY <2>1, <2>4, <2>5 DEF Timed, Armed
  <2>7. r.compressionAt > now
    BY <2>2, <2>6 DEF Timer
  <2>. QED  BY <1>1, <2>3, <2>4, <2>5, <2>7 DEF Moments
<1>3. \A a \in profiles : ~IsEmpty(info[a])
  BY DEF Timely
<1>4. \A t \in tasks : t.time \in Nat
  BY <1>1, WorldFields DEF Task
<1>5. CASE BeginBlock
  <2>1. /\ phase \in {"txs", "genesis"} /\ phase' = "begin" /\ due' = due /\ tasks' = tasks
        /\ info' = info /\ index' = index /\ profiles' = profiles /\ now' \in Nat /\ now <= now'
    BY <1>1, <1>5, Constants, ReferralAssumption DEF BeginBlock
  <2>2. due = {}
    BY <2>1 DEF Timely
  <2>3. ComesTo(World, due)
    BY <1>1, <1>2, <2>1, <2>2 DEF ComesTo
  <2>4. Quiet(World, due, {}, Stakes(info))'
    BY <1>1, <2>3, QuietNext
  <2>. QED  BY <1>3, <2>1, <2>2, <2>4 DEF Timely
<1>6. CASE StartPass
  <2> DEFINE late == DueAt(tasks, now)
             w == [World EXCEPT !.tasks = tasks \ late]
  <2>1. /\ phase = "begin" /\ phase' = "pass" /\ due' = late /\ tasks' = tasks \ late
        /\ now' = now /\ info' = info /\ index' = index /\ profiles' = profiles
    BY <1>6 DEF StartPass
  <2>2. due = {}
    BY <2>1 DEF Timely
  <2>3. \A t \in tasks : t \in late <=> t.time <= now
    BY DEF DueAt
  <2>4. late \subseteq tasks
    BY DEF DueAt
  <2>5. /\ w.infos = info /\ w.index = index /\ w.tasks = tasks \ late /\ w \in Worlds
    BY <1>1 DEF World, Worlds
  <2>. HIDE DEF w, late
  <2>6. w.tasks \cup late = tasks \cup {}
    BY <2>4, <2>5
  <2>7. Quiet(World, {}, {}, D)
    BY <1>1, <2>2
  <2>8. ToCome(w.tasks)
    BY <2>1 DEF ToCome
  <2>9. Quiet(w, late, {}, Stakes(w.infos))
    BY <1>1, <2>5, <2>6, <2>7, <2>8 DEF Quiet
  <2>10. \A t \in w.tasks : t.time > now
    BY <1>1, <1>4, <2>3, <2>5
  <2>11. ComesTo(w, late)
    BY <1>1, <2>1, <2>5, <2>9, <2>10 DEF ComesTo
  <2>12. late \subseteq Task(Handlers, Accounts)
    BY <1>1, <2>4, WorldFields
  <2>13. Quiet(World, due, {}, Stakes(info))'
    BY <2>5, <2>11, <2>12, QuietNext
  <2>. QED  BY <1>3, <2>1, <2>3, <2>4, <2>13 DEF Timely
<1>7. CASE EndPass
  <2>1. /\ phase = "pass" /\ phase' = "txs" /\ due = {} /\ due' = due /\ tasks' = tasks
        /\ now' = now /\ info' = info /\ index' = index /\ profiles' = profiles
    BY <1>7 DEF EndPass
  <2>2. \A t \in tasks : t.time > now
    BY <1>1, <2>1 DEF Quiet, ToCome
  <2>3. ComesTo(World, due)
    BY <1>1, <1>2, <2>1, <2>2 DEF ComesTo
  <2>4. Quiet(World, due, {}, Stakes(info))'
    BY <1>1, <2>3, QuietNext
  <2>. QED  BY <1>3, <2>1, <2>4 DEF Timely
<1>8. CASE UNCHANGED vars
  <2>1. /\ phase' = phase /\ due' = due /\ tasks' = tasks
        /\ now' = now /\ info' = info /\ index' = index /\ profiles' = profiles
    BY <1>8 DEF vars
  <2>2. \A t \in tasks : phase' # "begin" => t.time > now
    BY <1>1, <2>1 DEF Quiet, ToCome
  <2>3. ComesTo(World, due)
    BY <1>1, <2>1, <2>2 DEF ComesTo
  <2>4. Quiet(World, due, {}, Stakes(info))'
    BY <1>1, <2>3, QuietNext
  <2>5. /\ phase' # "pass" => due' = {}
        /\ \A t \in due' : t.time <= now'
    BY <2>1 DEF Timely
  <2>. QED  BY <1>3, <2>1, <2>4, <2>5 DEF Timely
<1>. QED  BY <1>5, <1>6, <1>7, <1>8

LEMMA RestartTimely ==
    ASSUME Earned, IInv, Timely, Restart
    PROVE  Timely'
<1> DEFINE u == World
           file == [a \in Accounts |-> Exported(info[a], a \in strangers)]
           own == [a \in Accounts |-> [coins |-> info[a].lines["coins"][0],
                                       delegated |-> info[a].lines["delegated"][0]]]
           active == {a \in Accounts : info[a].active}
           w == InitGenesis(file, tasks, own, active)
<1>1. /\ Tx(w) /\ phase' = "genesis" /\ phase = "txs"
      /\ now' = now /\ due' = due /\ profiles' = profiles
  BY DEF Restart
<1>2. Kept
  BY RestartKept
<1>3. /\ ~u.broken /\ u.infos = info /\ Sound(u) /\ Quiet(u, due, {}, Stakes(info))
      /\ now \in Nat /\ u.tasks = tasks
  BY WorldSteady DEF World
<1>4. due = {}
  BY <1>1 DEF Timely
<1>5. own = Balances(info) /\ active = ActiveOnes(info)
  BY DEF Balances, ActiveOnes
<1>. HIDE DEF u, own, active
<1>6. Filed(file, tasks, active, own)
  BY <1>3, <1>4, <1>5, ExportedFiled
<1>. HIDE DEF file
<1>7. Settled(w, {})
  BY <1>3, <1>6, InitGenesisSettled
<1>. HIDE DEF w
<1>8. ~w.broken /\ info' = w.infos /\ tasks' = w.tasks /\ index' = w.index
  BY <1>1 DEF Tx
<1>9. Quiet(World, due, {}, Stakes(info))'
  BY <1>1, <1>4, <1>7, <1>8, SettledNext
<1>10. \A b \in profiles' : ~IsEmpty(info'[b])
  BY <1>1, <1>2 DEF Kept, Stay, Timely, IInv
<1>. QED  BY <1>1, <1>4, <1>9, <1>10 DEF Timely

LEMMA InitTimely == Earned /\ Init => Timely
<1>. SUFFICES ASSUME Earned, Init PROVE Timely
  OBVIOUS
<1>1. now = 0 /\ phase = "genesis" /\ due = {}
  BY DEF Init
<1>2. PICK g \in Genesis :
        \E w \in {NewChain(g)} :
          /\ ~w.broken /\ info = w.infos /\ tasks = w.tasks /\ index = w.index
          /\ profiles = DOMAIN g.referrer
  BY DEF Init
<1> DEFINE w == NewChain(g)
<1>3. /\ ~w.broken /\ info = w.infos /\ tasks = w.tasks /\ index = w.index
      /\ profiles = DOMAIN g.referrer
  BY <1>2
<1>4. Settled(w, {})
  <2>1. Filed(FirstFile(g), FirstStore(g), g.active, FirstOwn(g))
    BY <1>1, FirstFiled
  <2>2. Settled(InitGenesis(FirstFile(g), FirstStore(g), FirstOwn(g), g.active), {})
    BY <1>1, <2>1, InitGenesisSettled
  <2>. QED  BY <2>2, NewChainParts
<1>5. \A a \in profiles : ~IsEmpty(info[a])
  <2>1. w.broken \/ Stay(FirstFile(g), w.infos)
    BY <1>1, NewChainKeeps
  <2>2. \A a \in DOMAIN g.referrer : ~IsEmpty(FirstFile(g)[a])
    BY FirstFileStated DEF NewRecord, IsEmpty
  <2>3. DOMAIN g.referrer \subseteq Accounts
    BY NewChainParts
  <2>. HIDE DEF w
  <2>. QED  BY <1>3, <2>1, <2>2, <2>3 DEF Stay
<1>. HIDE DEF w
<1>6. Quiet(w, {}, {}, Stakes(w.infos))
  BY <1>3, <1>4 DEF Settled
<1>7. World.infos = w.infos /\ World.tasks = w.tasks /\ World.index = w.index
  BY <1>3 DEF World
<1>8. Quiet(World, due, {}, Stakes(info))
  BY <1>1, <1>3, <1>6, <1>7 DEF Quiet
<1>. QED  BY <1>1, <1>5, <1>8 DEF Timely

LEMMA TimelyStep ==
    Earned /\ IInv /\ Timely /\ [Next]_vars /\ [HooksSucceed]_vars => Timely'
<1>. SUFFICES ASSUME Earned, IInv, Timely, [Next]_vars, [HooksSucceed]_vars PROVE Timely'
  OBVIOUS
<1>0. CASE UNCHANGED vars
  BY <1>0, BlocksTimely
<1>1. CASE \E p, a \in Accounts, h \in Holdings : CreateAccount(p, a, h)
  BY <1>1, CreateAccountTimely
<1>2. CASE \E a \in Accounts : PayTariff(a)
  BY <1>2, PayTariffTimely
<1>3. CASE \E a \in Accounts : MonthOver(a)
  <2>1. CASE HooksSucceed
    BY <1>3, <2>1, MonthOverTimely DEF HooksSucceed
  <2>. QED  BY <1>0, <2>1
<1>4. CASE \E a \in Accounts, h \in Holdings : BalanceChange(a, h)
  <2>1. CASE HooksSucceed
    BY <1>4, <2>1, BalanceChangeTimely DEF HooksSucceed
  <2>. QED  BY <1>0, <2>1
<1>5. CASE \E a, n \in Accounts : RequestTransition(a, n)
  BY <1>5, RequestTransitionTimely
<1>6. CASE \E a \in Accounts, approved \in BOOLEAN : ResolveTransition(a, approved)
  BY <1>6, ResolveTransitionTimely
<1>7. CASE PerformTask
  BY <1>0, <1>7, PerformTaskTimely
<1>8. CASE BeginBlock \/ StartPass \/ EndPass
  BY <1>8, BlocksTimely
<1>9. CASE Restart
  BY <1>9, RestartTimely
<1>. QED  BY <1>0, <1>1, <1>2, <1>3, <1>4, <1>5, <1>6, <1>7, <1>8, <1>9 DEF Next

LEMMA TimelyArmed == IInv /\ Timely => TimersArmed
<1>. SUFFICES ASSUME IInv, Timely, NEW a \in Accounts
     PROVE  LET r == info[a]
                armed(time, handler) ==
                  time # NoTime =>
                    /\ Timer(time, handler, a) \in tasks \cup due
                    /\ phase \in {"txs", "genesis"} => time > now
            IN  /\ r.referrer # None => armed(r.compressionAt, "compression")
                /\ armed(r.banishmentAt, "banish")
                /\ armed(r.downgradeAt, "downgrade")
                /\ r.transition # None =>
                     \E t \in tasks \cup due :
                       t.handler = "transition-timeout" /\ t.data = a /\ t.time <= now + Day
  BY DEF TimersArmed
<1>1. Timed(a, info[a], tasks \cup due)
  BY DEF Timely, Quiet, World
<1>2. phase \in {"txs", "genesis"} => due = {} /\ \A t \in tasks : t.time > now
  BY DEF Timely, Quiet, World, ToCome
<1>3. \A time, handler : Timer(time, handler, a).time = time
  BY DEF Timer
<1>. QED  BY <1>1, <1>2, <1>3 DEF Timed, Armed

LEMMA TimelyDeserved == IInv /\ Timely => BanishmentDeserved
<1>. SUFFICES ASSUME IInv, Timely PROVE BanishmentDeserved
  OBVIOUS
<1>1. \A a \in Accounts : Sane(a, info[a], {}, info[a].lines["delegated"][0])
  BY DEF Timely, Quiet, World, Stakes
<1>2. ASSUME phase \in {"txs", "genesis"}, NEW a \in Members
      PROVE  info[a].banishmentAt # NoTime <=>
               /\ info[a].referrer # None /\ ~info[a].active /\ info[a].compressionAt = NoTime
               /\ info[a].lines["delegated"][0] <= Dust
  <2>1. a \in Accounts /\ ~info[a].banished
    BY DEF Members
  <2>. QED  BY <1>1, <1>2, <2>1 DEF Sane, Expelled, Shut
<1>3. \A a \in Accounts : info[a].banished => info[a].referrals = {}
  BY <1>1 DEF Sane, Shut
<1>4. \A t \in tasks : t.handler = "banish" => info[t.data].banishmentAt = t.time
  BY DEF Timely, Quiet, World, BanishTasks
<1>. QED  BY <1>2, <1>3, <1>4 DEF BanishmentDeserved

LEMMA TimelyIndexed == IInv /\ Timely => StatusIndexed
<1>. SUFFICES ASSUME IInv, Timely PROVE StatusIndexed
  OBVIOUS
<1>1. \A a \in Accounts : /\ Sane(a, info[a], {}, info[a].lines["delegated"][0])
                          /\ Blank(info[a])
  BY DEF Timely, Quiet, World, Stakes
<1>2. index \subseteq (0..MaxStatus) \X Accounts /\ info \in [Accounts -> Records]
  BY DEF IInv, Stores
<1>3. \A a \in Accounts : info[a].status \in 0..MaxStatus
  BY <1>2 DEF Records, Info
<1>4. \A s \in 0..MaxStatus : \A a \in Accounts :
        <<s, a>> \in index <=> s = info[a].status /\ s >= MinIndexed
  BY DEF Timely, Quiet, World, IndexFits
<1>5. \A a \in Accounts : IsEmpty(info[a]) => Outside(info[a])
  BY <1>1 DEF Blank
<1>6. \A a \in Accounts : info[a].status >= MinIndexed => a \in Members
  <2>1. Empty.status = 0
    BY DEF Empty
  <2>. QED  BY <1>1, <2>1, Constants DEF Members, Exists, Sane
<1>7. index = {<<info[a].status, a>> : a \in {b \in Members : info[b].status >= MinIndexed}}
  <2> DEFINE I == {<<info[a].status, a>> : a \in {b \in Members : info[b].status >= MinIndexed}}
  <2>1. ASSUME NEW e \in index PROVE e \in I
    <3>1. PICK s \in 0..MaxStatus, a \in Accounts : e = <<s, a>>
      BY <1>2, <2>1
    <3>. QED  BY <1>4, <1>6, <3>1
  <2>2. ASSUME NEW e \in I PROVE e \in index
    BY <1>3, <1>4 DEF Members
  <2>. QED  BY <2>1, <2>2
<1>. QED  BY <1>5, <1>7 DEF StatusIndexed

LEMMA AlwaysTimely ==
    Earned /\ Spec /\ [][HooksSucceed]_vars => [](IInv /\ Timely)
<1>1. IInv /\ [Next]_vars => IInv'
  BY StepKept DEF Kept
<1>2. Earned /\ IInv /\ Timely /\ [Next]_vars /\ [HooksSucceed]_vars => Timely'
  BY TimelyStep
<1>3. Earned => Earned'
  BY DEF Earned
<1>. QED  BY InitInv, InitTimely, <1>1, <1>2, <1>3, PTL DEF Spec

(***************************************************************************)
(* Every time a record waits for, for compression, for banishment, for the *)
(* end of a status or of a transition, has its task in the schedule, or    *)
(* among those of this block.                                              *)
(***************************************************************************)
THEOREM TimersStayArmed ==
    Earned /\ Spec /\ [][HooksSucceed]_vars => []TimersArmed
BY AlwaysTimely, TimelyArmed, PTL

(***************************************************************************)
(* Nobody is banished who is active or has delegated; and who has been     *)
(* compressed and has nothing delegated is banished or waits for it.       *)
(***************************************************************************)
THEOREM BanishmentsDeserved ==
    Earned /\ Spec /\ [][HooksSucceed]_vars => []BanishmentDeserved
BY AlwaysTimely, TimelyDeserved, PTL

(***************************************************************************)
(* The index by status, which setStatus and the removals keep apart from   *)
(* the records, holds just the statuses there are.                         *)
(***************************************************************************)
THEOREM StatusesIndexed ==
    Earned /\ Spec /\ [][HooksSucceed]_vars => []StatusIndexed
BY AlwaysTimely, TimelyIndexed, PTL

-----------------------------------------------------------------------------
(* Lines: what the accounts at each distance below have.                   *)

\* The lines of a world are exact, unless a handler has failed.
Lined(w) == w.broken \/ LinesFit(w.infos)

\* The banished are childless, because they have been compressed.
LEMMA SaneChildless ==
    ASSUME NEW f, Tree(f), NEW X, NEW D, AllSane(f, X, D)
    PROVE  Childless(f) /\ \A a \in Accounts : f[a].referrals = Kids(f, a)
<1>1. \A a \in Accounts : f[a].referrals = Kids(f, a)
  BY DEF Tree, Kids
<1>2. \A a \in Accounts : f[a].banished => f[a].referrals = {}
  BY DEF AllSane, Sane, Shut
<1>. QED  BY <1>1, <1>2 DEF Childless

\* Whoever has a referral is not banished.
LEMMA ArrivesAt ==
    ASSUME NEW v, NEW rest, NEW X, NEW D, Calm(v, rest, X, D), NEW p \in Parents,
           v.broken \/ p = None \/ \E b \in Accounts : b \in Kids(v.infos, p)
    PROVE  Arrives(v, p)
<1>. SUFFICES ASSUME ~v.broken PROVE Arrives(v, p)
  BY DEF Arrives
<1>1. Tree(v.infos)
  BY SoundFields DEF Calm
<1>2. Childless(v.infos)
  BY <1>1, QuietSane, SaneChildless DEF Calm
<1>3. p # None => ~v.infos[p].banished
  BY <1>2 DEF Childless, Parents
<1>. QED  BY <1>1, <1>2, <1>3 DEF Arrives

\* Sums as before are as exact as before.
LEMMA SameLined ==
    ASSUME NEW w, NEW v, w.infos \in [Accounts -> Records], v.infos \in [Accounts -> Records],
           Lined(w), w.broken => v.broken,
           v.broken \/ \A c \in Accounts : SameSeat(w.infos[c], v.infos[c])
                                           /\ v.infos[c].lines = w.infos[c].lines
    PROVE  Lined(v)
<1>. SUFFICES ASSUME ~v.broken PROVE LinesFit(v.infos)
  BY DEF Lined
<1> DEFINE f == w.infos
           g == v.infos
<1>1. Fit(f) /\ \A a \in Accounts : Counted(f[a])
  BY DEF Lined, LinesFit
<1>2. \A c \in Accounts : SameSeat(f[c], g[c]) /\ g[c].lines = f[c].lines
  OBVIOUS
<1>3. \A c : Kids(g, c) = Kids(f, c)
  BY <1>2 DEF Kids, SameSeat
<1>4. \A a \in Accounts : Counted(g[a])
  BY <1>1, <1>2 DEF Counted, Ranged, Flag, SameSeat
<1>5. \A c \in Accounts, s \in Sums, i \in Lines : Eqv(s, g[c].lines[s][i], f[c].lines[s][i])
  <2>1. ASSUME NEW c \in Accounts, NEW s \in Sums, NEW i \in Lines
        PROVE  Eqv(s, g[c].lines[s][i], f[c].lines[s][i])
    <3>1. f[c].lines[s][i] \in Int
      BY LineFields
    <3>2. g[c].lines[s][i] = f[c].lines[s][i]
      BY <1>2
    <3>. QED  BY <3>1, <3>2, EqvReflexive
  <2>. QED  BY <2>1
<1>6. 0 \in Lines /\ \A i \in Inner : i \in Lines
  BY Constants DEF Inner, Lines
<1>. HIDE DEF f, g
<1>7. f \in [Accounts -> Records] /\ g \in [Accounts -> Records]
  BY DEF f, g
<1>8. Fit(g)
  BY <1>1, <1>3, <1>5, <1>6, <1>7, StillFits
<1>. QED  BY <1>4, <1>8 DEF LinesFit, g

\* A climb that makes up for what the first ancestor lacks.
LEMMA ClimbLined ==
    ASSUME now \in Nat, NEW w \in Worlds, NEW p \in Parents, NEW n \in 1..Depth,
           NEW link \in Links, NEW gain \in Gains, Shifts(gain), NEW check \in BOOLEAN,
           n = Depth \/ NoGain(gain),
           w.broken \/ (FitBut(w.infos, p, gain[1]) /\ \A a \in Accounts : Counted(w.infos[a])),
           NEW v, v = ClimbIf(check, w, p, n, link, gain), Arrives(v, p)
    PROVE  Lined(v)
<1>. SUFFICES ASSUME ~v.broken PROVE LinesFit(v.infos)
  BY DEF Lined
<1>1. ~w.broken
  BY ClimbSeats
<1>2. FitBut(w.infos, p, gain[1])
  BY <1>1
<1>3. Fit(v.infos) /\ StayCounted(w.infos, v.infos)
  BY <1>2, ClimbFits
<1>. QED  BY <1>1, <1>3 DEF LinesFit, StayCounted

\* Whoever joins brings his balance to all lines above.
LEMMA JoinLined ==
    ASSUME now \in Nat, NEW w \in Worlds, ~w.broken, NEW a, NEW r, NEW p, NEW x,
           Adds(w.infos, a, r, p, x), NEW n \in 1..Depth, n = Depth \/ \A s \in Sums : x[s] = 0,
           NEW v, v = Joined(Update(w, a, r), a, p, x, n),
           NEW rest, NEW X, NEW D, Calm(v, rest, X, D)
    PROVE  Lined(v)
<1> DEFINE u == Update(w, a, r)
           link == [NoLink EXCEPT !.join = {a}]
           gain == Brings(x)
<1>1. a \in Accounts /\ r \in Records /\ p \in Parents /\ x \in Amounts
      /\ r.referrer = p /\ ~r.banished /\ w.infos \in [Accounts -> Records]
  BY WorldFields DEF Adds
<1>2. u \in Worlds /\ u.infos = [w.infos EXCEPT ![a] = r]
  BY <1>1, UpdateWorld
<1>3. link \in Links
  BY <1>1, LinksOf
<1>4. gain \in Gains /\ Shifts(gain) /\ gain[1] = InLine(1, x)
      /\ ((\A s \in Sums : x[s] = 0) => NoGain(gain))
  BY <1>1, BringsShifts
<1>5. PICK check \in BOOLEAN : v = ClimbIf(check, u, p, n, link, gain)
  BY DEF Joined, Climb
<1>6. FitBut(u.infos, p, gain[1]) /\ \A c \in Accounts : Counted(u.infos[c])
  BY <1>1, <1>2, <1>4, AddsFits
<1>. HIDE DEF u, link, gain
<1>7. v.broken \/ p = None \/ \E b \in Accounts : b \in Kids(v.infos, p)
  <2>1. ASSUME ~v.broken PROVE a \in Kids(v.infos, p)
    <3>0. /\ u \in Worlds /\ p \in Parents /\ link \in Links /\ gain \in Gains
          /\ v = ClimbIf(check, u, p, n, link, gain) /\ ~v.broken
      BY <1>1, <1>2, <1>3, <1>4, <1>5, <2>1
    <3>1. \A c : Kids(v.infos, c) = Kids(u.infos, c)
      BY <3>0, ClimbSeats
    <3>2. a \in Kids(u.infos, p)
      BY <1>1, <1>2 DEF Kids
    <3>. QED  BY <3>1, <3>2
  <2>. QED  BY <1>1, <2>1
<1>8. Arrives(v, p)
  BY <1>1, <1>7, ArrivesAt
<1>9. n = Depth \/ NoGain(gain)
  BY <1>4
<1>. QED  BY <1>1, <1>2, <1>3, <1>4, <1>5, <1>6, <1>8, <1>9, ClimbLined

\* An inactive account brings no more than its balance.
LEMMA OwnSums ==
    ASSUME NEW f \in [Accounts -> Records], LinesFit(f), NEW a \in Accounts, ~f[a].active
    PROVE  /\ Balance(f[a]) \in Amounts
           /\ \A s \in Sums : f[a].lines[s][0] = Balance(f[a])[s]
           /\ Reach(Balance(f[a])) \in 1..Depth
           /\ Reach(Balance(f[a])) = Depth \/ \A s \in Sums : Balance(f[a])[s] = 0
<1>1. Balance(f[a]) \in Amounts
  BY BalanceFields
<1>2. Counted(f[a])
  BY DEF LinesFit
<1>3. f[a].lines["counts"][0] = 0
  BY <1>2 DEF Counted, Flag
<1>4. \A s \in Sums : f[a].lines[s][0] = Balance(f[a])[s]
  BY <1>3 DEF Balance
<1>5. Reach(Balance(f[a])) = Depth \/ NoCoins(Balance(f[a]))
  BY DEF Reach
<1>6. NoCoins(Balance(f[a])) => \A s \in Sums : Balance(f[a])[s] = 0
  <2>1. Balance(f[a]).counts = 0
    BY DEF Balance, Sums
  <2>2. ASSUME NEW s \in Sums PROVE s = "coins" \/ s = "delegated" \/ s = "counts"
    BY DEF Sums
  <2>. QED  BY <2>1, <2>2 DEF NoCoins
<1>. QED  BY <1>1, <1>4, <1>5, <1>6, ReachDepth

\* A banished account comes back with what it has.
LEMMA BackLined ==
    ASSUME now \in Nat, NEW w, NEW rest, NEW X, NEW D, Calm(w, rest, X, D), ~w.broken, Lined(w),
           NEW a \in Accounts, w.infos[a].banished, NEW q \in Records, NEW p \in Parents,
           q.referrer = p, ~q.banished, q.active = w.infos[a].active,
           q.lines = w.infos[a].lines,
           NEW v, v = Joined(Update(w, a, q), a, p, Balance(w.infos[a]), Reach(Balance(w.infos[a]))),
           NEW ends, NEW Y, NEW E, Calm(v, ends, Y, E)
    PROVE  Lined(v)
<1> DEFINE f == w.infos
           x == Balance(f[a])
<1>1. w \in Worlds /\ f \in [Accounts -> Records] /\ Tree(f) /\ LinesFit(f)
  BY SoundFields DEF Calm, Lined
<1>2. Childless(f)
  BY <1>1, QuietSane, SaneChildless DEF Calm
<1>3. ~f[a].active
  BY <1>1 DEF Tree
<1>4. /\ x \in Amounts /\ Reach(x) \in 1..Depth /\ (\A s \in Sums : f[a].lines[s][0] = x[s])
      /\ (Reach(x) = Depth \/ \A s \in Sums : x[s] = 0)
  BY <1>1, <1>3, OwnSums
<1>5. Counted(q)
  BY <1>1 DEF LinesFit, Counted, Ranged, Flag
<1>6. Kids(f, a) = {} /\ \A c : a \notin Kids(f, c)
  BY <1>2 DEF Childless, Kids
<1>7. Adds(f, a, q, p, x)
  BY <1>1, <1>4, <1>5, <1>6 DEF Adds
<1>. QED  BY <1>1, <1>4, <1>7, JoinLined

LEMMA ComeBackLined ==
    ASSUME now \in Nat, NEW w, NEW rest, NEW X, NEW D, Calm(w, rest, X, D), ~w.broken, Lined(w),
           NEW a \in Accounts, w.infos[a].banished,
           NEW ends, NEW Y, NEW E, Calm(ComeBack(w, a), ends, Y, E)
    PROVE  Lined(ComeBack(w, a))
<1> DEFINE r == w.infos[a]
           p == FirstOpen(w.infos, r.referrer)
           q == [r EXCEPT !.referrer = p, !.banished = FALSE, !.status = 1,
                          !.banishmentAt = NoTime, !.compressionAt = NoTime]
<1>1. w \in Worlds /\ r \in Records /\ r \in Info /\ p \in Parents
  <2>1. w \in Worlds /\ r \in Records /\ r \in Info /\ r.referrer \in Parents
    BY QuietFields DEF Calm
  <2>2. p \in Parents
    BY <2>1, WorldParents, FirstOpenType
  <2>. QED  BY <2>1, <2>2
<1>2. /\ q \in Records /\ q.referrer = p /\ ~q.banished /\ q.active = r.active
      /\ q.lines = r.lines
  <2>1. 1 \in 0..MaxStatus /\ NoTime \in Moments /\ p \in Accounts \cup {None}
    BY <1>1, Constants DEF Moments, Parents
  <2>. HIDE DEF p, r
  <2>2. q \in Info
    BY <1>1, <2>1 DEF Info
  <2>3. /\ q.referrer = p /\ ~q.banished /\ q.active = r.active /\ q.status = 1
        /\ q.lines = r.lines
    BY <1>1 DEF Info
  <2>. HIDE DEF q
  <2>. QED  BY <2>2, <2>3 DEF Records
<1>3. Balance(q) = Balance(r)
  BY <1>2 DEF Balance
<1>4. ComeBack(w, a) = Joined(Update(w, a, q), a, p, Balance(r), Reach(Balance(r)))
  <2>1. ComeBack(w, a) = Joined(Update(w, a, q), a, p, Balance(r), Reach(Balance(r)))
    BY <1>3 DEF ComeBack
  <2>. QED  BY <2>1
<1>. HIDE DEF q, p
<1>. QED  BY <1>1, <1>2, <1>4, BackLined

LEMMA RedeemedLined ==
    ASSUME now \in Nat, NEW w, NEW rest, NEW X, NEW D, Calm(w, rest, X, D), ~w.broken, Lined(w),
           NEW a \in Accounts, w.infos[a].banished,
           NEW ends, NEW Y, NEW E, Calm(Redeemed(w, a), ends, Y, E)
    PROVE  Lined(Redeemed(w, a))
<1> DEFINE r == w.infos[a]
           p == FirstOpen(w.infos, r.referrer)
           q == [r EXCEPT !.referrer = p, !.banished = FALSE, !.status = 1]
<1>1. w \in Worlds /\ r \in Records /\ r \in Info /\ p \in Parents
  <2>1. w \in Worlds /\ r \in Records /\ r \in Info /\ r.referrer \in Parents
    BY QuietFields DEF Calm
  <2>2. p \in Parents
    BY <2>1, WorldParents, FirstOpenType
  <2>. QED  BY <2>1, <2>2
<1>2. /\ q \in Records /\ q.referrer = p /\ ~q.banished /\ q.active = r.active
      /\ q.lines = r.lines
  <2>1. 1 \in 0..MaxStatus /\ NoTime \in Moments /\ p \in Accounts \cup {None}
    BY <1>1, Constants DEF Moments, Parents
  <2>. HIDE DEF p, r
  <2>2. q \in Info
    BY <1>1, <2>1 DEF Info
  <2>3. /\ q.referrer = p /\ ~q.banished /\ q.active = r.active /\ q.status = 1
        /\ q.lines = r.lines
    BY <1>1 DEF Info
  <2>. HIDE DEF q
  <2>. QED  BY <2>2, <2>3 DEF Records
<1>3. Redeemed(w, a) = Joined(Update(w, a, q), a, p, Balance(r), Reach(Balance(r)))
  BY DEF Redeemed
<1>. HIDE DEF q, p
<1>. QED  BY <1>1, <1>2, <1>3, BackLined

LEMMA AppendedLined ==
    ASSUME now \in Nat, NEW w, NEW rest, NEW X, NEW D, NEW p, NEW a, NEW h,
           Newcomer(w, rest, X, D, p, a, h), Lined(w),
           NEW ends, NEW Y, NEW E, Calm(AppendChild(w, p, a, h), ends, Y, E)
    PROVE  Lined(AppendChild(w, p, a, h))
<1> DEFINE f == w.infos
           r == [NewInfo(p, h) EXCEPT !.compressionAt = now + CompressionPeriod]
           x == Own(h)
<1>1. /\ w \in Worlds /\ f \in [Accounts -> Records] /\ Tree(f) /\ LinesFit(f) /\ ~w.broken
      /\ p \in Accounts /\ a \in Accounts /\ p # a /\ f[a] = Empty /\ h \in Holding
      /\ p \in Parents
  BY SoundFields DEF Newcomer, Steady, Calm, Lined, Exists, Parents
<1>2. x \in Amounts /\ x["counts"] = 0
  BY <1>1 DEF Own, Amounts, Sums, Holding
<1>3. /\ r \in Records /\ r.referrer = p /\ ~r.banished /\ ~r.active
      /\ \A s \in Sums, i \in Lines : r.lines[s][i] = IF i = 0 THEN x[s] ELSE 0
  <2>1. now + CompressionPeriod \in Moments
    BY Constants DEF CompressionPeriod, Moments
  <2>2. NewRecord(r, p, h)
    BY <1>1, <2>1, NewInfoRecord
  <2>3. \A s \in Sums, i \in Lines : r.lines[s][i] = IF i = 0 THEN x[s] ELSE 0
    BY DEF NewInfo, Empty
  <2>. QED  BY <2>2, <2>3 DEF NewRecord
<1>4. Counted(r)
  <2>1. "counts" \in Sums /\ 0 \in Lines /\ CountLimit \in Nat \ {0}
    BY Constants DEF Sums
  <2>. QED  BY <1>2, <1>3, <2>1 DEF Counted, Ranged, Flag
<1>5. Kids(f, a) = {} /\ \A c \in Accounts : a \notin Kids(f, c)
  <2>1. Empty.referrals = {} /\ Empty.referrer = None
    BY DEF Empty
  <2>2. f[a].referrals = Kids(f, a)
    BY <1>1 DEF Tree, Kids
  <2>. QED  BY <1>1, <2>1, <2>2, Constants DEF Kids
<1>6. Adds(f, a, r, p, x)
  <2>1. \A c \in Parents : c = p \/ c # None => a \notin Kids(f, c)
    BY <1>1, <1>5 DEF Parents
  <2>2. \A s \in Sums, i \in Inner : r.lines[s][i] = 0
    <3>1. \A i \in Inner : i \in Lines /\ i # 0
      BY Constants DEF Inner, Lines
    <3>. QED  BY <1>3, <3>1
  <2>3. \A s \in Sums : r.lines[s][0] = x[s]
    BY <1>3, Constants
  <2>. HIDE DEF r, x
  <2>. QED  BY <1>1, <1>2, <1>3, <1>4, <1>5, <2>1, <2>2, <2>3 DEF Adds
<1>7. AppendChild(w, p, a, h) = Joined(Update(w, a, r), a, p, x, Depth)
  BY DEF AppendChild
<1>8. Depth \in 1..Depth
  BY Constants
<1>. HIDE DEF r, x, f
<1>9. Adds(w.infos, a, r, p, x)
  BY <1>6 DEF f
<1>. QED  BY <1>1, <1>7, <1>8, <1>9, JoinLined

\* Tasks and times of banishment do not matter to sums.
LEMMA BanishmentSet ==
    ASSUME NEW f \in [Accounts -> Records], NEW a \in Accounts, NEW t \in Moments,
           NEW g, g = [f EXCEPT ![a].banishmentAt = t]
    PROVE  \A c \in Accounts : SameSeat(f[c], g[c]) /\ g[c].lines = f[c].lines
<1>1. g = [f EXCEPT ![a] = [f[a] EXCEPT !.banishmentAt = t]]
  OBVIOUS
<1>2. \A c \in Accounts : g[c] = IF c = a THEN [f[a] EXCEPT !.banishmentAt = t] ELSE f[c]
  BY <1>1
<1>3. f[a] \in Info
  BY DEF Records
<1>4. SameSeat(f[a], g[a]) /\ g[a].lines = f[a].lines
  BY <1>2, <1>3 DEF SameSeat, Info
<1>. QED  BY <1>2, <1>4 DEF SameSeat

LEMMA SpareSeats ==
    ASSUME NEW w \in Worlds, NEW a \in Accounts
    PROVE  LET v == Spare(w, a)
           IN  /\ v \in Worlds /\ v.broken = w.broken /\ v.infos = [w.infos EXCEPT ![a] = v.infos[a]]
               /\ \A c \in Accounts : SameSeat(w.infos[c], v.infos[c])
                                      /\ v.infos[c].lines = w.infos[c].lines
<1> DEFINE v == Spare(w, a)
<1>1. w.infos \in [Accounts -> Records] /\ v \in Worlds
  <2>1. Becomes(w, v, w.infos)
    BY SpareKeeps
  <2>. QED  BY <2>1, WorldFields DEF Becomes
<1>2. /\ \A c \in Accounts : SameSeat(w.infos[c], v.infos[c]) /\ v.infos[c].lines = w.infos[c].lines
      /\ v.broken = w.broken /\ v.infos = [w.infos EXCEPT ![a] = v.infos[a]]
  <2>1. CASE w.infos[a].banishmentAt = NoTime
    <3>1. v = w
      BY <2>1 DEF Spare
    <3>. HIDE DEF v
    <3>. QED  BY <1>1, <3>1 DEF SameSeat
  <2>2. CASE w.infos[a].banishmentAt # NoTime
    <3> DEFINE u == Withdrawn(w, w.infos[a].banishmentAt, "banish", a)
    <3>1. u \in Worlds /\ u.infos = w.infos /\ u.broken = w.broken
      BY WithdrawnWorld
    <3>2. v = [u EXCEPT !.infos[a].banishmentAt = NoTime]
      BY <2>2 DEF Spare
    <3>. HIDE DEF u, v
    <3>3. v.infos = [w.infos EXCEPT ![a].banishmentAt = NoTime] /\ v.broken = w.broken
      BY <3>1, <3>2 DEF Worlds
    <3>4. NoTime \in Moments
      BY DEF Moments
    <3>5. v.infos = [w.infos EXCEPT ![a] = v.infos[a]]
      BY <1>1, <3>3
    <3>. QED  BY <1>1, <3>3, <3>4, <3>5, BanishmentSet
  <2>. QED  BY <2>1, <2>2
<1>. QED  BY <1>1, <1>2

LEMMA SpareLined ==
    ASSUME NEW w \in Worlds, Lined(w), NEW a \in Accounts
    PROVE  Lined(Spare(w, a)) /\ SameSeat(w.infos[a], Spare(w, a).infos[a])
<1> DEFINE v == Spare(w, a)
<1>1. /\ v \in Worlds /\ v.broken = w.broken
      /\ \A c \in Accounts : SameSeat(w.infos[c], v.infos[c]) /\ v.infos[c].lines = w.infos[c].lines
  BY SpareSeats
<1>2. w.infos \in [Accounts -> Records] /\ v.infos \in [Accounts -> Records]
  BY <1>1, WorldFields
<1>. HIDE DEF v
<1>3. Lined(v)
  BY <1>1, <1>2, SameLined
<1>. QED  BY <1>1, <1>3 DEF v

LEMMA AnnouncedSeats ==
    ASSUME now \in Nat, NEW w \in Worlds, NEW a \in Accounts
    PROVE  LET v == ScheduleBanishment(w, a)
           IN  /\ v \in Worlds /\ v.broken = w.broken
               /\ \A c \in Accounts : SameSeat(w.infos[c], v.infos[c])
                                      /\ v.infos[c].lines = w.infos[c].lines
<1> DEFINE v == ScheduleBanishment(w, a)
           u == [w EXCEPT !.infos[a].banishmentAt = now + Month]
<1>1. now + Month \in Nat /\ now + Month \in Moments /\ "banish" \in Handlers
  BY Constants DEF Moments, Handlers
<1>2. u \in Worlds /\ u.broken = w.broken
  BY <1>1, SetBanishment
<1>3. v = Scheduled(u, now + Month, "banish", a)
  BY DEF ScheduleBanishment
<1>4. v \in Worlds /\ v.infos = u.infos /\ v.broken = w.broken
  <2>. HIDE DEF u, v
  <2>. QED  BY <1>1, <1>2, <1>3, ScheduledWorld
<1>5. w.infos \in [Accounts -> Records]
  BY WorldFields
<1>6. v.infos = [w.infos EXCEPT ![a].banishmentAt = now + Month]
  BY <1>4 DEF Worlds
<1>. HIDE DEF v, u
<1>7. \A c \in Accounts : SameSeat(w.infos[c], v.infos[c]) /\ v.infos[c].lines = w.infos[c].lines
  BY <1>1, <1>5, <1>6, BanishmentSet
<1>. QED  BY <1>4, <1>7 DEF v

LEMMA AnnouncedLined ==
    ASSUME now \in Nat, NEW w \in Worlds, Lined(w), NEW a \in Accounts
    PROVE  Lined(ScheduleBanishment(w, a))
<1> DEFINE v == ScheduleBanishment(w, a)
<1>1. /\ v \in Worlds /\ v.broken = w.broken
      /\ \A c \in Accounts : SameSeat(w.infos[c], v.infos[c]) /\ v.infos[c].lines = w.infos[c].lines
  BY AnnouncedSeats
<1>2. w.infos \in [Accounts -> Records] /\ v.infos \in [Accounts -> Records]
  BY <1>1, WorldFields
<1>. HIDE DEF v
<1>3. Lined(v)
  BY <1>1, <1>2, SameLined
<1>. QED  BY <1>3 DEF v

\* What OnBalanceChanged does first keeps the sums.
LEMMA StirredLined ==
    ASSUME now \in Nat, Earned, NEW w, NEW rest, NEW X, NEW D, NEW E, NEW a, NEW h,
           Changes(w, rest, X, D, E, a, h), ~IsEmpty(w.infos[a]), Lined(w)
    PROVE  Lined(Stirred(w, a, h))
<1> DEFINE r == w.infos[a]
           v == Stirred(w, a, h)
<1>1. /\ Sound(w) /\ ~w.broken /\ Quiet(w, rest, X, E) /\ a \in Accounts
      /\ Calm(w, rest, X, E)
  BY DEF Changes, Calm
<1>2. w \in Worlds /\ r \in Records /\ Sane(a, r, X, E[a])
  BY <1>1, QuietFields DEF Quiet
<1>3. Calm(v, rest, X, D)
  BY StirredQuiet
<1>4. CASE v = w
  BY <1>4
<1>5. CASE v = Redeemed(Spare(w, a), a)
  <2>1. CASE r.banished
    <3>1. r.banishmentAt = NoTime
      BY <1>2, <2>1 DEF Sane
    <3>2. Spare(w, a) = w
      BY <3>1 DEF Spare
    <3>3. Calm(Redeemed(w, a), rest, X, D)
      BY <1>3, <1>5, <3>2
    <3>4. Lined(Redeemed(w, a))
      BY <1>1, <2>1, <3>3, RedeemedLined
    <3>. QED  BY <1>5, <3>2, <3>4
  <2>2. CASE ~r.banished
    <3> DEFINE u == Spare(w, a)
    <3>1. Lined(u) /\ SameSeat(r, u.infos[a])
      BY <1>1, <1>2, SpareLined
    <3>2. ~u.infos[a].banished
      BY <2>2, <3>1 DEF SameSeat
    <3>3. Redeemed(u, a) = u
      BY <3>2 DEF Redeemed
    <3>. QED  BY <1>5, <3>1, <3>3
  <2>. QED  BY <2>1, <2>2
<1>6. CASE v = ScheduleBanishment(w, a)
  BY <1>1, <1>2, <1>6, AnnouncedLined
<1>7. v = w \/ v = Redeemed(Spare(w, a), a) \/ v = ScheduleBanishment(w, a)
  BY DEF Stirred
<1>. QED  BY <1>4, <1>5, <1>6, <1>7

\* The own line of a, before the lines above know.
Topped(m, a, x, v) ==
    v.broken \/
      /\ ~m.broken /\ v \in Worlds
      /\ v.infos[a].referrer = m.infos[a].referrer /\ v.infos[a].banished = m.infos[a].banished
      /\ \A c \in Accounts : Counted(v.infos[c])
      /\ m.infos[a].banished => LinesFit(v.infos)
      /\ ~m.infos[a].banished => FitBut(v.infos, m.infos[a].referrer, InLine(1, x))

\* The account's own sums, and those above it.
LEMMA AccountedLined ==
    ASSUME now \in Nat, NEW m \in Worlds, Lined(m), NEW a \in Accounts,
           NEW x \in Amounts, x["counts"] = 0,
           NEW v, v = Checked(m, a, Contribute(m.infos[a], 0, x))
    PROVE  Topped(m, a, x, v)
<1>. SUFFICES ASSUME ~v.broken PROVE Topped(m, a, x, v)
  BY DEF Topped
<1> DEFINE f == m.infos
           q == f[a]
           r == Contribute(q, 0, x)
           d == InLine(0, x)
<1>1. f \in [Accounts -> Records] /\ q \in Records /\ d \in LineSums
  BY WorldFields, BringsGains
<1>2. r = Adjust(q, d)
  BY DEF Contribute
<1>. HIDE DEF r, d, q
<1>3. r \in Records /\ SameSeat(q, r)
  <2>1. r \in Records /\ r = [q EXCEPT !.lines = r.lines]
    BY <1>1, <1>2, AdjustRecord
  <2>. QED  BY <1>1, <2>1 DEF SameSeat, Records, Info
<1>4. Ranged(r) /\ \A s \in Sums, i \in Lines : Eqv(s, r.lines[s][i], q.lines[s][i] + d[s][i])
  BY <1>1, <1>2, AdjustLines
<1>5. PICK check \in BOOLEAN : v = Written(check, m, a, r)
  BY DEF Written, r, q
<1>6. /\ ~m.broken /\ v.infos = [f EXCEPT ![a] = v.infos[a]]
      /\ SameSeat(r, v.infos[a]) /\ v.infos[a].lines = r.lines
  <2>1. ~Written(check, m, a, r).broken
    BY <1>5
  <2>. QED  BY <1>3, <1>5, <2>1, WrittenLines
<1>7. v \in Worlds /\ v.infos[a] \in Records
  <2>1. Writes(m, Checked(m, a, r), a, r)
    BY <1>3, CheckedWrites
  <2>2. v \in Worlds
    BY <2>1 DEF Writes, r, q
  <2>. QED  BY <2>2, WorldFields
<1>8. LinesFit(f)
  BY <1>6 DEF Lined
<1>9. Counted(v.infos[a])
  <2>1. "counts" \in Sums /\ 0 \in Lines /\ Counted(q)
    BY <1>8, Constants DEF Sums, LinesFit, q
  <2>2. d["counts"][0] = 0
    BY <2>1, Constants, InLineValue DEF d
  <2>3. r.lines["counts"][0] \in 0..(CountLimit - 1) /\ q.lines["counts"][0] \in 0..(CountLimit - 1)
    BY <1>4, <2>1 DEF Ranged, Counted
  <2>4. Eqv("counts", r.lines["counts"][0], q.lines["counts"][0] + 0)
    BY <1>4, <2>1, <2>2
  <2>5. /\ r.lines["counts"][0] \in Int /\ q.lines["counts"][0] \in Int
        /\ q.lines["counts"][0] + 0 = q.lines["counts"][0]
    BY <2>3, Constants
  <2>6. r.lines["counts"][0] = q.lines["counts"][0]
    BY <2>3, <2>4, <2>5, EqvInRange
  <2>. QED  BY <1>3, <1>4, <1>6, <2>1, <2>6 DEF Counted, Ranged, Flag, SameSeat
<1>10. Gathers(f, a, v.infos[a], x)
  <2>1. \A s \in Sums, i \in Lines :
          Eqv(s, v.infos[a].lines[s][i], f[a].lines[s][i] + InLine(0, x)[s][i])
    BY <1>4, <1>6 DEF q, d
  <2>2. v.infos[a].referrer = f[a].referrer /\ v.infos[a].banished = f[a].banished
    BY <1>3, <1>6 DEF SameSeat, q
  <2>. QED  BY <1>7, <1>8, <1>9, <2>1, <2>2 DEF Gathers
<1>11. /\ f[a].banished => LinesFit(v.infos)
       /\ ~f[a].banished => FitBut(v.infos, f[a].referrer, InLine(1, x))
       /\ \A c \in Accounts : Counted(v.infos[c])
  BY <1>1, <1>6, <1>10, GathersFits
<1>. QED  BY <1>6, <1>7, <1>10, <1>11 DEF Topped, Gathers

\* u is a world on the way to v.
SameWorld(u, v) == u.infos = v.infos /\ u.broken = v.broken

\* A climb from the referrer of an account that is not banished.
LEMMA ClimbUp ==
    ASSUME now \in Nat, NEW w \in Worlds, NEW a \in Accounts, NEW p \in Parents, NEW n \in 1..Depth,
           NEW link \in Links, NEW x \in Amounts, NEW check \in BOOLEAN,
           n = Depth \/ \A s \in Sums : x[s] = 0,
           w.broken \/ (FitBut(w.infos, p, InLine(1, x)) /\ \A c \in Accounts : Counted(w.infos[c])),
           w.broken \/ (w.infos[a].referrer = p /\ ~w.infos[a].banished),
           NEW u, u = ClimbIf(check, w, p, n, link, Brings(x)),
           NEW v, SameWorld(u, v), NEW rest, NEW X, NEW D, Calm(v, rest, X, D)
    PROVE  Lined(v)
<1> DEFINE gain == Brings(x)
<1>1. gain \in Gains /\ Shifts(gain) /\ gain[1] = InLine(1, x)
      /\ ((\A s \in Sums : x[s] = 0) => NoGain(gain))
  BY BringsShifts
<1>. HIDE DEF gain
<1>2. u = ClimbIf(check, w, p, n, link, gain)
  BY DEF gain
<1>3. v.broken \/ p = None \/ \E b \in Accounts : b \in Kids(v.infos, p)
  <2>1. ASSUME ~v.broken PROVE a \in Kids(v.infos, p)
    <3>1. ~u.broken /\ u.infos = v.infos
      BY <2>1 DEF SameWorld
    <3>2. ~w.broken /\ \A c : Kids(u.infos, c) = Kids(w.infos, c)
      BY <1>1, <1>2, <3>1, ClimbSeats
    <3>3. a \in Kids(w.infos, p)
      BY <3>2 DEF Kids
    <3>. QED  BY <3>1, <3>2, <3>3
  <2>. QED  BY <2>1
<1>4. Arrives(v, p)
  BY <1>3, ArrivesAt
<1>5. Arrives(u, p)
  BY <1>4 DEF Arrives, SameWorld
<1>6. n = Depth \/ NoGain(gain)
  BY <1>1
<1>7. w.broken \/ (FitBut(w.infos, p, gain[1]) /\ \A c \in Accounts : Counted(w.infos[c]))
  BY <1>1
<1>8. Lined(u)
  BY <1>1, <1>2, <1>5, <1>6, <1>7, ClimbLined
<1>. QED  BY <1>8 DEF Lined, SameWorld

\* A change of a balance keeps the lines exact.
LEMMA BalanceChangedLined ==
    ASSUME now \in Nat, Earned, NEW w, NEW rest, NEW X, NEW D, NEW E, NEW a, NEW h,
           Changes(w, rest, X, D, E, a, h), Lined(w)
    PROVE  Lined(OnBalanceChanged(w, a, h))
<1> DEFINE r == w.infos[a]
           m == Stirred(w, a, h)
           q == m.infos[a]
           x == [f \in Sums |-> Own(h)[f] - Balance(r)[f]]
           set == Accounted(w, a, h)
           v == OnBalanceChanged(w, a, h)
<1>1. Sound(w) /\ a \in Accounts /\ h \in [coins : Int, delegated : Int]
  BY DEF Changes
<1>2. Calm(v, rest, X, D)
  BY BalanceChangedQuiet
<1>3. /\ v = IF IsEmpty(r) THEN w
             ELSE IF q.banished THEN set ELSE Climb(set, q.referrer, Depth, NoLink, Brings(x))
      /\ x \in Amounts
  BY <1>1, BalanceChangedParts
<1>4. x["counts"] = 0
  BY DEF Own, Balance, Sums
<1>5. CASE IsEmpty(r)
  BY <1>3, <1>5
<1>6. CASE ~IsEmpty(r)
  <2>1. Lined(m) /\ Calm(m, rest, X, D)
    BY <1>6, StirredLined, StirredQuiet
  <2>2. m \in Worlds /\ m.infos \in [Accounts -> Records] /\ q.referrer \in Parents
    BY <1>1, <2>1, QuietFields DEF Calm
  <2>3. set = Checked(m, a, Contribute(m.infos[a], 0, x))
    BY DEF Accounted
  <2>. HIDE DEF x, set, m
  <2>4. Topped(m, a, x, set)
    BY <1>1, <1>3, <1>4, <2>1, <2>2, <2>3, AccountedLined
  <2>5. CASE q.banished
    BY <1>3, <1>6, <2>4, <2>5 DEF Topped, Lined
  <2>6. CASE ~q.banished
    <3>1. set \in Worlds
      <4>1. Contribute(q, 0, x) \in Records
        <5>1. InLine(0, x) \in LineSums /\ q \in Records
          BY <1>1, <1>3, <2>2, BringsGains
        <5>. QED  BY <5>1, AdjustRecord DEF Contribute
      <4>2. Writes(m, Checked(m, a, Contribute(q, 0, x)), a, Contribute(q, 0, x))
        BY <1>1, <2>2, <4>1, CheckedWrites
      <4>. QED  BY <2>3, <4>2 DEF Writes
    <3>2. PICK check \in BOOLEAN : v = ClimbIf(check, set, q.referrer, Depth, NoLink, Brings(x))
      BY <1>3, <1>6, <2>6 DEF Climb
    <3>3. Depth \in 1..Depth /\ NoLink \in Links
      <4>1. Depth \in 1..Depth
        BY Constants
      <4>2. NoLink \in Links
        BY <1>1, LinksOf
      <4>. QED  BY <4>1, <4>2
    <3>4. /\ set.broken \/ (FitBut(set.infos, q.referrer, InLine(1, x))
                            /\ \A c \in Accounts : Counted(set.infos[c]))
          /\ set.broken \/ (set.infos[a].referrer = q.referrer /\ ~set.infos[a].banished)
      BY <2>4, <2>6 DEF Topped
    <3>5. SameWorld(v, v)
      BY DEF SameWorld
    <3>. HIDE DEF v, q
    <3>. QED  BY <1>1, <1>2, <1>3, <2>2, <3>1, <3>2, <3>3, <3>4, <3>5, ClimbUp DEF v, q
  <2>. QED  BY <2>5, <2>6
<1>. QED  BY <1>5, <1>6

\* The record of an account that becomes active or falls inactive.
LEMMA ActivityGathers ==
    ASSUME now \in Nat, Roomy, NEW f \in [Accounts -> Records], LinesFit(f), NEW a \in Accounts,
           NEW active \in BOOLEAN, f[a].active # active,
           NEW r \in Records, SameSeat(ActivityRecord(f[a], active), r),
           r.lines = ActivityRecord(f[a], active).lines
    PROVE  Delta(active) \in Amounts /\ Gathers(f, a, r, Delta(active))
<1> DEFINE x == Delta(active)
           q == f[a]
           d == InLine(0, x)
           t == ActivityRecord(q, active)
<1>1. x \in Amounts /\ d \in LineSums /\ q \in Records
  <2>1. x \in Amounts
    BY DEF Delta, Amounts, Sums
  <2>. QED  BY <2>1, BringsGains
<1>2. t.referrer = q.referrer /\ t.banished = q.banished /\ t.active = active
  BY <1>1, ActivityFields
<1>3. t.lines = Adjust(q, d).lines
  <2>1. Adjust(q, d) \in Info
    BY <1>1, AdjustRecord DEF Records
  <2>2. t = [Adjust(q, d) EXCEPT !.active = active,
               !.compressionAt = IF active THEN NoTime ELSE now + CompressionPeriod]
    BY DEF ActivityRecord, Contribute
  <2>. HIDE DEF d, q, t
  <2>. QED  BY <2>1, <2>2 DEF Info
<1>4. r.referrer = q.referrer /\ r.banished = q.banished /\ r.active = active
  BY <1>2 DEF SameSeat
<1>5. r.lines = Adjust(q, d).lines
  BY <1>3
<1>6. Ranged(Adjust(q, d))
      /\ \A s \in Sums, i \in Lines : Eqv(s, Adjust(q, d).lines[s][i], q.lines[s][i] + d[s][i])
  <2>. HIDE DEF d, q
  <2>. QED  BY <1>1, AdjustLines
<1>7. Counted(r)
  <2>1. "counts" \in Sums /\ 0 \in Lines /\ Counted(q)
    BY Constants DEF Sums, LinesFit
  <2>2. d["counts"][0] = IF active THEN 1 ELSE -1
    BY <1>1, <2>1, Constants, InLineValue DEF Delta
  <2>3. q.lines["counts"][0] = IF active THEN 0 ELSE 1
    <3>1. q.active \in BOOLEAN
      BY <1>1, InfoFields DEF Records
    <3>. QED  BY <2>1, <3>1 DEF Counted, Flag
  <2>4. q.lines["counts"][0] + d["counts"][0] = Flag(r)
    BY <1>4, <2>2, <2>3 DEF Flag
  <2>5. Flag(r) \in 0..(CountLimit - 1)
    BY Room, Constants DEF Flag
  <2>6. r.lines["counts"][0] \in 0..(CountLimit - 1)
    BY <1>5, <1>6, <2>1 DEF Ranged
  <2>7. Eqv("counts", r.lines["counts"][0], Flag(r))
    BY <1>5, <1>6, <2>1, <2>4
  <2>8. r.lines["counts"][0] \in Int /\ Flag(r) \in Int
    BY <2>5, <2>6, Constants
  <2>9. r.lines["counts"][0] = Flag(r)
    BY <2>5, <2>6, <2>7, <2>8, EqvInRange
  <2>. QED  BY <1>5, <1>6, <2>9 DEF Counted, Ranged
<1>8. \A s \in Sums, i \in Lines : Eqv(s, r.lines[s][i], f[a].lines[s][i] + InLine(0, x)[s][i])
  BY <1>5, <1>6
<1>. HIDE DEF x
<1>. QED  BY <1>1, <1>4, <1>7, <1>8 DEF Gathers, x

(***************************************************************************)
(* A change of activity is counted in all lines above.                     *)
(***************************************************************************)
LEMMA ActivatedLined ==
    ASSUME now \in Nat, Roomy, NEW w \in Worlds, ~w.broken, Lined(w), NEW a \in Accounts,
           ~w.infos[a].banished, NEW active \in BOOLEAN, w.infos[a].active # active,
           NEW check \in BOOLEAN, NEW v, SameWorld(Activated(w, a, active, check), v),
           NEW rest, NEW X, NEW D, Calm(v, rest, X, D)
    PROVE  Lined(v)
<1> DEFINE f == w.infos
           p == f[a].referrer
           s == ActivityRecord(f[a], active)
           own == Update(w, a, s)
           u == IF active THEN Spare(own, a) ELSE own
           r == u.infos[a]
           x == Delta(active)
<1>1. f \in [Accounts -> Records] /\ f[a] \in Records /\ p \in Parents /\ LinesFit(f)
  <2>1. f \in [Accounts -> Records] /\ LinesFit(f)
    BY WorldFields DEF Lined
  <2>2. p \in Parents
    BY <2>1, InfoFields DEF Records
  <2>. QED  BY <2>1, <2>2
<1>2. s \in Records /\ s.referrer = p /\ s.banished = f[a].banished
  BY <1>1, ActivityFields
<1>3. Activated(w, a, active, check) = ClimbIf(check, u, p, Depth, Activity(a, active), Brings(x))
  BY DEF Activated
<1>. HIDE DEF s
<1>4. own \in Worlds /\ own.infos = [f EXCEPT ![a] = s] /\ own.broken = w.broken
  BY <1>2, UpdateWorld
<1>5. own.infos[a] = s /\ own.infos \in [Accounts -> Records]
  BY <1>1, <1>2, <1>4
<1>. HIDE DEF own
<1>6. /\ u \in Worlds /\ u.broken = w.broken /\ u.infos = [own.infos EXCEPT ![a] = r]
      /\ SameSeat(s, r) /\ r.lines = s.lines
  <2>1. CASE active
    <3> DEFINE z == Spare(own, a)
    <3>1. /\ z \in Worlds /\ z.broken = own.broken /\ z.infos = [own.infos EXCEPT ![a] = z.infos[a]]
          /\ SameSeat(own.infos[a], z.infos[a]) /\ z.infos[a].lines = own.infos[a].lines
      BY <1>4, SpareSeats
    <3>2. u = z
      BY <2>1
    <3>. HIDE DEF z, u
    <3>. QED  BY <1>4, <1>5, <3>1, <3>2 DEF r
  <2>2. CASE ~active
    <3>1. u = own
      BY <2>2
    <3>. HIDE DEF u
    <3>. QED  BY <1>4, <1>5, <3>1 DEF SameSeat, r
  <2>. QED  BY <2>1, <2>2
<1>. HIDE DEF u
<1>7. u.infos = [f EXCEPT ![a] = r] /\ r \in Records
  <2>1. u.infos \in [Accounts -> Records]
    BY <1>6, WorldFields
  <2>. HIDE DEF r
  <2>. QED  BY <1>1, <1>4, <1>6, <2>1 DEF r
<1>. HIDE DEF r, x
<1>8. x \in Amounts /\ Gathers(f, a, r, x)
  BY <1>1, <1>6, <1>7, ActivityGathers DEF s, x
<1>9. FitBut(u.infos, p, InLine(1, x)) /\ \A c \in Accounts : Counted(u.infos[c])
  BY <1>1, <1>7, <1>8, GathersFits
<1>10. u.infos[a].referrer = p /\ ~u.infos[a].banished
  BY <1>2, <1>6 DEF SameSeat, r
<1>11. Activity(a, active) \in Links /\ Depth \in 1..Depth
  <2>1. Activity(a, active) \in Links
    BY ActivityParts
  <2>2. Depth \in 1..Depth
    BY Constants
  <2>. QED  BY <2>1, <2>2
<1>. DEFINE z == Activated(w, a, active, check)
           link == Activity(a, active)
<1>12. z = ClimbIf(check, u, p, Depth, link, Brings(x)) /\ SameWorld(z, v)
  BY <1>3
<1>. HIDE DEF z, link, p, f
<1>13. link \in Links
  BY <1>11 DEF link
<1>. QED  BY <1>1, <1>6, <1>8, <1>9, <1>10, <1>11, <1>12, <1>13, ClimbUp

\* So does a change of activity.
LEMMA SetActiveLined ==
    ASSUME now \in Nat, Roomy, NEW w \in Worlds, ~w.broken, Lined(w), NEW a \in Accounts,
           NEW active \in BOOLEAN, w.infos[a].active # active => ~w.infos[a].banished,
           NEW check \in BOOLEAN, NEW rest, NEW X, NEW D,
           Calm(SetActive(w, a, active, check), rest, X, D)
    PROVE  Lined(SetActive(w, a, active, check))
<1> DEFINE v == SetActive(w, a, active, check)
           u == Activated(w, a, active, check)
<1>1. v = IF w.infos[a].active = active THEN w
          ELSE IF active \/ w.infos[a].referrer = None \/ u.broken THEN u
          ELSE Scheduled(u, now + CompressionPeriod, "compression", a)
  BY SetActiveParts
<1>2. CASE w.infos[a].active = active
  BY <1>1, <1>2
<1>3. CASE w.infos[a].active # active
  <2>1. \A t, h, b : Scheduled(u, t, h, b).infos = u.infos /\ Scheduled(u, t, h, b).broken = u.broken
    BY DEF Scheduled
  <2>2. SameWorld(u, v)
    BY <1>1, <1>3, <2>1 DEF SameWorld
  <2>. HIDE DEF v
  <2>. QED  BY <1>3, <2>2, ActivatedLined DEF v
<1>. QED  BY <1>2, <1>3

\* The record that is laid bare.
LEMMA BareLines ==
    ASSUME NEW r \in Records, NEW s \in Sums, NEW i \in Lines
    PROVE  Bare(r).lines[s][i] = IF i = 0 /\ s # "counts" THEN r.lines[s][0] ELSE 0
<1>1. r \in Info
  BY DEF Records
<1>2. Bare(r).lines = [f \in Sums |-> [j \in Lines |->
                           IF j = 0 /\ f # "counts" THEN r.lines[f][0] ELSE 0]]
  BY <1>1 DEF Bare, Info
<1>. QED  BY <1>2

LEMMA ForsakenSeats ==
    ASSUME now \in Nat, NEW w \in Worlds, NEW a \in Accounts
    PROVE  LET u == Forsaken(w, a)
           IN  /\ u \in Worlds
               /\ SameSeat(w.infos[a], u.infos[a]) /\ u.infos[a].lines = Bare(w.infos[a]).lines
<1> DEFINE r == w.infos[a]
           b == Bared(w, a)
           i == SetIndex(w, a, r.status, 1)
           q == Bare(r)
           u == Forsaken(w, a)
<1>1. w.infos \in [Accounts -> Records] /\ r \in Records /\ 1 \in 0..MaxStatus
  BY WorldFields, Constants
<1>2. q \in Records /\ SameSeat(r, q)
  BY <1>1, BareRecord DEF SameSeat
<1>3. i \in Worlds /\ i.infos = w.infos
  BY <1>1, SetIndexWorld
<1>4. b = Update(i, a, q)
  BY DEF Bared
<1>. HIDE DEF i, q, b
<1>5. b \in Worlds /\ b.infos = [w.infos EXCEPT ![a] = q]
  BY <1>2, <1>3, <1>4, UpdateWorld
<1>6. b.infos[a] = q
  BY <1>1, <1>5
<1>7. u = ScheduleBanishment(b, a) \/ u = b
  BY DEF Forsaken, b
<1>. HIDE DEF u
<1>8. CASE u = b
  BY <1>2, <1>5, <1>6, <1>8 DEF q, u
<1>9. CASE u = ScheduleBanishment(b, a)
  <2>1. /\ u \in Worlds /\ SameSeat(b.infos[a], u.infos[a])
        /\ u.infos[a].lines = b.infos[a].lines
    BY <1>5, <1>9, AnnouncedSeats
  <2>2. SameSeat(r, u.infos[a])
    BY <1>2, <1>6, <2>1 DEF SameSeat
  <2>. QED  BY <1>6, <2>1, <2>2 DEF q, u
<1>. QED  BY <1>7, <1>8, <1>9

\* The tree after the referrals have risen.
LEMMA RisenTree ==
    ASSUME now \in Nat, NEW w, NEW rest, NEW X, NEW D, NEW a, NEW t,
           Compresses(w, rest, X, D, a, t), LinesFit(w.infos), NEW v,
           v = Risen(Forsaken(w, a), w.infos[a].referrals, w.infos[a].referrer), v \in Worlds
    PROVE  RisesTo(w.infos, v.infos, a, w.infos[a].referrer)
<1> DEFINE f == w.infos
           r == f[a]
           R == r.referrals
           p == r.referrer
           u == Forsaken(w, a)
           g == v.infos
<1>1. /\ Sound(w) /\ ~w.broken /\ Quiet(w, rest, X, D) /\ a \in Accounts
      /\ p # None /\ r.compressionAt # NoTime
  BY DEF Compresses
<1>2. f \in [Accounts -> Records] /\ Tree(f) /\ w \in Worlds
  BY <1>1, SoundFields
<1>3. p \in Accounts /\ p # a
  <2>1. p \in Over(f, p) \cup {None} /\ a \notin Over(f, p) /\ p \in Parents
    BY <1>1, <1>2, OwnParent
  <2>. QED  BY <1>1, <2>1 DEF Parents
<1>4. ~r.active /\ ~r.banished
  <2>1. Sane(a, r, X, D[a])
    BY <1>1 DEF Quiet
  <2>. QED  BY <1>1, <2>1 DEF Sane
<1>5. R = Kids(f, a)
  BY <1>1, <1>2 DEF Tree, Kids
<1>6. /\ u \in Worlds /\ SameSeat(r, u.infos[a]) /\ u.infos[a].lines = Bare(r).lines
  BY <1>1, <1>2, ForsakenSeats
<1>7. \A c \in Accounts \ {a} : u.infos[c] = f[c]
  <2>1. now \in Nat /\ Compresses(w, rest, X, D, a, t)
    OBVIOUS
  <2>2. Apart(w, Forsaken(w, a), a, rest \ {t}, X, D)
    BY ONLY <2>1, ForsakenQuiet
  <2>. QED  BY <2>2 DEF Apart
<1>8. v = Risen(u, R, p)
  OBVIOUS
<1>. HIDE DEF u
<1>9. g = [c \in Accounts |-> IF c \in R THEN [u.infos[c] EXCEPT !.referrer = p] ELSE u.infos[c]]
  BY <1>6, <1>8 DEF Risen, Worlds
<1>10. u.infos \in [Accounts -> Records]
  BY <1>6, WorldFields
<1>. HIDE DEF R, p, g, f, r
<1>11. ASSUME NEW c \in Accounts
       PROVE  /\ g[c].banished = u.infos[c].banished /\ g[c].active = u.infos[c].active
              /\ g[c].lines = u.infos[c].lines
              /\ g[c].referrer = IF c \in R THEN p ELSE u.infos[c].referrer
  <2> DEFINE q == u.infos[c]
  <2>1. q \in Info
    BY <1>10 DEF Records
  <2>2. g[c] = IF c \in R THEN [q EXCEPT !.referrer = p] ELSE q
    BY <1>9
  <2>. HIDE DEF q
  <2>3. /\ g[c].banished = q.banished /\ g[c].active = q.active /\ g[c].lines = q.lines
        /\ g[c].referrer = IF c \in R THEN p ELSE q.referrer
    BY <2>1, <2>2 DEF Info
  <2>. QED  BY <2>3 DEF q
<1>12. \A c \in Accounts : SameSeat(f[c], u.infos[c])
  BY <1>6, <1>7 DEF SameSeat, r
<1>13. ASSUME NEW c \in Accounts
       PROVE  /\ g[c].banished = f[c].banished /\ g[c].active = f[c].active
              /\ g[c].referrer = IF c \in Kids(f, a) THEN p ELSE f[c].referrer
              /\ c # a => g[c].lines = f[c].lines
  BY <1>5, <1>7, <1>11, <1>12 DEF SameSeat
<1>14. \A s \in Sums, i \in Lines :
         g[a].lines[s][i] = IF i = 0 /\ s # "counts" THEN f[a].lines[s][0] ELSE 0
  <2>1. r \in Records /\ r = f[a]
    BY <1>1, <1>2 DEF r
  <2>2. g[a].lines = Bare(r).lines
    BY <1>1, <1>6, <1>11
  <2>. QED  BY <2>1, <2>2, BareLines
<1>15. LinesFit(f) /\ p = f[a].referrer
  BY DEF f, p, r
<1>16. ~f[a].active /\ ~f[a].banished
  BY <1>4 DEF r
<1>17. RisesTo(f, g, a, p)
  BY <1>1, <1>3, <1>13, <1>14, <1>15, <1>16 DEF RisesTo
<1>. QED  BY <1>17 DEF f, g, p, r

(***************************************************************************)
(* Compression moves the lines below, and the sums above with them.        *)
(***************************************************************************)
LEMMA CompressLined ==
    ASSUME now \in Nat, Earned, NEW w, NEW rest, NEW X, NEW D, NEW a, NEW t,
           Compresses(w, rest, X, D, a, t), Lined(w),
           NEW v, v = Compress(w, a), NEW ends, NEW Y, NEW E, Calm(v, ends, Y, E)
    PROVE  Lined(v)
<1> DEFINE f == w.infos
           r == f[a]
           p == r.referrer
           u == Forsaken(w, a)
           m == Risen(u, r.referrals, p)
           link == Promotions(r)
           gain == Risings(r)
           less == rest \ {t}
<1>1. /\ Sound(w) /\ ~w.broken /\ Quiet(w, rest, X, D) /\ a \in Accounts
      /\ p # None /\ less \subseteq Task(Handlers, Accounts)
  BY DEF Compresses
<1>2. f \in [Accounts -> Records] /\ Tree(f) /\ r \in Records /\ LinesFit(f)
  BY <1>1, SoundFields DEF Lined
<1>3. v = Climb(m, p, Depth, link, gain)
  BY DEF Compress, Forsaken, Bared, Risen, Promotions, Risings
<1>4. m \in Worlds
  <2>1. now \in Nat /\ Compresses(w, rest, X, D, a, t)
    OBVIOUS
  <2>2. Apart(w, Forsaken(w, a), a, rest \ {t}, X, D)
    BY ONLY <2>1, ForsakenQuiet
  <2>3. /\ u \in Worlds /\ ~u.broken /\ Quiet(u, less, X, D)
        /\ \A c \in Accounts \ {a} : u.infos[c] = w.infos[c]
    BY <2>2 DEF Apart
  <2>. HIDE DEF u, less
  <2>. QED  BY <1>1, <2>3, ReferralsRisen
<1>5. RisesTo(f, m.infos, a, p)
  BY <1>2, <1>4, RisenTree
<1>. HIDE DEF m
<1>6. m.infos \in [Accounts -> Records]
  BY <1>4, WorldFields
<1>7. FitBut(m.infos, p, gain[1]) /\ \A c \in Accounts : Counted(m.infos[c])
  BY <1>2, <1>5, <1>6, RisenFits
<1>8. /\ link \in Links /\ gain \in Gains /\ Shifts(gain) /\ Depth \in 1..Depth /\ p \in Parents
  <2>1. link \in Links
    BY <1>2, RisingsGains
  <2>2. gain \in Gains /\ Shifts(gain)
    BY <1>2, RisingsShifts
  <2>3. Depth \in 1..Depth /\ p \in Parents
    BY <1>2, InfoFields, Constants DEF Records
  <2>. QED  BY <2>1, <2>2, <2>3
<1>9. a \in Kids(m.infos, p)
  <2>1. a \in Kids(f, p) /\ Kids(m.infos, p) = Kids(f, p) \cup Kids(f, a)
    BY <1>5, RisenKids
  <2>. QED  BY <2>1
<1>10. PICK check \in BOOLEAN : v = ClimbIf(check, m, p, Depth, link, gain)
  BY <1>3 DEF Climb
<1>. HIDE DEF link, gain, p
<1>11. v.broken \/ p = None \/ \E b \in Accounts : b \in Kids(v.infos, p)
  <2>1. ASSUME ~v.broken PROVE a \in Kids(v.infos, p)
    <3>1. \A c : Kids(v.infos, c) = Kids(m.infos, c)
      BY <1>4, <1>8, <1>10, <2>1, ClimbSeats
    <3>. QED  BY <1>9, <3>1
  <2>. QED  BY <1>1, <2>1
<1>12. Arrives(v, p)
  BY <1>8, <1>11, ArrivesAt
<1>. QED  BY <1>4, <1>7, <1>8, <1>10, <1>12, ClimbLined

\* The task of compression.
LEMMA PerformCompressionLined ==
    ASSUME now \in Nat, Earned, NEW w, NEW rest, NEW X, NEW D, NEW a \in Accounts,
           Steady(w, rest, X, D), ~w.broken, rest \subseteq Task(Handlers, Accounts), Lined(w),
           NEW t, t.handler = "compression", t.data = a, t.time <= now,
           NEW v, v = PerformCompression(w, a), NEW ends, NEW Y, NEW E, Calm(v, ends, Y, E)
    PROVE  Lined(v)
<1> DEFINE r == w.infos[a]
<1>1. Sound(w) /\ Quiet(w, rest, X, D) /\ Holds(w, D)
  BY DEF Steady, Calm
<1>2. CASE r.compressionAt = NoTime \/ r.compressionAt > now \/ r.referrer = None
  BY <1>2 DEF PerformCompression
<1>3. CASE ~(r.compressionAt = NoTime \/ r.compressionAt > now \/ r.referrer = None)
  <2>1. v = Compress(w, a)
    BY <1>3 DEF PerformCompression
  <2>2. r.compressionAt \in Nat
    BY <1>1, <1>3, QuietFields DEF Moments
  <2>3. Compresses(w, rest, X, D, a, t)
    BY <1>1, <1>3, <2>2 DEF Compresses
  <2>. QED  BY <2>1, <2>3, CompressLined
<1>. QED  BY <1>2, <1>3

(***************************************************************************)
(* Whoever is banished takes his coins with him.                           *)
(***************************************************************************)
LEMMA OustedLined ==
    ASSUME now \in Nat, Earned, NEW w, NEW rest, NEW D, NEW a, NEW t,
           Banishes(w, rest, D, a, t), Lined(w),
           NEW v, v = Ousted(w, a), NEW ends, NEW Y, NEW E, Calm(v, ends, Y, E)
    PROVE  Lined(v)
<1> DEFINE f == w.infos
           r == f[a]
           p == r.referrer
           q == Outcast(r)
           b == Balance(r)
           x == Negated(b)
           n == Reach(b)
           u == Update(w, a, q)
           link == [NoLink EXCEPT !.leave = {a}]
           gain == Brings(x)
<1>1. Sound(w) /\ ~w.broken /\ Quiet(w, rest, {}, D) /\ a \in Accounts
  BY DEF Banishes
<1>2. /\ w \in Worlds /\ f \in [Accounts -> Records] /\ Tree(f) /\ r \in Records
      /\ LinesFit(f)
  BY <1>1, SoundFields DEF Lined
<1>3. MayBanish(r) /\ r.referrals = {}
  BY BanishmentDue
<1>4. Childless(f) /\ r.referrals = Kids(f, a)
  BY <1>1, <1>2, QuietSane, SaneChildless
<1>5. /\ q \in Records /\ q.banished /\ q.referrer = p /\ q.active = r.active
      /\ q.lines = r.lines
  BY <1>2, OutcastFields
<1>6. /\ b \in Amounts /\ (\A s \in Sums : r.lines[s][0] = b[s]) /\ n \in 1..Depth
      /\ (n = Depth \/ \A s \in Sums : b[s] = 0)
  BY <1>1, <1>2, <1>3, OwnSums DEF MayBanish
<1>7. /\ x \in Amounts /\ \A s \in Sums : x[s] = -b[s] /\ r.lines[s][0] = -x[s]
  <2>1. \A s \in Sums : x[s] = -b[s] /\ b[s] \in Int
    BY <1>6 DEF Negated, Amounts
  <2>2. x \in Amounts
    <3>. HIDE DEF b
    <3>. QED  BY <2>1 DEF Negated, Amounts
  <2>3. ASSUME NEW s \in Sums PROVE r.lines[s][0] = -x[s]
    <3>1. r.lines[s][0] = b[s] /\ x[s] = -b[s] /\ b[s] \in Int
      BY <1>6, <2>1
    <3>. HIDE DEF b, x, r
    <3>. QED  BY <3>1
  <2>. QED  BY <2>1, <2>2, <2>3
<1>8. n = Depth \/ \A s \in Sums : x[s] = 0
  <2>1. \A s \in Sums : b[s] = 0 => x[s] = 0
    BY <1>6, <1>7
  <2>. QED  BY <1>6, <2>1
<1>9. v = Climb(u, p, n, link, gain)
  BY DEF Ousted, Outcast
<1>. HIDE DEF q, b, x, n, gain, link
<1>10. u \in Worlds /\ u.infos = [f EXCEPT ![a] = q]
  BY <1>1, <1>2, <1>5, UpdateWorld
<1>. HIDE DEF u
<1>11. Leaves(f, a, q, x)
  BY <1>1, <1>2, <1>3, <1>4, <1>5, <1>7 DEF Leaves, MayBanish
<1>12. FitBut(u.infos, p, InLine(1, x)) /\ \A c \in Accounts : Counted(u.infos[c])
  BY <1>2, <1>10, <1>11, LeavesFits
<1>13. gain \in Gains /\ Shifts(gain) /\ gain[1] = InLine(1, x)
       /\ ((\A s \in Sums : x[s] = 0) => NoGain(gain))
  BY <1>7, BringsShifts DEF gain
<1>14. link \in Links /\ p \in Parents
  <2>1. link \in Links
    BY <1>1, LinksOf DEF link
  <2>2. p \in Parents
    BY <1>2, InfoFields DEF Records
  <2>. QED  BY <2>1, <2>2
<1>15. PICK check \in BOOLEAN : v = ClimbIf(check, u, p, n, link, gain)
  BY <1>9 DEF Climb
<1>16. Arrives(v, p)
  <2>. SUFFICES ASSUME ~v.broken PROVE Arrives(v, p)
    BY DEF Arrives
  <2>1. Tree(v.infos) /\ AllSane(v.infos, Y, E)
    BY SoundFields, QuietSane DEF Calm
  <2>2. Childless(v.infos)
    BY <2>1, SaneChildless
  <2>3. p \in Accounts /\ p # a
    <3>1. p # None
      BY <1>3 DEF MayBanish
    <3>2. p \in Over(f, p) \cup {None} /\ a \notin Over(f, p)
      BY <1>1, <1>2, OwnParent
    <3>. QED  BY <1>14, <3>1, <3>2 DEF Parents
  <2>4. ~f[p].banished
    <3>1. a \in Kids(f, p)
      BY <1>1, <1>3 DEF Kids, MayBanish
    <3>. QED  BY <1>4, <2>3, <3>1 DEF Childless
  <2>5. u.infos[p] = f[p]
    BY <1>10, <2>3
  <2>6. SameSeat(u.infos[p], v.infos[p])
    <3>1. /\ u \in Worlds /\ p \in Parents /\ n \in 1..Depth /\ link \in Links /\ gain \in Gains
          /\ check \in BOOLEAN /\ v = ClimbIf(check, u, p, n, link, gain) /\ ~v.broken
          /\ now \in Nat
      BY <1>6, <1>10, <1>13, <1>14, <1>15
    <3>. HIDE DEF p
    <3>2. \A c \in Accounts : SameSeat(u.infos[c], v.infos[c])
      BY ONLY <3>1, ClimbSeats
    <3>. QED  BY <2>3, <3>2
  <2>7. ~v.infos[p].banished
    BY <2>4, <2>5, <2>6 DEF SameSeat
  <2>. QED  BY <2>1, <2>2, <2>7 DEF Arrives
<1>17. n = Depth \/ NoGain(gain)
  BY <1>8, <1>13
<1>18. FitBut(u.infos, p, gain[1]) /\ \A c \in Accounts : Counted(u.infos[c])
  BY <1>12, <1>13
<1>. HIDE DEF p
<1>. QED  BY <1>6, <1>10, <1>13, <1>14, <1>15, <1>16, <1>17, <1>18, ClimbLined

(***************************************************************************)
(* Banishment, with what x/delegating revokes.                             *)
(***************************************************************************)
LEMMA BanishLined ==
    ASSUME now \in Nat, Earned, NEW w, NEW rest, NEW D, NEW a, NEW t,
           Banishes(w, rest, D, a, t), Lined(w)
    PROVE  Lined(Banish(w, a))
<1> DEFINE v == Ousted(w, a)
           less == rest \ {t}
           y == Balance(v.infos[a])
           h == [coins |-> y.coins, delegated |-> 0]
           E == [c \in Accounts |-> IF c = a THEN 0 ELSE D[c]]
           g == OnBalanceChanged(v, a, h)
<1>1. /\ Sound(w) /\ ~w.broken /\ less \subseteq Task(Handlers, Accounts)
      /\ Holds(w, D) /\ a \in Accounts /\ phase = "pass"
  BY DEF Banishes
<1>2. MayBanish(w.infos[a])
  BY BanishmentDue
<1>3. Sound(v)
  <2>1. Ends(w, v)
    BY <1>1, <1>2, OustedEnds
  <2>. QED  BY <2>1 DEF Ends
<1>4. v.broken \/ (Quiet(v, less, {}, D) /\ ~IsEmpty(v.infos[a]))
  BY OustedQuiet
<1>5. Lined(v)
  <2>1. Calm(v, less, {}, D)
    BY <1>3, <1>4 DEF Calm
  <2>. QED  BY <2>1, OustedLined
<1>6. Banish(w, a) = IF v.broken \/ y.delegated = 0 THEN v ELSE g
  BY <1>2 DEF Banish, Ousted, OnBanished
<1>. HIDE DEF v, less
<1>7. CASE v.broken \/ y.delegated = 0
  BY <1>5, <1>6, <1>7
<1>8. CASE ~(v.broken \/ y.delegated = 0)
  <2>1. Wealthy(v.infos[a]) /\ v.infos[a] \in Records
    BY <1>1, <1>3, <1>8, SoundFields
  <2>2. /\ y.coins \in Int /\ y.delegated \in Int
        /\ y.coins = v.infos[a].lines["coins"][0] /\ y.delegated = v.infos[a].lines["delegated"][0]
    <3>1. y \in Amounts
      BY <2>1, BalanceFields
    <3>. QED  BY <2>1, <3>1, BalanceFields DEF Amounts, Sums
  <2>3. 0 <= y.coins
    <3>1. 0 <= y.delegated /\ y.delegated <= y.coins
      BY <2>1, <2>2 DEF Wealthy
    <3>. HIDE DEF y
    <3>. QED  BY <2>2, <3>1
  <2>. HIDE DEF y
  <2>4. h \in [coins : Int, delegated : Int] /\ h.delegated = 0 /\ h.delegated <= h.coins
    BY <2>2, <2>3
  <2>. HIDE DEF h
  <2>5. Elsewhere(a, {}, {}, E, D) /\ E[a] = 0
    BY <1>1 DEF Elsewhere
  <2>6. h.delegated # v.infos[a].lines["delegated"][0]
    BY <1>8, <2>2, <2>4
  <2>7. Changes(v, less, {}, E, D, a, h)
    <3>. HIDE DEF E
    <3>. QED  BY <1>1, <1>3, <1>4, <1>8, <2>4, <2>5, <2>6, Constants DEF Changes
  <2>8. Lined(g)
    <3>. HIDE DEF E
    <3>. QED  BY <1>5, <2>7, BalanceChangedLined
  <2>. QED  BY <1>6, <1>8, <2>8
<1>. QED  BY <1>7, <1>8

\* A payment, and what follows from it.
LEMMA PaidLined ==
    ASSUME now \in Nat, Earned, NEW w, NEW X, NEW D, Steady(w, {}, X, D), Lined(w),
           NEW a \in Accounts, NEW x \in Nat,
           ~w.broken => w.infos[a].lines["coins"][0] - w.infos[a].lines["delegated"][0] >= x
    PROVE  Lined(Paid(w, a, x))
<1> DEFINE r == w.infos[a]
           b == Balance(r)
           h == [coins |-> b.coins - x, delegated |-> b.delegated]
           v == Paid(w, a, x)
<1>1. Sound(w) /\ Keeps(w, v)
  BY PaidKeeps DEF Steady, Calm
<1>2. Sound(v) /\ (w.broken => v.broken)
  BY <1>1 DEF Keeps, Ends
<1>3. CASE v.broken
  BY <1>3 DEF Lined
<1>4. CASE ~v.broken /\ x = 0
  BY <1>4 DEF Paid
<1>5. CASE ~v.broken /\ x # 0
  <2>1. ~w.broken /\ Quiet(w, {}, X, D) /\ Holds(w, D) /\ Wealthy(r)
    BY <1>1, <1>2, <1>5, SoundFields DEF Steady, Calm
  <2>2. /\ b.coins = r.lines["coins"][0] /\ b.delegated = r.lines["delegated"][0]
        /\ r.lines["coins"][0] \in Int /\ r.lines["delegated"][0] \in Int
    BY <1>1, QuietFields, BalanceFields
  <2>3. v = OnBalanceChanged(w, a, h)
    BY <1>5 DEF Paid
  <2>4. h.delegated = r.lines["delegated"][0] /\ D[a] = h.delegated
    BY <2>1, <2>2 DEF Holds
  <2>5. /\ h \in [coins : Int, delegated : Int] /\ 0 <= h.delegated /\ h.delegated <= h.coins
    <3>1. r.lines["coins"][0] - r.lines["delegated"][0] >= x
      BY <2>1
    <3>2. h.coins = b.coins - x /\ h.delegated = b.delegated
      OBVIOUS
    <3>3. h \in [coins : Int, delegated : Int]
      <4>1. b.coins - x \in Int /\ b.delegated \in Int
        BY <2>2
      <4>. HIDE DEF b
      <4>. QED  BY <4>1
    <3>. HIDE DEF h, b, r
    <3>. QED  BY <2>1, <2>2, <3>1, <3>2, <3>3 DEF Wealthy
  <2>. HIDE DEF h
  <2>6. {} \subseteq Task(Handlers, Accounts) /\ Elsewhere(a, X, X, D, D)
    BY DEF Elsewhere
  <2>7. Changes(w, {}, X, D, D, a, h)
    BY <1>1, <2>1, <2>4, <2>5, <2>6 DEF Changes
  <2>. QED  BY <2>3, <2>7, BalanceChangedLined
<1>. QED  BY <1>3, <1>4, <1>5

(***************************************************************************)
(* A check of a record does not touch its sums.                            *)
(***************************************************************************)
LEMMA CheckedLined ==
    ASSUME now \in Nat, NEW w, NEW v, w.infos \in [Accounts -> Records], Lined(w),
           NEW i \in Worlds, i.infos = w.infos, i.broken = w.broken,
           NEW a \in Accounts, NEW q \in Records,
           SameSeat(w.infos[a], q), q.lines = w.infos[a].lines, v = Checked(i, a, q)
    PROVE  Lined(v)
<1>. SUFFICES ASSUME ~v.broken PROVE Lined(v)
  BY DEF Lined
<1>1. PICK check \in BOOLEAN : check = TRUE
  OBVIOUS
<1>2. v = Written(check, i, a, q)
  BY <1>1 DEF Written
<1>3. /\ ~i.broken /\ v.infos = [i.infos EXCEPT ![a] = v.infos[a]]
      /\ SameSeat(q, v.infos[a]) /\ v.infos[a].lines = q.lines
  BY <1>2, WrittenLines
<1>4. v.infos \in [Accounts -> Records]
  <2>1. Writes(i, v, a, q)
    BY CheckedWrites
  <2>. QED  BY <2>1, WorldFields DEF Writes
<1>5. \A c \in Accounts : SameSeat(w.infos[c], v.infos[c]) /\ v.infos[c].lines = w.infos[c].lines
  <2>1. SameSeat(w.infos[a], v.infos[a]) /\ v.infos[a].lines = w.infos[a].lines
    BY <1>3 DEF SameSeat
  <2>2. \A c \in Accounts \ {a} : v.infos[c] = w.infos[c]
    BY <1>3
  <2>. QED  BY <2>1, <2>2 DEF SameSeat
<1>. QED  BY <1>3, <1>4, <1>5, SameLined

LEMMA RecheckedLined ==
    ASSUME now \in Nat, NEW w \in Worlds, Lined(w), NEW a \in Accounts
    PROVE  Lined(Checked(w, a, w.infos[a]))
<1>1. w.infos \in [Accounts -> Records] /\ w.infos[a] \in Records
      /\ SameSeat(w.infos[a], w.infos[a])
  BY WorldFields DEF SameSeat
<1>. QED  BY <1>1, CheckedLined

\* The task of a downgrade.
LEMMA PerformDowngradeLined ==
    ASSUME now \in Nat, NEW w \in Worlds, Lined(w), NEW a \in Accounts
    PROVE  Lined(PerformDowngrade(w, a))
<1> DEFINE r == w.infos[a]
           i == SetIndex(w, a, r.status, r.status - 1)
           q == [r EXCEPT !.status = @ - 1, !.downgradeAt = NoTime]
           v == PerformDowngrade(w, a)
<1>1. w.infos \in [Accounts -> Records] /\ r \in Records /\ r \in Info
  BY WorldFields DEF Records
<1>2. CASE r.downgradeAt = NoTime \/ r.downgradeAt > now
  <2>1. v = Checked(w, a, r)
    BY <1>2 DEF PerformDowngrade
  <2>. QED  BY <2>1, RecheckedLined
<1>3. CASE ~(r.downgradeAt = NoTime \/ r.downgradeAt > now)
  <2>1. v = Checked(i, a, q)
    BY <1>3 DEF PerformDowngrade
  <2>2. r.status - 1 \in 0..MaxStatus
    <3>1. r.status \in 0..MaxStatus /\ r.status > 0 /\ MaxStatus \in Nat
      BY <1>1, <1>3, InfoFields, Constants DEF Records
    <3>. QED  BY <3>1
  <2>3. /\ q \in Records /\ SameSeat(r, q) /\ q.lines = r.lines
    <3>1. q \in Info
      BY <1>1, <2>2 DEF Info, Moments
    <3>2. q.referrer = r.referrer /\ q.banished = r.banished /\ q.active = r.active
          /\ q.lines = r.lines /\ q.downgradeAt = NoTime
      BY <1>1 DEF Info
    <3>. HIDE DEF q
    <3>. QED  BY <3>1, <3>2 DEF Records, SameSeat
  <2>4. i \in Worlds /\ i.infos = w.infos /\ i.broken = w.broken
    BY <1>1, <2>2, SetIndexWorld
  <2>. HIDE DEF i, q
  <2>. QED  BY <1>1, <2>1, <2>3, <2>4, CheckedLined
<1>. QED  BY <1>2, <1>3

\* Requests of transitions, and their end, leave lines alone.
LEMMA TransitionLined ==
    ASSUME NEW w \in Worlds, Lined(w), NEW a \in Accounts, NEW n \in Parents
    PROVE  Lined([w EXCEPT !.infos[a].transition = n])
<1> DEFINE v == [w EXCEPT !.infos[a].transition = n]
           q == [w.infos[a] EXCEPT !.transition = n]
<1>1. w.infos \in [Accounts -> Records] /\ w.infos[a] \in Info
  BY WorldFields DEF Records
<1>2. /\ q \in Records /\ SameSeat(w.infos[a], q) /\ q.lines = w.infos[a].lines
  BY <1>1 DEF Info, Records, Parents, SameSeat
<1>3. v.infos = [w.infos EXCEPT ![a] = q] /\ v.broken = w.broken
  BY DEF Worlds
<1>. HIDE DEF q, v
<1>4. v.infos \in [Accounts -> Records]
      /\ \A c \in Accounts : SameSeat(w.infos[c], v.infos[c]) /\ v.infos[c].lines = w.infos[c].lines
  BY <1>1, <1>2, <1>3 DEF SameSeat
<1>5. Lined(v)
  BY <1>1, <1>3, <1>4, SameLined
<1>. QED  BY <1>5 DEF v

(***************************************************************************)
(* A transition carries the lines of the account along.                    *)
(***************************************************************************)
LEMMA AffirmLined ==
    ASSUME now \in Nat, NEW w, NEW rest, NEW X, NEW D, NEW a, NEW p, NEW n,
           Moving(w, rest, X, D, a, p, n), Lined(w)
    PROVE  Lined(AffirmTransition(w, a))
<1>. USE DEF Moving
<1> DEFINE f == w.infos
           s == f[a]
           q == [s EXCEPT !.referrer = n, !.transition = None]
           moved == Update(w, a, q)
           old == Ancestors(f, p, Depth)
           new == Ancestors(f, n, Depth)
           v == AffirmTransition(w, a)
<1>. SUFFICES ASSUME ~v.broken PROVE Lined(v)
  BY DEF Lined
<1>1. /\ w \in Worlds /\ f \in [Accounts -> Records] /\ Tree(f) /\ s \in Records /\ s \in Info
      /\ AllSane(f, {}, D) /\ LinesFit(f)
  BY SoundFields, QuietFields, QuietSane DEF Lined
<1>2. Childless(f) /\ \A c \in Accounts : f[c].referrals = Kids(f, c)
  BY <1>1, SaneChildless
<1>3. ~s.banished /\ ~f[p].banished
  <2>1. a \in Kids(f, p)
    BY <1>2
  <2>2. ~s.banished
    BY <2>1 DEF Kids
  <2>3. ~f[p].banished
    BY <1>2, <2>1 DEF Childless
  <2>. QED  BY <2>2, <2>3
<1>4. ~f[n].banished
  <2>1. f[n].banished => f[n].referrer # None
    BY <1>1 DEF AllSane, Sane
  <2>. QED  BY <2>1 DEF RegistrationClosed
<1>5. ~Shut(f[p]) /\ ~Shut(f[n])
  <2>1. f[p].referrals # {}
    OBVIOUS
  <2>2. ~Shut(f[p])
    BY <1>1, <2>1 DEF AllSane, Sane
  <2>. QED  BY <2>2 DEF RegistrationClosed, Shut
<1>6. a \notin Over(f, p)
  BY <1>1, OwnParent
<1>7. \A k \in 1..Len(old) : old[k] # a
  BY <1>1, <1>5, <1>6, ChainOpen
<1>8. \A k \in 1..Len(new) : new[k] # a
  BY <1>1, <1>5, ChainOpen
<1>9. HasParents(f) /\ Acyclic(Referred(f)) /\ p \in Parents /\ n \in Parents /\ Depth \in 1..Depth
  BY <1>1, WorldParents, Constants DEF Tree, Parents
<1>10. Distinct(old) /\ Path(f, p, old)
  <2>1. Distinct(old)
    BY <1>9, ChainDistinct
  <2>. QED  BY <1>1, <1>2, <1>3, <1>9, <2>1, ChainPath
<1>11. Distinct(new) /\ Path(f, n, new)
  <2>1. Distinct(new)
    BY <1>9, ChainDistinct
  <2>. QED  BY <1>1, <1>2, <1>4, <1>9, <2>1, ChainPath
<1>12. q \in Records /\ OnlyMoves(s, q) /\ q.referrer = n
  BY <1>1 DEF Records, Info, Parents, OnlyMoves
<1>13. moved.infos = Hung(f, a, q)
  <2>. HIDE DEF q
  <2>. QED  BY <1>1, <1>12, UpdateWorld DEF Hung
<1>14. v \in Worlds /\ Comes(moved.infos, v.infos, Both(s, old, new, Depth))
  <2>1. /\ w \in Worlds /\ a \in Accounts /\ s = w.infos[a] /\ p \in Accounts /\ n \in Accounts
        /\ p = s.referrer /\ n = s.transition /\ now \in Nat
    BY <1>1
  <2>2. /\ moved \in Worlds /\ v \in Worlds
        /\ v.broken \/ Comes(moved.infos, v.infos, Both(s, old, new, Depth))
    <3>. HIDE DEF s
    <3>. QED  BY <1>10, <1>11, <2>1, AffirmComes
  <2>. QED  BY <2>2
<1>15. Relocates(f, a, p, n, q, old, new)
  BY <1>1, <1>3, <1>7, <1>8, <1>10, <1>11, <1>12 DEF Relocates
<1>16. v.infos \in [Accounts -> Records]
  BY <1>14, WorldFields
<1>17. Comes(Hung(f, a, q), v.infos, Both(f[a], old, new, Depth))
  BY <1>13, <1>14
<1>. HIDE DEF q, old, new, v, f
<1>18. LinesFit(v.infos)
  BY <1>15, <1>16, <1>17, RelocatedFits
<1>. QED  BY <1>18 DEF Lined

\* A record as genesis files have them.
Unlined(r) == ~r.active /\ \A s \in Sums, i \in Lines : r.lines[s][i] = 0

LEMMA EmptyUnlined == Unlined(Empty)
<1> DEFINE lines == [f \in Sums |-> [i \in Lines |-> 0]]
<1>1. Empty.lines = lines /\ ~Empty.active
  BY DEF Empty
<1>2. \A s \in Sums, i \in Lines : lines[s][i] = 0
  OBVIOUS
<1>. HIDE DEF lines
<1>. QED  BY <1>1, <1>2 DEF Unlined

LEMMA NewUnlined ==
    ASSUME NEW p
    PROVE  LET r == NewInfo(p, Nothing) IN Unlined(r) /\ {"active", "lines"} \subseteq DOMAIN r
<1> DEFINE r == NewInfo(p, Nothing)
           lines == [f \in Sums |-> [i \in Lines |-> IF i = 0 THEN Own(Nothing)[f] ELSE 0]]
<1>1. r = [Empty EXCEPT !.status = 1, !.referrer = p, !.lines = lines]
  BY DEF NewInfo
<1>2. \A s \in Sums : Own(Nothing)[s] = 0
  BY DEF Own, Nothing, Sums
<1>3. \A s \in Sums, i \in Lines : lines[s][i] = 0
  BY <1>2
<1>. HIDE DEF lines
<1>4. r = [status |-> 1, referrer |-> p, referrals |-> {}, activeReferrals |-> {},
           lines |-> lines, active |-> FALSE, banished |-> FALSE, transition |-> None,
           compressionAt |-> NoTime, banishmentAt |-> NoTime, downgradeAt |-> NoTime]
  BY <1>1 DEF Empty
<1>. HIDE DEF r
<1>5. Unlined(r) /\ {"active", "lines"} \subseteq DOMAIN r
  BY <1>3, <1>4 DEF Unlined
<1>. QED  BY <1>5 DEF r

LEMMA FirstUnlined ==
    ASSUME NEW g \in Genesis, NEW a \in Accounts PROVE Unlined(FirstFile(g)[a])
<1>1. CASE a \in DOMAIN g.referrer
  <2> DEFINE n == NewInfo(g.referrer[a], Nothing)
             t == IF a \in Late(g) THEN CompressionPeriod ELSE NoTime
  <2>1. FirstFile(g)[a] = [n EXCEPT !.compressionAt = t]
    BY <1>1 DEF FirstFile, FirstRecord
  <2>2. Unlined(n) /\ {"active", "lines"} \subseteq DOMAIN n
    BY NewUnlined
  <2>. HIDE DEF n, t
  <2>3. [n EXCEPT !.compressionAt = t].active = n.active /\ [n EXCEPT !.compressionAt = t].lines = n.lines
    BY <2>2
  <2>. QED  BY <2>1, <2>2, <2>3 DEF Unlined
<1>2. CASE a \notin DOMAIN g.referrer
  BY <1>2, EmptyUnlined DEF FirstFile
<1>. QED  BY <1>1, <1>2

LEMMA ExportedUnlined == ASSUME NEW r, NEW stored \in BOOLEAN PROVE Unlined(Exported(r, stored))
<1>1. CASE ~(r = Empty /\ ~stored) /\ r.banished
  <2> DEFINE e == Empty
             q == [e EXCEPT !.referrer = r.referrer, !.banished = TRUE]
  <2>1. Exported(r, stored) = q
    BY <1>1 DEF Exported
  <2>2. Unlined(e) /\ {"active", "lines"} \subseteq DOMAIN e
    BY EmptyUnlined DEF Empty
  <2>. HIDE DEF e
  <2>3. q.active = e.active /\ q.lines = e.lines
    BY <2>2
  <2>. QED  BY <2>1, <2>2, <2>3 DEF Unlined
<1>2. CASE ~(r = Empty /\ ~stored) /\ ~r.banished
  <2> DEFINE n == NewInfo(r.referrer, Nothing)
             st == IF r.downgradeAt = NoTime THEN 1 ELSE r.status
             q == [n EXCEPT !.status = st, !.compressionAt = r.compressionAt,
                            !.banishmentAt = r.banishmentAt, !.downgradeAt = r.downgradeAt,
                            !.transition = r.transition]
  <2>1. Exported(r, stored) = q
    BY <1>2 DEF Exported
  <2>2. Unlined(n) /\ {"active", "lines"} \subseteq DOMAIN n
    BY NewUnlined
  <2>. HIDE DEF n, st
  <2>3. q.active = n.active /\ q.lines = n.lines
    BY <2>2
  <2>. QED  BY <2>1, <2>2, <2>3 DEF Unlined
<1>3. CASE r = Empty /\ ~stored
  <2>1. Exported(r, stored) = r
    BY <1>3, EmptyRecord DEF Exported
  <2>. QED  BY <1>3, <2>1, EmptyUnlined
<1>. QED  BY <1>1, <1>2, <1>3

\* Files without sums and activity are planted as trees with exact lines.
LEMMA PlantedLined ==
    ASSUME NEW file \in [Accounts -> Records], NEW store, \A a \in Accounts : Unlined(file[a]),
           Planted(file, store).infos \in [Accounts -> Records]
    PROVE  Lined(Planted(file, store))
<1> DEFINE f == Planted(file, store).infos
<1>1. ASSUME NEW a \in Accounts PROVE Unlined(f[a])
  <2>1. SameTerms(file[a], f[a]) /\ f[a].lines = file[a].lines
    BY PlantedRecord
  <2>. HIDE DEF f
  <2>. QED  BY <2>1 DEF SameTerms, Unlined
<1>. HIDE DEF f
<1>2. ASSUME NEW a \in Accounts PROVE Counted(f[a])
  <2>1. \A i \in Lines : f[a].lines["counts"][i] = 0
    BY <1>1 DEF Unlined, Sums
  <2>2. 0 \in 0..(CountLimit - 1) /\ 0 \in Lines
    BY Constants DEF Lines
  <2>3. ~f[a].active
    BY <1>1 DEF Unlined
  <2>. QED  BY <2>1, <2>2, <2>3 DEF Counted, Ranged, Flag
<1>3. ASSUME NEW c \in Accounts, NEW s \in Sums, NEW i \in Inner
      PROVE  Eqv(s, f[c].lines[s][i], Below(f, c, s, i))
  <2>1. i \in Lines /\ i - 1 \in Lines
    BY Constants DEF Inner, Lines
  <2>2. f[c].lines[s][i] = 0
    BY <1>1, <2>1 DEF Unlined
  <2>3. \A x \in Kids(f, c) : LineAt(f, s, i - 1)[x] = 0
    BY <1>1, <2>1, KidsFinite DEF Unlined, LineAt
  <2>4. Below(f, c, s, i) = 0
    BY <2>3, KidsFinite, SumZero DEF Below
  <2>. QED  BY <2>2, <2>4, EqvReflexive
<1>. QED  BY <1>2, <1>3 DEF Lined, LinesFit, Fit, f

-----------------------------------------------------------------------------
(* Imports step by step.                                                   *)

LEMMA HalfLined ==
    ASSUME now \in Nat, Earned, NEW u, NEW done, NEW X, NEW D, Half(u, done, X, D), Lined(u),
           NEW a \in Accounts, ~u.broken => ~IsEmpty(u.infos[a]),
           NEW h \in [coins : Int, delegated : Int], 0 <= h.delegated, h.delegated <= h.coins,
           D[a] = h.delegated
    PROVE  Half(OnBalanceChanged(u, a, h), done \cup {a}, X, D) /\ Lined(OnBalanceChanged(u, a, h))
<1> DEFINE v == OnBalanceChanged(u, a, h)
<1>1. Sound(u)
  BY DEF Half, Calm
<1>2. Half(v, done \cup {a}, X, D)
  BY HalfStep
<1>3. CASE u.broken
  <2>1. Keeps(u, v)
    BY <1>1, BalanceChangedKeeps
  <2>. QED  BY <1>2, <1>3, <2>1 DEF Keeps, Ends, Lined
<1>4. CASE ~u.broken
  <2>1. Changes(u, {}, X, D, D, a, h)
    BY <1>1, <1>4 DEF Changes, Half, Calm, Elsewhere
  <2>2. Lined(v)
    BY <2>1, BalanceChangedLined
  <2>. QED  BY <1>2, <2>2
<1>. QED  BY <1>3, <1>4

\* Balances of a genesis file, while nobody is active.
LEMMA FundedLined ==
    ASSUME now \in Nat, Earned, NEW w, NEW X, NEW D, NEW own, Pending(w, X, D, own), Lined(w)
    PROVE  Lined(Funded(w, own))
<1> DEFINE S == {a \in Accounts : own[a] # Nothing}
           v == Funded(w, own)
<1>1. Sound(w) /\ Keeps(w, v)
  BY FundedKeeps DEF Pending, Calm
<1>2. PICK after, order, L :
        /\ Trail(after, order, L, S, w, v)
        /\ \A k \in 1..L : after[k] = OnBalanceChanged(after[k - 1], order[k], own[order[k]])
  <2>1. FundedBy(w, own)
    BY <1>1, FundedSteps DEF Pending
  <2>. QED  BY <2>1 DEF FundedBy
<1>. HIDE DEF v
<1>3. /\ L \in Nat /\ order \in [1..L -> S]
      /\ after[0] = w /\ v = after[L] /\ \A k \in 0..L : Keeps(w, after[k])
  BY <1>2 DEF Trail
<1> DEFINE done(k) == {order[j] : j \in 1..k}
           A == {k \in 0..L : Half(after[k], done(k), X, D) /\ Lined(after[k])}
<1>4. 0 \in A
  <2>1. done(0) = {}
    OBVIOUS
  <2>. HIDE DEF done
  <2>2. Half(w, done(0), X, D)
    BY <2>1 DEF Pending, Half
  <2>. QED  BY <1>3, <2>2
<1>5. ASSUME NEW k \in 1..L, k - 1 \in A PROVE k \in A
  <2> DEFINE u == after[k - 1]
             a == order[k]
  <2>1. a \in S /\ a \in Accounts /\ k \in 0..L /\ k - 1 \in 0..L
    BY <1>3
  <2>2. Half(u, done(k - 1), X, D) /\ Lined(u) /\ Keeps(w, u)
    BY <1>3, <1>5, <2>1
  <2>3. after[k] = OnBalanceChanged(u, a, own[a])
    BY <1>2
  <2>4. done(k) = done(k - 1) \cup {a}
    <3>1. 1..k = (1..(k - 1)) \cup {k}
      BY <1>3
    <3>. QED  BY <3>1
  <2>. HIDE DEF u, done, a
  <2>5. ~u.broken => ~IsEmpty(u.infos[a])
    <3>1. ~IsEmpty(w.infos[a])
      BY <2>1 DEF Pending
    <3>. QED  BY <2>1, <2>2, <3>1 DEF Keeps, Ends, Stay
  <2>6. /\ Half(OnBalanceChanged(u, a, own[a]), done(k - 1) \cup {a}, X, D)
        /\ Lined(OnBalanceChanged(u, a, own[a]))
    BY <2>1, <2>2, <2>5, HalfLined DEF Pending
  <2>. QED  BY <2>1, <2>3, <2>4, <2>6
<1>. HIDE DEF A
<1>6. \A k \in 0..L : k \in A
  BY <1>3, <1>4, <1>5, UpTo
<1>7. Lined(v)
  <2>1. L \in 0..L
    BY <1>3
  <2>. QED  BY <1>3, <1>6, <2>1 DEF A
<1>. QED  BY <1>7 DEF v

\* Then the active accounts, one after the other.
LEMMA RevivedLined ==
    ASSUME now \in Nat, Earned, Roomy, NEW w, NEW X \in SUBSET Accounts, NEW D,
           Steady(w, {}, X, D), Lined(w),
           w.broken \/ \A a \in X : ~w.infos[a].banished /\ ~IsEmpty(w.infos[a])
    PROVE  Lined(Revived(w, X))
<1> DEFINE v == Revived(w, X)
<1>1. Sound(w) /\ (w.broken \/ X \cap Banished(w.infos) = {})
  BY DEF Steady, Calm, Banished
<1>2. PICK after, order, L :
        /\ Trail(after, order, L, X, w, v)
        /\ \A k \in 1..L : after[k] = SetActive(after[k - 1], order[k], TRUE, FALSE)
  <2>1. RevivedBy(w, X)
    BY <1>1, RevivedSteps
  <2>. QED  BY <2>1 DEF RevivedBy
<1>. HIDE DEF v
<1>3. /\ L \in Nat /\ order \in [1..L -> X]
      /\ after[0] = w /\ v = after[L] /\ \A k \in 0..L : Keeps(w, after[k])
  BY <1>2 DEF Trail
<1> DEFINE left(k) == X \ {order[j] : j \in 1..k}
           A == {k \in 0..L : Steady(after[k], {}, left(k), D) /\ Lined(after[k])}
<1>4. 0 \in A
  <2>1. left(0) = X
    OBVIOUS
  <2>. HIDE DEF left
  <2>. QED  BY <1>3, <2>1
<1>5. ASSUME NEW k \in 1..L, k - 1 \in A PROVE k \in A
  <2> DEFINE u == after[k - 1]
             a == order[k]
  <2>1. a \in X /\ a \in Accounts /\ k \in 0..L /\ k - 1 \in 0..L
    BY <1>3
  <2>2. Steady(u, {}, left(k - 1), D) /\ Lined(u) /\ Keeps(w, u)
    BY <1>3, <1>5, <2>1
  <2>3. after[k] = SetActive(u, a, TRUE, FALSE)
    BY <1>2
  <2>4. left(k) = left(k - 1) \ {a}
    <3>1. 1..k = (1..(k - 1)) \cup {k}
      BY <1>3
    <3>. QED  BY <3>1
  <2>. HIDE DEF u, left, a
  <2>5. ~u.broken => ~u.infos[a].banished /\ ~IsEmpty(u.infos[a])
    BY <2>1, <2>2 DEF Keeps, Ends, Stay, Banished
  <2>6. PICK yes \in BOOLEAN : yes = TRUE
    OBVIOUS
  <2>7. PICK no \in BOOLEAN : no = FALSE
    OBVIOUS
  <2> DEFINE t == SetActive(u, a, yes, no)
  <2>8. Steady(t, {}, left(k - 1) \ {a}, D)
    BY <2>1, <2>2, <2>5, <2>6, ActivatedSteady
  <2>9. Lined(t)
    <3>1. CASE u.broken
      <4>1. Keeps(u, t)
        BY <2>1, <2>2, <3>1, SetActiveKeeps DEF Steady, Calm
      <4>. QED  BY <3>1, <4>1 DEF Keeps, Ends, Lined
    <3>2. CASE ~u.broken
      <4>1. Calm(t, {}, left(k - 1) \ {a}, D) /\ u \in Worlds
        BY <2>2, <2>8, SoundFields DEF Steady, Calm
      <4>. QED  BY <2>1, <2>2, <2>5, <3>2, <4>1, SetActiveLined
    <3>. QED  BY <3>1, <3>2
  <2>10. after[k] = t
    BY <2>3, <2>6, <2>7
  <2>. HIDE DEF t
  <2>. QED  BY <2>1, <2>4, <2>8, <2>9, <2>10
<1>. HIDE DEF A
<1>6. \A k \in 0..L : k \in A
  BY <1>3, <1>4, <1>5, UpTo
<1>7. Lined(v)
  <2>1. L \in 0..L
    BY <1>3
  <2>. QED  BY <1>3, <1>6, <2>1 DEF A
<1>. QED  BY <1>7 DEF v

LEMMA IteratedLined ==
    ASSUME now \in Nat, Earned, NEW w, NEW X, NEW D, Steady(w, {}, X, D), Lined(w)
    PROVE  Lined(Iterated(w))
<1> DEFINE S == {a \in Accounts : Exists(w.infos, a)}
           v == Iterated(w)
<1>1. Sound(w)
  BY DEF Steady, Calm
<1>2. PICK after, order, L :
        /\ Trail(after, order, L, S, w, v)
        /\ \A k \in 1..L : after[k] = Checked(after[k - 1], order[k], after[k - 1].infos[order[k]])
  <2>1. IteratedBy(w)
    BY <1>1, IteratedSteps
  <2>. QED  BY <2>1 DEF IteratedBy
<1>. HIDE DEF v
<1>3. /\ L \in Nat /\ order \in [1..L -> S] /\ after[0] = w /\ v = after[L]
      /\ \A k \in 0..L : Keeps(w, after[k])
  BY <1>2 DEF Trail
<1> DEFINE A == {k \in 0..L : Lined(after[k])}
<1>4. 0 \in A
  BY <1>3
<1>5. ASSUME NEW k \in 1..L, k - 1 \in A PROVE k \in A
  <2> DEFINE u == after[k - 1]
             a == order[k]
  <2>1. a \in Accounts /\ k \in 0..L /\ k - 1 \in 0..L
    BY <1>3
  <2>2. Lined(u) /\ u \in Worlds
    BY <1>3, <1>5, <2>1 DEF Keeps, Ends, Sound
  <2>3. after[k] = Checked(u, a, u.infos[a])
    BY <1>2
  <2>. HIDE DEF u, a
  <2>4. Lined(Checked(u, a, u.infos[a]))
    BY <2>1, <2>2, RecheckedLined
  <2>. QED  BY <2>1, <2>3, <2>4
<1>. HIDE DEF A, S
<1>6. \A k \in 0..L : k \in A
  BY <1>3, <1>4, <1>5, UpTo
<1>7. Lined(v)
  <2>1. L \in 0..L
    BY <1>3
  <2>. QED  BY <1>3, <1>6, <2>1 DEF A
<1>. QED  BY <1>7 DEF v

(***************************************************************************)
(* The import of a genesis file makes the lines exact.                     *)
(***************************************************************************)
LEMMA InitGenesisLined ==
    ASSUME now \in Nat, Earned, Roomy, NEW file, NEW store, NEW X, NEW own,
           Filed(file, store, X, own), \A a \in Accounts : Unlined(file[a])
    PROVE  Lined(InitGenesis(file, store, own, X))
<1> DEFINE w0 == Planted(file, store)
           w1 == Funded(w0, own)
           w2 == Revived(w1, X)
           w3 == Iterated(w2)
           D == [a \in Accounts |-> own[a].delegated]
<1>1. Pending(w0, X, D, own)
  BY PlantedPending
<1>2. InitGenesis(file, store, own, X) = w3
  BY DEF InitGenesis
<1>3. Stay(file, w0.infos) /\ Banished(w0.infos) = Banished(file) /\ X \in SUBSET Accounts
      /\ Sound(w0)
  BY PlantedSound DEF Filed
<1>4. Lined(w0)
  <2>1. file \in [Accounts -> Records] /\ w0.infos \in [Accounts -> Records]
    BY <1>3, WorldFields DEF Filed, Stated, Sound
  <2>. QED  BY <2>1, PlantedLined
<1>. HIDE DEF w0, D
<1>5. Steady(w1, {}, X, D) /\ Keeps(w0, w1)
  BY <1>1, FundedSteady
<1>6. Lined(w1)
  BY <1>1, <1>4, FundedLined
<1>. HIDE DEF w1
<1>7. w1.broken \/ \A a \in X : ~w1.infos[a].banished /\ ~IsEmpty(w1.infos[a])
  <2>1. \A a \in X : a \in Accounts /\ ~IsEmpty(file[a]) /\ a \notin Banished(file)
    BY DEF Filed, Banished
  <2>. QED  BY <1>3, <1>5, <2>1 DEF Keeps, Ends, Stay, Banished
<1>8. Steady(w2, {}, {}, D)
  BY <1>3, <1>5, <1>7, RevivedSteady
<1>9. Lined(w2)
  BY <1>3, <1>5, <1>6, <1>7, RevivedLined
<1>. HIDE DEF w2
<1>. QED  BY <1>2, <1>8, <1>9, IteratedLined

-----------------------------------------------------------------------------
(* Every step keeps the lines exact.                                       *)

LEMMA LinedNext ==
    ASSUME NEW w, ~w.broken, Lined(w), info' = w.infos PROVE LinesFit(info')
BY DEF Lined

\* The actions one by one; first a new account.
LEMMA CreateAccountLined ==
    ASSUME Earned, IInv, Timely, LinesFit(info), NEW p \in Accounts, NEW a \in Accounts,
           NEW h \in Holdings, CreateAccount(p, a, h)
    PROVE  LinesFit(info')
<1> DEFINE v == AppendChild(World, p, a, h)
           w == Scheduled(v, now + CompressionPeriod, "compression", a)
           D == Stakes(info)
<1>1. /\ a # p /\ ~Exists(info, a) /\ Tx(w)
      /\ phase = "txs" /\ h.delegated = 0 /\ ~RegistrationClosed(info[p])
  BY DEF CreateAccount
<1>2. Steady(World, due, {}, D) /\ ~World.broken /\ World.infos = info /\ now \in Nat
      /\ due \subseteq Task(Handlers, Accounts)
  BY WorldSteady
<1> DEFINE u == World
<1>. HIDE DEF D, u
<1>3. Newcomer(u, due, {}, D, p, a, h)
  BY <1>1, <1>2, Constants DEF Newcomer, u
<1>4. v \in Worlds
  <2>1. Keeps(u, v)
    BY <1>1, <1>2, Constants, AppendChildKeeps, WorldSound DEF u
  <2>. QED  BY <2>1 DEF Keeps, Ends, Sound
<1>5. w.infos = v.infos /\ w.broken = v.broken
  <2>1. now + CompressionPeriod \in Nat /\ "compression" \in Handlers
    BY <1>2, Constants DEF CompressionPeriod, Handlers
  <2>. HIDE DEF v
  <2>. QED  BY <1>4, <2>1, ScheduledWorld
<1>6. Calm(v, due \cup {Timer(now + CompressionPeriod, "compression", a)}, {}, D)
  BY <1>2, <1>3, AppendedSteady DEF u
<1>7. Lined(v)
  <2>1. Lined(u)
    BY <1>2 DEF Lined, u
  <2>. QED  BY <1>2, <1>3, <1>6, <2>1, AppendedLined DEF u
<1>. HIDE DEF v, w
<1>. QED  BY <1>1, <1>5, <1>7 DEF Tx, Lined

LEMMA PayTariffLined ==
    ASSUME Earned, Roomy, IInv, Timely, LinesFit(info), NEW a \in Accounts, PayTariff(a)
    PROVE  LinesFit(info')
<1> DEFINE u == World
           back == IF info[a].banished THEN ComeBack(u, a) ELSE u
           paid == Paid(back, a, Tariff)
           w == SetActive(paid, a, TRUE, TRUE)
           D == Stakes(info)
<1>1. Free(info[a]) >= Tariff /\ Tx(w) /\ phase = "txs" /\ a \in profiles
  BY DEF PayTariff
<1>3. /\ Steady(u, due, {}, D) /\ ~u.broken /\ u.infos = info /\ now \in Nat
      /\ Sound(u) /\ Quiet(u, due, {}, D) /\ u \in Worlds
  BY WorldSteady DEF Sound
<1>4. due = {} /\ ~IsEmpty(info[a])
  BY <1>1 DEF Timely
<1>. HIDE DEF u, D
<1>5. /\ Keeps(u, back) /\ SameStakes(u, back) /\ (back.broken \/ ~back.infos[a].banished)
      /\ Calm(back, {}, {a}, D) /\ Lined(back)
  <2>0. Lined(u) /\ Calm(u, due, {}, D)
    BY <1>3 DEF Lined, Calm
  <2>1. CASE info[a].banished
    <3>1. back = ComeBack(u, a)
      BY <2>1
    <3>. HIDE DEF back
    <3>2. Calm(ComeBack(u, a), {}, {} \cup {a}, D)
      BY <1>3, <1>4, <2>1, ComeBackQuiet
    <3>3. {} \cup {a} = {a}
      OBVIOUS
    <3>4. Lined(ComeBack(u, a))
      BY <1>3, <2>0, <2>1, <3>2, ComeBackLined
    <3>. QED  BY <1>3, <2>1, <3>1, <3>2, <3>3, <3>4, ComeBackKeeps
  <2>2. CASE ~info[a].banished
    <3>1. back = u
      BY <2>2
    <3>. HIDE DEF back
    <3>2. Quiet(u, {}, {} \cup {a}, D)
      BY <1>3, <1>4, <2>2, QuietAwaited
    <3>3. {} \cup {a} = {a}
      OBVIOUS
    <3>. QED  BY <1>3, <2>0, <2>2, <3>1, <3>2, <3>3, KeepsReflexive DEF Calm
  <2>. QED  BY <2>1, <2>2
<1>. HIDE DEF back
<1>6. Steady(back, {}, {a}, D)
  <2>1. u.broken \/ Holds(u, D)
    BY <1>3 DEF Steady
  <2>2. back.broken \/ Holds(back, D)
    BY <1>3, <1>5, <2>1, SameHolds
  <2>. QED  BY <1>5, <2>2 DEF Steady
<1>7. ~back.broken =>
        /\ ~IsEmpty(back.infos[a])
        /\ back.infos[a].lines["coins"][0] - back.infos[a].lines["delegated"][0] >= Tariff
  BY <1>1, <1>3, <1>4, <1>5 DEF Keeps, Ends, Stay, SameStakes, SameStake, Free
<1>8. Keeps(back, paid)
  <2>1. Sound(back) /\ Tariff \in Nat
    BY <1>5, Constants DEF Keeps, Ends
  <2>. QED  BY <1>3, <1>7, <2>1, PaidKeeps
<1>9. Lined(paid)
  <2>1. Tariff \in Nat
    BY Constants
  <2>. QED  BY <1>3, <1>5, <1>6, <1>7, <2>1, PaidLined
<1>10. Keeps(paid, w)
  <2>. HIDE DEF paid
  <2>1. Sound(paid) /\ (paid.broken \/ ~paid.infos[a].banished)
    BY <1>5, <1>8 DEF Keeps, Ends, Banished
  <2>2. PICK t \in BOOLEAN : t = TRUE
    OBVIOUS
  <2>3. Keeps(paid, SetActive(paid, a, t, t))
    BY <1>3, <2>1, <2>2, SetActiveKeeps
  <2>. QED  BY <2>2, <2>3
<1>11. ~w.broken /\ info' = w.infos
  BY <1>1 DEF Tx
<1>12. ~paid.broken /\ ~back.broken
  <2>. HIDE DEF w, paid
  <2>. QED  BY <1>8, <1>10, <1>11 DEF Keeps, Ends
<1>13. Steady(paid, {}, {a}, D)
  BY <1>3, <1>6, <1>7, <1>12, Constants, PaidSteady DEF paid
<1>. HIDE DEF paid
<1>14. ~paid.infos[a].banished /\ ~IsEmpty(paid.infos[a]) /\ paid \in Worlds
  BY <1>5, <1>7, <1>8, <1>12 DEF Keeps, Ends, Stay, Banished, Sound
<1>15. Lined(w)
  <2>1. PICK t \in BOOLEAN : t = TRUE
    OBVIOUS
  <2>2. Calm(SetActive(paid, a, t, t), {}, {a} \ {a}, D)
    BY <1>3, <1>13, <1>14, <2>1, ActivatedSteady DEF Steady
  <2>3. Lined(SetActive(paid, a, t, t))
    BY <1>3, <1>9, <1>12, <1>14, <2>2, SetActiveLined
  <2>. QED  BY <2>1, <2>3
<1>. HIDE DEF w
<1>. QED  BY <1>11, <1>15, LinedNext

LEMMA MonthOverLined ==
    ASSUME Earned, Roomy, IInv, Timely, LinesFit(info), NEW a \in Accounts, MonthOver(a),
           ~SetActive(World, a, FALSE, TRUE).broken
    PROVE  LinesFit(info')
<1> DEFINE u == World
           w == SetActive(u, a, FALSE, TRUE)
           D == Stakes(info)
<1>1. Hook(w) /\ ~w.broken /\ info[a].active
  BY DEF MonthOver
<1>2. /\ Steady(u, due, {}, D) /\ ~u.broken /\ now \in Nat /\ due \subseteq Task(Handlers, Accounts)
      /\ u.infos = info /\ Sound(u)
  BY WorldSteady
<1>3. ~info[a].banished /\ Lined(u) /\ u \in Worlds
  <2>1. Sane(a, info[a], {}, Stakes(info)[a])
    BY <1>2 DEF Timely, Quiet
  <2>. QED  BY <1>1, <1>2, <2>1 DEF Sane, Lined, Sound
<1>. HIDE DEF u, D
<1>4. Lined(w)
  <2>1. PICK no \in BOOLEAN : no = FALSE
    OBVIOUS
  <2>2. PICK yes \in BOOLEAN : yes = TRUE
    OBVIOUS
  <2>3. Calm(SetActive(u, a, no, yes), due, {}, D)
    BY <1>2, <2>1, <2>2, DeactivatedSteady DEF Steady
  <2>4. Lined(SetActive(u, a, no, yes))
    BY <1>2, <1>3, <2>3, SetActiveLined
  <2>. QED  BY <2>1, <2>2, <2>4
<1>. HIDE DEF w
<1>. QED  BY <1>1, <1>4, LinedNext DEF Hook

LEMMA BalanceChangeLined ==
    ASSUME Earned, IInv, Timely, LinesFit(info), NEW a \in Accounts, NEW h \in Holdings,
           BalanceChange(a, h)
    PROVE  LinesFit(info')
<1> DEFINE u == World
           w == OnBalanceChanged(u, a, h)
           E == Stakes(info)
           D == [E EXCEPT ![a] = h.delegated]
<1>1. /\ Tx(w) \/ Hook(w)
      /\ \/ phase \in {"txs", "begin"}
         \/ phase = "pass" /\ h.delegated = info[a].lines["delegated"][0]
  BY DEF BalanceChange
<1>3. /\ ~u.broken /\ u.infos = info /\ Sound(u) /\ Quiet(u, due, {}, E) /\ now \in Nat
      /\ due \subseteq Task(Handlers, Accounts)
  BY WorldSteady
<1>4. /\ E \in [Accounts -> Int] /\ \A c \in Accounts : E[c] = info[c].lines["delegated"][0]
  <2>1. \A c \in Accounts : u.infos[c].lines["delegated"][0] \in Int
    BY <1>3, QuietFields
  <2>. QED  BY <1>3, <2>1 DEF Stakes
<1>5. h \in [coins : Int, delegated : Int] /\ 0 <= h.delegated /\ h.delegated <= h.coins
  BY Constants DEF Holding
<1>6. due = {} \/ (phase = "pass" /\ h.delegated = info[a].lines["delegated"][0])
  BY <1>1 DEF Timely
<1>. HIDE DEF u, E
<1>7. D[a] = h.delegated /\ \A c \in Accounts \ {a} : D[c] = E[c]
  BY <1>4
<1>. HIDE DEF D
<1>8. Changes(u, due, {}, D, E, a, h)
  BY <1>3, <1>4, <1>5, <1>6, <1>7 DEF Changes, Elsewhere
<1>9. Lined(w)
  <2>1. Lined(u)
    BY <1>3 DEF Lined
  <2>. QED  BY <1>3, <1>8, <2>1, BalanceChangedLined
<1>. HIDE DEF w
<1>10. CASE w.broken
  <2>1. info' = info
    BY <1>1, <1>10 DEF Tx, Hook
  <2>. QED  BY <2>1
<1>11. CASE ~w.broken
  <2>1. info' = w.infos
    BY <1>1, <1>11 DEF Tx, Hook
  <2>. QED  BY <1>9, <1>11, <2>1, LinedNext
<1>. QED  BY <1>10, <1>11

LEMMA RequestTransitionLined ==
    ASSUME Earned, IInv, Timely, LinesFit(info), NEW a \in Accounts, NEW n \in Accounts,
           RequestTransition(a, n)
    PROVE  LinesFit(info')
<1> DEFINE u == World
           paid == Paid(u, a, Price)
           v == [paid EXCEPT !.infos[a].transition = n]
           w == Scheduled(v, now + Day, "transition-timeout", a)
           D == Stakes(info)
<1>1. Tx(w) /\ (IsEmpty(info[a]) \/ Free(info[a]) >= Price) /\ phase = "txs"
  BY DEF RequestTransition
<1>3. /\ Steady(u, due, {}, D) /\ ~u.broken /\ u.infos = info /\ Sound(u) /\ now \in Nat
  BY WorldSteady
<1>4. due = {}
  BY <1>1 DEF Timely
<1>6. IsEmpty(u.infos[a])
        \/ u.infos[a].lines["coins"][0] - u.infos[a].lines["delegated"][0] >= Price
  BY <1>1, <1>3 DEF Free
<1>7. Lined(u)
  BY <1>3 DEF Lined
<1>. HIDE DEF u, D
<1>8. Lined(paid) /\ paid \in Worlds
  <2>1. CASE IsEmpty(u.infos[a])
    <3>1. paid = u
      BY <2>1, StrangerPays
    <3>. QED  BY <1>3, <1>7, <3>1 DEF Sound
  <2>2. CASE ~IsEmpty(u.infos[a])
    <3>1. Lined(paid)
      BY <1>3, <1>4, <1>6, <1>7, <2>2, Constants, PaidLined
    <3>2. Keeps(u, paid)
      BY <1>3, <1>6, <2>2, Constants, PaidKeeps
    <3>. QED  BY <3>1, <3>2 DEF Keeps, Ends, Sound
  <2>. QED  BY <2>1, <2>2
<1>. HIDE DEF paid
<1>9. Lined(v)
  <2>1. n \in Parents
    BY DEF Parents
  <2>. QED  BY <1>8, <2>1, TransitionLined
<1>10. w.infos = v.infos /\ w.broken = v.broken
  BY DEF Scheduled
<1>. HIDE DEF w, v
<1>. QED  BY <1>1, <1>9, <1>10 DEF Tx, Lined

LEMMA ResolveTransitionLined ==
    ASSUME Earned, IInv, Timely, LinesFit(info), NEW a \in Accounts, NEW approved \in BOOLEAN,
           ResolveTransition(a, approved)
    PROVE  LinesFit(info')
<1> DEFINE u == World
           D == Stakes(info)
<1>1. phase = "txs" /\ info[a].referrer # None /\ info[a].transition # None
  BY DEF ResolveTransition
<1>3. /\ Steady(u, due, {}, D) /\ ~u.broken /\ u.infos = info /\ Sound(u)
      /\ Quiet(u, due, {}, D) /\ now \in Nat /\ due \subseteq Task(Handlers, Accounts)
  BY WorldSteady
<1>4. due = {}
  BY <1>1 DEF Timely
<1>5. Lined(u)
  BY <1>3 DEF Lined
<1>. HIDE DEF D
<1>6. CASE approved
  <2> DEFINE p == info[a].referrer
             n == info[a].transition
             w == AffirmTransition(u, a)
  <2>1. /\ ValidTransition(a, n, FALSE) /\ a \in info[p].referrals /\ Tx(w)
    BY <1>6 DEF ResolveTransition
  <2>2. /\ a # n /\ p # n /\ ~RegistrationClosed(info[n]) /\ a \notin Over(info, n)
    BY <2>1 DEF ValidTransition, Over
  <2>3. p \in Accounts /\ n \in Accounts
    BY <1>1, <1>3, QuietFields, InfoFields DEF Parents
  <2>. HIDE DEF p, n, u
  <2>4. p = u.infos[a].referrer /\ n = u.infos[a].transition
    BY <1>3 DEF p, n
  <2>5. Moving(u, due, {}, D, a, p, n)
    BY <1>3, <2>1, <2>2, <2>3, <2>4 DEF Moving
  <2>6. Lined(w)
    BY <1>3, <1>5, <2>5, AffirmLined
  <2>. HIDE DEF w
  <2>. QED  BY <2>1, <2>6, LinedNext DEF Tx
<1>7. CASE ~approved
  <2> DEFINE w == CancelTransition(u, a)
  <2>1. Tx(w)
    BY <1>7 DEF ResolveTransition
  <2>2. Lined(w)
    <3>1. None \in Parents /\ u \in Worlds
      BY <1>3 DEF Parents, Sound
    <3>. HIDE DEF u
    <3>. QED  BY <1>5, <3>1, TransitionLined DEF CancelTransition
  <2>. HIDE DEF w
  <2>. QED  BY <2>1, <2>2, LinedNext DEF Tx
<1>. QED  BY <1>6, <1>7

LEMMA PerformTaskLined ==
    ASSUME Earned, IInv, Timely, LinesFit(info), PerformTask, HooksSucceed
    PROVE  LinesFit(info')
<1> DEFINE u == World
           D == Stakes(info)
<1>1. PICK t \in due :
        /\ due' = due \ {t}
        /\ \/ t.handler = "compression" /\ Hook(PerformCompression(World, t.data))
           \/ t.handler = "banish" /\ Hook(Banish(World, t.data))
           \/ t.handler = "downgrade" /\ Hook(PerformDowngrade(World, t.data))
           \/ t.handler = "transition-timeout" /\ Hook(CancelTransition(World, t.data))
  BY DEF PerformTask
<1>2. phase = "pass"
  BY DEF PerformTask
<1>3. ~Performed(World, t).broken
  BY <1>1 DEF HooksSucceed
<1>4. /\ Steady(u, due, {}, D) /\ ~u.broken /\ u.infos = info /\ Sound(u)
      /\ Quiet(u, due, {}, D) /\ now \in Nat /\ due \subseteq Task(Handlers, Accounts)
  BY WorldSteady
<1>5. t \in due /\ t.data \in Accounts /\ t.time \in Nat /\ t.time <= now
  BY <1>4 DEF Timely, Task
<1>6. Lined(u) /\ u \in Worlds
  BY <1>4 DEF Lined, Sound
<1> DEFINE a == t.data
           rest == due \ {t}
<1>. HIDE DEF u, D
<1>7. ASSUME NEW w, Lined(w), Hook(w), ~w.broken PROVE LinesFit(info')
  BY <1>7, LinedNext DEF Hook
<1>. HIDE DEF rest
<1>8. CASE t.handler = "compression"
  <2> DEFINE w == PerformCompression(u, a)
  <2>1. Hook(w) /\ Performed(u, t) = w
    BY <1>1, <1>8 DEF Performed, u
  <2>2. Calm(w, rest, {}, D)
    BY <1>4, <1>5, <1>8, PerformCompressionSteady DEF rest, Steady
  <2>3. Lined(w)
    BY <1>4, <1>5, <1>6, <1>8, <2>2, PerformCompressionLined
  <2>. HIDE DEF w
  <2>. QED  BY <1>3, <1>7, <2>1, <2>3 DEF u
<1>9. CASE t.handler = "banish"
  <2> DEFINE w == Banish(u, a)
  <2>1. Hook(w) /\ Performed(u, t) = w
    BY <1>1, <1>9 DEF Performed, u
  <2>2. Banishes(u, due, D, a, t)
    BY <1>2, <1>4, <1>5, <1>9 DEF Banishes, Steady
  <2>3. Lined(w)
    BY <1>4, <1>6, <2>2, BanishLined
  <2>. HIDE DEF w
  <2>. QED  BY <1>3, <1>7, <2>1, <2>3 DEF u
<1>10. CASE t.handler = "downgrade"
  <2> DEFINE w == PerformDowngrade(u, a)
  <2>1. Hook(w) /\ Performed(u, t) = w
    BY <1>1, <1>10 DEF Performed, u
  <2>2. Lined(w)
    BY <1>4, <1>5, <1>6, PerformDowngradeLined
  <2>. HIDE DEF w
  <2>. QED  BY <1>3, <1>7, <2>1, <2>2 DEF u
<1>11. CASE t.handler = "transition-timeout"
  <2> DEFINE w == CancelTransition(u, a)
  <2>1. Hook(w) /\ Performed(u, t) = w
    BY <1>1, <1>11 DEF Performed, u
  <2>2. Lined(w)
    <3>1. None \in Parents
      BY DEF Parents
    <3>. QED  BY <1>5, <1>6, <3>1, TransitionLined DEF CancelTransition
  <2>. HIDE DEF w
  <2>. QED  BY <1>3, <1>7, <2>1, <2>2 DEF u
<1>. QED  BY <1>1, <1>8, <1>9, <1>10, <1>11

\* A restart goes through a file without sums.
LEMMA RestartLined ==
    ASSUME Earned, Roomy, IInv, Timely, LinesFit(info), Restart
    PROVE  LinesFit(info')
<1> DEFINE u == World
           file == [a \in Accounts |-> Exported(info[a], a \in strangers)]
           own == [a \in Accounts |-> [coins |-> info[a].lines["coins"][0],
                                       delegated |-> info[a].lines["delegated"][0]]]
           active == {a \in Accounts : info[a].active}
           w == InitGenesis(file, tasks, own, active)
<1>1. Tx(w) /\ phase = "txs"
  BY DEF Restart
<1>3. /\ ~u.broken /\ u.infos = info /\ Sound(u) /\ Quiet(u, due, {}, Stakes(info))
      /\ now \in Nat /\ u.tasks = tasks
  BY WorldSteady DEF World
<1>4. due = {}
  BY <1>1 DEF Timely
<1>5. own = Balances(info) /\ active = ActiveOnes(info)
  BY DEF Balances, ActiveOnes
<1>. HIDE DEF u, own, active
<1>6. Filed(file, tasks, active, own)
  BY <1>3, <1>4, <1>5, ExportedFiled
<1>7. \A a \in Accounts : Unlined(file[a])
  <2>1. \A a \in Accounts : (a \in strangers) \in BOOLEAN
    OBVIOUS
  <2>. QED  BY <2>1, ExportedUnlined
<1>. HIDE DEF file
<1>8. Lined(w)
  BY <1>3, <1>6, <1>7, InitGenesisLined
<1>. HIDE DEF w
<1>. QED  BY <1>1, <1>8, LinedNext DEF Tx

\* So does the first genesis.
LEMMA InitLined == Earned /\ Roomy /\ Init => LinesFit(info)
<1>. SUFFICES ASSUME Earned, Roomy, Init PROVE LinesFit(info)
  OBVIOUS
<1>1. now = 0 /\ phase = "genesis" /\ now \in Nat
  BY DEF Init
<1>2. PICK g \in Genesis : \E w \in {NewChain(g)} : ~w.broken /\ info = w.infos
  BY DEF Init
<1> DEFINE w == NewChain(g)
<1>3. ~w.broken /\ info = w.infos
  BY <1>2
<1>4. Lined(w)
  <2>1. Filed(FirstFile(g), FirstStore(g), g.active, FirstOwn(g))
    BY <1>1, FirstFiled
  <2>2. \A a \in Accounts : Unlined(FirstFile(g)[a])
    BY FirstUnlined
  <2>3. Lined(InitGenesis(FirstFile(g), FirstStore(g), FirstOwn(g), g.active))
    BY <1>1, <2>1, <2>2, InitGenesisLined
  <2>. QED  BY <2>3, NewChainParts
<1>. HIDE DEF w
<1>. QED  BY <1>3, <1>4 DEF Lined

\* Every step, by the actions of Next.
LEMMA LinedStep ==
    /\ Earned /\ Roomy /\ IInv /\ Timely /\ LinesFit(info) /\ [Next]_vars /\ [HooksSucceed]_vars
    => LinesFit(info')
<1>. SUFFICES ASSUME Earned, Roomy, IInv, Timely, LinesFit(info), [Next]_vars, [HooksSucceed]_vars
              PROVE  LinesFit(info')
  OBVIOUS
<1>0. CASE UNCHANGED info
  BY <1>0
<1>1. CASE \E p, a \in Accounts, h \in Holdings : CreateAccount(p, a, h)
  BY <1>1, CreateAccountLined
<1>2. CASE \E a \in Accounts : PayTariff(a)
  BY <1>2, PayTariffLined
<1>3. CASE \E a \in Accounts : MonthOver(a)
  <2>1. CASE HooksSucceed
    BY <1>3, <2>1, MonthOverLined DEF HooksSucceed
  <2>. QED  BY <1>0, <2>1 DEF vars
<1>4. CASE \E a \in Accounts, h \in Holdings : BalanceChange(a, h)
  BY <1>4, BalanceChangeLined
<1>5. CASE \E a, n \in Accounts : RequestTransition(a, n)
  BY <1>5, RequestTransitionLined
<1>6. CASE \E a \in Accounts, approved \in BOOLEAN : ResolveTransition(a, approved)
  BY <1>6, ResolveTransitionLined
<1>7. CASE PerformTask
  <2>1. CASE HooksSucceed
    BY <1>7, <2>1, PerformTaskLined
  <2>. QED  BY <1>0, <2>1 DEF vars
<1>8. CASE BeginBlock \/ StartPass \/ EndPass
  BY <1>0, <1>8 DEF BeginBlock, StartPass, EndPass
<1>9. CASE Restart
  BY <1>9, RestartLined
<1>10. CASE UNCHANGED vars
  BY <1>0, <1>10 DEF vars
<1>. QED  BY <1>1, <1>2, <1>3, <1>4, <1>5, <1>6, <1>7, <1>8, <1>9, <1>10 DEF Next

\* The lines always fit, as far as they are kept.
LEMMA AlwaysLined ==
    Earned /\ Roomy /\ Spec /\ [][HooksSucceed]_vars => [](Roomy /\ IInv /\ LinesFit(info))
<1>1. Earned /\ Roomy /\ IInv /\ Timely /\ LinesFit(info) /\ [Next]_vars /\ [HooksSucceed]_vars
      => LinesFit(info)'
  BY LinedStep
<1>2. Earned /\ Roomy => Earned' /\ Roomy'
  BY DEF Earned, Roomy
<1>. QED  BY InitLined, AlwaysTimely, <1>1, <1>2, PTL DEF Spec

(***************************************************************************)
(* The sums of a record are the sums over its team, line by line, in all   *)
(* lines but the last: contributions that climb, activity, compressions    *)
(* and the shifts of transitions keep them exact.                          *)
(***************************************************************************)
THEOREM LinesAlwaysExact ==
    Earned /\ Roomy /\ Spec /\ [][HooksSucceed]_vars => []LinesExact
BY AlwaysLined, LinedExact, PTL
=============================================================================
