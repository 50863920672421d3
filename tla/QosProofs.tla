----------------------------- MODULE QosProofs -----------------------------
(***************************************************************************)
(* A refusal of upstream is respected, and what the scheduler counts keeps *)
(* its types, for any accounts and calls, any answers and any periods.     *)
(*                                                                         *)
(* What the scheduler knows of a refusal may be out of date, and so may    *)
(* the answers that are still under way.  None of them is too short: an    *)
(* answer that refuses was given during the refusal that is still on, or   *)
(* during one that has ended and was heard of before the next began.       *)
(*                                                                         *)
(* Credit is a share of the quota by weight.  It is a number since no one  *)
(* gets a share of a round but those that are in it, so that the weights   *)
(* by which is divided do not add up to 0.                                 *)
(***************************************************************************)
EXTENDS Qos, FiniteSetTheorems, WellFoundedInduction, TLAPS

Answers == [ok : BOOLEAN, remaining : Nat \cup {Unknown},
            reset : Nat \cup {Unknown}, retry : 1..MaxBackoff \cup {Unknown}]
Calls == [phase : {"none", "queued", "sent", "answered", "heard"},
          waited : 0..MaxWait, plan : BOOLEAN, answer : Answers]

\* The part of TypeOK that the refusals depend on.
Typed ==
    /\ call \in [Call -> Calls]
    /\ backoff \in 0..MaxBackoff /\ refusing \in 0..MaxBackoff /\ told \in BOOLEAN

\* A refusal under way lasts, once it is heard of, to the end of this one.
LongEnough(r) == ~r.ok => Wait(r) >= refusing
RefusalsLast == \A c \in Call : call[c].phase = "answered" => LongEnough(call[c].answer)

ToldInTime == told => refusing > 0

Inv == Typed /\ RefusalsLast /\ ToldInTime /\ QuietWhileRefused

----------------------------------------------------------------------------

LEMMA Periods == /\ MaxWait \in Nat /\ DefaultBackoff \in Nat \ {0}
                 /\ MaxBackoff \in Nat /\ MaxBackoff >= DefaultBackoff
BY PeriodAssumption

\* What on_429 makes of a retry-after is a backoff.
LEMMA WaitBounds == ASSUME NEW r \in Answers PROVE Wait(r) \in 1..MaxBackoff
BY Periods DEF Answers, Wait, Least, Most, Unknown

\* A retry-after within the bounds is taken as it is.
LEMMA WaitKeeps ==
    ASSUME NEW r \in Answers, r.retry # Unknown
    PROVE  Wait(r) = r.retry
BY Periods DEF Answers, Wait, Least, Most, Unknown

LEMMA NoAnswerType == NoAnswer \in Answers /\ NoAnswer.ok
BY DEF NoAnswer, Answers, Unknown

LEMMA NoCallType == NoCall \in Calls /\ NoCall.phase = "none"
BY NoAnswerType, Periods DEF NoCall, Calls

\* Steps that leave the refusal alone, and bring no answer under way.
LEMMA Quiet ==
    ASSUME Inv, UNCHANGED <<backoff, refusing, told>>,
           call' \in [Call -> Calls],
           \A c \in Call : call'[c].phase = "answered" => call'[c] = call[c]
    PROVE  Inv'
BY DEF Inv, Typed, RefusalsLast, LongEnough, Wait, ToldInTime, QuietWhileRefused

\* One call moves on, to where no answer is under way.
LEMMA Moved ==
    ASSUME Inv, UNCHANGED <<backoff, refusing, told>>,
           NEW c \in Call, NEW k \in Calls, k.phase # "answered" \/ k = call[c],
           call' = [call EXCEPT ![c] = k]
    PROVE  Inv'
<1>1. call' \in [Call -> Calls]
  BY DEF Inv, Typed
<1>2. \A d \in Call : call'[d].phase = "answered" => call'[d] = call[d]
  BY DEF Inv, Typed
<1> QED
  BY <1>1, <1>2, Quiet

LEMMA InitInv == Init => Inv
<1> SUFFICES ASSUME Init PROVE Inv
  OBVIOUS
<1>1. call \in [Call -> Calls]
  BY NoCallType DEF Init
<1>2. backoff \in 0..MaxBackoff /\ refusing \in 0..MaxBackoff
  BY Periods DEF Init
<1>3. RefusalsLast
  BY NoCallType DEF Init, RefusalsLast
<1> QED
  BY <1>1, <1>2, <1>3, Zenon DEF Init, Inv, Typed, ToldInTime, QuietWhileRefused

LEMMA AdmissionKeeps ==
    ASSUME Inv, NEW c \in Call, Arrive(c) \/ Hangup(c) \/ Ask(c)
    PROVE  Inv'
<1>1. [NoCall EXCEPT !.phase = "queued"] \in Calls
      /\ [NoCall EXCEPT !.phase = "queued"].phase # "answered"
  BY NoCallType DEF Calls, NoCall
<1>2. /\ [NoCall EXCEPT !.phase = "sent", !.plan = FALSE] \in Calls
      /\ [NoCall EXCEPT !.phase = "sent", !.plan = FALSE].phase # "answered"
  BY NoCallType DEF Calls, NoCall
<1>3. [NoCall EXCEPT !.phase = "sent"] \in Calls
      /\ [NoCall EXCEPT !.phase = "sent"].phase # "answered"
  BY NoCallType DEF Calls, NoCall
<1>4. CASE Arrive(c)
  BY <1>1, <1>2, <1>4, Moved DEF Arrive, quota, upstream
<1>5. CASE Hangup(c)
  BY <1>5, NoCallType, Moved DEF Hangup, quota, upstream
<1>6. CASE RejectEarly(c)
  BY <1>6, NoCallType, Moved DEF RejectEarly, quota, upstream
<1>7. CASE GoUnknown(c)
  BY <1>7, <1>3, Moved DEF GoUnknown, upstream
<1>8. CASE Go(c)
  BY <1>8, <1>3, Moved DEF Go, upstream
<1>9. CASE NotYet(c)
  <2>1. UNCHANGED <<backoff, refusing, told>>
    BY <1>9 DEF NotYet, upstream
  <2>2. CASE Spent(c)
    BY <1>9, <2>1, <2>2, NoCallType, Moved DEF NotYet
  <2>3. CASE ~Spent(c)
    <3>1. call' = [call EXCEPT ![c] = call[c]]
      BY <1>9, <2>3 DEF NotYet
    <3>2. call[c] \in Calls
      BY DEF Inv, Typed
    <3> QED
      BY <2>1, <3>1, <3>2, Moved
  <2> QED
    BY <2>2, <2>3
<1> QED
  BY <1>4, <1>5, <1>6, <1>7, <1>8, <1>9 DEF Ask

\* The calls that end: early, with their client, or settled.
LEMMA EndKeeps ==
    ASSUME Inv, NEW c \in Call, Fail(c) \/ Settle(c) \/ Gone(c)
    PROVE  Inv'
<1>1. UNCHANGED <<backoff, refusing, told>> /\ call' = [call EXCEPT ![c] = NoCall]
  BY DEF Fail, Settle, Gone, quota, upstream
<1> QED
  BY <1>1, NoCallType, Moved

\* Upstream names how long it refuses, or refuses no longer than the default.
LEMMA AnswerKeeps ==
    ASSUME Inv, NEW c \in Call, Answer(c)
    PROVE  Inv'
<1>1. PICK r \in IF ~call[c].plan THEN {NoAnswer} ELSE IF refusing > 0 THEN Refusal ELSE Reading :
         call' = [call EXCEPT ![c].phase = "answered", ![c].answer = r]
  BY DEF Answer
<1>2. r \in Answers /\ LongEnough(r)
  <2>1. CASE r = NoAnswer
    BY <2>1, NoAnswerType DEF LongEnough
  <2>2. CASE refusing > 0 /\ r \in Refusal
    <3>1. /\ r.ok = FALSE /\ r.remaining = Unknown /\ r.reset = Unknown
          /\ r.retry = refusing \/ (refusing <= DefaultBackoff /\ r.retry = Unknown)
          /\ r = [ok |-> r.ok, remaining |-> r.remaining, reset |-> r.reset, retry |-> r.retry]
      BY <2>2 DEF Refusal
    <3>2. r \in Answers
      <4>1. r.retry \in 1..MaxBackoff \cup {Unknown}
        BY <2>2, <3>1, Periods DEF Inv, Typed
      <4> QED
        BY <3>1, <4>1 DEF Answers
    <3>3. CASE r.retry = refusing
      <4>1. refusing # Unknown /\ refusing \in Nat
        BY <2>2, Periods DEF Unknown, Inv, Typed
      <4>2. Wait(r) = refusing
        BY <3>2, <3>3, <4>1, WaitKeeps
      <4> QED
        BY <3>2, <4>1, <4>2 DEF LongEnough
    <3>4. CASE refusing <= DefaultBackoff /\ r.retry = Unknown
      BY <3>2, <3>4, Periods DEF LongEnough, Wait, Inv, Typed
    <3> QED
      BY <3>1, <3>2, <3>3, <3>4
  <2>3. CASE r \in Reading
    <3>1. PICK p \in Reports :
             r = [ok |-> TRUE, remaining |-> p[1], reset |-> p[2], retry |-> Unknown]
      BY <2>3 DEF Reading
    <3>2. p[1] \in Nat \cup {Unknown} /\ p[2] \in Nat \cup {Unknown}
      BY ReportAssumption
    <3> QED
      BY <3>1, <3>2 DEF Answers, LongEnough
  <2> QED
    BY <1>1, <2>1, <2>2, <2>3
<1>3. UNCHANGED <<backoff, refusing, told>>
  BY DEF Answer, quota, upstream
<1>4. call' \in [Call -> Calls]
  BY <1>1, <1>2 DEF Inv, Typed, Calls
<1>5. RefusalsLast'
  <2> SUFFICES ASSUME NEW d \in Call, call'[d].phase = "answered"
               PROVE  LongEnough(call[d].answer)'
    BY DEF RefusalsLast
  <2>1. CASE d = c
    <3>1. call'[d].answer = r
      BY <1>1, <2>1 DEF Inv, Typed, Calls
    <3> QED
      BY <1>2, <1>3, <3>1 DEF LongEnough, Wait
  <2>2. CASE d # c
    <3>1. call'[d] = call[d]
      BY <1>1, <2>2 DEF Inv, Typed
    <3> QED
      BY <1>3, <3>1 DEF Inv, RefusalsLast, LongEnough, Wait
  <2> QED
    BY <2>1, <2>2
<1> QED
  BY <1>3, <1>4, <1>5 DEF Inv, Typed, ToldInTime, QuietWhileRefused

\* A refusal that is heard of sets a backoff that outlasts it; a reading
\* leaves the backoff alone, however old it is.
LEMMA ObserveKeeps ==
    ASSUME Inv, NEW c \in Call, Observe(c)
    PROVE  Inv'
<1> DEFINE r == call[c].answer
<1>1. r \in Answers /\ LongEnough(r)
  BY DEF Inv, Typed, Calls, RefusalsLast, Observe
<1>2. call' = [call EXCEPT ![c].phase = "heard",
                           ![c].answer = [NoAnswer EXCEPT !.ok = call[c].answer.ok]]
  BY DEF Observe
<1>3. [NoAnswer EXCEPT !.ok = call[c].answer.ok] \in Answers
  BY <1>1, NoAnswerType DEF Answers, NoAnswer
<1>4. call' \in [Call -> Calls]
  BY <1>2, <1>3 DEF Inv, Typed, Calls
<1>5. \A d \in Call : call'[d].phase = "answered" => call'[d] = call[d]
  BY <1>2 DEF Inv, Typed, Calls
<1>6. CASE ~call[c].plan \/ r.ok
  <2>1. UNCHANGED <<backoff, refusing, told>>
    BY <1>6 DEF Observe, Observed, quota, upstream
  <2> QED
    BY <1>4, <1>5, <2>1, Quiet
<1>7. CASE call[c].plan /\ ~r.ok
  <2>1. backoff' = Wait(r) /\ told' = (refusing > 0) /\ UNCHANGED refusing
    BY <1>7 DEF Observe, Refused
  <2>2. Wait(r) \in 1..MaxBackoff /\ Wait(r) >= refusing
    BY <1>1, <1>7, WaitBounds DEF LongEnough
  <2>3. Typed' /\ ToldInTime' /\ QuietWhileRefused'
    BY <1>4, <2>1, <2>2, Periods DEF Inv, Typed, ToldInTime, QuietWhileRefused
  <2>4. RefusalsLast'
    BY <1>5, <2>1 DEF Inv, RefusalsLast, LongEnough, Wait
  <2> QED
    BY <2>3, <2>4 DEF Inv
<1> QED
  BY <1>6, <1>7

\* Upstream begins to refuse when nobody believes that it does.
LEMMA RefuseKeeps == ASSUME Inv, Refuse PROVE Inv'
<1>1. ~told /\ UNCHANGED <<call, backoff, told>> /\ refusing' \in 0..MaxBackoff
  BY Periods DEF Refuse, quota, Inv, ToldInTime
<1>2. RefusalsLast'
  BY <1>1 DEF Refuse, RefusalsLast, LongEnough
<1> QED
  BY <1>1, <1>2 DEF Inv, Typed, ToldInTime, QuietWhileRefused

\* Both clocks run down together.
LEMMA TickKeeps == ASSUME Inv, Tick PROVE Inv'
<1>1. /\ backoff' = Down(backoff) /\ refusing' = Down(refusing)
      /\ told' = (told /\ refusing > 1)
      /\ call' = [c \in Call |-> IF Queued(c)
                                 THEN [call[c] EXCEPT !.waited = Least(@ + 1, MaxWait)]
                                 ELSE call[c]]
  BY DEF Tick
<1>2. call' \in [Call -> Calls]
  <2> SUFFICES ASSUME NEW c \in Call PROVE call'[c] \in Calls
    BY <1>1
  <2>1. call[c] \in Calls
    BY DEF Inv, Typed
  <2>2. Least(call[c].waited + 1, MaxWait) \in 0..MaxWait
    BY <2>1, Periods DEF Calls, Least
  <2>3. [call[c] EXCEPT !.waited = Least(@ + 1, MaxWait)] \in Calls
    BY <2>1, <2>2 DEF Calls
  <2> QED
    BY <1>1, <2>1, <2>3
<1>3. Typed' /\ ToldInTime' /\ QuietWhileRefused'
  <2>1. /\ backoff' \in 0..MaxBackoff /\ refusing' \in 0..MaxBackoff
        /\ refusing > 1 => refusing' > 0
        /\ backoff >= refusing => backoff' >= refusing'
    BY <1>1, Periods DEF Inv, Typed, Down
  <2>2. told' \in BOOLEAN
    BY <1>1
  <2>3. told' => told /\ refusing > 1
    BY <1>1
  <2>4. Typed'
    BY <1>2, <2>1, <2>2 DEF Typed
  <2> QED
    BY <2>1, <2>3, <2>4 DEF Inv, ToldInTime, QuietWhileRefused
<1>4. RefusalsLast'
  <2> SUFFICES ASSUME NEW c \in Call, call'[c].phase = "answered"
               PROVE  LongEnough(call[c].answer)'
    BY DEF RefusalsLast
  <2>1. call'[c] = call[c]
    BY <1>1 DEF Queued, Inv, Typed, Calls
  <2>2. call[c].answer \in Answers /\ LongEnough(call[c].answer)
    BY <2>1 DEF Inv, Typed, Calls, RefusalsLast
  <2>3. Wait(call[c].answer) \in Nat
    BY <2>2, WaitBounds, Periods
  <2>4. refusing \in Nat /\ refusing' <= refusing
    BY <1>1, Periods DEF Inv, Typed, Down
  <2>5. refusing' \in Nat
    BY <1>1, <2>4 DEF Down
  <2>6. ~call[c].answer.ok => Wait(call[c].answer) >= refusing'
    BY <2>2, <2>3, <2>4, <2>5 DEF LongEnough
  <2> QED
    BY <2>1, <2>6 DEF LongEnough, Wait
<1> QED
  BY <1>3, <1>4 DEF Inv

LEMMA NextInv == Inv /\ [Next]_vars => Inv'
<1> SUFFICES ASSUME Inv, [Next]_vars PROVE Inv'
  OBVIOUS
<1>1. ASSUME NEW c \in Call, Arrive(c) \/ Hangup(c) \/ Ask(c) PROVE Inv'
  BY <1>1, AdmissionKeeps
<1>2. ASSUME NEW c \in Call, Fail(c) \/ Settle(c) \/ Gone(c) PROVE Inv'
  BY <1>2, EndKeeps
<1>3. ASSUME NEW c \in Call, Answer(c) PROVE Inv'
  BY <1>3, AnswerKeeps
<1>4. ASSUME NEW c \in Call, Observe(c) PROVE Inv'
  BY <1>4, ObserveKeeps
<1>5. CASE Refuse
  BY <1>5, RefuseKeeps
<1>6. CASE Tick
  BY <1>6, TickKeeps
<1>7. CASE UNCHANGED vars
  BY <1>7 DEF vars, Inv, Typed, RefusalsLast, LongEnough, Wait, ToldInTime, QuietWhileRefused
<1> QED
  BY <1>1, <1>2, <1>3, <1>4, <1>5, <1>6, <1>7 DEF Next

----------------------------------------------------------------------------
(* The weights of a round add up, by induction over its size.              *)

\* A set of numbers with 0 and the successors of its members has them all.
LEMMA Induction ==
    ASSUME NEW P \in SUBSET Nat, 0 \in P, \A n \in P : n + 1 \in P
    PROVE  P = Nat
<1> DEFINE Q == Nat \ P
           R == OpToRel(<, Nat)
<1> SUFFICES ASSUME Q # {} PROVE FALSE
  OBVIOUS
<1>1. \E m \in Q : \A n \in Q : ~ (<<n, m>> \in R)
  BY NatLessThanWellFounded, WFMin
<1>2. PICK m \in Q : \A n \in Q : ~ (<<n, m>> \in R)
  BY <1>1
<1>3. m \in Nat /\ m # 0 /\ m - 1 \in Nat
  OBVIOUS
<1>4. \A n \in Q : ~(n < m)
  BY <1>2 DEF OpToRel
<1>5. m - 1 \in P
  BY <1>3, <1>4
<1>6. (m - 1) + 1 \in P
  BY <1>5, Zenon
<1>7. (m - 1) + 1 = m
  BY <1>3
<1> QED
  BY <1>6, <1>7

\* The fold takes the members of s in the order in which CHOOSE finds them.
First(s) == CHOOSE i \in s : TRUE
Rest(s) == s \ {First(s)}
Plus(f, s) == IF s = {} THEN 0 ELSE Weight[First(s)] + f[Rest(s)]
\* f gives, for each set in D, what its weights add up to.
Adds(f, D) == f = [s \in D |-> Plus(f, s)]
Groups(n) == {s \in SUBSET Account : Cardinality(s) <= n}

LEMMA RestIs ==
    ASSUME NEW s \in SUBSET Account, s # {}
    PROVE  /\ First(s) \in s /\ Rest(s) \in SUBSET s
           /\ Cardinality(s) \in Nat /\ Cardinality(s) > 0
           /\ Cardinality(Rest(s)) = Cardinality(s) - 1
<1>1. First(s) \in s
  BY DEF First
<1>2. IsFiniteSet(s)
  BY CallAssumption, FS_Subset
<1>3. Cardinality(s) \in Nat /\ Cardinality(s) # 0
  BY <1>2, FS_CardinalityType, FS_EmptySet
<1>4. Cardinality(Rest(s)) = Cardinality(s) - 1
  BY <1>1, <1>2, FS_RemoveElement DEF Rest
<1> QED
  BY <1>1, <1>3, <1>4 DEF Rest

LEMMA SizeIs == \A s \in SUBSET Account : Cardinality(s) \in Nat /\ (Cardinality(s) = 0 => s = {})
BY CallAssumption, FS_Subset, FS_CardinalityType, FS_EmptySet

\* There is such a function, built up size by size.
LEMMA AddsExists == \A n \in Nat : \E f : Adds(f, Groups(n))
<1> DEFINE P == {n \in Nat : \E f : Adds(f, Groups(n))}
<1>1. 0 \in P
  <2> DEFINE f == [s \in Groups(0) |-> 0]
  <2>1. \A s \in Groups(0) : s = {}
    BY SizeIs DEF Groups
  <2>2. Adds(f, Groups(0))
    BY <2>1 DEF Adds, Plus
  <2> QED
    BY <2>2
<1>2. ASSUME NEW n \in P PROVE n + 1 \in P
  <2>1. PICK f : Adds(f, Groups(n))
    OBVIOUS
  <2> DEFINE g == [s \in Groups(n + 1) |-> Plus(f, s)]
  <2>2. \A s \in Groups(n) : s \in Groups(n + 1) /\ g[s] = f[s]
    BY <2>1, SizeIs DEF Groups, Adds
  <2>3. ASSUME NEW s \in Groups(n + 1) PROVE Plus(f, s) = Plus(g, s)
    <3> SUFFICES ASSUME s # {} PROVE f[Rest(s)] = g[Rest(s)]
      BY DEF Plus
    <3>1. Rest(s) \in Groups(n)
      BY RestIs DEF Groups
    <3> QED
      BY <2>2, <3>1
  <2>4. g = [s \in Groups(n + 1) |-> Plus(g, s)]
    BY <2>3, Zenon
  <2>5. Adds(g, Groups(n + 1))
    BY <2>4 DEF Adds
  <2> QED
    BY <2>5
<1>3. P \in SUBSET Nat
  OBVIOUS
<1> HIDE DEF P
<1>4. P = Nat
  BY <1>1, <1>2, <1>3, Induction
<1> QED
  BY <1>4 DEF P

\* What it gives is a number, and above 0 unless there is nothing to add.
LEMMA AddsIsPositive ==
    ASSUME NEW S \in SUBSET Account, NEW f, Adds(f, SUBSET S)
    PROVE  f[S] \in Nat /\ (S # {} => f[S] > 0)
<1> DEFINE P == {n \in Nat : \A s \in SUBSET S : Cardinality(s) = n => f[s] \in Nat /\ (s # {} => f[s] > 0)}
<1>1. 0 \in P
  BY SizeIs DEF Adds, Plus
<1>2. ASSUME NEW n \in P PROVE n + 1 \in P
  <2> SUFFICES ASSUME NEW s \in SUBSET S, Cardinality(s) = n + 1
               PROVE  f[s] \in Nat /\ (s # {} => f[s] > 0)
    OBVIOUS
  <2>0. n + 1 # 0
    OBVIOUS
  <2>1. s # {}
    BY <2>0, FS_EmptySet, Zenon
  <2>2. First(s) \in Account /\ Rest(s) \in SUBSET S /\ Cardinality(Rest(s)) = n
    BY <2>1, RestIs
  <2>3. f[Rest(s)] \in Nat /\ Weight[First(s)] \in Nat /\ Weight[First(s)] > 0
    BY <2>2, PriceAssumption
  <2>4. f[s] = Weight[First(s)] + f[Rest(s)]
    BY <2>1 DEF Adds, Plus
  <2> QED
    BY <2>3, <2>4
<1>3. P \in SUBSET Nat
  OBVIOUS
<1> HIDE DEF P
<1>4. P = Nat
  BY <1>1, <1>2, <1>3, Induction
<1>5. Cardinality(S) \in P
  BY <1>4, SizeIs
<1> QED
  BY <1>5 DEF P

\* So does the fold that accrual divides by.
LEMMA WeightsAddUp ==
    ASSUME NEW S \in SUBSET Account
    PROVE  /\ MapThenSumSet(LAMBDA i : Weight[i], S) \in Nat
           /\ S # {} => MapThenSumSet(LAMBDA i : Weight[i], S) > 0
<1> DEFINE F == CHOOSE f : Adds(f, SUBSET S)
<1>1. PICK n \in Nat : n = Cardinality(Account)
  BY SizeIs
<1>2. SUBSET S \subseteq Groups(n)
  BY <1>1, CallAssumption, FS_Subset DEF Groups
<1>3. PICK g : Adds(g, Groups(n))
  BY AddsExists
<1> DEFINE h == [s \in SUBSET S |-> g[s]]
<1>4. ASSUME NEW s \in SUBSET S PROVE h[s] = Plus(h, s)
  <2>1. g[s] = Plus(g, s)
    BY <1>2, <1>3 DEF Adds
  <2>2. Plus(g, s) = Plus(h, s)
    BY RestIs DEF Plus
  <2> QED
    BY <2>1, <2>2
<1>5. h = [s \in SUBSET S |-> Plus(h, s)]
  BY <1>4, Zenon
<1>6. Adds(F, SUBSET S)
  <2>1. \E f : Adds(f, SUBSET S)
    BY <1>5 DEF Adds
  <2> QED
    BY <2>1, Zenon
<1>7. MapThenSumSet(LAMBDA i : Weight[i], S) = F[S]
  BY Zenon DEF MapThenSumSet, MapThenFoldSet, Adds, Plus, First, Rest
<1> HIDE DEF F
<1> QED
  BY <1>6, <1>7, AddsIsPositive
----------------------------------------------------------------------------
(* The types of accounts and quota.                                        *)

Entries == [known : BOOLEAN, credit : Int, inflight : Nat, idle : 0..IdleAfter]
Budgets == Nat \cup {Unknown}
Counted ==
    /\ acct \in [Account -> Entries]
    /\ budget \in Budgets /\ window \in Budgets
    /\ since \in 0..MaxSince \cup {Unknown} /\ lost \in 0..MaxLost

LEMMA Bounds == /\ Burst \in Nat /\ Millis \in Nat /\ IdleAfter \in Nat /\ IdleAfter > 0
                /\ MaxSince \in Nat /\ MaxSince > 0
                /\ MaxDebt \in Nat /\ MaxTokens \in Nat /\ MaxLost \in Nat
BY PeriodAssumption

\* Tokens stay whole numbers, and what is left of a budget is never negative.
LEMMA LessType == \A m, n \in Int : Less(m, n) \in Int
BY Bounds DEF Less, Least, Most

LEMMA LeftType == \A m, n \in Int : Left(m, n) \in Nat
BY Bounds DEF Left, Least, Most

LEMMA Product == ASSUME NEW m \in Nat, NEW n \in Nat, m > 0, n > 0 PROVE m * n \in Nat /\ m * n > 0
OBVIOUS

LEMMA Quotient == ASSUME NEW m \in Int, NEW n \in Nat, n > 0 PROVE m \div n \in Int
OBVIOUS

\* An account that shares in a round is in it, so that nothing is divided by 0.
LEMMA SliceType ==
    ASSUME NEW S \in [Account -> Entries], NEW a \in Account, S[a].known, Active(S[a]),
           NEW b \in Nat, NEW w \in Budgets, NEW n \in Nat
    PROVE  Slice(S, a, b, w, n) \in Int
<1> DEFINE round == {i \in Account : S[i].known /\ Active(S[i])}
<1>1. PICK q \in Nat : q = MapThenSumSet(LAMBDA i : Weight[i], round) /\ q > 0
  <2>1. round \in SUBSET Account /\ round # {}
    OBVIOUS
  <2> HIDE DEF round
  <2> QED
    BY <2>1, WeightsAddUp
<1>2. PICK m \in Nat : m = Most(w * Millis, 1) /\ m > 0
  <2>1. PICK k \in Int : k = w * Millis
    BY Bounds DEF Budgets, Unknown
  <2> QED
    BY <2>1 DEF Most
<1>3. PICK x \in Int : x = b * Weight[a] * n * Millis
  <2>1. PICK y \in Nat : y = Weight[a]
    BY PriceAssumption
  <2>2. PICK z \in Nat : z = b * y
    OBVIOUS
  <2>3. PICK u \in Nat : u = z * n
    OBVIOUS
  <2>4. u * Millis \in Nat
    BY Bounds
  <2> QED
    BY <2>1, <2>2, <2>3, <2>4
<1>4. PICK d \in Nat : d = m * q /\ d > 0
  BY <1>1, <1>2, Product
<1>5. Slice(S, a, b, w, n) = x \div d
  BY <1>1, <1>2, <1>3, <1>4, Zenon DEF Slice
<1> QED
  BY <1>4, <1>5, Quotient

LEMMA AccrueType ==
    ASSUME NEW S \in [Account -> Entries], NEW b \in Nat, NEW w \in Budgets,
           since \in 0..MaxSince \cup {Unknown}
    PROVE  Accrue(S, b, w) \in [Account -> Entries]
<1>1. CASE since <= 0
  BY <1>1 DEF Accrue
<1>2. CASE ~(since <= 0)
  <2>1. since \in Nat
    BY <1>2, Bounds DEF Unknown
  <2>2. ASSUME NEW a \in Account, S[a].known, Active(S[a])
        PROVE  [S[a] EXCEPT !.credit = Least(@ + Slice(S, a, b, w, since), Least(Most(Slice(S, a, b, w, Burst), 1), MaxTokens))] \in Entries
    <3>1. PICK x \in Int, y \in Int : x = Slice(S, a, b, w, since) /\ y = Slice(S, a, b, w, Burst)
      BY <2>1, <2>2, SliceType, Bounds
    <3>2. Least(S[a].credit + x, Least(Most(y, 1), MaxTokens)) \in Int
      BY Bounds DEF Least, Most, Entries
    <3> QED
      BY <3>1, <3>2 DEF Entries
  <2>3. ASSUME NEW a \in Account
        PROVE  [S[a] EXCEPT !.credit = Least(@, 0)] \in Entries
    <3>1. Least(S[a].credit, 0) \in Int
      BY DEF Least, Entries
    <3> QED
      BY <3>1 DEF Entries
  <2>4. Accrue(S, b, w) =
          [a \in Account |->
            IF S[a].known /\ Active(S[a])
            THEN [S[a] EXCEPT !.credit = Least(@ + Slice(S, a, b, w, since), Least(Most(Slice(S, a, b, w, Burst), 1), MaxTokens))]
            ELSE [S[a] EXCEPT !.credit = Least(@, 0)]]
    BY <1>2, Zenon DEF Accrue
  <2>5. ASSUME NEW a \in Account PROVE Accrue(S, b, w)[a] \in Entries
    BY <2>2, <2>3, <2>4, Zenon
  <2> QED
    BY <2>4, <2>5, Zenon
<1> QED
  BY <1>1, <1>2

LEMMA ChargeType ==
    ASSUME NEW S \in [Account -> Entries], NEW a \in Account, NEW n \in Int
    PROVE  Charge(S, a, n) \in [Account -> Entries]
<1>1. Less(S[a].credit, n) \in Int
  BY LessType DEF Entries
<1>2. S[a].inflight + 1 \in Nat
  BY DEF Entries
<1>3. [S[a] EXCEPT !.credit = Less(@, n), !.inflight = @ + 1] \in Entries
  BY <1>1, <1>2 DEF Entries
<1>4. Charge(S, a, n) = [S EXCEPT ![a] = [S[a] EXCEPT !.credit = Less(@, n), !.inflight = @ + 1]]
  BY DEF Charge
<1> QED
  BY <1>3, <1>4

LEMMA SettledType ==
    ASSUME NEW S \in [Account -> Entries], NEW a \in Account, NEW n \in Int, NEW m \in Int
    PROVE  Settled(S, a, n, m) \in [Account -> Entries]
<1>1. Less(S[a].credit, m - n) \in Int
  BY LessType DEF Entries
<1>2. Most(S[a].inflight - 1, 0) \in Nat
  BY DEF Most, Entries
<1>3. 0 \in 0..IdleAfter
  BY Bounds
<1> QED
  BY <1>1, <1>2, <1>3 DEF Settled, Entries

LEMMA SeenType == ASSUME Counted, NEW c \in Call
                  PROVE  /\ Owner[c] \in Account /\ Est[c] \in Int
                         /\ Seen(Owner[c]) \in [Account -> Entries]
<1>1. Owner[c] \in Account /\ Est[c] \in Int
  BY CallAssumption, PriceAssumption
<1>2. 0 \in 0..IdleAfter
  BY Bounds
<1> QED
  BY <1>1, <1>2 DEF Counted, Seen, Entries

----------------------------------------------------------------------------
(* Steps.                                                                  *)

LEMMA InitCounted == Init => Counted
<1> SUFFICES ASSUME Init PROVE Counted
  OBVIOUS
<1>1. 0 \in 0..IdleAfter /\ 0 \in 0..MaxLost
  BY Bounds
<1>2. [known |-> FALSE, credit |-> 0, inflight |-> 0, idle |-> 0] \in Entries
  BY <1>1 DEF Entries
<1>3. acct \in [Account -> Entries]
  BY <1>2 DEF Init
<1> QED
  BY <1>1, <1>3, Zenon DEF Init, Counted, Budgets

\* Steps that the scheduler does not see.
LEMMA UncountedKeeps ==
    ASSUME Counted, UNCHANGED <<acct, budget, window, since>>, lost' \in 0..MaxLost
    PROVE  Counted'
BY DEF Counted

\* An admission charges; what it spreads before is the reading of a window
\* that has not ended.
LEMMA AskCounted == ASSUME Counted, NEW c \in Call, Ask(c) PROVE Counted'
<1>1. /\ Owner[c] \in Account /\ Est[c] \in Int
      /\ Seen(Owner[c]) \in [Account -> Entries]
  BY SeenType
<1>2. CASE RejectEarly(c)
  BY <1>2, UncountedKeeps DEF RejectEarly, quota, Counted
<1>3. CASE GoUnknown(c)
  <2>1. acct' \in [Account -> Entries]
    BY <1>1, <1>3, ChargeType DEF GoUnknown
  <2>2. /\ budget' \in Budgets /\ window' \in Budgets /\ since' = since /\ lost' = lost
    BY <1>3 DEF GoUnknown, Window, Counted, Budgets
  <2> QED
    BY <2>1, <2>2 DEF Counted
<1>4. ASSUME Capacity # Unknown
      PROVE  /\ budget \in Nat /\ Handed(c) \in [Account -> Entries]
             /\ Share \in 0..MaxSince \cup {Unknown}
  <2>1. budget \in Nat
    BY <1>4 DEF Capacity, Counted, Budgets
  <2>2. Handed(c) \in [Account -> Entries]
    BY <1>1, <2>1, AccrueType DEF Counted, Handed
  <2> QED
    BY <2>1, <2>2, Bounds DEF Share
<1>5. CASE Go(c)
  <2>1. acct' \in [Account -> Entries]
    BY <1>1, <1>4, <1>5, ChargeType DEF Go
  <2>2. budget' \in Nat
    BY <1>1, <1>4, <1>5, LeftType DEF Go
  <2>3. since' \in 0..MaxSince \cup {Unknown} /\ window' = window /\ lost' = lost
    BY <1>4, <1>5 DEF Go
  <2> QED
    BY <2>1, <2>2, <2>3 DEF Counted, Budgets
<1>6. CASE NotYet(c)
  <2>1. /\ acct' \in [Account -> Entries] /\ since' \in 0..MaxSince \cup {Unknown}
        /\ UNCHANGED <<budget, window, lost>>
    BY <1>4, <1>6 DEF NotYet
  <2> QED
    BY <2>1 DEF Counted
<1> QED
  BY <1>2, <1>3, <1>5, <1>6 DEF Ask

\* A reading, or a refusal, takes the place of what was known.
LEMMA ObserveCounted == ASSUME Inv, Counted, NEW c \in Call, Observe(c) PROVE Counted'
<1> DEFINE r == call[c].answer
<1>1. r \in Answers /\ r.remaining \in Budgets /\ r.reset \in Budgets
  BY DEF Inv, Typed, Calls, Answers, Budgets
<1>2. UNCHANGED <<acct, lost>>
  BY DEF Observe
<1>3. budget' \in Budgets /\ window' \in Budgets /\ since' \in 0..MaxSince \cup {Unknown}
  <2>1. CASE ~call[c].plan
    BY <2>1 DEF Observe, quota, Counted
  <2>2. CASE call[c].plan /\ r.ok
    <3>1. Observed(r)
      BY <2>2 DEF Observe
    <3>2. 0 \in 0..MaxSince
      BY Bounds
    <3> QED
      BY <1>1, <3>1, <3>2 DEF Observed, Counted
  <2>3. CASE call[c].plan /\ ~r.ok
    <3>1. Refused(r)
      BY <2>3 DEF Observe
    <3>2. Wait(r) \in Budgets /\ 0 \in Budgets
      BY <1>1, WaitBounds, Periods DEF Budgets
    <3> QED
      BY <3>1, <3>2 DEF Refused, Counted
  <2> QED
    BY <2>1, <2>2, <2>3
<1> QED
  BY <1>2, <1>3 DEF Counted

\* The estimate is corrected, in the credit and in the budget.
LEMMA SettleCounted == ASSUME Counted, NEW c \in Call, Settle(c) PROVE Counted'
<1>1. PICK actual \in IF call[c].answer.ok THEN Cost ELSE {1} :
        /\ acct' = Settled(acct, Owner[c], Est[c], actual)
        /\ budget' = IF budget = Unknown THEN Unknown ELSE Left(budget, actual - Est[c])
  BY DEF Settle
<1>2. actual \in Int /\ Owner[c] \in Account /\ Est[c] \in Int
  BY PriceAssumption, SeenType
<1>3. acct' \in [Account -> Entries]
  BY <1>1, <1>2, SettledType DEF Counted
<1>4. budget' \in Budgets
  <2>1. budget # Unknown => budget \in Int /\ actual - Est[c] \in Int
    BY <1>2 DEF Counted, Budgets
  <2> QED
    BY <1>1, <2>1, LeftType DEF Budgets
<1>5. UNCHANGED <<window, since, lost>>
  BY DEF Settle
<1> QED
  BY <1>3, <1>4, <1>5 DEF Counted

LEMMA TickCounted == ASSUME Counted, Tick PROVE Counted'
<1>1. acct' \in [Account -> Entries]
  <2>1. ASSUME NEW a \in Account
        PROVE  [acct[a] EXCEPT !.idle = IF acct[a].known THEN Least(@ + 1, IdleAfter) ELSE @] \in Entries
    <3>1. acct[a] \in Entries
      BY DEF Counted
    <3>2. Least(acct[a].idle + 1, IdleAfter) \in 0..IdleAfter
      BY <3>1, Bounds DEF Entries, Least
    <3> QED
      BY <3>1, <3>2 DEF Entries
  <2> QED
    BY <2>1 DEF Tick
<1>2. window' \in Budgets
  BY DEF Tick, Counted, Budgets, Down, Unknown
<1>3. since' \in 0..MaxSince \cup {Unknown}
  <2>1. since # Unknown => Least(since + 1, MaxSince) \in 0..MaxSince
    BY Bounds DEF Counted, Least
  <2> QED
    BY <2>1 DEF Tick
<1>4. UNCHANGED <<budget, lost>>
  BY DEF Tick
<1> QED
  BY <1>1, <1>2, <1>3, <1>4 DEF Counted

LEMMA NextCounted == Inv /\ Counted /\ [Next]_vars => Counted'
<1> SUFFICES ASSUME Inv, Counted, [Next]_vars PROVE Counted'
  OBVIOUS
<1>1. ASSUME NEW c \in Call, Arrive(c) \/ Hangup(c) \/ Answer(c) PROVE Counted'
  BY <1>1, UncountedKeeps DEF Arrive, Hangup, Answer, quota, Counted
<1>2. ASSUME NEW c \in Call, Fail(c) \/ Gone(c) PROVE Counted'
  <2>1. lost' \in 0..MaxLost
    BY <1>2, Bounds DEF Fail, Gone, Counted
  <2> QED
    BY <1>2, <2>1, UncountedKeeps DEF Fail, Gone, quota
<1>3. ASSUME NEW c \in Call, Ask(c) \/ Observe(c) \/ Settle(c) PROVE Counted'
  BY <1>3, AskCounted, ObserveCounted, SettleCounted
<1>4. CASE Refuse
  BY <1>4, UncountedKeeps DEF Refuse, quota, Counted
<1>5. CASE Tick
  BY <1>5, TickCounted
<1>6. CASE UNCHANGED vars
  BY <1>6 DEF vars, Counted
<1> QED
  BY <1>1, <1>2, <1>3, <1>4, <1>5, <1>6, Zenon DEF Next

LEMMA CountedIsTyped == Inv /\ Counted => TypeOK
<1> SUFFICES ASSUME Inv, Counted PROVE TypeOK
  OBVIOUS
<1>1. /\ acct \in [Account -> Entries] /\ budget \in Budgets /\ window \in Budgets
      /\ since \in 0..MaxSince \cup {Unknown} /\ lost \in 0..MaxLost
  BY DEF Counted
<1>2. /\ call \in [Call -> Calls]
      /\ backoff \in 0..MaxBackoff /\ refusing \in 0..MaxBackoff /\ told \in BOOLEAN
  BY DEF Inv, Typed
<1> QED
  BY <1>1, <1>2, Zenon DEF TypeOK, Entries, Budgets, Calls, Answers

----------------------------------------------------------------------------

\* Once a 429 has been heard of, nothing is let through before upstream serves
\* again (on_429 and try_admit of qos.rs): the backoff outlasts the refusal,
\* whatever answers come in late and in whatever order.
THEOREM RefusalRespected == Spec => []QuietWhileRefused
<1>1. Inv => QuietWhileRefused
  BY DEF Inv
<1> QED
  BY <1>1, InitInv, NextInv, PTL DEF Spec

\* What the scheduler counts keeps its types (accrue, charge and settle of
\* qos.rs): a budget or a number of calls never falls below 0, no share is a
\* division by 0, whatever is reported, lost or settled late.
THEOREM TypeCorrect == Spec => []TypeOK
BY InitInv, NextInv, InitCounted, NextCounted, CountedIsTyped, PTL DEF Spec
=============================================================================
