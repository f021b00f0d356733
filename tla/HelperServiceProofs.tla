------------------------- MODULE HelperServiceProofs -------------------------
(***************************************************************************)
(* The privileged helper, proved for any number of callers, calls and      *)
(* snapshots, and any length of the windows: what is done was granted, the *)
(* quota and the limits hold over all callers, and answers are true.       *)
(***************************************************************************)
EXTENDS HelperService, FiniteSetTheorems, SequenceTheorems, WellFoundedInduction, TLAPS

(* The loop that pops expired times ends at the first that is not.         *)
LEMMA LoopEnds ==
  ASSUME NEW s \in Seq(Nat), NEW w \in Nat, clock \in Nat
  PROVE  \E n \in 0..Len(s) :
            /\ \A k \in 1..n : Expired(s[k], w)
            /\ n < Len(s) => ~Expired(s[n + 1], w)
<1> DEFINE K == {k \in 1..Len(s) : ~Expired(s[k], w)}
<1>1. Len(s) \in Nat
  OBVIOUS
<1>2. CASE K = {}
  <2>1. \A k \in 1..Len(s) : Expired(s[k], w)
    BY <1>2
  <2>2. Len(s) \in 0..Len(s) /\ ~(Len(s) < Len(s))
    BY <1>1
  <2> QED BY <2>1, <2>2
<1>3. CASE K # {}
  <2>1. K \subseteq Nat
    BY <1>1
  <2>2. PICK m \in K : \A y \in K : ~(<<y, m>> \in OpToRel(<, Nat))
    BY <1>3, <2>1, NatLessThanWellFounded, WFMin
  <2>3. \A y \in K : ~(y < m)
    BY <2>1, <2>2 DEF OpToRel
  <2>4. m - 1 \in 0..Len(s) /\ (m - 1) + 1 = m
    BY <1>1
  <2>5. \A k \in 1..(m - 1) : Expired(s[k], w)
    BY <1>1, <2>3
  <2> QED BY <2>4, <2>5
<1> QED BY <1>2, <1>3

LEMMA SinceIs ==
  ASSUME NEW s \in Seq(Nat), NEW w \in Nat, clock \in Nat
  PROVE  \E n \in 0..Len(s) :
            /\ \A k \in 1..n : Expired(s[k], w)
            /\ n < Len(s) => ~Expired(s[n + 1], w)
            /\ Since(s, w) = SubSeq(s, n + 1, Len(s))
BY LoopEnds DEF Since

(* A suffix of a sequence, as the one SMT term the proofs below need.      *)
LEMMA SuffixIs ==
  ASSUME NEW T, NEW s \in Seq(T), NEW n \in 0..Len(s)
  PROVE  /\ SubSeq(s, n + 1, Len(s)) \in Seq(T)
         /\ Len(SubSeq(s, n + 1, Len(s))) = Len(s) - n
         /\ \A k \in 1..(Len(s) - n) : SubSeq(s, n + 1, Len(s))[k] = s[n + k]
OBVIOUS

(* What Note keeps of the times, and adds.                                 *)
LEMMA NoteIs ==
  ASSUME NEW T \in SUBSET Nat, NEW s \in Seq(T), NEW w \in Nat, clock \in T
  PROVE  /\ Note(s, w) \in Seq(T)
         /\ \E n \in 0..Len(s) :
               /\ \A k \in 1..n : Expired(s[k], w)
               /\ n < Len(s) => ~Expired(s[n + 1], w)
               /\ Since(s, w) = SubSeq(s, n + 1, Len(s))
               /\ Len(Note(s, w)) = Len(s) - n + 1
               /\ \A k \in 1..(Len(s) - n) : Note(s, w)[k] = s[n + k]
               /\ Note(s, w)[Len(s) - n + 1] = clock
<1>1. s \in Seq(Nat) /\ clock \in Nat
  BY SeqMonotonic
<1>2. PICK n \in 0..Len(s) :
            /\ \A k \in 1..n : Expired(s[k], w)
            /\ n < Len(s) => ~Expired(s[n + 1], w)
            /\ Since(s, w) = SubSeq(s, n + 1, Len(s))
  BY <1>1, SinceIs
<1>3. /\ Since(s, w) \in Seq(T) /\ Len(Since(s, w)) = Len(s) - n
      /\ \A k \in 1..(Len(s) - n) : Since(s, w)[k] = s[n + k]
  BY <1>2, SuffixIs
<1>4. /\ Note(s, w) \in Seq(T) /\ Len(Note(s, w)) = Len(s) - n + 1
      /\ \A k \in 1..(Len(s) - n) : Note(s, w)[k] = s[n + k]
      /\ Note(s, w)[Len(s) - n + 1] = clock
  BY <1>3 DEF Note
<1> QED BY <1>2, <1>4

-----------------------------------------------------------------------------
(* Types.                                                                  *)

LEMMA AssumptionFacts ==
  ASSUME HelperAssumption
  PROVE  /\ Times \subseteq Nat /\ 0 \in Times
         /\ Allowance \in Nat /\ QuotaWindow \in Nat /\ RateWindow \in Nat
         /\ CacheTTL \in Nat /\ LeaseTime \in Nat /\ MaxTime \in Nat
         /\ None \notin Calls /\ None \notin Times /\ None \notin Ids /\ None \notin Callers
         /\ None \notin Answer /\ None \notin Leases
BY DEF HelperAssumption, Times

LEMMA AuthIs ==
  ASSUME NEW m \in AllMethods
  PROVE  /\ Auth(m) \in Seq(Actions) /\ Len(Auth(m)) \in 0..2
         /\ Auth(m) = <<>> <=> Len(Auth(m)) = 0
<1>1. Auth(m) \in {<<>>, <<"create">>, <<"create-personal">>, <<"create-personal", "delete">>,
                   <<"delete">>, <<"configure">>, <<"restore">>, <<"personal-files">>}
  BY Zenon DEF Auth
<1>2. /\ <<>> \in Seq(Actions) /\ <<"create">> \in Seq(Actions)
      /\ <<"create-personal">> \in Seq(Actions) /\ <<"create-personal", "delete">> \in Seq(Actions)
      /\ <<"delete">> \in Seq(Actions) /\ <<"configure">> \in Seq(Actions)
      /\ <<"restore">> \in Seq(Actions) /\ <<"personal-files">> \in Seq(Actions)
  BY DEF Actions
<1>3. Auth(m) \in Seq(Actions)
  BY <1>1, <1>2
<1>4. Len(Auth(m)) \in 0..2
  BY <1>1
<1> QED BY <1>3, <1>4, EmptySeq

(* One call changes, or ends.                                              *)
LEMMA CallChanges ==
  ASSUME NEW c \in Callers, NEW r \in Calls \cup {None}, TypeOK,
         call' = [call EXCEPT ![c] = r]
  PROVE  /\ call' \in [Callers -> Calls \cup {None}] /\ call'[c] = r
         /\ \A d \in Callers \ {c} : call'[d] = call[d]
BY DEF TypeOK

LEMMA Returns ==
  ASSUME NEW c \in Callers, TypeOK, Return(c)
  PROVE  /\ call' \in [Callers -> Calls \cup {None}] /\ call'[c] = None
         /\ granted' \in [Callers -> SUBSET Actions]
         /\ \A d \in Callers \ {c} : call'[d] = call[d] /\ granted'[d] = granted[d]
BY DEF TypeOK, Return

LEMMA StepsTo ==
  ASSUME NEW c \in Callers, NEW pc \in Places, TypeOK, call[c] # None, Step(c, pc)
  PROVE  /\ call' \in [Callers -> Calls \cup {None}]
         /\ call'[c] = [call[c] EXCEPT !.pc = pc] /\ call'[c] \in Calls
         /\ \A d \in Callers \ {c} : call'[d] = call[d]
<1>1. call[c] \in Calls
  BY DEF TypeOK
<1>2. [call[c] EXCEPT !.pc = pc] \in Calls
  BY <1>1 DEF Calls
<1>3. call' = [call EXCEPT ![c] = [call[c] EXCEPT !.pc = pc]]
  BY DEF Step
<1> QED BY <1>2, <1>3, CallChanges

LEMMA InvokeTypes ==
  ASSUME HelperAssumption, TypeOK, NEW c \in Callers, NEW m \in Methods, NEW ids \in SUBSET Ids,
         Invoke(c, m, ids)
  PROVE  /\ TypeOK'
         /\ call'[c] \in Calls
         /\ call'[c] = [m |-> m, ids |-> ids, left |-> ids, need |-> Auth(m), free |-> TRUE,
                        pc |-> IF Auth(m) = <<>> THEN "gate" ELSE "auth"]
         /\ \A d \in Callers \ {c} : call'[d] = call[d]
         /\ log' = [log EXCEPT !.answer = None]
<1> DEFINE r == [m |-> m, ids |-> ids, left |-> ids, need |-> Auth(m), free |-> TRUE,
                 pc |-> IF Auth(m) = <<>> THEN "gate" ELSE "auth"]
<1>1. m \in AllMethods
  BY DEF HelperAssumption
<1>2. r \in Calls
  BY <1>1, AuthIs DEF Calls, Places
<1>3. call' = [call EXCEPT ![c] = r]
  BY DEF Invoke
<1>4. call' \in [Callers -> Calls \cup {None}] /\ call'[c] = r /\ \A d \in Callers \ {c} : call'[d] = call[d]
  BY <1>2, <1>3, CallChanges
<1>5. log' = [log EXCEPT !.answer = None] /\ UNCHANGED <<clock, granted, shared>>
  BY DEF Invoke
<1>6. TypeOK'
  BY <1>4, <1>5 DEF TypeOK, shared
<1> QED BY <1>2, <1>4, <1>5, <1>6

LEMMA GrantTypes ==
  ASSUME HelperAssumption, TypeOK, NEW c \in Callers, Grant(c),
         call[c].need # <<>>
  PROVE  /\ TypeOK'
         /\ call'[c] = [call[c] EXCEPT !.need = Tail(@),
                                       !.pc = IF Len(call[c].need) > 1 THEN "auth"
                                              ELSE IF call[c].free THEN "gate" ELSE "work"]
         /\ call'[c] \in Calls
         /\ granted'[c] = granted[c] \cup {Head(call[c].need)}
         /\ \A d \in Callers \ {c} : call'[d] = call[d] /\ granted'[d] = granted[d]
<1> DEFINE pc == IF Len(call[c].need) > 1 THEN "auth" ELSE IF call[c].free THEN "gate" ELSE "work"
           r == [call[c] EXCEPT !.need = Tail(@), !.pc = pc]
<1>1. call[c] \in Calls
  BY DEF TypeOK, Grant
<1>2. call[c].need \in Seq(Actions)
  BY <1>1 DEF Calls
<1>3. Tail(call[c].need) \in Seq(Actions) /\ Head(call[c].need) \in Actions
  BY <1>2
<1>4. pc \in Places
  BY DEF Places
<1>5. r \in Calls
  BY <1>1, <1>3, <1>4 DEF Calls
<1>6. call' = [call EXCEPT ![c] = r]
  BY DEF Grant
<1>7. call' \in [Callers -> Calls \cup {None}] /\ call'[c] = r /\ \A d \in Callers \ {c} : call'[d] = call[d]
  BY <1>5, <1>6, CallChanges
<1>8. granted' = [granted EXCEPT ![c] = @ \cup {Head(call[c].need)}] /\ UNCHANGED <<clock, log, shared>>
  BY DEF Grant
<1>9. TypeOK'
  BY <1>3, <1>7, <1>8 DEF TypeOK, shared
<1> QED BY <1>5, <1>7, <1>8, <1>9 DEF TypeOK

-----------------------------------------------------------------------------
(* What the parts of the invariant rest on.                                *)

(* Removed snapshots stay removed.                                         *)
AbsentStays == \A i \in Ids : snaps[i] = "absent" => snaps'[i] = "absent"

LEMMA OtherCalls ==
  ASSUME TypeOK, CallsOK, NEW c \in Callers, AbsentStays,
         \A d \in Callers \ {c} : call'[d] = call[d] /\ granted'[d] = granted[d]
  PROVE  \A d \in Callers \ {c} : call'[d] # None => CallOK(d)'
<1> SUFFICES ASSUME NEW d \in Callers \ {c}, call'[d] # None
             PROVE  CallOK(d)'
  OBVIOUS
<1>1. call'[d] = call[d] /\ granted'[d] = granted[d] /\ call[d] \in Calls
  BY DEF TypeOK
<1>2. call[d].ids \subseteq Ids /\ CallOK(d)
  BY <1>1 DEF CallsOK, Calls
<1> QED BY <1>1, <1>2 DEF CallOK, Needs, AbsentStays

LEMMA QuotaFrame ==
  ASSUME HelperAssumption, TypeOK, QuotaOK, UNCHANGED attempts, log'.free = log.free,
         clock' \in Times, clock' >= clock
  PROVE  QuotaOK'
<1>1. /\ log.free \in Seq(Times) /\ clock \in Nat /\ clock' \in Nat /\ QuotaWindow \in Nat
      /\ Times \subseteq Nat
  BY AssumptionFacts DEF TypeOK
<1>2. PICK n \in 0..Len(log.free) :
         /\ attempts = SubSeq(log.free, n + 1, Len(log.free))
         /\ \A k \in 1..n : Expired(log.free[k], QuotaWindow)
  BY DEF QuotaOK
<1>3. ASSUME NEW k \in 1..n PROVE log.free[k] \in Nat
  <2>1. k \in 1..Len(log.free)
    BY <1>1
  <2>2. log.free[k] \in Times
    BY <1>1, <2>1, ElementOfSeq
  <2> QED BY <1>1, <2>2
<1>4. \A k \in 1..n : clock' - log.free[k] >= QuotaWindow
  BY <1>1, <1>2, <1>3 DEF Expired
<1> QED BY <1>2, <1>4 DEF QuotaOK, Expired

LEMMA ApartFrame ==
  ASSUME NEW times \in Seq(Times), NEW w \in Nat, Times \subseteq Nat, clock \in Nat, clock' \in Nat,
         clock' >= clock, Apart(times, w)
  PROVE  \A k \in 1..(Len(times) - 1) : clock' - times[k] >= w
<1>1. ASSUME NEW k \in 1..(Len(times) - 1) PROVE times[k] \in Nat
  <2>1. k \in 1..Len(times)
    OBVIOUS
  <2>2. times[k] \in Times
    BY <2>1, ElementOfSeq
  <2> QED BY <2>2
<1> QED BY <1>1 DEF Apart, Expired

LEMMA LimitFrame ==
  ASSUME HelperAssumption, TypeOK, LimitOK, UNCHANGED limited, log'.limited = log.limited,
         clock' \in Times, clock' >= clock
  PROVE  LimitOK'
<1>1. /\ log.limited \in Seq(Times) /\ clock \in Nat /\ clock' \in Nat /\ RateWindow \in Nat
      /\ Times \subseteq Nat
  BY AssumptionFacts DEF TypeOK
<1>2. \A k \in 1..(Len(log.limited) - 1) : clock' - log.limited[k] >= RateWindow
  BY <1>1, ApartFrame DEF LimitOK
<1> QED BY <1>2 DEF LimitOK, Apart, Expired, NotAfter

(* No call takes up or ends a query.                                       *)
LEMMA CacheFrame ==
  ASSUME HelperAssumption, TypeOK, CacheOK, UNCHANGED <<cache, querying>>,
         log'.queries = log.queries, clock' \in Times, clock' >= clock,
         \A c \in Callers : /\ AskingDisks(c)' <=> AskingDisks(c)
                            /\ In(c, "smart", "work")' <=> In(c, "smart", "work")
                            /\ In(c, "smart", "query")' <=> In(c, "smart", "query")
  PROVE  CacheOK'
<1>1. /\ log.queries \in Seq(Times) /\ clock \in Nat /\ clock' \in Nat /\ CacheTTL \in Nat
      /\ Times \subseteq Nat
  BY AssumptionFacts DEF TypeOK
<1>2. \A k \in 1..(Len(log.queries) - 1) : clock' - log.queries[k] >= CacheTTL
  BY <1>1, ApartFrame DEF CacheOK
<1>3. Apart(log.queries, CacheTTL)'
  BY <1>2 DEF Apart, Expired
<1>a. NotAfter(log.queries, clock)'
  <2>1. ASSUME NEW k \in 1..Len(log.queries) PROVE log.queries[k] <= clock'
    <3>1. log.queries[k] \in Nat
      BY <1>1, ElementOfSeq
    <3>2. log.queries[k] <= clock
      BY DEF CacheOK, NotAfter
    <3> QED BY <1>1, <3>1, <3>2
  <2> QED BY <2>1, AssumptionFacts DEF NotAfter
<1>4. \A c \in Callers : AskingDisks(c)' => call'[c].m = "smart"
  BY DEF CacheOK, AskingDisks, In
<1>5. (\A c \in Callers : ~AskingDisks(c))' => NotAfter(log.queries, cache)'
  BY DEF CacheOK, NotAfter
<1>6. \A c \in Callers : (In(c, "smart", "work") \/ In(c, "smart", "query"))' <=> querying' = c
  BY DEF CacheOK
<1> QED BY <1>3, <1>a, <1>4, <1>5, <1>6 DEF CacheOK

(* The answer is the only part of the log that changes.                    *)
LEMMA AnswerOnly ==
  ASSUME TypeOK, NEW a \in Answer \cup {None}, log' = [log EXCEPT !.answer = a]
  PROVE  /\ log' \in [free : Seq(Times), limited : Seq(Times), queries : Seq(Times),
                      answer : Answer \cup {None}]
         /\ log'.free = log.free /\ log'.limited = log.limited /\ log'.queries = log.queries
         /\ log'.answer = a
BY DEF TypeOK

LEMMA LogSame ==
  ASSUME TypeOK
  PROVE  log.answer \in Answer \cup {None} /\ log = [log EXCEPT !.answer = log.answer]
BY DEF TypeOK

(* A call that ends, other than one that has asked the disks.              *)
LEMMA EndKeeps ==
  ASSUME HelperAssumption, HelperOK, NEW c \in Callers, Return(c), call[c] # None,
         call[c].pc # "query", call[c].m = "smart" => call[c].pc # "work",
         NEW a \in Answer \cup {None}, log' = [log EXCEPT !.answer = a],
         UNCHANGED <<clock, attempts, limited, cache, querying>>,
         snaps' \in [Ids -> {"unused", "ready", "pinned", "absent"}], AbsentStays,
         leases' \in [Callers -> Leases \cup {None}], pending' \in Ids \cup {None}
  PROVE  HelperOK'
<1> USE DEF HelperOK
<1>1. /\ call' \in [Callers -> Calls \cup {None}] /\ call'[c] = None
      /\ granted' \in [Callers -> SUBSET Actions]
      /\ \A d \in Callers \ {c} : call'[d] = call[d] /\ granted'[d] = granted[d]
  BY Returns
<1>2. /\ log' \in [free : Seq(Times), limited : Seq(Times), queries : Seq(Times),
                   answer : Answer \cup {None}]
      /\ log'.free = log.free /\ log'.limited = log.limited /\ log'.queries = log.queries
  BY AnswerOnly
<1>3. TypeOK'
  BY <1>1, <1>2 DEF TypeOK
<1>4. CallsOK'
  BY <1>1, OtherCalls DEF CallsOK
<1>5. clock' \in Times /\ clock' >= clock
  BY AssumptionFacts DEF TypeOK
<1>6. QuotaOK' /\ LimitOK'
  BY <1>2, <1>5, QuotaFrame, LimitFrame
<1>7. \A d \in Callers : /\ AskingDisks(d)' <=> AskingDisks(d)
                         /\ In(d, "smart", "work")' <=> In(d, "smart", "work")
                         /\ In(d, "smart", "query")' <=> In(d, "smart", "query")
  BY <1>1 DEF AskingDisks, In
<1>8. CacheOK'
  BY <1>2, <1>5, <1>7, CacheFrame
<1> QED BY <1>3, <1>4, <1>6, <1>8

-----------------------------------------------------------------------------
(* The methods that end without touching what is limited.                  *)
Ends(c) ==
    \/ Deny(c) \/ LimitRefuses(c) \/ CreateDeployment(c) \/ CreatePersonalSnapshot(c)
    \/ DeleteAnswers(c) \/ DeleteSingle(c) \/ SetPinned(c)
    \/ ScheduleDeploymentRestore(c) \/ SchedulePersonalRestore(c) \/ ScheduleFactoryReset(c)
    \/ CancelRestore(c) \/ Rename(c) \/ Verify(c) \/ Maintenance(c) \/ SavePolicy(c)
    \/ BeginBrowse(c) \/ EndBrowse(c) \/ ListFiles(c)

LEMMA EndsKeep ==
  ASSUME HelperAssumption, HelperOK, NEW c \in Callers, Ends(c)
  PROVE  HelperOK'
<1>1. /\ call[c] # None /\ call[c] \in Calls
      /\ call[c].ids \subseteq Ids /\ call[c].m \in AllMethods
  BY DEF Ends, Deny, LimitRefuses, CreateDeployment, CreatePersonalSnapshot, DeleteAnswers,
     DeleteSingle, SetPinned, ScheduleDeploymentRestore, SchedulePersonalRestore,
     ScheduleFactoryReset, ScheduleRestore, CancelRestore, Rename, Verify, Maintenance, SavePolicy,
     BeginBrowse, EndBrowse, ListFiles, In, HelperOK, TypeOK, Calls, HelperAssumption
<1>2. /\ snaps \in [Ids -> {"unused", "ready", "pinned", "absent"}]
      /\ leases \in [Callers -> Leases \cup {None}] /\ pending \in Ids \cup {None}
      /\ log = [log EXCEPT !.answer = log.answer] /\ log.answer \in Answer \cup {None}
  BY LogSame DEF HelperOK, TypeOK
<1>3. AbsentStays <=> \A i \in Ids : snaps[i] = "absent" => snaps'[i] = "absent"
  BY DEF AbsentStays
<1>4. ASSUME Quietly(c), call[c].pc # "query", call[c].m = "smart" => call[c].pc # "work",
             UNCHANGED <<attempts, limited, cache, querying>>,
             snaps' \in [Ids -> {"unused", "ready", "pinned", "absent"}], AbsentStays,
             leases' \in [Callers -> Leases \cup {None}], pending' \in Ids \cup {None}
      PROVE  HelperOK'
  BY <1>1, <1>2, <1>4, EndKeeps DEF Quietly
<1>5. ASSUME Quietly(c), call[c].pc # "query", call[c].m = "smart" => call[c].pc # "work",
             UNCHANGED shared
      PROVE  HelperOK'
  BY <1>2, <1>4, <1>5 DEF shared, AbsentStays
<1>6. CASE Deny(c) \/ LimitRefuses(c) \/ Rename(c) \/ Verify(c) \/ Maintenance(c) \/ SavePolicy(c)
  BY <1>5, <1>6 DEF Deny, LimitRefuses, Rename, Verify, Maintenance, SavePolicy, In
<1>7. CASE CreateDeployment(c)
  <2>1. /\ Quietly(c) /\ call[c].pc = "work" /\ call[c].m # "smart"
        /\ UNCHANGED <<attempts, limited, leases, cache, querying, pending>>
    BY <1>7 DEF CreateDeployment, In
  <2>2. /\ snaps' \in [Ids -> {"unused", "ready", "pinned", "absent"}]
        /\ \A i \in Ids : snaps[i] = "absent" => snaps'[i] = "absent"
    BY <1>1, <1>2, <1>7 DEF CreateDeployment
  <2> QED BY <1>2, <1>3, <1>4, <2>1, <2>2
<1>8. CASE CreatePersonalSnapshot(c)
  <2>1. /\ Quietly(c) /\ call[c].pc = "work" /\ call[c].m # "smart"
        /\ UNCHANGED <<attempts, limited, leases, cache, querying, pending>>
    BY <1>8 DEF CreatePersonalSnapshot, PersonalCreation
  <2>2. /\ snaps' \in [Ids -> {"unused", "ready", "pinned", "absent"}]
        /\ \A i \in Ids : snaps[i] = "absent" => snaps'[i] = "absent"
    BY <1>1, <1>2, <1>8 DEF CreatePersonalSnapshot
  <2> QED BY <1>2, <1>3, <1>4, <2>1, <2>2
<1>9. CASE SetPinned(c)
  <2>1. /\ Quietly(c) /\ call[c].pc = "work" /\ call[c].m # "smart"
        /\ UNCHANGED <<attempts, limited, leases, cache, querying, pending>>
    BY <1>9 DEF SetPinned
  <2>2. /\ snaps' \in [Ids -> {"unused", "ready", "pinned", "absent"}]
        /\ \A i \in Ids : snaps[i] = "absent" => snaps'[i] = "absent"
    BY <1>1, <1>2, <1>9 DEF SetPinned, Exists
  <2> QED BY <1>2, <1>3, <1>4, <2>1, <2>2
<1>10. CASE ScheduleDeploymentRestore(c) \/ SchedulePersonalRestore(c) \/ ScheduleFactoryReset(c)
  <2>1. /\ Quietly(c) /\ call[c].pc = "work" /\ call[c].m # "smart"
        /\ UNCHANGED <<snaps, attempts, limited, leases, cache, querying>>
        /\ pending' \in Ids \cup {None}
    BY <1>1, <1>2, <1>10 DEF ScheduleDeploymentRestore, SchedulePersonalRestore,
       ScheduleFactoryReset, ScheduleRestore, In
  <2> QED BY <1>2, <1>3, <1>4, <2>1
<1>11. CASE CancelRestore(c)
  BY <1>2, <1>3, <1>4, <1>11 DEF CancelRestore, In
<1>12. CASE BeginBrowse(c)
  <2>1. /\ Quietly(c) /\ call[c].pc = "work" /\ call[c].m # "smart"
        /\ UNCHANGED <<snaps, attempts, limited, cache, querying, pending>>
    BY <1>12 DEF BeginBrowse, In
  <2>2. leases' \in [Callers -> Leases \cup {None}]
    <3>1. ASSUME \E i \in call[c].ids : Exists(i)
          PROVE  [id |-> CHOOSE i \in call[c].ids : Exists(i), until |-> clock + LeaseTime] \in Leases
      <4>1. (CHOOSE i \in call[c].ids : Exists(i)) \in Ids
        BY <1>1, <3>1
      <4>2. clock + LeaseTime \in Nat
        BY AssumptionFacts DEF HelperOK, TypeOK
      <4> QED BY <4>1, <4>2 DEF Leases
    <3> QED BY <1>2, <1>12, <3>1 DEF BeginBrowse
  <2> QED BY <1>2, <1>3, <1>4, <2>1, <2>2
<1>13. CASE EndBrowse(c)
  BY <1>2, <1>3, <1>4, <1>13 DEF EndBrowse, In
<1>14. CASE DeleteAnswers(c) \/ ListFiles(c)
  <2>1. /\ Return(c) /\ call[c].pc = "work" /\ call[c].m # "smart" /\ UNCHANGED <<clock, shared>>
    BY <1>14 DEF DeleteAnswers, Deletion, ListFiles, In
  <2>2. PICK ok \in BOOLEAN : Answers(c, ok)
    BY <1>14 DEF DeleteAnswers, ListFiles
  <2> DEFINE a == [ids |-> call[c].ids, m |-> call[c].m, ok |-> ok]
  <2>3. a \in Answer /\ log' = [log EXCEPT !.answer = a]
    BY <1>1, <2>2 DEF Answers, Answer
  <2> QED BY <1>1, <1>2, <1>3, <2>1, <2>3, EndKeeps DEF shared
<1>15. CASE DeleteSingle(c)
  <2>1. /\ Return(c) /\ call[c].pc = "work" /\ call[c].m # "smart"
        /\ UNCHANGED <<clock, attempts, limited, leases, cache, querying, pending>>
    BY <1>15 DEF DeleteSingle, In
  <2>2. PICK i \in call[c].ids :
           /\ snaps' = IF Deletable(i) THEN [snaps EXCEPT ![i] = "absent"] ELSE snaps
           /\ log' = [log EXCEPT !.answer = [ids |-> {i}, m |-> "delete_deployments",
                                             ok |-> Deletable(i)]]
    BY <1>15 DEF DeleteSingle
  <2>3. [ids |-> {i}, m |-> "delete_deployments", ok |-> Deletable(i)] \in Answer
    BY <1>1 DEF Answer, AllMethods, Deletable
  <2>4. /\ snaps' \in [Ids -> {"unused", "ready", "pinned", "absent"}]
        /\ \A j \in Ids : snaps[j] = "absent" => snaps'[j] = "absent"
    BY <1>2, <2>2
  <2> QED BY <1>1, <1>2, <1>3, <2>1, <2>2, <2>3, <2>4, EndKeeps
<1> QED BY <1>6, <1>7, <1>8, <1>9, <1>10, <1>11, <1>12, <1>13, <1>14, <1>15 DEF Ends

-----------------------------------------------------------------------------
(* The steps of a call that goes on.                                       *)

LEMMA StepCalls ==
  ASSUME TypeOK, CallsOK, NEW c \in Callers, NEW pc \in Places \ {"auth"},
         call[c] # None, call[c].pc # "auth", Step(c, pc), UNCHANGED <<granted, snaps>>
  PROVE  CallsOK'
<1>1. /\ call'[c] = [call[c] EXCEPT !.pc = pc] /\ call[c] \in Calls
      /\ \A d \in Callers \ {c} : call'[d] = call[d]
  BY StepsTo DEF TypeOK
<1>2. /\ call'[c].m = call[c].m /\ call'[c].need = call[c].need /\ call'[c].pc = pc
      /\ call'[c].left = call[c].left /\ call'[c].ids = call[c].ids
  BY <1>1 DEF Calls
<1>3. CallOK(c)'
  BY <1>2 DEF CallsOK, CallOK, Needs
<1>4. \A d \in Callers \ {c} : call'[d] # None => CallOK(d)'
  BY <1>1, OtherCalls DEF AbsentStays
<1> QED BY <1>3, <1>4 DEF CallsOK

(* For the cache it matters who is about to ask, or asks, the disks.       *)
LEMMA StepCache ==
  ASSUME HelperAssumption, TypeOK, CacheOK, NEW c \in Callers, NEW pc \in Places,
         call[c] # None, call[c].m # "smart", pc # "query",
         call'[c] \in Calls, call'[c].m = call[c].m, call'[c].pc = pc,
         \A d \in Callers \ {c} : call'[d] = call[d],
         log'.queries = log.queries, UNCHANGED <<clock, cache, querying>>
  PROVE  CacheOK'
<1>1. clock' \in Times /\ clock' >= clock
  BY AssumptionFacts DEF TypeOK
<1>2. \A d \in Callers : /\ AskingDisks(d)' <=> AskingDisks(d)
                         /\ In(d, "smart", "work")' <=> In(d, "smart", "work")
                         /\ In(d, "smart", "query")' <=> In(d, "smart", "query")
  BY DEF CacheOK, AskingDisks, In
<1> QED BY <1>1, <1>2, CacheFrame

LEMMA InvokeKeeps ==
  ASSUME HelperAssumption, HelperOK, NEW c \in Callers, NEW m \in Methods, NEW ids \in SUBSET Ids,
         Invoke(c, m, ids)
  PROVE  HelperOK'
<1> USE DEF HelperOK
<1>1. /\ TypeOK' /\ call'[c] \in Calls
      /\ call'[c] = [m |-> m, ids |-> ids, left |-> ids, need |-> Auth(m), free |-> TRUE,
                     pc |-> IF Auth(m) = <<>> THEN "gate" ELSE "auth"]
      /\ \A d \in Callers \ {c} : call'[d] = call[d]
      /\ log' = [log EXCEPT !.answer = None]
  BY InvokeTypes
<1>2. UNCHANGED <<clock, granted, shared>> /\ call[c] = None
  BY DEF Invoke
<1>3. /\ log'.free = log.free /\ log'.limited = log.limited /\ log'.queries = log.queries
  BY <1>1, AnswerOnly
<1>4. CallOK(c)'
  <2>1. /\ call'[c].m = m /\ call'[c].need = Auth(m) /\ call'[c].left = ids /\ call'[c].ids = ids
        /\ call'[c].pc = IF Auth(m) = <<>> THEN "gate" ELSE "auth"
    BY <1>1
  <2>2. Needs(c)' = Asks(m)
    BY <2>1 DEF Needs, Asks
  <2>3. Auth(m) = <<>> => Asks(m) = {}
    BY EmptySeq DEF Asks
  <2>4. /\ Asks(call'[c].m) = Asks(m)
        /\ call'[c].pc = "auth" => call'[c].need # <<>>
        /\ call'[c].pc # "auth" => Asks(m) = {}
    BY <2>1, <2>3
  <2>5. m = "smart" => Auth(m) = <<>>
    BY DEF Auth
  <2> QED BY <2>1, <2>2, <2>4, <2>5 DEF CallOK
<1>5. \A d \in Callers \ {c} : call'[d] # None => CallOK(d)'
  BY <1>1, <1>2, OtherCalls DEF AbsentStays, shared
<1>6. CallsOK'
  BY <1>4, <1>5 DEF CallsOK
<1>7. clock' \in Times /\ clock' >= clock
  BY <1>2, AssumptionFacts DEF TypeOK
<1>8. QuotaOK' /\ LimitOK'
  BY <1>2, <1>3, <1>7, QuotaFrame, LimitFrame DEF shared
<1>9. \A d \in Callers : /\ AskingDisks(d)' <=> AskingDisks(d)
                         /\ In(d, "smart", "work")' <=> In(d, "smart", "work")
                         /\ In(d, "smart", "query")' <=> In(d, "smart", "query")
  BY <1>1, <1>2 DEF AskingDisks, In
<1>10. CacheOK'
  BY <1>2, <1>3, <1>7, <1>9, CacheFrame DEF shared
<1> QED BY <1>1, <1>6, <1>8, <1>10

LEMMA Rest ==
  ASSUME NEW s \in Seq(Actions), s # <<>>
  PROVE  /\ Len(s) > 1 \/ Len(s) = 1
         /\ Len(s) > 1 => Tail(s) # <<>>
         /\ \A k \in 1..Len(s) : k = 1 \/ \E j \in 1..Len(Tail(s)) : Tail(s)[j] = s[k]
         /\ Len(s) = 1 => Len(Tail(s)) = 0
         /\ Head(s) = s[1]
<1>1. Len(s) \in Nat /\ Len(s) # 0
  BY EmptySeq
<1>2. Len(Tail(s)) = Len(s) - 1 /\ \A j \in 1..(Len(s) - 1) : Tail(s)[j] = s[j + 1]
  BY HeadTailProperties
<1>3. Len(s) > 1 => Tail(s) # <<>>
  <2>1. Len(s) > 1 => Len(Tail(s)) # 0
    BY <1>1, <1>2
  <2>2. Len(<<>>) = 0
    BY EmptySeq
  <2> QED BY <2>1, <2>2
<1>4. ASSUME NEW k \in 1..Len(s), k # 1
      PROVE  \E j \in 1..Len(Tail(s)) : Tail(s)[j] = s[k]
  <2>1. k - 1 \in 1..Len(Tail(s)) /\ Tail(s)[k - 1] = s[k]
    BY <1>1, <1>2, <1>4
  <2> QED BY <2>1
<1>5. Head(s) = s[1]
  OBVIOUS
<1> QED BY <1>1, <1>2, <1>3, <1>4, <1>5

LEMMA GrantKeeps ==
  ASSUME HelperAssumption, HelperOK, NEW c \in Callers, Grant(c)
  PROVE  HelperOK'
<1> USE DEF HelperOK
<1> DEFINE need == call[c].need
<1>1. /\ call[c] # None /\ call[c].pc = "auth" /\ CallOK(c) /\ need # <<>> /\ need \in Seq(Actions)
      /\ call[c] \in Calls
  BY DEF Grant, CallsOK, CallOK, TypeOK, Calls
<1>2. /\ TypeOK' /\ call'[c] \in Calls
      /\ call'[c] = [call[c] EXCEPT !.need = Tail(@),
                                    !.pc = IF Len(call[c].need) > 1 THEN "auth"
                                           ELSE IF call[c].free THEN "gate" ELSE "work"]
      /\ granted'[c] = granted[c] \cup {Head(need)}
      /\ \A d \in Callers \ {c} : call'[d] = call[d] /\ granted'[d] = granted[d]
  BY <1>1, GrantTypes
<1>3. UNCHANGED <<clock, log, shared>>
  BY DEF Grant
<1>4. /\ call'[c].m = call[c].m /\ call'[c].need = Tail(need)
      /\ call'[c].pc = IF Len(need) > 1 THEN "auth" ELSE IF call[c].free THEN "gate" ELSE "work"
      /\ call'[c].left = call[c].left /\ call'[c].ids = call[c].ids
  BY <1>1, <1>2 DEF Calls
<1>5. /\ Len(need) > 1 \/ Len(need) = 1
      /\ Len(need) > 1 => Tail(need) # <<>>
      /\ \A k \in 1..Len(need) : k = 1 \/ \E j \in 1..Len(Tail(need)) : Tail(need)[j] = need[k]
      /\ Len(need) = 1 => Len(Tail(need)) = 0
      /\ Head(need) = need[1]
  BY <1>1, Rest
<1>6. Needs(c) \subseteq {Head(need)} \cup Needs(c)'
  BY <1>4, <1>5 DEF Needs
<1>7. Len(need) = 1 => Needs(c)' = {}
  BY <1>4, <1>5 DEF Needs
<1>8. CallOK(c)'
  <2>1. Asks(call[c].m) \subseteq granted'[c] \cup Needs(c)'
    BY <1>1, <1>2, <1>6 DEF CallOK
  <2>a. call'[c].pc = "auth" <=> Len(need) > 1
    BY <1>4
  <2>2. call'[c].pc = "auth" => Tail(need) # <<>> /\ call[c].m # "smart"
    BY <1>1, <1>5, <2>a DEF CallOK
  <2>3. call'[c].pc # "auth" => Asks(call[c].m) \subseteq granted'[c]
    <3>1. call'[c].pc # "auth" => Len(need) = 1
      BY <1>5, <2>a
    <3> QED BY <1>7, <2>1, <3>1
  <2> QED BY <1>1, <1>3, <1>4, <2>1, <2>2, <2>3 DEF CallOK, shared
<1>9. \A d \in Callers \ {c} : call'[d] # None => CallOK(d)'
  BY <1>2, <1>3, OtherCalls DEF AbsentStays, shared
<1>10. CallsOK'
  BY <1>8, <1>9 DEF CallsOK
<1>11. clock' \in Times /\ clock' >= clock
  BY <1>3, AssumptionFacts DEF TypeOK
<1>12. QuotaOK' /\ LimitOK'
  BY <1>3, <1>11, QuotaFrame, LimitFrame DEF shared
<1>13. \A d \in Callers : /\ AskingDisks(d)' <=> AskingDisks(d)
                          /\ In(d, "smart", "work")' <=> In(d, "smart", "work")
                          /\ In(d, "smart", "query")' <=> In(d, "smart", "query")
  BY <1>1, <1>2, <1>4 DEF AskingDisks, In, CallOK
<1>14. CacheOK'
  BY <1>3, <1>11, <1>13, CacheFrame DEF shared
<1> QED BY <1>2, <1>10, <1>12, <1>14

LEMMA GatelessKeeps ==
  ASSUME HelperAssumption, HelperOK, NEW c \in Callers, Gateless(c)
  PROVE  HelperOK'
<1> USE DEF HelperOK
<1>1. /\ call[c] # None /\ call[c].pc = "gate" /\ call[c].m # "smart"
      /\ Step(c, "work") /\ UNCHANGED <<clock, granted, log, shared>>
  BY DEF Gateless
<1>2. /\ call' \in [Callers -> Calls \cup {None}]
      /\ call'[c] = [call[c] EXCEPT !.pc = "work"] /\ call'[c] \in Calls
      /\ \A d \in Callers \ {c} : call'[d] = call[d]
  BY <1>1, StepsTo DEF Places
<1>3. call'[c].m = call[c].m /\ call'[c].pc = "work"
  BY <1>2 DEF Calls
<1>4. TypeOK'
  BY <1>1, <1>2 DEF TypeOK, shared
<1>5. CallsOK'
  BY <1>1, StepCalls DEF Places, shared
<1>6. clock' \in Times /\ clock' >= clock
  BY <1>1, AssumptionFacts DEF TypeOK
<1>7. QuotaOK' /\ LimitOK'
  BY <1>1, <1>6, QuotaFrame, LimitFrame DEF shared
<1>8. CacheOK'
  BY <1>1, <1>2, <1>3, StepCache DEF Places, shared
<1> QED BY <1>4, <1>5, <1>7, <1>8

(* All the times noted before are out of the window.                       *)
LEMMA NotedApart ==
  ASSUME HelperAssumption, NEW times \in Seq(Times), NEW w \in Nat, clock \in Times,
         \A k \in 1..Len(times) : Expired(times[k], w)
  PROVE  /\ Note(times, w) \in Seq(Times)
         /\ Apart(Note(times, w), w)
         /\ \A k \in 1..Len(Note(times, w)) : Note(times, w)[k] <= clock
<1>1. Times \in SUBSET Nat /\ clock \in Nat
  BY AssumptionFacts
<1>2. PICK n \in 0..Len(times) :
         /\ n < Len(times) => ~Expired(times[n + 1], w)
         /\ Len(Note(times, w)) = Len(times) - n + 1
         /\ Note(times, w)[Len(times) - n + 1] = clock
  <2>1. \E n \in 0..Len(times) :
           /\ \A k \in 1..n : Expired(times[k], w)
           /\ n < Len(times) => ~Expired(times[n + 1], w)
           /\ Since(times, w) = SubSeq(times, n + 1, Len(times))
           /\ Len(Note(times, w)) = Len(times) - n + 1
           /\ \A k \in 1..(Len(times) - n) : Note(times, w)[k] = times[n + k]
           /\ Note(times, w)[Len(times) - n + 1] = clock
    BY ONLY <1>1, NoteIs, times \in Seq(Times), w \in Nat, clock \in Times
  <2> QED BY ONLY <2>1
<1>3. n = Len(times)
  <2>1. n < Len(times) => n + 1 \in 1..Len(times)
    OBVIOUS
  <2> QED BY <1>2, <2>1
<1>4. Len(Note(times, w)) = 1 /\ Note(times, w)[1] = clock
  BY <1>2, <1>3
<1>5. Note(times, w) \in Seq(Times)
  BY <1>1, NoteIs
<1> QED BY <1>1, <1>4, <1>5 DEF Apart

LEMMA AllExpired ==
  ASSUME HelperAssumption, NEW times \in Seq(Times), NEW w \in Nat, clock \in Times,
         NEW last \in Times \cup {None}, NotAfter(times, last),
         last # None => clock - last >= w
  PROVE  \A k \in 1..Len(times) : Expired(times[k], w)
<1> SUFFICES ASSUME NEW k \in 1..Len(times)
             PROVE  Expired(times[k], w)
  OBVIOUS
<1>1. Times \subseteq Nat /\ times[k] \in Times
  BY AssumptionFacts, ElementOfSeq
<1>2. /\ last \in Nat /\ times[k] <= last /\ clock - last >= w
      /\ times[k] \in Nat /\ clock \in Nat
  BY <1>1 DEF NotAfter
<1>3. clock - times[k] >= w
  BY <1>2
<1> QED BY <1>3 DEF Expired

LEMMA LimitPassesKeeps ==
  ASSUME HelperAssumption, HelperOK, NEW c \in Callers, LimitPasses(c)
  PROVE  HelperOK'
<1> USE DEF HelperOK
<1>1. /\ call[c] # None /\ call[c].pc = "gate" /\ call[c].m = "create_deployment" /\ RateAllows
      /\ limited' = clock /\ Step(c, "work")
      /\ log' = [log EXCEPT !.limited = Note(log.limited, RateWindow)]
      /\ UNCHANGED <<clock, granted, snaps, attempts, leases, cache, querying, pending>>
  BY DEF LimitPasses, In
<1>2. /\ call' \in [Callers -> Calls \cup {None}]
      /\ call'[c] = [call[c] EXCEPT !.pc = "work"] /\ call'[c] \in Calls
      /\ \A d \in Callers \ {c} : call'[d] = call[d]
  BY <1>1, StepsTo DEF Places
<1>3. call'[c].m = call[c].m /\ call'[c].pc = "work"
  BY <1>2 DEF Calls
<1>4. /\ log.limited \in Seq(Times) /\ RateWindow \in Nat /\ clock \in Times
      /\ limited \in Times \cup {None} /\ Times \subseteq Nat
  BY AssumptionFacts DEF TypeOK
<1>5. \A k \in 1..Len(log.limited) : Expired(log.limited[k], RateWindow)
  <2>1. limited # None => clock - limited >= RateWindow
    BY <1>1, <1>4 DEF RateAllows
  <2> QED BY <1>4, <2>1, AllExpired DEF LimitOK
<1>6. /\ Note(log.limited, RateWindow) \in Seq(Times)
      /\ Apart(Note(log.limited, RateWindow), RateWindow)
      /\ \A k \in 1..Len(Note(log.limited, RateWindow)) : Note(log.limited, RateWindow)[k] <= clock
  BY <1>4, <1>5, NotedApart
<1>7. /\ log' \in [free : Seq(Times), limited : Seq(Times), queries : Seq(Times),
                   answer : Answer \cup {None}]
      /\ log'.limited = Note(log.limited, RateWindow)
      /\ log'.free = log.free /\ log'.queries = log.queries
  BY <1>1, <1>6 DEF TypeOK
<1>8. TypeOK'
  BY <1>1, <1>2, <1>7 DEF TypeOK
<1>9. CallsOK'
  BY <1>1, StepCalls DEF Places
<1>10. clock' \in Times /\ clock' >= clock
  BY <1>1, AssumptionFacts DEF TypeOK
<1>11. QuotaOK'
  BY <1>1, <1>7, <1>10, QuotaFrame
<1>12. LimitOK'
  BY <1>1, <1>4, <1>6, <1>7, AssumptionFacts DEF LimitOK, Apart, NotAfter, Expired
<1>13. CacheOK'
  BY <1>1, <1>2, <1>3, <1>7, StepCache DEF Places
<1> QED BY <1>8, <1>9, <1>11, <1>12, <1>13

(* The quota after the loop still holds all that is in the window.         *)
LEMMA RecentIs ==
  ASSUME HelperAssumption, TypeOK, QuotaOK
  PROVE  /\ Recent \in Seq(Times) /\ Len(Recent) <= Len(attempts)
         /\ \E n \in 0..Len(log.free) :
               /\ Recent = SubSeq(log.free, n + 1, Len(log.free))
               /\ \A k \in 1..n : Expired(log.free[k], QuotaWindow)
               /\ n < Len(log.free) => ~Expired(log.free[n + 1], QuotaWindow)
<1> DEFINE f == log.free
<1>1. /\ f \in Seq(Times) /\ attempts \in Seq(Times) /\ attempts \in Seq(Nat)
      /\ clock \in Nat /\ QuotaWindow \in Nat /\ Len(f) \in Nat
  BY AssumptionFacts, SeqMonotonic DEF TypeOK
<1>2. PICK n \in 0..Len(f) :
         /\ attempts = SubSeq(f, n + 1, Len(f))
         /\ \A k \in 1..n : Expired(f[k], QuotaWindow)
  BY DEF QuotaOK
<1>3. /\ Len(attempts) = Len(f) - n
      /\ \A k \in 1..(Len(f) - n) : attempts[k] = f[n + k]
  BY <1>1, <1>2, SuffixIs
<1>4. PICK m \in 0..Len(attempts) :
         /\ \A k \in 1..m : Expired(attempts[k], QuotaWindow)
         /\ m < Len(attempts) => ~Expired(attempts[m + 1], QuotaWindow)
         /\ Recent = SubSeq(attempts, m + 1, Len(attempts))
  BY <1>1, SinceIs DEF Recent
<1>5. /\ Recent \in Seq(Times) /\ Len(Recent) = Len(attempts) - m
      /\ \A k \in 1..(Len(attempts) - m) : Recent[k] = attempts[m + k]
  BY <1>1, <1>4, SuffixIs
<1> DEFINE g == SubSeq(f, n + m + 1, Len(f))
<1>6. n + m \in 0..Len(f)
  BY <1>1, <1>3
<1>7. /\ g \in Seq(Times) /\ Len(g) = Len(f) - (n + m)
      /\ \A k \in 1..(Len(f) - (n + m)) : g[k] = f[n + m + k]
  BY <1>1, <1>6, SuffixIs
<1>8. Recent = g
  <2>1. Len(Recent) = Len(g)
    BY <1>1, <1>3, <1>5, <1>7
  <2>2. ASSUME NEW k \in 1..Len(Recent) PROVE Recent[k] = g[k]
    <3>1. /\ k \in 1..(Len(attempts) - m) /\ m + k \in 1..(Len(f) - n)
          /\ k \in 1..(Len(f) - (n + m)) /\ n + (m + k) = n + m + k
      BY <1>1, <1>3, <1>5
    <3>2. Recent[k] = attempts[m + k] /\ attempts[m + k] = f[n + (m + k)] /\ g[k] = f[n + m + k]
      BY <1>3, <1>5, <1>7, <3>1
    <3> QED BY <3>1, <3>2
  <2> QED BY <1>5, <1>7, <2>1, <2>2, SeqEqual
<1>9. ASSUME NEW k \in 1..(n + m) PROVE Expired(f[k], QuotaWindow)
  <2>1. CASE k <= n
    BY <1>2, <2>1
  <2>2. CASE k > n
    <3>1. k - n \in 1..m /\ k - n \in 1..(Len(f) - n) /\ n + (k - n) = k
      BY <1>1, <1>3, <2>2
    <3> QED BY <1>3, <1>4, <3>1
  <2> QED BY <2>1, <2>2
<1>10. ASSUME n + m < Len(f) PROVE ~Expired(f[n + m + 1], QuotaWindow)
  <2>1. m < Len(attempts) /\ m + 1 \in 1..(Len(f) - n) /\ n + (m + 1) = n + m + 1
    BY <1>1, <1>3, <1>10
  <2> QED BY <1>3, <1>4, <2>1
<1>11. Len(Recent) <= Len(attempts)
  BY <1>1, <1>3, <1>5
<1> QED BY <1>5, <1>6, <1>8, <1>9, <1>10, <1>11

(* After a slot was taken, the quota and the history of slots agree.       *)
LEMMA SlotTaken ==
  ASSUME HelperAssumption, TypeOK, QuotaOK
  PROVE  Note(log.free, QuotaWindow) = Append(Recent, clock)
<1> DEFINE f == log.free
<1>1. f \in Seq(Nat) /\ f \in Seq(Times) /\ clock \in Nat /\ QuotaWindow \in Nat /\ Len(f) \in Nat
  BY AssumptionFacts, SeqMonotonic DEF TypeOK
<1>2. PICK n \in 0..Len(f) :
         /\ Recent = SubSeq(f, n + 1, Len(f))
         /\ \A k \in 1..n : Expired(f[k], QuotaWindow)
         /\ n < Len(f) => ~Expired(f[n + 1], QuotaWindow)
  BY RecentIs
<1>3. PICK b \in 0..Len(f) :
         /\ \A k \in 1..b : Expired(f[k], QuotaWindow)
         /\ b < Len(f) => ~Expired(f[b + 1], QuotaWindow)
         /\ Since(f, QuotaWindow) = SubSeq(f, b + 1, Len(f))
  BY <1>1, SinceIs
<1>4. n = b
  <2>1. CASE n < b
    <3>1. n + 1 \in 1..b /\ n < Len(f)
      BY <1>1, <2>1
    <3> QED BY <1>2, <1>3, <3>1
  <2>2. CASE b < n
    <3>1. b + 1 \in 1..n /\ b < Len(f)
      BY <1>1, <2>2
    <3> QED BY <1>2, <1>3, <3>1
  <2> QED BY <1>1, <2>1, <2>2
<1> QED BY <1>2, <1>3, <1>4 DEF Note

LEMMA ReserveKeeps ==
  ASSUME HelperAssumption, HelperOK, NEW c \in Callers, Reserve(c)
  PROVE  HelperOK'
<1> USE DEF HelperOK
<1>1. /\ call[c] # None /\ call[c].m \in PersonalCreation /\ call[c].pc = "gate" /\ call[c].m # "smart"
      /\ call[c].m \notin Deletion /\ call[c] \in Calls /\ CallOK(c)
      /\ UNCHANGED <<clock, granted, snaps, limited, leases, cache, querying, pending>>
  BY DEF Reserve, PersonalCreation, Deletion, TypeOK, CallsOK
<1>2. /\ log.free \in Seq(Times) /\ clock \in Times /\ Times \in SUBSET Nat /\ QuotaWindow \in Nat
      /\ Allowance \in Nat /\ clock \in Nat
  BY AssumptionFacts DEF TypeOK
<1>3. Recent \in Seq(Times) /\ Len(Recent) <= Len(attempts) /\ Len(Recent) \in Nat /\ Len(attempts) \in Nat
  BY RecentIs DEF TypeOK
<1>4. clock' \in Times /\ clock' >= clock
  BY <1>1, <1>2
<1>5. CASE Len(Recent) < Allowance
  <2>1. /\ attempts' = Append(Recent, clock) /\ Step(c, "work")
        /\ log' = [log EXCEPT !.free = Note(log.free, QuotaWindow)]
    BY <1>5 DEF Reserve
  <2>2. /\ attempts' = Note(log.free, QuotaWindow) /\ attempts' \in Seq(Times)
        /\ Len(attempts') = Len(Recent) + 1
    BY <1>2, <1>3, <2>1, SlotTaken, NoteIs
  <2>3. /\ call' \in [Callers -> Calls \cup {None}]
        /\ call'[c] = [call[c] EXCEPT !.pc = "work"] /\ call'[c] \in Calls
        /\ \A d \in Callers \ {c} : call'[d] = call[d]
    BY <1>1, <2>1, StepsTo DEF Places
  <2>4. call'[c].m = call[c].m /\ call'[c].pc = "work"
    BY <2>3 DEF Calls
  <2>5. /\ log' \in [free : Seq(Times), limited : Seq(Times), queries : Seq(Times),
                     answer : Answer \cup {None}]
        /\ log'.free = attempts' /\ log'.limited = log.limited /\ log'.queries = log.queries
    BY <2>1, <2>2 DEF TypeOK
  <2>6. Len(attempts') <= Allowance
    BY <1>2, <1>3, <1>5, <2>2
  <2>7. TypeOK'
    BY <1>1, <2>2, <2>3, <2>5, <2>6 DEF TypeOK
  <2>8. CallsOK'
    BY <1>1, <2>1, StepCalls DEF Places
  <2>9. QuotaOK'
    <3>1. 0 \in 0..Len(attempts') /\ attempts' = SubSeq(attempts', 0 + 1, Len(attempts'))
      BY <2>2
    <3> QED BY <2>5, <3>1 DEF QuotaOK
  <2>10. LimitOK'
    BY <1>1, <1>4, <2>5, LimitFrame
  <2>11. CacheOK'
    BY <1>1, <2>3, <2>4, <2>5, StepCache DEF Places
  <2> QED BY <2>7, <2>8, <2>9, <2>10, <2>11
<1>6. CASE ~(Len(Recent) < Allowance)
  <2> DEFINE r == [call[c] EXCEPT !.pc = "auth", !.need = <<"override">>, !.free = FALSE]
  <2>1. attempts' = Recent /\ call' = [call EXCEPT ![c] = r] /\ UNCHANGED log
    BY <1>6 DEF Reserve
  <2>2. r \in Calls
    <3>1. <<"override">> \in Seq(Actions)
      BY DEF Actions
    <3> QED BY <1>1, <3>1 DEF Calls, Places
  <2>3. /\ call' \in [Callers -> Calls \cup {None}] /\ call'[c] = r
        /\ \A d \in Callers \ {c} : call'[d] = call[d]
    BY <2>1, <2>2, CallChanges
  <2>4. /\ call'[c].m = call[c].m /\ call'[c].pc = "auth" /\ call'[c].need = <<"override">>
        /\ call'[c].left = call[c].left /\ call'[c].ids = call[c].ids
    BY <1>1, <2>3 DEF Calls
  <2>5. TypeOK'
    <3>1. Len(attempts') <= Allowance
      BY <1>2, <1>3, <2>1 DEF TypeOK
    <3> QED BY <1>1, <1>3, <2>1, <2>3, <3>1 DEF TypeOK
  <2>6. CallOK(c)'
    <3>1. <<"override">> # <<>>
      OBVIOUS
    <3> QED BY <1>1, <2>4, <3>1 DEF CallOK
  <2>7. \A d \in Callers \ {c} : call'[d] # None => CallOK(d)'
    BY <1>1, <2>3, OtherCalls DEF AbsentStays
  <2>8. CallsOK'
    BY <2>6, <2>7 DEF CallsOK
  <2>9. QuotaOK'
    BY <1>1, <2>1, RecentIs DEF QuotaOK, Expired
  <2>10. LimitOK'
    BY <1>1, <1>4, <2>1, LimitFrame
  <2>11. CacheOK'
    BY <1>1, <2>1, <2>2, <2>3, <2>4, StepCache DEF Places
  <2> QED BY <2>5, <2>8, <2>9, <2>10, <2>11
<1> QED BY <1>5, <1>6

LEMMA DeleteOneKeeps ==
  ASSUME HelperAssumption, HelperOK, NEW c \in Callers, DeleteOne(c)
  PROVE  HelperOK'
<1> USE DEF HelperOK
<1>1. PICK i \in call[c].left :
         /\ snaps' = [snaps EXCEPT ![i] = "absent"]
         /\ call' = [call EXCEPT ![c].left = @ \ {i}]
  BY DEF DeleteOne
<1>2. /\ call[c] # None /\ call[c].m \in Deletion /\ call[c].m # "smart" /\ call[c].pc = "work"
      /\ call[c] \in Calls /\ CallOK(c)
      /\ UNCHANGED <<clock, granted, log, attempts, limited, leases, cache, querying, pending>>
  BY DEF DeleteOne, Deletion, TypeOK, CallsOK
<1> DEFINE r == [call[c] EXCEPT !.left = @ \ {i}]
<1>3. r \in Calls /\ i \in Ids
  BY <1>2 DEF Calls
<1>4. /\ call' \in [Callers -> Calls \cup {None}] /\ call'[c] = r
      /\ \A d \in Callers \ {c} : call'[d] = call[d]
  BY <1>1, <1>3, CallChanges
<1>5. /\ call'[c].m = call[c].m /\ call'[c].pc = "work" /\ call'[c].need = call[c].need
      /\ call'[c].left = call[c].left \ {i} /\ call'[c].ids = call[c].ids
  BY <1>2, <1>4 DEF Calls
<1>6. /\ snaps' \in [Ids -> {"unused", "ready", "pinned", "absent"}] /\ snaps'[i] = "absent"
      /\ \A j \in Ids : snaps[j] = "absent" => snaps'[j] = "absent"
  BY <1>1, <1>3 DEF TypeOK
<1>7. TypeOK'
  BY <1>2, <1>4, <1>6 DEF TypeOK
<1>8. CallOK(c)'
  <2>1. call[c].ids \subseteq Ids
    BY <1>2 DEF Calls
  <2>2. \A j \in call[c].ids \ (call[c].left \ {i}) : snaps'[j] = "absent"
    BY <1>2, <1>6, <2>1 DEF CallOK
  <2> QED BY <1>2, <1>5, <2>2 DEF CallOK, Needs
<1>9. \A d \in Callers \ {c} : call'[d] # None => CallOK(d)'
  BY <1>2, <1>4, <1>6, OtherCalls DEF AbsentStays
<1>10. CallsOK'
  BY <1>8, <1>9 DEF CallsOK
<1>11. clock' \in Times /\ clock' >= clock
  BY <1>2, AssumptionFacts DEF TypeOK
<1>12. QuotaOK' /\ LimitOK'
  BY <1>2, <1>11, QuotaFrame, LimitFrame
<1>13. CacheOK'
  BY <1>2, <1>3, <1>4, <1>5, StepCache DEF Places
<1> QED BY <1>7, <1>10, <1>12, <1>13

-----------------------------------------------------------------------------
(* The cache of S.M.A.R.T. results.                                        *)

(* A call of the cache moves; everything but the cache stays as it is.     *)
LEMMA SmartFrame ==
  ASSUME HelperAssumption, HelperOK, UNCHANGED <<clock, snaps, attempts, limited, leases, pending>>,
         log'.free = log.free, log'.limited = log.limited
  PROVE  QuotaOK' /\ LimitOK'
BY AssumptionFacts, QuotaFrame, LimitFrame DEF HelperOK, TypeOK

LEMMA SmartLockKeeps ==
  ASSUME HelperAssumption, HelperOK, NEW c \in Callers, SmartLock(c)
  PROVE  HelperOK'
<1> USE DEF HelperOK
<1>1. /\ call[c] # None /\ call[c].m = "smart" /\ call[c].pc = "gate" /\ querying = None
      /\ querying' = c /\ Step(c, "work")
      /\ UNCHANGED <<clock, granted, log, snaps, attempts, limited, leases, cache, pending>>
  BY DEF SmartLock, In
<1>2. /\ call' \in [Callers -> Calls \cup {None}]
      /\ call'[c] = [call[c] EXCEPT !.pc = "work"] /\ call'[c] \in Calls
      /\ \A d \in Callers \ {c} : call'[d] = call[d]
  BY <1>1, StepsTo DEF Places
<1>3. call'[c].m = "smart" /\ call'[c].pc = "work" /\ call'[c] # None
  BY <1>1, <1>2, AssumptionFacts DEF Calls
<1>4. TypeOK'
  BY <1>1, <1>2 DEF TypeOK
<1>5. CallsOK'
  BY <1>1, StepCalls DEF Places
<1>6. \A d \in Callers : d # None
  BY AssumptionFacts
<1>7. CacheOK'
  <2>1. \A d \in Callers : (In(d, "smart", "work") \/ In(d, "smart", "query"))' <=> querying' = d
    BY <1>1, <1>2, <1>3, <1>6, ZenonT(40) DEF CacheOK, In
  <2>2. \A d \in Callers : AskingDisks(d)' => call'[d].m = "smart"
    BY <1>2, <1>3 DEF CacheOK, AskingDisks
  <2>3. (\A d \in Callers : ~AskingDisks(d))' => \A d \in Callers : ~AskingDisks(d)
    BY <1>1, <1>2 DEF AskingDisks
  <2> QED BY <1>1, <2>1, <2>2, <2>3 DEF CacheOK, Apart, NotAfter, Expired
<1>8. QuotaOK' /\ LimitOK'
  BY <1>1, SmartFrame
<1> QED BY <1>4, <1>5, <1>7, <1>8

LEMMA SmartQueryKeeps ==
  ASSUME HelperAssumption, HelperOK, NEW c \in Callers, SmartQuery(c)
  PROVE  HelperOK'
<1> USE DEF HelperOK
<1>1. /\ call[c] # None /\ call[c].m = "smart" /\ call[c].pc = "work" /\ ~Fresh
      /\ Step(c, "query")
      /\ log' = [log EXCEPT !.queries = Note(log.queries, CacheTTL)]
      /\ UNCHANGED <<clock, granted, shared>>
  BY DEF SmartQuery, In
<1>2. /\ call' \in [Callers -> Calls \cup {None}]
      /\ call'[c] = [call[c] EXCEPT !.pc = "query"] /\ call'[c] \in Calls
      /\ \A d \in Callers \ {c} : call'[d] = call[d]
  BY <1>1, StepsTo DEF Places
<1>3. call'[c].m = "smart" /\ call'[c].pc = "query" /\ call'[c] # None
  BY <1>1, <1>2, AssumptionFacts DEF Calls
<1>4. /\ log.queries \in Seq(Times) /\ CacheTTL \in Nat /\ clock \in Times
      /\ cache \in Times \cup {None} /\ Times \subseteq Nat
  BY AssumptionFacts DEF TypeOK
<1>5. querying = c /\ \A d \in Callers : ~AskingDisks(d)
  BY <1>1 DEF CacheOK, In, AskingDisks
<1>6. \A k \in 1..Len(log.queries) : Expired(log.queries[k], CacheTTL)
  <2>1. cache # None => clock - cache >= CacheTTL
    BY <1>1, <1>4 DEF Fresh
  <2> QED BY <1>4, <1>5, <2>1, AllExpired DEF CacheOK
<1>7. /\ Note(log.queries, CacheTTL) \in Seq(Times)
      /\ Apart(Note(log.queries, CacheTTL), CacheTTL)
      /\ \A k \in 1..Len(Note(log.queries, CacheTTL)) : Note(log.queries, CacheTTL)[k] <= clock
  BY <1>4, <1>6, NotedApart
<1>8. /\ log' \in [free : Seq(Times), limited : Seq(Times), queries : Seq(Times),
                   answer : Answer \cup {None}]
      /\ log'.queries = Note(log.queries, CacheTTL)
      /\ log'.free = log.free /\ log'.limited = log.limited
  BY <1>1, <1>7 DEF TypeOK
<1>9. TypeOK'
  BY <1>1, <1>2, <1>8 DEF TypeOK, shared
<1>10. CallsOK'
  BY <1>1, StepCalls DEF Places, shared
<1>11. CacheOK'
  <2>1. \A d \in Callers : (In(d, "smart", "work") \/ In(d, "smart", "query"))' <=> querying' = d
    <3>1. ASSUME NEW d \in Callers \ {c}
          PROVE  ~(In(d, "smart", "work") \/ In(d, "smart", "query"))' /\ querying' # d
      BY <1>1, <1>2, <1>5 DEF CacheOK, In, shared
    <3>2. In(c, "smart", "query")' /\ querying' = c
      BY <1>1, <1>3, <1>5 DEF In, shared
    <3> QED BY <3>1, <3>2
  <2>2. \A d \in Callers : AskingDisks(d)' => call'[d].m = "smart"
    BY <1>2, <1>3 DEF CacheOK, AskingDisks
  <2>3. AskingDisks(c)'
    BY <1>3 DEF AskingDisks
  <2>4. Apart(log.queries, CacheTTL)'
    BY <1>1, <1>7, <1>8 DEF Apart, Expired
  <2>5. NotAfter(log.queries, clock)'
    BY <1>1, <1>4, <1>7, <1>8, AssumptionFacts DEF NotAfter
  <2> QED BY <2>1, <2>2, <2>3, <2>4, <2>5 DEF CacheOK
<1>12. QuotaOK' /\ LimitOK'
  BY <1>1, <1>8, SmartFrame DEF shared
<1> QED BY <1>9, <1>10, <1>11, <1>12

(* The mutex is given back.                                                *)
LEMMA SmartEndKeeps ==
  ASSUME HelperAssumption, HelperOK, NEW c \in Callers, SmartCached(c) \/ SmartStore(c)
  PROVE  HelperOK'
<1> USE DEF HelperOK
<1>1. /\ call[c] # None /\ call[c].m = "smart" /\ call[c].pc \in {"work", "query"}
      /\ querying' = None /\ Return(c)
      /\ UNCHANGED <<clock, log, snaps, attempts, limited, leases, pending>>
      /\ SmartStore(c) => cache' = clock
      /\ SmartCached(c) => cache' = cache /\ call[c].pc = "work"
  BY DEF SmartCached, SmartStore, In, Quietly
<1>2. /\ call' \in [Callers -> Calls \cup {None}] /\ call'[c] = None
      /\ granted' \in [Callers -> SUBSET Actions]
      /\ \A d \in Callers \ {c} : call'[d] = call[d] /\ granted'[d] = granted[d]
  BY Returns, <1>1
<1>3. cache' \in Times \cup {None}
  BY <1>1 DEF TypeOK
<1>4. TypeOK'
  BY <1>1, <1>2, <1>3 DEF TypeOK
<1>5. CallsOK'
  BY <1>1, <1>2, OtherCalls DEF CallsOK, AbsentStays
<1>6. querying = c /\ \A d \in Callers : d # None
  BY <1>1, AssumptionFacts DEF CacheOK, In
<1>7. CacheOK'
  <2>1. \A d \in Callers : (In(d, "smart", "work") \/ In(d, "smart", "query"))' <=> querying' = d
    BY <1>1, <1>2, <1>6 DEF CacheOK, In
  <2>2. \A d \in Callers : AskingDisks(d)' => call'[d].m = "smart"
    BY <1>2 DEF CacheOK, AskingDisks
  <2>3. NotAfter(log.queries, cache)'
    <3>1. CASE SmartStore(c)
      BY <1>1, <3>1 DEF CacheOK, NotAfter
    <3>2. CASE SmartCached(c)
      <4>1. \A d \in Callers : ~AskingDisks(d)
        BY <1>1, <1>6, <3>2 DEF CacheOK, AskingDisks, In
      <4> QED BY <1>1, <3>2, <4>1 DEF CacheOK, NotAfter
    <3> QED BY <3>1, <3>2
  <2> QED BY <1>1, <2>1, <2>2, <2>3 DEF CacheOK, Apart, Expired
<1>8. QuotaOK' /\ LimitOK'
  BY <1>1, SmartFrame
<1> QED BY <1>4, <1>5, <1>7, <1>8

-----------------------------------------------------------------------------
(* Time passes for all windows.                                            *)
LEMMA TickKeeps ==
  ASSUME HelperAssumption, HelperOK, Tick
  PROVE  HelperOK'
<1> USE DEF HelperOK
<1>1. UNCHANGED <<call, granted, log, shared>>
  BY DEF Tick
<1>2. clock' \in Times /\ clock' >= clock
  BY AssumptionFacts DEF Tick, TypeOK, Times
<1>3. TypeOK'
  BY <1>1, <1>2 DEF TypeOK, shared
<1>4. CallsOK'
  BY <1>1 DEF CallsOK, CallOK, Needs, shared
<1>5. QuotaOK' /\ LimitOK'
  BY <1>1, <1>2, QuotaFrame, LimitFrame DEF shared
<1>6. CacheOK'
  BY <1>1, <1>2, CacheFrame DEF shared, AskingDisks, In
<1> QED BY <1>3, <1>4, <1>5, <1>6

LEMMA HelperStarts ==
  ASSUME HelperAssumption, Init
  PROVE  HelperOK
<1>1. log = [free |-> <<>>, limited |-> <<>>, queries |-> <<>>, answer |-> None] /\ attempts = <<>>
  BY DEF Init
<1>2. <<>> \in Seq(Times) /\ Len(<<>>) = 0
  BY EmptySeq
<1>3. TypeOK
  BY <1>1, <1>2, AssumptionFacts DEF Init, TypeOK
<1>4. CallsOK
  BY DEF Init, CallsOK
<1>5. QuotaOK
  <2>1. SubSeq(<<>>, 0 + 1, Len(<<>>)) = <<>>
    BY <1>2, SubSeqEmpty
  <2> QED BY <1>1, <1>2, <2>1 DEF QuotaOK
<1>6. LimitOK
  BY <1>1, <1>2 DEF LimitOK, Apart, NotAfter
<1>7. CacheOK
  BY <1>1, <1>2, AssumptionFacts DEF Init, CacheOK, Apart, NotAfter, AskingDisks, In
<1> QED BY <1>3, <1>4, <1>5, <1>6, <1>7 DEF HelperOK

LEMMA HelperStep ==
  ASSUME HelperAssumption, HelperOK, [Next]_vars
  PROVE  HelperOK'
<1>1. CASE Tick
  BY <1>1, TickKeeps
<1>2. ASSUME NEW c \in Callers, Grant(c) \/ Deny(c) \/ Handle(c) PROVE HelperOK'
  BY <1>2, GrantKeeps, EndsKeep, GatelessKeeps, LimitPassesKeeps, ReserveKeeps, DeleteOneKeeps,
     SmartLockKeeps, SmartQueryKeeps, SmartEndKeeps DEF Handle, Ends
<1>3. CASE UNCHANGED vars
  <2> USE DEF HelperOK
  <2>1. UNCHANGED <<clock, call, granted, log, shared>>
    BY <1>3 DEF vars, shared
  <2>2. clock' \in Times /\ clock' >= clock
    BY <2>1, AssumptionFacts DEF TypeOK
  <2>3. TypeOK'
    BY <2>1 DEF TypeOK, shared
  <2>4. CallsOK'
    BY <2>1 DEF CallsOK, CallOK, Needs, shared
  <2>5. QuotaOK' /\ LimitOK'
    BY <2>1, <2>2, QuotaFrame, LimitFrame DEF shared
  <2>6. CacheOK'
    BY <2>1, <2>2, CacheFrame DEF shared, AskingDisks, In
  <2> QED BY <2>3, <2>4, <2>5, <2>6
<1>4. ASSUME NEW c \in Callers, NEW m \in Methods, NEW ids \in SUBSET Ids, Invoke(c, m, ids)
      PROVE  HelperOK'
  BY <1>4, InvokeKeeps
<1> QED BY <1>1, <1>2, <1>3, <1>4 DEF Next

(* The invariant behind the helper: what a call has been granted, what the *)
(* quota remembers, and that times of limited operations lie apart.        *)
THEOREM HelperIsOK ==
  ASSUME HelperAssumption
  PROVE  Spec => []HelperOK
<1>1. Init => HelperOK
  BY HelperStarts
<1>2. HelperOK /\ [Next]_vars => HelperOK'
  BY HelperStep
<1> QED BY <1>1, <1>2, PTL DEF Spec

-----------------------------------------------------------------------------
(* The windows.                                                            *)

(* Times of which all but a suffix have left the window.                   *)
LEMMA SuffixCount ==
  ASSUME NEW times \in Seq(Times), NEW w \in Nat, Times \subseteq Nat, clock \in Nat,
         NEW n \in 0..Len(times), \A k \in 1..n : Expired(times[k], w)
  PROVE  InWindow(times, w) <= Len(times) - n
<1> DEFINE S == {k \in 1..Len(times) : clock - times[k] < w}
<1>1. Len(times) \in Nat
  OBVIOUS
<1>2. S \subseteq (n + 1)..Len(times)
  <2> SUFFICES ASSUME NEW k \in 1..Len(times), clock - times[k] < w
               PROVE  k > n
    BY <1>1
  <2>1. times[k] \in Nat
    BY ElementOfSeq
  <2>2. ~Expired(times[k], w)
    BY <2>1 DEF Expired
  <2> QED BY <1>1, <2>2
<1>3. /\ IsFiniteSet((n + 1)..Len(times))
      /\ Cardinality((n + 1)..Len(times)) = Len(times) - n
  <2>1. n \in Nat /\ n <= Len(times)
    BY <1>1
  <2>2. n + 1 \in Int /\ Len(times) \in Int
    BY <1>1, <2>1
  <2>3. /\ IsFiniteSet((n + 1)..Len(times))
        /\ Cardinality((n + 1)..Len(times))
             = IF n + 1 > Len(times) THEN 0 ELSE Len(times) - (n + 1) + 1
    BY ONLY <2>2, FS_Interval
  <2>4. (IF n + 1 > Len(times) THEN 0 ELSE Len(times) - (n + 1) + 1) = Len(times) - n
    BY <1>1, <2>1
  <2> QED BY <2>3, <2>4
<1>4. Cardinality(S) <= Cardinality((n + 1)..Len(times))
  BY <1>2, <1>3, FS_Subset
<1> QED BY <1>3, <1>4 DEF InWindow

LEMMA ApartCount ==
  ASSUME NEW times \in Seq(Times), NEW w \in Nat, Times \subseteq Nat, clock \in Nat, Apart(times, w)
  PROVE  InWindow(times, w) <= 1
<1>1. CASE Len(times) = 0
  <2>1. InWindow(times, w) <= Len(times) - 0
    <3>1. 0 \in 0..Len(times) /\ \A k \in 1..0 : Expired(times[k], w)
      BY <1>1
    <3> QED BY <3>1, SuffixCount
  <2>2. InWindow(times, w) \in Nat
    <3>1. IsFiniteSet(1..Len(times))
      <4>1. 1 \in Int /\ Len(times) \in Int
        BY <1>1
      <4> QED BY ONLY <4>1, FS_Interval
    <3> QED BY <3>1, FS_Subset, FS_CardinalityType DEF InWindow
  <2> QED BY <1>1, <2>1, <2>2
<1>2. CASE Len(times) # 0
  <2>1. Len(times) - 1 \in 0..Len(times) /\ Len(times) \in Nat
    BY <1>2
  <2>2. InWindow(times, w) <= Len(times) - (Len(times) - 1)
    BY <2>1, SuffixCount DEF Apart
  <2> QED BY <2>1, <2>2
<1> QED BY <1>1, <1>2

(* In every window no more than the allowance of Home snapshots is begun   *)
(* without a password, over all callers.                                   *)
THEOREM BudgetHolds ==
  ASSUME HelperAssumption
  PROVE  Spec => []PasswordlessBudget
<1>1. ASSUME HelperOK PROVE PasswordlessBudget
  <2> DEFINE f == log.free
  <2>1. /\ f \in Seq(Times) /\ Times \subseteq Nat /\ clock \in Nat /\ QuotaWindow \in Nat
        /\ Len(f) \in Nat /\ Len(attempts) <= Allowance
    BY <1>1, AssumptionFacts DEF HelperOK, TypeOK
  <2>2. PICK n \in 0..Len(f) :
           /\ attempts = SubSeq(f, n + 1, Len(f))
           /\ \A k \in 1..n : Expired(f[k], QuotaWindow)
    BY <1>1 DEF HelperOK, QuotaOK
  <2>3. Len(attempts) = Len(f) - n
    BY <2>1, <2>2, SuffixIs
  <2>4. InWindow(f, QuotaWindow) <= Len(attempts)
    BY <2>1, <2>2, <2>3, SuffixCount
  <2>5. InWindow(f, QuotaWindow) \in Nat /\ Len(attempts) \in Nat /\ Allowance \in Nat
    <3>1. IsFiniteSet(1..Len(f))
      BY <2>1, FS_Interval
    <3>2. InWindow(f, QuotaWindow) \in Nat
      BY <3>1, FS_Subset, FS_CardinalityType DEF InWindow
    <3> QED BY <1>1, <3>2, AssumptionFacts DEF HelperOK, TypeOK
  <2> QED BY <2>1, <2>4, <2>5 DEF PasswordlessBudget
<1> QED BY <1>1, HelperIsOK, PTL

(* Creations of System snapshots start at least a window apart.            *)
THEOREM CreationsLieApart ==
  ASSUME HelperAssumption
  PROVE  Spec => []CreationsSpaced
<1>1. HelperOK => CreationsSpaced
  BY AssumptionFacts, ApartCount DEF HelperOK, TypeOK, LimitOK, CreationsSpaced
<1> QED BY <1>1, HelperIsOK, PTL

(* The disks are asked at most once in the lifetime of a result, however   *)
(* many callers want it and however long a query takes.                    *)
THEOREM DisksAreAskedOnce ==
  ASSUME HelperAssumption
  PROVE  Spec => []DisksAskedOnce
<1>1. HelperOK => DisksAskedOnce
  BY AssumptionFacts, ApartCount DEF HelperOK, TypeOK, CacheOK, DisksAskedOnce
<1> QED BY <1>1, HelperIsOK, PTL

-----------------------------------------------------------------------------
(* What is done was granted, and what is answered is so.                   *)

(* No method does its work before Polkit granted this call all it asks.    *)
THEOREM AllWorkIsAuthorized ==
  ASSUME HelperAssumption
  PROVE  Spec => []WorkIsAuthorized
<1>1. HelperOK => WorkIsAuthorized
  BY DEF HelperOK, CallsOK, CallOK, WorkIsAuthorized
<1> QED BY <1>1, HelperIsOK, PTL

(* What the methods that change snapshots ask for.                         *)
LEMMA ChangesAsk ==
  ASSUME NEW m \in AllMethods
  PROVE  /\ m \in Deletion \cup {"delete_deployment"} => "delete" \in Asks(m)
         /\ m = "create_deployment" => "create" \in Asks(m)
         /\ m \in PersonalCreation => "create-personal" \in Asks(m)
         /\ m = "create_protected" => "delete" \in Asks(m)
         /\ m = "set_personal_snapshot_pinned" => "delete" \in Asks(m)
         /\ m = "set_deployment_pinned" => "configure" \in Asks(m)
<1>1. ASSUME NEW a, Auth(m) = <<a>> PROVE a \in Asks(m)
  <2>1. Len(Auth(m)) = 1 /\ Auth(m)[1] = a
    BY <1>1
  <2> QED BY <2>1 DEF Asks
<1>2. ASSUME NEW a, NEW b, Auth(m) = <<a, b>> PROVE a \in Asks(m) /\ b \in Asks(m)
  <2>1. Len(Auth(m)) = 2 /\ Auth(m)[1] = a /\ Auth(m)[2] = b
    BY <1>2
  <2> QED BY <2>1 DEF Asks
<1>3. CASE m \in Deletion \cup {"delete_deployment", "set_personal_snapshot_pinned"}
  <2>1. Auth(m) = <<"delete">>
    BY <1>3 DEF Auth, Deletion
  <2> QED BY <1>1, <1>3, <2>1 DEF Deletion, PersonalCreation
<1>4. CASE m = "create_deployment"
  <2>1. Auth(m) = <<"create">>
    BY <1>4 DEF Auth
  <2> QED BY <1>1, <1>4, <2>1 DEF Deletion, PersonalCreation
<1>5. CASE m = "create_personal_snapshot"
  <2>1. Auth(m) = <<"create-personal">>
    BY <1>5 DEF Auth
  <2> QED BY <1>1, <1>5, <2>1 DEF Deletion, PersonalCreation
<1>6. CASE m = "create_protected"
  <2>1. Auth(m) = <<"create-personal", "delete">>
    BY <1>6, Zenon DEF Auth
  <2> QED BY <1>2, <1>6, <2>1 DEF Deletion, PersonalCreation
<1>7. CASE m = "set_deployment_pinned"
  <2>1. Auth(m) = <<"configure">>
    BY <1>7 DEF Auth
  <2> QED BY <1>1, <1>7, <2>1 DEF Deletion, PersonalCreation
<1> QED BY <1>3, <1>4, <1>5, <1>6, <1>7 DEF PersonalCreation

(* The steps that change a snapshot.                                       *)
Working(c, i) == call[c] # None /\ call[c].pc = "work" /\ i \in call[c].ids

LEMMA SnapshotSteps ==
  ASSUME HelperAssumption, HelperOK, Next, NEW i \in Ids, snaps'[i] # snaps[i]
  PROVE  \E c \in Callers :
            /\ Working(c, i)
            /\ \/ /\ call[c].m \in Deletion \cup {"delete_deployment"}
                  /\ Deletable(i) /\ snaps'[i] = "absent"
               \/ /\ call[c].m = "create_deployment"
                  /\ snaps[i] = "unused" /\ snaps'[i] \in {"ready", "pinned"}
               \/ /\ call[c].m = "create_personal_snapshot"
                  /\ snaps[i] = "unused" /\ snaps'[i] = "ready"
               \/ /\ call[c].m = "create_protected"
                  /\ snaps[i] = "unused" /\ snaps'[i] = "pinned"
               \/ /\ call[c].m \in {"set_deployment_pinned", "set_personal_snapshot_pinned"}
                  /\ snaps[i] \in {"ready", "pinned"} /\ snaps'[i] \in {"ready", "pinned"}
<1>1. snaps \in [Ids -> {"unused", "ready", "pinned", "absent"}]
  BY DEF HelperOK, TypeOK
<1>2. PICK c \in Callers :
         \/ CreateDeployment(c) \/ CreatePersonalSnapshot(c) \/ DeleteOne(c) \/ DeleteSingle(c)
         \/ SetPinned(c)
  BY DEF Next, Invoke, Grant, Deny, Handle, Gateless, LimitPasses, LimitRefuses, Reserve,
     DeleteAnswers, ScheduleDeploymentRestore, SchedulePersonalRestore, ScheduleFactoryReset,
     ScheduleRestore, CancelRestore, Rename, Verify, Maintenance, SavePolicy, BeginBrowse,
     EndBrowse, ListFiles, SmartLock, SmartCached, SmartQuery, SmartStore, Tick, shared
<1>3. CASE CreateDeployment(c)
  <2>1. PICK j \in call[c].ids, state \in {"ready", "pinned"} :
           snaps[j] = "unused" /\ snaps' = [snaps EXCEPT ![j] = state]
    BY <1>3 DEF CreateDeployment
  <2>2. j = i
    BY <1>1, <2>1
  <2>3. call[c] # None /\ call[c].pc = "work" /\ call[c].m = "create_deployment"
    BY <1>3 DEF CreateDeployment, In
  <2> QED BY <1>1, <2>1, <2>2, <2>3 DEF Working
<1>4. CASE CreatePersonalSnapshot(c)
  <2>1. PICK j \in call[c].ids :
           /\ snaps[j] = "unused"
           /\ snaps' = [snaps EXCEPT ![j] = IF call[c].m = "create_protected" THEN "pinned" ELSE "ready"]
    BY <1>4 DEF CreatePersonalSnapshot
  <2>2. j = i
    BY <1>1, <2>1
  <2>3. call[c] # None /\ call[c].pc = "work" /\ call[c].m \in PersonalCreation
    BY <1>4 DEF CreatePersonalSnapshot
  <2> QED BY <1>1, <2>1, <2>2, <2>3 DEF Working, PersonalCreation
<1>5. CASE DeleteOne(c)
  <2>1. PICK j \in call[c].left : Deletable(j) /\ snaps' = [snaps EXCEPT ![j] = "absent"]
    BY <1>5 DEF DeleteOne
  <2>2. j = i
    BY <1>1, <2>1
  <2>3. /\ call[c] # None /\ call[c].pc = "work" /\ call[c].m \in Deletion
        /\ call[c].left \subseteq call[c].ids
    BY <1>5 DEF DeleteOne, HelperOK, CallsOK, CallOK
  <2> QED BY <1>1, <2>1, <2>2, <2>3 DEF Working
<1>6. CASE DeleteSingle(c)
  <2>1. PICK j \in call[c].ids :
           snaps' = IF Deletable(j) THEN [snaps EXCEPT ![j] = "absent"] ELSE snaps
    BY <1>6 DEF DeleteSingle
  <2>2. j = i /\ Deletable(i) /\ snaps'[i] = "absent"
    BY <1>1, <2>1
  <2>3. call[c] # None /\ call[c].pc = "work" /\ call[c].m = "delete_deployment"
    BY <1>6 DEF DeleteSingle, In
  <2> QED BY <2>1, <2>2, <2>3 DEF Working
<1>7. CASE SetPinned(c)
  <2>1. PICK j \in call[c].ids, v \in {"ready", "pinned"} :
           snaps' = IF ~Exists(j) THEN snaps ELSE [snaps EXCEPT ![j] = v]
    BY <1>7 DEF SetPinned
  <2>2. j = i /\ Exists(i) /\ snaps'[i] = v
    BY <1>1, <2>1
  <2>3. /\ call[c] # None /\ call[c].pc = "work"
        /\ call[c].m \in {"set_deployment_pinned", "set_personal_snapshot_pinned"}
    BY <1>7 DEF SetPinned
  <2> QED BY <2>1, <2>2, <2>3 DEF Working, Exists
<1> QED BY <1>2, <1>3, <1>4, <1>5, <1>6, <1>7

(* A protected snapshot, and the target of a scheduled restore, stays.     *)
THEOREM ProtectedIsKept ==
  ASSUME HelperAssumption
  PROVE  Spec => [][ProtectedStays]_vars
<1>1. HelperOK /\ [Next]_vars => [ProtectedStays]_vars
  <2> SUFFICES ASSUME HelperOK, Next, NEW i \in Ids,
                      snaps[i] = "pinned" \/ (pending = i /\ Exists(i))
               PROVE  snaps'[i] \in {"ready", "pinned"}
    BY DEF ProtectedStays, Exists
  <2>1. CASE snaps'[i] = snaps[i]
    BY <2>1 DEF Exists
  <2>2. CASE snaps'[i] # snaps[i]
    <3>1. ~Deletable(i) /\ snaps[i] # "unused"
      BY DEF Deletable, Exists
    <3> QED BY <2>2, <3>1, SnapshotSteps
  <2> QED BY <2>1, <2>2
<1> QED BY <1>1, HelperIsOK, PTL DEF Spec

(* Whatever changes a snapshot was granted that change by Polkit, to the   *)
(* call that makes it, also when other calls are granted more meanwhile.   *)
THEOREM ChangesAreAuthorized ==
  ASSUME HelperAssumption
  PROVE  Spec => [][ChangesAuthorized]_vars
<1>1. HelperOK /\ [Next]_vars => [ChangesAuthorized]_vars
  <2> SUFFICES ASSUME HelperOK, Next, NEW i \in Ids, snaps'[i] # snaps[i]
               PROVE  \E c \in Callers :
                         /\ call[c] # None /\ i \in call[c].ids
                         /\ \/ /\ snaps[i] = "unused"
                               /\ \/ "create" \in granted[c]
                                  \/ /\ "create-personal" \in granted[c]
                                     /\ snaps'[i] = "pinned" => "delete" \in granted[c]
                            \/ snaps'[i] = "absent" /\ "delete" \in granted[c]
                            \/ /\ Exists(i) /\ Exists(i)'
                               /\ granted[c] \cap {"configure", "delete"} # {}
    BY DEF ChangesAuthorized
  <2>1. PICK c \in Callers :
            /\ Working(c, i)
            /\ \/ /\ call[c].m \in Deletion \cup {"delete_deployment"}
                  /\ Deletable(i) /\ snaps'[i] = "absent"
               \/ /\ call[c].m = "create_deployment"
                  /\ snaps[i] = "unused" /\ snaps'[i] \in {"ready", "pinned"}
               \/ /\ call[c].m = "create_personal_snapshot"
                  /\ snaps[i] = "unused" /\ snaps'[i] = "ready"
               \/ /\ call[c].m = "create_protected"
                  /\ snaps[i] = "unused" /\ snaps'[i] = "pinned"
               \/ /\ call[c].m \in {"set_deployment_pinned", "set_personal_snapshot_pinned"}
                  /\ snaps[i] \in {"ready", "pinned"} /\ snaps'[i] \in {"ready", "pinned"}
    BY SnapshotSteps
  <2>2. call[c] # None /\ call[c].pc = "work" /\ i \in call[c].ids /\ call[c].m \in AllMethods
    BY <2>1 DEF Working, HelperOK, TypeOK, Calls, HelperAssumption
  <2>3. Asks(call[c].m) \subseteq granted[c]
    BY <2>2 DEF HelperOK, CallsOK, CallOK
  <2> QED BY <2>1, <2>2, <2>3, ChangesAsk DEF Exists, PersonalCreation
<1> QED BY <1>1, HelperIsOK, PTL DEF Spec

(* A batch is reported as deleted when all of it is gone, and files are    *)
(* listed of a snapshot that is there.                                     *)
THEOREM AnswersAreTrue ==
  ASSUME HelperAssumption
  PROVE  Spec => [][AnswersTrue]_vars
<1>1. HelperOK /\ [Next]_vars => [AnswersTrue]_vars
  <2> SUFFICES ASSUME HelperOK, Next, log'.answer \notin {None, log.answer}, log'.answer.ok
               PROVE  IF log'.answer.m \in Deletion THEN \A i \in log'.answer.ids : ~Exists(i)'
                      ELSE \E i \in log'.answer.ids : Exists(i)
    BY DEF AnswersTrue, vars
  <2>2. PICK c \in Callers : DeleteAnswers(c) \/ DeleteSingle(c) \/ ListFiles(c)
    BY ZenonT(40) DEF Next, Invoke, Grant, Deny, Handle, Gateless, LimitPasses, LimitRefuses, Reserve,
       CreateDeployment, CreatePersonalSnapshot, DeleteOne, SetPinned, Quietly,
       ScheduleDeploymentRestore, SchedulePersonalRestore, ScheduleFactoryReset, ScheduleRestore,
       CancelRestore, Rename, Verify, Maintenance, SavePolicy, BeginBrowse, EndBrowse,
       SmartLock, SmartCached, SmartQuery, SmartStore, Tick, HelperOK, TypeOK
  <2>3. log \in [free : Seq(Times), limited : Seq(Times), queries : Seq(Times),
                 answer : Answer \cup {None}]
    BY DEF HelperOK, TypeOK
  <2>4. CASE DeleteAnswers(c)
    <3>1. /\ call[c] # None /\ call[c].m \in Deletion
          /\ log'.answer = [ids |-> call[c].ids, m |-> call[c].m, ok |-> call[c].left = {}]
          /\ snaps' = snaps
      BY <2>3, <2>4 DEF DeleteAnswers, Answers, shared
    <3>2. call[c].left = {}
      <4> DEFINE all == call[c].left = {}
      <4>1. log'.answer = [ids |-> call[c].ids, m |-> call[c].m, ok |-> all]
        BY <3>1
      <4> HIDE DEF all
      <4>2. log'.answer.ok = all
        BY ONLY <4>1
      <4>3. all
        BY <4>2
      <4> QED BY <4>3 DEF all
    <3>3. \A i \in call[c].ids \ call[c].left : snaps[i] = "absent"
      BY <3>1 DEF HelperOK, CallsOK, CallOK
    <3> QED BY <3>1, <3>2, <3>3 DEF Exists
  <2>5. CASE DeleteSingle(c)
    <3>1. PICK i \in call[c].ids :
             /\ snaps' = IF Deletable(i) THEN [snaps EXCEPT ![i] = "absent"] ELSE snaps
             /\ log'.answer = [ids |-> {i}, m |-> "delete_deployments", ok |-> Deletable(i)]
      BY <2>3, <2>5 DEF DeleteSingle
    <3>2. call[c].ids \subseteq Ids /\ snaps \in [Ids -> {"unused", "ready", "pinned", "absent"}]
      BY <2>5 DEF DeleteSingle, In, HelperOK, TypeOK, Calls
    <3>3. snaps'[i] = "absent"
      BY <3>1, <3>2
    <3> QED BY <3>1, <3>3 DEF Exists, Deletion
  <2>6. CASE ListFiles(c)
    <3>1. /\ call[c].m = "list_files"
          /\ log'.answer = [ids |-> call[c].ids, m |-> call[c].m,
                            ok |-> \E i \in call[c].ids : LeaseHolds(c, i) /\ Exists(i)]
      BY <2>3, <2>6 DEF ListFiles, In, Answers
    <3> QED BY <3>1 DEF Deletion
  <2> QED BY <2>2, <2>4, <2>5, <2>6
<1> QED BY <1>1, HelperIsOK, PTL DEF Spec
=============================================================================
