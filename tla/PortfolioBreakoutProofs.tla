---------------------- MODULE PortfolioBreakoutProofs ----------------------
(* Proofs of PortfolioBreakout, for any dimensions, groups, names, threads *)
(* and bounds.  Typed says what each job's plan and each thread's hand     *)
(* hold at every step.  Above it: Holds, that a portfolio's accounts are   *)
(* of its number; OneEach, that nothing yet to be posted is under another  *)
(* name than the portfolio a value has; Healed, what a sync that has       *)
(* pruned still owes; and PollFirst with Fresh, that a stale stamp always  *)
(* has a lookup whose refresh is to come.                                  *)
EXTENDS PortfolioBreakout, FiniteSetTheorems, WellFoundedInduction, TLAPS

Syncs == {Import, Sync}
Portfolio == [name : Names, number : Keys \cup Names, has : SUBSET Keys, live : BOOLEAN]
LookupJob == [state : {"running", "polled"} \cup LookupResults, tracked : BOOLEAN]
Row(m) == [name : Names, irp : DOMAIN m, key : Keys \cup {None}, live : BOOLEAN]
HeadStatus == {"none", "pending", "running", "failed"}

(* Refreshes of portfolios: the plan says which, and nothing of them. *)
Blanks(n) == {[i \in is |-> None] : is \in SUBSET (0..n)}
Work == Plans \cup {[i \in is |-> None] : is \in SUBSET Nat}

(* A plan of n portfolios that suits the job it was armed or claimed for. *)
PlanFor(h, p, n) ==
    /\ \A d \in Dims : h = Quick(d) => p \in [d -> Names]
    /\ \A g \in Groups : h = Custom(g) => p \in [{g} -> Names]
    /\ h \in Refreshes => p \in Blanks(n)
    /\ \A j \in 1..MaxLookups : h = After(j) => DOMAIN p = {0}
    /\ h \in Syncs \cup {Lookup} => p = NoNames

Hand == [at : ThreadAt, head : Heads \cup {None}, plan : Work, todo : SUBSET (Keys \cup Nat),
         key : Keys \cup {None}, hit : Nat, done : SUBSET Nat, seen : SUBSET Nat,
         stamp : Nat, summary : Nat]

Enumerating(t, m, v) ==
    /\ t.head \in Syncs \cup Refreshes
    /\ t.seen \subseteq DOMAIN m /\ t.stamp <= v
    /\ t.todo \subseteq t.seen \cup {0} /\ t.done \subseteq t.seen \cup {0}
    /\ t.at = "store" \/ t.done = {}
    /\ t.at \in {"list", "summarise"} => t.todo = {}
    /\ t.at = "prune" => t.head \in Syncs

Making(t, m) ==
    /\ t.head \in Breakouts
    /\ t.todo \subseteq DOMAIN t.plan /\ t.done \subseteq DOMAIN m
    /\ t.at = "entry" \/ t.key \in DOMAIN t.plan
    /\ t.at \in {"populate", "save"} => t.hit \in DOMAIN m /\ m[t.hit].number = Number(t.key, t.plan[t.key])

(* What a thread holds suits the step it is at, over portfolios m at       *)
(* version v and l lookups.                                                *)
Fits(t, m, v, l) ==
    /\ t.at \in {"idle", "succeeded", "failed"} =>
          /\ t.plan = NoNames /\ t.todo = {} /\ t.key = None /\ t.done = {} /\ t.seen = {}
    /\ t.at \notin {"idle", "succeeded", "failed"} => PlanFor(t.head, t.plan, Len(m))
    /\ t.at # "idle" => t.head \in Heads
    /\ t.at \in {"list", "summarise", "prune", "store"} => Enumerating(t, m, v)
    /\ t.at \in {"entry", "create", "post", "adopt", "populate", "save"} => Making(t, m)
    /\ t.at \in {"submit", "record"} => t.head = Lookup
    /\ t.at = "record" => t.hit \in 1..l

Request == [at : RequestAt, what : Dims \cup SUBSET Groups, names : Plans,
            group : Groups \cup {None}, summary : Nat, read : Nat]

RequestFits(r) ==
    /\ r.at \in {"modal", "fresh", "arm"} => r.what # {}
    /\ r.at \in {"arm", "stamp"} =>
          \/ r.at = "arm" /\ r.what \in Dims /\ r.names \in [r.what -> Names]
          \/ r.what \subseteq Groups /\ r.what \subseteq DOMAIN r.names
             /\ (r.at = "arm" => r.group \in r.what)

WorldTyped ==
    /\ rm \in Seq(Portfolio) /\ version \in Nat
    /\ lookups \in Seq(LookupJob) /\ Len(lookups) <= MaxLookups
StoredTyped ==
    /\ rows \subseteq Row(rm) /\ OneRowPerId(rows) /\ OneRowPerKey(rows)
    /\ source \in [stamp : Nat, summary : Nat] /\ source.stamp <= version
    /\ groupName \in [Groups -> Names \cup {None}]
QueueTyped ==
    /\ heads \in [Heads -> HeadStatus] /\ input \in [Heads -> Work]
    /\ \A h \in Heads : IF heads[h] = "none" THEN input[h] = NoNames
                                             ELSE PlanFor(h, input[h], Len(rm))
HandsTyped ==
    /\ thread \in [Threads -> Hand]
    /\ \A w \in Threads : Fits(thread[w], rm, version, Len(lookups))
RequestsTyped ==
    /\ request \in [Requests -> Request]
    /\ \A q \in Requests : RequestFits(request[q])
HistoryTyped ==
    /\ shown \subseteq Requests /\ log \in Log
    /\ spent \in [faults : Nat, changes : Nat]

Typed == WorldTyped /\ StoredTyped /\ QueueTyped /\ HandsTyped /\ RequestsTyped /\ HistoryTyped

-----------------------------------------------------------------------------
(* Jobs of different kinds are different jobs. *)
LEMMA HeadsApart ==
    /\ Import \in Heads /\ Sync \in Heads /\ Lookup \in Heads
    /\ Breakouts \subseteq Heads /\ Refreshes \subseteq Heads /\ Syncs \subseteq Heads
    /\ \A d \in Dims : Quick(d) \in Breakouts
    /\ \A g \in Groups : Custom(g) \in Breakouts
    /\ \A h \in Breakouts : Refresh(h) \in Refreshes
    /\ \A j \in 1..MaxLookups : After(j) \in Refreshes
    /\ Import # Sync /\ Lookup \notin Syncs
    /\ Breakouts \cap (Refreshes \cup Syncs \cup {Lookup}) = {}
    /\ Refreshes \cap (Syncs \cup {Lookup}) = {}
    /\ \A d, e \in Dims : Quick(d) = Quick(e) => d = e
    /\ \A g, e \in Groups : Custom(g) = Custom(e) => g = e
    /\ \A d \in Dims : \A g \in Groups : Quick(d) # Custom(g)
    /\ \A h \in Breakouts : \A j \in 1..MaxLookups : Refresh(h) # After(j)
    /\ \A j, k \in 1..MaxLookups : After(j) = After(k) => j = k
  BY DEF Heads, Syncs, Import, Sync, Lookup, Breakouts, Refreshes, Quick, Custom, Refresh, After

(* A job is a breakout, a refresh, a sync or the lookup. *)
LEMMA HeadKinds ==
    ASSUME NEW h \in Heads
    PROVE  \/ h \in Breakouts \/ h \in Refreshes \/ h \in Syncs \/ h = Lookup
  BY DEF Heads, Syncs

LEMMA BreakoutKinds ==
    ASSUME NEW h \in Breakouts
    PROVE  (\E d \in Dims : h = Quick(d)) \/ (\E g \in Groups : h = Custom(g))
  BY DEF Breakouts

LEMMA NoNamesPlan ==
    /\ NoNames \in Plans /\ NoNames \in Work /\ DOMAIN NoNames = {}
    /\ \A n \in Nat : NoNames \in Blanks(n)
  <1>1. NoNames \in [{} -> Names]
    BY DEF NoNames
  <1>2. {} \in Dims \cup SUBSET Groups
    OBVIOUS
  <1> QED
    BY <1>1, <1>2 DEF Plans, Work, Blanks, NoNames

(* What suits a job is a plan of keys, or a set of portfolios. *)
LEMMA PlanForWork ==
    ASSUME NEW h \in Heads, NEW p, NEW n \in Nat, PlanFor(h, p, n)
    PROVE  /\ p \in Work /\ p \in Plans \cup Blanks(n)
           /\ h \in Breakouts => p \in Plans /\ DOMAIN p \subseteq Keys
           /\ h \in Refreshes => DOMAIN p \subseteq 0..n
  <1>1. ASSUME NEW d \in Dims, h = Quick(d) PROVE p \in Plans /\ DOMAIN p \subseteq Keys
    BY <1>1 DEF PlanFor, Plans, Keys
  <1>2. ASSUME NEW g \in Groups, h = Custom(g) PROVE p \in Plans /\ DOMAIN p \subseteq Keys
    <2>1. p \in [{g} -> Names] /\ {g} \in Dims \cup SUBSET Groups
      BY <1>2 DEF PlanFor
    <2> QED
      BY <2>1 DEF Plans, Keys
  <1>3. CASE h \in Breakouts
    <2>1. h \notin Refreshes
      BY <1>3, HeadsApart
    <2> QED
      BY <1>1, <1>2, <1>3, <2>1, BreakoutKinds DEF Work
  <1>4. CASE h \in Refreshes
    <2>1. p \in Blanks(n) /\ h \notin Breakouts
      BY <1>4, HeadsApart DEF PlanFor
    <2>2. PICK is \in SUBSET (0..n) : p = [i \in is |-> None]
      BY <2>1 DEF Blanks
    <2>3. is \in SUBSET Nat
      OBVIOUS
    <2> QED
      BY <2>1, <2>2, <2>3 DEF Work
  <1>5. CASE h \in Syncs \cup {Lookup}
    <2>1. p = NoNames
      BY <1>5 DEF PlanFor
    <2> QED
      BY <1>5, <2>1, NoNamesPlan, HeadsApart
  <1> QED
    BY <1>3, <1>4, <1>5, HeadKinds
-----------------------------------------------------------------------------
(* No step takes a portfolio, a lookup or a version back. *)
WorldGrows ==
    /\ Len(rm) <= Len(rm') /\ Len(rm') \in Nat /\ DOMAIN rm \subseteq DOMAIN rm'
    /\ \A i \in DOMAIN rm : rm'[i].name = rm[i].name /\ rm'[i].number = rm[i].number
    /\ version <= version' /\ version' \in Nat /\ Len(lookups) <= Len(lookups') /\ Len(lookups') \in Nat

LEMMA WorldKept ==
    ASSUME WorldTyped, UNCHANGED outside
    PROVE  WorldTyped' /\ WorldGrows
  BY DEF WorldTyped, WorldGrows, outside

LEMMA PlanForGrows ==
    ASSUME NEW h, NEW p, NEW m \in Nat, NEW n \in Nat, m <= n, PlanFor(h, p, m)
    PROVE  PlanFor(h, p, n)
  <1>1. 0..m \subseteq 0..n
    OBVIOUS
  <1>2. Blanks(m) \subseteq Blanks(n)
    BY <1>1 DEF Blanks
  <1> QED
    BY <1>2 DEF PlanFor

LEMMA StoredKept ==
    ASSUME Typed, WorldGrows, WorldTyped', UNCHANGED stored
    PROVE  StoredTyped'
  <1>1. Row(rm) \subseteq Row(rm')
    BY DEF Row, WorldGrows
  <1>2. source.stamp <= version'
    BY DEF Typed, StoredTyped, WorldTyped, WorldGrows
  <1> QED
    BY <1>1, <1>2 DEF Typed, StoredTyped, stored

LEMMA QueueKept ==
    ASSUME Typed, WorldGrows, UNCHANGED queue
    PROVE  QueueTyped'
  <1>1. Len(rm) \in Nat /\ Len(rm') \in Nat /\ Len(rm) <= Len(rm')
    BY DEF Typed, WorldTyped, WorldGrows
  <1> QED
    BY <1>1, PlanForGrows DEF Typed, QueueTyped, queue

LEMMA RequestsKept ==
    ASSUME Typed, UNCHANGED request
    PROVE  RequestsTyped'
  BY DEF Typed, RequestsTyped

(* A thread that does nothing keeps what suits its step. *)
LEMMA FitsStill ==
    ASSUME Typed, WorldGrows, NEW w \in Threads, thread'[w] = thread[w]
    PROVE  Fits(thread'[w], rm', version', Len(lookups'))
  <1> DEFINE t == thread[w]
  <1>1. Len(rm) \in Nat /\ Len(rm') \in Nat /\ Len(rm) <= Len(rm') /\ version \in Nat /\ version' \in Nat
    BY DEF Typed, WorldTyped, WorldGrows
  <1>2. t \in Hand /\ Fits(t, rm, version, Len(lookups))
    BY DEF Typed, HandsTyped
  <1>3. t.at \notin {"idle", "succeeded", "failed"} => PlanFor(t.head, t.plan, Len(rm'))
    BY <1>1, <1>2, PlanForGrows DEF Fits
  <1>4. Enumerating(t, rm, version) => Enumerating(t, rm', version')
    BY <1>1, <1>2 DEF Enumerating, WorldGrows, Hand
  <1>5. Making(t, rm) => Making(t, rm')
    BY <1>1, <1>2 DEF Making, WorldGrows, Hand
  <1>6. t.hit \in 1..Len(lookups) => t.hit \in 1..Len(lookups')
    BY DEF WorldGrows, Typed, WorldTyped
  <1> QED
    BY <1>2, <1>3, <1>4, <1>5, <1>6 DEF Fits

LEMMA HandsStep ==
    ASSUME Typed, WorldGrows, NEW w \in Threads, thread' \in [Threads -> Hand],
           \A v \in Threads : v # w => thread'[v] = thread[v],
           Fits(thread'[w], rm', version', Len(lookups'))
    PROVE  HandsTyped'
  BY FitsStill DEF HandsTyped

LEMMA HandsKept ==
    ASSUME Typed, WorldGrows, UNCHANGED thread
    PROVE  HandsTyped'
  BY FitsStill DEF HandsTyped, Typed

(* A job that is armed keeps what it has, or takes a plan that suits it. *)
LEMMA ArmTyped ==
    ASSUME QueueTyped, NEW h \in Heads, NEW p, Arm(h, p), PlanFor(h, p, Len(rm)),
           Len(rm) \in Nat, UNCHANGED rm
    PROVE  QueueTyped'
  <1>1. CASE Active(h)
    BY <1>1 DEF Arm, QueueTyped, queue
  <1>2. CASE ~ Active(h)
    <2>1. /\ heads' = [heads EXCEPT ![h] = "pending"] /\ input' = [input EXCEPT ![h] = p]
      BY <1>2 DEF Arm
    <2>2. p \in Work
      BY PlanForWork
    <2> QED
      BY <2>1, <2>2 DEF QueueTyped, HeadStatus
  <1> QED
    BY <1>1, <1>2

(* A job whose status changes, but not to or from none, keeps its plan. *)
LEMMA StatusTyped ==
    ASSUME QueueTyped, NEW h \in Heads, NEW s \in {"pending", "running", "failed"},
           heads[h] # "none", heads' = [heads EXCEPT ![h] = s], UNCHANGED <<rm, input>>
    PROVE  QueueTyped'
  BY DEF QueueTyped, HeadStatus
-----------------------------------------------------------------------------
(* The work queue *)

LEMMA EmptyHandFits ==
    /\ EmptyHand \in Hand
    /\ \A m, v, l : Fits(EmptyHand, m, v, l)
  <1>1. NoNames \in Work
    BY NoNamesPlan
  <1> QED
    BY <1>1 DEF EmptyHand, Hand, ThreadAt, Fits

(* A thread whose body has ended holds nothing but the job. *)
Ended(h, st) == [EmptyHand EXCEPT !.at = st, !.head = h]

LEMMA EndedFits ==
    ASSUME NEW h \in Heads, NEW st \in {"succeeded", "failed"}
    PROVE  /\ Ended(h, st) \in Hand
           /\ \A m, v, l : Fits(Ended(h, st), m, v, l)
  <1>1. NoNames \in Work
    BY NoNamesPlan
  <1> QED
    BY <1>1 DEF Ended, EmptyHand, Hand, ThreadAt, Fits

LEMMA FaultTyped ==
    ASSUME HistoryTyped, Fault
    PROVE  spent' \in [faults : Nat, changes : Nat]
  BY DEF HistoryTyped, Fault

LEMMA HistoryKept ==
    ASSUME Typed, UNCHANGED <<shown, log>>, UNCHANGED spent \/ Fault
    PROVE  HistoryTyped'
  BY FaultTyped DEF Typed, HistoryTyped

LEMMA EndsTyped ==
    ASSUME Typed, WorldGrows, NEW w \in Threads, NEW st \in {"succeeded", "failed"},
           thread[w].at # "idle", Ends(w, st)
    PROVE  HandsTyped'
  <1>1. thread[w].head \in Heads
    BY DEF Typed, HandsTyped, Fits
  <1>2. thread' = [thread EXCEPT ![w] = Ended(thread[w].head, st)]
    BY DEF Ends, Ended
  <1>3. thread' \in [Threads -> Hand] /\ thread'[w] = Ended(thread[w].head, st)
    BY <1>1, <1>2, EndedFits DEF Typed, HandsTyped
  <1> QED
    BY <1>1, <1>2, <1>3, EndedFits, HandsStep DEF Typed, HandsTyped

LEMMA FailsTyped ==
    ASSUME Typed, WorldGrows, NEW w \in Threads, thread[w].at # "idle", Fails(w)
    PROVE  HandsTyped' /\ Fault
  <1>1. Ends(w, "failed") /\ Fault
    BY DEF Fails, Ends
  <1> QED
    BY <1>1, EndsTyped

LEMMA ClaimTyped ==
    ASSUME Typed, NEW w \in Threads, NEW h \in Heads, Claim(w, h)
    PROVE  Typed'
  <1>1. WorldTyped' /\ WorldGrows /\ StoredTyped' /\ RequestsTyped' /\ HistoryTyped'
    BY WorldKept, StoredKept, RequestsKept, HistoryKept DEF Claim, Typed
  <1>2. QueueTyped'
    BY StatusTyped DEF Claim, Typed, outside
  <1>3. /\ heads[h] # "none" /\ PlanFor(h, input[h], Len(rm)) /\ Len(rm) \in Nat
        /\ thread' = [thread EXCEPT ![w] = Approved(h)] /\ rm' = rm
    BY DEF Claim, Typed, QueueTyped, WorldTyped, outside
  <1>4. /\ input[h] \in Work /\ (h \in Breakouts => DOMAIN input[h] \subseteq Keys)
    BY <1>3, PlanForWork
  <1>5. /\ FirstStep(h) \in {"entry", "submit", "list"}
        /\ FirstStep(h) = "entry" => h \in Breakouts
        /\ FirstStep(h) = "submit" => h = Lookup
        /\ FirstStep(h) = "list" => h \in Syncs \cup Refreshes
        /\ h \in Breakouts => FirstStep(h) = "entry"
    BY HeadKinds, HeadsApart DEF FirstStep
  <1>6. Approved(h) \in Hand
    BY <1>4, <1>5, EmptyHandFits DEF Approved, Hand, ThreadAt, EmptyHand
  <1>7. Fits(Approved(h), rm, version, Len(lookups))
    <2>1. version \in Nat
      BY DEF Typed, WorldTyped
    <2> QED
      BY <1>3, <1>5, <2>1 DEF Approved, EmptyHand, Fits, Enumerating, Making
  <1>8. HandsTyped'
    <2>1. thread' \in [Threads -> Hand] /\ thread'[w] = Approved(h)
      BY <1>3, <1>6 DEF Typed, HandsTyped
    <2>2. Fits(thread'[w], rm', version', Len(lookups'))
      BY <1>7, <2>1 DEF Claim, outside
    <2> QED
      BY <1>1, <1>3, <2>1, <2>2, HandsStep DEF Typed, HandsTyped
  <1> QED
    BY <1>1, <1>2, <1>8 DEF Typed

LEMMA CompleteTyped ==
    ASSUME Typed, NEW w \in Threads, Complete(w)
    PROVE  Typed'
  <1>1. WorldTyped' /\ WorldGrows /\ StoredTyped' /\ RequestsTyped' /\ HistoryTyped'
    BY WorldKept, StoredKept, RequestsKept, HistoryKept DEF Complete, Typed
  <1>2. QueueTyped'
    <2> DEFINE h == thread[w].head
    <2>1. h \in Heads
      BY DEF Complete, Typed, HandsTyped, Fits
    <2>2. CASE heads[h] # "running"
      BY <1>1, <2>2, QueueKept DEF Complete
    <2>3. CASE heads[h] = "running" /\ thread[w].at = "failed"
      BY <2>1, <2>3, StatusTyped DEF Complete, Typed, outside
    <2>4. CASE heads[h] = "running" /\ thread[w].at # "failed"
      BY <2>1, <2>4, NoNamesPlan DEF Complete, Typed, outside, QueueTyped, HeadStatus
    <2> QED
      BY <2>2, <2>3, <2>4
  <1>3. HandsTyped'
    BY <1>1, EmptyHandFits, HandsStep DEF Complete, Typed, HandsTyped
  <1> QED
    BY <1>1, <1>2, <1>3 DEF Typed

LEMMA ReclaimTyped ==
    ASSUME Typed, NEW h \in Heads, Reclaim(h)
    PROVE  Typed'
  <1>1. WorldTyped' /\ WorldGrows /\ StoredTyped' /\ RequestsTyped' /\ HistoryTyped' /\ HandsTyped'
    BY WorldKept, StoredKept, RequestsKept, HistoryKept, HandsKept DEF Reclaim, Typed
  <1>2. QueueTyped'
    BY StatusTyped DEF Reclaim, Typed, outside
  <1> QED
    BY <1>1, <1>2 DEF Typed

LEMMA CrashTyped ==
    ASSUME Typed, NEW w \in Threads, Crash(w)
    PROVE  Typed'
  <1>1. WorldTyped' /\ WorldGrows /\ StoredTyped' /\ RequestsTyped' /\ HistoryTyped' /\ QueueTyped'
    BY WorldKept, StoredKept, RequestsKept, HistoryKept, QueueKept DEF Crash, Typed
  <1>2. HandsTyped'
    BY <1>1, EmptyHandFits, HandsStep DEF Crash, Typed, HandsTyped
  <1> QED
    BY <1>1, <1>2 DEF Typed

-----------------------------------------------------------------------------
(* Syncs and refreshes *)

LEMMA SyncFrame ==
    ASSUME Typed, SyncKeeps
    PROVE  WorldTyped' /\ WorldGrows /\ QueueTyped' /\ RequestsTyped' /\ UNCHANGED groupName
  BY WorldKept, QueueKept, RequestsKept DEF SyncKeeps, Typed

LEMMA ListTyped ==
    ASSUME Typed, NEW w \in Threads, List(w)
    PROVE  Typed'
  <1>1. WorldTyped' /\ WorldGrows /\ QueueTyped' /\ RequestsTyped' /\ UNCHANGED groupName /\ UNCHANGED outside
    BY SyncFrame DEF List, SyncKeeps
  <1>2. StoredTyped'
    BY <1>1, StoredKept DEF List, stored
  <1>3. HistoryTyped'
    BY HistoryKept DEF List, Fails
  <1>4. HandsTyped'
    <2>1. CASE Fails(w)
      BY <1>1, <2>1, FailsTyped DEF List
    <2>2. CASE thread' = [thread EXCEPT ![w].at = "summarise", ![w].seen = Live, ![w].stamp = version]
      <3> DEFINE t == thread[w]
                 s == [t EXCEPT !.at = "summarise", !.seen = Live, !.stamp = version]
      <3>1. t \in Hand /\ Fits(t, rm, version, Len(lookups)) /\ t.at = "list"
        BY DEF Typed, HandsTyped, List
      <3>2. Live \subseteq DOMAIN rm /\ DOMAIN rm \subseteq Nat /\ version \in Nat
        BY DEF Live, Typed, WorldTyped
      <3>3. s \in Hand
        BY <3>1, <3>2 DEF Hand, ThreadAt
      <3>4. /\ t.head \in Heads /\ PlanFor(t.head, t.plan, Len(rm)) /\ t.head \in Syncs \cup Refreshes
            /\ t.todo = {} /\ t.done = {}
        BY <3>1 DEF Fits, Enumerating
      <3>5. Fits(s, rm, version, Len(lookups))
        BY <3>1, <3>2, <3>4 DEF Fits, Enumerating, Hand
      <3>6. thread' \in [Threads -> Hand] /\ thread'[w] = s
        BY <2>2, <3>3 DEF Typed, HandsTyped
      <3>7. Fits(thread'[w], rm', version', Len(lookups'))
        BY <1>1, <3>5, <3>6 DEF outside
      <3> QED
        BY <1>1, <2>2, <3>6, <3>7, HandsStep DEF Typed, HandsTyped
    <2> QED
      BY <2>1, <2>2 DEF List
  <1> QED
    BY <1>1, <1>2, <1>3, <1>4 DEF Typed
LEMMA SummariseTyped ==
    ASSUME Typed, NEW w \in Threads, Summarise(w)
    PROVE  Typed'
  <1>1. WorldTyped' /\ WorldGrows /\ QueueTyped' /\ RequestsTyped' /\ UNCHANGED groupName /\ UNCHANGED outside
    BY SyncFrame DEF Summarise, SyncKeeps
  <1>2. StoredTyped'
    BY <1>1, StoredKept DEF Summarise, stored
  <1>3. HistoryTyped'
    BY HistoryKept DEF Summarise, Fails
  <1>4. HandsTyped'
    <2>1. CASE Fails(w)
      BY <1>1, <2>1, FailsTyped DEF Summarise
    <2>2. ASSUME NEW x \in {version, 0},
                 thread' = [thread EXCEPT ![w].summary = x, ![w].todo = Covered(thread[w]),
                              ![w].at = IF thread[w].head \in {Import, Sync} THEN "prune" ELSE "store"]
          PROVE  HandsTyped'
      <3> DEFINE t == thread[w]
                 s == [t EXCEPT !.summary = x, !.todo = Covered(t),
                              !.at = IF t.head \in {Import, Sync} THEN "prune" ELSE "store"]
      <3>1. t \in Hand /\ Fits(t, rm, version, Len(lookups)) /\ t.at = "summarise"
        BY DEF Typed, HandsTyped, Summarise
      <3>2. DOMAIN rm \subseteq Nat /\ version \in Nat /\ x \in Nat
        BY DEF Typed, WorldTyped
      <3>3. /\ t.head \in Heads /\ PlanFor(t.head, t.plan, Len(rm)) /\ t.head \in Syncs \cup Refreshes
            /\ t.done = {} /\ t.seen \subseteq DOMAIN rm
        BY <3>1 DEF Fits, Enumerating
      <3>4. Covered(t) \subseteq t.seen \cup {0}
        BY DEF Covered
      <3>. HIDE DEF t
      <3>9. Covered(t) \in SUBSET (Keys \cup Nat)
        BY <3>2, <3>3, <3>4
      <3>10. (IF t.head \in {Import, Sync} THEN "prune" ELSE "store") \in ThreadAt
        BY DEF ThreadAt
      <3>5. s \in Hand
        BY <3>1, <3>2, <3>9, <3>10 DEF Hand
      <3>6. Fits(s, rm, version, Len(lookups))
        BY <3>1, <3>2, <3>3, <3>4 DEF Fits, Enumerating, Hand, Syncs
      <3>. USE DEF t
      <3>7. thread' \in [Threads -> Hand] /\ thread'[w] = s
        BY <2>2, <3>5 DEF Typed, HandsTyped
      <3>8. Fits(thread'[w], rm', version', Len(lookups'))
        BY <1>1, <3>6, <3>7 DEF outside
      <3> QED
        BY <1>1, <2>2, <3>7, <3>8, HandsStep DEF Typed, HandsTyped
    <2> QED
      BY <2>1, <2>2 DEF Summarise
  <1> QED
    BY <1>1, <1>2, <1>3, <1>4 DEF Typed

(* A thread that moves on to another step of the same kind keeps its hand. *)
LEMMA GoTyped ==
    ASSUME Typed, WorldGrows, NEW w \in Threads, NEW at \in ThreadAt, Go(w, at),
           thread[w].at = "prune" /\ at = "store"
    PROVE  HandsTyped'
  <1> DEFINE t == thread[w]
             s == [t EXCEPT !.at = at]
  <1>1. t \in Hand /\ t.at = "prune" /\ at = "store" /\ thread' = [thread EXCEPT ![w] = s]
    BY DEF Typed, HandsTyped, Go
  <1>2. Fits(t, rm', version', Len(lookups'))
    <2>1. Len(rm) \in Nat /\ Len(rm') \in Nat /\ Len(rm) <= Len(rm') /\ version \in Nat /\ version' \in Nat
      BY DEF Typed, WorldTyped, WorldGrows
    <2>2. Fits(t, rm, version, Len(lookups))
      BY DEF Typed, HandsTyped
    <2>3. PlanFor(t.head, t.plan, Len(rm'))
      BY <1>1, <2>1, <2>2, PlanForGrows DEF Fits
    <2>4. Enumerating(t, rm', version')
      BY <1>1, <2>1, <2>2 DEF Fits, Enumerating, WorldGrows, Hand
    <2> QED
      BY <1>1, <2>2, <2>3, <2>4 DEF Fits
  <1>3. s \in Hand
    BY <1>1 DEF Hand
  <1>4. Fits(s, rm', version', Len(lookups'))
    BY <1>1, <1>2 DEF Fits, Enumerating, Hand
  <1>5. thread' \in [Threads -> Hand] /\ thread'[w] = s
    BY <1>1, <1>3 DEF Typed, HandsTyped
  <1> QED
    BY <1>1, <1>4, <1>5, HandsStep DEF Typed, HandsTyped

(* Rows that only change their liveness keep one row to an id. *)
LEMMA PrunedTyped ==
    ASSUME Typed, NEW w \in Threads
    PROVE  Pruned(thread[w].seen) \subseteq Row(rm) /\ OneRowPerId(Pruned(thread[w].seen))
  <1> DEFINE alive(r) == \/ r.irp \in thread[w].seen
                         \/ r.name \in SeenNames(thread[w].seen) /\ (r.live \/ r.key = None)
             image(r) == [r EXCEPT !.live = alive(r)]
  <1>1. Pruned(thread[w].seen) = {image(r) : r \in rows}
    BY DEF Pruned
  <1>2. rows \subseteq Row(rm) /\ OneRowPerId(rows)
    BY DEF Typed, StoredTyped
  <1>3. \A r \in rows : alive(r) \in BOOLEAN
    OBVIOUS
  <1> HIDE DEF alive
  <1>4. \A r \in rows : image(r) \in Row(rm) /\ image(r).irp = r.irp
    BY <1>2, <1>3 DEF Row
  <1>5. \A r, s \in rows : image(r).irp = image(s).irp => r = s
    BY <1>2, <1>4 DEF OneRowPerId
  <1> HIDE DEF image
  <1> QED
    BY <1>1, <1>4, <1>5 DEF OneRowPerId

LEMMA PruneTyped ==
    ASSUME Typed, NEW w \in Threads, Prune(w)
    PROVE  Typed'
  <1>1. WorldTyped' /\ WorldGrows /\ QueueTyped' /\ RequestsTyped' /\ UNCHANGED groupName /\ UNCHANGED outside
    BY SyncFrame DEF Prune, SyncKeeps
  <1> DEFINE after == Pruned(thread[w].seen)
  <1>2. CASE OneRowPerKey(after)
    <2>1. rows' = after /\ Go(w, "store") /\ thread[w].at = "prune" /\ UNCHANGED <<source, shown, spent>>
      BY <1>2 DEF Prune
    <2>2. StoredTyped'
      BY <1>1, <1>2, <2>1, PrunedTyped DEF Typed, StoredTyped, outside
    <2>3. log' \in Log
      BY <1>2 DEF Prune, Typed, HistoryTyped, Log
    <2>4. HistoryTyped'
      BY <2>1, <2>3 DEF Typed, HistoryTyped
    <2>5. HandsTyped'
      BY <1>1, <2>1, GoTyped DEF ThreadAt
    <2> QED
      BY <1>1, <2>2, <2>4, <2>5 DEF Typed
  <1>3. CASE ~ OneRowPerKey(after)
    <2>1. Ends(w, "failed") /\ thread[w].at = "prune" /\ UNCHANGED <<rows, log, source, shown, spent>>
      BY <1>3 DEF Prune
    <2>2. StoredTyped' /\ HistoryTyped' /\ HandsTyped'
      BY <1>1, <2>1, StoredKept, HistoryKept, EndsTyped DEF stored
    <2> QED
      BY <1>1, <2>2 DEF Typed
  <1> QED
    BY <1>2, <1>3
First(S) == CHOOSE x \in S : \A y \in S : x <= y

(* A set of portfolios has a first: of the parts of S up to one of its      *)
(* members, the smallest ends with it.                                     *)
LEMMA FirstIn ==
    ASSUME NEW n \in Nat, NEW S, S \subseteq 0..n, S # {}
    PROVE  First(S) \in S
<1>. DEFINE UpTo(k) == {x \in S : x <= k}
            parts   == {UpTo(k) : k \in S}
            order   == StrictSubsetOrdering(S)
<1>1. S \subseteq Nat /\ IsFiniteSet(S)
  <2>1. IsFiniteSet(0..n)
    BY FS_Interval
  <2>2. S \in SUBSET (0..n)
    OBVIOUS
  <2>3. IsFiniteSet(S)
    BY <2>1, <2>2, FS_Subset
  <2> QED
    BY <2>3
<1>2. parts \subseteq SUBSET S /\ parts # {}
  OBVIOUS
<1>3. IsWellFoundedOn(order, SUBSET S)
  BY <1>1, FS_FiniteSubsetsOfFinite, FS_StrictSubsetOrderingWellFounded
<1>. HIDE DEF order
<1>4. \E p \in parts : \A q \in parts : ~ (<<q, p>> \in order)
  BY <1>2, <1>3, WFMin
<1>5. PICK m \in S : \A k \in S : ~ (<<UpTo(k), UpTo(m)>> \in order)
  BY <1>4
<1>6. \A k \in S : m <= k
  <2> SUFFICES ASSUME NEW k \in S, k < m PROVE FALSE
    BY <1>1
  <2>1. m \in UpTo(m) /\ m \notin UpTo(k)
    BY <1>1
  <2>2. UpTo(k) \subseteq UpTo(m)
    <3> SUFFICES ASSUME NEW x \in S, x <= k PROVE x <= m
      OBVIOUS
    <3>1. x \in Nat /\ k \in Nat /\ m \in Nat
      BY <1>1
    <3> QED
      BY <3>1
  <2>3. UpTo(k) \in SUBSET S /\ UpTo(m) \in SUBSET S
    OBVIOUS
  <2>4. ~ (<<UpTo(k), UpTo(m)>> \in order)
    BY <1>5
  <2>. HIDE DEF UpTo
  <2> QED
    BY <2>1, <2>2, <2>3, <2>4 DEF order, StrictSubsetOrdering
<1> QED
  BY <1>6 DEF First

(* Storing one portfolio adds a row or changes the name or the id of some: *)
(* the rows of one key stay the rows of that key.                          *)
LEMMA UpsertedTyped ==
    ASSUME Typed, NEW i \in DOMAIN rm
    PROVE  Upserted(i) \subseteq Row(rm) /\ OneRowPerKey(Upserted(i))
  <1> DEFINE name == rm[i].name
  <1>0. rm[i] \in Portfolio
    BY DEF Typed, WorldTyped
  <1>1. name \in Names /\ rows \subseteq Row(rm) /\ OneRowPerKey(rows) /\ OneRowPerId(rows)
    BY <1>0 DEF Typed, StoredTyped, Portfolio
  <1>2. CASE RowOf(i) # {}
    <2> DEFINE image(r) == [r EXCEPT !.name = name]
    <2>1. Upserted(i) = (rows \ RowOf(i)) \cup {image(r) : r \in RowOf(i)}
      BY <1>2 DEF Upserted
    <2>2. RowOf(i) \subseteq rows
      BY DEF RowOf
    <2>3. \A r \in RowOf(i) : image(r) \in Row(rm) /\ image(r).key = r.key /\ image(r).live = r.live
      BY <1>1, <2>2 DEF Row
    <2> HIDE DEF image
    <2>4. Upserted(i) \subseteq Row(rm)
      BY <1>1, <2>1, <2>3
    <2>5. OneRowPerKey(Upserted(i))
      BY <1>1, <2>1, <2>2, <2>3 DEF OneRowPerKey
    <2> QED
      BY <2>4, <2>5
  <1>3. CASE RowOf(i) = {} /\ Named(name) # {}
    <2> DEFINE image(r) == [r EXCEPT !.irp = i]
    <2>1. Upserted(i) = (rows \ Named(name)) \cup {image(r) : r \in Named(name)}
      BY <1>3 DEF Upserted
    <2>2. Named(name) \subseteq rows
      BY DEF Named, LiveRows
    <2>3. \A r \in Named(name) : image(r) \in Row(rm) /\ image(r).key = r.key /\ image(r).live = r.live
      BY <1>1, <2>2 DEF Row
    <2> HIDE DEF image
    <2>4. Upserted(i) \subseteq Row(rm)
      BY <1>1, <2>1, <2>3
    <2>5. OneRowPerKey(Upserted(i))
      BY <1>1, <2>1, <2>2, <2>3 DEF OneRowPerKey
    <2> QED
      BY <2>4, <2>5
  <1>4. CASE RowOf(i) = {} /\ Named(name) = {}
    <2> DEFINE new == [name |-> name, irp |-> i, key |-> None, live |-> TRUE]
    <2>1. Upserted(i) = rows \cup {new}
      BY <1>4 DEF Upserted
    <2>2. new \in Row(rm) /\ new.key = None
      BY <1>1 DEF Row
    <2> HIDE DEF new
    <2> QED
      BY <1>1, <2>1, <2>2 DEF OneRowPerKey
  <1> QED
    BY <1>2, <1>3, <1>4

(* A portfolio that was stored, or skipped, is off the list. *)
LEMMA TickedTyped ==
    ASSUME Typed, WorldGrows, UNCHANGED outside, NEW w \in Threads, thread[w].at = "store", NEW i \in thread[w].todo,
           \/ thread' = [thread EXCEPT ![w].todo = @ \ {i}, ![w].done = @ \cup {i}]
           \/ thread' = [thread EXCEPT ![w].todo = @ \ {i}]
    PROVE  HandsTyped'
  <1> DEFINE t == thread[w]
  <1> SUFFICES ASSUME NEW d \in {t.done, t.done \cup {i}},
                      thread' = [thread EXCEPT ![w] = [t EXCEPT !.todo = @ \ {i}, !.done = d]]
               PROVE  HandsTyped'
    BY DEF Typed, HandsTyped, Hand
  <1> DEFINE s == [t EXCEPT !.todo = @ \ {i}, !.done = d]
  <1>1. t \in Hand /\ Fits(t, rm, version, Len(lookups)) /\ t.at = "store" /\ i \in t.todo
    BY DEF Typed, HandsTyped
  <1>2. /\ t.seen \subseteq DOMAIN rm /\ t.todo \subseteq t.seen \cup {0} /\ t.done \subseteq t.seen \cup {0}
        /\ PlanFor(t.head, t.plan, Len(rm)) /\ t.head \in Heads /\ t.head \in Syncs \cup Refreshes /\ t.stamp <= version
    BY <1>1 DEF Fits, Enumerating
  <1>3. i \in Nat
    BY <1>2 DEF Typed, WorldTyped
  <1> HIDE DEF t
  <1>4. d \in SUBSET Nat /\ d \subseteq t.seen \cup {0}
    BY <1>1, <1>2, <1>3 DEF Hand
  <1>5. s \in Hand
    BY <1>1, <1>4 DEF Hand
  <1>6. Fits(s, rm, version, Len(lookups))
    BY <1>1, <1>2, <1>4 DEF Fits, Enumerating, Hand
  <1>7. thread' \in [Threads -> Hand] /\ thread'[w] = s
    BY <1>5 DEF Typed, HandsTyped, t
  <1>8. Fits(thread'[w], rm', version', Len(lookups'))
    BY <1>6, <1>7 DEF outside
  <1> QED
    BY <1>7, <1>8, HandsStep DEF Typed, HandsTyped

(* The portfolio a thread stores next. *)
LEMMA FirstToStore ==
    ASSUME Typed, NEW w \in Threads, thread[w].at = "store", thread[w].todo # {}
    PROVE  /\ First(thread[w].todo) \in thread[w].todo
           /\ \/ First(thread[w].todo) = 0
              \/ First(thread[w].todo) \in DOMAIN rm \cap thread[w].seen
  <1>1. /\ thread[w].todo \subseteq thread[w].seen \cup {0} /\ thread[w].seen \subseteq DOMAIN rm
    BY DEF Typed, HandsTyped, Fits, Enumerating
  <1>2. Len(rm) \in Nat /\ DOMAIN rm = 1..Len(rm)
    BY DEF Typed, WorldTyped
  <1>3. thread[w].todo \subseteq 0..Len(rm)
    BY <1>1, <1>2
  <1>4. First(thread[w].todo) \in thread[w].todo
    BY <1>2, <1>3, FirstIn
  <1> QED
    BY <1>1, <1>4

LEMMA StoreTyped ==
    ASSUME Typed, NEW w \in Threads, Store(w)
    PROVE  Typed'
  <1>1. WorldTyped' /\ WorldGrows /\ QueueTyped' /\ RequestsTyped' /\ UNCHANGED groupName /\ UNCHANGED outside
    BY SyncFrame DEF Store, SyncKeeps
  <1> DEFINE t == thread[w]
             i == First(t.todo)
             stored1 == thread' = [thread EXCEPT ![w].todo = @ \ {i}, ![w].done = @ \cup {i}]
  <1>2. t.at = "store" /\ i \in t.todo /\ (i = 0 \/ i \in DOMAIN rm)
    BY FirstToStore DEF Store
  <1>3. \/ /\ i = 0 /\ source' = [stamp |-> t.stamp, summary |-> t.summary] /\ shown' = {}
           /\ log' = [log EXCEPT !.late = @ \/ t.stamp < source.stamp]
           /\ stored1 /\ UNCHANGED <<rows, spent>>
        \/ /\ i # 0 /\ UNCHANGED <<source, shown, spent>>
           /\ IF OneRowPerId(Upserted(i)) THEN rows' = Upserted(i) /\ stored1
              ELSE Ends(w, "failed") /\ UNCHANGED rows
           /\ log' = [log EXCEPT !.current = @ /\ t.seen = Live,
                               !.pruner = IF t.seen = Live THEN @ ELSE None]
        \/ /\ Fault /\ thread' = [thread EXCEPT ![w].todo = @ \ {i}]
           /\ UNCHANGED <<rows, source, shown, log>>
    BY DEF Store, First
  <1>4. t \in Hand /\ t.stamp <= version
    BY <1>2 DEF Typed, HandsTyped, Fits, Enumerating
  <1> HIDE DEF i
  <1>5. HandsTyped'
    BY <1>1, <1>2, <1>3, TickedTyped, EndsTyped
  <1>6. StoredTyped'
    <2>1. CASE UNCHANGED rows
      BY <1>1, <1>3, <1>4, <2>1 DEF Typed, StoredTyped, Hand, outside
    <2>2. CASE i # 0 /\ OneRowPerId(Upserted(i)) /\ rows' = Upserted(i) /\ UNCHANGED source
      BY <1>1, <1>2, <2>2, UpsertedTyped DEF Typed, StoredTyped, outside
    <2> QED
      BY <1>3, <2>1, <2>2
  <1>7. HistoryTyped'
    <2>1. shown' \subseteq Requests /\ spent' \in [faults : Nat, changes : Nat]
      BY <1>3, FaultTyped DEF Typed, HistoryTyped
    <2>2. log' \in Log
      BY <1>3 DEF Typed, HistoryTyped, Log
    <2> QED
      BY <2>1, <2>2 DEF HistoryTyped
  <1> QED
    BY <1>1, <1>5, <1>6, <1>7 DEF Typed

LEMMA StoreDoneTyped ==
    ASSUME Typed, NEW w \in Threads, StoreDone(w)
    PROVE  Typed'
  <1>1. WorldTyped' /\ WorldGrows /\ QueueTyped' /\ RequestsTyped' /\ UNCHANGED groupName /\ UNCHANGED outside
    BY SyncFrame DEF StoreDone, SyncKeeps
  <1>2. StoredTyped'
    BY <1>1, StoredKept DEF StoreDone, stored
  <1>3. HandsTyped' /\ (UNCHANGED spent \/ Fault)
    BY <1>1, EndsTyped, FailsTyped DEF StoreDone
  <1>4. log' \in Log
    BY DEF StoreDone, StoredAll, Typed, HistoryTyped, Log
  <1>5. HistoryTyped'
    BY <1>3, <1>4, FaultTyped DEF StoreDone, Typed, HistoryTyped
  <1> QED
    BY <1>1, <1>2, <1>3, <1>5 DEF Typed
-----------------------------------------------------------------------------
(* Breakouts *)

Makes == {"entry", "create", "post", "adopt", "populate", "save"}

(* A thread that goes on with its breakout keeps the job and the plan. *)
LEMMA MakesOn ==
    ASSUME Typed, WorldGrows, NEW w \in Threads, thread[w].at \in Makes,
           thread' \in [Threads -> Hand], \A v \in Threads : v # w => thread'[v] = thread[v],
           thread'[w].at \in Makes, thread'[w].head = thread[w].head, thread'[w].plan = thread[w].plan,
           Making(thread'[w], rm')
    PROVE  HandsTyped'
  <1>1. Len(rm) \in Nat /\ Len(rm') \in Nat /\ Len(rm) <= Len(rm')
    BY DEF Typed, WorldTyped, WorldGrows
  <1>2. thread[w].head \in Heads /\ PlanFor(thread[w].head, thread[w].plan, Len(rm))
    BY DEF Typed, HandsTyped, Fits, Makes
  <1>3. PlanFor(thread'[w].head, thread'[w].plan, Len(rm'))
    BY <1>1, <1>2, PlanForGrows
  <1>4. Fits(thread'[w], rm', version', Len(lookups'))
    BY <1>2, <1>3 DEF Fits, Makes
  <1> QED
    BY <1>4, HandsStep

(* What a thread at a breakout holds. *)
LEMMA MakerHolds ==
    ASSUME Typed, NEW w \in Threads, thread[w].at \in Makes
    PROVE  /\ thread[w] \in Hand /\ Making(thread[w], rm)
           /\ thread[w].head \in Breakouts /\ PlanFor(thread[w].head, thread[w].plan, Len(rm))
           /\ thread[w].plan \in Plans /\ DOMAIN thread[w].plan \subseteq Keys
           /\ \A k \in DOMAIN thread[w].plan : k \in Keys /\ thread[w].plan[k] \in Names
           /\ DOMAIN rm \subseteq Nat /\ Len(rm) \in Nat /\ DOMAIN rm = 1..Len(rm)
  <1>1. thread[w] \in Hand /\ Fits(thread[w], rm, version, Len(lookups))
    BY DEF Typed, HandsTyped
  <1>2. DOMAIN rm \subseteq Nat /\ Len(rm) \in Nat /\ DOMAIN rm = 1..Len(rm)
    BY DEF Typed, WorldTyped
  <1>3. /\ Making(thread[w], rm) /\ PlanFor(thread[w].head, thread[w].plan, Len(rm))
    BY <1>1 DEF Fits, Makes
  <1>4. thread[w].head \in Breakouts /\ thread[w].head \in Heads
    BY <1>3, HeadsApart DEF Making
  <1>5. thread[w].plan \in Plans /\ DOMAIN thread[w].plan \subseteq Keys
    BY <1>2, <1>3, <1>4, PlanForWork
  <1>6. \A p \in Plans : \A k \in DOMAIN p : p[k] \in Names
    BY DEF Plans
  <1> QED
    BY <1>1, <1>2, <1>3, <1>4, <1>5, <1>6

LEMMA NextEntryTyped ==
    ASSUME Typed, WorldGrows, NEW w \in Threads, thread[w].at \in Makes,
           NEW ids, ids \subseteq DOMAIN rm, NextEntry(w, ids)
    PROVE  HandsTyped'
  <1> DEFINE t == thread[w]
             s == [t EXCEPT !.at = "entry", !.key = None, !.hit = 0, !.done = @ \cup ids]
  <1>1. t \in Hand /\ Making(t, rm) /\ DOMAIN rm \subseteq Nat
    BY MakerHolds
  <1>2. s \in Hand
    BY <1>1 DEF Hand, ThreadAt
  <1>3. thread' = [thread EXCEPT ![w] = s]
    BY DEF NextEntry, Typed, HandsTyped, Hand
  <1>4. thread' \in [Threads -> Hand] /\ thread'[w] = s
    BY <1>2, <1>3 DEF Typed, HandsTyped
  <1>5. Making(s, rm')
    BY <1>1 DEF Making, WorldGrows, Hand
  <1> QED
    BY <1>1, <1>3, <1>4, <1>5, MakesOn DEF Makes, Hand, Typed, HandsTyped

(* Rows, requests and the queue while a thread makes a sub-portfolio. *)
LEMMA EntryFrame ==
    ASSUME Typed, EntryKeeps, WorldGrows, WorldTyped'
    PROVE  QueueTyped' /\ RequestsTyped' /\ UNCHANGED <<source, groupName, shown, version, lookups, queue>>
  BY QueueKept, RequestsKept DEF EntryKeeps

LEMMA EntryStill ==
    ASSUME Typed, EntryKeeps, Unmoved, UNCHANGED spent \/ Fault
    PROVE  WorldTyped' /\ WorldGrows /\ QueueTyped' /\ RequestsTyped' /\ StoredTyped' /\ HistoryTyped'
  <1>1. UNCHANGED outside /\ UNCHANGED stored /\ UNCHANGED <<shown, log, queue, request>>
    BY DEF EntryKeeps, Unmoved, outside, stored
  <1>2. WorldTyped' /\ WorldGrows
    BY <1>1, WorldKept DEF Typed
  <1> QED
    BY <1>1, <1>2, QueueKept, RequestsKept, StoredKept, HistoryKept

LEMMA SelectTyped ==
    ASSUME Typed, NEW w \in Threads, Select(w)
    PROVE  Typed'
  <1>1. EntryKeeps /\ Unmoved /\ Fails(w) /\ thread[w].at = "entry"
    BY DEF Select
  <1>2. Fault
    BY <1>1 DEF Fails
  <1> QED
    BY <1>1, <1>2, EntryStill, FailsTyped DEF Typed

LEMMA EntryTyped ==
    ASSUME Typed, NEW w \in Threads, Entry(w)
    PROVE  Typed'
  <1> DEFINE t == thread[w]
             k == CHOOSE x \in t.todo : TRUE
             took == [t EXCEPT !.todo = @ \ {k}]
             ids == {r.irp : r \in KeyRow(k)}
  <1>1. EntryKeeps /\ Unmoved /\ UNCHANGED spent /\ t.at = "entry" /\ t.todo # {}
    BY DEF Entry
  <1>2. k \in t.todo
    BY <1>1
  <1> HIDE DEF k
  <1>3. t \in Hand /\ Making(t, rm) /\ DOMAIN rm \subseteq Nat /\ DOMAIN t.plan \subseteq Keys
    BY <1>1, MakerHolds DEF Makes
  <1>4. WorldTyped' /\ WorldGrows /\ QueueTyped' /\ RequestsTyped' /\ StoredTyped' /\ HistoryTyped'
    BY <1>1, EntryStill
  <1>5. rm' = rm
    BY <1>1 DEF Unmoved
  <1>6. ids \subseteq DOMAIN rm
    BY DEF KeyRow, LiveRows, Typed, StoredTyped, Row
  <1> HIDE DEF ids
  <1>7. CASE thread' = [thread EXCEPT ![w] = [took EXCEPT !.done = @ \cup ids]]
    <2> DEFINE s == [t EXCEPT !.todo = @ \ {k}, !.done = @ \cup ids]
    <2>1. s = [took EXCEPT !.done = @ \cup ids]
      BY <1>3 DEF Hand
    <2>2. s \in Hand
      BY <1>3, <1>6 DEF Hand
    <2>3. Making(s, rm)
      BY <1>1, <1>3, <1>6 DEF Making, Hand
    <2>4. thread' \in [Threads -> Hand] /\ thread'[w] = s
      BY <1>7, <2>1, <2>2 DEF Typed, HandsTyped
    <2>5. HandsTyped'
      BY <1>1, <1>3, <1>4, <1>5, <1>7, <2>3, <2>4, MakesOn DEF Makes, Hand, Typed, HandsTyped
    <2> QED
      BY <1>4, <2>5 DEF Typed
  <1>8. CASE thread' = [thread EXCEPT ![w] = [took EXCEPT !.at = "create", !.key = k]]
    <2> DEFINE s == [t EXCEPT !.todo = @ \ {k}, !.at = "create", !.key = k]
    <2>1. s = [took EXCEPT !.at = "create", !.key = k]
      BY <1>3 DEF Hand
    <2>2. k \in DOMAIN t.plan /\ k \in Keys
      BY <1>2, <1>3 DEF Making
    <2>3. s \in Hand
      BY <1>3, <2>2 DEF Hand, ThreadAt
    <2>4. Making(s, rm)
      BY <1>1, <1>3, <2>2 DEF Making, Hand
    <2>5. thread' \in [Threads -> Hand] /\ thread'[w] = s
      BY <1>8, <2>1, <2>3 DEF Typed, HandsTyped
    <2>6. HandsTyped'
      BY <1>1, <1>3, <1>4, <1>5, <1>8, <2>4, <2>5, MakesOn DEF Makes, Hand, Typed, HandsTyped
    <2> QED
      BY <1>4, <2>6 DEF Typed
  <1> QED
    BY <1>7, <1>8 DEF Entry, k, ids
(* A thread that only takes the next step of its breakout. *)
LEMMA GoesOn ==
    ASSUME Typed, WorldGrows, NEW w \in Threads, NEW at, Go(w, at),
           \/ thread[w].at = "create" /\ at \in {"post", "adopt"}
           \/ thread[w].at = "populate" /\ at = "save"
    PROVE  HandsTyped'
  <1> DEFINE t == thread[w]
             s == [t EXCEPT !.at = at]
  <1>1. t \in Hand /\ Making(t, rm)
    BY MakerHolds DEF Makes
  <1>2. s \in Hand
    BY <1>1 DEF Hand, ThreadAt
  <1>3. thread' = [thread EXCEPT ![w] = s]
    BY DEF Go
  <1>4. thread' \in [Threads -> Hand] /\ thread'[w] = s
    BY <1>2, <1>3 DEF Typed, HandsTyped
  <1>5. Making(s, rm')
    BY <1>1 DEF Making, WorldGrows, Hand
  <1> QED
    BY <1>1, <1>3, <1>4, <1>5, MakesOn DEF Makes, Hand, Typed, HandsTyped

(* A thread that has got a sub-portfolio, new or found by its number. *)
LEMMA GoesToPopulate ==
    ASSUME Typed, WorldGrows, NEW w \in Threads, thread[w].at \in {"post", "adopt"},
           NEW i \in DOMAIN rm', i \in Nat, rm'[i].number = Number(thread[w].key, thread[w].plan[thread[w].key]),
           thread' = [thread EXCEPT ![w].at = "populate", ![w].hit = i]
    PROVE  HandsTyped'
  <1> DEFINE t == thread[w]
             s == [t EXCEPT !.at = "populate", !.hit = i]
  <1>1. t \in Hand /\ Making(t, rm) /\ t.at # "entry"
    BY MakerHolds DEF Makes
  <1>2. s \in Hand
    BY <1>1 DEF Hand, ThreadAt
  <1>3. thread' = [thread EXCEPT ![w] = s]
    BY <1>1 DEF Hand
  <1>4. thread' \in [Threads -> Hand] /\ thread'[w] = s
    BY <1>2, <1>3 DEF Typed, HandsTyped
  <1>5. Making(s, rm')
    BY <1>1 DEF Making, WorldGrows, Hand
  <1>6. s.at \in Makes /\ s.head = t.head /\ s.plan = t.plan /\ t.at \in Makes
    BY <1>1 DEF Makes, Hand
  <1>7. \A v \in Threads : v # w => thread'[v] = thread[v]
    BY <1>3 DEF Typed, HandsTyped
  <1> HIDE DEF s
  <1> QED
    BY <1>4, <1>5, <1>6, <1>7, MakesOn

LEMMA LookUpNameTyped ==
    ASSUME Typed, NEW w \in Threads, LookUpName(w)
    PROVE  Typed'
  <1>1. EntryKeeps /\ Unmoved /\ thread[w].at = "create"
    BY DEF LookUpName
  <1>2. \/ (Go(w, "adopt") \/ Go(w, "post")) /\ UNCHANGED spent
        \/ Fault /\ NextEntry(w, {})
    BY DEF LookUpName, EntryFails
  <1>3. WorldTyped' /\ WorldGrows /\ QueueTyped' /\ RequestsTyped' /\ StoredTyped' /\ HistoryTyped'
    BY <1>1, <1>2, EntryStill
  <1>4. HandsTyped'
    BY <1>1, <1>2, <1>3, GoesOn, NextEntryTyped DEF Makes
  <1> QED
    BY <1>3, <1>4 DEF Typed

LEMMA AdoptTyped ==
    ASSUME Typed, NEW w \in Threads, Adopt(w)
    PROVE  Typed'
  <1> DEFINE n == Number(thread[w].key, thread[w].plan[thread[w].key])
  <1>1. EntryKeeps /\ Unmoved /\ thread[w].at = "adopt" /\ UNCHANGED spent
    BY DEF Adopt
  <1>2. \/ NextEntry(w, {})
        \/ \E i \in Numbered(n) : thread' = [thread EXCEPT ![w].at = "populate", ![w].hit = i]
    BY DEF Adopt, EntryFails
  <1>3. WorldTyped' /\ WorldGrows /\ QueueTyped' /\ RequestsTyped' /\ StoredTyped' /\ HistoryTyped'
    BY <1>1, EntryStill
  <1>4. ASSUME NEW i \in Numbered(n), thread' = [thread EXCEPT ![w].at = "populate", ![w].hit = i]
        PROVE  HandsTyped'
    <2>1. i \in DOMAIN rm /\ rm[i].number = n /\ i \in Nat
      BY DEF Numbered, Live, Typed, WorldTyped
    <2>2. rm' = rm
      BY <1>1 DEF Unmoved
    <2> QED
      BY <1>1, <1>3, <1>4, <2>1, <2>2, GoesToPopulate
  <1>5. HandsTyped'
    BY <1>1, <1>2, <1>3, <1>4, NextEntryTyped DEF Makes
  <1> QED
    BY <1>3, <1>5 DEF Typed

(* Risk Modeler takes one portfolio more, or two. *)
LEMMA OneMore ==
    ASSUME Typed, NEW new \in Portfolio, rm' = Append(rm, new), UNCHANGED <<version, lookups>>
    PROVE  /\ WorldTyped' /\ WorldGrows
           /\ Len(rm') = Len(rm) + 1 /\ DOMAIN rm' = DOMAIN rm \cup {Len(rm) + 1} /\ Len(rm) + 1 \notin DOMAIN rm
           /\ \A i \in DOMAIN rm : rm'[i] = rm[i]
           /\ rm'[Len(rm) + 1] = new
  BY DEF Typed, WorldTyped, WorldGrows

LEMMA TwoMore ==
    ASSUME Typed, NEW new \in Portfolio, rm' = rm \o <<new, new>>, UNCHANGED <<version, lookups>>
    PROVE  /\ WorldTyped' /\ WorldGrows
           /\ Len(rm') = Len(rm) + 2 /\ DOMAIN rm' = DOMAIN rm \cup {Len(rm) + 1, Len(rm) + 2}
           /\ \A i \in DOMAIN rm : rm'[i] = rm[i]
           /\ rm'[Len(rm) + 1] = new /\ rm'[Len(rm) + 2] = new
  <1>1. <<new, new>> \in Seq(Portfolio) /\ Len(<<new, new>>) = 2
    OBVIOUS
  <1>2. rm' \in Seq(Portfolio)
    BY <1>1 DEF Typed, WorldTyped
  <1>3. Len(rm') = Len(rm) + 2 /\ DOMAIN rm' = DOMAIN rm \cup {Len(rm) + 1, Len(rm) + 2}
    BY <1>1 DEF Typed, WorldTyped
  <1>4. \A i \in DOMAIN rm : rm'[i] = rm[i]
    BY <1>1 DEF Typed, WorldTyped
  <1>5. rm'[Len(rm) + 1] = new /\ rm'[Len(rm) + 2] = new
    BY <1>1 DEF Typed, WorldTyped
  <1> QED
    BY <1>2, <1>3, <1>4, <1>5 DEF Typed, WorldTyped, WorldGrows

(* The portfolio that a thread posts. *)
Posted(k, n) == [name |-> n, number |-> Number(k, n), has |-> {}, live |-> TRUE]

LEMMA CreateTyped ==
    ASSUME Typed, NEW w \in Threads, Create(w)
    PROVE  Typed'
  <1> DEFINE k == thread[w].key
             n == thread[w].plan[k]
             new == Posted(k, n)
  <1>1. thread[w].at = "post" /\ EntryKeeps /\ UNCHANGED rows
    BY SMTT(60) DEF Create
  <1>2. \/ /\ rm' = Append(rm, new) /\ UNCHANGED spent
           /\ thread' = [thread EXCEPT ![w].at = "populate", ![w].hit = Len(rm) + 1]
           /\ log' = [log EXCEPT !.current = FALSE, !.twice = @ \/ NameTaken(n)]
        \/ /\ rm' = rm \o <<new, new>> /\ Fault
           /\ thread' = [thread EXCEPT ![w].at = "populate", ![w].hit = Len(rm) + 2]
           /\ log' = [log EXCEPT !.current = FALSE, !.twice = TRUE]
        \/ /\ rm' = Append(rm, new) /\ Fault /\ EntryFails(w)
           /\ log' = [log EXCEPT !.current = FALSE, !.twice = @ \/ NameTaken(n)]
    BY DEF Create, Posted
  <1>3. k \in Keys /\ n \in Names
    BY <1>1, MakerHolds DEF Makes, Making
  <1>4. new \in Portfolio /\ new.number = Number(k, n)
    BY <1>3 DEF Posted, Portfolio, Number
  <1> HIDE DEF new
  <1>5. Len(rm) \in Nat
    BY DEF Typed, WorldTyped
  <1>6. UNCHANGED <<version, lookups>>
    BY <1>1 DEF EntryKeeps
  <1>7. WorldTyped' /\ WorldGrows
    BY <1>2, <1>4, <1>6, OneMore, TwoMore
  <1>8. HandsTyped'
    <2>1. CASE rm' = Append(rm, new) /\ thread' = [thread EXCEPT ![w].at = "populate", ![w].hit = Len(rm) + 1]
      <3>1. Len(rm) + 1 \in DOMAIN rm' /\ rm'[Len(rm) + 1] = new /\ Len(rm) + 1 \in Nat
        BY <1>4, <1>5, <1>6, <2>1, OneMore
      <3> QED
        BY <1>1, <1>4, <1>7, <2>1, <3>1, GoesToPopulate
    <2>2. CASE rm' = rm \o <<new, new>> /\ thread' = [thread EXCEPT ![w].at = "populate", ![w].hit = Len(rm) + 2]
      <3>1. Len(rm) + 2 \in DOMAIN rm' /\ rm'[Len(rm) + 2] = new /\ Len(rm) + 2 \in Nat
        BY <1>4, <1>5, <1>6, <2>2, TwoMore
      <3> QED
        BY <1>1, <1>4, <1>7, <2>2, <3>1, GoesToPopulate
    <2>3. CASE EntryFails(w)
      BY <1>1, <1>7, <2>3, NextEntryTyped DEF EntryFails, Makes
    <2> QED
      BY <1>2, <2>1, <2>2, <2>3
  <1>9. QueueTyped' /\ RequestsTyped' /\ UNCHANGED <<source, groupName, shown>>
    BY <1>1, <1>7, EntryFrame
  <1>10. StoredTyped'
    BY <1>1, <1>7, <1>9, StoredKept DEF stored
  <1>11. HistoryTyped'
    <2>1. log' \in Log
      BY <1>2 DEF Typed, HistoryTyped, Log, NameTaken
    <2>2. spent' \in [faults : Nat, changes : Nat]
      BY <1>2, FaultTyped DEF Typed, HistoryTyped
    <2> QED
      BY <1>9, <2>1, <2>2 DEF Typed, HistoryTyped
  <1> QED
    BY <1>7, <1>8, <1>9, <1>10, <1>11 DEF Typed

LEMMA PopulateTyped ==
    ASSUME Typed, NEW w \in Threads, Populate(w)
    PROVE  Typed'
  <1> DEFINE i == thread[w].hit
             k == thread[w].key
  <1>1. thread[w].at = "populate" /\ EntryKeeps /\ UNCHANGED <<rows, log>>
    BY DEF Populate
  <1>2. i \in DOMAIN rm /\ k \in Keys
    BY <1>1, MakerHolds DEF Makes, Making
  <1>3. WorldTyped' /\ WorldGrows
    <2>1. UNCHANGED <<version, lookups>>
      BY <1>1 DEF EntryKeeps
    <2>2. CASE UNCHANGED rm
      BY <2>1, <2>2, WorldKept DEF Typed, outside
    <2>3. CASE rm' = Added(i, k)
      <3>1. rm \in Seq(Portfolio) /\ rm[i] \in Portfolio
        BY <1>2 DEF Typed, WorldTyped
      <3>2. rm' = [rm EXCEPT ![i] = [rm[i] EXCEPT !.has = @ \cup {k}]]
        BY <1>2, <2>3 DEF Added
      <3>3. [rm[i] EXCEPT !.has = @ \cup {k}] \in Portfolio
        BY <1>2, <3>1 DEF Portfolio
      <3>4. rm' \in Seq(Portfolio) /\ Len(rm') = Len(rm) /\ DOMAIN rm' = DOMAIN rm
        BY <1>2, <3>1, <3>2, <3>3
      <3>5. \A j \in DOMAIN rm : rm'[j].name = rm[j].name /\ rm'[j].number = rm[j].number
        BY <1>2, <3>1, <3>2 DEF Portfolio
      <3> QED
        BY <2>1, <3>4, <3>5 DEF Typed, WorldTyped, WorldGrows
    <2> QED
      BY <2>2, <2>3 DEF Populate
  <1>4. HandsTyped'
    BY <1>1, <1>3, GoesOn, NextEntryTyped DEF Populate, EntryFails, Makes
  <1>5. QueueTyped' /\ RequestsTyped' /\ UNCHANGED <<source, groupName, shown>>
    BY <1>1, <1>3, EntryFrame
  <1>6. StoredTyped'
    BY <1>1, <1>3, <1>5, StoredKept DEF stored
  <1>7. HistoryTyped'
    BY <1>1, <1>5, HistoryKept DEF Populate
  <1> QED
    BY <1>3, <1>4, <1>5, <1>6, <1>7 DEF Typed
(* A row is inserted for a portfolio that has none, or a row is claimed. *)
LEMMA SavedTyped ==
    ASSUME Typed, NEW k \in Keys, NEW i \in DOMAIN rm, NEW after \in Saved(k, rm[i].name, i)
    PROVE  after \subseteq Row(rm) /\ OneRowPerId(after)
  <1> DEFINE n == rm[i].name
             new == [name |-> n, irp |-> i, key |-> k, live |-> TRUE]
             dead == {r \in rows : r.key = k /\ ~ r.live}
             claimed == IF RowOf(i) # {} THEN RowOf(i) ELSE dead
  <1>1. rm[i] \in Portfolio
    BY DEF Typed, WorldTyped
  <1>2. rows \subseteq Row(rm) /\ OneRowPerId(rows)
    BY DEF Typed, StoredTyped
  <1>3. new \in Row(rm) /\ new.irp = i
    BY <1>1 DEF Portfolio, Row
  <1>4. \/ after = rows
        \/ claimed = {} /\ after = rows \cup {new}
        \/ \E r \in claimed : after = (rows \ {r}) \cup {new}
    BY DEF Saved
  <1>5. RowOf(i) = {r \in rows : r.irp = i} /\ claimed \subseteq rows
    BY DEF RowOf
  <1> HIDE DEF new
  <1>6. CASE claimed = {} /\ after = rows \cup {new}
    BY <1>2, <1>3, <1>5, <1>6 DEF OneRowPerId
  <1>7. ASSUME NEW r \in claimed, after = (rows \ {r}) \cup {new}
        PROVE  after \subseteq Row(rm) /\ OneRowPerId(after)
    <2>1. \A s \in rows : s.irp = i => s = r
      BY <1>2, <1>5 DEF OneRowPerId
    <2> QED
      BY <1>2, <1>3, <1>7, <2>1 DEF OneRowPerId
  <1> QED
    BY <1>2, <1>4, <1>6, <1>7

LEMMA SaveTyped ==
    ASSUME Typed, NEW w \in Threads, Save(w)
    PROVE  Typed'
  <1> DEFINE t == thread[w]
             other == \E r \in RowOf(t.hit) : r.key \notin {None, t.key}
  <1>1. t.at = "save" /\ EntryKeeps /\ UNCHANGED <<rm, log, spent>>
    BY DEF Save
  <1>2. t.hit \in DOMAIN rm /\ t.key \in Keys
    BY <1>1, MakerHolds DEF Makes, Making
  <1>3. PICK after \in Saved(t.key, rm[t.hit].name, t.hit) :
          IF ~ other /\ OneRowPerKey(after)
            THEN rows' = after /\ NextEntry(w, {t.hit})
            ELSE EntryFails(w) /\ UNCHANGED rows
    BY DEF Save
  <1>4. WorldTyped' /\ WorldGrows
    BY <1>1, WorldKept DEF EntryKeeps, Typed, outside
  <1>5. QueueTyped' /\ RequestsTyped' /\ UNCHANGED <<source, groupName, shown, version>>
    BY <1>1, <1>4, EntryFrame
  <1>6. HandsTyped'
    BY <1>1, <1>2, <1>3, <1>4, NextEntryTyped DEF EntryFails, Makes
  <1>7. HistoryTyped'
    BY <1>1, <1>5, HistoryKept
  <1>8. StoredTyped'
    <2>1. CASE UNCHANGED rows
      BY <1>4, <1>5, <2>1, StoredKept DEF stored
    <2>2. CASE rows' = after /\ OneRowPerKey(after)
      <3>1. after \subseteq Row(rm) /\ OneRowPerId(after)
        BY <1>2, SavedTyped
      <3> QED
        BY <1>1, <1>5, <2>2, <3>1 DEF Typed, StoredTyped
    <2> QED
      BY <1>3, <2>1, <2>2
  <1> QED
    BY <1>4, <1>5, <1>6, <1>7, <1>8 DEF Typed

(* The refresh after a breakout is of the portfolios it has made or found. *)
LEMMA RefreshPlan ==
    ASSUME Typed, NEW h \in Breakouts, NEW is \in SUBSET (DOMAIN rm \cup {0})
    PROVE  PlanFor(Refresh(h), [i \in is |-> None], Len(rm)) /\ Refresh(h) \in Heads
  <1>1. is \in SUBSET (0..Len(rm))
    BY DEF Typed, WorldTyped
  <1>2. [i \in is |-> None] \in Blanks(Len(rm))
    BY <1>1 DEF Blanks
  <1>3. /\ Refresh(h) \in Refreshes
        /\ \A d \in Dims : Refresh(h) # Quick(d)
        /\ \A g \in Groups : Refresh(h) # Custom(g)
        /\ \A j \in 1..MaxLookups : Refresh(h) # After(j)
        /\ Refresh(h) \notin Syncs \cup {Lookup}
    BY HeadsApart
  <1> QED
    BY <1>2, <1>3, HeadsApart DEF PlanFor

LEMMA FinishTyped ==
    ASSUME Typed, NEW w \in Threads, Finish(w)
    PROVE  Typed'
  <1> DEFINE t == thread[w]
  <1>1. t.at = "entry" /\ UNCHANGED <<outside, stored, request, shown, log, spent>>
    BY DEF Finish
  <1>2. WorldTyped' /\ WorldGrows /\ StoredTyped' /\ RequestsTyped' /\ HistoryTyped'
    BY <1>1, WorldKept, StoredKept, RequestsKept, HistoryKept DEF Typed
  <1>3. HandsTyped'
    BY <1>1, <1>2, EndsTyped DEF Finish
  <1>4. QueueTyped'
    <2>1. CASE UNCHANGED queue
      BY <1>2, <2>1, QueueKept
    <2>2. CASE Arm(Refresh(t.head), [i \in t.done |-> None])
      <3>1. t.head \in Breakouts /\ t.done \in SUBSET (DOMAIN rm \cup {0})
        BY <1>1, MakerHolds DEF Makes, Making
      <3>2. PlanFor(Refresh(t.head), [i \in t.done |-> None], Len(rm)) /\ Refresh(t.head) \in Heads
        BY <3>1, RefreshPlan
      <3>3. Len(rm) \in Nat /\ rm' = rm
        BY <1>1 DEF Typed, WorldTyped, outside
      <3> QED
        BY <2>2, <3>2, <3>3, ArmTyped DEF Typed
    <2> QED
      BY <2>1, <2>2 DEF Finish
  <1> QED
    BY <1>2, <1>3, <1>4 DEF Typed

-----------------------------------------------------------------------------
(* Hazard lookups *)

LEMMA LookupFrame ==
    ASSUME Typed, LookupKeeps, lookups' \in Seq(LookupJob), Len(lookups') <= MaxLookups,
           Len(lookups) <= Len(lookups'), version' \in Nat, version <= version', UNCHANGED spent \/ Fault
    PROVE  WorldTyped' /\ WorldGrows /\ StoredTyped' /\ RequestsTyped' /\ HistoryTyped'
  <1>1. WorldTyped' /\ WorldGrows
    BY DEF LookupKeeps, Typed, WorldTyped, WorldGrows
  <1> QED
    BY <1>1, StoredKept, RequestsKept, HistoryKept DEF LookupKeeps

LEMMA SubmitLookupTyped ==
    ASSUME Typed, NEW w \in Threads, SubmitLookup(w)
    PROVE  Typed'
  <1> DEFINE t == thread[w]
  <1>1. /\ t.at = "submit" /\ LookupKeeps /\ UNCHANGED <<version, queue>>
        /\ \/ /\ Len(lookups) < MaxLookups /\ lookups' = Append(lookups, [state |-> "running", tracked |-> FALSE])
              /\ thread' = [thread EXCEPT ![w].at = "record", ![w].hit = Len(lookups) + 1]
              /\ UNCHANGED spent
           \/ Fails(w) /\ UNCHANGED lookups
    BY DEF SubmitLookup, Accepted
  <1>2. lookups \in Seq(LookupJob) /\ Len(lookups) \in Nat /\ version \in Nat /\ MaxLookups \in Nat /\ Len(lookups) <= MaxLookups
    BY PortfolioBreakoutAssumption DEF Typed, WorldTyped
  <1>3. CASE Fails(w) /\ UNCHANGED lookups
    <2>1. WorldTyped' /\ WorldGrows /\ StoredTyped' /\ RequestsTyped' /\ HistoryTyped'
      BY <1>1, <1>2, <1>3, LookupFrame DEF Fails
    <2> QED
      BY <1>1, <1>3, <2>1, QueueKept, FailsTyped DEF Typed
  <1>4. CASE /\ Len(lookups) < MaxLookups /\ lookups' = Append(lookups, [state |-> "running", tracked |-> FALSE])
             /\ thread' = [thread EXCEPT ![w].at = "record", ![w].hit = Len(lookups) + 1] /\ UNCHANGED spent
    <2>1. [state |-> "running", tracked |-> FALSE] \in LookupJob
      BY DEF LookupJob
    <2>2. lookups' \in Seq(LookupJob) /\ Len(lookups') = Len(lookups) + 1
      BY <1>2, <1>4, <2>1
    <2>3. WorldTyped' /\ WorldGrows /\ StoredTyped' /\ RequestsTyped' /\ HistoryTyped'
      BY <1>1, <1>2, <1>4, <2>2, LookupFrame
    <2> DEFINE s == [t EXCEPT !.at = "record", !.hit = Len(lookups) + 1]
    <2>4. t \in Hand /\ Fits(t, rm, version, Len(lookups))
      BY DEF Typed, HandsTyped
    <2>10. Len(lookups) + 1 \in Nat /\ "record" \in ThreadAt
      BY <1>2 DEF ThreadAt
    <2>5. s \in Hand
      BY <2>4, <2>10 DEF Hand
    <2>6. thread' \in [Threads -> Hand] /\ thread'[w] = s
      BY <1>4, <2>5 DEF Typed, HandsTyped
    <2>7. rm' = rm
      BY <1>1 DEF LookupKeeps
    <2>8. Fits(s, rm', version', Len(lookups'))
      BY <1>1, <1>2, <2>2, <2>4, <2>7 DEF Fits, Hand
    <2>9. HandsTyped'
      BY <1>4, <2>3, <2>6, <2>8, HandsStep DEF Typed, HandsTyped
    <2> QED
      BY <1>1, <2>3, <2>9, QueueKept DEF Typed
  <1> QED
    BY <1>1, <1>3, <1>4

LEMMA RecordLookupTyped ==
    ASSUME Typed, NEW w \in Threads, RecordLookup(w)
    PROVE  Typed'
  <1> DEFINE j == thread[w].hit
  <1>1. /\ thread[w].at = "record" /\ Ends(w, "succeeded") /\ UNCHANGED spent
        /\ lookups' = [lookups EXCEPT ![j].tracked = TRUE] /\ LookupKeeps /\ UNCHANGED <<version, queue>>
    BY DEF RecordLookup
  <1>2. lookups \in Seq(LookupJob) /\ Len(lookups) \in Nat /\ version \in Nat /\ Len(lookups) <= MaxLookups
    BY DEF Typed, WorldTyped
  <1>3. j \in 1..Len(lookups) /\ lookups[j] \in LookupJob
    BY <1>1, <1>2 DEF Typed, HandsTyped, Fits
  <1>4. [lookups[j] EXCEPT !.tracked = TRUE] \in LookupJob
    BY <1>3 DEF LookupJob
  <1>5. lookups' \in Seq(LookupJob) /\ Len(lookups') = Len(lookups)
    BY <1>1, <1>2, <1>3, <1>4
  <1>6. WorldTyped' /\ WorldGrows /\ StoredTyped' /\ RequestsTyped' /\ HistoryTyped'
    BY <1>1, <1>2, <1>5, LookupFrame
  <1> QED
    BY <1>1, <1>6, QueueKept, EndsTyped DEF Typed

(* The refresh after a lookup is of the source alone. *)
LEMMA AfterPlan ==
    ASSUME Typed, NEW j \in 1..MaxLookups
    PROVE  PlanFor(After(j), [i \in {0} |-> None], Len(rm)) /\ After(j) \in Heads
  <1>1. {0} \in SUBSET (0..Len(rm))
    BY DEF Typed, WorldTyped
  <1>2. [i \in {0} |-> None] \in Blanks(Len(rm)) /\ DOMAIN [i \in {0} |-> None] = {0}
    BY <1>1 DEF Blanks
  <1>3. /\ After(j) \in Refreshes
        /\ \A d \in Dims : After(j) # Quick(d)
        /\ \A g \in Groups : After(j) # Custom(g)
        /\ After(j) \notin Syncs \cup {Lookup}
    BY HeadsApart
  <1> QED
    BY <1>2, <1>3, HeadsApart DEF PlanFor

LEMMA PollTyped ==
    ASSUME Typed, NEW j \in DOMAIN lookups, Poll(j)
    PROVE  Typed'
  <1>1. /\ lookups' = [lookups EXCEPT ![j].state = "polled"]
        /\ LookupKeeps /\ UNCHANGED <<version, thread, spent>>
        /\ UNCHANGED queue \/ Arm(After(j), [i \in {0} |-> None])
    BY DEF Poll
  <1>2. /\ lookups \in Seq(LookupJob) /\ Len(lookups) \in Nat /\ version \in Nat /\ Len(lookups) <= MaxLookups
        /\ lookups[j] \in LookupJob /\ j \in 1..MaxLookups
    BY PortfolioBreakoutAssumption DEF Typed, WorldTyped
  <1>3. [lookups[j] EXCEPT !.state = "polled"] \in LookupJob
    BY <1>2 DEF LookupJob
  <1>4. lookups' \in Seq(LookupJob) /\ Len(lookups') = Len(lookups)
    BY <1>1, <1>2, <1>3
  <1>5. WorldTyped' /\ WorldGrows /\ StoredTyped' /\ RequestsTyped' /\ HistoryTyped'
    BY <1>1, <1>2, <1>4, LookupFrame
  <1>6. QueueTyped'
    <2>1. PlanFor(After(j), [i \in {0} |-> None], Len(rm)) /\ After(j) \in Heads
      BY <1>2, AfterPlan
    <2>2. Len(rm) \in Nat /\ rm' = rm
      BY <1>1 DEF Typed, WorldTyped, LookupKeeps
    <2> QED
      BY <1>1, <1>5, <2>1, <2>2, QueueKept, ArmTyped DEF Typed
  <1> QED
    BY <1>1, <1>5, <1>6, HandsKept DEF Typed
-----------------------------------------------------------------------------
(* Requests *)

LEMMA RequestFrame ==
    ASSUME Typed, RequestKeeps
    PROVE  WorldTyped' /\ WorldGrows /\ HandsTyped'
  BY WorldKept, HandsKept DEF RequestKeeps, Typed

LEMMA HistoryOfRequests ==
    ASSUME Typed, shown' \subseteq Requests, UNCHANGED <<log, spent>>
    PROVE  HistoryTyped'
  BY DEF Typed, HistoryTyped

LEMMA NoRequestTyped ==
    /\ NoRequest \in Request /\ RequestFits(NoRequest)
    /\ [NoRequest EXCEPT !.at = "done"] \in Request /\ RequestFits([NoRequest EXCEPT !.at = "done"])
  <1>1. NoNames \in Plans
    BY NoNamesPlan
  <1> QED
    BY <1>1 DEF NoRequest, Request, RequestAt, RequestFits

LEMMA RequestStepTyped ==
    ASSUME Typed, NEW q \in Requests, request' \in [Requests -> Request],
           \A p \in Requests : p # q => request'[p] = request[p], RequestFits(request'[q])
    PROVE  RequestsTyped'
  BY DEF Typed, RequestsTyped

LEMMA DropTyped ==
    ASSUME Typed, NEW q \in Requests, Drop(q)
    PROVE  RequestsTyped'
  BY NoRequestTyped, RequestStepTyped DEF Drop, Typed, RequestsTyped

(* No cart is a dimension. *)
LEMMA CartsApart ==
    ASSUME NEW d \in Dims
    PROVE  ~ (d \subseteq Groups)
  BY PortfolioBreakoutAssumption

LEMMA OpenModalTyped ==
    ASSUME Typed, NEW q \in Requests, OpenModal(q)
    PROVE  Typed'
  <1>1. WorldTyped' /\ WorldGrows /\ HandsTyped' /\ StoredTyped' /\ QueueTyped'
    BY WorldKept, HandsKept, StoredKept, QueueKept DEF OpenModal, Typed
  <1>2. HistoryTyped'
    BY HistoryOfRequests DEF OpenModal, Typed, HistoryTyped
  <1>3. RequestsTyped'
    <2>1. PICK what \in Dims \cup ((SUBSET Groups) \ {{}}) :
             request' = [request EXCEPT ![q] = [NoRequest EXCEPT !.at = "modal", !.what = what]]
      BY DEF OpenModal
    <2>2. what # {} /\ what \in Dims \cup SUBSET Groups
      <3>1. \A d \in Dims : d # {}
        BY PortfolioBreakoutAssumption
      <3> QED
        BY <2>1, <3>1
    <2> DEFINE r == [NoRequest EXCEPT !.at = "modal", !.what = what]
    <2>3. r \in Request /\ RequestFits(r)
      BY <2>2, NoRequestTyped DEF NoRequest, Request, RequestAt, RequestFits
    <2> QED
      BY <2>1, <2>3, RequestStepTyped DEF Typed, RequestsTyped
  <1> QED
    BY <1>1, <1>2, <1>3 DEF Typed

LEMMA ConfirmTyped ==
    ASSUME Typed, NEW q \in Requests, Confirm(q)
    PROVE  Typed'
  <1>1. WorldTyped' /\ WorldGrows /\ HandsTyped' /\ StoredTyped' /\ QueueTyped'
    BY RequestFrame, StoredKept, QueueKept DEF Confirm, RequestKeeps, stored
  <1>2. HistoryTyped'
    BY HistoryOfRequests DEF Confirm, RequestKeeps, Typed, HistoryTyped
  <1>3. RequestsTyped'
    <2>1. CASE Drop(q)
      BY <2>1, DropTyped
    <2>2. CASE request' = [request EXCEPT ![q].at = "fresh", ![q].summary = source.summary,
                                         ![q].read = source.stamp]
      <3> DEFINE r == [request[q] EXCEPT !.at = "fresh", !.summary = source.summary, !.read = source.stamp]
      <3>1. request[q] \in Request /\ RequestFits(request[q]) /\ request[q].at = "modal"
        BY DEF Confirm, Typed, RequestsTyped
      <3>2. source.summary \in Nat /\ source.stamp \in Nat
        BY DEF Typed, StoredTyped
      <3>3. r \in Request /\ RequestFits(r)
        BY <3>1, <3>2 DEF Request, RequestAt, RequestFits
      <3>4. request' = [request EXCEPT ![q] = r]
        BY <2>2
      <3> QED
        BY <3>3, <3>4, RequestStepTyped DEF Typed, RequestsTyped
    <2> QED
      BY <2>1, <2>2 DEF Confirm
  <1> QED
    BY <1>1, <1>2, <1>3 DEF Typed

LEMMA ComposeTyped ==
    ASSUME Typed, NEW q \in Requests, Compose(q)
    PROVE  Typed'
  <1> DEFINE what == request[q].what
  <1>1. WorldTyped' /\ WorldGrows /\ HandsTyped' /\ StoredTyped' /\ QueueTyped'
    BY RequestFrame, StoredKept, QueueKept DEF Compose, RequestKeeps, stored
  <1>2. HistoryTyped'
    BY HistoryOfRequests DEF Compose, RequestKeeps, Typed, HistoryTyped
  <1>3. RequestsTyped'
    <2>1. request[q] \in Request /\ RequestFits(request[q]) /\ request[q].at = "fresh"
      BY DEF Compose, Typed, RequestsTyped
    <2>2. CASE Drop(q)
      BY <2>2, DropTyped
    <2>3. ASSUME what \in Dims, NEW f \in QuickNames(what),
                 request' = [request EXCEPT ![q].at = "arm", ![q].names = f]
          PROVE  RequestsTyped'
      <3> DEFINE r == [request[q] EXCEPT !.at = "arm", !.names = f]
      <3>1. f \in [what -> Names]
        BY DEF QuickNames
      <3>2. f \in Plans
        BY <2>3, <3>1 DEF Plans
      <3>3. r \in Request
        BY <2>1, <3>2 DEF Request, RequestAt
      <3>4. RequestFits(r)
        BY <2>1, <2>3, <3>1 DEF RequestFits, Request
      <3>5. request' = [request EXCEPT ![q] = r]
        BY <2>3
      <3> QED
        BY <3>3, <3>4, <3>5, RequestStepTyped DEF Typed, RequestsTyped
    <2>4. ASSUME what \subseteq Groups, NEW f \in CartNames(what),
                 request' = [request EXCEPT ![q].at = "stamp", ![q].names = f]
          PROVE  RequestsTyped'
      <3> DEFINE r == [request[q] EXCEPT !.at = "stamp", !.names = f]
      <3>1. f \in [what -> Names]
        BY DEF CartNames
      <3>2. f \in Plans
        BY <2>4, <3>1 DEF Plans
      <3>3. r \in Request
        BY <2>1, <3>2 DEF Request, RequestAt
      <3>4. RequestFits(r)
        BY <2>1, <2>4, <3>1 DEF RequestFits, Request
      <3>5. request' = [request EXCEPT ![q] = r]
        BY <2>4
      <3> QED
        BY <3>3, <3>4, <3>5, RequestStepTyped DEF Typed, RequestsTyped
    <2> QED
      BY <2>2, <2>3, <2>4 DEF Compose
  <1> QED
    BY <1>1, <1>2, <1>3 DEF Typed

LEMMA StampGroupTyped ==
    ASSUME Typed, NEW q \in Requests, StampGroup(q)
    PROVE  Typed'
  <1> DEFINE r == request[q]
  <1>1. WorldTyped' /\ WorldGrows /\ HandsTyped' /\ QueueTyped' /\ UNCHANGED <<rows, source, outside>>
    BY RequestFrame, QueueKept DEF StampGroup, RequestKeeps
  <1>2. HistoryTyped'
    BY HistoryOfRequests DEF StampGroup, RequestKeeps, Typed, HistoryTyped
  <1>3. r \in Request /\ RequestFits(r) /\ r.at = "stamp"
    BY DEF StampGroup, Typed, RequestsTyped
  <1>4. r.what \subseteq Groups /\ r.what \subseteq DOMAIN r.names /\ r.names \in Plans
    BY <1>3 DEF RequestFits, Request
  <1>5. CASE Drop(q) /\ UNCHANGED groupName
    <2>1. StoredTyped'
      BY <1>1, <1>5, StoredKept DEF stored
    <2> QED
      BY <1>1, <1>2, <1>5, <2>1, DropTyped DEF Typed
  <1>6. ASSUME NEW g \in r.what, groupName' = [groupName EXCEPT ![g] = r.names[g]],
               request' = [request EXCEPT ![q].at = "arm", ![q].group = g]
        PROVE  Typed'
    <2> DEFINE s == [r EXCEPT !.at = "arm", !.group = g]
    <2>1. r.names[g] \in Names /\ g \in Groups
      <3>1. \A p \in Plans : \A k \in DOMAIN p : p[k] \in Names
        BY DEF Plans
      <3> QED
        BY <1>4, <3>1
    <2>2. StoredTyped'
      BY <1>1, <1>6, <2>1 DEF Typed, StoredTyped, outside
    <2>3. s \in Request
      BY <1>3, <2>1 DEF Request, RequestAt
    <2>4. RequestFits(s)
      BY <1>3, <1>4 DEF RequestFits, Request
    <2>5. request' = [request EXCEPT ![q] = s]
      BY <1>6
    <2>6. RequestsTyped'
      BY <2>3, <2>4, <2>5, RequestStepTyped DEF Typed, RequestsTyped
    <2> QED
      BY <1>1, <1>2, <2>2, <2>6 DEF Typed
  <1> QED
    BY <1>5, <1>6 DEF StampGroup

LEMMA ArmBreakoutTyped ==
    ASSUME Typed, NEW q \in Requests, ArmBreakout(q)
    PROVE  Typed'
  <1> DEFINE r == request[q]
  <1>1. WorldTyped' /\ WorldGrows /\ HandsTyped' /\ StoredTyped' /\ rm' = rm /\ Len(rm) \in Nat /\ UNCHANGED spent
    BY RequestFrame, StoredKept DEF ArmBreakout, RequestKeeps, stored, outside, Typed, WorldTyped
  <1>2. r \in Request /\ RequestFits(r) /\ r.at = "arm"
    BY DEF ArmBreakout, Typed, RequestsTyped
  <1>3. CASE r.what \in Dims
    <2>1. /\ Arm(Quick(r.what), r.names) /\ Drop(q) /\ UNCHANGED shown
          /\ log' = [log EXCEPT !.renamed = @ \/ (~ Active(Quick(r.what)) /\ Renames(r.what, r.names))]
      BY <1>3 DEF ArmBreakout
    <2>2. r.names \in [r.what -> Names]
      BY <1>2, <1>3, CartsApart DEF RequestFits
    <2>3. PlanFor(Quick(r.what), r.names, Len(rm)) /\ Quick(r.what) \in Heads
      <3>1. /\ \A d \in Dims : Quick(r.what) = Quick(d) => r.what = d
            /\ \A g \in Groups : Quick(r.what) # Custom(g)
            /\ Quick(r.what) \in Breakouts /\ Breakouts \subseteq Heads
            /\ Breakouts \cap (Refreshes \cup Syncs \cup {Lookup}) = {}
            /\ \A j \in 1..MaxLookups : After(j) \in Refreshes
        BY <1>3, HeadsApart
      <3> QED
        BY <2>2, <3>1 DEF PlanFor
    <2>4. QueueTyped'
      BY <1>1, <2>1, <2>3, ArmTyped DEF Typed
    <2>5. log' \in Log
      BY <2>1 DEF Typed, HistoryTyped, Log, Active, Renames
    <2>6. HistoryTyped'
      BY <1>1, <2>1, <2>5 DEF Typed, HistoryTyped
    <2> QED
      BY <1>1, <2>1, <2>4, <2>6, DropTyped DEF Typed
  <1>4. CASE r.what \notin Dims
    <2> DEFINE g == r.group
               s == [r EXCEPT !.at = "stamp", !.what = @ \ {g}]
    <2>1. /\ Arm(Custom(g), [k \in {g} |-> r.names[k]]) /\ UNCHANGED <<shown, log>>
          /\ request' = [request EXCEPT ![q].at = "stamp", ![q].what = @ \ {g}]
      BY <1>4 DEF ArmBreakout
    <2>2. r.what \subseteq Groups /\ r.what \subseteq DOMAIN r.names /\ g \in r.what /\ r.names \in Plans
      BY <1>2, <1>4 DEF RequestFits, Request
    <2>3. r.names[g] \in Names /\ g \in Groups
      <3>1. \A p \in Plans : \A k \in DOMAIN p : p[k] \in Names
        BY DEF Plans
      <3> QED
        BY <2>2, <3>1
    <2>4. PlanFor(Custom(g), [k \in {g} |-> r.names[k]], Len(rm)) /\ Custom(g) \in Heads
      <3>1. /\ \A e \in Groups : Custom(g) = Custom(e) => g = e
            /\ \A d \in Dims : Quick(d) # Custom(g)
            /\ Custom(g) \in Breakouts /\ Breakouts \subseteq Heads
            /\ Breakouts \cap (Refreshes \cup Syncs \cup {Lookup}) = {}
            /\ \A j \in 1..MaxLookups : After(j) \in Refreshes
        BY <2>3, HeadsApart
      <3>2. [k \in {g} |-> r.names[k]] \in [{g} -> Names]
        BY <2>3
      <3> QED
        BY <3>1, <3>2 DEF PlanFor
    <2>5. QueueTyped'
      BY <1>1, <2>1, <2>4, ArmTyped DEF Typed
    <2>6. HistoryTyped'
      BY <1>1, <2>1, HistoryOfRequests DEF Typed, HistoryTyped
    <2>7. s \in Request
      BY <1>2, <2>2 DEF Request, RequestAt
    <2>8. RequestFits(s)
      BY <1>2, <2>2 DEF RequestFits, Request
    <2>9. request' = [request EXCEPT ![q] = s]
      BY <2>1
    <2>10. RequestsTyped'
      BY <2>7, <2>8, <2>9, RequestStepTyped DEF Typed, RequestsTyped
    <2> QED
      BY <1>1, <2>5, <2>6, <2>10 DEF Typed
  <1> QED
    BY <1>3, <1>4

(* A sync and a lookup have no plan. *)
LEMMA NoPlan ==
    ASSUME NEW h \in Syncs \cup {Lookup}, NEW n
    PROVE  PlanFor(h, NoNames, n) /\ h \in Heads
  <1>1. /\ h \in Heads /\ h \notin Breakouts /\ h \notin Refreshes
    BY HeadsApart
  <1> QED
    BY <1>1, HeadsApart DEF PlanFor

LEMMA AskTyped ==
    ASSUME Typed, NEW q \in Requests, Ask(q)
    PROVE  Typed'
  <1>0. RequestKeeps /\ UNCHANGED <<rm, shown, stored, log, spent>>
    BY DEF Ask, RequestKeeps, stored, outside
  <1>1. WorldTyped' /\ WorldGrows /\ HandsTyped' /\ StoredTyped' /\ rm' = rm /\ Len(rm) \in Nat
    BY <1>0, RequestFrame, StoredKept DEF Typed, WorldTyped
  <1>2. HistoryTyped'
    BY HistoryOfRequests DEF Ask, RequestKeeps, Typed, HistoryTyped
  <1>3. CASE Arm(Sync, NoNames) /\ Drop(q)
    BY <1>1, <1>2, <1>3, NoPlan, ArmTyped, DropTyped DEF Typed, Syncs
  <1>4. CASE To(q, "arm lookup") /\ UNCHANGED queue /\ request[q].at = "idle"
    <2> DEFINE r == [request[q] EXCEPT !.at = "arm lookup"]
    <2>1. r \in Request /\ RequestFits(r)
      BY DEF Typed, RequestsTyped, Request, RequestAt, RequestFits
    <2>2. RequestsTyped'
      BY <1>4, <2>1, RequestStepTyped DEF To, Typed, RequestsTyped
    <2> QED
      BY <1>1, <1>2, <1>4, <2>2, QueueKept DEF Typed
  <1>5. ASSUME NEW h \in Heads, heads[h] = "failed", Arm(h, input[h]), Drop(q)
        PROVE  Typed'
    <2>1. PlanFor(h, input[h], Len(rm))
      BY <1>5 DEF Typed, QueueTyped
    <2> QED
      BY <1>1, <1>2, <1>5, <2>1, ArmTyped, DropTyped DEF Typed
  <1> QED
    BY <1>3, <1>4, <1>5 DEF Ask

LEMMA ArmLookupTyped ==
    ASSUME Typed, NEW q \in Requests, ArmLookup(q)
    PROVE  Typed'
  <1>0. RequestKeeps /\ UNCHANGED <<rm, shown, stored, log, spent>>
    BY DEF ArmLookup, RequestKeeps, stored, outside
  <1>1. WorldTyped' /\ WorldGrows /\ HandsTyped' /\ StoredTyped' /\ rm' = rm /\ Len(rm) \in Nat
    BY <1>0, RequestFrame, StoredKept DEF Typed, WorldTyped
  <1>2. HistoryTyped'
    BY HistoryOfRequests DEF ArmLookup, RequestKeeps, Typed, HistoryTyped
  <1> QED
    BY <1>1, <1>2, NoPlan, ArmTyped, DropTyped DEF ArmLookup, Typed, Syncs

-----------------------------------------------------------------------------
(* Risk Modeler, and every step *)

LEMMA LookupEndsTyped ==
    ASSUME Typed, NEW j \in DOMAIN lookups, LookupEnds(j)
    PROVE  Typed'
  <1>1. PICK st \in LookupResults :
           lookups' = [lookups EXCEPT ![j].state = st] /\ version' \in {version, version + 1}
    BY DEF LookupEnds, LookupResults
  <1>2. lookups \in Seq(LookupJob) /\ Len(lookups) \in Nat /\ version \in Nat /\ Len(lookups) <= MaxLookups /\ lookups[j] \in LookupJob
    BY DEF Typed, WorldTyped
  <1>3. [lookups[j] EXCEPT !.state = st] \in LookupJob
    BY <1>2 DEF LookupJob
  <1>4. lookups' \in Seq(LookupJob) /\ Len(lookups') = Len(lookups)
    BY <1>1, <1>2, <1>3
  <1>5. UNCHANGED <<rm, log, spent, stored, queue, thread, request, shown>>
    BY DEF LookupEnds, Elsewhere
  <1>6. version' \in Nat /\ version <= version'
    BY <1>1, <1>2
  <1>7. WorldTyped' /\ WorldGrows
    BY <1>2, <1>4, <1>5, <1>6 DEF Typed, WorldTyped, WorldGrows
  <1> QED
    BY <1>5, <1>7, StoredKept, QueueKept, HandsKept, RequestsKept, HistoryKept DEF Typed

LEMMA DeletePortfolioTyped ==
    ASSUME Typed, NEW i \in DOMAIN rm, DeletePortfolio(i)
    PROVE  Typed'
  <1>1. /\ rm' = [rm EXCEPT ![i].live = FALSE] /\ log' = [log EXCEPT !.current = FALSE]
        /\ UNCHANGED <<version, lookups, stored, queue, thread, request, shown>>
        /\ spent' = [spent EXCEPT !.changes = @ + 1]
    BY DEF DeletePortfolio, Elsewhere, Change
  <1>2. rm \in Seq(Portfolio) /\ rm[i] \in Portfolio
    BY DEF Typed, WorldTyped
  <1>3. [rm[i] EXCEPT !.live = FALSE] \in Portfolio
    BY <1>2 DEF Portfolio
  <1>4. rm' \in Seq(Portfolio) /\ Len(rm') = Len(rm) /\ DOMAIN rm' = DOMAIN rm
    BY <1>1, <1>2, <1>3
  <1>5. \A j \in DOMAIN rm : rm'[j].name = rm[j].name /\ rm'[j].number = rm[j].number
    BY <1>1, <1>2 DEF Portfolio
  <1>6. WorldTyped' /\ WorldGrows
    BY <1>1, <1>4, <1>5 DEF Typed, WorldTyped, WorldGrows
  <1>7. HistoryTyped'
    <2>1. spent' \in [faults : Nat, changes : Nat]
      BY <1>1 DEF Typed, HistoryTyped
    <2>2. log' \in Log
      BY <1>1 DEF Typed, HistoryTyped, Log
    <2> QED
      BY <1>1, <2>1, <2>2 DEF Typed, HistoryTyped
  <1> QED
    BY <1>1, <1>6, <1>7, StoredKept, QueueKept, HandsKept, RequestsKept DEF Typed

LEMMA InitTyped ==
    ASSUME Init
    PROVE  Typed
  <1>1. WorldTyped
    <2>1. MaxLookups \in Nat
      BY PortfolioBreakoutAssumption
    <2> QED
      BY <2>1 DEF Init, WorldTyped
  <1>2. StoredTyped
    BY DEF Init, StoredTyped, OneRowPerId, OneRowPerKey
  <1>3. QueueTyped
    <2>1. NoNames \in Work /\ Import \in Heads /\ PlanFor(Import, NoNames, 0)
      BY NoNamesPlan, NoPlan DEF Syncs
    <2> QED
      BY <2>1 DEF Init, QueueTyped, HeadStatus
  <1>4. HandsTyped
    BY EmptyHandFits DEF Init, HandsTyped
  <1>5. RequestsTyped
    BY NoRequestTyped DEF Init, RequestsTyped
  <1>6. HistoryTyped
    BY DEF Init, HistoryTyped, Log
  <1> QED
    BY <1>1, <1>2, <1>3, <1>4, <1>5, <1>6 DEF Typed

LEMMA NextTyped ==
    ASSUME Typed, [Next]_vars
    PROVE  Typed'
  <1>1. ASSUME NEW w \in Threads, NEW h \in Heads, Claim(w, h) PROVE Typed'
    BY <1>1, ClaimTyped
  <1>2. ASSUME NEW w \in Threads, SyncStep(w) PROVE Typed'
    BY <1>2, ListTyped, SummariseTyped, PruneTyped, StoreTyped, StoreDoneTyped DEF SyncStep
  <1>3. ASSUME NEW w \in Threads, BreakoutStep(w) PROVE Typed'
    BY <1>3, SelectTyped, EntryTyped, LookUpNameTyped, CreateTyped, AdoptTyped, PopulateTyped,
       SaveTyped, FinishTyped DEF BreakoutStep
  <1>4. ASSUME NEW w \in Threads, LookupStep(w) PROVE Typed'
    BY <1>4, SubmitLookupTyped, RecordLookupTyped DEF LookupStep
  <1>5. ASSUME NEW w \in Threads, Complete(w) \/ Crash(w) PROVE Typed'
    BY <1>5, CompleteTyped, CrashTyped
  <1>6. ASSUME NEW h \in Heads, Reclaim(h) PROVE Typed'
    BY <1>6, ReclaimTyped
  <1>7. ASSUME NEW q \in Requests, RequestStep(q) PROVE Typed'
    BY <1>7, OpenModalTyped, ConfirmTyped, ComposeTyped, StampGroupTyped, ArmBreakoutTyped,
       AskTyped, ArmLookupTyped DEF RequestStep
  <1>8. ASSUME NEW j \in DOMAIN lookups, Poll(j) \/ LookupEnds(j) PROVE Typed'
    BY <1>8, PollTyped, LookupEndsTyped
  <1>9. ASSUME NEW i \in DOMAIN rm, DeletePortfolio(i) PROVE Typed'
    BY <1>9, DeletePortfolioTyped
  <1>10. CASE UNCHANGED vars
    <2>1. UNCHANGED <<outside, stored, queue, thread, request, shown, log, spent>>
      BY SMTT(60), <1>10 DEF vars
    <2> QED
      BY <2>1, WorldKept, StoredKept, QueueKept, HandsKept, RequestsKept, HistoryKept DEF Typed
  <1> QED
    BY <1>1, <1>2, <1>3, <1>4, <1>5, <1>6, <1>7, <1>8, <1>9, <1>10 DEF Next

(* A post leaves what was there and adds a portfolio, of a name that none  *)
(* had unless the history says so.                                         *)
LEMMA CreateAdds ==
    ASSUME Typed, NEW w \in Threads, Create(w)
    PROVE  LET k == thread[w].key  n == thread[w].plan[k] IN
           /\ thread[w].at = "post" /\ k \in DOMAIN thread[w].plan /\ k \in Keys /\ n \in Names
           /\ Len(rm) \in Nat /\ DOMAIN rm = 1..Len(rm)
           /\ DOMAIN rm \subseteq DOMAIN rm' /\ \A i \in DOMAIN rm : rm'[i] = rm[i]
           /\ \A i \in DOMAIN rm' \ DOMAIN rm : rm'[i] = Posted(k, n)
           /\ log.twice => log'.twice
           /\ ~ log'.twice => ~ NameTaken(n) /\ DOMAIN rm' = DOMAIN rm \cup {Len(rm) + 1}
           /\ \E b \in BOOLEAN : log' = [log EXCEPT !.current = FALSE, !.twice = b]
           /\ UNCHANGED rows /\ UNCHANGED <<heads, input>>
           /\ \A v \in Threads : v # w => thread'[v] = thread[v]
           /\ \/ \E i \in Nat : thread' = [thread EXCEPT ![w].at = "populate", ![w].hit = i]
              \/ EntryFails(w)
  <1> DEFINE k == thread[w].key
             n == thread[w].plan[k]
             new == Posted(k, n)
  <1>1. thread[w].at = "post" /\ UNCHANGED rows /\ EntryKeeps
    BY DEF Create
  <1>2. \/ /\ rm' = Append(rm, new)
           /\ thread' = [thread EXCEPT ![w].at = "populate", ![w].hit = Len(rm) + 1]
           /\ log' = [log EXCEPT !.current = FALSE, !.twice = @ \/ NameTaken(n)]
        \/ /\ rm' = rm \o <<new, new>>
           /\ thread' = [thread EXCEPT ![w].at = "populate", ![w].hit = Len(rm) + 2]
           /\ log' = [log EXCEPT !.current = FALSE, !.twice = TRUE]
        \/ /\ rm' = Append(rm, new) /\ EntryFails(w)
           /\ log' = [log EXCEPT !.current = FALSE, !.twice = @ \/ NameTaken(n)]
    BY DEF Create, Posted
  <1>3. k \in DOMAIN thread[w].plan /\ k \in Keys /\ n \in Names /\ Len(rm) \in Nat /\ DOMAIN rm = 1..Len(rm)
    BY <1>1, MakerHolds DEF Makes, Making
  <1>4. new \in Portfolio
    BY <1>3 DEF Posted, Portfolio, Number
  <1> HIDE DEF new
  <1>5. log \in Log /\ log = [log EXCEPT !.twice = log.twice]
    BY DEF Typed, HistoryTyped, Log
  <1>6. UNCHANGED <<version, lookups, heads, input>>
    BY <1>1 DEF EntryKeeps, queue
  <1>7. \A v \in Threads : v # w => thread'[v] = thread[v]
    BY <1>2 DEF Typed, HandsTyped, EntryFails, NextEntry
  <1>8. NameTaken(n) \in BOOLEAN
    BY DEF NameTaken
  <1>11. \/ \E i \in Nat : thread' = [thread EXCEPT ![w].at = "populate", ![w].hit = i]
         \/ EntryFails(w)
    <2>1. ASSUME NEW i \in Nat, thread' = [thread EXCEPT ![w].at = "populate", ![w].hit = i]
          PROVE  \E j \in Nat : thread' = [thread EXCEPT ![w].at = "populate", ![w].hit = j]
      <3> WITNESS i \in Nat
      <3> QED
        BY <2>1
    <2>2. Len(rm) + 1 \in Nat /\ Len(rm) + 2 \in Nat
      BY <1>3
    <2> HIDE DEF n, k
    <2> QED
      BY <1>2, <2>1, <2>2
  <1>9. CASE /\ rm' = Append(rm, new)
             /\ log' = [log EXCEPT !.current = FALSE, !.twice = @ \/ NameTaken(n)]
    <2>1. /\ DOMAIN rm' = DOMAIN rm \cup {Len(rm) + 1}
          /\ \A i \in DOMAIN rm : rm'[i] = rm[i]
          /\ rm'[Len(rm) + 1] = new
      BY <1>4, <1>6, <1>9, OneMore
    <2>2. log'.twice = (log.twice \/ NameTaken(n))
      BY <1>5, <1>9 DEF Log
    <2>3. \E b \in BOOLEAN : log' = [log EXCEPT !.current = FALSE, !.twice = b]
      BY <1>5, <1>8, <1>9 DEF Log
    <2>4. \A i \in DOMAIN rm' \ DOMAIN rm : rm'[i] = new
      BY <2>1
    <2> QED
      BY <1>1, <1>3, <1>6, <1>7, <2>1, <2>2, <2>3, <2>4, <1>11 DEF new
  <1>10. CASE /\ rm' = rm \o <<new, new>>
              /\ log' = [log EXCEPT !.current = FALSE, !.twice = TRUE]
    <2>1. /\ DOMAIN rm' = DOMAIN rm \cup {Len(rm) + 1, Len(rm) + 2}
          /\ \A i \in DOMAIN rm : rm'[i] = rm[i]
          /\ rm'[Len(rm) + 1] = new /\ rm'[Len(rm) + 2] = new
      BY <1>4, <1>6, <1>10, TwoMore
    <2>2. log'.twice = TRUE
      BY <1>5, <1>10 DEF Log
    <2>3. \E b \in BOOLEAN : log' = [log EXCEPT !.current = FALSE, !.twice = b]
      BY <1>10
    <2>4. \A i \in DOMAIN rm' \ DOMAIN rm : rm'[i] = new
      BY <2>1
    <2> QED
      BY <1>1, <1>3, <1>6, <1>7, <2>1, <2>2, <2>3, <2>4, <1>11 DEF new
  <1> QED
    BY <1>2, <1>9, <1>10

(* Typed is inductive, and holds. *)
THEOREM TypedAlways == Spec => []Typed
  <1>1. Init => Typed
    BY InitTyped
  <1>2. Typed /\ [Next]_vars => Typed'
    BY NextTyped
  <1> QED
    BY <1>1, <1>2, PTL DEF Spec

LEMMA WorkFits ==
    ASSUME Typed, NEW w \in Threads
    PROVE  thread[w].plan \in Plans \cup Blanks(Len(rm))
  <1>1. thread[w] \in Hand /\ Fits(thread[w], rm, version, Len(lookups)) /\ Len(rm) \in Nat
    BY DEF Typed, HandsTyped, WorldTyped
  <1>2. CASE thread[w].at \in {"idle", "succeeded", "failed"}
    BY <1>1, <1>2, NoNamesPlan DEF Fits
  <1>3. CASE thread[w].at \notin {"idle", "succeeded", "failed"}
    <2>1. thread[w].head \in Heads /\ PlanFor(thread[w].head, thread[w].plan, Len(rm))
      BY <1>1, <1>3 DEF Fits
    <2> QED
      BY <1>1, <2>1, PlanForWork
  <1> QED
    BY <1>2, <1>3

(* Every variable keeps its type, and the two unique indexes of            *)
(* irp_portfolio hold, however syncs, breakouts and lookups interleave.    *)
THEOREM BreakoutTypeCorrect == Spec => []TypeOK
  <1>1. ASSUME Typed PROVE TypeOK
    <2>1. /\ rm \in Seq([name : Names, number : Keys \cup Names, has : SUBSET Keys, live : BOOLEAN])
          /\ version \in Nat
          /\ lookups \in Seq([state : {"running", "polled"} \cup LookupResults, tracked : BOOLEAN])
          /\ Len(rm) \in Nat /\ DOMAIN rm = 1..Len(rm)
      BY <1>1 DEF Typed, WorldTyped, Portfolio, LookupJob
    <2>2. /\ rows \subseteq [name : Names, irp : DOMAIN rm, key : Keys \cup {None}, live : BOOLEAN]
          /\ OneRowPerId(rows) /\ OneRowPerKey(rows)
          /\ source \in [stamp : Nat, summary : Nat]
          /\ groupName \in [Groups -> Names \cup {None}]
      BY <1>1 DEF Typed, StoredTyped, Row
    <2>3. heads \in [Heads -> {"none", "pending", "running", "failed"}]
      BY <1>1 DEF Typed, QueueTyped, HeadStatus
    <2>4. ASSUME NEW h \in Breakouts PROVE input[h] \in Plans
      <3>1. h \in Heads
        BY HeadsApart
      <3>2. CASE heads[h] = "none"
        BY <1>1, <3>1, <3>2, NoNamesPlan DEF Typed, QueueTyped
      <3>3. CASE heads[h] # "none"
        BY <1>1, <2>1, <3>1, <3>3, PlanForWork DEF Typed, QueueTyped
      <3> QED
        BY <3>2, <3>3
    <2>5. ASSUME NEW h \in Refreshes PROVE DOMAIN input[h] \subseteq {0} \cup DOMAIN rm
      <3>1. h \in Heads
        BY HeadsApart
      <3>2. CASE heads[h] = "none"
        BY <1>1, <3>1, <3>2, NoNamesPlan DEF Typed, QueueTyped
      <3>3. CASE heads[h] # "none"
        <4>1. DOMAIN input[h] \subseteq 0..Len(rm)
          BY <1>1, <2>1, <3>1, <3>3, PlanForWork DEF Typed, QueueTyped
        <4> QED
          BY <2>1, <4>1
      <3> QED
        BY <3>2, <3>3
    <2>6. ASSUME NEW w \in Threads
          PROVE  thread[w] \in [at : ThreadAt, head : Heads \cup {None}, plan : Plans \cup Blanks(Len(rm)), todo : SUBSET (Keys \cup Nat),
                     key : Keys \cup {None}, hit : Nat, done : SUBSET Nat, seen : SUBSET Nat,
                     stamp : Nat, summary : Nat]
      <3>1. thread[w] \in Hand
        BY <1>1 DEF Typed, HandsTyped
      <3> QED
        BY <1>1, <3>1, WorkFits DEF Hand
    <2>7. thread \in [Threads -> [at : ThreadAt, head : Heads \cup {None}, plan : Plans \cup {[i \in is |-> None] : is \in SUBSET (0..Len(rm))}, todo : SUBSET (Keys \cup Nat),
                     key : Keys \cup {None}, hit : Nat, done : SUBSET Nat, seen : SUBSET Nat,
                     stamp : Nat, summary : Nat]]
      <3>1. thread = [w \in Threads |-> thread[w]]
        BY <1>1 DEF Typed, HandsTyped
      <3> QED
        BY <2>6, <3>1 DEF Blanks
    <2>8. \A q \in Requests : request[q].at \in RequestAt /\ request[q].names \in Plans
      BY <1>1 DEF Typed, RequestsTyped, Request
    <2>9. shown \subseteq Requests /\ log \in Log
      BY <1>1 DEF Typed, HistoryTyped
    <2> QED
      BY <2>1, <2>2, <2>3, <2>4, <2>5, <2>7, <2>8, <2>9 DEF TypeOK
  <1> QED
    BY <1>1, TypedAlways, PTL

-----------------------------------------------------------------------------
(* What a sub-portfolio holds was added by an entry whose number it has. *)
Holds(m) == \A i \in DOMAIN m : \A k \in m[i].has : \E n \in Names : m[i].number = Number(k, n)

(* The steps that change Risk Modeler's portfolios. *)
LEMMA PortfoliosMove ==
    ASSUME [Next]_vars
    PROVE  \/ UNCHANGED rm
           \/ \E w \in Threads : Populate(w) \/ Create(w)
           \/ \E i \in DOMAIN rm : DeletePortfolio(i)
  <1>1. ASSUME NEW w \in Threads, SyncStep(w) PROVE UNCHANGED rm
    BY <1>1 DEF SyncStep, List, Summarise, Prune, Store, StoreDone, SyncKeeps, outside
  <1>2. ASSUME NEW w \in Threads, BreakoutStep(w) PROVE Populate(w) \/ Create(w) \/ UNCHANGED rm
    BY SMTT(60), <1>2 DEF BreakoutStep, Select, Entry, LookUpName, Adopt, Save, Finish, Unmoved, outside
  <1>3. ASSUME NEW q \in Requests, RequestStep(q) PROVE UNCHANGED rm
    BY <1>3 DEF RequestStep, OpenModal, Confirm, Compose, StampGroup, ArmBreakout, Ask, ArmLookup,
       RequestKeeps, outside
  <1>4. ASSUME NEW w \in Threads, (\E h \in Heads : Claim(w, h)) \/ LookupStep(w) \/ Complete(w) \/ Crash(w)
        PROVE  UNCHANGED rm
    BY <1>4 DEF Claim, LookupStep, SubmitLookup, RecordLookup, LookupKeeps, Complete, Crash, outside
  <1>5. ASSUME NEW j, Poll(j) \/ LookupEnds(j) \/ Reclaim(j) PROVE UNCHANGED rm
    BY <1>5 DEF Poll, LookupEnds, Reclaim, LookupKeeps, Elsewhere, outside
  <1>6. CASE UNCHANGED vars
    BY <1>6 DEF vars, outside
  <1> QED
    BY <1>1, <1>2, <1>3, <1>4, <1>5, <1>6 DEF Next

LEMMA HoldsNext ==
    ASSUME Typed, Holds(rm), [Next]_vars
    PROVE  Holds(rm)'
  <1>1. rm \in Seq(Portfolio)
    BY DEF Typed, WorldTyped
  <1>2. ASSUME NEW w \in Threads, Populate(w) PROVE Holds(rm)'
    <2> DEFINE i == thread[w].hit
               k == thread[w].key
    <2>1. CASE UNCHANGED rm
      BY <2>1 DEF Holds
    <2>2. CASE rm' = Added(i, k)
      <3>1. Making(thread[w], rm) /\ PlanFor(thread[w].head, thread[w].plan, Len(rm)) /\ Len(rm) \in Nat
        BY <1>2 DEF Populate, Typed, HandsTyped, Fits, WorldTyped
      <3>2. i \in DOMAIN rm /\ rm[i].number = Number(k, thread[w].plan[k]) /\ k \in DOMAIN thread[w].plan
        BY <1>2, <3>1 DEF Populate, Making
      <3>3. thread[w].plan[k] \in Names
        BY <1>2, <3>2, MakerHolds DEF Populate, Makes
      <3>4. DOMAIN rm' = DOMAIN rm /\ \A j \in DOMAIN rm : rm'[j].number = rm[j].number
        BY <1>1, <2>2 DEF Added, Portfolio
      <3>5. \A j \in DOMAIN rm : rm'[j].has \subseteq rm[j].has \cup (IF j = i THEN {k} ELSE {})
        BY <1>1, <2>2, <3>2 DEF Added, Portfolio
      <3> QED
        BY <3>2, <3>3, <3>4, <3>5 DEF Holds
    <2> QED
      BY <1>2, <2>1, <2>2 DEF Populate
  <1>3. ASSUME NEW w \in Threads, Create(w) PROVE Holds(rm)'
    <2> DEFINE p == Posted(thread[w].key, thread[w].plan[thread[w].key])
    <2>1. \A i \in DOMAIN rm' \ DOMAIN rm : rm'[i] = p
      BY <1>3, CreateAdds
    <2>2. \A i \in DOMAIN rm : rm'[i] = rm[i]
      BY <1>3, CreateAdds
    <2>3. p.has = {}
      BY DEF Posted
    <2> HIDE DEF p
    <2> QED
      BY <2>1, <2>2, <2>3 DEF Holds
  <1>4. ASSUME NEW i \in DOMAIN rm, DeletePortfolio(i) PROVE Holds(rm)'
    <2>1. rm' = [rm EXCEPT ![i].live = FALSE]
      BY <1>4 DEF DeletePortfolio
    <2>2. DOMAIN rm' = DOMAIN rm /\ \A j \in DOMAIN rm : rm'[j].number = rm[j].number /\ rm'[j].has = rm[j].has
      BY <1>1, <2>1 DEF Portfolio
    <2> QED
      BY <2>2 DEF Holds
  <1>5. CASE UNCHANGED rm
    BY <1>5 DEF Holds
  <1> QED
    BY <1>2, <1>3, <1>4, <1>5, PortfoliosMove

(* The accounts of two breakouts never meet in one sub-portfolio, but for  *)
(* two groups, or a group named by the number of a value.                  *)
THEOREM AccountsKeptApartAlways == Spec => []AccountsKeptApart
  <1>1. Init => Holds(rm)
    BY DEF Init, Holds
  <1>2. Typed /\ Holds(rm) /\ [Next]_vars => Holds(rm)'
    BY HoldsNext
  <1>3. ASSUME Holds(rm) PROVE AccountsKeptApart
    <2> SUFFICES ASSUME NEW i \in DOMAIN rm, NEW j \in rm[i].has, NEW k \in rm[i].has, j # k
                 PROVE  /\ rm[i].number \in Names
                        /\ {j, k} \subseteq Groups \cup {rm[i].number}
      BY DEF AccountsKeptApart
    <2>1. \A x \in rm[i].has : \E n \in Names : rm[i].number = Number(x, n)
      BY <1>3 DEF Holds
    <2> QED
      BY <2>1 DEF Number
  <1> QED
    BY <1>1, <1>2, <1>3, TypedAlways, PTL DEF Spec

-----------------------------------------------------------------------------
(* One portfolio for a value *)

QuickHeads == {Quick(d) : d \in Dims}
Values == (UNION Dims) \ Names

LEMMA QuickHeadsAre ==
    /\ QuickHeads \subseteq Breakouts /\ QuickHeads \subseteq Heads
    /\ QuickHeads \cap (Refreshes \cup Syncs \cup {Lookup}) = {}
    /\ \A g \in Groups : Custom(g) \notin QuickHeads
    /\ \A d \in Dims : Quick(d) \in QuickHeads
  BY HeadsApart DEF QuickHeads

(* The live portfolios of a value's number have the name plan p gives it. *)
Agrees(m, k, p) == \A i \in DOMAIN m : m[i].live /\ m[i].number = k => m[i].name = p[k]
Rowless(rr, k) == \A r \in rr : ~ (r.live /\ r.key = k)

(* Of the values ks, those without a row have no portfolio of another name *)
(* than plan p gives them.                                                 *)
Spelt(m, rr, ks, p) == \A k \in Values : k \in ks /\ Rowless(rr, k) => Agrees(m, k, p)
Alone(m) == \A i, j \in DOMAIN m :
    m[i].live /\ m[j].live /\ m[i].number = m[j].number /\ m[i].number \in Values => i = j

(* A thread that may yet post a sub-portfolio of a quick breakout. *)
MayPost(t) == t.head \in QuickHeads /\ (t.at \in {"create", "post"} \/ t.todo # {})
HandSpelt(t, m, rr) ==
    MayPost(t) => /\ Spelt(m, rr, t.todo, t.plan)
                  /\ t.at \in {"create", "post"} /\ t.key \in Values => Agrees(m, t.key, t.plan)

Flagged(l) == l.renamed \/ l.hidden \/ l.twice
QueueSpelt == \A d \in Dims : heads[Quick(d)] # "none" => Spelt(rm, rows, d, input[Quick(d)])
HandsSpelt == \A w \in Threads : HandSpelt(thread[w], rm, rows)
PlansAlike ==
    /\ \A w \in Threads : MayPost(thread[w]) /\ heads[thread[w].head] # "none"
          => thread[w].plan = input[thread[w].head]
    /\ \A w, v \in Threads : MayPost(thread[w]) /\ MayPost(thread[v]) /\ thread[w].head = thread[v].head
          => thread[w].plan = thread[v].plan
OneEach == Flagged(log) \/ (Alone(rm) /\ QueueSpelt /\ HandsSpelt /\ PlansAlike)

(* Between two worlds no value has got a portfolio or a name, and a value  *)
(* that has a portfolio has not lost its row.                              *)
Settles(m, rr, m2, r2) ==
    /\ \A i \in DOMAIN m2 : m2[i].live /\ m2[i].number \in Values =>
          i \in DOMAIN m /\ m[i].live /\ m[i].number = m2[i].number /\ m[i].name = m2[i].name
    /\ \A i \in DOMAIN m2 : m2[i].live /\ m2[i].number \in Values /\ Rowless(r2, m2[i].number)
          => Rowless(rr, m2[i].number)

LEMMA SettlesSpelt ==
    ASSUME NEW m, NEW rr, NEW m2, NEW r2, Settles(m, rr, m2, r2)
    PROVE  /\ Alone(m) => Alone(m2)
           /\ \A k \in Values : \A p : Agrees(m, k, p) => Agrees(m2, k, p)
           /\ \A ks, p : Spelt(m, rr, ks, p) => Spelt(m2, r2, ks, p)
           /\ \A t : HandSpelt(t, m, rr) => HandSpelt(t, m2, r2)
  <1>1. Alone(m) => Alone(m2)
    BY DEF Settles, Alone
  <1>2. \A k \in Values : \A p : Agrees(m, k, p) => Agrees(m2, k, p)
    BY DEF Settles, Agrees
  <1>3. ASSUME NEW ks, NEW p, Spelt(m, rr, ks, p) PROVE Spelt(m2, r2, ks, p)
    <2> SUFFICES ASSUME NEW k \in Values, k \in ks, Rowless(r2, k),
                        NEW i \in DOMAIN m2, m2[i].live, m2[i].number = k
                 PROVE  m2[i].name = p[k]
      BY DEF Spelt, Agrees
    <2>1. i \in DOMAIN m /\ m[i].live /\ m[i].number = k /\ m[i].name = m2[i].name /\ Rowless(rr, k)
      BY DEF Settles
    <2> QED
      BY <1>3, <2>1 DEF Spelt, Agrees
  <1> QED
    BY <1>1, <1>2, <1>3 DEF HandSpelt

(* A thread that goes on with its breakout: no new plan, no more to do,    *)
(* and at most one of what it had to do, without a row, at hand.           *)
GoesOnWith(s, t, rr) ==
    MayPost(s) => /\ s.head = t.head /\ s.plan = t.plan /\ s.todo \subseteq t.todo /\ MayPost(t)
                  /\ s.at \in {"create", "post"} =>
                        \/ t.at \in {"create", "post"} /\ s.key = t.key
                        \/ s.key \in t.todo /\ Rowless(rr, s.key)

LEMMA GoesOnSpelt ==
    ASSUME NEW s, NEW t, NEW m, NEW rr, GoesOnWith(s, t, rr), HandSpelt(t, m, rr)
    PROVE  HandSpelt(s, m, rr)
  BY DEF GoesOnWith, HandSpelt, Spelt

(* The steps that neither arm a quick breakout nor claim nor post. *)
LEMMA OneEachStill ==
    ASSUME OneEach, Flagged(log) => Flagged(log'),
           Settles(rm, rows, rm', rows') \/ Flagged(log'),
           \A h \in QuickHeads : heads'[h] # "none" => heads[h] # "none" /\ input'[h] = input[h],
           \A w \in Threads : GoesOnWith(thread'[w], thread[w], rows)
    PROVE  OneEach'
  <1> SUFFICES ASSUME ~ Flagged(log'), ~ Flagged(log), Settles(rm, rows, rm', rows')
               PROVE  Alone(rm') /\ QueueSpelt' /\ HandsSpelt' /\ PlansAlike'
    BY DEF OneEach
  <1>1. Alone(rm) /\ QueueSpelt /\ HandsSpelt /\ PlansAlike
    BY DEF OneEach
  <1>2. Alone(rm')
    BY <1>1, SettlesSpelt
  <1>3. QueueSpelt'
    BY <1>1, SettlesSpelt, QuickHeadsAre DEF QueueSpelt
  <1>4. HandsSpelt'
    <2> SUFFICES ASSUME NEW w \in Threads PROVE HandSpelt(thread'[w], rm', rows')
      BY DEF HandsSpelt
    <2>1. HandSpelt(thread'[w], rm, rows)
      BY <1>1, GoesOnSpelt DEF HandsSpelt
    <2> QED
      BY <2>1, SettlesSpelt
  <1>5. PlansAlike'
    <2>1. ASSUME NEW w \in Threads, MayPost(thread'[w])
          PROVE  thread'[w].head \in QuickHeads /\ MayPost(thread[w])
                 /\ thread'[w].head = thread[w].head /\ thread'[w].plan = thread[w].plan
      BY <2>1 DEF GoesOnWith, MayPost
    <2>2. ASSUME NEW w \in Threads, MayPost(thread'[w]), heads'[thread'[w].head] # "none"
          PROVE  thread'[w].plan = input'[thread'[w].head]
      BY <1>1, <2>1, <2>2 DEF PlansAlike
    <2>3. ASSUME NEW w \in Threads, NEW v \in Threads, MayPost(thread'[w]), MayPost(thread'[v]),
                 thread'[w].head = thread'[v].head
          PROVE  thread'[w].plan = thread'[v].plan
      BY <1>1, <2>1, <2>3 DEF PlansAlike
    <2> QED
      BY <2>2, <2>3 DEF PlansAlike
  <1> QED
    BY <1>2, <1>3, <1>4, <1>5

LEMMA SettlesStill ==
    ASSUME UNCHANGED <<rm, rows>>
    PROVE  Settles(rm, rows, rm', rows')
  BY DEF Settles

LEMMA GoesOnStill ==
    ASSUME NEW t, NEW rr
    PROVE  GoesOnWith(t, t, rr)
  BY DEF GoesOnWith

(* The rows that are live stay so, and those of each key. *)
RowsStay(rr, r2) == \A r \in rr : r.live /\ r.key \in Values => \E s \in r2 : s.live /\ s.key = r.key

LEMMA SettlesBy ==
    ASSUME NEW m, NEW rr, NEW m2, NEW r2, RowsStay(rr, r2),
           \A i \in DOMAIN m2 : m2[i].live =>
              i \in DOMAIN m /\ m[i].live /\ m[i].number = m2[i].number /\ m[i].name = m2[i].name
    PROVE  Settles(m, rr, m2, r2)
  BY DEF Settles, RowsStay, Rowless

LEMMA ValuesAreKeys ==
    Values \subseteq Keys /\ None \notin Values /\ Values \cap Groups = {} /\ Values \cap Names = {}
  <1>1. \A d \in Dims : d \cap Groups = {}
    BY PortfolioBreakoutAssumption
  <1>2. Values \subseteq Keys /\ Values \cap Groups = {} /\ Values \cap Names = {}
    BY <1>1 DEF Values, Keys
  <1> QED
    BY <1>2, PortfolioBreakoutAssumption

LEMMA PruneSettles ==
    ASSUME Typed, NEW w \in Threads, Prune(w), ~ log'.hidden
    PROVE  Settles(rm, rows, rm', rows')
  <1> DEFINE after == Pruned(thread[w].seen)
             hides == \E r \in LiveRows : r \notin after /\ (r.irp \in Live \/ Numbered(r.key) # {})
  <1>1. rm' = rm
    BY DEF Prune, SyncKeeps, outside
  <1>2. CASE UNCHANGED rows
    BY <1>1, <1>2, SettlesStill
  <1>3. CASE rows' = after /\ log' = [log EXCEPT !.hidden = @ \/ hides, !.current = FALSE, !.pruner = w]
    <2>1. ~ hides
      <3>1. log \in Log
        BY DEF Typed, HistoryTyped
      <3> HIDE DEF hides
      <3> QED
        BY <1>3, <3>1 DEF Log
    <2>2. ASSUME NEW i \in DOMAIN rm, rm[i].live, NEW r \in rows, r.live, r.key = rm[i].number
          PROVE  r \in rows'
      <3>1. i \in Numbered(r.key) /\ r \in LiveRows
        BY <2>2 DEF Numbered, Live, LiveRows
      <3> QED
        BY <1>3, <2>1, <3>1
    <2> QED
      BY <1>1, <2>2 DEF Settles, Rowless
  <1> QED
    BY <1>2, <1>3 DEF Prune

LEMMA UpsertedStays ==
    ASSUME Typed, NEW i \in DOMAIN rm
    PROVE  RowsStay(rows, Upserted(i))
  <1>1. rows \subseteq Row(rm)
    BY DEF Typed, StoredTyped
  <1>2. CASE RowOf(i) # {}
    <2> DEFINE image(r) == [r EXCEPT !.name = rm[i].name]
    <2>1. Upserted(i) = (rows \ RowOf(i)) \cup {image(r) : r \in RowOf(i)}
      BY <1>2 DEF Upserted
    <2>2. \A r \in rows : image(r).key = r.key /\ image(r).live = r.live
      BY <1>1 DEF Row
    <2> HIDE DEF image
    <2> QED
      BY <2>1, <2>2 DEF RowsStay
  <1>3. CASE RowOf(i) = {} /\ Named(rm[i].name) # {}
    <2> DEFINE image(r) == [r EXCEPT !.irp = i]
    <2>1. Upserted(i) = (rows \ Named(rm[i].name)) \cup {image(r) : r \in Named(rm[i].name)}
      BY <1>3 DEF Upserted
    <2>2. \A r \in rows : image(r).key = r.key /\ image(r).live = r.live
      BY <1>1 DEF Row
    <2> HIDE DEF image
    <2> QED
      BY <2>1, <2>2 DEF RowsStay
  <1>4. CASE RowOf(i) = {} /\ Named(rm[i].name) = {}
    BY <1>4 DEF Upserted, RowsStay
  <1> QED
    BY <1>2, <1>3, <1>4

(* A step of Store stores a portfolio of Risk Modeler, or no rows. *)
LEMMA StoreRows ==
    ASSUME Typed, NEW w \in Threads, Store(w)
    PROVE  UNCHANGED rows \/ \E i \in DOMAIN rm : rows' = Upserted(i)
  <1> DEFINE i == First(thread[w].todo)
  <1>1. UNCHANGED rows \/ (i # 0 /\ rows' = Upserted(i))
    BY DEF Store, First
  <1>2. i = 0 \/ i \in DOMAIN rm
    <2>1. thread[w].at = "store" /\ (thread[w].todo # {})
      BY DEF Store
    <2> QED
      BY <2>1, FirstToStore
  <1> HIDE DEF i
  <1> QED
    BY <1>1, <1>2

LEMMA SavedStays ==
    ASSUME Typed, NEW k \in Keys, NEW i \in DOMAIN rm, NEW after \in Saved(k, rm[i].name, i),
           \A r \in RowOf(i) : r.key \in {None, k}
    PROVE  RowsStay(rows, after)
  <1> DEFINE new == [name |-> rm[i].name, irp |-> i, key |-> k, live |-> TRUE]
             dead == {r \in rows : r.key = k /\ ~ r.live}
  <1>1. new.live /\ new.key = k
    OBVIOUS
  <1>2. \/ after = rows \/ after = rows \cup {new}
        \/ \E r \in RowOf(i) \cup dead : after = (rows \ {r}) \cup {new}
    BY DEF Saved
  <1>3. \A r \in RowOf(i) \cup dead : r.live => r.key \in {None, k}
    OBVIOUS
  <1>4. None \notin Values
    BY ValuesAreKeys
  <1> HIDE DEF new, dead
  <1> QED
    BY <1>1, <1>2, <1>3, <1>4 DEF RowsStay

LEMMA SaveSettles ==
    ASSUME Typed, NEW w \in Threads, Save(w)
    PROVE  Settles(rm, rows, rm', rows')
  <1>1. thread[w].at = "save" /\ rm' = rm
    BY DEF Save
  <1>2. thread[w].hit \in DOMAIN rm /\ thread[w].key \in Keys
    BY <1>1, MakerHolds DEF Makes, Making
  <1>3. CASE UNCHANGED rows
    BY <1>1, <1>3, SettlesStill
  <1>4. CASE rows' \in Saved(thread[w].key, rm[thread[w].hit].name, thread[w].hit)
             /\ ~ (\E r \in RowOf(thread[w].hit) : r.key \notin {None, thread[w].key})
    BY <1>1, <1>2, <1>4, SavedStays, SettlesBy
  <1> QED
    BY <1>3, <1>4 DEF Save

LEMMA PopulateSettles ==
    ASSUME Typed, NEW w \in Threads, Populate(w)
    PROVE  Settles(rm, rows, rm', rows')
  <1>1. rows' = rows /\ (UNCHANGED rm \/ rm' = Added(thread[w].hit, thread[w].key))
    BY DEF Populate
  <1>2. rm \in Seq(Portfolio)
    BY DEF Typed, WorldTyped
  <1>3. CASE rm' = Added(thread[w].hit, thread[w].key)
    <2>1. DOMAIN rm' = DOMAIN rm /\ \A j \in DOMAIN rm : rm'[j].number = rm[j].number
             /\ rm'[j].name = rm[j].name /\ rm'[j].live = rm[j].live
      BY <1>2, <1>3 DEF Added, Portfolio
    <2> QED
      BY <1>1, <2>1, SettlesBy DEF RowsStay
  <1> QED
    BY <1>1, <1>3, SettlesStill

LEMMA DeleteSettles ==
    ASSUME Typed, NEW i \in DOMAIN rm, DeletePortfolio(i)
    PROVE  Settles(rm, rows, rm', rows')
  <1>1. rows' = rows /\ rm' = [rm EXCEPT ![i].live = FALSE]
    BY DEF DeletePortfolio, Elsewhere, stored
  <1>2. rm \in Seq(Portfolio)
    BY DEF Typed, WorldTyped
  <1>3. DOMAIN rm' = DOMAIN rm /\ \A j \in DOMAIN rm : rm'[j].number = rm[j].number
             /\ rm'[j].name = rm[j].name /\ (rm'[j].live => rm[j].live)
    BY <1>1, <1>2 DEF Portfolio
  <1> QED
    BY <1>1, <1>3, SettlesBy DEF RowsStay

-----------------------------------------------------------------------------
LEMMA HandsGoOn ==
    ASSUME NEW w \in Threads, NEW rr, \A v \in Threads : v # w => thread'[v] = thread[v],
           GoesOnWith(thread'[w], thread[w], rr)
    PROVE  \A v \in Threads : GoesOnWith(thread'[v], thread[v], rr)
  BY GoesOnStill

LEMMA EndsGoesOn ==
    ASSUME Typed, NEW w \in Threads, NEW st \in {"succeeded", "failed"}, Ends(w, st) \/ Fails(w), NEW rr
    PROVE  \A v \in Threads : GoesOnWith(thread'[v], thread[v], rr)
  <1>1. PICK s \in {"succeeded", "failed"} : thread' = [thread EXCEPT ![w] = [EmptyHand EXCEPT !.at = s, !.head = thread[w].head]]
    BY DEF Ends, Fails
  <1>2. thread \in [Threads -> Hand]
    BY DEF Typed, HandsTyped
  <1>3. thread'[w].todo = {} /\ thread'[w].at = s
    BY <1>1, <1>2 DEF EmptyHand
  <1>4. GoesOnWith(thread'[w], thread[w], rr)
    BY <1>1, <1>3 DEF GoesOnWith, MayPost
  <1> QED
    BY <1>1, <1>2, <1>4, HandsGoOn

LEMMA EmptyGoesOn ==
    ASSUME Typed, NEW w \in Threads, thread' = [thread EXCEPT ![w] = EmptyHand], NEW rr
    PROVE  \A v \in Threads : GoesOnWith(thread'[v], thread[v], rr)
  <1>1. thread \in [Threads -> Hand]
    BY DEF Typed, HandsTyped
  <1>2. thread'[w].todo = {} /\ thread'[w].at = "idle"
    BY <1>1 DEF EmptyHand
  <1>3. GoesOnWith(thread'[w], thread[w], rr)
    BY <1>2 DEF GoesOnWith, MayPost
  <1> QED
    BY <1>1, <1>3, HandsGoOn

LEMMA NextEntryGoesOn ==
    ASSUME Typed, NEW w \in Threads, NEW ids, NextEntry(w, ids), NEW rr
    PROVE  \A v \in Threads : GoesOnWith(thread'[v], thread[v], rr)
  <1>1. thread \in [Threads -> Hand] /\ thread[w] \in Hand
    BY DEF Typed, HandsTyped
  <1>2. /\ thread'[w].todo = thread[w].todo /\ thread'[w].at = "entry"
        /\ thread'[w].head = thread[w].head /\ thread'[w].plan = thread[w].plan
        /\ \A v \in Threads : v # w => thread'[v] = thread[v]
    BY <1>1 DEF NextEntry, Hand
  <1>3. GoesOnWith(thread'[w], thread[w], rr)
    BY <1>2 DEF GoesOnWith, MayPost
  <1> QED
    BY <1>2, <1>3, HandsGoOn

LEMMA GoGoesOn ==
    ASSUME Typed, NEW w \in Threads, NEW at, Go(w, at), NEW rr,
           at = "post" => thread[w].at = "create", at # "create"
    PROVE  \A v \in Threads : GoesOnWith(thread'[v], thread[v], rr)
  <1>1. thread \in [Threads -> Hand] /\ thread[w] \in Hand
    BY DEF Typed, HandsTyped
  <1>2. /\ thread'[w].todo = thread[w].todo /\ thread'[w].at = at /\ thread'[w].key = thread[w].key
        /\ thread'[w].head = thread[w].head /\ thread'[w].plan = thread[w].plan
        /\ \A v \in Threads : v # w => thread'[v] = thread[v]
    BY <1>1 DEF Go, Hand
  <1>3. GoesOnWith(thread'[w], thread[w], rr)
    BY <1>2 DEF GoesOnWith, MayPost
  <1> QED
    BY <1>2, <1>3, HandsGoOn

LEMMA HitGoesOn ==
    ASSUME Typed, NEW w \in Threads, NEW i, thread' = [thread EXCEPT ![w].at = "populate", ![w].hit = i], NEW rr
    PROVE  \A v \in Threads : GoesOnWith(thread'[v], thread[v], rr)
  <1>1. thread \in [Threads -> Hand] /\ thread[w] \in Hand
    BY DEF Typed, HandsTyped
  <1>2. /\ thread'[w].todo = thread[w].todo /\ thread'[w].at = "populate"
        /\ thread'[w].head = thread[w].head /\ thread'[w].plan = thread[w].plan
        /\ \A v \in Threads : v # w => thread'[v] = thread[v]
    BY <1>1 DEF Hand
  <1>3. GoesOnWith(thread'[w], thread[w], rr)
    BY <1>2 DEF GoesOnWith, MayPost
  <1> QED
    BY <1>2, <1>3, HandsGoOn

(* The thread of another job is not one of a quick breakout. *)
LEMMA OtherGoesOn ==
    ASSUME NEW w \in Threads, thread'[w].head \notin QuickHeads, NEW rr,
           \A v \in Threads : v # w => thread'[v] = thread[v]
    PROVE  \A v \in Threads : GoesOnWith(thread'[v], thread[v], rr)
  BY HandsGoOn DEF GoesOnWith, MayPost

LEMMA EntryGoesOn ==
    ASSUME Typed, NEW w \in Threads, Entry(w)
    PROVE  \A v \in Threads : GoesOnWith(thread'[v], thread[v], rows)
  <1> DEFINE t == thread[w]
             k == CHOOSE x \in t.todo : TRUE
             took == [t EXCEPT !.todo = @ \ {k}]
             ids == {r.irp : r \in KeyRow(k)}
  <1>1. thread \in [Threads -> Hand] /\ t \in Hand /\ t.todo # {} /\ t.at = "entry"
    BY DEF Typed, HandsTyped, Entry
  <1>2. k \in t.todo
    BY <1>1
  <1>3. thread' = [thread EXCEPT ![w] =
          IF KeyRow(k) # {} THEN [took EXCEPT !.done = @ \cup ids]
                            ELSE [took EXCEPT !.at = "create", !.key = k]]
    BY DEF Entry
  <1> HIDE DEF k, ids
  <1>4. /\ took.head = t.head /\ took.plan = t.plan /\ took.todo = t.todo \ {k} /\ took.at = "entry"
        /\ took \in Hand
    BY <1>1 DEF Hand, ThreadAt
  <1> HIDE DEF took
  <1>5. CASE KeyRow(k) # {}
    <2>1. thread'[w] = [took EXCEPT !.done = @ \cup ids]
      BY <1>1, <1>3, <1>5
    <2>2. GoesOnWith(thread'[w], t, rows)
      BY <1>1, <1>4, <2>1 DEF GoesOnWith, MayPost, Hand
    <2> QED
      BY <1>1, <1>3, <2>2, HandsGoOn
  <1>6. CASE KeyRow(k) = {}
    <2>1. thread'[w] = [took EXCEPT !.at = "create", !.key = k]
      BY <1>1, <1>3, <1>6
    <2>2. Rowless(rows, k)
      BY <1>6 DEF KeyRow, LiveRows, Rowless
    <2>3. GoesOnWith(thread'[w], t, rows)
      BY <1>1, <1>2, <1>4, <2>1, <2>2 DEF GoesOnWith, MayPost, Hand
    <2> QED
      BY <1>1, <1>3, <2>3, HandsGoOn
  <1> QED
    BY <1>5, <1>6

(* The plan of a quick breakout is of the values of its dimension. *)
LEMMA QuickPlan ==
    ASSUME Typed, NEW d \in Dims, heads[Quick(d)] # "none"
    PROVE  DOMAIN input[Quick(d)] = d
  <1>1. Quick(d) \in Heads
    BY HeadsApart
  <1> QED
    BY <1>1 DEF Typed, QueueTyped, PlanFor

(* What a thread may yet post is a value of its dimension. *)
LEMMA PosterHolds ==
    ASSUME Typed, NEW w \in Threads, MayPost(thread[w]), NEW d \in Dims, thread[w].head = Quick(d)
    PROVE  /\ DOMAIN thread[w].plan = d /\ thread[w].todo \subseteq d
           /\ thread[w].at \in {"create", "post"} => thread[w].key \in d
  <1>1. /\ thread[w] \in Hand /\ Fits(thread[w], rm, version, Len(lookups))
    BY DEF Typed, HandsTyped
  <1>2. thread[w].at \in ThreadAt
    BY <1>1 DEF Hand
  <1>3. thread[w].head \notin Syncs \cup Refreshes \cup {Lookup}
    BY HeadsApart
  <1>4. thread[w].at \in Makes
    BY <1>1, <1>2, <1>3 DEF MayPost, Fits, Enumerating, ThreadAt, Makes
  <1> QED
    BY <1>4, MakerHolds DEF Making, PlanFor, Makes

LEMMA OneDimension ==
    ASSUME NEW d \in Dims, NEW e \in Dims, NEW k, k \in d, k \in e
    PROVE  d = e
  BY PortfolioBreakoutAssumption

LEMMA ClaimOneEach ==
    ASSUME Typed, OneEach, NEW w \in Threads, NEW h \in Heads, Claim(w, h)
    PROVE  OneEach'
  <1> SUFFICES ASSUME ~ Flagged(log)
               PROVE  Alone(rm') /\ QueueSpelt' /\ HandsSpelt' /\ PlansAlike'
    BY DEF OneEach, Claim
  <1>1. Alone(rm) /\ QueueSpelt /\ HandsSpelt /\ PlansAlike
    BY DEF OneEach
  <1>2. /\ UNCHANGED <<rm, rows, input>> /\ heads[h] = "pending" /\ heads' = [heads EXCEPT ![h] = "running"]
        /\ thread' = [thread EXCEPT ![w] = Approved(h)]
    BY DEF Claim, outside, stored
  <1>3. heads \in [Heads -> HeadStatus] /\ thread \in [Threads -> Hand]
    BY DEF Typed, QueueTyped, HandsTyped
  <1>4. \A q \in Heads : heads'[q] # "none" => heads[q] # "none"
    BY <1>2, <1>3
  <1>5. \A v \in Threads : v # w => thread'[v] = thread[v]
    BY <1>2, <1>3
  <1>6. /\ thread'[w].head = h /\ thread'[w].plan = input[h]
        /\ thread'[w].todo = (IF h \in Breakouts THEN DOMAIN input[h] ELSE {})
        /\ thread'[w].at \notin {"create", "post"}
    <2>1. thread'[w] = Approved(h)
      BY <1>2, <1>3
    <2>2. FirstStep(h) \notin {"create", "post"}
      BY DEF FirstStep
    <2> QED
      BY <2>1, <2>2 DEF Approved, EmptyHand
  <1>7. QueueSpelt'
    BY <1>1, <1>2, <1>4, QuickHeadsAre DEF QueueSpelt
  <1>8. HandsSpelt'
    <2>1. HandSpelt(thread'[w], rm, rows)
      <3>1. CASE h \in QuickHeads
        <4>1. PICK d \in Dims : h = Quick(d)
          BY <3>1 DEF QuickHeads
        <4>2. thread'[w].todo = d
          BY <1>2, <1>6, <3>1, <4>1, QuickPlan, QuickHeadsAre
        <4> QED
          BY <1>1, <1>2, <1>6, <4>1, <4>2 DEF QueueSpelt, HandSpelt
      <3>2. CASE h \notin QuickHeads
        BY <1>6, <3>2 DEF HandSpelt, MayPost
      <3> QED
        BY <3>1, <3>2
    <2> QED
      BY <1>1, <1>2, <1>5, <2>1 DEF HandsSpelt
  <1>9. PlansAlike'
    <2>1. ASSUME NEW v \in Threads, MayPost(thread'[v])
          PROVE  heads'[thread'[v].head] # "none" => thread'[v].plan = input'[thread'[v].head]
      BY <1>1, <1>2, <1>4, <1>5, <1>6, <2>1, QuickHeadsAre DEF PlansAlike, MayPost
    <2>2. ASSUME NEW v \in Threads, v # w, MayPost(thread'[v]), thread'[v].head = h
          PROVE  thread'[v].plan = input[h]
      BY <1>1, <1>2, <1>5, <2>2 DEF PlansAlike
    <2>3. ASSUME NEW u \in Threads, NEW v \in Threads, MayPost(thread'[u]), MayPost(thread'[v]),
                 thread'[u].head = thread'[v].head
          PROVE  thread'[u].plan = thread'[v].plan
      BY <1>1, <1>5, <1>6, <2>2, <2>3 DEF PlansAlike
    <2> QED
      BY <2>1, <2>3 DEF PlansAlike
  <1> QED
    BY <1>1, <1>2, <1>7, <1>8, <1>9

(* A post that is no repeat of a name gives a value its first portfolio,   *)
(* under the name that the queue and every other thread have for it.       *)
LEMMA CreateOneEach ==
    ASSUME Typed, OneEach, NEW w \in Threads, Create(w)
    PROVE  OneEach'
  <1> DEFINE t == thread[w]
             k == t.key
             n == t.plan[k]
  <1>1. /\ t.at = "post" /\ k \in DOMAIN t.plan /\ k \in Keys /\ n \in Names
        /\ Len(rm) \in Nat /\ DOMAIN rm = 1..Len(rm)
        /\ \A i \in DOMAIN rm : rm'[i] = rm[i]
        /\ UNCHANGED rows /\ UNCHANGED <<heads, input>>
    BY CreateAdds
  <1>2. \A i \in DOMAIN rm' \ DOMAIN rm : rm'[i] = Posted(k, n)
    BY CreateAdds
  <1>3. ~ log'.twice => ~ NameTaken(n) /\ DOMAIN rm' = DOMAIN rm \cup {Len(rm) + 1}
    BY CreateAdds
  <1>4. Flagged(log) => Flagged(log')
    <2>1. \E b \in BOOLEAN : log' = [log EXCEPT !.current = FALSE, !.twice = b]
      BY CreateAdds
    <2>2. log.twice => log'.twice
      BY CreateAdds
    <2>3. log \in Log
      BY DEF Typed, HistoryTyped
    <2> QED
      BY <2>1, <2>2, <2>3 DEF Flagged, Log
  <1>5. \A v \in Threads : GoesOnWith(thread'[v], thread[v], rows)
    <2>1. \/ \E i \in Nat : thread' = [thread EXCEPT ![w].at = "populate", ![w].hit = i]
          \/ EntryFails(w)
      BY CreateAdds
    <2> QED
      BY <2>1, HitGoesOn, NextEntryGoesOn DEF EntryFails
  <1>6. thread'[w].at \notin {"create", "post"}
    <2>1. \/ \E i \in Nat : thread' = [thread EXCEPT ![w].at = "populate", ![w].hit = i]
          \/ EntryFails(w)
      BY CreateAdds
    <2>2. thread \in [Threads -> Hand] /\ thread[w] \in Hand
      BY DEF Typed, HandsTyped
    <2> QED
      BY <2>1, <2>2 DEF EntryFails, NextEntry, Hand
  <1>7. Number(k, n) \notin Values => Settles(rm, rows, rm', rows')
    <2> SUFFICES ASSUME Number(k, n) \notin Values PROVE Settles(rm, rows, rm', rows')
      OBVIOUS
    <2>1. \A i \in DOMAIN rm' : rm'[i].number \in Values => i \in DOMAIN rm
      BY <1>2 DEF Posted
    <2> HIDE DEF k, n
    <2> QED
      BY <1>1, <2>1 DEF Settles
  <1>8. CASE Flagged(log')
    BY <1>8 DEF OneEach
  <1>9. CASE Number(k, n) \notin Values
    BY <1>1, <1>4, <1>5, <1>7, <1>9, OneEachStill
  <1>10. CASE ~ Flagged(log') /\ Number(k, n) \in Values
    <2>1. k \in Values /\ Number(k, n) = k
      BY <1>1, <1>10, ValuesAreKeys DEF Number
    <2>2. Alone(rm) /\ QueueSpelt /\ HandsSpelt /\ PlansAlike
      BY <1>4, <1>10 DEF OneEach
    <2>3. PICK d \in Dims : t.head = Quick(d) /\ k \in d
      <3>1. t.head \in Breakouts /\ PlanFor(t.head, t.plan, Len(rm))
        BY <1>1, MakerHolds DEF Makes
      <3>2. ASSUME NEW g \in Groups, t.head = Custom(g) PROVE FALSE
        <4>1. t.plan \in [{g} -> Names]
          BY <3>1, <3>2 DEF PlanFor
        <4>2. k = g
          BY <1>1, <4>1
        <4> QED
          BY <2>1, <4>2, ValuesAreKeys
      <3> QED
        BY <1>1, <3>1, <3>2, BreakoutKinds DEF PlanFor
    <2>4. MayPost(t) /\ t.head \in QuickHeads
      BY <1>1, <2>3, QuickHeadsAre DEF MayPost
    <2> DEFINE x == Len(rm) + 1
    <2>5. DOMAIN rm' = DOMAIN rm \cup {x} /\ x \notin DOMAIN rm
      BY <1>1, <1>3, <1>10 DEF Flagged
    <2>6. rm'[x].name = n /\ rm'[x].number = k /\ rm'[x].live
      <3>1. rm'[x] = Posted(k, n)
        BY <1>2, <2>5
      <3> QED
        BY <2>1, <3>1 DEF Posted
    <2>7. \A i \in DOMAIN rm : rm[i].live => rm[i].name # n
      BY <1>3, <1>10 DEF Flagged, NameTaken, Live
    <2>8. Agrees(rm, k, t.plan)
      BY <1>1, <2>1, <2>2, <2>4 DEF HandsSpelt, HandSpelt
    <2>9. \A i \in DOMAIN rm : rm[i].live => rm[i].number # k
      BY <2>7, <2>8 DEF Agrees
    <2> HIDE DEF x, k, n
    <2>10. Alone(rm')
      BY <1>1, <2>2, <2>5, <2>6, <2>9 DEF Alone
    <2>11. ASSUME NEW j \in Values, NEW p, Agrees(rm, j, p), j = k => p[k] = n
           PROVE  Agrees(rm', j, p)
      BY <1>1, <2>5, <2>6, <2>11 DEF Agrees
    <2>12. ASSUME NEW ks, NEW p, Spelt(rm, rows, ks, p), k \in ks => p[k] = n
           PROVE  Spelt(rm', rows', ks, p)
      BY <1>1, <2>11, <2>12 DEF Spelt
    <2>13. QueueSpelt'
      <3> SUFFICES ASSUME NEW e \in Dims, heads[Quick(e)] # "none"
                   PROVE  Spelt(rm', rows', e, input[Quick(e)])
        BY <1>1 DEF QueueSpelt
      <3>1. ASSUME k \in e PROVE input[Quick(e)][k] = n
        <4>1. e = d
          BY <2>3, <3>1, OneDimension
        <4> QED
          BY <2>2, <2>3, <2>4, <4>1 DEF PlansAlike, n
      <3> QED
        BY <2>2, <2>12, <3>1 DEF QueueSpelt
    <2>14. HandsSpelt'
      <3> SUFFICES ASSUME NEW v \in Threads, MayPost(thread'[v])
                   PROVE  HandSpelt(thread'[v], rm', rows')
        BY DEF HandsSpelt, HandSpelt
      <3>1. HandSpelt(thread'[v], rm, rows)
        BY <1>5, <2>2, GoesOnSpelt DEF HandsSpelt
      <3>2. MayPost(thread[v]) /\ thread'[v].head = thread[v].head /\ thread'[v].plan = thread[v].plan
            /\ thread'[v].todo \subseteq thread[v].todo
            /\ (thread'[v].at \in {"create", "post"} =>
                  \/ thread[v].at \in {"create", "post"} /\ thread'[v].key = thread[v].key
                  \/ thread'[v].key \in thread[v].todo)
        BY <1>5 DEF GoesOnWith
      <3>3. PICK e \in Dims : thread[v].head = Quick(e)
        BY <3>2 DEF MayPost, QuickHeads
      <3>4. thread[v].todo \subseteq e /\ (thread[v].at \in {"create", "post"} => thread[v].key \in e)
        BY <3>2, <3>3, PosterHolds
      <3>5. ASSUME k \in e PROVE thread'[v].plan[k] = n
        <4>1. e = d
          BY <2>3, <3>5, OneDimension
        <4> QED
          BY <2>2, <2>3, <2>4, <3>2, <3>3, <4>1 DEF PlansAlike, n
      <3>6. Spelt(rm', rows', thread'[v].todo, thread'[v].plan)
        BY <2>12, <3>1, <3>2, <3>4, <3>5 DEF HandSpelt
      <3>7. ASSUME thread'[v].at \in {"create", "post"}, thread'[v].key \in Values
            PROVE  Agrees(rm', thread'[v].key, thread'[v].plan)
        <4>1. thread'[v].key \in e
          BY <3>2, <3>4, <3>7
        <4>2. Agrees(rm, thread'[v].key, thread'[v].plan)
          BY <3>1, <3>7 DEF HandSpelt
        <4> QED
          BY <2>11, <3>5, <3>7, <4>1, <4>2
      <3> QED
        BY <3>6, <3>7 DEF HandSpelt
    <2>15. PlansAlike'
      <3>1. ASSUME NEW v \in Threads, MayPost(thread'[v])
            PROVE  MayPost(thread[v]) /\ thread'[v].head = thread[v].head /\ thread'[v].plan = thread[v].plan
        BY <1>5, <3>1 DEF GoesOnWith
      <3> QED
        BY <1>1, <2>2, <3>1 DEF PlansAlike
    <2> QED
      BY <2>10, <2>13, <2>14, <2>15 DEF OneEach
  <1> QED
    BY <1>8, <1>9, <1>10

(* A plan that is armed without a flag agrees with the portfolios there    *)
(* are and with the threads of earlier plans.                              *)
LEMMA ArmOneEach ==
    ASSUME Typed, OneEach, NEW q \in Requests, ArmBreakout(q)
    PROVE  OneEach'
  <1> DEFINE r == request[q]
             d == r.what
             names == r.names
  <1>1. UNCHANGED <<rm, rows, thread>> /\ r.at = "arm"
    BY DEF ArmBreakout, RequestKeeps, outside
  <1>2. \A v \in Threads : GoesOnWith(thread'[v], thread[v], rows)
    BY <1>1, GoesOnStill
  <1>3. r \in Request /\ RequestFits(r) /\ heads \in [Heads -> HeadStatus] /\ input \in [Heads -> Work] /\ log \in Log
    BY DEF Typed, RequestsTyped, QueueTyped, HistoryTyped
  <1>4. CASE d \notin Dims
    <2>1. Arm(Custom(r.group), [k \in {r.group} |-> r.names[k]]) /\ UNCHANGED log
      BY <1>4 DEF ArmBreakout
    <2>2. r.group \in Groups
      BY <1>1, <1>3, <1>4 DEF RequestFits
    <2>3. Custom(r.group) \notin QuickHeads /\ Custom(r.group) \in Heads
      BY <2>2, QuickHeadsAre, HeadsApart
    <2>4. \A h \in QuickHeads : heads'[h] = heads[h] /\ input'[h] = input[h]
      BY <1>3, <2>1, <2>3, QuickHeadsAre DEF Arm, queue
    <2> QED
      BY <1>1, <1>2, <2>1, <2>4, SettlesStill, OneEachStill
  <1>5. CASE d \in Dims
    <2>1. /\ Arm(Quick(d), names)
          /\ log' = [log EXCEPT !.renamed = @ \/ (~ Active(Quick(d)) /\ Renames(d, names))]
      BY <1>5 DEF ArmBreakout
    <2>2. Flagged(log) => Flagged(log')
      BY <1>3, <2>1 DEF Flagged, Log
    <2>3. CASE Active(Quick(d))
      <3>1. UNCHANGED <<heads, input>>
        BY <2>1, <2>3 DEF Arm, queue
      <3> QED
        BY <1>1, <1>2, <2>2, <3>1, SettlesStill, OneEachStill
    <2>4. CASE ~ Active(Quick(d)) /\ ~ Flagged(log')
      <3>1. heads' = [heads EXCEPT ![Quick(d)] = "pending"] /\ input' = [input EXCEPT ![Quick(d)] = names]
        BY <2>1, <2>4 DEF Arm
      <3>2. ~ Renames(d, names)
        BY <1>3, <2>1, <2>4 DEF Flagged, Log
      <3>3. Alone(rm) /\ QueueSpelt /\ HandsSpelt /\ PlansAlike
        BY <2>2, <2>4 DEF OneEach
      <3>4. Quick(d) \in Heads /\ \A e \in Dims : e # d => Quick(e) # Quick(d)
        BY <1>5, HeadsApart
      <3>5. Spelt(rm, rows, d, names)
        <4> SUFFICES ASSUME NEW k \in Values, k \in d, Rowless(rows, k),
                            NEW i \in DOMAIN rm, rm[i].live, rm[i].number = k
                     PROVE  rm[i].name = names[k]
          BY DEF Spelt, Agrees
        <4>1. KeyRow(k) = {} /\ i \in Numbered(k)
          BY DEF KeyRow, LiveRows, Rowless, Numbered, Live
        <4> QED
          BY <3>2, <4>1 DEF Renames
      <3>6. QueueSpelt'
        <4> SUFFICES ASSUME NEW e \in Dims, heads'[Quick(e)] # "none"
                     PROVE  Spelt(rm, rows, e, input'[Quick(e)])
          BY <1>1 DEF QueueSpelt
        <4>1. CASE e = d
          BY <1>3, <3>1, <3>4, <3>5, <4>1
        <4>2. CASE e # d
          <5>1. heads'[Quick(e)] = heads[Quick(e)] /\ input'[Quick(e)] = input[Quick(e)]
            BY <1>3, <3>1, <3>4, <4>2
          <5> QED
            BY <3>3, <5>1 DEF QueueSpelt
        <4> QED
          BY <4>1, <4>2
      <3>7. ASSUME NEW w \in Threads, MayPost(thread[w]), heads'[thread[w].head] # "none"
            PROVE  thread[w].plan = input'[thread[w].head]
        <4>1. thread[w].head \in Heads
          BY <3>7, QuickHeadsAre DEF MayPost
        <4>2. CASE thread[w].head = Quick(d)
          <5>1. thread[w].plan = names
            BY <3>2, <3>7, <4>2 DEF Renames, MayPost
          <5> QED
            BY <1>3, <3>1, <3>4, <4>2, <5>1
        <4>3. CASE thread[w].head # Quick(d)
          <5>1. heads'[thread[w].head] = heads[thread[w].head] /\ input'[thread[w].head] = input[thread[w].head]
            BY <1>3, <3>1, <4>1, <4>3
          <5> QED
            BY <3>3, <3>7, <5>1 DEF PlansAlike
        <4> QED
          BY <4>2, <4>3
      <3>8. PlansAlike'
        BY <1>1, <3>3, <3>7 DEF PlansAlike
      <3> QED
        BY <1>1, <3>3, <3>6, <3>8 DEF OneEach, HandsSpelt
    <2>5. CASE Flagged(log')
      BY <2>5 DEF OneEach
    <2> QED
      BY <2>3, <2>4, <2>5
  <1> QED
    BY <1>4, <1>5

LEMMA FlaggedKept ==
    ASSUME Typed, [Next]_vars
    PROVE  Flagged(log) => Flagged(log')
  <1>1. log \in Log
    BY DEF Typed, HistoryTyped
  <1>2. ASSUME NEW w \in Threads, SyncStep(w) PROVE Flagged(log) => Flagged(log')
    BY <1>1, <1>2 DEF SyncStep, List, Summarise, Prune, Store, StoreDone, Flagged, Log
  <1>3. ASSUME NEW w \in Threads, BreakoutStep(w) PROVE Flagged(log) => Flagged(log')
    <2>1. CASE UNCHANGED log
      BY <2>1
    <2>2. CASE Create(w)
      BY <1>1, <2>2 DEF Create, Flagged, Log
    <2> QED
      BY <1>3, <2>1, <2>2 DEF BreakoutStep, Select, Entry, LookUpName, Adopt, Populate, Save, Finish, Unmoved
  <1>4. ASSUME NEW q \in Requests, RequestStep(q) PROVE Flagged(log) => Flagged(log')
    <2>1. CASE UNCHANGED log
      BY <2>1
    <2>2. CASE ArmBreakout(q)
      BY <1>1, <2>2 DEF ArmBreakout, Flagged, Log
    <2> QED
      BY <1>4, <2>1, <2>2 DEF RequestStep, OpenModal, Confirm, Compose, StampGroup, Ask, ArmLookup
  <1>5. ASSUME NEW i \in DOMAIN rm, DeletePortfolio(i) PROVE Flagged(log) => Flagged(log')
    BY <1>1, <1>5 DEF DeletePortfolio, Flagged, Log
  <1>6. ASSUME NEW w \in Threads, (\E h \in Heads : Claim(w, h)) \/ LookupStep(w) \/ Complete(w) \/ Crash(w)
        PROVE  UNCHANGED log
    BY <1>6 DEF Claim, LookupStep, SubmitLookup, RecordLookup, LookupKeeps, Complete, Crash
  <1>7. ASSUME NEW j \in DOMAIN lookups, Poll(j) \/ LookupEnds(j) PROVE UNCHANGED log
    BY <1>7 DEF Poll, LookupEnds, LookupKeeps
  <1>8. ASSUME NEW h \in Heads, Reclaim(h) PROVE UNCHANGED log
    BY <1>8 DEF Reclaim
  <1>9. CASE UNCHANGED vars
    BY <1>9 DEF vars
  <1> QED
    BY <1>2, <1>3, <1>4, <1>5, <1>6, <1>7, <1>8, <1>9 DEF Next

(* The queue as a quick breakout sees it, when no plan of one is armed. *)
QuickStays == \A h \in QuickHeads : heads'[h] # "none" => heads[h] # "none" /\ input'[h] = input[h]

LEMMA ArmOther ==
    ASSUME Typed, NEW h \in Heads, NEW p, Arm(h, p), h \notin QuickHeads \/ (heads[h] # "none" /\ p = input[h])
    PROVE  QuickStays
  <1>1. heads \in [Heads -> HeadStatus] /\ input \in [Heads -> Work] /\ QuickHeads \subseteq Heads
    BY QuickHeadsAre DEF Typed, QueueTyped
  <1> QED
    BY <1>1 DEF Arm, queue, QuickStays

LEMMA QueueOneEach ==
    ASSUME Typed, OneEach, [Next]_vars, UNCHANGED <<rm, rows>>, QuickStays,
           \A v \in Threads : GoesOnWith(thread'[v], thread[v], rows)
    PROVE  OneEach'
  BY FlaggedKept, SettlesStill, OneEachStill DEF QuickStays

(* A thread at work keeps its job. *)
LEMMA SyncHeads ==
    ASSUME Typed, NEW w \in Threads, SyncStep(w)
    PROVE  thread'[w].head = thread[w].head /\ \A v \in Threads : v # w => thread'[v] = thread[v]
  <1>1. thread \in [Threads -> Hand] /\ thread[w] \in Hand
    BY DEF Typed, HandsTyped
  <1>2. CASE List(w)
    BY ZenonT(60), <1>1, <1>2 DEF List, Fails, Hand, EmptyHand
  <1>3. CASE Summarise(w)
    <2>1. CASE Fails(w)
      BY <1>1, <2>1 DEF Fails, EmptyHand
    <2>2. CASE \E s \in {version, 0}, at \in {"prune", "store"} :
                  thread' = [thread EXCEPT ![w].summary = s, ![w].todo = Covered(thread[w]), ![w].at = at]
      <3>1. PICK s \in {version, 0}, at \in {"prune", "store"} :
                  thread' = [thread EXCEPT ![w].summary = s, ![w].todo = Covered(thread[w]), ![w].at = at]
        BY <2>2
      <3> QED
        BY <1>1, <3>1 DEF Hand
    <2> QED
      BY <1>3, <2>1, <2>2 DEF Summarise
  <1>4. CASE Prune(w)
    <2>1. CASE Go(w, "store")
      BY <1>1, <2>1 DEF Go, Hand
    <2>2. CASE Ends(w, "failed")
      BY <1>1, <2>2 DEF Ends, EmptyHand
    <2> QED
      BY <1>4, <2>1, <2>2 DEF Prune
  <1>5. CASE Store(w)
    <2> DEFINE i == First(thread[w].todo)
    <2>1. \/ thread' = [thread EXCEPT ![w].todo = @ \ {i}, ![w].done = @ \cup {i}]
          \/ Ends(w, "failed")
          \/ thread' = [thread EXCEPT ![w].todo = @ \ {i}]
      BY <1>5 DEF Store, First
    <2> HIDE DEF i
    <2> QED
      BY <1>1, <2>1 DEF Ends, Hand, EmptyHand
  <1>6. CASE StoreDone(w)
    BY <1>1, <1>6 DEF StoreDone, Ends, Fails, Hand, EmptyHand
  <1> QED
    BY <1>2, <1>3, <1>4, <1>5, <1>6 DEF SyncStep

LEMMA MakeHeads ==
    ASSUME Typed, NEW w \in Threads, BreakoutStep(w)
    PROVE  thread'[w].head = thread[w].head /\ \A v \in Threads : v # w => thread'[v] = thread[v]
  <1>1. thread \in [Threads -> Hand] /\ thread[w] \in Hand
    BY DEF Typed, HandsTyped
  <1>2. CASE Select(w) \/ Finish(w)
    BY <1>1, <1>2 DEF Select, Finish, Fails, Ends, EmptyHand
  <1>3. CASE Entry(w)
    <2> DEFINE k == CHOOSE x \in thread[w].todo : TRUE
               took == [thread[w] EXCEPT !.todo = @ \ {k}]
               ids == {r.irp : r \in KeyRow(k)}
    <2>1. thread' = [thread EXCEPT ![w] =
              IF KeyRow(k) # {} THEN [took EXCEPT !.done = @ \cup ids]
                                ELSE [took EXCEPT !.at = "create", !.key = k]]
      BY <1>3 DEF Entry
    <2> HIDE DEF k, ids
    <2>2. took \in Hand /\ took.head = thread[w].head
      BY <1>1 DEF Hand
    <2> HIDE DEF took
    <2> QED
      BY <1>1, <2>1, <2>2 DEF Hand
  <1>4. ASSUME NEW at, Go(w, at)
        PROVE  thread'[w].head = thread[w].head /\ \A v \in Threads : v # w => thread'[v] = thread[v]
    BY <1>1, <1>4 DEF Go, Hand
  <1>5. ASSUME NEW ids, NextEntry(w, ids)
        PROVE  thread'[w].head = thread[w].head /\ \A v \in Threads : v # w => thread'[v] = thread[v]
    BY <1>1, <1>5 DEF NextEntry, Hand
  <1>6. ASSUME NEW i, thread' = [thread EXCEPT ![w].at = "populate", ![w].hit = i]
        PROVE  thread'[w].head = thread[w].head /\ \A v \in Threads : v # w => thread'[v] = thread[v]
    BY SMTT(60), <1>1, <1>6 DEF Hand
  <1>7. CASE LookUpName(w) \/ Create(w) \/ Adopt(w) \/ Populate(w) \/ Save(w)
    BY <1>4, <1>5, <1>6, <1>7 DEF LookUpName, Create, Adopt, Populate, Save, EntryFails
  <1> QED
    BY <1>2, <1>3, <1>7 DEF BreakoutStep

LEMMA LookupHeads ==
    ASSUME Typed, NEW w \in Threads, LookupStep(w)
    PROVE  thread'[w].head = thread[w].head /\ \A v \in Threads : v # w => thread'[v] = thread[v]
  <1>1. thread \in [Threads -> Hand] /\ thread[w] \in Hand
    BY DEF Typed, HandsTyped
  <1>2. CASE thread' = [thread EXCEPT ![w].at = "record", ![w].hit = Len(lookups) + 1]
    BY <1>1, <1>2 DEF Hand
  <1>3. CASE Fails(w) \/ Ends(w, "succeeded")
    BY <1>1, <1>3 DEF Ends, Fails, EmptyHand
  <1> QED
    BY <1>2, <1>3 DEF LookupStep, SubmitLookup, RecordLookup

LEMMA SyncOneEach ==
    ASSUME Typed, OneEach, [Next]_vars, NEW w \in Threads, SyncStep(w)
    PROVE  OneEach'
  <1>1. UNCHANGED <<rm, heads, input>>
    BY DEF SyncStep, List, Summarise, Prune, Store, StoreDone, SyncKeeps, outside, queue
  <1>2. Settles(rm, rows, rm', rows') \/ Flagged(log')
    <2>1. CASE Prune(w)
      BY <2>1, PruneSettles DEF Flagged
    <2>2. CASE Store(w)
      <3>1. ASSUME NEW i \in DOMAIN rm, rows' = Upserted(i) PROVE Settles(rm, rows, rm', rows')
        BY <1>1, <3>1, UpsertedStays, SettlesBy
      <3> QED
        BY <1>1, <2>2, <3>1, StoreRows, SettlesStill
    <2>3. CASE UNCHANGED rows
      BY <1>1, <2>3, SettlesStill
    <2> QED
      BY <2>1, <2>2, <2>3 DEF SyncStep, List, Summarise, StoreDone
  <1>3. \A v \in Threads : GoesOnWith(thread'[v], thread[v], rows)
    <2>1. thread[w].head \notin QuickHeads
      <3>1. thread[w].at \in {"list", "summarise", "prune", "store"}
        BY DEF SyncStep, List, Summarise, Prune, Store, StoreDone
      <3>2. thread[w].head \in Syncs \cup Refreshes
        BY <3>1 DEF Typed, HandsTyped, Fits, Enumerating
      <3> QED
        BY <3>2, QuickHeadsAre
    <2>2. thread'[w].head = thread[w].head /\ \A v \in Threads : v # w => thread'[v] = thread[v]
      BY SyncHeads
    <2> QED
      BY <2>1, <2>2, OtherGoesOn
  <1> QED
    BY <1>1, <1>2, <1>3, FlaggedKept, OneEachStill

LEMMA MakeOneEach ==
    ASSUME Typed, OneEach, [Next]_vars, NEW w \in Threads, BreakoutStep(w)
    PROVE  OneEach'
  <1>1. CASE Create(w)
    BY <1>1, CreateOneEach
  <1>2. CASE Finish(w)
    <2>1. /\ UNCHANGED <<rm, rows>> /\ Ends(w, IF thread[w].done = {} THEN "failed" ELSE "succeeded")
          /\ UNCHANGED queue \/ Arm(Refresh(thread[w].head), [i \in thread[w].done |-> None])
      BY <1>2 DEF Finish, outside, stored
    <2>2. \A v \in Threads : GoesOnWith(thread'[v], thread[v], rows)
      BY <2>1, EndsGoesOn
    <2>3. thread[w].head \in Breakouts
      BY <1>2, MakerHolds DEF Finish, Makes
    <2>4. Refresh(thread[w].head) \in Heads \ QuickHeads
      BY <2>3, HeadsApart, QuickHeadsAre
    <2>5. QuickStays
      BY <2>1, <2>4, ArmOther DEF queue, QuickStays
    <2> QED
      BY <2>1, <2>2, <2>5, QueueOneEach
  <1>3. CASE Select(w) \/ Entry(w) \/ LookUpName(w) \/ Adopt(w) \/ Populate(w) \/ Save(w)
    <2>1. UNCHANGED <<heads, input>>
      BY <1>3 DEF Select, Entry, LookUpName, Adopt, Populate, Save, EntryKeeps, queue
    <2>2. Settles(rm, rows, rm', rows')
      <3>1. CASE UNCHANGED <<rm, rows>>
        BY <3>1, SettlesStill
      <3> QED
        BY <1>3, <3>1, PopulateSettles, SaveSettles DEF Select, Entry, LookUpName, Adopt, Unmoved
    <2>3. \A v \in Threads : GoesOnWith(thread'[v], thread[v], rows)
      <3>1. CASE Select(w)
        BY <3>1, EndsGoesOn DEF Select
      <3>2. CASE Entry(w)
        BY <3>2, EntryGoesOn
      <3>3. CASE LookUpName(w)
        BY <3>3, GoGoesOn, NextEntryGoesOn DEF LookUpName, EntryFails
      <3>4. CASE Adopt(w)
        BY <3>4, HitGoesOn, NextEntryGoesOn DEF Adopt, EntryFails
      <3>5. CASE Populate(w)
        BY <3>5, GoGoesOn, NextEntryGoesOn DEF Populate, EntryFails
      <3>6. CASE Save(w)
        BY <3>6, NextEntryGoesOn DEF Save, EntryFails
      <3> QED
        BY <1>3, <3>1, <3>2, <3>3, <3>4, <3>5, <3>6
    <2> QED
      BY <2>1, <2>2, <2>3, FlaggedKept, OneEachStill
  <1> QED
    BY <1>1, <1>2, <1>3 DEF BreakoutStep

LEMMA RequestOneEach ==
    ASSUME Typed, OneEach, [Next]_vars, NEW q \in Requests, RequestStep(q)
    PROVE  OneEach'
  <1>1. CASE ArmBreakout(q)
    BY <1>1, ArmOneEach
  <1>2. CASE ~ ArmBreakout(q)
    <2>1. UNCHANGED <<rm, rows, thread>>
      BY <1>2 DEF RequestStep, OpenModal, Confirm, Compose, StampGroup, Ask, ArmLookup, RequestKeeps,
         outside, stored
    <2>2. \A v \in Threads : GoesOnWith(thread'[v], thread[v], rows)
      BY <2>1, GoesOnStill
    <2>3. \/ UNCHANGED queue
          \/ Arm(Sync, NoNames) \/ Arm(Lookup, NoNames)
          \/ \E h \in Heads : heads[h] = "failed" /\ Arm(h, input[h])
      BY <1>2 DEF RequestStep, OpenModal, Confirm, Compose, StampGroup, Ask, ArmLookup
    <2>4. Sync \in Heads \ QuickHeads /\ Lookup \in Heads \ QuickHeads
      BY HeadsApart, QuickHeadsAre DEF Syncs
    <2>5. QuickStays
      BY <2>3, <2>4, ArmOther DEF queue, QuickStays
    <2> QED
      BY <2>1, <2>2, <2>5, QueueOneEach
  <1> QED
    BY <1>1, <1>2

LEMMA OneEachNext ==
    ASSUME Typed, OneEach, [Next]_vars
    PROVE  OneEach'
  <1>0. heads \in [Heads -> HeadStatus] /\ QuickHeads \subseteq Heads /\ thread \in [Threads -> Hand]
    BY QuickHeadsAre DEF Typed, QueueTyped, HandsTyped
  <1>1. ASSUME NEW w \in Threads, NEW h \in Heads, Claim(w, h) PROVE OneEach'
    BY <1>1, ClaimOneEach
  <1>2. ASSUME NEW w \in Threads, SyncStep(w) \/ BreakoutStep(w) PROVE OneEach'
    BY <1>2, SyncOneEach, MakeOneEach
  <1>3. ASSUME NEW w \in Threads, LookupStep(w) PROVE OneEach'
    <2>1. UNCHANGED <<rm, rows, heads, input>>
      BY <1>3 DEF LookupStep, SubmitLookup, RecordLookup, LookupKeeps, stored, queue
    <2>2. thread[w] \in Hand /\ thread[w].head \notin QuickHeads
      <3>1. thread[w].head = Lookup
        BY <1>3 DEF LookupStep, SubmitLookup, RecordLookup, Typed, HandsTyped, Fits
      <3> QED
        BY <1>0, <3>1, QuickHeadsAre
    <2>3. thread'[w].head = thread[w].head /\ \A v \in Threads : v # w => thread'[v] = thread[v]
      BY ZenonT(60), <1>0, <1>3, <2>2 DEF LookupStep, SubmitLookup, RecordLookup, Ends, Fails, EmptyHand, Hand
    <2>4. \A v \in Threads : GoesOnWith(thread'[v], thread[v], rows)
      BY <2>2, <2>3, OtherGoesOn
    <2> QED
      BY <2>1, <2>4, QueueOneEach DEF QuickStays
  <1>4. ASSUME NEW w \in Threads, Complete(w) \/ Crash(w) PROVE OneEach'
    <2>1. UNCHANGED <<rm, rows>> /\ thread' = [thread EXCEPT ![w] = EmptyHand]
      BY <1>4 DEF Complete, Crash, outside, stored
    <2>2. QuickStays
      BY <1>0, <1>4 DEF Complete, Crash, queue, QuickStays, Typed, QueueTyped
    <2> QED
      BY <2>1, <2>2, EmptyGoesOn, QueueOneEach
  <1>5. ASSUME NEW h \in Heads, Reclaim(h) PROVE OneEach'
    <2>1. UNCHANGED <<rm, rows, thread>> /\ QuickStays
      BY <1>0, <1>5 DEF Reclaim, outside, stored, QuickStays
    <2> QED
      BY <2>1, GoesOnStill, QueueOneEach
  <1>6. ASSUME NEW q \in Requests, RequestStep(q) PROVE OneEach'
    BY <1>6, RequestOneEach
  <1>7. ASSUME NEW j \in DOMAIN lookups, Poll(j) \/ LookupEnds(j) PROVE OneEach'
    <2>1. UNCHANGED <<rm, rows, thread>>
      BY <1>7 DEF Poll, LookupEnds, LookupKeeps, Elsewhere, stored
    <2>2. UNCHANGED queue \/ Arm(After(j), [i \in {0} |-> None])
      BY <1>7 DEF Poll, LookupEnds, Elsewhere
    <2>3. j \in 1..MaxLookups
      <3>1. lookups \in Seq(LookupJob) /\ Len(lookups) <= MaxLookups /\ MaxLookups \in Nat
        BY PortfolioBreakoutAssumption DEF Typed, WorldTyped
      <3> QED
        BY <3>1
    <2>4. After(j) \in Heads \ QuickHeads
      BY <2>3, HeadsApart, QuickHeadsAre
    <2>5. QuickStays
      BY <2>2, <2>4, ArmOther DEF queue, QuickStays
    <2> QED
      BY <2>1, <2>5, GoesOnStill, QueueOneEach
  <1>8. ASSUME NEW i \in DOMAIN rm, DeletePortfolio(i) PROVE OneEach'
    <2>1. UNCHANGED <<heads, input, thread>>
      BY <1>8 DEF DeletePortfolio, Elsewhere, queue
    <2> QED
      BY <1>8, <2>1, DeleteSettles, GoesOnStill, FlaggedKept, OneEachStill
  <1>9. CASE UNCHANGED vars
    <2>1. UNCHANGED <<rm, rows, heads, input, thread>>
      BY <1>9 DEF vars, outside, stored, queue
    <2> QED
      BY <2>1, GoesOnStill, QueueOneEach DEF QuickStays
  <1> QED
    BY <1>1, <1>2, <1>3, <1>4, <1>5, <1>6, <1>7, <1>8, <1>9 DEF Next

(* Risk Modeler holds one sub-portfolio for a value, unless a plan renamed *)
(* it, a sync hid its row or a name was posted twice.                      *)
THEOREM OnePortfolioPerValueAlways == Spec => []OnePortfolioPerValue
  <1>1. Init => OneEach
    BY DEF Init, OneEach, Alone, QueueSpelt, HandsSpelt, PlansAlike, HandSpelt, MayPost, Spelt, Agrees,
       EmptyHand
  <1>2. Typed /\ OneEach /\ [Next]_vars => OneEach'
    BY OneEachNext
  <1>3. OneEach => OnePortfolioPerValue
    BY DEF OneEach, Flagged, Alone, OnePortfolioPerValue, Values, Numbered, Live
  <1> QED
    BY <1>1, <1>2, <1>3, TypedAlways, PTL DEF Spec

(* No step takes a portfolio back, and syncs and saves alone write rows. *)
LEMMA RowsMove ==
    ASSUME [Next]_vars
    PROVE  UNCHANGED rows \/ \E w \in Threads : Prune(w) \/ Store(w) \/ Save(w)
  <1>1. ASSUME NEW w \in Threads, SyncStep(w) PROVE UNCHANGED rows \/ Prune(w) \/ Store(w)
    BY <1>1 DEF SyncStep, List, Summarise, StoreDone
  <1>2. ASSUME NEW w \in Threads, BreakoutStep(w) PROVE UNCHANGED rows \/ Save(w)
    BY <1>2 DEF BreakoutStep, Select, Entry, LookUpName, Create, Adopt, Populate, Finish, Unmoved, stored
  <1>3. ASSUME NEW w \in Threads, (\E h \in Heads : Claim(w, h)) \/ LookupStep(w) \/ Complete(w) \/ Crash(w)
        PROVE  UNCHANGED rows
    BY <1>3 DEF Claim, LookupStep, SubmitLookup, RecordLookup, LookupKeeps, Complete, Crash, stored
  <1>4. ASSUME NEW q \in Requests, RequestStep(q) PROVE UNCHANGED rows
    BY <1>4 DEF RequestStep, OpenModal, Confirm, Compose, StampGroup, ArmBreakout, Ask, ArmLookup,
       RequestKeeps, stored
  <1>5. ASSUME NEW j, Poll(j) \/ LookupEnds(j) \/ DeletePortfolio(j) \/ Reclaim(j) PROVE UNCHANGED rows
    BY <1>5 DEF Poll, LookupEnds, DeletePortfolio, Reclaim, LookupKeeps, Elsewhere, stored
  <1>6. CASE UNCHANGED vars
    BY <1>6 DEF vars, stored
  <1> QED
    BY <1>1, <1>2, <1>3, <1>4, <1>5, <1>6 DEF Next

LEMMA PortfoliosStay ==
    ASSUME Typed, [Next]_vars
    PROVE  \A i \in DOMAIN rm : i \in DOMAIN rm' /\ rm'[i].name = rm[i].name
  <1>1. rm \in Seq(Portfolio)
    BY DEF Typed, WorldTyped
  <1>2. ASSUME NEW i, NEW k, rm' = Added(i, k) PROVE \A j \in DOMAIN rm : j \in DOMAIN rm' /\ rm'[j].name = rm[j].name
    BY <1>1, <1>2 DEF Added, Portfolio
  <1>3. ASSUME NEW i \in DOMAIN rm, DeletePortfolio(i) PROVE \A j \in DOMAIN rm : j \in DOMAIN rm' /\ rm'[j].name = rm[j].name
    BY <1>1, <1>3 DEF DeletePortfolio, Portfolio
  <1>4. ASSUME NEW w \in Threads, Create(w) PROVE \A j \in DOMAIN rm : j \in DOMAIN rm' /\ rm'[j].name = rm[j].name
    <2>1. DOMAIN rm \subseteq DOMAIN rm'
      BY <1>4, CreateAdds
    <2>2. \A j \in DOMAIN rm : rm'[j] = rm[j]
      BY <1>4, CreateAdds
    <2> QED
      BY <2>1, <2>2
  <1>5. ASSUME NEW w \in Threads, Populate(w) PROVE UNCHANGED rm \/ \E i, k : rm' = Added(i, k)
    BY <1>5 DEF Populate
  <1> QED
    BY <1>2, <1>3, <1>4, <1>5, PortfoliosMove

-----------------------------------------------------------------------------
(* What a sync leaves *)

RowNames(m, rr) == \A r \in rr : r.name = m[r.irp].name
HasRow(rr, i) == \E r \in rr : r.irp = i /\ r.live
LiveIn(m) == {i \in DOMAIN m : m[i].live}
OneName(m) == \A i, j \in LiveIn(m) : m[i].name = m[j].name => i = j

(* A sync that has pruned: the rows it saw live, and those it stored. *)
Sweeps(t) == t.at = "store" /\ t.head \in Syncs
Swept(t, m, rr) ==
    Sweeps(t) => /\ \A r \in rr : r.irp \in t.seen => r.live
                 /\ \A i \in t.done \cap LiveIn(m) : HasRow(rr, i)

Healed ==
    \/ log.twice
    \/ /\ OneName(rm)
       /\ \A w \in Threads : log.pruner = w => Swept(thread[w], rm, rows)
       /\ log.current => \A i \in LiveIn(rm) : HasRow(rows, i)

(* No row of a live portfolio dies or goes over to another. *)
RowsHeld(m, rr, r2) ==
    /\ \A i \in LiveIn(m) : HasRow(rr, i) => HasRow(r2, i)
    /\ \A r \in r2 : r.live \/ \E s \in rr : s.irp = r.irp /\ ~ s.live

(* A sweeping thread stays one, and what it did since has a row. *)
SweepsOn(s, t, m, m2, r2) ==
    Sweeps(s) => /\ Sweeps(t) /\ s.seen = t.seen
                 /\ \A i \in s.done \cap LiveIn(m2) : HasRow(r2, i) \/ i \in t.done \cap LiveIn(m)

LEMMA SweptStill ==
    ASSUME NEW s, NEW t, NEW m, NEW m2, NEW rr, NEW r2,
           RowsHeld(m, rr, r2), SweepsOn(s, t, m, m2, r2), Swept(t, m, rr)
    PROVE  Swept(s, m2, r2)
  BY DEF RowsHeld, SweepsOn, Swept

LEMMA HealedStill ==
    ASSUME Healed, log.twice => log'.twice,
           ~ log.twice /\ ~ log'.twice =>
              /\ OneName(rm) => OneName(rm')
              /\ RowsHeld(rm, rows, rows')
              /\ \A w \in Threads : log'.pruner = w =>
                    log.pruner = w /\ SweepsOn(thread'[w], thread[w], rm, rm', rows')
              /\ log'.current => \/ log.current /\ LiveIn(rm') \subseteq LiveIn(rm)
                                 \/ \A i \in LiveIn(rm') : HasRow(rows', i)
    PROVE  Healed'
  <1> SUFFICES ASSUME ~ log.twice, ~ log'.twice
               PROVE  /\ OneName(rm')
                      /\ \A w \in Threads : log'.pruner = w => Swept(thread'[w], rm', rows')
                      /\ log'.current => \A i \in LiveIn(rm') : HasRow(rows', i)
    BY DEF Healed
  <1>1. OneName(rm')
    BY DEF Healed
  <1>2. ASSUME NEW w \in Threads, log'.pruner = w PROVE Swept(thread'[w], rm', rows')
    BY <1>2, SweptStill DEF Healed
  <1>3. ASSUME log'.current PROVE \A i \in LiveIn(rm') : HasRow(rows', i)
    BY <1>3 DEF Healed, RowsHeld
  <1> QED
    BY <1>1, <1>2, <1>3

LEMMA RowsHeldStill ==
    ASSUME NEW m, NEW rr
    PROVE  RowsHeld(m, rr, rr)
  BY DEF RowsHeld

(* A thread that does nothing, or does no sync, sweeps no more than it did.*)
LEMMA SweepsStill ==
    ASSUME NEW s, NEW t, NEW m, NEW m2, NEW r2, s = t \/ ~ Sweeps(s),
           t.done \cap LiveIn(m2) \subseteq LiveIn(m)
    PROVE  SweepsOn(s, t, m, m2, r2)
  BY DEF SweepsOn

(* The steps that leave the portfolios, the rows and the history alone, by *)
(* which no thread gets to sweep.                                          *)
LEMMA HealedAside ==
    ASSUME Healed, UNCHANGED <<rm, rows>>,
           log' = log \/ (\E b \in BOOLEAN : log' = [log EXCEPT !.renamed = b]), log \in Log,
           \A v \in Threads : thread'[v] = thread[v] \/ ~ Sweeps(thread'[v])
    PROVE  Healed'
  <1>1. log'.twice = log.twice /\ log'.pruner = log.pruner /\ log'.current = log.current
    BY DEF Log
  <1>2. \A v \in Threads : SweepsOn(thread'[v], thread[v], rm, rm', rows')
    BY SweepsStill
  <1> QED
    BY <1>1, <1>2, RowsHeldStill, HealedStill

-----------------------------------------------------------------------------
(* The rows keep the names of their portfolios. *)
LEMMA RowNamesNext ==
    ASSUME Typed, RowNames(rm, rows), [Next]_vars
    PROVE  RowNames(rm', rows')
  <1>0. rows \subseteq Row(rm) /\ \A r \in rows : r.irp \in DOMAIN rm
    BY DEF Typed, StoredTyped, Row
  <1>2. RowNames(rm', rows)
    BY <1>0, PortfoliosStay DEF RowNames
  <1>3. ASSUME NEW w \in Threads, Prune(w) PROVE RowNames(rm', rows')
    <2>1. CASE rows' = Pruned(thread[w].seen)
      <3> DEFINE alive(r) == \/ r.irp \in thread[w].seen
                             \/ r.name \in SeenNames(thread[w].seen) /\ (r.live \/ r.key = None)
                 image(r) == [r EXCEPT !.live = alive(r)]
      <3>1. rows' = {image(r) : r \in rows}
        BY <2>1 DEF Pruned
      <3>2. \A r \in rows : image(r).irp = r.irp /\ image(r).name = r.name
        BY <1>0 DEF Row
      <3> HIDE DEF image
      <3> QED
        BY <1>2, <3>1, <3>2 DEF RowNames
    <2> QED
      BY <1>2, <1>3, <2>1 DEF Prune
  <1>4. ASSUME NEW i \in DOMAIN rm, rows' = Upserted(i), rm' = rm PROVE RowNames(rm', rows')
    <2>1. CASE RowOf(i) # {}
      <3> DEFINE image(r) == [r EXCEPT !.name = rm[i].name]
      <3>1. Upserted(i) = (rows \ RowOf(i)) \cup {image(r) : r \in RowOf(i)}
        BY <2>1 DEF Upserted
      <3>2. \A r \in RowOf(i) : image(r).irp = i /\ image(r).name = rm[i].name
        BY <1>0 DEF Row, RowOf
      <3> HIDE DEF image
      <3> QED
        BY <1>2, <1>4, <3>1, <3>2 DEF RowNames
    <2>2. CASE RowOf(i) = {} /\ Named(rm[i].name) # {}
      <3> DEFINE image(r) == [r EXCEPT !.irp = i]
      <3>1. Upserted(i) = (rows \ Named(rm[i].name)) \cup {image(r) : r \in Named(rm[i].name)}
        BY <2>2 DEF Upserted
      <3>2. \A r \in Named(rm[i].name) : image(r).irp = i /\ image(r).name = rm[i].name
        BY <1>0 DEF Row, Named, LiveRows
      <3> HIDE DEF image
      <3> QED
        BY <1>2, <1>4, <3>1, <3>2 DEF RowNames
    <2>3. CASE RowOf(i) = {} /\ Named(rm[i].name) = {}
      BY <1>2, <1>4, <2>3 DEF Upserted, RowNames
    <2> QED
      BY <2>1, <2>2, <2>3
  <1>5. ASSUME NEW w \in Threads, Store(w) PROVE RowNames(rm', rows')
    <2>1. rm' = rm
      BY <1>5 DEF Store, SyncKeeps, outside
    <2> QED
      BY <1>2, <1>4, <1>5, <2>1, StoreRows
  <1>6. ASSUME NEW w \in Threads, Save(w) PROVE RowNames(rm', rows')
    <2>1. rm' = rm /\ (UNCHANGED rows \/ rows' \in Saved(thread[w].key, rm[thread[w].hit].name, thread[w].hit))
      BY <1>6 DEF Save
    <2>2. ASSUME NEW k, NEW i, NEW after \in Saved(k, rm[i].name, i)
          PROVE  RowNames(rm, after)
      <3> DEFINE new == [name |-> rm[i].name, irp |-> i, key |-> k, live |-> TRUE]
      <3>1. \A r \in after : r \in rows \/ r = new
        BY DEF Saved
      <3>2. new.name = rm[new.irp].name
        OBVIOUS
      <3> HIDE DEF new
      <3> QED
        BY <1>2, <2>1, <3>1, <3>2 DEF RowNames
    <2> QED
      BY <1>2, <2>1, <2>2
  <1>7. UNCHANGED rows \/ \E w \in Threads : Prune(w) \/ Store(w) \/ Save(w)
    BY RowsMove
  <1> QED
    BY <1>2, <1>3, <1>5, <1>6, <1>7

LEMMA PruneHealed ==
    ASSUME Typed, RowNames(rm, rows), Healed, NEW w \in Threads, Prune(w)
    PROVE  Healed'
  <1>1. /\ rm' = rm /\ thread[w].at = "prune" /\ thread \in [Threads -> Hand] /\ thread[w] \in Hand
        /\ log \in Log /\ rows \subseteq Row(rm)
    BY DEF Prune, SyncKeeps, outside, Typed, HandsTyped, HistoryTyped, StoredTyped
  <1>2. CASE UNCHANGED rows /\ log' = log /\ Ends(w, "failed")
    <2>1. \A v \in Threads : thread'[v] = thread[v] \/ ~ Sweeps(thread'[v])
      BY <1>1, <1>2 DEF Ends, EmptyHand, Sweeps
    <2> QED
      BY <1>1, <1>2, <2>1, HealedAside
  <1>3. CASE /\ rows' = Pruned(thread[w].seen) /\ Go(w, "store")
             /\ \E b \in BOOLEAN : log' = [log EXCEPT !.hidden = b, !.current = FALSE, !.pruner = w]
    <2>1. log'.twice = log.twice /\ ~ log'.current /\ log'.pruner = w
      BY <1>1, <1>3 DEF Log
    <2>2. thread'[w].done = {} /\ thread'[w].seen = thread[w].seen
      <3>1. thread[w].done = {}
        BY <1>1 DEF Typed, HandsTyped, Fits, Enumerating
      <3> QED
        BY <1>1, <1>3, <3>1 DEF Go, Hand
    <2>3. \A r \in rows' : r.irp \in thread[w].seen => r.live
      <3> DEFINE alive(r) == \/ r.irp \in thread[w].seen
                             \/ r.name \in SeenNames(thread[w].seen) /\ (r.live \/ r.key = None)
                 image(r) == [r EXCEPT !.live = alive(r)]
      <3>1. rows' = {image(r) : r \in rows}
        BY <1>3 DEF Pruned
      <3>2. \A r \in rows : image(r).irp = r.irp /\ (r.irp \in thread[w].seen => image(r).live)
        BY <1>1 DEF Row
      <3> HIDE DEF image
      <3> QED
        BY <3>1, <3>2
    <2>4. Swept(thread'[w], rm', rows')
      BY <2>2, <2>3 DEF Swept
    <2> QED
      BY <1>1, <2>1, <2>4 DEF Healed
  <1>4. \/ UNCHANGED rows /\ log' = log /\ Ends(w, "failed")
        \/ /\ rows' = Pruned(thread[w].seen) /\ Go(w, "store")
           /\ \E b \in BOOLEAN : log' = [log EXCEPT !.hidden = b, !.current = FALSE, !.pruner = w]
    <2> DEFINE hides == \E r \in LiveRows : r \notin Pruned(thread[w].seen) /\ (r.irp \in Live \/ Numbered(r.key) # {})
    <2>1. (log.hidden \/ hides) \in BOOLEAN
      BY <1>1 DEF Log
    <2> QED
      BY <2>1 DEF Prune
  <1> QED
    BY <1>2, <1>3, <1>4

(* Storing a live portfolio gives it a row, and takes none from another. *)
LEMMA UpsertedHolds ==
    ASSUME Typed, RowNames(rm, rows), OneName(rm), NEW i \in LiveIn(rm)
    PROVE  /\ RowsHeld(rm, rows, Upserted(i))
           /\ (\A r \in rows : r.irp = i => r.live) => HasRow(Upserted(i), i)
  <1>1. rows \subseteq Row(rm) /\ i \in DOMAIN rm
    BY DEF Typed, StoredTyped, LiveIn
  <1>2. CASE RowOf(i) # {}
    <2> DEFINE image(r) == [r EXCEPT !.name = rm[i].name]
    <2>1. Upserted(i) = (rows \ RowOf(i)) \cup {image(r) : r \in RowOf(i)}
      BY <1>2 DEF Upserted
    <2>2. \A r \in rows : image(r).irp = r.irp /\ image(r).live = r.live
      BY <1>1 DEF Row
    <2> HIDE DEF image
    <2> QED
      BY <1>2, <2>1, <2>2 DEF RowsHeld, HasRow, RowOf
  <1>3. CASE RowOf(i) = {} /\ Named(rm[i].name) # {}
    <2> DEFINE image(r) == [r EXCEPT !.irp = i]
    <2>1. Upserted(i) = (rows \ Named(rm[i].name)) \cup {image(r) : r \in Named(rm[i].name)}
      BY <1>3 DEF Upserted
    <2>2. \A r \in Named(rm[i].name) : image(r).irp = i /\ image(r).live /\ r \in rows /\ r.live
      BY <1>1 DEF Row, Named, LiveRows
    <2> HIDE DEF image
    <2>3. ASSUME NEW j \in LiveIn(rm), NEW r \in rows, r.irp = j, r \in Named(rm[i].name)
          PROVE  FALSE
      <3>1. rm[j].name = rm[i].name
        BY <2>3 DEF RowNames, Named
      <3>2. j = i
        BY <3>1 DEF OneName
      <3> QED
        BY <1>3, <2>3, <3>2 DEF RowOf
    <2>4. \A j \in LiveIn(rm) : HasRow(rows, j) => HasRow(Upserted(i), j)
      BY <2>1, <2>3 DEF HasRow
    <2>5. \A r \in Upserted(i) : r.live \/ r \in rows
      BY <2>1, <2>2
    <2>6. HasRow(Upserted(i), i)
      BY <1>3, <2>1, <2>2 DEF HasRow
    <2> QED
      BY <2>4, <2>5, <2>6 DEF RowsHeld
  <1>4. CASE RowOf(i) = {} /\ Named(rm[i].name) = {}
    <2> DEFINE new == [name |-> rm[i].name, irp |-> i, key |-> None, live |-> TRUE]
    <2>1. Upserted(i) = rows \cup {new}
      BY <1>4 DEF Upserted
    <2>2. new.irp = i /\ new.live
      OBVIOUS
    <2> HIDE DEF new
    <2> QED
      BY <2>1, <2>2 DEF RowsHeld, HasRow
  <1> QED
    BY <1>2, <1>3, <1>4

LEMMA LiveSame == LiveIn(rm) = Live
  BY DEF LiveIn, Live

LEMMA StoreHealed ==
    ASSUME Typed, RowNames(rm, rows), Healed, NEW w \in Threads, Store(w)
    PROVE  Healed'
  <1> DEFINE t == thread[w]
             i == First(t.todo)
             stored1 == thread' = [thread EXCEPT ![w].todo = @ \ {i}, ![w].done = @ \cup {i}]
             watched == log' = [log EXCEPT !.current = @ /\ t.seen = Live,
                                         !.pruner = IF t.seen = Live THEN @ ELSE None]
  <1>1. /\ rm' = rm /\ t.at = "store" /\ thread \in [Threads -> Hand] /\ t \in Hand
        /\ log \in Log /\ Len(rm) \in Nat /\ DOMAIN rm = 1..Len(rm)
    BY DEF Store, SyncKeeps, outside, Typed, HandsTyped, HistoryTyped, WorldTyped
  <1>2. i = 0 \/ i \in DOMAIN rm \cap t.seen
    BY FirstToStore DEF Store
  <1>3. \/ i = 0 /\ (\E b \in BOOLEAN : log' = [log EXCEPT !.late = b]) /\ stored1 /\ UNCHANGED rows
        \/ i # 0 /\ rows' = Upserted(i) /\ stored1 /\ watched
        \/ Ends(w, "failed") /\ UNCHANGED rows /\ watched
        \/ thread' = [thread EXCEPT ![w].todo = @ \ {i}] /\ UNCHANGED <<rows, log>>
    <2>1. (log.late \/ t.stamp < source.stamp) \in BOOLEAN
      BY <1>1 DEF Log
    <2> QED
      BY <2>1 DEF Store, First
  <1>4. \A v \in Threads : v # w => thread'[v] = thread[v]
    BY <1>1, <1>3 DEF Ends
  <1> HIDE DEF i
  <1>5. stored1 => /\ thread'[w].at = t.at /\ thread'[w].head = t.head
                   /\ thread'[w].seen = t.seen /\ thread'[w].done = t.done \cup {i}
    BY <1>1 DEF Hand
  <1>6. watched => /\ log'.twice = log.twice /\ log'.current = (log.current /\ t.seen = Live)
                   /\ log'.pruner = (IF t.seen = Live THEN log.pruner ELSE None)
    BY <1>1 DEF Log
  <1>7. CASE i = 0 /\ (\E b \in BOOLEAN : log' = [log EXCEPT !.late = b]) /\ stored1 /\ UNCHANGED rows
    <2>1. log'.twice = log.twice /\ log'.pruner = log.pruner /\ log'.current = log.current
      BY <1>1, <1>7 DEF Log
    <2>2. 0 \notin LiveIn(rm)
      BY <1>1 DEF LiveIn
    <2>3. SweepsOn(thread'[w], t, rm, rm', rows')
      BY <1>1, <1>5, <1>7, <2>2 DEF SweepsOn, Sweeps
    <2>4. \A v \in Threads : SweepsOn(thread'[v], thread[v], rm, rm', rows')
      BY <1>1, <1>4, <2>3, SweepsStill
    <2>5. RowsHeld(rm, rows, rows')
      BY <1>7, RowsHeldStill
    <2> QED
      BY <1>1, <2>1, <2>4, <2>5, HealedStill
  <1>8. CASE i # 0 /\ rows' = Upserted(i) /\ stored1 /\ watched
    <2>1. CASE t.seen # Live
      <3>1. ~ log'.current /\ log'.pruner = None /\ None \notin Threads
        BY <1>6, <1>8, <2>1, PortfolioBreakoutAssumption
      <3>2. \A v \in Threads : log'.pruner # v
        BY <3>1
      <3> QED
        BY <1>1, <1>6, <1>8, <3>1, <3>2 DEF Healed
    <2>2. CASE t.seen = Live /\ ~ log.twice
      <3>1. i \in LiveIn(rm) /\ OneName(rm)
        BY <1>2, <1>8, <2>2, LiveSame DEF Healed
      <3>2. RowsHeld(rm, rows, rows')
        BY <1>8, <3>1, UpsertedHolds
      <3>3. ASSUME log.pruner = w PROVE SweepsOn(thread'[w], t, rm, rm', rows')
        <4>1. Swept(t, rm, rows)
          BY <2>2, <3>3 DEF Healed
        <4>2. Sweeps(t) => \A r \in rows : r.irp = i => r.live
          BY <1>2, <1>8, <4>1 DEF Swept
        <4>3. Sweeps(t) => HasRow(rows', i)
          BY <1>8, <3>1, <4>2, UpsertedHolds
        <4> QED
          BY <1>1, <1>5, <1>8, <4>3 DEF SweepsOn, Sweeps
      <3>4. \A v \in Threads : log'.pruner = v => log.pruner = v /\ SweepsOn(thread'[v], thread[v], rm, rm', rows')
        BY <1>1, <1>4, <1>6, <1>8, <2>2, <3>3, SweepsStill
      <3> QED
        BY <1>1, <1>6, <1>8, <3>2, <3>4, HealedStill
    <2>3. CASE log.twice
      BY <1>6, <1>8, <2>3 DEF Healed
    <2> QED
      BY <2>1, <2>2, <2>3
  <1>9. CASE Ends(w, "failed") /\ UNCHANGED rows /\ watched
    <2>1. ~ Sweeps(thread'[w])
      BY <1>1, <1>9 DEF Ends, EmptyHand, Sweeps
    <2>2. \A v \in Threads : SweepsOn(thread'[v], thread[v], rm, rm', rows')
      BY <1>1, <1>4, <2>1, SweepsStill DEF SweepsOn
    <2>3. RowsHeld(rm, rows, rows')
      BY <1>9, RowsHeldStill
    <2>4. \A v \in Threads : log'.pruner = v => log.pruner = v
      BY <1>6, <1>9, PortfolioBreakoutAssumption
    <2> QED
      BY <1>1, <1>6, <1>9, <2>2, <2>3, <2>4, HealedStill
  <1>10. CASE thread' = [thread EXCEPT ![w].todo = @ \ {i}] /\ UNCHANGED <<rows, log>>
    <2>1. thread'[w].at = t.at /\ thread'[w].head = t.head /\ thread'[w].seen = t.seen /\ thread'[w].done = t.done
      BY <1>1, <1>10 DEF Hand
    <2>2. SweepsOn(thread'[w], t, rm, rm', rows')
      BY <1>1, <2>1 DEF SweepsOn, Sweeps
    <2>3. \A v \in Threads : SweepsOn(thread'[v], thread[v], rm, rm', rows')
      BY <1>1, <1>4, <2>2, SweepsStill
    <2>4. RowsHeld(rm, rows, rows')
      BY <1>10, RowsHeldStill
    <2> QED
      BY <1>1, <1>10, <2>3, <2>4, HealedStill
  <1> QED
    BY <1>3, <1>7, <1>8, <1>9, <1>10

LEMMA StoreDoneHealed ==
    ASSUME Typed, Healed, NEW w \in Threads, StoreDone(w)
    PROVE  Healed'
  <1>1. /\ UNCHANGED <<rm, rows>> /\ thread[w].at = "store" /\ thread \in [Threads -> Hand]
        /\ log \in Log /\ thread[w].head \in Syncs \cup Refreshes
    BY DEF StoreDone, SyncKeeps, outside, Typed, HandsTyped, HistoryTyped, Fits, Enumerating
  <1>2. /\ log'.twice = log.twice
        /\ log'.current = (IF thread[w].head \in Refreshes THEN log.current ELSE StoredAll(w))
        /\ log'.pruner \in {log.pruner, None}
    <2>1. StoredAll(w) \in BOOLEAN
      BY DEF StoredAll
    <2>2. log' = [log EXCEPT !.current = IF thread[w].head \in Refreshes THEN @ ELSE StoredAll(w),
                             !.pruner = IF @ = w THEN None ELSE @]
      BY DEF StoreDone
    <2> HIDE DEF StoredAll
    <2> QED
      BY <1>1, <2>1, <2>2 DEF Log
  <1>3. /\ \A v \in Threads : v # w => thread'[v] = thread[v]
        /\ ~ Sweeps(thread'[w])
    BY <1>1 DEF StoreDone, Ends, Fails, EmptyHand, Sweeps
  <1>4. \A v \in Threads : SweepsOn(thread'[v], thread[v], rm, rm', rows')
    BY <1>1, <1>3, SweepsStill
  <1>5. \A v \in Threads : log'.pruner = v => log.pruner = v
    BY <1>2, PortfolioBreakoutAssumption
  <1>6. ASSUME ~ log.twice, log'.current
        PROVE  log.current \/ \A i \in LiveIn(rm) : HasRow(rows, i)
    <2>1. CASE thread[w].head \in Refreshes
      BY <1>2, <1>6, <2>1
    <2>2. CASE thread[w].head \notin Refreshes
      <3>1. log.pruner = w /\ LiveIn(rm) \subseteq thread[w].done
        BY <1>2, <1>6, <2>2, LiveSame DEF StoredAll
      <3> QED
        BY <1>1, <1>6, <2>2, <3>1 DEF Healed, Swept, Sweeps
    <2> QED
      BY <2>1, <2>2
  <1> QED
    BY <1>1, <1>2, <1>4, <1>5, <1>6, RowsHeldStill, HealedStill

LEMMA SaveHealed ==
    ASSUME Typed, Healed, NEW w \in Threads, Save(w)
    PROVE  Healed'
  <1> DEFINE t == thread[w]
             n == rm[t.hit].name
  <1>1. rm' = rm /\ log' = log /\ thread \in [Threads -> Hand] /\ t \in Hand
    BY DEF Save, Typed, HandsTyped
  <1>2. UNCHANGED rows \/ rows' \in Saved(t.key, n, t.hit)
    BY DEF Save
  <1>3. RowsHeld(rm, rows, rows')
    <2> DEFINE new == [name |-> n, irp |-> t.hit, key |-> t.key, live |-> TRUE]
               dead == {r \in rows : r.key = t.key /\ ~ r.live}
    <2>1. CASE UNCHANGED rows
      BY <2>1, RowsHeldStill
    <2>2. CASE rows' \in Saved(t.key, n, t.hit)
      <3>1. \/ rows' = rows \/ rows' = rows \cup {new}
            \/ \E r \in RowOf(t.hit) \cup dead : rows' = (rows \ {r}) \cup {new}
        BY <2>2 DEF Saved
      <3>2. new.irp = t.hit /\ new.live
        OBVIOUS
      <3>3. \A r \in RowOf(t.hit) \cup dead : r.live => r.irp = t.hit
        BY DEF RowOf
      <3> HIDE DEF new, dead
      <3>4. \A i : HasRow(rows, i) => HasRow(rows', i)
        BY <3>1, <3>2, <3>3 DEF HasRow
      <3>5. \A r \in rows' : r.live \/ r \in rows
        BY <3>1, <3>2
      <3> QED
        BY <3>4, <3>5 DEF RowsHeld
    <2> QED
      BY <1>2, <2>1, <2>2
  <1>4. \A v \in Threads : SweepsOn(thread'[v], thread[v], rm, rm', rows')
    <2>1. ~ Sweeps(thread'[w]) /\ \A v \in Threads : v # w => thread'[v] = thread[v]
      <3>1. \E ids : NextEntry(w, ids)
        BY DEF Save, EntryFails
      <3> QED
        BY <1>1, <3>1 DEF NextEntry, Hand, Sweeps
    <2> QED
      BY <1>1, <2>1, SweepsStill
  <1> QED
    BY <1>1, <1>3, <1>4, HealedStill

LEMMA CreateHealed ==
    ASSUME Typed, Healed, NEW w \in Threads, Create(w)
    PROVE  Healed'
  <1> DEFINE n == thread[w].plan[thread[w].key]
             p == Posted(thread[w].key, n)
  <1>1. /\ DOMAIN rm = 1..Len(rm) /\ \A i \in DOMAIN rm : rm'[i] = rm[i]
        /\ DOMAIN rm \subseteq DOMAIN rm' /\ UNCHANGED rows
        /\ log.twice => log'.twice
    BY CreateAdds
  <1>2. /\ \A v \in Threads : v # w => thread'[v] = thread[v]
        /\ \/ \E i \in Nat : thread' = [thread EXCEPT ![w].at = "populate", ![w].hit = i]
           \/ EntryFails(w)
    BY CreateAdds
  <1>3. \A i \in DOMAIN rm' \ DOMAIN rm : rm'[i] = p
    BY CreateAdds
  <1>4. ~ log'.twice => ~ NameTaken(n) /\ DOMAIN rm' = DOMAIN rm \cup {Len(rm) + 1}
    BY CreateAdds
  <1>5. ~ log'.current /\ log'.pruner = log.pruner
    <2>1. \E b \in BOOLEAN : log' = [log EXCEPT !.current = FALSE, !.twice = b]
      BY CreateAdds
    <2>2. log \in Log
      BY DEF Typed, HistoryTyped
    <2> QED
      BY <2>1, <2>2 DEF Log
  <1>6. ASSUME ~ log'.twice, OneName(rm) PROVE OneName(rm')
    <2>1. p.name = n
      BY DEF Posted
    <2> HIDE DEF p, n
    <2>2. \A i \in LiveIn(rm) : rm[i].name # n
      BY <1>4, <1>6, LiveSame DEF NameTaken
    <2>3. \A i \in LiveIn(rm') : (i \in LiveIn(rm) /\ rm'[i].name = rm[i].name) \/ (i = Len(rm) + 1 /\ rm'[i].name = n)
      BY <1>1, <1>3, <1>4, <1>6, <2>1 DEF LiveIn
    <2> QED
      BY <1>6, <2>2, <2>3 DEF OneName
  <1>7. \A v \in Threads : SweepsOn(thread'[v], thread[v], rm, rm', rows')
    <2>1. thread \in [Threads -> Hand] /\ thread[w] \in Hand
      BY DEF Typed, HandsTyped
    <2>2. ~ Sweeps(thread'[w])
      BY <1>2, <2>1 DEF EntryFails, NextEntry, Hand, Sweeps
    <2>3. ASSUME NEW v \in Threads, v # w, Sweeps(thread[v])
          PROVE  thread[v].done \cap LiveIn(rm') \subseteq LiveIn(rm)
      <3>1. thread[v].done \subseteq DOMAIN rm \cup {0}
        BY <2>3 DEF Sweeps, Typed, HandsTyped, Fits, Enumerating
      <3>2. 0 \notin DOMAIN rm'
        <4>1. rm' \in Seq(Portfolio)
          BY CreateTyped DEF Typed, WorldTyped
        <4> QED
          BY <4>1
      <3> QED
        BY <1>1, <3>1, <3>2 DEF LiveIn
    <2>4. ASSUME NEW v \in Threads, v # w PROVE SweepsOn(thread'[v], thread[v], rm, rm', rows')
      <3>1. thread'[v] = thread[v]
        BY <1>2, <2>4
      <3>2. CASE Sweeps(thread[v])
        BY <2>3, <2>4, <3>1, <3>2, SweepsStill
      <3>3. CASE ~ Sweeps(thread[v])
        BY <3>1, <3>3 DEF SweepsOn
      <3> QED
        BY <3>2, <3>3
    <2> QED
      BY <2>2, <2>4, SweepsStill DEF SweepsOn
  <1>8. RowsHeld(rm, rows, rows')
    BY <1>1, RowsHeldStill
  <1> QED
    BY <1>1, <1>5, <1>6, <1>7, <1>8, HealedStill

LEMMA PopulateHealed ==
    ASSUME Typed, Healed, NEW w \in Threads, Populate(w)
    PROVE  Healed'
  <1>1. rows' = rows /\ log' = log /\ (UNCHANGED rm \/ rm' = Added(thread[w].hit, thread[w].key))
    BY DEF Populate
  <1>2. rm \in Seq(Portfolio) /\ thread \in [Threads -> Hand] /\ thread[w] \in Hand
    BY DEF Typed, WorldTyped, HandsTyped
  <1>3. DOMAIN rm' = DOMAIN rm /\ \A j \in DOMAIN rm : rm'[j].name = rm[j].name /\ rm'[j].live = rm[j].live
    <2>1. CASE rm' = Added(thread[w].hit, thread[w].key)
      BY <1>2, <2>1 DEF Added, Portfolio
    <2> QED
      BY <1>1, <2>1
  <1>4. LiveIn(rm') = LiveIn(rm) /\ (OneName(rm) => OneName(rm'))
    BY <1>3 DEF LiveIn, OneName
  <1>5. ~ Sweeps(thread'[w]) /\ \A v \in Threads : v # w => thread'[v] = thread[v]
    BY <1>2 DEF Populate, Go, EntryFails, NextEntry, Hand, Sweeps
  <1>6. \A v \in Threads : SweepsOn(thread'[v], thread[v], rm, rm', rows')
    BY <1>4, <1>5, SweepsStill
  <1>7. RowsHeld(rm, rows, rows')
    BY <1>1, RowsHeldStill
  <1> QED
    BY <1>1, <1>4, <1>6, <1>7, HealedStill

LEMMA DeleteHealed ==
    ASSUME Typed, Healed, NEW i \in DOMAIN rm, DeletePortfolio(i)
    PROVE  Healed'
  <1>1. UNCHANGED <<rows, thread>> /\ log' = [log EXCEPT !.current = FALSE] /\ rm' = [rm EXCEPT ![i].live = FALSE]
    BY DEF DeletePortfolio, Elsewhere, stored
  <1>2. rm \in Seq(Portfolio) /\ log \in Log
    BY DEF Typed, WorldTyped, HistoryTyped
  <1>3. DOMAIN rm' = DOMAIN rm /\ \A j \in DOMAIN rm : rm'[j].name = rm[j].name /\ (rm'[j].live => rm[j].live)
    BY <1>1, <1>2 DEF Portfolio
  <1>4. LiveIn(rm') \subseteq LiveIn(rm) /\ (OneName(rm) => OneName(rm'))
    BY <1>3 DEF LiveIn, OneName
  <1>5. log'.twice = log.twice /\ log'.pruner = log.pruner /\ ~ log'.current
    BY <1>1, <1>2 DEF Log
  <1>6. \A v \in Threads : SweepsOn(thread'[v], thread[v], rm, rm', rows')
    BY <1>1, <1>4, SweepsStill
  <1>7. RowsHeld(rm, rows, rows')
    BY <1>1, RowsHeldStill
  <1> QED
    BY <1>4, <1>5, <1>6, <1>7, HealedStill

LEMMA HealedNext ==
    ASSUME Typed, RowNames(rm, rows), Healed, [Next]_vars
    PROVE  Healed'
  <1>0. thread \in [Threads -> Hand] /\ log \in Log
    BY DEF Typed, HandsTyped, HistoryTyped
  <1>1. ASSUME NEW w \in Threads, List(w) \/ Summarise(w) PROVE Healed'
    <2>1. UNCHANGED <<rm, rows, log>> /\ thread[w] \in Hand
      BY <1>0, <1>1 DEF List, Summarise, SyncKeeps, outside
    <2>2. ~ Sweeps(thread'[w]) /\ \A v \in Threads : v # w => thread'[v] = thread[v]
      <3>1. CASE Fails(w)
        BY <1>0, <3>1 DEF Fails, EmptyHand, Sweeps
      <3>2. CASE thread' = [thread EXCEPT ![w].at = "summarise", ![w].seen = Live, ![w].stamp = version]
        BY <1>0, <2>1, <3>2 DEF Hand, Sweeps
      <3>3. CASE \E s \in {version, 0} :
                    thread' = [thread EXCEPT ![w].summary = s, ![w].todo = Covered(thread[w]),
                                 ![w].at = IF thread[w].head \in {Import, Sync} THEN "prune" ELSE "store"]
        <4>1. PICK s \in {version, 0} :
                    thread' = [thread EXCEPT ![w].summary = s, ![w].todo = Covered(thread[w]),
                                 ![w].at = IF thread[w].head \in {Import, Sync} THEN "prune" ELSE "store"]
          BY <3>3
        <4>2. thread'[w].head = thread[w].head /\ thread'[w].at = (IF thread[w].head \in Syncs THEN "prune" ELSE "store")
          BY <1>0, <2>1, <4>1 DEF Hand, Syncs
        <4> QED
          BY <1>0, <4>1, <4>2 DEF Sweeps
      <3> QED
        BY <1>1, <3>1, <3>2, <3>3 DEF List, Summarise
    <2> QED
      BY <1>0, <2>1, <2>2, HealedAside
  <1>2. ASSUME NEW w \in Threads, SyncStep(w) PROVE Healed'
    BY <1>1, <1>2, PruneHealed, StoreHealed, StoreDoneHealed DEF SyncStep
  <1>3. ASSUME NEW w \in Threads, BreakoutStep(w) PROVE Healed'
    <2>1. CASE Create(w) \/ Populate(w) \/ Save(w)
      BY <2>1, CreateHealed, PopulateHealed, SaveHealed
    <2>2. CASE Select(w) \/ Entry(w) \/ LookUpName(w) \/ Adopt(w) \/ Finish(w)
      <3>1. UNCHANGED <<rm, rows, log>> /\ thread[w] \in Hand
        BY <1>0, <2>2 DEF Select, Entry, LookUpName, Adopt, Finish, Unmoved, outside, stored
      <3>2. ~ Sweeps(thread'[w]) /\ \A v \in Threads : v # w => thread'[v] = thread[v]
        <4>1. CASE Select(w)
          BY <1>0, <4>1 DEF Select, Fails, EmptyHand, Sweeps
        <4>2. CASE Entry(w)
          <5> DEFINE k == CHOOSE x \in thread[w].todo : TRUE
                     took == [thread[w] EXCEPT !.todo = @ \ {k}]
                     ids == {r.irp : r \in KeyRow(k)}
          <5>1. /\ thread[w].at = "entry"
                /\ thread' = [thread EXCEPT ![w] =
                      IF KeyRow(k) # {} THEN [took EXCEPT !.done = @ \cup ids]
                                        ELSE [took EXCEPT !.at = "create", !.key = k]]
            BY <4>2 DEF Entry
          <5> HIDE DEF k, ids
          <5>2. took \in Hand /\ took.at = "entry"
            BY <3>1, <5>1 DEF Hand
          <5> HIDE DEF took
          <5> QED
            BY <1>0, <5>1, <5>2 DEF Hand, Sweeps
        <4>3. CASE LookUpName(w)
          BY <1>0, <3>1, <4>3 DEF LookUpName, Go, EntryFails, NextEntry, Hand, Sweeps
        <4>4. CASE Adopt(w)
          <5>1. \/ \E i : thread' = [thread EXCEPT ![w].at = "populate", ![w].hit = i]
                \/ NextEntry(w, {})
            BY <4>4 DEF Adopt, EntryFails
          <5> QED
            BY <1>0, <3>1, <5>1 DEF NextEntry, Hand, Sweeps
        <4>5. CASE Finish(w)
          BY <1>0, <4>5 DEF Finish, Ends, EmptyHand, Sweeps
        <4> QED
          BY <2>2, <4>1, <4>2, <4>3, <4>4, <4>5
      <3> QED
        BY <1>0, <3>1, <3>2, HealedAside
    <2> QED
      BY <1>3, <2>1, <2>2 DEF BreakoutStep
  <1>4. ASSUME NEW w \in Threads, (\E h \in Heads : Claim(w, h)) \/ LookupStep(w) \/ Complete(w) \/ Crash(w)
        PROVE  Healed'
    <2>1. UNCHANGED <<rm, rows, log>> /\ thread[w] \in Hand
      BY <1>0, <1>4 DEF Claim, LookupStep, SubmitLookup, RecordLookup, LookupKeeps, Complete, Crash, outside, stored
    <2>2. ~ Sweeps(thread'[w]) /\ \A v \in Threads : v # w => thread'[v] = thread[v]
      <3>1. ASSUME NEW h \in Heads, Claim(w, h)
            PROVE  ~ Sweeps(thread'[w]) /\ \A v \in Threads : v # w => thread'[v] = thread[v]
        <4>1. thread'[w] = Approved(h) /\ \A v \in Threads : v # w => thread'[v] = thread[v]
          BY <1>0, <3>1 DEF Claim
        <4>2. Approved(h).at \in {"entry", "submit", "list"}
          BY DEF Approved, EmptyHand, FirstStep
        <4> QED
          BY <4>1, <4>2 DEF Sweeps
      <3>2. CASE LookupStep(w)
        BY ZenonT(60), <1>0, <2>1, <3>2 DEF LookupStep, SubmitLookup, RecordLookup, Ends, Fails, EmptyHand, Hand, Sweeps
      <3>3. CASE Complete(w) \/ Crash(w)
        BY <1>0, <3>3 DEF Complete, Crash, EmptyHand, Sweeps
      <3> QED
        BY <1>4, <3>1, <3>2, <3>3
    <2> QED
      BY <1>0, <2>1, <2>2, HealedAside
  <1>5. ASSUME NEW q \in Requests, RequestStep(q) PROVE Healed'
    <2>1. UNCHANGED <<rm, rows, thread>>
      BY <1>5 DEF RequestStep, OpenModal, Confirm, Compose, StampGroup, ArmBreakout, Ask, ArmLookup,
         RequestKeeps, outside, stored
    <2>2. log' = log \/ \E b \in BOOLEAN : log' = [log EXCEPT !.renamed = b]
      <3>1. CASE ArmBreakout(q)
        <4> DEFINE d == request[q].what
                   b == log.renamed \/ (~ Active(Quick(d)) /\ Renames(d, request[q].names))
        <4>1. b \in BOOLEAN
          BY <1>0 DEF Log, Active, Renames
        <4>2. log' = log \/ log' = [log EXCEPT !.renamed = b]
          BY <3>1 DEF ArmBreakout
        <4> HIDE DEF b
        <4> QED
          BY <4>1, <4>2
      <3>2. CASE UNCHANGED log
        BY <3>2
      <3> QED
        BY <1>5, <3>1, <3>2 DEF RequestStep, OpenModal, Confirm, Compose, StampGroup, Ask, ArmLookup
    <2> QED
      BY <1>0, <2>1, <2>2, HealedAside
  <1>6. ASSUME NEW i \in DOMAIN rm, DeletePortfolio(i) PROVE Healed'
    BY <1>6, DeleteHealed
  <1>7. ASSUME NEW j, Poll(j) \/ LookupEnds(j) \/ Reclaim(j) PROVE UNCHANGED <<rm, rows, thread, log>>
    BY <1>7 DEF Poll, LookupEnds, Reclaim, LookupKeeps, Elsewhere, outside, stored
  <1>8. CASE UNCHANGED vars
    <2>1. UNCHANGED <<rm, rows, thread, log>>
      BY <1>8 DEF vars, outside, stored
    <2> QED
      BY <1>0, <2>1, HealedAside
  <1> QED
    BY <1>0, <1>2, <1>3, <1>4, <1>5, <1>6, <1>7, <1>8, HealedAside DEF Next

-----------------------------------------------------------------------------
(* The stamp of the source *)

Afters == {After(j) : j \in 1..MaxLookups}
Reads(t) == t.at \in {"summarise", "prune", "store"}

(* A thread that runs the refresh h has the newest stamp to store, and has *)
(* not ended without storing it.                                           *)
Due(h, t, v) == t.head = h /\ t.at # "idle" =>
    /\ t.at # "succeeded"
    /\ t.at \in {"summarise", "store"} => t.stamp = v
    /\ t.at = "store" => t.done = {} /\ t.todo \subseteq {0}

(* The refresh after lookup j has yet to store a stamp. *)
Comes(j) ==
    \/ lookups[j].state \in {"finished", "failed"}
    \/ /\ lookups[j].state = "polled" /\ heads[After(j)] # "none"
       /\ \A w \in Threads : Due(After(j), thread[w], version)

(* A lookup that has not been polled has no refresh. *)
PollFirst == \A j \in 1..MaxLookups :
    (j \in DOMAIN lookups => lookups[j].state # "polled") =>
        /\ heads[After(j)] = "none"
        /\ \A w \in Threads : thread[w].head = After(j) => thread[w].at = "idle"

Fresh ==
    \/ log.late \/ source.stamp = version
    \/ \E j \in DOMAIN lookups : Comes(j)
    \/ source.stamp = 0 /\ \A w \in Threads : Reads(thread[w]) => thread[w].stamp = version

LEMMA AftersAre ==
    /\ Afters \subseteq Heads /\ Afters \subseteq Refreshes
    /\ Afters \cap (Breakouts \cup Syncs \cup {Lookup}) = {}
    /\ \A h \in Breakouts : Refresh(h) \notin Afters
  BY HeadsApart DEF Afters

LEMMA LookupsAre ==
    ASSUME Typed
    PROVE  /\ lookups \in Seq(LookupJob) /\ Len(lookups) \in Nat /\ DOMAIN lookups = 1..Len(lookups)
           /\ Len(lookups) <= MaxLookups /\ MaxLookups \in Nat /\ DOMAIN lookups \subseteq 1..MaxLookups
           /\ \A j \in DOMAIN lookups : After(j) \in Afters
  <1>1. /\ lookups \in Seq(LookupJob) /\ Len(lookups) <= MaxLookups /\ MaxLookups \in Nat
    BY PortfolioBreakoutAssumption DEF Typed, WorldTyped
  <1>2. Len(lookups) \in Nat /\ DOMAIN lookups = 1..Len(lookups)
    BY <1>1
  <1>3. DOMAIN lookups \subseteq 1..MaxLookups
    BY <1>1, <1>2
  <1> QED
    BY <1>1, <1>2, <1>3 DEF Afters

(* A thread keeps what is due and reads nothing old. *)
KeepsDue(s, t, v) ==
    /\ Reads(s) => s.stamp = v \/ (Reads(t) /\ s.stamp = t.stamp)
    /\ \A h \in Afters : Due(h, t, v) => Due(h, s, v)

LEMMA DueStill ==
    ASSUME NEW s, NEW t, NEW v,
           \/ s = t
           \/ ~ Reads(s) /\ (s.at # "succeeded" \/ s.head \notin Afters)
    PROVE  KeepsDue(s, t, v)
  BY DEF KeepsDue, Due, Reads

(* The steps that leave the stamps alone. *)
LEMMA FreshStill ==
    ASSUME Fresh, UNCHANGED <<version, source>>, log'.late = log.late,
           \A j \in DOMAIN lookups : j \in DOMAIN lookups' /\ lookups'[j].state = lookups[j].state,
           \A w \in Threads : KeepsDue(thread'[w], thread[w], version),
           \A j \in DOMAIN lookups : After(j) \in Afters,
           \A j \in DOMAIN lookups : Comes(j) /\ lookups[j].state = "polled" => heads'[After(j)] # "none"
    PROVE  Fresh'
  <1>1. ASSUME NEW j \in DOMAIN lookups, Comes(j) PROVE j \in DOMAIN lookups' /\ Comes(j)'
    BY <1>1 DEF Comes, KeepsDue
  <1>2. ASSUME \A w \in Threads : Reads(thread[w]) => thread[w].stamp = version
        PROVE  \A w \in Threads : Reads(thread'[w]) => thread'[w].stamp = version
    BY <1>2 DEF KeepsDue
  <1> QED
    BY <1>1, <1>2 DEF Fresh

(* No job loses its status but by Complete. *)
LEMMA FreshQueue ==
    ASSUME Typed, Fresh, UNCHANGED <<version, source, log, lookups>>,
           \A h \in Afters : heads[h] # "none" => heads'[h] # "none",
           \A w \in Threads : KeepsDue(thread'[w], thread[w], version)
    PROVE  Fresh'
  BY LookupsAre, FreshStill DEF Comes

LEMMA ArmKeeps ==
    ASSUME Typed, NEW h \in Heads, NEW p, Arm(h, p)
    PROVE  \A k \in Heads : /\ heads[k] # "none" => heads'[k] # "none"
                            /\ k # h => heads'[k] = heads[k]
  BY DEF Arm, queue, Typed, QueueTyped

LEMMA StoreFresh ==
    ASSUME Typed, Fresh, NEW w \in Threads, Store(w)
    PROVE  Fresh'
  <1> DEFINE t == thread[w]
             i == First(t.todo)
             stored1 == thread' = [thread EXCEPT ![w].todo = @ \ {i}, ![w].done = @ \cup {i}]
  <1>1. /\ UNCHANGED <<version, lookups, heads>> /\ t.at = "store" /\ thread \in [Threads -> Hand] /\ t \in Hand
        /\ log \in Log
    BY DEF Store, SyncKeeps, outside, queue, Typed, HandsTyped, HistoryTyped
  <1>2. i \in t.todo
    BY FirstToStore DEF Store
  <1>3. \/ /\ i = 0 /\ source' = [stamp |-> t.stamp, summary |-> t.summary]
           /\ log' = [log EXCEPT !.late = @ \/ t.stamp < source.stamp] /\ stored1
        \/ i # 0 /\ UNCHANGED source /\ log'.late = log.late /\ (stored1 \/ Ends(w, "failed"))
        \/ thread' = [thread EXCEPT ![w].todo = @ \ {i}] /\ UNCHANGED <<source, log>>
    <2>1. CASE /\ i # 0 /\ UNCHANGED source /\ (stored1 \/ Ends(w, "failed"))
               /\ log' = [log EXCEPT !.current = @ /\ t.seen = Live,
                               !.pruner = IF t.seen = Live THEN @ ELSE None]
      <3>1. log'.late = log.late
        BY <1>1, <2>1 DEF Log
      <3> QED
        BY <2>1, <3>1
    <2> QED
      BY <2>1 DEF Store, First
  <1>4. \A v \in Threads : v # w => thread'[v] = thread[v]
    BY <1>1, <1>3 DEF Ends
  <1> HIDE DEF i
  <1>5. stored1 => /\ thread'[w].at = t.at /\ thread'[w].head = t.head /\ thread'[w].stamp = t.stamp
    BY <1>1 DEF Hand
  <1>6. CASE i # 0 /\ UNCHANGED source /\ log'.late = log.late /\ (stored1 \/ Ends(w, "failed"))
    <2>1. KeepsDue(thread'[w], t, version)
      <3>1. CASE stored1
        BY <1>1, <1>2, <1>5, <1>6, <3>1 DEF KeepsDue, Due, Reads
      <3>2. CASE Ends(w, "failed")
        <4>1. thread'[w].at = "failed"
          BY <1>1, <3>2 DEF Ends, EmptyHand
        <4> QED
          BY <4>1, DueStill DEF Reads
      <3> QED
        BY <1>6, <3>1, <3>2
    <2> QED
      BY <1>1, <1>4, <1>6, <2>1, DueStill, LookupsAre, FreshStill DEF Comes
  <1>7. CASE thread' = [thread EXCEPT ![w].todo = @ \ {i}] /\ UNCHANGED <<source, log>>
    <2>1. /\ thread'[w].at = t.at /\ thread'[w].head = t.head /\ thread'[w].stamp = t.stamp
          /\ thread'[w].todo \subseteq t.todo /\ thread'[w].done = t.done
      BY <1>1, <1>7 DEF Hand
    <2>2. KeepsDue(thread'[w], t, version)
      BY <2>1 DEF KeepsDue, Due, Reads
    <2> QED
      BY <1>1, <1>4, <1>7, <2>2, DueStill, FreshQueue
  <1>8. CASE /\ i = 0 /\ source' = [stamp |-> t.stamp, summary |-> t.summary]
             /\ log' = [log EXCEPT !.late = @ \/ t.stamp < source.stamp] /\ stored1
    <2>1. source'.stamp = t.stamp /\ t.stamp \in Nat /\ source.stamp \in Nat /\ version \in Nat /\ t.stamp <= version
          /\ source.stamp <= version
      BY <1>1, <1>8 DEF Typed, HandsTyped, Fits, Enumerating, StoredTyped, WorldTyped, Hand
    <2>2. log'.late = (log.late \/ t.stamp < source.stamp)
      BY <1>1, <1>8 DEF Log
    <2>3. ASSUME t.stamp = version PROVE Fresh'
      BY <1>1, <2>1, <2>3 DEF Fresh
    <2>4. ASSUME NEW j \in DOMAIN lookups, Comes(j), t.stamp # version PROVE Comes(j)'
      <3>1. CASE lookups[j].state \in {"finished", "failed"}
        BY <1>1, <3>1 DEF Comes
      <3>2. CASE lookups[j].state \notin {"finished", "failed"}
        <4>1. \A v \in Threads : Due(After(j), thread[v], version)
          BY <2>4, <3>2 DEF Comes
        <4>2. t.head # After(j)
          BY <1>1, <2>4, <4>1 DEF Due
        <4>3. Due(After(j), thread'[w], version)
          BY <1>5, <1>8, <4>2 DEF Due
        <4> QED
          BY <1>1, <1>4, <2>4, <3>2, <4>1, <4>3 DEF Comes
      <3> QED
        BY <3>1, <3>2
    <2>5. CASE source.stamp = version
      <3>1. CASE t.stamp < source.stamp
        <4>1. log'.late
          BY <2>2, <3>1
        <4> QED
          BY <4>1 DEF Fresh
      <3>2. CASE ~ (t.stamp < source.stamp)
        <4>1. t.stamp = version
          BY <2>1, <2>5, <3>2
        <4> QED
          BY <2>3, <4>1
      <3> QED
        BY <3>1, <3>2
    <2>6. CASE source.stamp = 0 /\ \A v \in Threads : Reads(thread[v]) => thread[v].stamp = version
      BY <1>1, <2>3, <2>6 DEF Reads
    <2>7. CASE log.late
      BY <2>2, <2>7 DEF Fresh
    <2>8. CASE \E j \in DOMAIN lookups : Comes(j)
      BY <1>1, <2>3, <2>4, <2>8 DEF Fresh
    <2> QED
      BY <2>5, <2>6, <2>7, <2>8 DEF Fresh
  <1> QED
    BY <1>3, <1>6, <1>7, <1>8

LEMMA SummariseDue ==
    ASSUME Typed, NEW w \in Threads, Summarise(w)
    PROVE  \A v \in Threads : KeepsDue(thread'[v], thread[v], version)
  <1> DEFINE t == thread[w]
  <1>1. thread \in [Threads -> Hand] /\ t \in Hand /\ t.at = "summarise"
    BY DEF Summarise, Typed, HandsTyped
  <1>2. CASE Fails(w)
    <2>1. thread'[w].at = "failed" /\ \A v \in Threads : v # w => thread'[v] = thread[v]
      BY <1>1, <1>2 DEF Fails, EmptyHand
    <2> QED
      BY <2>1, DueStill DEF Reads
  <1>3. CASE \E s \in {version, 0} :
                thread' = [thread EXCEPT ![w].summary = s, ![w].todo = Covered(t),
                             ![w].at = IF t.head \in {Import, Sync} THEN "prune" ELSE "store"]
    <2>1. PICK s \in {version, 0} :
                thread' = [thread EXCEPT ![w].summary = s, ![w].todo = Covered(t),
                             ![w].at = IF t.head \in {Import, Sync} THEN "prune" ELSE "store"]
      BY <1>3
    <2>2. /\ thread'[w].head = t.head /\ thread'[w].stamp = t.stamp /\ thread'[w].todo = Covered(t)
          /\ thread'[w].done = t.done /\ thread'[w].at \in {"prune", "store"}
          /\ \A v \in Threads : v # w => thread'[v] = thread[v]
      BY <1>1, <2>1 DEF Hand
    <2>3. t.done = {}
      BY <1>1 DEF Typed, HandsTyped, Fits, Enumerating
    <2>4. t.head \in Afters => Covered(t) \subseteq {0}
      <3>1. PlanFor(t.head, t.plan, Len(rm))
        BY <1>1 DEF Typed, HandsTyped, Fits
      <3>2. t.head \in Afters => DOMAIN t.plan = {0} /\ t.head \notin Syncs
        BY <3>1, AftersAre DEF Afters, PlanFor
      <3> QED
        BY <3>2 DEF Covered, Syncs
    <2>5. KeepsDue(thread'[w], t, version)
      BY <1>1, <2>2, <2>3, <2>4 DEF KeepsDue, Due, Reads
    <2> QED
      BY <2>2, <2>5, DueStill
  <1> QED
    BY <1>2, <1>3 DEF Summarise

LEMMA StoreDoneDue ==
    ASSUME Typed, NEW w \in Threads, StoreDone(w)
    PROVE  \A v \in Threads : KeepsDue(thread'[v], thread[v], version)
  <1> DEFINE t == thread[w]
  <1>1. thread \in [Threads -> Hand] /\ t \in Hand /\ t.at = "store"
    BY DEF StoreDone, Typed, HandsTyped
  <1>2. /\ thread'[w].head = t.head /\ \A v \in Threads : v # w => thread'[v] = thread[v]
        /\ thread'[w].at \in {"failed", "succeeded"}
        /\ t.done = {} /\ Covered(t) # {} => thread'[w].at = "failed"
    BY <1>1 DEF StoreDone, Ends, Fails, EmptyHand
  <1>3. t.head \in Afters => Covered(t) # {}
    <2>1. PlanFor(t.head, t.plan, Len(rm))
      BY <1>1 DEF Typed, HandsTyped, Fits
    <2>2. t.head \in Afters => DOMAIN t.plan = {0} /\ t.head \notin Syncs
      BY <2>1, AftersAre DEF Afters, PlanFor
    <2> QED
      BY <2>2 DEF Covered, Syncs
  <1>4. KeepsDue(thread'[w], t, version)
    BY <1>1, <1>2, <1>3 DEF KeepsDue, Due, Reads
  <1> QED
    BY <1>2, <1>4, DueStill

LEMMA SyncFresh ==
    ASSUME Typed, Fresh, NEW w \in Threads, SyncStep(w)
    PROVE  Fresh'
  <1>1. UNCHANGED <<version, lookups, heads>> /\ thread \in [Threads -> Hand] /\ thread[w] \in Hand
        /\ log \in Log
    BY DEF SyncStep, List, Summarise, Prune, Store, StoreDone, SyncKeeps, outside, queue, Typed, HandsTyped,
       HistoryTyped
  <1>2. CASE List(w)
    <2>1. KeepsDue(thread'[w], thread[w], version) /\ \A v \in Threads : v # w => thread'[v] = thread[v]
      <3>1. CASE Fails(w)
        <4>1. thread'[w].at = "failed" /\ \A v \in Threads : v # w => thread'[v] = thread[v]
          BY <1>1, <3>1 DEF Fails, EmptyHand
        <4> QED
          BY <4>1, DueStill DEF Reads
      <3>2. CASE thread' = [thread EXCEPT ![w].at = "summarise", ![w].seen = Live, ![w].stamp = version]
        <4>1. thread'[w].at = "summarise" /\ thread'[w].stamp = version /\ \A v \in Threads : v # w => thread'[v] = thread[v]
          BY SMTT(60), <1>1, <3>2 DEF Hand
        <4> QED
          BY <4>1 DEF KeepsDue, Due, Reads
      <3> QED
        BY <1>2, <3>1, <3>2 DEF List
    <2> QED
      BY <1>1, <1>2, <2>1, DueStill, FreshQueue DEF List
  <1>3. CASE Summarise(w)
    BY <1>1, <1>3, SummariseDue, FreshQueue DEF Summarise
  <1>4. CASE Prune(w)
    <2>1. log'.late = log.late /\ UNCHANGED source
      BY <1>1, <1>4 DEF Prune, Log
    <2>2. KeepsDue(thread'[w], thread[w], version) /\ \A v \in Threads : v # w => thread'[v] = thread[v]
      <3>1. CASE Ends(w, "failed")
        <4>1. thread'[w].at = "failed" /\ \A v \in Threads : v # w => thread'[v] = thread[v]
          BY <1>1, <3>1 DEF Ends, EmptyHand
        <4> QED
          BY <4>1, DueStill DEF Reads
      <3>2. CASE Go(w, "store")
        <4>1. /\ thread'[w].at = "store" /\ thread'[w].stamp = thread[w].stamp /\ thread'[w].head = thread[w].head
              /\ \A v \in Threads : v # w => thread'[v] = thread[v]
          BY <1>1, <3>2 DEF Go, Hand
        <4>2. thread[w].at = "prune" /\ thread[w].head \in Syncs
          BY <1>4 DEF Prune, Typed, HandsTyped, Fits, Enumerating
        <4>3. thread[w].head \notin Afters
          BY <4>2, AftersAre
        <4> QED
          BY <4>1, <4>2, <4>3 DEF KeepsDue, Due, Reads
      <3> QED
        BY <1>4, <3>1, <3>2 DEF Prune
    <2> QED
      BY <1>1, <2>1, <2>2, DueStill, LookupsAre, FreshStill DEF Comes
  <1>5. CASE Store(w)
    BY <1>5, StoreFresh
  <1>6. CASE StoreDone(w)
    <2>1. log'.late = log.late /\ UNCHANGED source
      BY <1>1, <1>6 DEF StoreDone, Log
    <2> QED
      BY <1>1, <1>6, <2>1, StoreDoneDue, LookupsAre, FreshStill DEF Comes
  <1> QED
    BY <1>2, <1>3, <1>4, <1>5, <1>6 DEF SyncStep

(* What no sync is doing keeps what is due. *)
LEMMA OthersDue ==
    ASSUME Typed, NEW w \in Threads,
           BreakoutStep(w) \/ LookupStep(w) \/ Complete(w) \/ Crash(w) \/ \E h \in Heads : Claim(w, h)
    PROVE  \A v \in Threads : KeepsDue(thread'[v], thread[v], version)
  <1>1. thread \in [Threads -> Hand] /\ thread[w] \in Hand
    BY DEF Typed, HandsTyped
  <1> DEFINE Leaves == ~ Reads(thread'[w]) /\ (thread'[w].at # "succeeded" \/ thread'[w].head \notin Afters)
             Rest == \A v \in Threads : v # w => thread'[v] = thread[v]
  <1> SUFFICES Leaves /\ Rest
    BY DueStill
  <1>2. CASE BreakoutStep(w)
    <2>1. thread[w].head \in Breakouts /\ thread[w].head \notin Afters
      <3>1. thread[w].at \in Makes
        BY <1>2 DEF BreakoutStep, Select, Entry, LookUpName, Create, Adopt, Populate, Save, Finish, Makes
      <3> QED
        BY SMTT(60), <3>1, MakerHolds, AftersAre
    <2>2. CASE Select(w)
      BY <1>1, <2>2 DEF Select, Fails, EmptyHand, Reads
    <2>3. CASE Entry(w)
      <3> DEFINE k == CHOOSE x \in thread[w].todo : TRUE
                 took == [thread[w] EXCEPT !.todo = @ \ {k}]
                 ids == {r.irp : r \in KeyRow(k)}
      <3>1. /\ thread[w].at = "entry"
            /\ thread' = [thread EXCEPT ![w] =
                  IF KeyRow(k) # {} THEN [took EXCEPT !.done = @ \cup ids]
                                    ELSE [took EXCEPT !.at = "create", !.key = k]]
        BY <2>3 DEF Entry
      <3> HIDE DEF k, ids
      <3>2. took \in Hand /\ took.at = "entry"
        BY <1>1, <3>1 DEF Hand
      <3> HIDE DEF took
      <3> QED
        BY <1>1, <3>1, <3>2 DEF Hand, Reads
    <2>4. CASE LookUpName(w)
      BY <1>1, <2>4 DEF LookUpName, Go, EntryFails, NextEntry, Hand, Reads
    <2>5. CASE Create(w) \/ Adopt(w)
      <3>1. \/ \E i : thread' = [thread EXCEPT ![w].at = "populate", ![w].hit = i]
            \/ NextEntry(w, {})
        BY <2>5 DEF Adopt, Create, EntryFails
      <3> QED
        BY <1>1, <3>1 DEF NextEntry, Hand, Reads
    <2>6. CASE Populate(w)
      BY <1>1, <2>6 DEF Populate, Go, EntryFails, NextEntry, Hand, Reads
    <2>7. CASE Save(w)
      <3>1. \E ids : NextEntry(w, ids)
        BY <2>7 DEF Save, EntryFails
      <3> QED
        BY <1>1, <3>1 DEF NextEntry, Hand, Reads
    <2>8. CASE Finish(w)
      BY <1>1, <2>1, <2>8 DEF Finish, Ends, EmptyHand, Reads
    <2> HIDE DEF Leaves, Rest
    <2> QED
      BY <1>2, <2>2, <2>3, <2>4, <2>5, <2>6, <2>7, <2>8 DEF BreakoutStep
  <1>3. CASE LookupStep(w)
    <2>1. thread[w].head = Lookup /\ Lookup \notin Afters
      BY <1>3, AftersAre DEF LookupStep, SubmitLookup, RecordLookup, Typed, HandsTyped, Fits
    <2>2. CASE thread' = [thread EXCEPT ![w].at = "record", ![w].hit = Len(lookups) + 1]
      BY <1>1, <2>2 DEF Hand, Reads
    <2>3. CASE Fails(w) \/ Ends(w, "succeeded")
      BY <1>1, <2>1, <2>3 DEF Ends, Fails, EmptyHand, Reads
    <2> HIDE DEF Leaves, Rest
    <2> QED
      BY <1>3, <2>2, <2>3 DEF LookupStep, SubmitLookup, RecordLookup
  <1>4. CASE Complete(w) \/ Crash(w)
    BY <1>1, <1>4 DEF Complete, Crash, EmptyHand, Reads
  <1>5. ASSUME NEW h \in Heads, Claim(w, h)
        PROVE  Leaves /\ Rest
    <2>1. thread'[w] = Approved(h) /\ \A v \in Threads : v # w => thread'[v] = thread[v]
      BY <1>1, <1>5 DEF Claim
    <2>2. Approved(h).at \in {"entry", "submit", "list"}
      BY DEF Approved, EmptyHand, FirstStep
    <2> QED
      BY <2>1, <2>2 DEF Reads
  <1> HIDE DEF Leaves, Rest
  <1> QED
    BY <1>2, <1>3, <1>4, <1>5

LEMMA OthersFresh ==
    ASSUME Typed, Fresh, NEW w \in Threads,
           BreakoutStep(w) \/ LookupStep(w) \/ Complete(w) \/ Crash(w) \/ \E h \in Heads : Claim(w, h)
    PROVE  Fresh'
  <1>1. heads \in [Heads -> HeadStatus] /\ Afters \subseteq Heads /\ log \in Log /\ thread \in [Threads -> Hand]
    BY AftersAre DEF Typed, QueueTyped, HistoryTyped, HandsTyped
  <1>2. \A v \in Threads : KeepsDue(thread'[v], thread[v], version)
    BY SMTT(60), OthersDue
  <1>3. UNCHANGED <<version, source>>
    BY DEF BreakoutStep, Select, Entry, LookUpName, Create, Adopt, Populate, Save, Finish, EntryKeeps,
       LookupStep, SubmitLookup, RecordLookup, LookupKeeps, Complete, Crash, Claim, outside, stored
  <1>4. log'.late = log.late
    <2>1. CASE UNCHANGED log
      BY <2>1
    <2>2. CASE Create(w)
      BY <1>1, <2>2 DEF Create, Log
    <2> QED
      BY <2>1, <2>2 DEF BreakoutStep, Select, Entry, LookUpName, Adopt, Populate, Save, Finish, Unmoved,
         LookupStep, SubmitLookup, RecordLookup, LookupKeeps, Complete, Crash, Claim
  <1>5. \A j \in DOMAIN lookups : j \in DOMAIN lookups' /\ lookups'[j].state = lookups[j].state
    <2>1. CASE UNCHANGED lookups
      BY <2>1
    <2>2. CASE SubmitLookup(w)
      BY <2>2, LookupsAre DEF SubmitLookup, Accepted
    <2>3. CASE RecordLookup(w)
      BY SMTT(60), <2>3, LookupsAre DEF RecordLookup, LookupJob
    <2> QED
      BY <2>1, <2>2, <2>3 DEF BreakoutStep, Select, Entry, LookUpName, Create, Adopt, Populate, Save, Finish,
         EntryKeeps, LookupStep, Complete, Crash, Claim, outside
  <1>6. ASSUME NEW j \in DOMAIN lookups, Comes(j), lookups[j].state = "polled" PROVE heads'[After(j)] # "none"
    <2>1. After(j) \in Heads /\ heads[After(j)] # "none" /\ Due(After(j), thread[w], version)
      BY <1>1, <1>6, LookupsAre DEF Comes
    <2>2. CASE UNCHANGED heads
      BY <2>1, <2>2
    <2>3. CASE Finish(w)
      <3>1. thread[w].head \in Breakouts
        BY <2>3, MakerHolds DEF Finish, Makes
      <3>2. UNCHANGED queue \/ Arm(Refresh(thread[w].head), [i \in thread[w].done |-> None])
        BY <2>3 DEF Finish
      <3> QED
        BY <1>6, <2>1, <3>1, <3>2, HeadsApart, ArmKeeps DEF queue
    <2>4. CASE Complete(w)
      <3> DEFINE h == thread[w].head
      <3>1. CASE h # After(j) \/ heads[h] # "running"
        BY <1>1, <1>6, <2>1, <2>4, <3>1 DEF Complete, queue
      <3>2. CASE h = After(j) /\ thread[w].at = "failed"
        BY <1>1, <1>6, <2>1, <2>4, <3>2 DEF Complete, queue
      <3>3. CASE h = After(j) /\ thread[w].at = "succeeded"
        BY <2>1, <3>3 DEF Due
      <3> QED
        BY <2>4, <3>1, <3>2, <3>3 DEF Complete
    <2>5. ASSUME NEW h \in Heads, Claim(w, h) PROVE heads'[After(j)] # "none"
      BY <1>1, <1>6, <2>1, <2>5 DEF Claim
    <2> QED
      BY <2>2, <2>3, <2>4, <2>5 DEF BreakoutStep, Select, Entry, LookUpName, Create, Adopt, Populate, Save,
         EntryKeeps, LookupStep, SubmitLookup, RecordLookup, LookupKeeps, Crash, queue
  <1> QED
    BY <1>2, <1>3, <1>4, <1>5, <1>6, LookupsAre, FreshStill

(* Of two lookups, the one that has no step keeps what it comes to. *)
LEMMA OthersCome ==
    ASSUME Typed, NEW j \in DOMAIN lookups, NEW k \in DOMAIN lookups, k # j, Comes(k), NEW st,
           lookups' = [lookups EXCEPT ![j].state = st], UNCHANGED <<version, thread>>,
           heads[After(k)] # "none" => heads'[After(k)] # "none"
    PROVE  k \in DOMAIN lookups' /\ Comes(k)'
  <1>1. k \in DOMAIN lookups' /\ lookups'[k] = lookups[k]
    BY LookupsAre
  <1> QED
    BY <1>1 DEF Comes

LEMMA StateOf ==
    ASSUME Typed, NEW j \in DOMAIN lookups, NEW st, lookups' = [lookups EXCEPT ![j].state = st]
    PROVE  DOMAIN lookups' = DOMAIN lookups /\ lookups'[j].state = st
  <1>1. DOMAIN lookups' = DOMAIN lookups /\ lookups'[j] = [lookups[j] EXCEPT !.state = st]
    BY LookupsAre
  <1>2. lookups[j] \in LookupJob
    BY LookupsAre
  <1> QED
    BY <1>1, <1>2 DEF LookupJob

LEMMA LookupEndsFresh ==
    ASSUME Typed, Fresh, NEW j \in DOMAIN lookups, LookupEnds(j)
    PROVE  Fresh'
  <1>1. UNCHANGED <<source, thread, log, heads>> /\ lookups[j].state = "running"
    BY DEF LookupEnds, Elsewhere, stored, queue
  <1>2. ~ Comes(j)
    BY <1>1 DEF Comes
  <1>3. CASE \E st \in {"finished", "failed"} : lookups' = [lookups EXCEPT ![j].state = st]
    BY <1>3, StateOf DEF Fresh, Comes
  <1>4. CASE lookups' = [lookups EXCEPT ![j].state = "cancelled"] /\ UNCHANGED version
    <2>1. ASSUME NEW k \in DOMAIN lookups, Comes(k) PROVE k \in DOMAIN lookups' /\ Comes(k)'
      BY <1>1, <1>2, <1>4, <2>1, OthersCome
    <2> QED
      BY <1>1, <1>4, <2>1 DEF Fresh
  <1> QED
    BY <1>3, <1>4 DEF LookupEnds

LEMMA PollFresh ==
    ASSUME Typed, Fresh, PollFirst, NEW j \in DOMAIN lookups, Poll(j)
    PROVE  Fresh'
  <1>1. /\ UNCHANGED <<version, source, thread, log>> /\ lookups[j].state \in LookupResults
        /\ lookups' = [lookups EXCEPT ![j].state = "polled"]
    BY DEF Poll, LookupKeeps, stored
  <1>2. j \in 1..MaxLookups /\ After(j) \in Heads /\ heads \in [Heads -> HeadStatus]
    BY LookupsAre, AftersAre DEF Typed, QueueTyped
  <1>3. heads[After(j)] = "none" /\ \A w \in Threads : Due(After(j), thread[w], version)
    BY <1>1, <1>2 DEF PollFirst, LookupResults, Due
  <1>4. CASE lookups[j].state # "cancelled"
    <2>1. heads'[After(j)] = "pending"
      BY <1>2, <1>3, <1>4 DEF Poll, Arm, Active
    <2>2. j \in DOMAIN lookups' /\ Comes(j)'
      BY <1>1, <1>3, <2>1, StateOf DEF Comes
    <2> QED
      BY <2>2 DEF Fresh
  <1>5. CASE lookups[j].state = "cancelled"
    <2>1. UNCHANGED heads /\ ~ Comes(j)
      BY <1>5 DEF Poll, queue, Comes
    <2>2. ASSUME NEW k \in DOMAIN lookups, Comes(k) PROVE k \in DOMAIN lookups' /\ Comes(k)'
      BY <1>1, <2>1, <2>2, OthersCome
    <2> QED
      BY <1>1, <2>2 DEF Fresh
  <1> QED
    BY <1>4, <1>5

(* Requests arm jobs, and no job of a lookup that has none. *)
LEMMA RequestArms ==
    ASSUME Typed, NEW q \in Requests, RequestStep(q)
    PROVE  /\ UNCHANGED <<version, source, lookups, thread>> /\ log'.late = log.late
           /\ \A h \in Heads : heads[h] # "none" => heads'[h] # "none"
           /\ \A h \in Afters : heads[h] = "none" => heads'[h] = "none"
  <1>1. UNCHANGED <<version, source, lookups, thread>>
    BY DEF RequestStep, OpenModal, Confirm, Compose, StampGroup, ArmBreakout, Ask, ArmLookup, RequestKeeps,
       outside, stored
  <1>2. log'.late = log.late
    <2>1. CASE ArmBreakout(q)
      BY <2>1 DEF ArmBreakout, Typed, HistoryTyped, Log
    <2> QED
      BY <2>1 DEF RequestStep, OpenModal, Confirm, Compose, StampGroup, Ask, ArmLookup
  <1>3. heads \in [Heads -> HeadStatus]
    BY DEF Typed, QueueTyped
  <1>4. UNCHANGED heads \/ \E h \in Heads : \E p : Arm(h, p) /\ (h \notin Afters \/ heads[h] # "none")
    <2>1. CASE ArmBreakout(q)
      <3>1. CASE request[q].what \in Dims
        BY <2>1, <3>1, HeadsApart, AftersAre DEF ArmBreakout
      <3>2. CASE request[q].what \notin Dims
        <4>1. request[q].group \in Groups
          BY <2>1, <3>2 DEF ArmBreakout, Typed, RequestsTyped, RequestFits, Request
        <4> QED
          BY <2>1, <3>2, <4>1, HeadsApart, AftersAre DEF ArmBreakout
      <3> QED
        BY <3>1, <3>2
    <2>2. CASE Ask(q)
      <3>1. Sync \in Heads /\ Sync \notin Afters
        BY HeadsApart, AftersAre DEF Syncs
      <3> QED
        BY <2>2, <3>1 DEF Ask, queue
    <2>3. CASE ArmLookup(q)
      BY <2>3, HeadsApart, AftersAre DEF ArmLookup
    <2> QED
      BY <2>1, <2>2, <2>3 DEF RequestStep, OpenModal, Confirm, Compose, StampGroup, queue
  <1>5. CASE \E h \in Heads : \E p : Arm(h, p) /\ (h \notin Afters \/ heads[h] # "none")
    <2>1. PICK h \in Heads : \E p : Arm(h, p) /\ (h \notin Afters \/ heads[h] # "none")
      BY <1>5
    <2>2. \A k \in Heads : (heads[k] # "none" => heads'[k] # "none") /\ (k # h => heads'[k] = heads[k])
      BY <2>1, ArmKeeps
    <2> QED
      BY <1>1, <1>2, <2>1, <2>2, AftersAre
  <1> QED
    BY <1>1, <1>2, <1>4, <1>5

LEMMA FreshNext ==
    ASSUME Typed, Fresh, PollFirst, [Next]_vars
    PROVE  Fresh'
  <1>1. \A w \in Threads : KeepsDue(thread[w], thread[w], version)
    BY DueStill
  <1>2. ASSUME NEW w \in Threads,
               SyncStep(w) \/ BreakoutStep(w) \/ LookupStep(w) \/ Complete(w) \/ Crash(w) \/ \E h \in Heads : Claim(w, h)
        PROVE  Fresh'
    BY <1>2, SyncFresh, OthersFresh
  <1>3. ASSUME NEW h \in Heads, Reclaim(h) PROVE Fresh'
    <2>1. UNCHANGED <<version, source, log, lookups, thread>> /\ heads' = [heads EXCEPT ![h] = "pending"]
      BY <1>3 DEF Reclaim, outside, stored
    <2> QED
      BY <1>1, <2>1, FreshQueue, AftersAre DEF Typed, QueueTyped
  <1>4. ASSUME NEW q \in Requests, RequestStep(q) PROVE Fresh'
    BY <1>1, <1>4, RequestArms, FreshStill, LookupsAre, AftersAre DEF Comes
  <1>5. ASSUME NEW j \in DOMAIN lookups, Poll(j) \/ LookupEnds(j) PROVE Fresh'
    BY <1>5, PollFresh, LookupEndsFresh
  <1>6. ASSUME NEW i \in DOMAIN rm, DeletePortfolio(i) PROVE Fresh'
    <2>1. UNCHANGED <<version, source, lookups, thread, heads>> /\ log'.late = log.late
      BY <1>6 DEF DeletePortfolio, Elsewhere, stored, queue, Typed, HistoryTyped, Log
    <2> QED
      BY <1>1, <2>1, FreshStill, LookupsAre DEF Comes
  <1>7. CASE UNCHANGED vars
    BY <1>1, <1>7, FreshQueue DEF vars, outside, stored, queue
  <1> QED
    BY <1>2, <1>3, <1>4, <1>5, <1>6, <1>7 DEF Next

-----------------------------------------------------------------------------
(* No refresh before its lookup has been polled *)

(* A thread at work on a job it had, or claimed: none of a lookup whose    *)
(* refresh has never been armed.                                           *)
LEMMA PollFirstStill ==
    ASSUME Typed, PollFirst,
           \A j \in DOMAIN lookups : /\ j \in DOMAIN lookups'
                                     /\ lookups[j].state = "polled" => lookups'[j].state = "polled",
           \A h \in Afters : heads[h] = "none" => heads'[h] = "none",
           \A w \in Threads : \/ thread'[w].at = "idle"
                              \/ thread'[w].head = thread[w].head /\ thread[w].at # "idle"
                              \/ thread'[w].head \in Heads /\ heads[thread'[w].head] # "none"
    PROVE  PollFirst'
  <1> SUFFICES ASSUME NEW j \in 1..MaxLookups, j \in DOMAIN lookups' => lookups'[j].state # "polled"
               PROVE  /\ heads'[After(j)] = "none"
                      /\ \A w \in Threads : thread'[w].head = After(j) => thread'[w].at = "idle"
    BY DEF PollFirst
  <1>1. heads[After(j)] = "none" /\ \A w \in Threads : thread[w].head = After(j) => thread[w].at = "idle"
    BY DEF PollFirst
  <1> QED
    BY <1>1 DEF Afters

LEMMA WorkPollFirst ==
    ASSUME Typed, PollFirst, NEW w \in Threads,
           SyncStep(w) \/ BreakoutStep(w) \/ LookupStep(w) \/ Complete(w) \/ Crash(w) \/ \E h \in Heads : Claim(w, h)
    PROVE  PollFirst'
  <1>1. heads \in [Heads -> HeadStatus] /\ thread \in [Threads -> Hand] /\ Afters \subseteq Heads
    BY SMTT(60), AftersAre DEF Typed, QueueTyped, HandsTyped
  <1>2. \A j \in DOMAIN lookups : /\ j \in DOMAIN lookups'
                                  /\ lookups[j].state = "polled" => lookups'[j].state = "polled"
    <2>1. CASE UNCHANGED lookups
      BY <2>1
    <2>2. CASE SubmitLookup(w)
      BY <2>2, LookupsAre DEF SubmitLookup, Accepted
    <2>3. CASE RecordLookup(w)
      BY SMTT(60), <2>3, LookupsAre DEF RecordLookup, LookupJob
    <2> QED
      BY <2>1, <2>2, <2>3 DEF SyncStep, List, Summarise, Prune, Store, StoreDone, SyncKeeps, BreakoutStep, Select, Entry,
         LookUpName, Create, Adopt, Populate, Save, Finish, EntryKeeps, LookupStep, Complete, Crash, Claim, outside
  <1>3. \A h \in Afters : heads[h] = "none" => heads'[h] = "none"
    <2>1. CASE UNCHANGED heads
      BY <2>1
    <2>2. CASE Finish(w)
      <3>1. thread[w].head \in Breakouts
        BY <2>2, MakerHolds DEF Finish, Makes
      <3>2. UNCHANGED queue \/ Arm(Refresh(thread[w].head), [i \in thread[w].done |-> None])
        BY <2>2 DEF Finish
      <3> QED
        BY <1>1, <3>1, <3>2, HeadsApart, AftersAre, ArmKeeps DEF queue
    <2>3. CASE Complete(w)
      BY <1>1, <2>3 DEF Complete, queue
    <2>4. ASSUME NEW h \in Heads, Claim(w, h) PROVE \A k \in Afters : heads[k] = "none" => heads'[k] = "none"
      BY <1>1, <2>4 DEF Claim
    <2> QED
      BY <2>1, <2>2, <2>3, <2>4 DEF SyncStep, List, Summarise, Prune, Store, StoreDone, SyncKeeps, BreakoutStep, Select,
         Entry, LookUpName, Create, Adopt, Populate, Save, EntryKeeps, LookupStep, SubmitLookup, RecordLookup, Crash, queue
  <1>4. CASE SyncStep(w) \/ BreakoutStep(w) \/ LookupStep(w)
    <2>1. thread[w].at # "idle"
      BY <1>4 DEF SyncStep, List, Summarise, Prune, Store, StoreDone, BreakoutStep, Select,
         Entry, LookUpName, Create, Adopt, Populate, Save, Finish, LookupStep, SubmitLookup, RecordLookup
    <2>2. thread'[w].head = thread[w].head /\ \A v \in Threads : v # w => thread'[v] = thread[v]
      BY <1>4, SyncHeads, MakeHeads, LookupHeads
    <2> QED
      BY SMTT(60), <1>2, <1>3, <2>1, <2>2, PollFirstStill
  <1>5. CASE Complete(w) \/ Crash(w)
    <2>1. thread'[w].at = "idle" /\ \A v \in Threads : v # w => thread'[v] = thread[v]
      BY <1>1, <1>5 DEF Complete, Crash, EmptyHand
    <2> QED
      BY <1>2, <1>3, <2>1, PollFirstStill
  <1>6. ASSUME NEW h \in Heads, Claim(w, h) PROVE PollFirst'
    <2>1. thread'[w].head = h /\ heads[h] # "none" /\ \A v \in Threads : v # w => thread'[v] = thread[v]
      BY <1>1, <1>6 DEF Claim, Approved, EmptyHand
    <2> QED
      BY <1>2, <1>3, <2>1, PollFirstStill
  <1> QED
    BY <1>4, <1>5, <1>6

LEMMA PollFirstNext ==
    ASSUME Typed, PollFirst, [Next]_vars
    PROVE  PollFirst'
  <1>1. heads \in [Heads -> HeadStatus] /\ Afters \subseteq Heads
    BY AftersAre DEF Typed, QueueTyped
  <1>2. ASSUME UNCHANGED <<thread, lookups>>, \A h \in Afters : heads[h] = "none" => heads'[h] = "none"
        PROVE  PollFirst'
    BY <1>2, PollFirstStill
  <1>3. ASSUME NEW h \in Heads, Reclaim(h) PROVE PollFirst'
    BY <1>1, <1>2, <1>3 DEF Reclaim, outside
  <1>4. ASSUME NEW q \in Requests, RequestStep(q) PROVE PollFirst'
    BY <1>2, <1>4, RequestArms
  <1>5. ASSUME NEW j \in DOMAIN lookups, LookupEnds(j) PROVE PollFirst'
    <2>1. UNCHANGED <<thread, heads>> /\ lookups[j].state = "running"
      BY <1>5 DEF LookupEnds, Elsewhere, queue
    <2>2. PICK st : lookups' = [lookups EXCEPT ![j].state = st]
      BY <1>5 DEF LookupEnds
    <2>3. \A k \in DOMAIN lookups : k \in DOMAIN lookups' /\ (k # j => lookups'[k] = lookups[k])
      BY <2>2, LookupsAre
    <2> QED
      BY <2>1, <2>3, PollFirstStill
  <1>6. ASSUME NEW j \in DOMAIN lookups, Poll(j) PROVE PollFirst'
    <2>1. UNCHANGED thread /\ lookups' = [lookups EXCEPT ![j].state = "polled"]
      BY <1>6 DEF Poll, LookupKeeps
    <2>2. /\ DOMAIN lookups' = DOMAIN lookups /\ lookups'[j].state = "polled"
          /\ \A k \in DOMAIN lookups : k # j => lookups'[k] = lookups[k]
      BY <2>1, StateOf, LookupsAre
    <2>3. j \in 1..MaxLookups /\ \A k \in 1..MaxLookups : k # j => heads'[After(k)] = heads[After(k)]
      <3>1. j \in 1..MaxLookups /\ After(j) \in Heads /\ \A k \in 1..MaxLookups : After(k) \in Heads
        BY <1>1, LookupsAre DEF Afters
      <3>2. UNCHANGED heads \/ Arm(After(j), [i \in {0} |-> None])
        BY <1>6 DEF Poll, queue
      <3> QED
        BY <3>1, <3>2, HeadsApart, ArmKeeps
    <2> QED
      BY <2>1, <2>2, <2>3 DEF PollFirst
  <1>7. ASSUME NEW i \in DOMAIN rm, DeletePortfolio(i) PROVE PollFirst'
    BY <1>2, <1>7 DEF DeletePortfolio, Elsewhere, queue
  <1>8. CASE UNCHANGED vars
    BY <1>2, <1>8 DEF vars, outside, queue
  <1> QED
    BY <1>3, <1>4, <1>5, <1>6, <1>7, <1>8, WorkPollFirst DEF Next

(* Every portfolio has a live row once a sync has stored all it saw, and a *)
(* lookup does not leave the stamp of the source stale.                    *)
THEOREM SyncHealsAlways == Spec => []SyncHeals
  <1> DEFINE Inv == RowNames(rm, rows) /\ Healed /\ PollFirst /\ Fresh
  <1>1. Init => Inv
    <2> SUFFICES ASSUME Init PROVE Inv
      OBVIOUS
    <2>1. rm = <<>> /\ rows = {} /\ ~ log.current /\ log.pruner = None
      BY DEF Init
    <2>2. RowNames(rm, rows)
      BY <2>1 DEF RowNames
    <2>3. Healed
      BY <2>1, PortfolioBreakoutAssumption DEF Healed, OneName, LiveIn
    <2>4. thread = [w \in Threads |-> EmptyHand] /\ source.stamp = 0
      BY DEF Init
    <2>5. Fresh
      BY <2>4 DEF Fresh, Reads, EmptyHand
    <2>6. PollFirst
      <3>1. \A j \in 1..MaxLookups : After(j) \in Heads /\ After(j) # Import
        BY HeadsApart DEF Syncs
      <3> QED
        BY <2>4, <3>1 DEF PollFirst, Init, EmptyHand
    <2> QED
      BY <2>2, <2>3, <2>5, <2>6
  <1>2. Typed /\ Inv /\ [Next]_vars => Inv'
    BY RowNamesNext, HealedNext, PollFirstNext, FreshNext
  <1>3. Typed /\ Inv => SyncHeals
    <2> SUFFICES ASSUME Typed, Inv PROVE SyncHeals
      OBVIOUS
    <2>1. log.current /\ ~ log.twice => \A i \in Live : RowOf(i) \cap LiveRows # {}
      <3>1. ASSUME NEW i, HasRow(rows, i) PROVE RowOf(i) \cap LiveRows # {}
        BY <3>1 DEF HasRow, RowOf, LiveRows
      <3> QED
        BY <3>1, LiveSame DEF Healed
    <2>2. ASSUME Quiet, ~ log.late, source.stamp # 0 PROVE source.stamp = version
      <3>1. \A j \in DOMAIN lookups : ~ Comes(j)
        <4> SUFFICES ASSUME NEW j \in DOMAIN lookups PROVE ~ Comes(j)
          OBVIOUS
        <4>1. After(j) \in Heads /\ lookups[j].state = "polled"
          BY <2>2, LookupsAre, AftersAre DEF Quiet
        <4>2. heads[After(j)] = "none"
          BY <2>2, <4>1 DEF Quiet, Typed, QueueTyped, HeadStatus
        <4> QED
          BY <4>1, <4>2 DEF Comes
      <3> QED
        BY <2>2, <3>1 DEF Fresh
    <2> QED
      BY <2>1, <2>2 DEF SyncHeals
  <1> QED
    BY <1>1, <1>2, <1>3, TypedAlways, PTL DEF Spec
====
