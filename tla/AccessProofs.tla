---------------------------- MODULE AccessProofs ----------------------------
(***************************************************************************)
(* Access from both sides.  First what the client that speaks to Risk      *)
(* Modeler guarantees (RiskModelerClient), for every number of threads,    *)
(* jobs, names and rows and whatever the server and the network do; then   *)
(* what sign-in and user administration guarantee (UserAccounts), for      *)
(* every number of accounts, identities, sessions and requests.            *)
(***************************************************************************)
EXTENDS RiskModelerClient, UserAccounts, FiniteSetTheorems, SequenceTheorems, TLAPS

-----------------------------------------------------------------------------
(* What a call of a thread may be. *)
Waits   == {"none", "find", "create", "look", "walk"}
Answers == {"returned", "late", "refused", "unavailable"}
Polls   == Paged \cup {"each"}
Seen    == [id : Jobs \cup {Unlisted}, state : {"none", "running", "ended"}]
Listings == Seq(Rows \cup Seen)
Calls   == [kind : AllKinds \cup {"none"},
            step : {"idle", "ready", "resend", "flight", "login", "done"}, at : Waits,
            name : Names \cup {NoOne}, want : Seq(Jobs \cup {Unlisted}), left : 0..Retries,
            again : BOOLEAN, sent : {"fresh", "stale"}, off : Nat, seen : Listings,
            kept : SUBSET Rows, late : BOOLEAN, unheard : Nat, answer : Answers \cup {"none"}]

(* How the fields of one call of a thread hang together: what it waits for *)
(* fits its kind, what it wants and how far it is fit what it waits for.   *)
Shaped(c, t) ==
    /\ c \in Calls
    /\ c.kind \in process.does[t] \cup {"none"}
    /\ c.step = "idle" => c = NoCall
    /\ (c.at = "none") = (c.step = "idle")
    /\ c.at = "find" => c.kind = "named"
    /\ c.at = "create" => c.kind \in {"named", "execute"}
    /\ c.at = "look" => c.kind \in Polls \cup {"execute"}
    /\ c.at = "walk" => c.kind = "search" /\ c.off < MaxPages
    /\ c.kind = "named" => c.at \in {"find", "create"} /\ c.name \in Names
    /\ c.kind = "execute" => c.at \in {"create", "look"} /\ c.name = NoOne
    /\ c.kind = "execute" /\ c.at = "look" => Len(c.want) = 1 /\ c.want[1] \in Jobs
    /\ c.kind \in Polls => /\ c.at = "look" /\ Len(c.want) = 2
                           /\ c.want \in Seq(Running \cup {Unlisted})
    /\ c.at \in {"find", "create"} => c.off = 0 /\ (c.step # "done" => c.want = <<>>)
    /\ c.at = "look" => c.off <= Len(c.want)
    /\ c.kind = "each" => c.off < Len(c.want)
    /\ c.again => c.step \in {"resend", "flight", "done"} /\ process.mode = "bearer"
    /\ c.step \in {"resend", "login"} => process.mode = "bearer"
    /\ (c.answer = "none") = (c.step # "done")

(* The inductive strengthening of TypeOK. *)
JobsTyped ==
    /\ job \in [Jobs -> [state : {"none", "running", "ended"}, by : Threads \cup {NoOne},
                        name : Names \cup {NoOne}, beside : SUBSET Threads]]
    /\ \A j \in Running : job[j].state # "none"

RowsTyped == rows \in [list : Seq(Rows), changes : 0..MaxChanges]

CallsShaped ==
    /\ call = [t \in Threads |-> call[t]]
    /\ \A t \in Threads : Shaped(call[t], t)

Typed ==
    /\ process \in Processes /\ token \in {"fresh", "stale"}
    /\ JobsTyped
    /\ RowsTyped
    /\ CallsShaped

-----------------------------------------------------------------------------
(* Two numbers have a least and a greatest.                                *)
LEMMA LeastOfTwo ==
    ASSUME NEW a \in Nat, NEW b \in Nat
    PROVE  Min({a, b}) = IF a <= b THEN a ELSE b
<1>1. PICK m \in {a, b} : \A y \in {a, b} : m <= y
  OBVIOUS
<1>2. Min({a, b}) \in {a, b} /\ \A y \in {a, b} : Min({a, b}) <= y
  BY <1>1 DEF Min
<1> QED
  BY <1>2

LEMMA GreatestOfTwo ==
    ASSUME NEW a \in Nat, NEW b \in Nat
    PROVE  Max({a, b}) = IF a >= b THEN a ELSE b
<1>1. PICK m \in {a, b} : \A y \in {a, b} : m >= y
  OBVIOUS
<1>2. Max({a, b}) \in {a, b} /\ \A y \in {a, b} : Max({a, b}) >= y
  BY <1>1 DEF Max
<1> QED
  BY <1>2

(* A finite set listed as a sequence: its elements, each once.             *)
LEMMA SetAsSeq ==
    ASSUME NEW S, IsFiniteSet(S)
    PROVE  /\ SetToSeq(S) \in Seq(S)
           /\ Len(SetToSeq(S)) = Cardinality(S)
           /\ ToSet(SetToSeq(S)) = S
<1>0. Cardinality(S) \in Nat
  BY FS_CardinalityType
<1>1. PICK f : f \in Bijection(1..Cardinality(S), S)
  BY FS_CardinalityType DEF ExistsBijection
<1>2. f \in [1..Cardinality(S) -> S] /\ IsInjective(f)
  BY <1>1 DEF Bijection, Injection
<1> DEFINE s == SetToSeq(S)
<1>3. s \in [1..Cardinality(S) -> S] /\ IsInjective(s)
  BY <1>2 DEF SetToSeq
<1> HIDE DEF s
<1>4. s \in Seq(S) /\ Len(s) = Cardinality(S)
  BY <1>0, <1>3
<1>5. s \in Injection(1..Cardinality(S), S)
  BY <1>3 DEF Injection
<1>6. IsFiniteSet(1..Cardinality(S)) /\ Cardinality(1..Cardinality(S)) = Cardinality(S)
  BY <1>0, FS_Interval
<1>7. s \in Surjection(1..Cardinality(S), S)
  BY <1>5, <1>6, FS_Injection
<1>8. ToSet(s) = S
  BY <1>3, <1>7 DEF ToSet, Surjection
<1> QED
  BY <1>4, <1>8 DEF s

(* What a search for ids lists is in a fixed order what Risk Modeler knows *)
(* of them.                                                                *)
LEMMA ListsKnown ==
    ASSUME NEW w, IsFiniteSet(ToSet(w))
    PROVE  /\ Listed(w) \in Seq(Jobs)
           /\ ToSet(Listed(w)) = {j \in ToSet(w) \cap Jobs : job[j].state # "none"}
           /\ Len(Listed(w)) <= Cardinality(ToSet(w))
           /\ Len(Listed(w)) \in Nat
<1> DEFINE K == {j \in ToSet(w) \cap Jobs : job[j].state # "none"}
<1>1. IsFiniteSet(K) /\ Cardinality(K) <= Cardinality(ToSet(w)) /\ Cardinality(K) \in Nat
  BY FS_Subset, FS_CardinalityType
<1>2. SetToSeq(K) \in Seq(K) /\ Len(SetToSeq(K)) = Cardinality(K) /\ ToSet(SetToSeq(K)) = K
  BY <1>1, SetAsSeq
<1> HIDE DEF K
<1>3. K \subseteq Jobs
  BY DEF K
<1>4. SetToSeq(K) \in Seq(Jobs)
  BY <1>2, <1>3
<1> QED
  BY <1>1, <1>2, <1>4 DEF Listed, K

(* The ids of a batch of two, and of a single job.                         *)
LEMMA TwoIds ==
    ASSUME NEW w, w \in Seq(Jobs \cup {Unlisted}), Len(w) \in {1, 2}
    PROVE  IsFiniteSet(ToSet(w)) /\ Cardinality(ToSet(w)) <= Len(w) /\ Cardinality(ToSet(w)) \in Nat
<1>0. \A x : IsFiniteSet({x}) /\ Cardinality({x}) = 1
  BY FS_Singleton
<1>1. ASSUME NEW a, NEW b
      PROVE  /\ IsFiniteSet({a} \cup {b})
             /\ Cardinality({a} \cup {b}) = 1 \/ Cardinality({a} \cup {b}) = 1 + 1
  <2>1. IsFiniteSet({a}) /\ Cardinality({a}) = 1
    BY <1>0
  <2>2. /\ IsFiniteSet({a} \cup {b})
        /\ Cardinality({a} \cup {b}) =
             IF b \in {a} THEN Cardinality({a}) ELSE Cardinality({a}) + 1
    BY <2>1, FS_AddElement, Zenon
  <2> QED
    BY <2>1, <2>2, Zenon
<1>2. CASE Len(w) = 1
  <2>1. ToSet(w) = {w[1]}
    BY <1>2 DEF ToSet
  <2>2. IsFiniteSet(ToSet(w)) /\ Cardinality(ToSet(w)) = 1
    BY <1>0, <2>1, Zenon
  <2> QED
    BY <1>2, <2>2
<1>3. CASE Len(w) = 2
  <2>1. ToSet(w) = {w[1]} \cup {w[2]}
    BY <1>3 DEF ToSet
  <2> DEFINE Few(S) == IsFiniteSet(S) /\ (Cardinality(S) = 1 \/ Cardinality(S) = 1 + 1)
  <2>2. Few({w[1]} \cup {w[2]})
    BY <1>1, Zenon
  <2> HIDE DEF Few
  <2>3. Few(ToSet(w))
    BY <2>1, <2>2
  <2> QED
    BY <1>3, <2>3 DEF Few
<1> QED
  BY <1>2, <1>3

-----------------------------------------------------------------------------
(* Nothing is a listing. *)
LEMMA NothingListed == <<>> \in Listings
  BY DEF Listings

(* A call that was not begun.                                              *)
LEMMA NoCallShaped == ASSUME NEW t \in Threads PROVE Shaped(NoCall, t)
<1>1. 0 \in 0..Retries /\ <<>> \in Seq(Jobs \cup {Unlisted}) /\ <<>> \in Listings
  BY ClientConstants, NothingListed
<1> QED
  BY <1>1, ClientConstants DEF NoCall, Shaped, Calls, Waits, AllKinds, Paged, Polls, Answers

LEMMA InitIsTyped == Init => Typed
<1> SUFFICES ASSUME Init PROVE Typed
  OBVIOUS
<1>1. JobsTyped
  BY ClientConstants DEF Init, JobsTyped, NoJob
<1>2. RowsTyped
  BY ClientConstants DEF Init, RowsTyped
<1>3. CallsShaped
  BY NoCallShaped DEF Init, CallsShaped
<1> QED
  BY <1>1, <1>2, <1>3 DEF Init, Typed

(* A call that goes on with the same request, or is over, keeps the shape. *)
LEMMA SameRequest ==
    ASSUME NEW t \in Threads, NEW c, Shaped(c, t), NEW d \in Calls,
           c.step # "idle", d.step # "idle", c.step = "done" => d.step = "done",
           d.kind = c.kind, d.at = c.at, d.name = c.name, d.want = c.want, d.off = c.off,
           d.again => d.step \in {"resend", "flight", "done"} /\ process.mode = "bearer",
           d.step \in {"resend", "login"} => process.mode = "bearer",
           (d.answer = "none") = (d.step # "done")
    PROVE  Shaped(d, t)
  BY DEF Shaped

LEMMA SentShaped ==
    ASSUME NEW t \in Threads, NEW c, Shaped(c, t), c.step \in {"ready", "resend"},
           token \in {"fresh", "stale"}
    PROVE  Shaped([c EXCEPT !.step = "flight", !.left = Retries, !.sent = token], t)
<1> DEFINE d == [c EXCEPT !.step = "flight", !.left = Retries, !.sent = token]
<1>1. c \in Calls /\ Retries \in 0..Retries
  BY ClientConstants DEF Shaped
<1>2. d \in Calls
  BY <1>1 DEF Calls
<1>3. /\ d.step = "flight" /\ d.kind = c.kind /\ d.at = c.at /\ d.name = c.name
      /\ d.want = c.want /\ d.off = c.off /\ d.again = c.again /\ d.answer = c.answer
  BY <1>1 DEF Calls
<1>4. c.answer = "none" /\ (c.again => process.mode = "bearer")
  BY DEF Shaped
<1> HIDE DEF d
<1> QED
  BY <1>2, <1>3, <1>4, SameRequest DEF d

LEMMA RaisesShaped ==
    ASSUME NEW t \in Threads, NEW c, Shaped(c, t), c.step # "idle", NEW why \in Answers
    PROVE  Shaped(Raises(c, why), t)
<1> DEFINE d == Raises(c, why)
<1>1. c \in Calls /\ 0 \in 0..Retries
  BY ClientConstants DEF Shaped
<1>2. d \in Calls
  BY <1>1 DEF Calls, Raises, Answers
<1>3. /\ d.step = "done" /\ d.kind = c.kind /\ d.at = c.at /\ d.name = c.name
      /\ d.want = c.want /\ d.off = c.off /\ d.again = c.again /\ d.answer = why
  BY <1>1 DEF Calls, Raises
<1>4. why # "none" /\ (c.again => process.mode = "bearer")
  BY DEF Shaped, Answers
<1> HIDE DEF d
<1> QED
  BY <1>2, <1>3, <1>4, SameRequest DEF d

LEMMA ReturnsShaped ==
    ASSUME NEW t \in Threads, NEW c, Shaped(c, t), c.step # "idle",
           NEW s \in Listings
    PROVE  Shaped(Returns(c, s), t)
<1> DEFINE b == Raises(c, "returned")
           d == Returns(c, s)
<1>1. Shaped(b, t)
  BY RaisesShaped DEF Answers
<1>2. b \in Calls /\ b.step = "done"
  BY <1>1 DEF Shaped, Raises, Calls
<1>3. d = [b EXCEPT !.seen = s]
  BY DEF Returns
<1> HIDE DEF b, d
<1>4. d \in Calls
  BY <1>2, <1>3 DEF Calls
<1>5. /\ d.step = b.step /\ d.kind = b.kind /\ d.at = b.at /\ d.name = b.name
      /\ d.want = b.want /\ d.off = b.off /\ d.again = b.again /\ d.answer = b.answer
  BY <1>2, <1>3 DEF Calls
<1>6. b.answer # "none" /\ (b.again => process.mode = "bearer")
  BY <1>1, <1>2 DEF Shaped
<1> QED
  BY <1>1, <1>2, <1>4, <1>5, <1>6, SameRequest DEF d

LEMMA UnheardShaped ==
    ASSUME NEW t \in Threads, NEW c, Shaped(c, t), c.step # "idle", NEW n \in Nat
    PROVE  /\ Shaped([c EXCEPT !.unheard = @ + n], t)
           /\ [c EXCEPT !.unheard = @ + n].step = c.step
<1> DEFINE d == [c EXCEPT !.unheard = @ + n]
<1>1. c \in Calls
  BY DEF Shaped
<1>0. c.unheard + n \in Nat
  BY <1>1 DEF Calls
<1>2. d \in Calls
  BY <1>0, <1>1 DEF Calls
<1>3. /\ d.step = c.step /\ d.kind = c.kind /\ d.at = c.at /\ d.name = c.name
      /\ d.want = c.want /\ d.off = c.off /\ d.again = c.again /\ d.answer = c.answer
  BY <1>1 DEF Calls
<1> HIDE DEF d
<1>4. Shaped(d, t)
  BY <1>2, <1>3, SameRequest DEF Shaped
<1> QED
  BY <1>3, <1>4 DEF d

LEMMA RepeatShaped ==
    ASSUME NEW t \in Threads, NEW c, Shaped(c, t), c.step # "idle", NEW n \in Nat
    PROVE  Shaped(Repeat(c, n), t)
<1> DEFINE b == [c EXCEPT !.unheard = @ + n]
           d == [c EXCEPT !.left = @ - 1, !.unheard = @ + n]
<1>1. Shaped(b, t) /\ b.step = c.step
  BY UnheardShaped
<1>2. CASE c.left > 0
  <2>1. c \in Calls
    BY DEF Shaped
  <2>0. c.left - 1 \in 0..Retries /\ c.unheard + n \in Nat
    BY <1>2, <2>1, ClientConstants DEF Calls
  <2>2. d \in Calls
    BY <2>0, <2>1 DEF Calls
  <2>3. /\ d.step = c.step /\ d.kind = c.kind /\ d.at = c.at /\ d.name = c.name
        /\ d.want = c.want /\ d.off = c.off /\ d.again = c.again /\ d.answer = c.answer
    BY <2>1 DEF Calls
  <2>4. Repeat(c, n) = d
    BY <1>2 DEF Repeat
  <2> HIDE DEF d
  <2> QED
    BY <2>2, <2>3, <2>4, SameRequest DEF Shaped
<1>3. CASE ~ (c.left > 0)
  <2>1. Repeat(c, n) = Raises(b, "unavailable")
    BY <1>3 DEF Repeat
  <2> HIDE DEF b
  <2> QED
    BY <1>1, <2>1, RaisesShaped DEF Answers
<1> QED
  BY <1>2, <1>3

(* One call moves and nothing else. *)
LEMMA CallMoves ==
    ASSUME CallsShaped, NEW t \in Threads, NEW d, Shaped(d, t),
           UNCHANGED process, call' = [call EXCEPT ![t] = d]
    PROVE  CallsShaped'
  BY DEF CallsShaped, Shaped

LEMMA OnlyCallMoves ==
    ASSUME Typed, NEW t \in Threads, NEW d, Shaped(d, t),
           UNCHANGED <<process, token, job, rows>>, call' = [call EXCEPT ![t] = d]
    PROVE  Typed'
  BY CallMoves DEF Typed, JobsTyped, RowsTyped

-----------------------------------------------------------------------------
(* What is waited for, and how a call ends, by name. *)
LEMMA KnownWaits ==
    /\ "find" \in Waits /\ "create" \in Waits /\ "look" \in Waits /\ "walk" \in Waits
    /\ "returned" \in Answers /\ "late" \in Answers
    /\ "refused" \in Answers /\ "unavailable" \in Answers
  BY DEF Waits, Answers

(* What the next request of a call is. *)
LEMMA AsksFields ==
    ASSUME NEW c \in Calls, NEW what \in Waits
    PROVE  LET d == Asks(c, what) IN
           /\ d \in Calls /\ d.step = "ready" /\ d.at = what /\ ~d.again
           /\ d.kind = c.kind /\ d.name = c.name /\ d.want = c.want /\ d.off = c.off
           /\ d.seen = c.seen /\ d.kept = c.kept /\ d.unheard = c.unheard
           /\ d.late = c.late /\ d.answer = c.answer
<1>1. 0 \in 0..Retries
  BY ClientConstants
<1> QED
  BY <1>1 DEF Asks, Calls

(* The calls begin. *)
LEMMA GetOrCreateTyped ==
    ASSUME Typed, NEW t \in Threads, GetOrCreate(t) PROVE Typed'
<1>1. PICK n \in Names : call' = [call EXCEPT ![t] =
                Asks([@ EXCEPT !.kind = "named", !.name = n], "find")]
  BY DEF GetOrCreate
<1>2. call[t] = NoCall /\ "named" \in process.does[t] /\ call = [u \in Threads |-> call[u]]
  BY DEF GetOrCreate, Typed, CallsShaped, Shaped
<1> DEFINE b == [NoCall EXCEPT !.kind = "named", !.name = n]
<1>3. NoCall \in Calls
  BY NoCallShaped DEF Shaped
<1>4. b \in Calls /\ b.kind = "named" /\ b.name = n /\ b.want = <<>> /\ b.off = 0 /\ b.answer = "none"
  BY <1>3 DEF Calls, AllKinds, NoCall
<1> HIDE DEF b
<1>5. Shaped(Asks(b, "find"), t)
  <2> DEFINE d == Asks(b, "find")
  <2>1. /\ d \in Calls /\ d.step = "ready" /\ d.at = "find" /\ ~d.again
        /\ d.kind = b.kind /\ d.name = b.name /\ d.want = b.want /\ d.off = b.off
        /\ d.answer = b.answer
    BY <1>4, AsksFields, KnownWaits
  <2> HIDE DEF d
  <2>2. Shaped(d, t)
    BY <2>1, <1>2, <1>4 DEF Shaped, Polls, Paged
  <2> QED
    BY <2>2 DEF d
<1>6. call' = [call EXCEPT ![t] = Asks(b, "find")]
  BY <1>1, <1>2 DEF b
<1> QED
  BY <1>5, <1>6, OnlyCallMoves DEF GetOrCreate

LEMMA ExecuteTyped ==
    ASSUME Typed, NEW t \in Threads, Execute(t) PROVE Typed'
<1>1. call' = [call EXCEPT ![t] = Asks([@ EXCEPT !.kind = "execute"], "create")]
  BY DEF Execute
<1>2. call[t] = NoCall /\ "execute" \in process.does[t] /\ call = [u \in Threads |-> call[u]]
  BY DEF Execute, Typed, CallsShaped, Shaped
<1> DEFINE b == [NoCall EXCEPT !.kind = "execute"]
<1>3. NoCall \in Calls
  BY NoCallShaped DEF Shaped
<1>4. /\ b \in Calls /\ b.kind = "execute" /\ b.name = NoOne /\ b.want = <<>>
      /\ b.off = 0 /\ b.answer = "none"
  BY <1>3 DEF Calls, AllKinds, NoCall
<1> HIDE DEF b
<1>5. Shaped(Asks(b, "create"), t)
  <2> DEFINE d == Asks(b, "create")
  <2>1. /\ d \in Calls /\ d.step = "ready" /\ d.at = "create" /\ ~d.again
        /\ d.kind = b.kind /\ d.name = b.name /\ d.want = b.want /\ d.off = b.off
        /\ d.answer = b.answer
    BY <1>4, AsksFields, KnownWaits
  <2> HIDE DEF d
  <2>2. Shaped(d, t)
    BY <2>1, <1>2, <1>4 DEF Shaped, Polls, Paged
  <2> QED
    BY <2>2 DEF d
<1>6. call' = [call EXCEPT ![t] = Asks(b, "create")]
  BY <1>1, <1>2 DEF b
<1> QED
  BY <1>5, <1>6, OnlyCallMoves DEF Execute

LEMMA PollBatchTyped ==
    ASSUME Typed, NEW t \in Threads, PollBatch(t) PROVE Typed'
<1>1. PICK k \in process.does[t] \cap Polls, i \in Running \cup {Unlisted},
           j \in Running \cup {Unlisted} :
              call' = [call EXCEPT ![t] = Asks([@ EXCEPT !.kind = k, !.want = <<i, j>>], "look")]
  BY DEF PollBatch, Polls
<1>2. call[t] = NoCall /\ call = [u \in Threads |-> call[u]]
  BY DEF PollBatch, Typed, CallsShaped, Shaped
<1> DEFINE b == [NoCall EXCEPT !.kind = k, !.want = <<i, j>>]
<1>3. NoCall \in Calls
  BY NoCallShaped DEF Shaped
<1>4. <<i, j>> \in Seq(Running \cup {Unlisted}) /\ Len(<<i, j>>) = 2
  OBVIOUS
<1>5. <<i, j>> \in Seq(Jobs \cup {Unlisted})
  <2>1. i \in Jobs \cup {Unlisted} /\ j \in Jobs \cup {Unlisted}
    BY ClientConstants
  <2> QED
    BY <2>1
<1>6. k \in AllKinds /\ k \notin {"named", "execute", "search", "none"}
  BY DEF Polls, Paged, AllKinds
<1>7. b \in Calls /\ b.kind = k /\ b.want = <<i, j>> /\ b.off = 0 /\ b.answer = "none"
  BY <1>3, <1>5, <1>6 DEF Calls, NoCall
<1> HIDE DEF b
<1>8. Shaped(Asks(b, "look"), t)
  <2> DEFINE d == Asks(b, "look")
  <2>1. /\ d \in Calls /\ d.step = "ready" /\ d.at = "look" /\ ~d.again
        /\ d.kind = b.kind /\ d.name = b.name /\ d.want = b.want /\ d.off = b.off
        /\ d.answer = b.answer
    BY ZenonT(60), <1>7, AsksFields, KnownWaits
  <2> HIDE DEF d
  <2>2. Shaped(d, t)
    BY <2>1, <1>4, <1>6, <1>7 DEF Shaped
  <2> QED
    BY <2>2 DEF d
<1>9. call' = [call EXCEPT ![t] = Asks(b, "look")]
  BY <1>1, <1>2 DEF b
<1> QED
  BY <1>8, <1>9, OnlyCallMoves DEF PollBatch

LEMMA SearchTyped ==
    ASSUME Typed, NEW t \in Threads, Search(t) PROVE Typed'
<1>1. call' = [call EXCEPT ![t] = Asks([@ EXCEPT !.kind = "search",
                                             !.kept = ToSet(rows.list)], "walk")]
  BY DEF Search
<1>2. call[t] = NoCall /\ "search" \in process.does[t] /\ call = [u \in Threads |-> call[u]]
  BY DEF Search, Typed, CallsShaped, Shaped
<1> DEFINE b == [NoCall EXCEPT !.kind = "search", !.kept = ToSet(rows.list)]
<1>3. NoCall \in Calls
  BY NoCallShaped DEF Shaped
<1>4. ToSet(rows.list) \subseteq Rows
  BY DEF Typed, RowsTyped, ToSet
<1>5. /\ b \in Calls /\ b.kind = "search" /\ b.want = <<>>
      /\ b.off = 0 /\ b.answer = "none"
  BY <1>3, <1>4 DEF Calls, AllKinds, NoCall
<1> HIDE DEF b
<1>6. Shaped(Asks(b, "walk"), t)
  <2> DEFINE d == Asks(b, "walk")
  <2>1. /\ d \in Calls /\ d.step = "ready" /\ d.at = "walk" /\ ~d.again
        /\ d.kind = b.kind /\ d.name = b.name /\ d.want = b.want /\ d.off = b.off
        /\ d.answer = b.answer
    BY ZenonT(60), <1>5, AsksFields, KnownWaits
  <2> HIDE DEF d
  <2>2. Shaped(d, t)
    BY <2>1, <1>2, <1>5, ClientConstants DEF Shaped, Polls, Paged
  <2> QED
    BY <2>2 DEF d
<1>7. call' = [call EXCEPT ![t] = Asks(b, "walk")]
  BY <1>1, <1>2 DEF b
<1> QED
  BY <1>6, <1>7, OnlyCallMoves DEF Search

(* The attempts of a request. *)
LEMMA SendTyped ==
    ASSUME Typed, NEW t \in Threads, Send(t) PROVE Typed'
<1>1. Shaped(call[t], t) /\ call[t].step \in {"ready", "resend"} /\ token \in {"fresh", "stale"}
  BY DEF Send, Typed, CallsShaped
<1> DEFINE d == [call[t] EXCEPT !.step = "flight", !.left = Retries, !.sent = token]
<1>2. Shaped(d, t)
  BY <1>1, SentShaped
<1>3. call' = [call EXCEPT ![t] = d]
  BY DEF Send, Typed, CallsShaped
<1> HIDE DEF d
<1> QED
  BY <1>2, <1>3, OnlyCallMoves DEF Send

LEMMA NotServedTyped ==
    ASSUME Typed, NEW t \in Threads, NotServed(t) PROVE Typed'
<1>1. Shaped(call[t], t) /\ call[t].step # "idle"
  BY DEF NotServed, Typed, CallsShaped
<1>2. Shaped(Repeat(call[t], 0), t)
  BY <1>1, RepeatShaped
<1>3. call' = [call EXCEPT ![t] = Repeat(call[t], 0)]
  BY DEF NotServed
<1> QED
  BY <1>2, <1>3, OnlyCallMoves DEF NotServed

LEMMA UnauthorizedTyped ==
    ASSUME Typed, NEW t \in Threads, Unauthorized(t) PROVE Typed'
<1>1. Shaped(call[t], t) /\ call[t].step = "flight"
  BY DEF Unauthorized, Typed, CallsShaped
<1> DEFINE d == [call[t] EXCEPT !.step = "login", !.left = Retries, !.sent = "fresh"]
<1>2. call' = [call EXCEPT ![t] = IF process.mode = "bearer" /\ ~call[t].again THEN d
                                  ELSE Raises(call[t], "refused")]
  BY DEF Unauthorized
<1>3. CASE process.mode = "bearer" /\ ~call[t].again
  <2>1. call[t] \in Calls /\ Retries \in 0..Retries
    BY <1>1, ClientConstants DEF Shaped
  <2>2. d \in Calls
    BY <2>1 DEF Calls
  <2>3. /\ d.step = "login" /\ d.kind = call[t].kind /\ d.at = call[t].at
        /\ d.name = call[t].name /\ d.want = call[t].want /\ d.off = call[t].off
        /\ d.again = call[t].again /\ d.answer = call[t].answer
    BY <2>1 DEF Calls
  <2>4. call' = [call EXCEPT ![t] = d]
    BY <1>2, <1>3
  <2> HIDE DEF d
  <2>5. Shaped(d, t)
    BY <1>1, <1>3, <2>2, <2>3, SameRequest DEF Shaped
  <2> QED
    BY <2>4, <2>5, OnlyCallMoves DEF Unauthorized
<1>4. CASE ~(process.mode = "bearer" /\ ~call[t].again)
  <2>1. Shaped(Raises(call[t], "refused"), t)
    BY <1>1, RaisesShaped DEF Answers
  <2>2. call' = [call EXCEPT ![t] = Raises(call[t], "refused")]
    BY <1>2, <1>4
  <2> QED
    BY <2>1, <2>2, OnlyCallMoves DEF Unauthorized
<1> QED
  BY <1>3, <1>4

LEMMA RefusedTyped ==
    ASSUME Typed, NEW t \in Threads, Refused(t) PROVE Typed'
<1>1. Shaped(call[t], t) /\ call[t].step # "idle"
  BY DEF Refused, Typed, CallsShaped
<1>2. Shaped(Raises(call[t], "refused"), t)
  BY <1>1, RaisesShaped DEF Answers
<1>3. call' = [call EXCEPT ![t] = Raises(call[t], "refused")]
  BY DEF Refused
<1> QED
  BY <1>2, <1>3, OnlyCallMoves DEF Refused

LEMMA LoggedInTyped ==
    ASSUME Typed, NEW t \in Threads, LoggedIn(t) PROVE Typed'
<1>1. Shaped(call[t], t) /\ call[t].step = "login"
  BY DEF LoggedIn, Typed, CallsShaped
<1> DEFINE d == [call[t] EXCEPT !.step = "resend", !.left = 0, !.again = TRUE]
<1>2. call' = [call EXCEPT ![t] = d]
  BY DEF LoggedIn, Typed, CallsShaped
<1>3. call[t] \in Calls /\ 0 \in 0..Retries
  BY <1>1, ClientConstants DEF Shaped
<1>4. d \in Calls
  BY <1>3 DEF Calls
<1>5. /\ d.step = "resend" /\ d.kind = call[t].kind /\ d.at = call[t].at
      /\ d.name = call[t].name /\ d.want = call[t].want /\ d.off = call[t].off
      /\ d.again = TRUE /\ d.answer = call[t].answer
  BY <1>3 DEF Calls
<1> HIDE DEF d
<1>6. Shaped(d, t)
  BY <1>1, <1>4, <1>5, SameRequest DEF Shaped
<1>7. CallsShaped'
  BY <1>2, <1>6, CallMoves DEF LoggedIn, Typed
<1> QED
  BY <1>7 DEF LoggedIn, Typed, JobsTyped, RowsTyped

-----------------------------------------------------------------------------
(* What a call is once it is over. *)
LEMMA RaisesFields ==
    ASSUME NEW c \in Calls, NEW why \in Answers
    PROVE  LET d == Raises(c, why) IN
           /\ d \in Calls /\ d.step = "done" /\ d.at = c.at /\ d.again = c.again
           /\ d.kind = c.kind /\ d.name = c.name /\ d.want = c.want /\ d.off = c.off
           /\ d.seen = c.seen /\ d.kept = c.kept /\ d.unheard = c.unheard /\ d.answer = why
<1>1. 0 \in 0..Retries
  BY ClientConstants
<1> QED
  BY <1>1 DEF Raises, Calls, Answers

LEMMA ReturnsFields ==
    ASSUME NEW c \in Calls, NEW s \in Listings
    PROVE  LET d == Returns(c, s) IN
           /\ d \in Calls /\ d.step = "done" /\ d.at = c.at /\ d.again = c.again
           /\ d.kind = c.kind /\ d.name = c.name /\ d.want = c.want /\ d.off = c.off
           /\ d.seen = s /\ d.kept = c.kept /\ d.unheard = c.unheard
           /\ d.answer = "returned"
<1> DEFINE b == Raises(c, "returned")
<1>1. /\ b \in Calls /\ b.step = "done" /\ b.at = c.at /\ b.again = c.again
      /\ b.kind = c.kind /\ b.name = c.name /\ b.want = c.want /\ b.off = c.off
      /\ b.kept = c.kept /\ b.unheard = c.unheard /\ b.answer = "returned"
  BY RaisesFields DEF Answers
<1>2. Returns(c, s) = [b EXCEPT !.seen = s]
  BY DEF Returns
<1> HIDE DEF b
<1> QED
  BY <1>1, <1>2 DEF Calls

(* A call that looks further, or again. *)
LooksOn(c, k, s) == Asks([c EXCEPT !.off = k, !.seen = s], "look")

LEMMA LooksOnFields ==
    ASSUME NEW c \in Calls, NEW k \in Nat, NEW s \in Listings
    PROVE  /\ LooksOn(c, k, s) \in Calls /\ LooksOn(c, k, s).step = "ready"
           /\ LooksOn(c, k, s).at = "look" /\ ~LooksOn(c, k, s).again
           /\ LooksOn(c, k, s).kind = c.kind /\ LooksOn(c, k, s).name = c.name
           /\ LooksOn(c, k, s).want = c.want /\ LooksOn(c, k, s).off = k
           /\ LooksOn(c, k, s).seen = s /\ LooksOn(c, k, s).kept = c.kept
           /\ LooksOn(c, k, s).unheard = c.unheard /\ LooksOn(c, k, s).answer = c.answer
<1> DEFINE b == [c EXCEPT !.off = k, !.seen = s]
           d == Asks(b, "look")
<1>1. /\ b \in Calls /\ b.kind = c.kind /\ b.name = c.name /\ b.want = c.want /\ b.off = k
      /\ b.seen = s /\ b.kept = c.kept /\ b.unheard = c.unheard /\ b.answer = c.answer
  BY DEF Calls
<1>2. LooksOn(c, k, s) = d
  BY DEF LooksOn
<1> HIDE DEF b
<1>3. /\ d \in Calls /\ d.step = "ready" /\ d.at = "look" /\ ~d.again
      /\ d.kind = b.kind /\ d.name = b.name /\ d.want = b.want /\ d.off = b.off
      /\ d.seen = b.seen /\ d.kept = b.kept /\ d.unheard = b.unheard /\ d.answer = b.answer
  BY ZenonT(60), <1>1, AsksFields, KnownWaits
<1> HIDE DEF d
<1> QED
  BY <1>1, <1>2, <1>3

(* A search that asks for the page after one. *)
WalksOn(c, k, s) == Asks([c EXCEPT !.off = k, !.seen = s], "walk")

LEMMA WalksOnFields ==
    ASSUME NEW c \in Calls, NEW k \in Nat, NEW s \in Listings
    PROVE  /\ WalksOn(c, k, s) \in Calls /\ WalksOn(c, k, s).step = "ready"
           /\ WalksOn(c, k, s).at = "walk" /\ ~WalksOn(c, k, s).again
           /\ WalksOn(c, k, s).kind = c.kind /\ WalksOn(c, k, s).name = c.name
           /\ WalksOn(c, k, s).want = c.want /\ WalksOn(c, k, s).off = k
           /\ WalksOn(c, k, s).seen = s /\ WalksOn(c, k, s).kept = c.kept
           /\ WalksOn(c, k, s).unheard = c.unheard /\ WalksOn(c, k, s).answer = c.answer
<1> DEFINE b == [c EXCEPT !.off = k, !.seen = s]
           d == Asks(b, "walk")
<1>1. /\ b \in Calls /\ b.kind = c.kind /\ b.name = c.name /\ b.want = c.want /\ b.off = k
      /\ b.seen = s /\ b.kept = c.kept /\ b.unheard = c.unheard /\ b.answer = c.answer
  BY DEF Calls
<1>2. WalksOn(c, k, s) = d
  BY DEF WalksOn
<1> HIDE DEF b
<1>3. /\ d \in Calls /\ d.step = "ready" /\ d.at = "walk" /\ ~d.again
      /\ d.kind = b.kind /\ d.name = b.name /\ d.want = b.want /\ d.off = b.off
      /\ d.seen = b.seen /\ d.kept = b.kept /\ d.unheard = b.unheard /\ d.answer = b.answer
  BY ZenonT(60), <1>1, AsksFields, KnownWaits
<1> HIDE DEF d
<1> QED
  BY <1>1, <1>2, <1>3

LEMMA FoundTyped ==
    ASSUME Typed, NEW t \in Threads, Found(t) PROVE Typed'
<1>1. /\ Shaped(call[t], t) /\ call[t].step = "flight" /\ call[t].at = "find"
      /\ <<>> \in Listings
  BY NothingListed DEF Found, Typed, CallsShaped
<1>2. call' = [call EXCEPT ![t] = IF Named(call[t].name) # {} THEN Returns(call[t], <<>>)
                                  ELSE Asks(call[t], "create")]
  BY DEF Found
<1>3. Shaped(Returns(call[t], <<>>), t)
  BY <1>1, ReturnsShaped
<1>4. Shaped(Asks(call[t], "create"), t)
  <2> DEFINE d == Asks(call[t], "create")
             c == call[t]
  <2>1. /\ d \in Calls /\ d.step = "ready" /\ d.at = "create" /\ ~d.again
        /\ d.kind = c.kind /\ d.name = c.name /\ d.want = c.want /\ d.off = c.off
        /\ d.answer = c.answer
    BY <1>1, AsksFields, KnownWaits DEF Shaped
  <2> HIDE DEF d
  <2>2. Shaped(d, t)
    BY <1>1, <2>1 DEF Shaped, Polls, Paged
  <2> QED
    BY <2>2 DEF d
<1>5. PICK d : Shaped(d, t) /\ call' = [call EXCEPT ![t] = d]
  BY <1>2, <1>3, <1>4
<1> QED
  BY <1>5, OnlyCallMoves DEF Found

(* What a served POST is to the call: not heard of, or what it wants.      *)
LEMMA CreatedShaped ==
    ASSUME NEW t \in Threads, NEW c, Shaped(c, t), c.step = "flight", c.at = "create",
           NEW j \in Jobs
    PROVE  /\ Shaped(Repeat(c, 1), t)
           /\ Shaped(Raises([c EXCEPT !.unheard = @ + 1], "unavailable"), t)
           /\ Shaped(Returns([c EXCEPT !.want = <<j>>], <<>>), t)
           /\ c.kind = "execute" => Shaped(Asks([c EXCEPT !.want = <<j>>], "look"), t)
<1>1. Shaped(Repeat(c, 1), t)
  BY RepeatShaped
<1>2. Shaped(Raises([c EXCEPT !.unheard = @ + 1], "unavailable"), t)
  <2> DEFINE b == [c EXCEPT !.unheard = @ + 1]
  <2>1. Shaped(b, t) /\ b.step = "flight"
    BY UnheardShaped
  <2> HIDE DEF b
  <2> QED
    BY <2>1, RaisesShaped DEF b, Answers
<1> DEFINE b == [c EXCEPT !.want = <<j>>]
<1>3. c \in Calls /\ <<j>> \in Seq(Jobs \cup {Unlisted}) /\ <<>> \in Listings
  BY NothingListed DEF Shaped
<1>4. /\ b \in Calls /\ b.want = <<j>> /\ b.kind = c.kind /\ b.name = c.name /\ b.off = c.off
      /\ b.again = c.again /\ b.answer = c.answer /\ b.at = c.at
  BY <1>3 DEF Calls
<1>5. Len(<<j>>) = 1 /\ <<j>>[1] = j
  OBVIOUS
<1> HIDE DEF b
<1>6. Shaped(Returns(b, <<>>), t)
  <2> DEFINE d == Returns(b, <<>>)
  <2>1. /\ d \in Calls /\ d.step = "done" /\ d.at = b.at /\ d.again = b.again
        /\ d.kind = b.kind /\ d.name = b.name /\ d.want = b.want /\ d.off = b.off
        /\ d.answer = "returned"
    BY <1>3, <1>4, ReturnsFields
  <2> HIDE DEF d
  <2>2. Shaped(d, t)
    BY <1>4, <1>5, <2>1 DEF Shaped, Polls, Paged
  <2> QED
    BY <2>2 DEF d
<1>7. ASSUME c.kind = "execute" PROVE Shaped(Asks(b, "look"), t)
  <2> DEFINE d == Asks(b, "look")
  <2>1. /\ d \in Calls /\ d.step = "ready" /\ d.at = "look" /\ ~d.again
        /\ d.kind = b.kind /\ d.name = b.name /\ d.want = b.want /\ d.off = b.off
        /\ d.answer = b.answer
    BY <1>4, AsksFields, KnownWaits
  <2>2. c.off = 0 /\ c.kind \in process.does[t] /\ c.name = NoOne /\ c.answer = "none"
    BY <1>7 DEF Shaped
  <2> HIDE DEF d
  <2>3. Len(d.want) = 1 /\ d.want[1] \in Jobs /\ d.kind = "execute"
    BY <1>4, <1>5, <1>7, <2>1
  <2>4. Shaped(d, t)
    BY <1>4, <2>1, <2>2, <2>3 DEF Shaped, Polls, Paged
  <2> QED
    BY <2>4 DEF d
<1> QED
  BY <1>1, <1>2, <1>6, <1>7 DEF b

(* What Risk Modeler holds more, and what the call that made it becomes.   *)
LEMMA CreatedMoves ==
    ASSUME NEW t \in Threads, Created(t)
    PROVE  \E j \in Jobs, s \in {"running", "ended"} : \E d :
              /\ job[j].state = "none"
              /\ s = "running" => call[t].kind = "execute"
              /\ job' = [job EXCEPT ![j] = [state |-> s, by |-> t, name |-> call[t].name,
                                           beside |-> Creating]]
              /\ call' = [call EXCEPT ![t] = d]
              /\ \/ d = Repeat(call[t], 1)
                 \/ d = Raises([call[t] EXCEPT !.unheard = @ + 1], "unavailable")
                 \/ s = "ended" /\ d = Returns([call[t] EXCEPT !.want = <<j>>], <<>>)
                 \/ /\ s = "running" /\ call[t].kind = "execute"
                    /\ d = Asks([call[t] EXCEPT !.want = <<j>>], "look")
<1>1. PICK j \in Jobs, s \in {"running", "ended"} :
          /\ job[j].state = "none"
          /\ s = "running" => call[t].kind = "execute"
          /\ job' = [job EXCEPT ![j] = [state |-> s, by |-> t, name |-> call[t].name,
                                       beside |-> Creating]]
          /\ \/ call' = [call EXCEPT ![t] = Repeat(@, 1)]
             \/ call' = [call EXCEPT ![t] =
                           Raises([call[t] EXCEPT !.unheard = @ + 1], "unavailable")]
             \/ call' = [call EXCEPT ![t] =
                           IF s = "ended" THEN Returns([@ EXCEPT !.want = <<j>>], <<>>)
                           ELSE Asks([@ EXCEPT !.want = <<j>>], "look")]
  BY DEF Created
<1>2. CASE call' = [call EXCEPT ![t] = Repeat(@, 1)]
  BY <1>1, <1>2
<1>3. CASE call' = [call EXCEPT ![t] = Raises([call[t] EXCEPT !.unheard = @ + 1], "unavailable")]
  BY <1>1, <1>3
<1>4. CASE call' = [call EXCEPT ![t] =
                      IF s = "ended" THEN Returns([@ EXCEPT !.want = <<j>>], <<>>)
                      ELSE Asks([@ EXCEPT !.want = <<j>>], "look")]
  <2>1. CASE s = "ended"
    BY <1>1, <1>4, <2>1
  <2>2. CASE s = "running"
    BY <1>1, <1>4, <2>2
  <2> QED
    BY <2>1, <2>2
<1> QED
  BY <1>1, <1>2, <1>3, <1>4

LEMMA CreatedTyped ==
    ASSUME Typed, NEW t \in Threads, Created(t) PROVE Typed'
<1>1. PICK j \in Jobs, s \in {"running", "ended"} : \E d :
              /\ job[j].state = "none"
              /\ job' = [job EXCEPT ![j] = [state |-> s, by |-> t, name |-> call[t].name,
                                           beside |-> Creating]]
              /\ call' = [call EXCEPT ![t] = d]
              /\ \/ d = Repeat(call[t], 1)
                 \/ d = Raises([call[t] EXCEPT !.unheard = @ + 1], "unavailable")
                 \/ d = Returns([call[t] EXCEPT !.want = <<j>>], <<>>)
                 \/ d = Asks([call[t] EXCEPT !.want = <<j>>], "look") /\ call[t].kind = "execute"
  BY CreatedMoves
<1>d. PICK d :
              /\ job[j].state = "none"
              /\ job' = [job EXCEPT ![j] = [state |-> s, by |-> t, name |-> call[t].name,
                                           beside |-> Creating]]
              /\ call' = [call EXCEPT ![t] = d]
              /\ \/ d = Repeat(call[t], 1)
                 \/ d = Raises([call[t] EXCEPT !.unheard = @ + 1], "unavailable")
                 \/ d = Returns([call[t] EXCEPT !.want = <<j>>], <<>>)
                 \/ d = Asks([call[t] EXCEPT !.want = <<j>>], "look") /\ call[t].kind = "execute"
  BY <1>1
<1>2. Shaped(call[t], t) /\ call[t].step = "flight" /\ call[t].at = "create"
  BY DEF Created, Typed, CallsShaped
<1>3. Shaped(d, t)
  BY <1>d, <1>2, CreatedShaped
<1>4. CallsShaped'
  BY <1>d, <1>3, CallMoves DEF Created, Typed
<1>5. call[t].name \in Names \cup {NoOne} /\ Creating \in SUBSET Threads
  BY <1>2 DEF Shaped, Calls, Creating
<1>6. JobsTyped'
  BY <1>d, <1>5 DEF Typed, JobsTyped
<1> QED
  BY <1>4, <1>6 DEF Created, Typed, RowsTyped

-----------------------------------------------------------------------------
(* What a page of a listing holds. *)
LEMMA Slice ==
    ASSUME NEW S, NEW s \in Seq(S), NEW m \in Nat, NEW n \in Nat, n <= Len(s)
    PROVE  /\ SubSeq(s, m + 1, n) \in Seq(S)
           /\ Len(SubSeq(s, m + 1, n)) = IF m <= n THEN n - m ELSE 0
           /\ \A i \in 1..Len(SubSeq(s, m + 1, n)) : SubSeq(s, m + 1, n)[i] = s[m + i]
<1>1. CASE m <= n
  <2>1. \A i \in (m + 1)..n : s[i] \in S
    BY ElementOfSeq
  <2> QED
    BY <1>1, <2>1, SubSeqProperties
<1>2. CASE ~ (m <= n)
  BY <1>2, SubSeqProperties
<1> QED
  BY <1>1, <1>2

LEMMA StatusTyped ==
    ASSUME JobsTyped, NEW js \in Seq(Jobs)
    PROVE  Status(js) \in Listings /\ Len(Status(js)) = Len(js)
           /\ DOMAIN Status(js) = 1..Len(js)
<1>1. \A i \in DOMAIN js : [id |-> js[i], state |-> job[js[i]].state] \in Seen
  BY DEF JobsTyped, Seen
<1> QED
  BY <1>1 DEF Status, Listings

(* A batch lists at most as many jobs as it has ids. *)
LEMMA WantListed ==
    ASSUME NEW c \in Calls, Len(c.want) \in {1, 2}
    PROVE  /\ Listed(c.want) \in Seq(Jobs) /\ Len(Listed(c.want)) \in Nat
           /\ Len(Listed(c.want)) <= Len(c.want)
           /\ ToSet(Listed(c.want)) = {j \in ToSet(c.want) \cap Jobs : job[j].state # "none"}
<1>0. c.want \in Seq(Jobs \cup {Unlisted})
  BY DEF Calls
<1>1. /\ IsFiniteSet(ToSet(c.want)) /\ Cardinality(ToSet(c.want)) <= Len(c.want)
      /\ Cardinality(ToSet(c.want)) \in Nat
  BY <1>0, TwoIds
<1>2. /\ Listed(c.want) \in Seq(Jobs) /\ Len(Listed(c.want)) \in Nat
      /\ ToSet(Listed(c.want)) = {j \in ToSet(c.want) \cap Jobs : job[j].state # "none"}
      /\ Len(Listed(c.want)) <= Cardinality(ToSet(c.want))
  BY <1>1, ListsKnown
<1> QED
  BY <1>0, <1>1, <1>2

(* A call looks further, or again from the start of its batch. *)
LEMMA LooksShaped ==
    ASSUME NEW t \in Threads, NEW c, Shaped(c, t), c.at = "look", c.step = "flight",
           NEW k \in Nat, k <= Len(c.want), c.kind = "each" => k < Len(c.want),
           NEW s \in Listings
    PROVE  Shaped(LooksOn(c, k, s), t)
<1> DEFINE d == LooksOn(c, k, s)
<1>1. c \in Calls
  BY DEF Shaped
<1>2. /\ d \in Calls /\ d.step = "ready" /\ d.at = "look" /\ ~d.again
      /\ d.kind = c.kind /\ d.name = c.name /\ d.want = c.want /\ d.off = k
      /\ d.answer = c.answer
  BY <1>1, LooksOnFields
<1> HIDE DEF d
<1>3. Shaped(d, t)
  BY <1>2 DEF Shaped, Polls, Paged
<1> QED
  BY <1>3 DEF d

LEMMA LooksAgainShaped ==
    ASSUME NEW t \in Threads, NEW c, Shaped(c, t), c.at = "look", c.step = "flight"
    PROVE  Shaped(LooksOn(c, 0, <<>>), t)
<1>1. Len(c.want) \in Nat /\ (c.kind = "each" => Len(c.want) = 2)
  BY DEF Shaped, Calls, Polls
<1> QED
  BY <1>1, NothingListed, LooksShaped

LEMMA LookedOnceShaped ==
    ASSUME Typed, NEW t \in Threads, NEW c, Shaped(c, t), c.at = "look", c.step = "flight",
           c.kind = "execute"
    PROVE  Shaped(LookedOnce(c), t)
<1>1. c.want \in Seq(Jobs)
  <2>1. c.want \in Seq(Jobs \cup {Unlisted}) /\ Len(c.want) = 1 /\ c.want[1] \in Jobs
    BY DEF Shaped, Calls
  <2>2. c.want \in [1..Len(c.want) -> Jobs] /\ Len(c.want) \in Nat
    BY <2>1
  <2> QED
    BY <2>2
<1>2. Status(c.want) \in Listings
  BY <1>1, StatusTyped DEF Typed
<1>3. \/ LookedOnce(c) = Returns(c, Status(c.want)) \/ LookedOnce(c) = Raises(c, "late")
      \/ LookedOnce(c) = LooksOn(c, 0, <<>>)
  BY DEF LookedOnce, Round, LooksOn
<1>4. Shaped(Returns(c, Status(c.want)), t)
  BY <1>2, ReturnsShaped
<1>5. Shaped(Raises(c, "late"), t) /\ Shaped(LooksOn(c, 0, <<>>), t)
  BY RaisesShaped, LooksAgainShaped, KnownWaits
<1> QED
  BY <1>3, <1>4, <1>5

LEMMA LookedEachShaped ==
    ASSUME Typed, NEW t \in Threads, NEW c, Shaped(c, t), c.at = "look", c.step = "flight",
           c.kind = "each"
    PROVE  Shaped(LookedEach(c), t)
<1> DEFINE k == c.off + 1
           s == Append(c.seen, [id |-> c.want[k], state |-> "ended"])
<1>1. c \in Calls /\ Len(c.want) = 2 /\ k \in 1..Len(c.want) /\ c.off \in Nat
  BY DEF Shaped, Calls, Polls
<1>2. [id |-> c.want[k], state |-> "ended"] \in Seen
  BY <1>1 DEF Calls, Seen
<1>3. s \in Listings /\ <<>> \in Listings
  BY <1>1, <1>2 DEF Calls, Listings
<1>4. \/ LookedEach(c) = Raises(c, "refused") \/ LookedEach(c) = Raises(c, "late")
      \/ LookedEach(c) = Returns(c, <<>>) \/ LookedEach(c) = Returns(c, s)
      \/ LookedEach(c) = LooksOn(c, 0, <<>>)
      \/ k # Len(c.want) /\ LookedEach(c) = LooksOn(c, k, s)
  BY DEF LookedEach, Round, StillRunning, LooksOn
<1>5. ASSUME k # Len(c.want) PROVE Shaped(LooksOn(c, k, s), t)
  <2>1. k \in Nat /\ k < Len(c.want) /\ k <= Len(c.want)
    BY <1>1, <1>5
  <2> HIDE DEF k, s
  <2> QED
    BY <1>3, <2>1, LooksShaped
<1> HIDE DEF s, k
<1> QED
  BY <1>3, <1>4, <1>5, ReturnsShaped, RaisesShaped, LooksAgainShaped, KnownWaits

LEMMA LookedPageShaped ==
    ASSUME Typed, NEW t \in Threads, NEW c, Shaped(c, t), c.at = "look", c.step = "flight",
           c.kind \in Paged
    PROVE  Shaped(LookedPage(c), t)
<1> DEFINE l   == Listed(c.want)
           new == Status(SubSeq(l, c.off + 1, Min({c.off + Page, Len(l)})))
           s   == c.seen \o new
           k   == Min({c.off + Page, Len(c.want)})
<1>1. c \in Calls /\ Len(c.want) = 2 /\ c.off \in Nat /\ c.off <= Len(c.want) /\ Page \in Nat
  BY ClientConstants DEF Shaped, Calls, Polls
<1>2. l \in Seq(Jobs) /\ Len(l) \in Nat
  BY <1>1, WantListed
<1>3. /\ Min({c.off + Page, Len(l)}) \in Nat /\ Min({c.off + Page, Len(l)}) <= Len(l)
      /\ k \in Nat /\ k <= Len(c.want)
  BY <1>1, <1>2, LeastOfTwo
<1>4. SubSeq(l, c.off + 1, Min({c.off + Page, Len(l)})) \in Seq(Jobs)
  <2> HIDE DEF l
  <2> QED
    BY <1>1, <1>2, <1>3, Slice
<1>5. new \in Listings /\ <<>> \in Listings
  <2> DEFINE js == SubSeq(l, c.off + 1, Min({c.off + Page, Len(l)}))
  <2> HIDE DEF js
  <2>1. js \in Seq(Jobs) /\ JobsTyped
    BY <1>4 DEF js, Typed
  <2>2. Status(js) \in Listings
    BY <2>1, StatusTyped
  <2> QED
    BY <2>2, NothingListed DEF js
<1>6. s \in Listings
  <2> HIDE DEF new
  <2> QED
    BY <1>1, <1>5 DEF Calls, Listings
<1>7. \/ LookedPage(c) = Returns(c, new) \/ LookedPage(c) = Returns(c, s)
      \/ LookedPage(c) = Raises(c, "late")
      \/ LookedPage(c) = LooksOn(c, 0, <<>>)
      \/ LookedPage(c) = LooksOn(c, k, s)
  BY DEF LookedPage, Round, LooksOn
<1> HIDE DEF s, k, new, l
<1>8. Shaped(LooksOn(c, k, s), t)
  BY <1>3, <1>6, LooksShaped DEF Paged
<1> QED
  BY <1>5, <1>6, <1>7, <1>8, ReturnsShaped, RaisesShaped, LooksAgainShaped, KnownWaits

(* What an answer to a look leads to. *)
LEMMA LookedMoves ==
    ASSUME NEW t \in Threads, Looked(t)
    PROVE  \E d : /\ call' = [call EXCEPT ![t] = d]
                  /\ \/ call[t].kind = "execute" /\ d = LookedOnce(call[t])
                     \/ call[t].kind = "each" /\ d = LookedEach(call[t])
                     \/ call[t].kind \notin {"execute", "each"} /\ d = LookedPage(call[t])
<1>1. CASE call[t].kind = "execute"
  BY <1>1 DEF Looked
<1>2. CASE call[t].kind = "each"
  BY <1>2 DEF Looked
<1>3. CASE call[t].kind \notin {"execute", "each"}
  BY <1>3 DEF Looked
<1> QED
  BY <1>1, <1>2, <1>3

LEMMA LookedTyped ==
    ASSUME Typed, NEW t \in Threads, Looked(t) PROVE Typed'
<1>1. PICK d : /\ call' = [call EXCEPT ![t] = d]
               /\ \/ call[t].kind = "execute" /\ d = LookedOnce(call[t])
                  \/ call[t].kind = "each" /\ d = LookedEach(call[t])
                  \/ call[t].kind \notin {"execute", "each"} /\ d = LookedPage(call[t])
  BY LookedMoves
<1>2. Shaped(call[t], t) /\ call[t].step = "flight" /\ call[t].at = "look"
  BY DEF Looked, Typed, CallsShaped
<1>3. call[t].kind \in Paged \cup {"each", "execute"}
  BY <1>2 DEF Shaped, Polls
<1>4. Shaped(d, t)
  BY <1>1, <1>2, <1>3, LookedOnceShaped, LookedEachShaped, LookedPageShaped
<1> QED
  BY <1>1, <1>4, OnlyCallMoves DEF Looked

(* A page of a search is a sequence of rows. *)
LEMMA PageTyped ==
    ASSUME Typed, NEW o \in Nat
    PROVE  PageOf(rows.list, o) \in Seq(Rows)
<1> DEFINE list == rows.list
<1>1. list \in Seq(Rows) /\ Len(list) \in Nat /\ Limit \in Nat \ {0}
  BY ClientConstants DEF Typed, RowsTyped
<1>2. o * Limit \in Nat
  BY <1>1
<1>3. list # <<>> => ((Len(list) - 1) \div Limit) * Limit \in Nat
  <2>1. list # <<>> => Len(list) - 1 \in Nat
    BY <1>1
  <2>2. \A n \in Nat : n \div Limit \in Nat
    BY <1>1
  <2>3. \A n \in Nat : n * Limit \in Nat
    BY <1>1
  <2> QED
    BY <2>1, <2>2, <2>3
<1> HIDE DEF list
<1>4. ASSUME NEW from \in Nat PROVE SubSeq(list, from + 1, Min({from + Limit, Len(list)})) \in Seq(Rows)
  <2>1. Min({from + Limit, Len(list)}) \in Nat /\ Min({from + Limit, Len(list)}) <= Len(list)
    BY <1>1, LeastOfTwo
  <2> QED
    BY <1>1, <2>1, Slice
<1>5. \/ PageOf(list, o) = list
      \/ \E from \in Nat : PageOf(list, o) = SubSeq(list, from + 1, Min({from + Limit, Len(list)}))
  <2>1. CASE process.server = "ignores"
    BY <2>1 DEF PageOf
  <2>2. CASE process.server = "pages"
    BY <1>2, <2>2 DEF PageOf
  <2>3. CASE process.server = "stuck"
    BY <2>3 DEF PageOf
  <2>4. CASE process.server = "records"
    BY <2>4 DEF PageOf
  <2>5. CASE process.server = "clamps"
    <3>1. CASE o >= Len(list) /\ list # <<>>
      BY <1>3, <2>5, <3>1 DEF PageOf
    <3>2. CASE ~(o >= Len(list) /\ list # <<>>)
      BY <2>5, <3>2 DEF PageOf
    <3> QED
      BY <3>1, <3>2
  <2> QED
    BY <2>1, <2>2, <2>3, <2>4, <2>5, ClientConstants DEF Typed
<1> QED
  BY <1>1, <1>4, <1>5 DEF list

(* What a page leads to. *)
LEMMA WalkMoves ==
    ASSUME NEW c, NEW page
    PROVE  LET s == c.seen \o page IN
           \/ /\ Walk(c, page) = Returns(c, s)
              /\ (c.off = 0 /\ Len(page) > Limit) \/ Len(page) < Limit
           \/ Walk(c, page) = Raises(c, "unavailable")
           \/ /\ Walk(c, page) = WalksOn(c, c.off + 1, s)
              /\ ~(c.off + 1 >= MaxPages) /\ ~(Len(page) < Limit)
              /\ ~(c.off = 0 /\ Len(page) > Limit)
<1> DEFINE s == c.seen \o page
<1>1. CASE c.off = 0 /\ Len(page) > Limit
  <2>1. Walk(c, page) = Returns(c, s)
    BY <1>1 DEF Walk
  <2> QED
    BY <1>1, <2>1
<1>2. CASE ~(c.off = 0 /\ Len(page) > Limit)
  <2>1. CASE c.off > 0 /\ page # <<>> /\ Repeats(c.seen, c.off, page)
    BY <1>2, <2>1 DEF Walk
  <2>2. CASE ~(c.off > 0 /\ page # <<>> /\ Repeats(c.seen, c.off, page))
    <3>1. CASE Len(page) < Limit
      <4>1. Walk(c, page) = Returns(c, s) \/ Walk(c, page) = Raises(c, "unavailable")
        BY <1>2, <2>2, <3>1 DEF Walk
      <4> QED
        BY <3>1, <4>1
    <3>2. CASE ~(Len(page) < Limit)
      <4>1. CASE c.off + 1 >= MaxPages
        BY <1>2, <2>2, <3>2, <4>1 DEF Walk
      <4>2. CASE ~(c.off + 1 >= MaxPages)
        <5>1. Walk(c, page) = WalksOn(c, c.off + 1, s)
          BY <1>2, <2>2, <3>2, <4>2 DEF Walk, WalksOn
        <5> QED
          BY <1>2, <3>2, <4>2, <5>1
      <4> QED
        BY <4>1, <4>2
    <3> QED
      BY <3>1, <3>2
  <2> QED
    BY <2>1, <2>2
<1> QED
  BY <1>1, <1>2

LEMMA WalkShaped ==
    ASSUME NEW t \in Threads, NEW c, Shaped(c, t), c.at = "walk", c.step = "flight",
           NEW page \in Seq(Rows)
    PROVE  Shaped(Walk(c, page), t)
<1> DEFINE s == c.seen \o page
<1>1. c \in Calls /\ c.off \in Nat /\ c.off + 1 \in Nat
  BY DEF Shaped, Calls
<1>2. s \in Listings
  BY <1>1 DEF Calls, Listings
<1> HIDE DEF s
<1>3. Shaped(Returns(c, s), t)
  BY <1>2, ReturnsShaped
<1>4. Shaped(Raises(c, "unavailable"), t)
  BY RaisesShaped, KnownWaits
<1>5. ASSUME ~(c.off + 1 >= MaxPages) PROVE Shaped(WalksOn(c, c.off + 1, s), t)
  <2> DEFINE d == WalksOn(c, c.off + 1, s)
  <2>1. /\ d \in Calls /\ d.step = "ready" /\ d.at = "walk" /\ ~d.again
        /\ d.kind = c.kind /\ d.name = c.name /\ d.want = c.want /\ d.off = c.off + 1
        /\ d.answer = c.answer
    BY <1>1, <1>2, WalksOnFields
  <2>2. c.off + 1 < MaxPages
    BY <1>1, <1>5, ClientConstants
  <2> HIDE DEF d
  <2>3. Shaped(d, t)
    BY <2>1, <2>2 DEF Shaped, Polls, Paged
  <2> QED
    BY <2>3 DEF d
<1> QED
  BY <1>3, <1>4, <1>5, WalkMoves DEF s

LEMMA WalkedTyped ==
    ASSUME Typed, NEW t \in Threads, Walked(t) PROVE Typed'
<1> DEFINE page == PageOf(rows.list, call[t].off * Limit)
<1>1. Shaped(call[t], t) /\ call[t].step = "flight" /\ call[t].at = "walk"
  BY DEF Walked, Typed, CallsShaped
<1>2. call[t].off * Limit \in Nat
  <2>1. call[t].off \in Nat /\ Limit \in Nat
    BY <1>1, ClientConstants DEF Shaped, Calls
  <2> QED
    BY <2>1
<1>3. page \in Seq(Rows)
  BY <1>2, PageTyped
<1>4. call' = [call EXCEPT ![t] = Walk(call[t], page)]
  BY DEF Walked
<1> HIDE DEF page
<1>5. Shaped(Walk(call[t], page), t)
  BY <1>1, <1>3, WalkShaped
<1> QED
  BY <1>4, <1>5, OnlyCallMoves DEF Walked

-----------------------------------------------------------------------------
(* Time and Risk Modeler. *)
LEMMA LateTyped ==
    ASSUME Typed, NEW t \in Threads, Late(t) PROVE Typed'
<1> DEFINE c == call[t]
           d == [call[t] EXCEPT !.late = TRUE]
<1>1. Shaped(c, t) /\ c.at = "look" /\ c.step # "done" /\ c \in Calls
  BY DEF Late, Typed, CallsShaped, Shaped
<1>2. call' = [call EXCEPT ![t] = d]
  BY DEF Late, Typed, CallsShaped
<1>3. /\ d \in Calls /\ d.step = c.step /\ d.kind = c.kind /\ d.at = c.at /\ d.name = c.name
      /\ d.want = c.want /\ d.off = c.off /\ d.again = c.again /\ d.answer = c.answer
  BY <1>1 DEF Calls
<1> HIDE DEF d
<1>4. Shaped(d, t)
  BY <1>1, <1>3, SameRequest DEF Shaped
<1> QED
  BY <1>2, <1>4, OnlyCallMoves DEF Late

LEMMA EndsTyped ==
    ASSUME Typed, NEW j \in Jobs, Ends(j) PROVE Typed'
<1>1. JobsTyped'
  BY DEF Ends, Typed, JobsTyped
<1> QED
  BY <1>1 DEF Ends, Typed, RowsTyped, CallsShaped, Shaped

(* A sequence without one of its elements. *)
LEMMA WithoutOne ==
    ASSUME NEW S, NEW s \in Seq(S), NEW i \in 1..Len(s)
    PROVE  /\ RemoveAt(s, i) \in Seq(S) /\ Len(RemoveAt(s, i)) = Len(s) - 1
           /\ \A p \in 1..(Len(s) - 1) : RemoveAt(s, i)[p] = IF p < i THEN s[p] ELSE s[p + 1]
           /\ ToSet(SubSeq(s, 1, i - 1)) = {s[p] : p \in 1..(i - 1)}
<1> DEFINE u == SubSeq(s, 1, i - 1)
           v == SubSeq(s, i + 1, Len(s))
<1>0. 0 \in Nat /\ i - 1 \in Nat /\ i \in Nat /\ Len(s) \in Nat /\ i - 1 <= Len(s) /\ 0 + 1 = 1
  OBVIOUS
<1>1. u \in Seq(S) /\ Len(u) = i - 1 /\ \A p \in 1..Len(u) : u[p] = s[p]
  <2>1. /\ SubSeq(s, 0 + 1, i - 1) \in Seq(S)
        /\ Len(SubSeq(s, 0 + 1, i - 1)) = IF 0 <= i - 1 THEN i - 1 - 0 ELSE 0
        /\ \A p \in 1..Len(SubSeq(s, 0 + 1, i - 1)) : SubSeq(s, 0 + 1, i - 1)[p] = s[0 + p]
    BY <1>0, Slice
  <2> QED
    BY <1>0, <2>1
<1>2. v \in Seq(S) /\ Len(v) = Len(s) - i /\ \A p \in 1..Len(v) : v[p] = s[i + p]
  BY <1>0, Slice
<1>3. RemoveAt(s, i) = u \o v
  BY DEF RemoveAt
<1>4. ToSet(u) = {s[p] : p \in 1..(i - 1)}
  <2> HIDE DEF u
  <2> QED
    BY <1>1 DEF ToSet
<1>5. /\ u \o v \in Seq(S) /\ Len(u \o v) = Len(s) - 1
      /\ \A p \in 1..(Len(s) - 1) : (u \o v)[p] = IF p < i THEN s[p] ELSE s[p + 1]
  <2> HIDE DEF u, v
  <2>1. u \o v \in Seq(S) /\ Len(u \o v) = Len(s) - 1
    <3>1. u \o v \in Seq(S) /\ Len(u \o v) = Len(u) + Len(v)
      BY <1>1, <1>2, ConcatProperties
    <3>2. Len(u) + Len(v) = Len(s) - 1
      BY <1>0, <1>1, <1>2
    <3> QED
      BY <3>1, <3>2
  <2>2. ASSUME NEW p \in 1..(Len(s) - 1)
        PROVE  (u \o v)[p] = IF p < i THEN s[p] ELSE s[p + 1]
    <3>1. (u \o v)[p] = IF p <= Len(u) THEN u[p] ELSE v[p - Len(u)]
      BY <1>1, <1>2, ConcatProperties
    <3>2. CASE p < i
      BY <1>1, <3>1, <3>2
    <3>3. CASE ~(p < i)
      <4>1. p - Len(u) \in 1..Len(v) /\ i + (p - Len(u)) = p + 1
        BY <1>1, <1>2, <3>3
      <4> QED
        BY <1>1, <1>2, <3>1, <3>3, <4>1
    <3> QED
      BY <3>2, <3>3
  <2> QED
    BY <2>1, <2>2
<1> QED
  BY <1>3, <1>4, <1>5

LEMMA RowsChangeTyped ==
    ASSUME Typed, RowsChange PROVE Typed'
<1>0. rows.list \in Seq(Rows) /\ rows.changes + 1 \in 0..MaxChanges
  BY ClientConstants DEF RowsChange, Typed, RowsTyped
<1>1. ASSUME NEW r \in Rows, UNCHANGED call,
             \/ rows' = [list |-> Append(rows.list, r), changes |-> rows.changes + 1]
             \/ rows' = [list |-> <<r>> \o rows.list, changes |-> rows.changes + 1]
      PROVE  Typed'
  <2>1. Append(rows.list, r) \in Seq(Rows) /\ <<r>> \o rows.list \in Seq(Rows)
    BY <1>0
  <2>2. rows' \in [list : Seq(Rows), changes : 0..MaxChanges]
    <3>1. PICK list \in Seq(Rows) : rows' = [list |-> list, changes |-> rows.changes + 1]
      BY <1>1, <2>1
    <3> QED
      BY <1>0, <3>1
  <2> QED
    BY <1>1, <2>2 DEF RowsChange, Typed, JobsTyped, RowsTyped, CallsShaped, Shaped
<1>2. ASSUME NEW i \in DOMAIN rows.list,
             rows' = [list |-> RemoveAt(rows.list, i), changes |-> rows.changes + 1],
             call' = [t \in Threads |-> [call[t] EXCEPT
                           !.kept = @ \cap ToSet(SubSeq(rows.list, 1, i - 1))]]
      PROVE  Typed'
  <2>1. RemoveAt(rows.list, i) \in Seq(Rows)
    BY <1>0, WithoutOne
  <2>2. RowsTyped'
    BY <1>0, <1>2, <2>1 DEF RowsTyped
  <2>3. ASSUME NEW t \in Threads PROVE Shaped(call'[t], t)
    <3> DEFINE c == call[t]
               B == ToSet(SubSeq(rows.list, 1, i - 1))
               d == [c EXCEPT !.kept = c.kept \cap B]
    <3>1. call'[t] = d /\ Shaped(c, t) /\ c \in Calls
      BY <1>2 DEF Typed, CallsShaped, Shaped
    <3> HIDE DEF B
    <3>2. CASE c.step = "idle"
      <4>1. c = NoCall
        BY <3>1, <3>2 DEF Shaped
      <4>2. d = NoCall
        <5>1. c.kept \cap B = {}
          BY <4>1 DEF NoCall
        <5>2. c.kept = {}
          BY <4>1 DEF NoCall
        <5>3. [c EXCEPT !.kept = c.kept] = c
          BY <3>1 DEF Calls
        <5> QED
          BY <4>1, <5>1, <5>2, <5>3
      <4> QED
        BY <3>1, <4>2, NoCallShaped
    <3>3. CASE c.step # "idle"
      <4>1. /\ d \in Calls /\ d.step = c.step /\ d.kind = c.kind /\ d.at = c.at /\ d.name = c.name
            /\ d.want = c.want /\ d.off = c.off /\ d.again = c.again /\ d.answer = c.answer
        BY <3>1 DEF Calls
      <4> HIDE DEF d
      <4>2. Shaped(d, t)
        BY <3>1, <3>3, <4>1, SameRequest DEF Shaped
      <4> QED
        BY <3>1, <4>2
    <3> QED
      BY <3>2, <3>3
  <2>4. UNCHANGED <<process, token, job>>
    BY DEF RowsChange
  <2>5. CallsShaped'
    BY ZenonT(60), <1>2, <2>3, <2>4 DEF CallsShaped, Shaped
  <2> QED
    BY <2>2, <2>4, <2>5 DEF Typed, JobsTyped
<1> QED
  BY <1>1, <1>2 DEF RowsChange

LEMMA ExpiresTyped ==
    ASSUME Typed, Expires PROVE Typed'
<1>1. ASSUME NEW t \in Threads PROVE Shaped(call'[t], t)
  <2> DEFINE c == call[t]
             d == [c EXCEPT !.sent = "stale"]
  <2>1. call'[t] = (IF c.step = "flight" THEN d ELSE c) /\ Shaped(c, t) /\ c \in Calls
    BY DEF Expires, Typed, CallsShaped, Shaped
  <2>2. CASE c.step = "flight"
    <3>1. /\ d \in Calls /\ d.step = c.step /\ d.kind = c.kind /\ d.at = c.at /\ d.name = c.name
          /\ d.want = c.want /\ d.off = c.off /\ d.again = c.again /\ d.answer = c.answer
      BY <2>1 DEF Calls
    <3> HIDE DEF d
    <3>2. Shaped(d, t)
      BY <2>1, <2>2, <3>1, SameRequest DEF Shaped
    <3> QED
      BY <2>1, <2>2, <3>2
  <2> QED
    BY <2>1, <2>2
<1>2. CallsShaped'
  BY <1>1 DEF Expires, CallsShaped, Shaped
<1> QED
  BY <1>2 DEF Expires, Typed, JobsTyped, RowsTyped

-----------------------------------------------------------------------------
LEMMA StepIsTyped == Typed /\ [Next]_vars => Typed'
<1> SUFFICES ASSUME Typed, [Next]_vars PROVE Typed'
  OBVIOUS
<1>1. CASE UNCHANGED vars
  BY <1>1 DEF Typed, JobsTyped, RowsTyped, CallsShaped, Shaped, vars
<1>2. ASSUME NEW t \in Threads, Step(t) PROVE Typed'
  BY <1>2, SendTyped, NotServedTyped, UnauthorizedTyped, RefusedTyped, LoggedInTyped,
     FoundTyped, CreatedTyped, LookedTyped, WalkedTyped DEF Step
<1>3. ASSUME NEW t \in Threads,
             GetOrCreate(t) \/ Execute(t) \/ PollBatch(t) \/ Search(t) \/ Late(t)
      PROVE  Typed'
  BY <1>3, GetOrCreateTyped, ExecuteTyped, PollBatchTyped, SearchTyped, LateTyped
<1> QED
  BY <1>1, <1>2, <1>3, EndsTyped, RowsChangeTyped, ExpiresTyped DEF Next

(* The strengthening gives the type invariant. *)
LEMMA TypedIsTypeOK == Typed => TypeOK
<1> SUFFICES ASSUME Typed PROVE TypeOK
  OBVIOUS
<1>1. ASSUME NEW t \in Threads
      PROVE  LET c == call[t] IN
          /\ c.kind \in process.does[t] \cup {"none"} /\ c.left \in 0..Retries
          /\ c.step \in {"idle", "ready", "resend", "flight", "login", "done"}
          /\ c.at \in {"none", "find", "create", "look", "walk"}
          /\ c.kept \subseteq Rows /\ c.off < Max({Limit * MaxPages, Len(c.want) + 1})
          /\ c.again => c.step \in {"resend", "flight", "done"} /\ process.mode = "bearer"
          /\ c.step \in {"resend", "login"} => process.mode = "bearer"
          /\ (c.answer = "none") = (c.step # "done")
  <2> DEFINE c == call[t]
  <2>1. Shaped(c, t) /\ c \in Calls
    BY DEF Typed, CallsShaped, Shaped
  <2> HIDE DEF c
  <2>2. c.off < Max({Limit * MaxPages, Len(c.want) + 1})
    <3>1. c.off \in Nat /\ Len(c.want) \in Nat /\ Len(c.want) + 1 \in Nat /\ c.at \in Waits
      BY <2>1 DEF Calls
    <3>2. Limit * MaxPages \in Nat /\ MaxPages <= Limit * MaxPages
      BY ClientConstants
    <3>3. \/ c.off < MaxPages
          \/ c.off <= Len(c.want)
      <4>1. CASE c.at \in {"find", "create", "look", "walk"}
        BY <2>1, <3>1, <4>1 DEF Shaped
      <4>2. CASE c.at = "none"
        <5>1. c.off = 0
          BY <2>1, <4>2 DEF Shaped, NoCall
        <5> QED
          BY <3>1, <5>1
      <4> QED
        BY <3>1, <4>1, <4>2 DEF Waits
    <3>4. Max({Limit * MaxPages, Len(c.want) + 1}) =
            IF Limit * MaxPages >= Len(c.want) + 1 THEN Limit * MaxPages ELSE Len(c.want) + 1
      BY <3>1, <3>2, GreatestOfTwo
    <3> QED
      BY <3>1, <3>2, <3>3, <3>4, ClientConstants
  <2>3. /\ c.kind \in process.does[t] \cup {"none"} /\ c.left \in 0..Retries
        /\ c.step \in {"idle", "ready", "resend", "flight", "login", "done"}
        /\ c.at \in {"none", "find", "create", "look", "walk"} /\ c.kept \subseteq Rows
    BY <2>1 DEF Shaped, Calls, Waits
  <2> QED
    BY <2>1, <2>2, <2>3 DEF Shaped, c
<1> QED
  BY <1>1 DEF Typed, JobsTyped, TypeOK

(* The calls of a client are always well formed: an attempt belongs to a   *)
(* sending, a sending to a request of a call its thread may make, and a    *)
(* page or a poll never goes beyond its bound.                             *)
THEOREM ClientTypeCorrect == Spec => []TypeOK
<1>1. Spec => []Typed
  BY InitIsTyped, StepIsTyped, PTL DEF Spec
<1> QED
  BY <1>1, TypedIsTypeOK, PTL

-----------------------------------------------------------------------------
(* A call goes on with the request it had, or is over without an answer.   *)
Carries(c, d) ==
    /\ d.kind = c.kind /\ d.name = c.name /\ d.at = c.at /\ d.want = c.want /\ d.off = c.off
    /\ d.seen = c.seen /\ d.kept \subseteq c.kept /\ d.unheard = c.unheard
    /\ c.step = "done" => d.step = "done" /\ d.answer = c.answer
    /\ d.answer = "returned" => c.step = "done"

(* What the transport, the clocks and the rows of a search do to a call.   *)
Transport ==
    \/ \E t \in Threads : \/ Send(t) \/ NotServed(t) \/ Unauthorized(t) \/ Refused(t)
                          \/ LoggedIn(t) \/ Late(t)
    \/ \E j \in Jobs : Ends(j)
    \/ RowsChange \/ Expires \/ UNCHANGED vars

LEMMA TransportCarries ==
    ASSUME Typed, Transport
    PROVE  /\ \A t \in Threads : Carries(call[t], call'[t])
           /\ UNCHANGED process
<1>0. \A t \in Threads : /\ call[t] \in Calls /\ Shaped(call[t], t)
                         /\ (call[t].answer = "none") = (call[t].step # "done")
  BY DEF Typed, CallsShaped, Shaped
<1>1. ASSUME NEW c, NEW t \in Threads, c = call[t], NEW d, d \in Calls, UNCHANGED process,
             call' = [call EXCEPT ![t] = d], Carries(c, d)
      PROVE  (\A u \in Threads : Carries(call[u], call'[u])) /\ UNCHANGED process
  <2>1. ASSUME NEW u \in Threads PROVE Carries(call[u], call'[u])
    <3>1. CASE u = t
      BY <1>1, <3>1 DEF Typed, CallsShaped
    <3>2. CASE u # t
      <4>1. call'[u] = call[u]
        BY <1>1, <3>2 DEF Typed, CallsShaped
      <4> QED
        BY <1>0, <4>1 DEF Carries
    <3> QED
      BY <3>1, <3>2
  <2> QED
    BY <1>1, <2>1
<1>2. ASSUME UNCHANGED <<process, call>>
      PROVE  (\A u \in Threads : Carries(call[u], call'[u])) /\ UNCHANGED process
  BY <1>0, <1>2 DEF Carries
<1>3. ASSUME NEW t \in Threads, NEW c, c = call[t], c.step # "idle", c.step # "done",
             \/ call' = [call EXCEPT ![t] = Raises(c, "refused")]
             \/ call' = [call EXCEPT ![t] = Raises(c, "unavailable")],
             UNCHANGED process
      PROVE  (\A u \in Threads : Carries(call[u], call'[u])) /\ UNCHANGED process
  <2>1. PICK why \in {"refused", "unavailable"} : call' = [call EXCEPT ![t] = Raises(c, why)]
    BY <1>3
  <2> DEFINE d == Raises(c, why)
  <2>2. why \in Answers /\ c \in Calls
    BY <1>0, <1>3 DEF Answers
  <2>3. /\ d \in Calls /\ d.at = c.at /\ d.kind = c.kind /\ d.name = c.name
        /\ d.want = c.want /\ d.off = c.off /\ d.seen = c.seen /\ d.kept = c.kept
        /\ d.unheard = c.unheard /\ d.answer = why
    BY <2>2, RaisesFields
  <2> HIDE DEF d
  <2>4. Carries(c, d)
    BY <1>3, <2>3 DEF Carries
  <2> QED
    BY <1>1, <1>3, <2>1, <2>3, <2>4 DEF d
<1>4. ASSUME NEW t \in Threads, Send(t)
      PROVE  (\A u \in Threads : Carries(call[u], call'[u])) /\ UNCHANGED process
  <2> DEFINE c == call[t]
             d == [call[t] EXCEPT !.step = "flight", !.left = Retries, !.sent = token]
  <2>1. c \in Calls /\ Retries \in 0..Retries /\ token \in {"fresh", "stale"}
    BY <1>0, ClientConstants DEF Typed
  <2>2. call' = [call EXCEPT ![t] = d] /\ c.step # "done" /\ UNCHANGED process
    BY <1>4 DEF Send, Typed, CallsShaped
  <2>3. d \in Calls /\ Carries(c, d)
    BY <1>0, <2>1, <2>2 DEF Calls, Carries
  <2> HIDE DEF d
  <2> QED
    BY <1>1, <2>2, <2>3
<1>5. ASSUME NEW t \in Threads, NotServed(t)
      PROVE  (\A u \in Threads : Carries(call[u], call'[u])) /\ UNCHANGED process
  <2> DEFINE c == call[t]
             b == [c EXCEPT !.unheard = @ + 0]
  <2>1. c \in Calls /\ c.step \notin {"idle", "done"} /\ UNCHANGED process
        /\ call' = [call EXCEPT ![t] = Repeat(c, 0)]
    BY <1>0, <1>5 DEF NotServed
  <2>2. c.unheard + 0 = c.unheard
    BY <2>1 DEF Calls
  <2>3. CASE c.left > 0
    <3> DEFINE d == [c EXCEPT !.left = @ - 1, !.unheard = @ + 0]
    <3>1. c.left - 1 \in 0..Retries
      BY <2>1, <2>3, ClientConstants DEF Calls
    <3>2. d \in Calls /\ Carries(c, d)
      BY <1>0, <2>1, <2>2, <3>1 DEF Calls, Carries
    <3>3. call' = [call EXCEPT ![t] = d]
      BY <2>1, <2>3 DEF Repeat
    <3> HIDE DEF d
    <3> QED
      BY <1>1, <2>1, <3>2, <3>3
  <2>4. CASE ~(c.left > 0)
    <3>1. b = c
      BY <2>1, <2>2 DEF Calls
    <3>2. call' = [call EXCEPT ![t] = Raises(c, "unavailable")]
      BY <2>1, <2>4, <3>1 DEF Repeat
    <3> QED
      BY <1>3, <2>1, <3>2
  <2> QED
    BY <2>3, <2>4
<1>6. ASSUME NEW t \in Threads, Unauthorized(t)
      PROVE  (\A u \in Threads : Carries(call[u], call'[u])) /\ UNCHANGED process
  <2> DEFINE c == call[t]
             d == [c EXCEPT !.step = "login", !.left = Retries, !.sent = "fresh"]
  <2>1. /\ c \in Calls /\ c.step = "flight" /\ UNCHANGED process
        /\ call' = [call EXCEPT ![t] = IF process.mode = "bearer" /\ ~c.again THEN d
                                       ELSE Raises(c, "refused")]
    BY <1>0, <1>6 DEF Unauthorized
  <2>2. Retries \in 0..Retries
    BY ClientConstants
  <2>3. d \in Calls /\ Carries(c, d)
    BY <1>0, <2>1, <2>2 DEF Calls, Carries
  <2> HIDE DEF d
  <2>4. CASE process.mode = "bearer" /\ ~c.again
    BY <1>1, <2>1, <2>3, <2>4
  <2>5. CASE ~(process.mode = "bearer" /\ ~c.again)
    BY <1>3, <2>1, <2>5
  <2> QED
    BY <2>4, <2>5
<1>7. ASSUME NEW t \in Threads, Refused(t)
      PROVE  (\A u \in Threads : Carries(call[u], call'[u])) /\ UNCHANGED process
  BY <1>3, <1>7 DEF Refused
<1>8. ASSUME NEW t \in Threads, LoggedIn(t)
      PROVE  (\A u \in Threads : Carries(call[u], call'[u])) /\ UNCHANGED process
  <2> DEFINE c == call[t]
             d == [call[t] EXCEPT !.step = "resend", !.left = 0, !.again = TRUE]
  <2>1. c \in Calls /\ 0 \in 0..Retries
    BY <1>0, ClientConstants
  <2>2. call' = [call EXCEPT ![t] = d] /\ c.step # "done" /\ UNCHANGED process
    BY <1>8 DEF LoggedIn, Typed, CallsShaped
  <2>3. d \in Calls /\ Carries(c, d)
    BY <1>0, <2>1, <2>2 DEF Calls, Carries
  <2> HIDE DEF d
  <2> QED
    BY <1>1, <2>2, <2>3
<1>9. ASSUME NEW t \in Threads, Late(t)
      PROVE  (\A u \in Threads : Carries(call[u], call'[u])) /\ UNCHANGED process
  <2> DEFINE c == call[t]
             d == [call[t] EXCEPT !.late = TRUE]
  <2>1. c \in Calls /\ call' = [call EXCEPT ![t] = d] /\ c.step # "done" /\ UNCHANGED process
    BY <1>0, <1>9 DEF Late, Typed, CallsShaped
  <2>2. d \in Calls /\ Carries(c, d)
    BY <1>0, <2>1 DEF Calls, Carries
  <2> HIDE DEF d
  <2> QED
    BY <1>1, <2>1, <2>2
<1>10. ASSUME RowsChange
       PROVE  (\A u \in Threads : Carries(call[u], call'[u])) /\ UNCHANGED process
  <2>1. CASE UNCHANGED call
    BY <1>2, <1>10, <2>1 DEF RowsChange
  <2>2. CASE \E i \in DOMAIN rows.list : call' = [t \in Threads |-> [call[t] EXCEPT
                           !.kept = @ \cap ToSet(SubSeq(rows.list, 1, i - 1))]]
    <3>1. PICK B : call' = [t \in Threads |-> [call[t] EXCEPT !.kept = @ \cap B]]
      BY <2>2
    <3>2. ASSUME NEW u \in Threads PROVE Carries(call[u], call'[u])
      <4>1. call'[u] = [call[u] EXCEPT !.kept = @ \cap B] /\ call[u] \in Calls
        BY <1>0, <3>1
      <4> QED
        BY <1>0, <4>1 DEF Carries, Calls
    <3> QED
      BY <1>10, <3>2 DEF RowsChange
  <2> QED
    BY <1>10, <2>1, <2>2 DEF RowsChange
<1>11. ASSUME Expires
       PROVE  (\A u \in Threads : Carries(call[u], call'[u])) /\ UNCHANGED process
  <2>1. ASSUME NEW u \in Threads PROVE Carries(call[u], call'[u])
    <3> DEFINE c == call[u]
               d == [c EXCEPT !.sent = "stale"]
    <3>1. c \in Calls /\ call'[u] = IF c.step = "flight" THEN d ELSE c
      BY <1>0, <1>11 DEF Expires
    <3>2. Carries(c, d) /\ Carries(c, c)
      BY <1>0, <3>1 DEF Calls, Carries
    <3> HIDE DEF d
    <3> QED
      BY <3>1, <3>2
  <2> QED
    BY <1>11, <2>1 DEF Expires
<1> QED
  BY <1>2, <1>4, <1>5, <1>6, <1>7, <1>8, <1>9, <1>10, <1>11 DEF Transport, Ends, vars

-----------------------------------------------------------------------------
(* A call with an answer keeps what it is about. *)
Answered(c, d) ==
    /\ d \in Calls /\ d.kind = c.kind /\ d.name = c.name /\ d.at = c.at /\ d.want = c.want
    /\ d.kept = c.kept /\ d.unheard = c.unheard

(* Such is every answer to a look. *)
LEMMA LookedAnswers ==
    ASSUME Typed, NEW t \in Threads, Looked(t)
    PROVE  \E d : call' = [call EXCEPT ![t] = d] /\ Answered(call[t], d)
<1> DEFINE c == call[t]
<1>1. PICK d : /\ call' = [call EXCEPT ![t] = d]
               /\ \/ c.kind = "execute" /\ d = LookedOnce(c)
                  \/ c.kind = "each" /\ d = LookedEach(c)
                  \/ c.kind \notin {"execute", "each"} /\ d = LookedPage(c)
  BY LookedMoves
<1>2. Shaped(c, t) /\ c.step = "flight" /\ c.at = "look" /\ c \in Calls
  BY DEF Looked, Typed, CallsShaped, Shaped
<1>3. c.kind \in Paged \cup {"each", "execute"}
  BY <1>2 DEF Shaped, Polls
<1>4. Shaped(d, t)
  BY <1>1, <1>2, <1>3, LookedOnceShaped, LookedEachShaped, LookedPageShaped
<1> HIDE DEF c
<1>5. d \in Calls
  BY <1>4 DEF Shaped
<1>6. ASSUME NEW s PROVE LET e == Returns(c, s) IN
         /\ e.kind = c.kind /\ e.name = c.name /\ e.at = c.at /\ e.want = c.want
         /\ e.kept = c.kept /\ e.unheard = c.unheard
  BY <1>2 DEF Returns, Raises, Calls
<1>7. ASSUME NEW why PROVE LET e == Raises(c, why) IN
         /\ e.kind = c.kind /\ e.name = c.name /\ e.at = c.at /\ e.want = c.want
         /\ e.kept = c.kept /\ e.unheard = c.unheard
  BY <1>2 DEF Raises, Calls
<1>8. ASSUME NEW k, NEW s PROVE LET e == LooksOn(c, k, s) IN
         /\ e.kind = c.kind /\ e.name = c.name /\ e.at = c.at /\ e.want = c.want
         /\ e.kept = c.kept /\ e.unheard = c.unheard
  BY <1>2 DEF LooksOn, Asks, Calls
<1>9. (\E s : d = Returns(c, s)) \/ (\E why : d = Raises(c, why)) \/ (\E k, s : d = LooksOn(c, k, s))
  <2>1. CASE d = LookedOnce(c)
    BY <2>1 DEF LookedOnce, Round, LooksOn
  <2>2. CASE d = LookedEach(c)
    BY <2>2 DEF LookedEach, Round, StillRunning, LooksOn
  <2>3. CASE d = LookedPage(c)
    BY <2>3 DEF LookedPage, Round, LooksOn
  <2> QED
    BY <1>1, <2>1, <2>2, <2>3
<1>10. Answered(c, d)
  <2>1. CASE \E s : d = Returns(c, s)
    BY <1>5, <1>6, <2>1 DEF Answered
  <2>2. CASE \E why : d = Raises(c, why)
    BY <1>5, <1>7, <2>2 DEF Answered
  <2>3. CASE \E k, s : d = LooksOn(c, k, s)
    BY <1>5, <1>8, <2>3 DEF Answered
  <2> QED
    BY <1>9, <2>1, <2>2, <2>3
<1> QED
  BY <1>1, <1>10 DEF c

(* And every page of a search. *)
LEMMA WalkAnswers ==
    ASSUME NEW t \in Threads, NEW c, Shaped(c, t), c.at = "walk", c.step = "flight",
           NEW page \in Seq(Rows)
    PROVE  Answered(c, Walk(c, page))
<1> DEFINE s == c.seen \o page
<1>1. c \in Calls /\ c.off + 1 \in Nat /\ c.seen \in Listings
  BY DEF Shaped, Calls
<1>2. s \in Listings
  BY <1>1 DEF Listings
<1>3. Answered(c, Returns(c, s))
  <2> HIDE DEF s
  <2> QED
    BY <1>1, <1>2, ReturnsFields DEF Answered
<1>4. Answered(c, Raises(c, "unavailable"))
  BY ZenonT(60), <1>1, RaisesFields, KnownWaits DEF Answered
<1>5. Answered(c, WalksOn(c, c.off + 1, s))
  <2> HIDE DEF s
  <2> DEFINE k == c.off + 1
             d == WalksOn(c, k, s)
  <2>0. k \in Nat
    BY <1>1
  <2> HIDE DEF k
  <2>1. /\ d \in Calls /\ d.kind = c.kind /\ d.name = c.name /\ d.want = c.want
        /\ d.kept = c.kept /\ d.unheard = c.unheard /\ d.at = "walk"
    <3>1. c \in Calls /\ s \in Listings
      BY <1>1, <1>2
    <3>2. /\ d \in Calls /\ d.step = "ready" /\ d.at = "walk" /\ ~d.again
          /\ d.kind = c.kind /\ d.name = c.name /\ d.want = c.want /\ d.off = k
          /\ d.seen = s /\ d.kept = c.kept /\ d.unheard = c.unheard /\ d.answer = c.answer
      BY <2>0, <3>1, WalksOnFields
    <3> QED
      BY <3>2
  <2> HIDE DEF d
  <2>2. Answered(c, d)
    BY <2>1 DEF Answered
  <2> QED
    BY <2>2 DEF d, k
<1> HIDE DEF s
<1> QED
  BY <1>3, <1>4, <1>5, WalkMoves DEF s

LEMMA WalkedAnswers ==
    ASSUME Typed, NEW t \in Threads, Walked(t)
    PROVE  \E d : call' = [call EXCEPT ![t] = d] /\ Answered(call[t], d)
<1> DEFINE page == PageOf(rows.list, call[t].off * Limit)
<1>1. Shaped(call[t], t) /\ call[t].step = "flight" /\ call[t].at = "walk"
  BY DEF Walked, Typed, CallsShaped
<1>2. call[t].off * Limit \in Nat
  <2>1. call[t].off \in Nat /\ Limit \in Nat
    BY <1>1, ClientConstants DEF Shaped, Calls
  <2> QED
    BY <2>1
<1>3. page \in Seq(Rows)
  BY <1>2, PageTyped
<1>4. call' = [call EXCEPT ![t] = Walk(call[t], page)]
  BY DEF Walked
<1> HIDE DEF page
<1>5. Answered(call[t], Walk(call[t], page))
  BY <1>1, <1>3, WalkAnswers
<1> QED
  BY <1>4, <1>5

-----------------------------------------------------------------------------
(* What Risk Modeler holds for the calls of a thread. *)
Made(t) == {j \in Jobs : job[j].by = t}

(* The calls are answered for by what is held: as many things as the call  *)
(* was told of or lost the answer of; what is free is as at the start; who *)
(* is about to create knows of, or runs beside, whoever made its like.     *)
Counted ==
    \A t \in Threads :
       IsFiniteSet(Made(t)) /\ Cardinality(Made(t)) = call[t].unheard + Heard(call[t])

Free == \A j \in Jobs : job[j].state = "none" => job[j] = NoJob

Vied ==
    \A j \in Jobs, t \in Creating :
       job[j].name # NoOne /\ job[j].name = call[t].name
          => job[j].by = t \/ t \in job[j].beside

Alike ==
    \A i, j \in Jobs :
       i # j /\ job[i].name = job[j].name /\ job[i].name # NoOne
          => \/ job[i].by = job[j].by
             \/ job[i].by \in job[j].beside \/ job[j].by \in job[i].beside

Owned == Counted /\ Free /\ Vied /\ Alike

(* The strengthening gives what the runs check. *)
LEMMA OwnedIsCreatedTwice == Owned => CreatedTwiceOnlyByLossOrRace
  BY DEF Owned, Counted, Alike, Made, CreatedTwiceOnlyByLossOrRace

(* A client begins with nothing made. *)
LEMMA InitIsOwned == Init => Owned
<1> SUFFICES ASSUME Init PROVE Owned
  OBVIOUS
<1>1. \A j \in Jobs : job[j].by = NoOne /\ job[j].name = NoOne /\ (job[j].state = "none" => job[j] = NoJob)
  BY DEF Init, NoJob
<1>2. \A t \in Threads : call[t] = NoCall
  BY DEF Init
<1>3. Counted
  <2>1. \A t \in Threads : Made(t) = {}
    BY <1>1, ClientConstants DEF Made
  <2>2. NoCall.unheard + Heard(NoCall) = 0
    BY DEF NoCall, Heard
  <2> QED
    BY <1>2, <2>1, <2>2, FS_EmptySet DEF Counted
<1>4. Creating = {}
  BY <1>2 DEF Creating, NoCall
<1> QED
  BY <1>1, <1>3, <1>4 DEF Owned, Free, Vied, Alike

(* What is held keeps its maker, its name and who ran beside it. *)
Kept(i, j) == i.by = j.by /\ i.name = j.name /\ i.beside = j.beside
              /\ (j.state = "none" => i = j)

(* A step that makes nothing leaves it all answered for, if whoever starts *)
(* to create has looked or creates without a name.                         *)
LEMMA NothingMade ==
    ASSUME Owned, \A j \in Jobs : Kept(job[j], job'[j]),
           \A t \in Threads : call'[t].unheard = call[t].unheard /\ Heard(call'[t]) = Heard(call[t]),
           \A t \in Creating' : \/ t \in Creating /\ call'[t].name = call[t].name
                                \/ call'[t].name = NoOne
                                \/ Named(call'[t].name) = {}
    PROVE  Owned'
<1>1. Counted'
  <2>1. \A t \in Threads : Made(t)' = Made(t)
    BY DEF Made, Kept
  <2>2. \A t \in Threads : Heard(call[t])' = Heard(call[t])
    BY DEF Heard
  <2> QED
    BY <2>1, <2>2 DEF Owned, Counted
<1>2. Free'
  BY DEF Owned, Free, Kept
<1>3. ASSUME NEW j \in Jobs, NEW t \in Creating', job'[j].name # NoOne, job'[j].name = call'[t].name
      PROVE  job'[j].by = t \/ t \in job'[j].beside
  <2>1. job[j].name = job'[j].name /\ job[j].by = job'[j].by /\ job[j].beside = job'[j].beside
    BY DEF Kept
  <2>2. CASE t \in Creating /\ call'[t].name = call[t].name
    BY <1>3, <2>1, <2>2 DEF Owned, Vied
  <2>3. CASE Named(call'[t].name) = {}
    <3>1. job[j].state = "none"
      BY <1>3, <2>1, <2>3 DEF Named
    <3>2. job[j].name = NoOne
      BY <3>1 DEF Owned, Free, NoJob
    <3> QED
      BY <1>3, <2>1, <3>2
  <2> QED
    BY <1>3, <2>2, <2>3
<1>4. Alike'
  BY SMTT(60) DEF Owned, Alike, Kept
<1> QED
  BY <1>1, <1>2, <1>3, <1>4 DEF Owned, Vied

(* What is held changes only where a job ends or a call creates. *)
LEMMA TransportKeeps ==
    ASSUME Typed, Owned, Transport PROVE \A j \in Jobs : Kept(job[j], job'[j])
<1>1. CASE \E k \in Jobs : Ends(k)
  <2>1. PICK k \in Jobs : Ends(k)
    BY <1>1
  <2>2. job[k].state # "none" /\ job' = [job EXCEPT ![k].state = "ended"]
    BY <2>1 DEF Ends
  <2>3. \A j \in Jobs : job[j] \in [state : {"none", "running", "ended"}, by : Threads \cup {NoOne},
                        name : Names \cup {NoOne}, beside : SUBSET Threads]
    BY DEF Typed, JobsTyped
  <2> QED
    BY <2>2, <2>3 DEF Kept, Typed, JobsTyped
<1>2. CASE UNCHANGED job
  BY <1>2 DEF Kept
<1> QED
  BY <1>1, <1>2 DEF Transport, Send, NotServed, Unauthorized, Refused, LoggedIn, Late,
     RowsChange, Expires, vars

LEMMA TransportOwned ==
    ASSUME Typed, Owned, Transport PROVE Owned'
<1>1. \A t \in Threads : Carries(call[t], call'[t])
  BY TransportCarries
<1>2. \A j \in Jobs : Kept(job[j], job'[j])
  BY TransportKeeps
<1>3. \A t \in Threads : call'[t].unheard = call[t].unheard /\ Heard(call'[t]) = Heard(call[t])
  BY <1>1 DEF Carries, Heard
<1>4. \A t \in Creating' : t \in Creating /\ call'[t].name = call[t].name
  BY <1>1 DEF Carries, Creating
<1> QED
  BY <1>2, <1>3, <1>4, NothingMade

(* One call moves with an answer, or begins.                               *)
LEMMA OneCallOwned ==
    ASSUME Typed, Owned, NEW t \in Threads, NEW d, call' = [call EXCEPT ![t] = d], UNCHANGED job,
           d.unheard = call[t].unheard, Heard(d) = Heard(call[t]),
           d.at = "create" /\ d.step # "done" =>
              \/ t \in Creating /\ d.name = call[t].name
              \/ d.name = NoOne
              \/ Named(d.name) = {}
    PROVE  Owned'
<1>0. call'[t] = d /\ \A u \in Threads : u # t => call'[u] = call[u]
  BY DEF Typed, CallsShaped
<1>1. \A j \in Jobs : Kept(job[j], job'[j])
  BY DEF Kept
<1>2. \A u \in Threads : call'[u].unheard = call[u].unheard /\ Heard(call'[u]) = Heard(call[u])
  BY <1>0
<1>3. \A u \in Creating' : \/ u \in Creating /\ call'[u].name = call[u].name
                           \/ call'[u].name = NoOne
                           \/ Named(call'[u].name) = {}
  BY <1>0 DEF Creating
<1> QED
  BY <1>1, <1>2, <1>3, NothingMade

(* The calls begin. *)
Begins == \E t \in Threads : GetOrCreate(t) \/ Execute(t) \/ PollBatch(t) \/ Search(t)

LEMMA BeginsOwned ==
    ASSUME Typed, Owned, Begins PROVE Owned'
<1>0. NoCall.unheard = 0 /\ Heard(NoCall) = 0 /\ NoCall.name = NoOne /\ NoCall.want = <<>>
  BY DEF NoCall, Heard
<1>1. ASSUME NEW t \in Threads, GetOrCreate(t) PROVE Owned'
  <2>1. PICK n \in Names : call' = [call EXCEPT ![t] =
                Asks([@ EXCEPT !.kind = "named", !.name = n], "find")]
    BY <1>1 DEF GetOrCreate
  <2>2. call[t] = NoCall
    BY <1>1 DEF GetOrCreate, Typed, CallsShaped, Shaped
  <2> DEFINE d == Asks([NoCall EXCEPT !.kind = "named", !.name = n], "find")
  <2>3. d.unheard = 0 /\ d.at = "find" /\ d.want = <<>>
    BY DEF Asks, NoCall
  <2>4. call' = [call EXCEPT ![t] = d]
    BY <2>1, <2>2
  <2> HIDE DEF d
  <2>5. Heard(d) = 0
    BY <2>3 DEF Heard
  <2> QED
    BY <1>0, <1>1, <2>2, <2>3, <2>4, <2>5, OneCallOwned DEF GetOrCreate
<1>2. ASSUME NEW t \in Threads, Execute(t) PROVE Owned'
  <2>2. call[t] = NoCall
    BY <1>2 DEF Execute, Typed, CallsShaped, Shaped
  <2> DEFINE d == Asks([NoCall EXCEPT !.kind = "execute"], "create")
  <2>3. d.unheard = 0 /\ d.name = NoOne /\ d.want = <<>>
    BY DEF Asks, NoCall
  <2>4. call' = [call EXCEPT ![t] = d]
    BY <1>2, <2>2 DEF Execute
  <2> HIDE DEF d
  <2>5. Heard(d) = 0
    BY <2>3 DEF Heard
  <2> QED
    BY <1>0, <1>2, <2>2, <2>3, <2>4, <2>5, OneCallOwned DEF Execute
<1>3. ASSUME NEW t \in Threads, PollBatch(t) PROVE Owned'
  <2>1. PICK k \in Polls, i \in Running \cup {Unlisted}, j \in Running \cup {Unlisted} :
                call' = [call EXCEPT ![t] =
                           Asks([@ EXCEPT !.kind = k, !.want = <<i, j>>], "look")]
    BY <1>3 DEF PollBatch, Polls
  <2>2. call[t] = NoCall
    BY <1>3 DEF PollBatch, Typed, CallsShaped, Shaped
  <2> DEFINE d == Asks([NoCall EXCEPT !.kind = k, !.want = <<i, j>>], "look")
  <2>3. d.unheard = 0 /\ d.at = "look" /\ d.kind = k
    BY DEF Asks, NoCall
  <2>4. call' = [call EXCEPT ![t] = d]
    BY <2>1, <2>2
  <2> HIDE DEF d
  <2>5. Heard(d) = 0
    BY <2>3 DEF Heard, Polls, Paged
  <2> QED
    BY <1>0, <1>3, <2>2, <2>3, <2>4, <2>5, OneCallOwned DEF PollBatch
<1>4. ASSUME NEW t \in Threads, Search(t) PROVE Owned'
  <2>2. call[t] = NoCall
    BY <1>4 DEF Search, Typed, CallsShaped, Shaped
  <2> DEFINE d == Asks([NoCall EXCEPT !.kind = "search", !.kept = ToSet(rows.list)], "walk")
  <2>3. d.unheard = 0 /\ d.at = "walk" /\ d.want = <<>>
    BY DEF Asks, NoCall
  <2>4. call' = [call EXCEPT ![t] = d]
    BY <1>4, <2>2 DEF Search
  <2> HIDE DEF d
  <2>5. Heard(d) = 0
    BY <2>3 DEF Heard
  <2> QED
    BY ZenonT(60), <1>0, <1>4, <2>2, <2>3, <2>4, <2>5, OneCallOwned DEF Search
<1> QED
  BY <1>1, <1>2, <1>3, <1>4 DEF Begins

(* An answer to a look or to a page is told of nothing made. *)
LEMMA AnsweredOwned ==
    ASSUME Typed, Owned, NEW t \in Threads, Looked(t) \/ Walked(t) PROVE Owned'
<1>1. PICK d : call' = [call EXCEPT ![t] = d] /\ Answered(call[t], d)
  BY LookedAnswers, WalkedAnswers
<1>2. call[t].at \in {"look", "walk"} /\ UNCHANGED job
  BY DEF Looked, Walked
<1>3. d.unheard = call[t].unheard /\ Heard(d) = Heard(call[t]) /\ d.at # "create"
  BY <1>1, <1>2 DEF Answered, Heard
<1> QED
  BY <1>1, <1>2, <1>3, OneCallOwned

(* A call that found its name returns; one that did not may create it.     *)
LEMMA FoundOwned ==
    ASSUME Typed, Owned, NEW t \in Threads, Found(t) PROVE Owned'
<1> DEFINE c == call[t]
<1>1. /\ c \in Calls /\ c.step = "flight" /\ c.at = "find" /\ UNCHANGED job
      /\ call' = [call EXCEPT ![t] = IF Named(c.name) # {} THEN Returns(c, <<>>)
                                     ELSE Asks(c, "create")]
  BY DEF Found, Typed, CallsShaped, Shaped
<1> HIDE DEF c
<1>2. CASE Named(c.name) # {}
  <2> DEFINE d == Returns(c, <<>>)
  <2>1. d.unheard = c.unheard /\ d.step = "done" /\ d.kind = c.kind /\ d.want = c.want
    BY <1>1 DEF Returns, Raises, Calls
  <2>2. call' = [call EXCEPT ![t] = d]
    BY <1>1, <1>2
  <2> HIDE DEF d
  <2>3. Heard(d) = Heard(c)
    BY <2>1 DEF Heard
  <2> QED
    BY <1>1, <2>1, <2>2, <2>3, OneCallOwned DEF c
<1>3. CASE Named(c.name) = {}
  <2> DEFINE d == Asks(c, "create")
  <2>1. d.unheard = c.unheard /\ d.name = c.name /\ d.kind = c.kind /\ d.want = c.want
    BY <1>1 DEF Asks, Calls
  <2>2. call' = [call EXCEPT ![t] = d]
    BY <1>1, <1>3
  <2> HIDE DEF d
  <2>3. Heard(d) = Heard(c) /\ Named(d.name) = {}
    BY <1>3, <2>1 DEF Heard
  <2> QED
    BY <1>1, <2>1, <2>2, <2>3, OneCallOwned DEF c
<1> QED
  BY <1>2, <1>3

(* What a served POST adds to what its call was told of or lost. *)
LEMMA CreatedCounts ==
    ASSUME NEW c \in Calls, c.kind \in {"named", "execute"}, c.want = <<>>, NEW j, NEW d,
           \/ d = Repeat(c, 1)
           \/ d = Raises([c EXCEPT !.unheard = @ + 1], "unavailable")
           \/ d = Returns([c EXCEPT !.want = <<j>>], <<>>)
           \/ d = Asks([c EXCEPT !.want = <<j>>], "look")
    PROVE  d.unheard + Heard(d) = c.unheard + Heard(c) + 1 /\ d.name = c.name
<1>0. Heard(c) = 0 /\ c.unheard \in Nat /\ c.unheard + 1 \in Nat
  BY DEF Heard, Calls
<1>1. CASE d = Repeat(c, 1) \/ d = Raises([c EXCEPT !.unheard = @ + 1], "unavailable")
  <2>1. d.unheard = c.unheard + 1 /\ d.name = c.name /\ d.want = <<>>
    BY <1>1 DEF Repeat, Raises, Calls
  <2> QED
    BY <1>0, <2>1 DEF Heard
<1>2. CASE d = Returns([c EXCEPT !.want = <<j>>], <<>>) \/ d = Asks([c EXCEPT !.want = <<j>>], "look")
  <2>1. d.unheard = c.unheard /\ d.name = c.name /\ d.want = <<j>> /\ d.kind = c.kind
    BY <1>2 DEF Returns, Raises, Asks, Calls
  <2>2. <<j>> # <<>>
    OBVIOUS
  <2>3. Heard(d) = 1
    BY <2>1, <2>2 DEF Heard
  <2> QED
    BY <1>0, <2>1, <2>3
<1> QED
  BY <1>1, <1>2

LEMMA CreatedOwned ==
    ASSUME Typed, Owned, NEW t \in Threads, Created(t) PROVE Owned'
<1> DEFINE c == call[t]
<1>1. PICK j \in Jobs, s \in {"running", "ended"} : \E d :
              /\ job[j].state = "none"
              /\ job' = [job EXCEPT ![j] = [state |-> s, by |-> t, name |-> c.name,
                                           beside |-> Creating]]
              /\ call' = [call EXCEPT ![t] = d]
              /\ \/ d = Repeat(c, 1)
                 \/ d = Raises([c EXCEPT !.unheard = @ + 1], "unavailable")
                 \/ d = Returns([c EXCEPT !.want = <<j>>], <<>>)
                 \/ d = Asks([c EXCEPT !.want = <<j>>], "look")
  BY CreatedMoves
<1>2. PICK d :
              /\ job[j].state = "none"
              /\ job' = [job EXCEPT ![j] = [state |-> s, by |-> t, name |-> c.name,
                                           beside |-> Creating]]
              /\ call' = [call EXCEPT ![t] = d]
              /\ \/ d = Repeat(c, 1)
                 \/ d = Raises([c EXCEPT !.unheard = @ + 1], "unavailable")
                 \/ d = Returns([c EXCEPT !.want = <<j>>], <<>>)
                 \/ d = Asks([c EXCEPT !.want = <<j>>], "look")
  BY <1>1
<1>3. /\ c \in Calls /\ c.kind \in {"named", "execute"} /\ c.want = <<>>
      /\ c.step = "flight" /\ c.at = "create"
  BY DEF Created, Typed, CallsShaped, Shaped
<1>4. t \in Creating
  BY <1>3 DEF Creating
<1>5. d.unheard + Heard(d) = c.unheard + Heard(c) + 1 /\ d.name = c.name
  <2> HIDE DEF c
  <2> QED
    BY <1>2, <1>3, CreatedCounts
<1>6. /\ call'[t] = d /\ \A u \in Threads : u # t => call'[u] = call[u]
      /\ job'[j] = [state |-> s, by |-> t, name |-> c.name, beside |-> Creating]
      /\ \A i \in Jobs : i # j => job'[i] = job[i]
      /\ job[j] = NoJob
  BY <1>2 DEF Typed, CallsShaped, JobsTyped, Owned, Free
<1>7. \A u \in Creating' : u \in Creating /\ call'[u].name = call[u].name
  BY <1>4, <1>5, <1>6 DEF Creating
<1>8. Counted'
  <2>1. ASSUME NEW u \in Threads
        PROVE  IsFiniteSet(Made(u))' /\ Cardinality(Made(u))' = call'[u].unheard + Heard(call'[u])
    <3>0. IsFiniteSet(Made(u)) /\ Cardinality(Made(u)) = call[u].unheard + Heard(call[u])
      BY DEF Owned, Counted
    <3>1. CASE u = t
      <4>1. j \notin Made(t)
        BY <1>6, ClientConstants DEF Made, NoJob
      <4>2. Made(t)' = Made(t) \cup {j}
        BY <1>6 DEF Made
      <4> DEFINE M == Made(t)
                 N == Made(t)'
      <4>3. N = M \cup {j} /\ IsFiniteSet(M) /\ j \notin M /\ Cardinality(M) = c.unheard + Heard(c)
        BY <3>0, <3>1, <4>1, <4>2
      <4> HIDE DEF M, N
      <4>4. IsFiniteSet(N) /\ Cardinality(N) = Cardinality(M) + 1
        BY <4>3, FS_AddElement
      <4>5. IsFiniteSet(N) /\ Cardinality(N) = d.unheard + Heard(d)
        BY <1>5, <4>3, <4>4
      <4> QED
        BY <1>6, <3>1, <4>5 DEF N
    <3>2. CASE u # t
      <4>0. job'[j].by # u /\ job[j].by # u
        BY <1>6, <3>2, ClientConstants DEF NoJob
      <4>1. Made(u)' = Made(u)
        BY <1>6, <4>0 DEF Made
      <4> QED
        BY <1>6, <3>0, <3>2, <4>1
    <3> QED
      BY <3>1, <3>2
  <2>2. \A u \in Threads : Heard(call[u])' = Heard(call'[u])
    BY DEF Heard
  <2> QED
    BY <2>1, <2>2 DEF Counted
<1>9. Free'
  BY <1>6 DEF Owned, Free
<1>10. ASSUME NEW i \in Jobs, NEW u \in Creating', job'[i].name # NoOne,
              job'[i].name = call'[u].name
       PROVE  job'[i].by = u \/ u \in job'[i].beside
  BY <1>6, <1>7, <1>10 DEF Owned, Vied
<1>11. ASSUME NEW i \in Jobs, i # j, job'[i].name = c.name, c.name # NoOne
       PROVE  job'[i].by = t \/ t \in job'[i].beside
  BY <1>4, <1>6, <1>11 DEF Owned, Vied
<1>12. Alike'
  <2>1. ASSUME NEW i \in Jobs, NEW k \in Jobs, i # k, job'[i].name = job'[k].name,
               job'[i].name # NoOne
        PROVE  \/ job'[i].by = job'[k].by
               \/ job'[i].by \in job'[k].beside \/ job'[k].by \in job'[i].beside
    <3>1. CASE i # j /\ k # j
      BY <1>6, <2>1, <3>1 DEF Owned, Alike
    <3>2. CASE i = j
      BY <1>6, <1>11, <2>1, <3>2
    <3>3. CASE k = j
      BY <1>6, <1>11, <2>1, <3>3
    <3> QED
      BY <3>1, <3>2, <3>3
  <2> QED
    BY <2>1 DEF Alike
<1> QED
  BY <1>8, <1>9, <1>10, <1>12 DEF Owned, Vied

LEMMA StepIsOwned == Typed /\ Owned /\ [Next]_vars => Owned'
<1> SUFFICES ASSUME Typed, Owned, [Next]_vars PROVE Owned'
  OBVIOUS
<1>1. \/ Transport \/ Begins
      \/ \E t \in Threads : Found(t) \/ Created(t) \/ Looked(t) \/ Walked(t)
  BY DEF Next, Step, Transport, Begins
<1> QED
  BY <1>1, TransportOwned, BeginsOwned, FoundOwned, CreatedOwned, AnsweredOwned

(* No call leaves more behind than it lost answers of, and only calls that *)
(* both looked before either created make two of a name.                   *)
THEOREM CreatesOnceButForLossOrRace == Spec => []CreatedTwiceOnlyByLossOrRace
<1>1. Spec => [](Typed /\ Owned)
  <2>1. Init => Typed /\ Owned
    BY InitIsTyped, InitIsOwned
  <2>2. (Typed /\ Owned) /\ [Next]_vars => (Typed /\ Owned)'
    BY StepIsTyped, StepIsOwned
  <2> QED
    BY <2>1, <2>2, PTL DEF Spec
<1> QED
  BY <1>1, OwnedIsCreatedTwice, PTL

-----------------------------------------------------------------------------
(* The jobs of a batch that Risk Modeler runs from the start are all known *)
(* to it: their listing does not change while it is cut into pages.        *)
Whole(w) == SetToSeq(ToSet(w) \cap Jobs)

(* Pages are the first n of a listing when a job in them was seen running  *)
(* or has ended.                                                           *)
Begun(l, s, n, js) ==
    /\ Len(s) = Min({n, Len(l)})
    /\ \A i \in 1..Len(s) : s[i].state = "running" \/ js[l[i]].state = "ended"

(* So are those of a poll so far. *)
InPages(c, js) == Begun(Whole(c.want), c.seen, c.off, js)

Polled(c, js) ==
    /\ c.kind \in Paged /\ c.step # "done" => InPages(c, js)
    /\ c.kind = "execute" /\ c.at = "look" => js[c.want[1]].state # "none"
    /\ c.kind \in Paged \cup {"execute"} /\ c.answer = "returned"
          => \A j \in ToSet(c.want) \cap Jobs : js[j].state = "ended"

(* The strengthening of what a poll promises. *)
Paging == \A t \in Threads : Polled(call[t], job)

LEMMA PagingIsReturned == Paging => ReturnedAfterAllEnded
  BY DEF Paging, Polled, ReturnedAfterAllEnded

(* A job does not end twice nor go away. *)
Grown(js, ks) ==
    \A j \in Jobs : /\ js[j].state = "ended" => ks[j].state = "ended"
                    /\ js[j].state # "none" => ks[j].state # "none"

(* A batch is one of ids that may be asked for. *)
LEMMA BatchKnown ==
    ASSUME NEW w \in Seq(Running \cup {Unlisted})
    PROVE  w \in Seq(Jobs \cup {Unlisted})
<1> DEFINE A == Running \cup {Unlisted}
           B == Jobs \cup {Unlisted}
<1>1. A \subseteq B /\ w \in Seq(A)
  BY ClientConstants
<1> HIDE DEF A, B
<1>2. w \in Seq(B)
  <2>1. Len(w) \in Nat /\ w \in [1..Len(w) -> A]
    BY <1>1
  <2>2. w \in [1..Len(w) -> B]
    BY <1>1, <2>1
  <2> QED
    BY <2>1, <2>2
<1> QED
  BY <1>2 DEF B

(* What a batch lists. *)
LEMMA WholeListed ==
    ASSUME JobsTyped, NEW w \in Seq(Running \cup {Unlisted}), Len(w) = 2
    PROVE  /\ Listed(w) = Whole(w) /\ Whole(w) \in Seq(Jobs) /\ Len(Whole(w)) \in Nat
           /\ Len(Whole(w)) <= 2 /\ ToSet(Whole(w)) = ToSet(w) \cap Jobs
           /\ \A j \in ToSet(Whole(w)) : job[j].state \in {"running", "ended"}
<1>1. w \in Seq(Jobs \cup {Unlisted}) /\ Running \subseteq Jobs /\ Unlisted \notin Jobs
  BY ClientConstants, BatchKnown
<1>2. ToSet(w) \cap Jobs \subseteq Running
  BY <1>1 DEF ToSet
<1>3. \A j \in ToSet(w) \cap Jobs : job[j].state \in {"running", "ended"}
  <2>1. \A j \in Running : job[j].state \in {"none", "running", "ended"} /\ job[j].state # "none"
    BY <1>1 DEF JobsTyped
  <2> QED
    BY <1>2, <2>1
<1>4. {j \in ToSet(w) \cap Jobs : job[j].state # "none"} = ToSet(w) \cap Jobs
  BY <1>3
<1>5. Listed(w) = Whole(w)
  BY <1>4 DEF Listed, Whole
<1>6. IsFiniteSet(ToSet(w)) /\ Cardinality(ToSet(w)) <= 2 /\ Cardinality(ToSet(w)) \in Nat
  BY <1>1, TwoIds
<1>7. /\ Listed(w) \in Seq(Jobs) /\ Len(Listed(w)) <= Cardinality(ToSet(w))
      /\ Len(Listed(w)) \in Nat
      /\ ToSet(Listed(w)) = {j \in ToSet(w) \cap Jobs : job[j].state # "none"}
  BY <1>6, ListsKnown
<1> HIDE DEF JobsTyped
<1> QED
  BY <1>3, <1>4, <1>5, <1>6, <1>7

(* The same whatever the jobs' states. *)
LEMMA WholeKnown ==
    ASSUME NEW w \in Seq(Running \cup {Unlisted}), Len(w) = 2
    PROVE  Whole(w) \in Seq(Jobs)
<1>1. w \in Seq(Jobs \cup {Unlisted})
  BY BatchKnown
<1>2. IsFiniteSet(ToSet(w))
  BY <1>1, TwoIds
<1>3. IsFiniteSet(ToSet(w) \cap Jobs)
  BY <1>2, FS_Intersection
<1>4. SetToSeq(ToSet(w) \cap Jobs) \in Seq(ToSet(w) \cap Jobs)
  BY <1>3, SetAsSeq
<1> QED
  BY <1>4 DEF Whole

(* A call that goes on keeps what it saw, and what it saw ended stays so.  *)
LEMMA PolledCarries ==
    ASSUME NEW t \in Threads, NEW c, Shaped(c, t), NEW js, Polled(c, js),
           NEW ks, Grown(js, ks), NEW d, Carries(c, d)
    PROVE  Polled(d, ks)
<1>1. /\ d.kind = c.kind /\ d.at = c.at /\ d.want = c.want /\ d.off = c.off /\ d.seen = c.seen
      /\ (c.step = "done" => d.step = "done" /\ d.answer = c.answer)
      /\ (d.answer = "returned" => c.step = "done")
  BY DEF Carries
<1>2. ASSUME d.kind \in Paged, d.step # "done" PROVE InPages(d, ks)
  <2>1. c.kind \in Paged /\ c.step # "done" /\ InPages(c, js)
    BY <1>1, <1>2 DEF Polled
  <2>2. c \in Calls /\ c.want \in Seq(Running \cup {Unlisted}) /\ Len(c.want) = 2
    BY <2>1 DEF Shaped, Polls
  <2>3. Whole(c.want) \in Seq(Jobs)
    BY <2>2, WholeKnown
  <2> DEFINE l == Whole(c.want)
  <2>4. c.off \in Nat /\ Len(l) \in Nat /\ l \in Seq(Jobs)
    BY <2>2, <2>3 DEF Calls
  <2> HIDE DEF l
  <2>5. Min({c.off, Len(l)}) <= Len(l)
    BY <2>4, LeastOfTwo
  <2>6. /\ Len(c.seen) = Min({c.off, Len(l)})
        /\ \A i \in 1..Len(c.seen) : c.seen[i].state = "running" \/ js[l[i]].state = "ended"
    BY <2>1 DEF InPages, Begun, l
  <2>7. \A i \in 1..Len(c.seen) : l[i] \in Jobs
    <3>1. Len(c.seen) \in Nat /\ Len(c.seen) <= Len(l)
      BY <2>2, <2>5, <2>6 DEF Calls, Listings
    <3> QED
      BY <2>4, <3>1
  <2>8. \A i \in 1..Len(c.seen) : c.seen[i].state = "running" \/ ks[l[i]].state = "ended"
    BY <2>6, <2>7 DEF Grown
  <2> QED
    BY ZenonT(60), <1>1, <2>6, <2>8 DEF InPages, Begun, l
<1>3. ASSUME d.kind = "execute", d.at = "look" PROVE ks[d.want[1]].state # "none"
  <2>1. c.want[1] \in Jobs /\ js[c.want[1]].state # "none"
    BY <1>1, <1>3 DEF Shaped, Polled
  <2> QED
    BY <1>1, <2>1 DEF Grown
<1>4. ASSUME d.kind \in Paged \cup {"execute"}, d.answer = "returned",
             NEW j \in ToSet(d.want) \cap Jobs
      PROVE  ks[j].state = "ended"
  <2>1. js[j].state = "ended"
    BY <1>1, <1>4 DEF Polled
  <2> QED
    BY <2>1 DEF Grown
<1> QED
  BY <1>2, <1>3, <1>4 DEF Polled

(* Polls are not concerned by the calls of another kind.                   *)
LEMMA NotPolled ==
    ASSUME NEW d, d.kind \notin Paged \cup {"execute"}, NEW js PROVE Polled(d, js)
  BY DEF Polled

(* The next page of a listing, and a listing of jobs that are known.       *)
PageFrom(l, o) == Status(SubSeq(l, o + 1, Min({o + Page, Len(l)})))
AllKnown(l) == \A j \in ToSet(l) : job[j].state \in {"running", "ended"}

(* What the next page makes of the pages so far: a longer beginning of the *)
(* listing, and all of it when the code takes the page for the last.       *)
LEMMA NextPage ==
    ASSUME JobsTyped, NEW l \in Seq(Jobs), AllKnown(l), NEW seen \in Listings, NEW off \in Nat,
           Begun(l, seen, off, job)
    PROVE  /\ PageFrom(l, off) \in Listings /\ seen \o PageFrom(l, off) \in Listings
           /\ Begun(l, seen \o PageFrom(l, off), off + Page, job)
           /\ PageFrom(l, off) = <<>> => Len(seen \o PageFrom(l, off)) = Len(l)
<1> DEFINE new == PageFrom(l, off)
           m == Min({off + Page, Len(l)})
           p == SubSeq(l, off + 1, m)
<1>0. Page \in Nat /\ Page > 0 /\ Len(l) \in Nat /\ off + Page \in Nat
  BY ClientConstants
<1>1. m \in Nat /\ m <= Len(l) /\ m = IF off + Page <= Len(l) THEN off + Page ELSE Len(l)
  BY <1>0, LeastOfTwo
<1>b. /\ Len(seen) = Min({off, Len(l)})
      /\ \A i \in 1..Len(seen) : seen[i].state = "running" \/ job[l[i]].state = "ended"
  BY DEF Begun
<1>2. Len(seen) \in Nat /\ Len(seen) = IF off <= Len(l) THEN off ELSE Len(l)
  BY <1>0, <1>b, LeastOfTwo
<1>4. new = Status(p)
  BY DEF PageFrom
<1> HIDE DEF new
<1> HIDE DEF m
<1>3. /\ p \in Seq(Jobs) /\ Len(p) = (IF off <= m THEN m - off ELSE 0)
      /\ \A i \in 1..Len(p) : p[i] = l[off + i]
  BY <1>1, Slice
<1> HIDE DEF p
<1>5. new \in Listings /\ Len(new) = Len(p) /\ DOMAIN new = 1..Len(p)
  BY <1>3, <1>4, StatusTyped
<1>6. \A i \in 1..Len(p) : new[i].state = job[l[off + i]].state
  <2>1. DOMAIN p = 1..Len(p)
    BY <1>3
  <2>2. \A i \in 1..Len(p) : new[i] = [id |-> p[i], state |-> job[p[i]].state]
    BY <1>4, <2>1 DEF Status
  <2>3. ASSUME NEW i \in 1..Len(p) PROVE new[i].state = job[p[i]].state
    <3>1. new[i] = [id |-> p[i], state |-> job[p[i]].state]
      BY <2>2
    <3> QED
      BY <3>1
  <2> QED
    BY <1>3, <2>3
<1>7. \A i \in 1..Len(l) : l[i] \in Jobs /\ job[l[i]].state \in {"running", "ended"}
  BY DEF AllKnown, ToSet
<1> DEFINE R == Rows \cup Seen
<1>8. seen \in Seq(R) /\ new \in Seq(R)
  BY <1>5 DEF Listings
<1> HIDE DEF R
<1>9. /\ seen \o new \in Seq(R) /\ Len(seen \o new) = Len(seen) + Len(new)
      /\ \A i \in 1..(Len(seen) + Len(new)) :
            (seen \o new)[i] = IF i <= Len(seen) THEN seen[i] ELSE new[i - Len(seen)]
  BY <1>8, ConcatProperties
<1>10. Len(seen) + Len(new) = m
  <2>1. CASE off <= Len(l)
    <3>1. off <= m
      BY <1>0, <1>1, <2>1
    <3>2. Len(new) = m - off
      BY <1>3, <1>5, <3>1
    <3>3. Len(seen) = off
      BY <1>2, <2>1
    <3> QED
      BY <1>1, <3>2, <3>3
  <2>2. CASE ~(off <= Len(l))
    <3>1. m = Len(l) /\ ~(off <= m)
      BY <1>0, <1>1, <2>2
    <3>2. Len(new) = 0
      BY <1>3, <1>5, <3>1
    <3>3. Len(seen) = Len(l)
      BY <1>2, <2>2
    <3> QED
      BY <1>0, <3>1, <3>2, <3>3
  <2> QED
    BY <2>1, <2>2
<1>11. ASSUME NEW i \in 1..m
       PROVE  (seen \o new)[i].state = "running" \/ job[l[i]].state = "ended"
  <2>1. CASE i <= Len(seen)
    <3>1. i \in 1..Len(seen) /\ (seen \o new)[i] = seen[i]
      BY <1>2, <1>9, <1>10, <2>1
    <3> QED
      BY <1>b, <3>1
  <2>2. CASE ~(i <= Len(seen))
    <3>1. off <= Len(l) /\ Len(seen) = off
      BY <1>0, <1>1, <1>2, <2>2
    <3>2. i - off \in 1..Len(p) /\ off + (i - off) = i /\ (seen \o new)[i] = new[i - off]
      BY SMTT(60), <1>1, <1>2, <1>3, <1>9, <1>10, <2>2, <3>1
    <3>3. new[i - off].state = job[l[i]].state
      BY <1>6, <3>2
    <3>4. job[l[i]].state \in {"running", "ended"}
      BY <1>1, <1>7
    <3> QED
      BY <3>2, <3>3, <3>4
  <2> QED
    BY <2>1, <2>2
<1>12. ASSUME new = <<>> PROVE m = Len(l)
  BY <1>0, <1>1, <1>2, <1>3, <1>5, <1>10, <1>12
<1>13. seen \o new \in Listings
  BY <1>9 DEF R, Listings
<1> QED
  <2>1. Begun(l, seen \o new, off + Page, job)
    BY <1>9, <1>10, <1>11 DEF Begun, m
  <2> QED
    BY <1>5, <1>9, <1>10, <1>12, <1>13, <2>1 DEF new

(* A poll that returns after such pages saw the whole batch end. *)
LEMMA AllSeenEnded ==
    ASSUME NEW l \in Seq(Jobs), NEW s \in Listings, Len(s) = Len(l), AllEnded(s),
           \A i \in 1..Len(s) : s[i].state = "running" \/ job[l[i]].state = "ended"
    PROVE  \A j \in ToSet(l) : job[j].state = "ended"
<1>1. \A i \in 1..Len(l) : job[l[i]].state = "ended"
  BY DEF AllEnded, Listings
<1> QED
  BY <1>1 DEF ToSet

LEMMA LookedPagePolled ==
    ASSUME Typed, NEW t \in Threads, NEW c, Shaped(c, t), c.step = "flight", c.kind \in Paged,
           Polled(c, job)
    PROVE  Polled(LookedPage(c), job)
<1> DEFINE l   == Whole(c.want)
           new == PageFrom(l, c.off)
           s   == c.seen \o new
           k   == Min({c.off + Page, Len(c.want)})
           d   == LookedPage(c)
<1> SUFFICES Polled(d, job)
  OBVIOUS
<1>1. /\ c \in Calls /\ Len(c.want) = 2 /\ c.want \in Seq(Running \cup {Unlisted})
      /\ c.off \in Nat /\ c.off <= Len(c.want) /\ Page \in Nat /\ Page > 0 /\ c.seen \in Listings
      /\ c.answer = "none"
  BY ClientConstants DEF Shaped, Calls, Polls
<1>2. /\ Listed(c.want) = l /\ l \in Seq(Jobs) /\ Len(l) \in Nat /\ Len(l) <= 2
      /\ ToSet(l) = ToSet(c.want) \cap Jobs
      /\ \A j \in ToSet(l) : job[j].state \in {"running", "ended"}
  BY <1>1, WholeListed DEF Typed
<1>3. Begun(l, c.seen, c.off, job) /\ AllKnown(l)
  BY <1>2 DEF Polled, InPages, AllKnown
<1>4. \/ d = Returns(c, new) /\ LastPage(c, s, new) /\ AllEnded(s)
      \/ d = Returns(c, s) /\ LastPage(c, s, new) /\ AllEnded(s)
      \/ d = Raises(c, "late")
      \/ d = LooksOn(c, 0, <<>>)
      \/ d = LooksOn(c, k, s)
  BY <1>2 DEF LookedPage, PageFrom, Round, LooksOn
<1> HIDE DEF l
<1>5. /\ new \in Listings /\ s \in Listings
      /\ Len(s) = Min({c.off + Page, Len(l)})
      /\ \A i \in 1..Len(s) : s[i].state = "running" \/ job[l[i]].state = "ended"
      /\ (new = <<>> => Len(s) = Len(l))
  <2>1. JobsTyped
    BY DEF Typed
  <2>2. Begun(l, s, c.off + Page, job) /\ new \in Listings /\ s \in Listings
        /\ (new = <<>> => Len(s) = Len(l))
    BY <1>1, <1>2, <1>3, <2>1, NextPage
  <2> HIDE DEF new, s
  <2> QED
    BY <2>2 DEF Begun
<1> HIDE DEF new, s, d, k
<1>6. k \in Nat /\ k = IF c.off + Page <= 2 THEN c.off + Page ELSE 2
  BY <1>1, LeastOfTwo DEF k
<1>7. Len(s) \in Nat /\ Len(s) = IF c.off + Page <= Len(l) THEN c.off + Page ELSE Len(l)
  <2>1. c.off + Page \in Nat
    BY <1>1
  <2>2. Min({c.off + Page, Len(l)}) = IF c.off + Page <= Len(l) THEN c.off + Page ELSE Len(l)
    BY <1>2, <2>1, LeastOfTwo
  <2> QED
    BY <1>2, <1>5, <2>1, <2>2
<1>a. c \in Calls /\ s \in Listings /\ new \in Listings /\ <<>> \in Listings /\ 0 \in Nat /\ k \in Nat
  BY <1>1, <1>5, <1>6, NothingListed
<1>8. CASE /\ d = Returns(c, new) \/ d = Returns(c, s)
           /\ LastPage(c, s, new) /\ AllEnded(s)
  <2>1. Len(s) = Len(l)
    <3>1. Len(s) >= Len(l)
      BY <1>1, <1>2, <1>5, <1>7, <1>8 DEF LastPage
    <3> QED
      BY <1>2, <1>7, <3>1
  <2>2. \A j \in ToSet(l) : job[j].state = "ended"
    BY <1>2, <1>5, <1>8, <2>1, AllSeenEnded
  <2>3. d.kind = c.kind /\ d.want = c.want /\ d.step = "done"
    BY <1>a, <1>8, ReturnsFields
  <2> QED
    BY <1>2, <2>2, <2>3 DEF Polled, Paged
<1>9. CASE d = Raises(c, "late")
  <2>1. d.step = "done" /\ d.kind = c.kind /\ d.answer = "late"
    BY <1>1, <1>9, RaisesFields, KnownWaits
  <2> QED
    BY <2>1 DEF Polled, Paged
<1>10. CASE d = LooksOn(c, 0, <<>>)
  <2> DEFINE o == 0
             v == <<>>
  <2>0. o \in Nat /\ v \in Listings /\ d = LooksOn(c, o, v)
    BY <1>a, <1>10
  <2> HIDE DEF o, v
  <2>1. d.kind = c.kind /\ d.want = c.want /\ d.off = 0 /\ d.seen = <<>> /\ d.answer = "none"
    <3>1. /\ d.kind = c.kind /\ d.want = c.want /\ d.off = o /\ d.seen = v
          /\ d.answer = c.answer
      BY SMTT(60), <1>a, <2>0, LooksOnFields
    <3> QED
      BY <1>1, <3>1 DEF o, v
  <2>2. Min({0, Len(l)}) = 0
    BY SMTT(60), <1>2, LeastOfTwo
  <2>3. InPages(d, job)
    BY <2>1, <2>2 DEF InPages, Begun, l
  <2> QED
    BY <2>1, <2>3 DEF Polled, Paged
<1>11. CASE d = LooksOn(c, k, s)
  <2>1. d.kind = c.kind /\ d.want = c.want /\ d.off = k /\ d.seen = s /\ d.answer = "none"
    <3>1. /\ d.kind = c.kind /\ d.want = c.want /\ d.off = k /\ d.seen = s
          /\ d.answer = c.answer
      BY <1>a, <1>11, LooksOnFields
    <3> QED
      BY <1>1, <3>1
  <2>2. Min({k, Len(l)}) = IF k <= Len(l) THEN k ELSE Len(l)
    BY <1>2, <1>6, LeastOfTwo
  <2>3. Len(s) = Min({k, Len(l)})
    BY <1>1, <1>2, <1>6, <1>7, <2>2
  <2>4. InPages(d, job)
    BY <1>5, <2>1, <2>3 DEF InPages, Begun, l
  <2> QED
    BY <2>1, <2>4 DEF Polled, Paged
<1> QED
  BY <1>4, <1>8, <1>9, <1>10, <1>11 DEF d

LEMMA LookedOncePolled ==
    ASSUME Typed, NEW t \in Threads, NEW c, Shaped(c, t), c.step = "flight", c.at = "look",
           c.kind = "execute", Polled(c, job)
    PROVE  Polled(LookedOnce(c), job)
<1> DEFINE d == LookedOnce(c)
           s == Status(c.want)
<1>1. c \in Calls /\ Len(c.want) = 1 /\ c.want[1] \in Jobs /\ c.answer = "none"
  BY DEF Shaped
<1>2. \/ d = Returns(c, s) /\ job[c.want[1]].state = "ended"
      \/ d = Raises(c, "late")
      \/ d = LooksOn(c, 0, <<>>)
  BY DEF LookedOnce, Round, LooksOn
<1>3. job[c.want[1]].state # "none"
  BY DEF Polled
<1> HIDE DEF d, s
<1>4. /\ d.kind = "execute" /\ d.want = c.want
      /\ d.answer = "returned" => job[c.want[1]].state = "ended"
  <2>1. CASE d = Returns(c, s) /\ job[c.want[1]].state = "ended"
    BY <1>1, <2>1 DEF Returns, Raises, Calls
  <2>2. CASE d = Raises(c, "late")
    BY <1>1, <2>2 DEF Raises, Calls
  <2>3. CASE d = LooksOn(c, 0, <<>>)
    BY <1>1, <2>3 DEF LooksOn, Asks, Calls
  <2> QED
    BY <1>2, <2>1, <2>2, <2>3
<1>5. \A j \in ToSet(c.want) : j = c.want[1]
  BY <1>1 DEF ToSet, Calls
<1>6. Polled(d, job)
  BY <1>3, <1>4, <1>5 DEF Polled, Paged
<1> QED
  BY <1>6 DEF d

(* One call moves, the others and the jobs it may have are as they were.   *)
LEMMA OneCallPaging ==
    ASSUME Typed, Paging, Grown(job, job'), NEW t \in Threads, NEW d,
           call' = [call EXCEPT ![t] = d], Polled(d, job')
    PROVE  Paging'
<1>1. call'[t] = d /\ \A u \in Threads : u # t => call'[u] = call[u]
  BY DEF Typed, CallsShaped
<1>2. ASSUME NEW u \in Threads, u # t PROVE Polled(call[u], job')
  <2>1. Shaped(call[u], u) /\ Polled(call[u], job) /\ (call[u].answer = "none") = (call[u].step # "done")
    BY DEF Typed, CallsShaped, Paging, Shaped
  <2>2. Carries(call[u], call[u])
    BY <2>1 DEF Carries
  <2> QED
    BY <2>1, <2>2, PolledCarries
<1>3. \A u \in Threads : Polled(call'[u], job')
  BY <1>1, <1>2
<1> QED
  BY <1>3 DEF Paging, Polled, InPages, Begun, Whole

LEMMA SameGrown ==
    ASSUME Typed, \/ UNCHANGED job
                  \/ \E j \in Jobs : Ends(j)
    PROVE  Grown(job, job')
  BY DEF Typed, JobsTyped, Ends, Grown

LEMMA TransportPaging ==
    ASSUME Typed, Paging, Transport PROVE Paging'
<1>1. Grown(job, job')
  BY SameGrown DEF Transport, Send, NotServed, Unauthorized, Refused, LoggedIn, Late,
     RowsChange, Expires, vars
<1>2. ASSUME NEW t \in Threads PROVE Polled(call'[t], job')
  <2>1. Shaped(call[t], t) /\ Polled(call[t], job) /\ Carries(call[t], call'[t])
    BY TransportCarries DEF Typed, CallsShaped, Paging
  <2> QED
    BY <1>1, <2>1, PolledCarries
<1> QED
  BY <1>2 DEF Paging, Polled, InPages, Begun, Whole

LEMMA LookedPaging ==
    ASSUME Typed, Paging, NEW t \in Threads, Looked(t) PROVE Paging'
<1>1. PICK d : /\ call' = [call EXCEPT ![t] = d]
               /\ \/ call[t].kind = "execute" /\ d = LookedOnce(call[t])
                  \/ call[t].kind = "each" /\ d = LookedEach(call[t])
                  \/ call[t].kind \notin {"execute", "each"} /\ d = LookedPage(call[t])
  BY LookedMoves
<1>2. /\ Shaped(call[t], t) /\ call[t].step = "flight" /\ call[t].at = "look"
      /\ Polled(call[t], job) /\ UNCHANGED job
  BY DEF Looked, Typed, CallsShaped, Paging
<1>3. call[t].kind \in Paged \cup {"each", "execute"}
  BY <1>2 DEF Shaped, Polls
<1>4. Polled(d, job)
  <2>1. CASE call[t].kind = "execute"
    BY <1>1, <1>2, <2>1, LookedOncePolled
  <2>2. CASE call[t].kind = "each"
    <3>1. PICK e : call' = [call EXCEPT ![t] = e] /\ Answered(call[t], e)
      BY LookedAnswers
    <3>2. d.kind = "each"
      BY <1>1, <2>2, <3>1 DEF Answered, Typed, CallsShaped
    <3> QED
      BY <3>2, NotPolled DEF Paged
  <2>3. CASE call[t].kind \in Paged
    BY <1>1, <1>2, <2>3, LookedPagePolled DEF Paged
  <2> QED
    BY <1>3, <2>1, <2>2, <2>3
<1> QED
  BY <1>1, <1>2, <1>4, OneCallPaging, SameGrown

LEMMA BeginsPaging ==
    ASSUME Typed, Paging, Begins PROVE Paging'
<1>1. PICK t \in Threads : GetOrCreate(t) \/ Execute(t) \/ PollBatch(t) \/ Search(t)
  BY DEF Begins
<1>2. call[t] = NoCall /\ UNCHANGED job
  BY <1>1 DEF GetOrCreate, Execute, PollBatch, Search, Typed, CallsShaped, Shaped
<1>3. CASE GetOrCreate(t)
  <2>1. PICK n \in Names : call' = [call EXCEPT ![t] =
                Asks([@ EXCEPT !.kind = "named", !.name = n], "find")]
    BY <1>3 DEF GetOrCreate
  <2> DEFINE d == Asks([NoCall EXCEPT !.kind = "named", !.name = n], "find")
  <2>2. call' = [call EXCEPT ![t] = d] /\ d.kind = "named"
    BY <1>2, <2>1 DEF Asks, NoCall
  <2> HIDE DEF d
  <2>3. Polled(d, job')
    BY <2>2, NotPolled DEF Paged
  <2> QED
    BY <1>2, <2>2, <2>3, OneCallPaging, SameGrown
<1>4. CASE Execute(t)
  <2> DEFINE d == Asks([NoCall EXCEPT !.kind = "execute"], "create")
  <2>2. /\ call' = [call EXCEPT ![t] = d] /\ d.kind = "execute" /\ d.at = "create"
        /\ d.answer = "none"
    BY <1>2, <1>4 DEF Execute, Asks, NoCall
  <2> HIDE DEF d
  <2>3. Polled(d, job')
    BY <2>2 DEF Polled, Paged
  <2> QED
    BY <1>2, <2>2, <2>3, OneCallPaging, SameGrown
<1>5. CASE PollBatch(t)
  <2>1. PICK k \in Polls, i \in Running \cup {Unlisted}, j \in Running \cup {Unlisted} :
                call' = [call EXCEPT ![t] =
                           Asks([@ EXCEPT !.kind = k, !.want = <<i, j>>], "look")]
    BY <1>5 DEF PollBatch, Polls
  <2> DEFINE d == Asks([NoCall EXCEPT !.kind = k, !.want = <<i, j>>], "look")
  <2>2. /\ call' = [call EXCEPT ![t] = d] /\ d.kind = k /\ d.want = <<i, j>> /\ d.off = 0
        /\ d.seen = <<>> /\ d.answer = "none"
    BY <1>2, <2>1 DEF Asks, NoCall
  <2> HIDE DEF d
  <2>3. <<i, j>> \in Seq(Running \cup {Unlisted}) /\ Len(<<i, j>>) = 2
    OBVIOUS
  <2>4. Len(Whole(d.want)) \in Nat /\ Min({0, Len(Whole(d.want))}) = 0
    <3>1. Whole(d.want) \in Seq(Jobs)
      BY <2>2, <2>3, WholeKnown
    <3> DEFINE n == Len(Whole(d.want))
    <3>2. n \in Nat
      BY <3>1
    <3> HIDE DEF n
    <3>3. Min({0, n}) = 0
      BY <3>2, LeastOfTwo
    <3> QED
      BY <3>2, <3>3 DEF n
  <2>5. InPages(d, job')
    BY <2>2, <2>4 DEF InPages, Begun
  <2>6. Polled(d, job')
    BY <2>2, <2>5 DEF Polled, Polls, Paged
  <2> QED
    BY <1>2, <2>2, <2>6, OneCallPaging, SameGrown
<1>6. CASE Search(t)
  <2> DEFINE d == Asks([NoCall EXCEPT !.kind = "search", !.kept = ToSet(rows.list)], "walk")
  <2>2. call' = [call EXCEPT ![t] = d] /\ d.kind = "search"
    BY <1>2, <1>6 DEF Search, Asks, NoCall
  <2> HIDE DEF d
  <2>3. Polled(d, job')
    BY <2>2, NotPolled DEF Paged
  <2> QED
    BY <1>2, <2>2, <2>3, OneCallPaging, SameGrown
<1> QED
  BY <1>1, <1>3, <1>4, <1>5, <1>6

(* A name that is looked up, or a search, is not a poll. *)
LEMMA OthersPaging ==
    ASSUME Typed, Paging, NEW t \in Threads, Found(t) \/ Walked(t) PROVE Paging'
<1>1. UNCHANGED job
  BY DEF Found, Walked
<1>2. PICK d : call' = [call EXCEPT ![t] = d] /\ d.kind = call[t].kind
  <2>1. CASE Found(t)
    <3> DEFINE c == call[t]
    <3>1. /\ c \in Calls
          /\ call' = [call EXCEPT ![t] = IF Named(c.name) # {} THEN Returns(c, <<>>)
                                         ELSE Asks(c, "create")]
      BY <2>1 DEF Found, Typed, CallsShaped, Shaped
    <3> HIDE DEF c
    <3>2. Returns(c, <<>>).kind = c.kind /\ Asks(c, "create").kind = c.kind
      BY <3>1 DEF Returns, Raises, Asks, Calls
    <3>3. PICK e : call' = [call EXCEPT ![t] = e] /\ e.kind = c.kind
      BY <3>1, <3>2
    <3> QED
      BY <3>3 DEF c
  <2>2. CASE Walked(t)
    BY <2>2, WalkedAnswers DEF Answered
  <2> QED
    BY <2>1, <2>2
<1>3. call[t].kind \in {"named", "search"}
  BY DEF Found, Walked, Typed, CallsShaped, Shaped
<1>4. Polled(d, job')
  BY <1>2, <1>3, NotPolled DEF Paged
<1> QED
  BY <1>1, <1>2, <1>4, OneCallPaging, SameGrown

(* What is created is known from then on, and has ended if it is returned. *)
LEMMA CreatedPaging ==
    ASSUME Typed, Paging, NEW t \in Threads, Created(t) PROVE Paging'
<1> DEFINE c == call[t]
<1>1. PICK j \in Jobs, s \in {"running", "ended"} : \E d :
              /\ job[j].state = "none"
              /\ job' = [job EXCEPT ![j] = [state |-> s, by |-> t, name |-> c.name,
                                           beside |-> Creating]]
              /\ call' = [call EXCEPT ![t] = d]
              /\ \/ d = Repeat(c, 1)
                 \/ d = Raises([c EXCEPT !.unheard = @ + 1], "unavailable")
                 \/ s = "ended" /\ d = Returns([c EXCEPT !.want = <<j>>], <<>>)
                 \/ d = Asks([c EXCEPT !.want = <<j>>], "look")
  BY CreatedMoves
<1>2. PICK d :
              /\ job[j].state = "none"
              /\ job' = [job EXCEPT ![j] = [state |-> s, by |-> t, name |-> c.name,
                                           beside |-> Creating]]
              /\ call' = [call EXCEPT ![t] = d]
              /\ \/ d = Repeat(c, 1)
                 \/ d = Raises([c EXCEPT !.unheard = @ + 1], "unavailable")
                 \/ s = "ended" /\ d = Returns([c EXCEPT !.want = <<j>>], <<>>)
                 \/ d = Asks([c EXCEPT !.want = <<j>>], "look")
  BY <1>1
<1>3. /\ c \in Calls /\ c.kind \in {"named", "execute"} /\ c.at = "create" /\ c.answer = "none"
  BY DEF Created, Typed, CallsShaped, Shaped
<1>4. job'[j].state = s /\ \A i \in Jobs : i # j => job'[i] = job[i]
  BY <1>2 DEF Typed, JobsTyped
<1>5. Grown(job, job')
  BY <1>2, <1>4 DEF Grown
<1> HIDE DEF c
<1>6. Polled(d, job')
  <2>1. CASE d = Repeat(c, 1) \/ d = Raises([c EXCEPT !.unheard = @ + 1], "unavailable")
    <3>1. d.kind = c.kind /\ d.at = "create" /\ d.answer # "returned"
      BY <1>3, <2>1 DEF Repeat, Raises, Calls
    <3> QED
      BY <1>3, <3>1 DEF Polled, Paged
  <2>2. CASE s = "ended" /\ d = Returns([c EXCEPT !.want = <<j>>], <<>>)
    <3>1. d.kind = c.kind /\ d.at = "create" /\ d.want = <<j>>
      BY <1>3, <2>2 DEF Returns, Raises, Calls
    <3>2. ToSet(<<j>>) = {j}
      BY DEF ToSet
    <3> QED
      BY <1>3, <1>4, <2>2, <3>1, <3>2 DEF Polled, Paged
  <2>3. CASE d = Asks([c EXCEPT !.want = <<j>>], "look")
    <3>1. d.kind = c.kind /\ d.want = <<j>> /\ d.answer = "none"
      BY <1>3, <2>3 DEF Asks, Calls
    <3>2. <<j>>[1] = j
      OBVIOUS
    <3> QED
      BY <1>3, <1>4, <3>1, <3>2 DEF Polled, Paged
  <2> QED
    BY <1>2, <2>1, <2>2, <2>3
<1> QED
  BY <1>2, <1>5, <1>6, OneCallPaging

LEMMA StepKeepsPaging == Typed /\ Paging /\ [Next]_vars => Paging'
<1> SUFFICES ASSUME Typed, Paging, [Next]_vars PROVE Paging'
  OBVIOUS
<1>1. \/ Transport \/ Begins
      \/ \E t \in Threads : Found(t) \/ Created(t) \/ Looked(t) \/ Walked(t)
  BY DEF Next, Step, Transport, Begins
<1> QED
  BY <1>1, TransportPaging, BeginsPaging, CreatedPaging, LookedPaging, OthersPaging

LEMMA InitIsPaging == Init => Paging
  BY DEF Init, NoCall, Paging, Polled, Paged

(* A batch poll, whatever jobs end between its pages, and the poll of one  *)
(* workflow return only when every job they asked for has ended.           *)
THEOREM ReturnsOnlyAfterAllEnded == Spec => []ReturnedAfterAllEnded
<1>1. Spec => [](Typed /\ Paging)
  <2>1. Init => Typed /\ Paging
    BY InitIsTyped, InitIsPaging
  <2>2. (Typed /\ Paging) /\ [Next]_vars => (Typed /\ Paging)'
    BY StepIsTyped, StepKeepsPaging
  <2> QED
    BY <2>1, <2>2, PTL DEF Spec
<1> QED
  BY <1>1, PagingIsReturned, PTL

-----------------------------------------------------------------------------
(* A search has every row it must keep among those before its next page,   *)
(* when the server takes the offset for what it is; and has them all when  *)
(* it returns.                                                             *)
Behind(c, list, server) ==
    /\ c.kind = "search" /\ c.step # "done"
          => /\ c.kept \subseteq ToSet(list)
             /\ server \in {"records", "clamps"}
                  => \A p \in 1..Len(list) :
                        list[p] \in c.kept /\ p <= c.off * Limit => list[p] \in ToSet(c.seen)
    /\ c.kind = "search" /\ c.answer = "returned" /\ server # "pages"
          => c.kept \subseteq ToSet(c.seen)

(* The strengthening of what a search promises. *)
Walking == \A t \in Threads : Behind(call[t], rows.list, process.server)

LEMMA WalkingIsSearch == Walking => SearchMissesOnlyBehindAGap
  BY DEF Walking, Behind, SearchMissesOnlyBehindAGap

(* What is listed in a sequence of two parts.                              *)
LEMMA PartsHold ==
    ASSUME NEW S, NEW a \in Seq(S), NEW b \in Seq(S)
    PROVE  ToSet(a) \subseteq ToSet(a \o b) /\ ToSet(b) \subseteq ToSet(a \o b)
<1>1. /\ a \o b \in Seq(S) /\ Len(a \o b) = Len(a) + Len(b)
      /\ \A i \in 1..(Len(a) + Len(b)) : (a \o b)[i] = IF i <= Len(a) THEN a[i] ELSE b[i - Len(a)]
  BY ConcatProperties
<1>2. ASSUME NEW i \in 1..Len(a) PROVE a[i] \in ToSet(a \o b)
  <2>1. i \in 1..Len(a \o b) /\ (a \o b)[i] = a[i]
    BY <1>1
  <2>2. DOMAIN (a \o b) = 1..Len(a \o b)
    BY <1>1
  <2> QED
    BY <2>1, <2>2 DEF ToSet
<1>3. ASSUME NEW i \in 1..Len(b) PROVE b[i] \in ToSet(a \o b)
  <2>1. /\ Len(a) + i \in 1..Len(a \o b) /\ ~(Len(a) + i <= Len(a)) /\ (Len(a) + i) - Len(a) = i
    BY <1>1
  <2>2. (a \o b)[Len(a) + i] = b[i]
    BY <1>1, <2>1
  <2>3. DOMAIN (a \o b) = 1..Len(a \o b)
    BY <1>1
  <2> QED
    BY <2>1, <2>2, <2>3 DEF ToSet
<1>4. DOMAIN a = 1..Len(a) /\ DOMAIN b = 1..Len(b)
  OBVIOUS
<1>5. ToSet(a) = {a[i] : i \in 1..Len(a)} /\ ToSet(b) = {b[i] : i \in 1..Len(b)}
  BY <1>4 DEF ToSet
<1> QED
  BY <1>2, <1>3, <1>5

(* The rows a page from an offset on shows, and what a page of another     *)
(* length than the limit says.                                             *)
LEMMA PageShows ==
    ASSUME NEW S, NEW list \in Seq(S), NEW o \in Nat
    PROVE  LET page == SubSeq(list, o + 1, Min({o + Limit, Len(list)})) IN
           /\ \A p \in 1..Len(list) : o < p /\ p <= o + Limit => list[p] \in ToSet(page)
           /\ Len(page) # Limit => Len(list) <= o + Limit
           /\ Len(page) <= Limit
<1> DEFINE m == Min({o + Limit, Len(list)})
           page == SubSeq(list, o + 1, m)
<1>0. Limit \in Nat /\ Limit > 0 /\ Len(list) \in Nat /\ o + Limit \in Nat
  BY ClientConstants
<1>1. m \in Nat /\ m <= Len(list) /\ m = IF o + Limit <= Len(list) THEN o + Limit ELSE Len(list)
  BY <1>0, LeastOfTwo
<1> HIDE DEF m
<1>3. /\ page \in Seq(S) /\ Len(page) = (IF o <= m THEN m - o ELSE 0)
      /\ \A i \in 1..Len(page) : page[i] = list[o + i]
  BY <1>1, Slice
<1> HIDE DEF page
<1>4. ASSUME NEW p \in 1..Len(list), o < p, p <= o + Limit PROVE list[p] \in ToSet(page)
  <2>1. p - o \in 1..Len(page) /\ o + (p - o) = p
    BY <1>0, <1>1, <1>3, <1>4
  <2>2. page[p - o] = list[p] /\ p - o \in DOMAIN page
    BY <1>3, <2>1
  <2> QED
    BY <2>2 DEF ToSet
<1>5. Len(page) <= Limit /\ (Len(page) # Limit => Len(list) <= o + Limit)
  <2>1. Len(page) <= Limit
    BY <1>0, <1>1, <1>3
  <2>2. ASSUME ~(Len(list) <= o + Limit) PROVE Len(page) = Limit
    <3>1. m = o + Limit /\ o <= m
      BY <1>0, <1>1, <2>2
    <3>2. Len(page) = m - o
      BY <1>3, <3>1
    <3> QED
      BY <1>0, <3>1, <3>2
  <2> QED
    BY <2>1, <2>2
<1> QED
  BY <1>4, <1>5 DEF page, m

(* A page from a server that takes the offset for what it is shows all of  *)
(* the list from there on but what the limit cuts off.                     *)
LEMMA PageOfRecords ==
    ASSUME Typed, process.server \in {"records", "clamps"}, NEW list \in Seq(Rows), NEW o \in Nat
    PROVE  /\ \A p \in 1..Len(list) :
                 o < p /\ p <= o + Limit => list[p] \in ToSet(PageOf(list, o))
           /\ Len(PageOf(list, o)) # Limit => Len(list) <= o + Limit
<1>0. Limit \in Nat /\ Len(list) \in Nat
  BY ClientConstants
<1>1. CASE process.server = "clamps" /\ o >= Len(list) /\ list # <<>>
  BY <1>0, <1>1
<1>2. CASE ~(process.server = "clamps" /\ o >= Len(list) /\ list # <<>>)
  <2>1. PageOf(list, o) = SubSeq(list, o + 1, Min({o + Limit, Len(list)}))
    BY <1>2 DEF PageOf
  <2> QED
    BY <2>1, PageShows
<1> QED
  BY <1>1, <1>2

(* A page from one that does not is the first, or everything.              *)
LEMMA PageOfOthers ==
    ASSUME Typed, process.server \in {"stuck", "ignores"}, NEW list \in Seq(Rows), NEW o \in Nat,
           Len(PageOf(list, o)) # Limit
    PROVE  ToSet(list) \subseteq ToSet(PageOf(list, o))
<1>1. CASE process.server = "ignores"
  BY <1>1 DEF PageOf
<1>2. CASE process.server = "stuck"
  <2> DEFINE z == 0
  <2>1. PageOf(list, o) = SubSeq(list, z + 1, Min({z + Limit, Len(list)}))
    BY <1>2 DEF PageOf
  <2>2. z \in Nat
    OBVIOUS
  <2> HIDE DEF z
  <2>3. /\ \A p \in 1..Len(list) : z < p /\ p <= z + Limit => list[p] \in ToSet(PageOf(list, o))
        /\ Len(list) <= z + Limit
    BY <2>1, <2>2, PageShows
  <2>4. \A p \in 1..Len(list) : list[p] \in ToSet(PageOf(list, o))
    BY <2>3, ClientConstants DEF z
  <2> QED
    BY <2>4 DEF ToSet
<1> QED
  BY <1>1, <1>2

(* A page leaves no row behind that must be kept, but behind a raise. *)
LEMMA WalkBehind ==
    ASSUME Typed, NEW t \in Threads, NEW c, Shaped(c, t), c.at = "walk", c.step = "flight",
           NEW list \in Seq(Rows), NEW o, o = c.off * Limit, Behind(c, list, process.server),
           NEW page, page = PageOf(list, o), page \in Seq(Rows)
    PROVE  Behind(Walk(c, page), list, process.server)
<1> DEFINE s == c.seen \o page
           d == Walk(c, page)
           v == process.server
<1> SUFFICES Behind(d, list, v)
  OBVIOUS
<1>0. /\ c \in Calls /\ c.off \in Nat /\ Limit \in Nat /\ c.kind = "search" /\ c.answer = "none"
      /\ Len(list) \in Nat /\ Len(page) \in Nat /\ c.seen \in Listings
  BY ClientConstants DEF Shaped, Calls
<1>1. o \in Nat /\ (c.off + 1) * Limit = o + Limit /\ (c.off = 0 => o = 0)
  BY <1>0
<1>2. v \in {"records", "pages", "clamps", "stuck", "ignores"}
  BY ClientConstants DEF Typed
<1>3. ToSet(c.seen) \subseteq ToSet(s) /\ ToSet(page) \subseteq ToSet(s) /\ s \in Listings
  <2> DEFINE R == Rows \cup Seen
  <2>1. c.seen \in Seq(R)
    BY <1>0 DEF Listings
  <2>2. page \in Seq(R)
    BY <1>0
  <2> HIDE DEF R
  <2>3. ToSet(c.seen) \subseteq ToSet(s) /\ ToSet(page) \subseteq ToSet(s)
    BY <2>1, <2>2, PartsHold
  <2>4. s \in Seq(R)
    BY <2>1, <2>2
  <2> QED
    BY <2>3, <2>4 DEF Listings, R
<1>4. /\ c.kept \subseteq ToSet(list)
      /\ v \in {"records", "clamps"}
            => \A p \in 1..Len(list) : list[p] \in c.kept /\ p <= o => list[p] \in ToSet(c.seen)
  BY <1>0 DEF Behind
<1>5. v \in {"records", "clamps"}
         => \A p \in 1..Len(list) : list[p] \in c.kept /\ p <= o + Limit => list[p] \in ToSet(s)
  <2>1. ASSUME v \in {"records", "clamps"}, NEW p \in 1..Len(list), list[p] \in c.kept, p <= o + Limit
        PROVE  list[p] \in ToSet(s)
    <3>1. CASE p <= o
      BY <1>3, <1>4, <2>1, <3>1
    <3>2. CASE ~(p <= o)
      <4>1. o < p
        BY <1>1, <3>2
      <4>2. list[p] \in ToSet(PageOf(list, o))
        BY <1>1, <2>1, <4>1, PageOfRecords
      <4> QED
        BY <1>3, <4>2
    <3> QED
      BY <3>1, <3>2
  <2> QED
    BY <2>1
<1>6. ASSUME Len(page) # Limit, v # "pages" PROVE c.kept \subseteq ToSet(s)
  <2>1. CASE v \in {"records", "clamps"}
    <3>1. Len(list) <= o + Limit
      BY <1>1, <1>6, <2>1, PageOfRecords
    <3>2. \A p \in 1..Len(list) : list[p] \in c.kept => list[p] \in ToSet(s)
      BY SMTT(60), <1>0, <1>1, <1>5, <2>1, <3>1
    <3>3. \A x \in ToSet(list) : \E p \in 1..Len(list) : x = list[p]
      BY DEF ToSet
    <3> QED
      BY <1>4, <3>2, <3>3
  <2>2. CASE v \in {"stuck", "ignores"}
    <3>1. ToSet(list) \subseteq ToSet(page)
      BY <1>1, <1>6, <2>2, PageOfOthers
    <3> QED
      BY <1>3, <1>4, <3>1
  <2> QED
    BY <1>2, <1>6, <2>1, <2>2
<1>7. \/ d = Returns(c, s) /\ ((c.off = 0 /\ Len(page) > Limit) \/ Len(page) < Limit)
      \/ d = Raises(c, "unavailable")
      \/ d = WalksOn(c, c.off + 1, s)
  BY WalkMoves
<1> HIDE DEF s, d, v
<1>8. CASE d = Returns(c, s) /\ ((c.off = 0 /\ Len(page) > Limit) \/ Len(page) < Limit)
  <2>1. Len(page) # Limit
    BY <1>0, <1>8
  <2>2. d.step = "done" /\ d.kept = c.kept /\ d.seen = s
    BY <1>0, <1>3, <1>8, ReturnsFields
  <2> QED
    BY <1>6, <2>1, <2>2 DEF Behind
<1>9. CASE d = Raises(c, "unavailable")
  <2>1. d.step = "done" /\ d.answer = "unavailable"
    BY <1>0, <1>9, RaisesFields, KnownWaits
  <2> QED
    BY <2>1 DEF Behind
<1>10. CASE d = WalksOn(c, c.off + 1, s)
  <2> DEFINE k == c.off + 1
  <2>0. k \in Nat /\ k * Limit = o + Limit /\ d = WalksOn(c, k, s)
    BY <1>0, <1>1, <1>10
  <2> HIDE DEF k
  <2>1. d.off = k /\ d.seen = s /\ d.kept = c.kept /\ d.answer = c.answer
    <3>1. c \in Calls /\ s \in Listings
      BY <1>0, <1>3
    <3> QED
      BY <2>0, <3>1, WalksOnFields
  <2> QED
    BY <1>0, <1>4, <1>5, <2>0, <2>1 DEF Behind
<1> QED
  BY <1>7, <1>8, <1>9, <1>10

(* A call that goes on, or ends without an answer, over the same rows.     *)
LEMMA BehindCarries ==
    ASSUME NEW c, NEW list, NEW server, Behind(c, list, server), NEW d, Carries(c, d)
    PROVE  Behind(d, list, server)
  BY DEF Behind, Carries

(* A row that comes was not kept, and moves the others away from the walk. *)
LEMMA RowComes ==
    ASSUME NEW c, NEW list \in Seq(Rows), NEW server, Behind(c, list, server), c \in Calls,
           NEW r \in Rows \ ToSet(list)
    PROVE  Behind(c, Append(list, r), server) /\ Behind(c, <<r>> \o list, server)
<1>0. Len(list) \in Nat /\ DOMAIN list = 1..Len(list) /\ Limit \in Nat /\ c.off * Limit \in Int
  <2>1. c.off \in Nat /\ Limit \in Nat
    BY ClientConstants DEF Calls
  <2> QED
    BY <2>1
<1>1. /\ Len(Append(list, r)) = Len(list) + 1 /\ Append(list, r)[Len(list) + 1] = r
      /\ \A p \in 1..Len(list) : Append(list, r)[p] = list[p]
      /\ DOMAIN Append(list, r) = 1..(Len(list) + 1)
  BY <1>0
<1>2. /\ Len(<<r>> \o list) = Len(list) + 1 /\ (<<r>> \o list)[1] = r
      /\ \A p \in 1..Len(list) : (<<r>> \o list)[p + 1] = list[p]
      /\ \A p \in 2..(Len(list) + 1) : (<<r>> \o list)[p] = list[p - 1]
      /\ DOMAIN (<<r>> \o list) = 1..(Len(list) + 1)
  BY <1>0
<1>3. ASSUME NEW more, DOMAIN more = 1..(Len(list) + 1), Len(more) = Len(list) + 1,
             \A p \in 1..Len(list) : \E q \in 1..(Len(list) + 1) : more[q] = list[p],
             \A q \in 1..(Len(list) + 1) :
                more[q] = r \/ \E p \in 1..Len(list) : p <= q /\ more[q] = list[p]
      PROVE  Behind(c, more, server)
  <2>1. ToSet(list) \subseteq ToSet(more)
    BY <1>0, <1>3 DEF ToSet
  <2>2. ASSUME c.kind = "search", c.step # "done"
        PROVE  /\ c.kept \subseteq ToSet(more)
               /\ server \in {"records", "clamps"}
                    => \A q \in 1..Len(more) :
                          more[q] \in c.kept /\ q <= c.off * Limit => more[q] \in ToSet(c.seen)
    <3>1. /\ c.kept \subseteq ToSet(list)
          /\ server \in {"records", "clamps"}
                => \A p \in 1..Len(list) :
                      list[p] \in c.kept /\ p <= c.off * Limit => list[p] \in ToSet(c.seen)
      BY <2>2 DEF Behind
    <3>2. r \notin c.kept
      BY <3>1
    <3>3. ASSUME server \in {"records", "clamps"}, NEW q \in 1..Len(more), more[q] \in c.kept,
                 q <= c.off * Limit
          PROVE  more[q] \in ToSet(c.seen)
      <4>1. PICK p \in 1..Len(list) : p <= q /\ more[q] = list[p]
        BY <1>3, <3>2, <3>3
      <4> DEFINE n == c.off * Limit
      <4>2. n \in Int /\ q <= n /\ p <= q /\ p \in Int /\ q \in Int
        BY <1>0, <1>3, <3>3, <4>1
      <4> HIDE DEF n
      <4>3. p <= n
        BY <4>2
      <4> QED
        BY <3>1, <3>3, <4>1, <4>3 DEF n
    <3> QED
      BY <2>1, <3>1, <3>3
  <2> QED
    BY <2>2 DEF Behind
<1>4. Behind(c, Append(list, r), server)
  <2>1. \A p \in 1..Len(list) : p \in 1..(Len(list) + 1) /\ p <= p
    BY <1>0
  <2>2. \A q \in 1..(Len(list) + 1) : q = Len(list) + 1 \/ q \in 1..Len(list)
    BY <1>0
  <2> DEFINE more == Append(list, r)
  <2> HIDE DEF more
  <2>3. /\ DOMAIN more = 1..(Len(list) + 1) /\ Len(more) = Len(list) + 1
        /\ \A p \in 1..Len(list) : \E q \in 1..(Len(list) + 1) : more[q] = list[p]
        /\ \A q \in 1..(Len(list) + 1) :
              more[q] = r \/ \E p \in 1..Len(list) : p <= q /\ more[q] = list[p]
    BY <1>1, <2>1, <2>2 DEF more
  <2> QED
    BY <1>3, <2>3 DEF more
<1>5. Behind(c, <<r>> \o list, server)
  <2> DEFINE more == <<r>> \o list
  <2>1. \A p \in 1..Len(list) : p + 1 \in 1..(Len(list) + 1)
    BY <1>0
  <2>2. \A q \in 1..(Len(list) + 1) : q = 1 \/ (q \in 2..(Len(list) + 1) /\ q - 1 \in 1..Len(list) /\ q - 1 <= q)
    BY <1>0
  <2>3. /\ DOMAIN more = 1..(Len(list) + 1) /\ Len(more) = Len(list) + 1
        /\ more[1] = r
        /\ \A p \in 1..Len(list) : more[p + 1] = list[p]
        /\ \A q \in 2..(Len(list) + 1) : more[q] = list[q - 1]
    BY <1>2
  <2> HIDE DEF more
  <2>4. /\ \A p \in 1..Len(list) : \E q \in 1..(Len(list) + 1) : more[q] = list[p]
        /\ \A q \in 1..(Len(list) + 1) :
              more[q] = r \/ \E p \in 1..Len(list) : p <= q /\ more[q] = list[p]
    BY <2>1, <2>2, <2>3
  <2> QED
    BY <1>3, <2>3, <2>4 DEF more
<1> QED
  BY <1>4, <1>5

(* A row that goes takes the rows after it out of what the search must     *)
(* keep, and no other.                                                     *)
LEMMA RowGoes ==
    ASSUME NEW c, NEW list \in Seq(Rows), NEW server, Behind(c, list, server), c \in Calls,
           NEW i \in 1..Len(list)
    PROVE  Behind([c EXCEPT !.kept = @ \cap ToSet(SubSeq(list, 1, i - 1))],
                  RemoveAt(list, i), server)
<1> DEFINE B == ToSet(SubSeq(list, 1, i - 1))
           less == RemoveAt(list, i)
           d == [c EXCEPT !.kept = @ \cap B]
<1>0. /\ Len(list) \in Nat /\ i \in Nat /\ DOMAIN list = 1..Len(list)
      /\ less \in Seq(Rows) /\ Len(less) = Len(list) - 1
      /\ \A p \in 1..(Len(list) - 1) : less[p] = IF p < i THEN list[p] ELSE list[p + 1]
      /\ B = {list[p] : p \in 1..(i - 1)}
  <2>1. Len(list) \in Nat /\ i \in Nat /\ DOMAIN list = 1..Len(list)
    OBVIOUS
  <2>2. /\ less \in Seq(Rows) /\ Len(less) = Len(list) - 1
        /\ \A p \in 1..(Len(list) - 1) : less[p] = IF p < i THEN list[p] ELSE list[p + 1]
        /\ B = {list[p] : p \in 1..(i - 1)}
    BY WithoutOne
  <2> QED
    BY <2>1, <2>2
<1>1. /\ d.kind = c.kind /\ d.step = c.step /\ d.answer = c.answer /\ d.off = c.off
      /\ d.seen = c.seen /\ d.kept = c.kept \cap B
  BY DEF Calls
<1> HIDE DEF B, less, d
<1>2. B \subseteq ToSet(less)
  <2>1. ASSUME NEW p \in 1..(i - 1) PROVE list[p] \in ToSet(less)
    <3>1. p \in 1..(Len(list) - 1) /\ p < i
      BY <1>0
    <3>2. less[p] = list[p] /\ p \in DOMAIN less
      BY <1>0, <3>1
    <3> QED
      BY <3>2 DEF ToSet
  <2> QED
    BY <1>0, <2>1
<1>3. ASSUME c.kind = "search", c.step # "done", server \in {"records", "clamps"},
             NEW q \in 1..Len(less), less[q] \in d.kept, q <= c.off * Limit
      PROVE  less[q] \in ToSet(c.seen)
  <2>1. PICK p \in 1..(i - 1) : less[q] = list[p]
    BY <1>0, <1>1, <1>3
  <2>2. less[q] \in c.kept
    BY <1>1, <1>3
  <2>3. \A x \in 1..Len(list) : list[x] \in c.kept /\ x <= c.off * Limit => list[x] \in ToSet(c.seen)
    BY <1>3 DEF Behind
  <2> DEFINE n == c.off * Limit
  <2>4. n \in Int
    <3>1. c.off \in Nat /\ Limit \in Nat
      BY ClientConstants DEF Calls
    <3> QED
      BY <3>1
  <2>5. q <= n
    BY <1>3
  <2>6. \A x \in 1..Len(list) : list[x] \in c.kept /\ x <= n => list[x] \in ToSet(c.seen)
    BY <2>3
  <2> HIDE DEF n
  <2>7. q \in 1..(Len(list) - 1)
    BY <1>0
  <2>8. CASE q < i
    <3>1. less[q] = list[q] /\ q \in 1..Len(list)
      BY <1>0, <2>7, <2>8
    <3> QED
      BY <2>2, <2>5, <2>6, <3>1
  <2>9. CASE ~(q < i)
    <3>1. p \in 1..Len(list) /\ p <= n
      BY <1>0, <2>4, <2>5, <2>7, <2>9
    <3> QED
      BY <2>1, <2>2, <2>6, <3>1
  <2> QED
    BY <2>8, <2>9
<1>4. Behind(d, less, server)
  <2>1. ASSUME c.kind = "search", c.step # "done" PROVE d.kept \subseteq ToSet(less)
    BY <1>1, <1>2
  <2>2. c.kind = "search" /\ c.answer = "returned" /\ server # "pages" => d.kept \subseteq ToSet(c.seen)
    BY <1>1 DEF Behind
  <2> QED
    BY <1>1, <1>3, <2>1, <2>2 DEF Behind
<1> QED
  BY <1>4 DEF B, less, d

LEMMA RowsChangeWalking ==
    ASSUME Typed, Walking, RowsChange PROVE Walking'
<1>0. rows.list \in Seq(Rows) /\ UNCHANGED process
  BY DEF RowsChange, Typed, RowsTyped
<1>1. ASSUME NEW t \in Threads PROVE call[t] \in Calls /\ Behind(call[t], rows.list, process.server)
  BY DEF Typed, CallsShaped, Shaped, Walking
<1>2. ASSUME NEW r \in Rows \ ToSet(rows.list), UNCHANGED call,
             \/ rows' = [list |-> Append(rows.list, r), changes |-> rows.changes + 1]
             \/ rows' = [list |-> <<r>> \o rows.list, changes |-> rows.changes + 1]
      PROVE  Walking'
  <2>1. rows'.list = Append(rows.list, r) \/ rows'.list = <<r>> \o rows.list
    BY <1>2
  <2>2. ASSUME NEW t \in Threads PROVE Behind(call'[t], rows'.list, process'.server)
    <3>1. /\ Behind(call[t], Append(rows.list, r), process.server)
          /\ Behind(call[t], <<r>> \o rows.list, process.server)
      BY <1>0, <1>1, RowComes
    <3> QED
      BY <1>0, <1>2, <2>1, <3>1
  <2> QED
    BY <2>2 DEF Walking, Behind
<1>3. ASSUME NEW i \in DOMAIN rows.list,
             rows' = [list |-> RemoveAt(rows.list, i), changes |-> rows.changes + 1],
             call' = [t \in Threads |-> [call[t] EXCEPT
                           !.kept = @ \cap ToSet(SubSeq(rows.list, 1, i - 1))]]
      PROVE  Walking'
  <2>1. rows'.list = RemoveAt(rows.list, i) /\ i \in 1..Len(rows.list)
    BY <1>0, <1>3
  <2>2. ASSUME NEW t \in Threads PROVE Behind(call'[t], rows'.list, process'.server)
    <3>1. Behind([call[t] EXCEPT !.kept = @ \cap ToSet(SubSeq(rows.list, 1, i - 1))],
                 RemoveAt(rows.list, i), process.server)
      BY <1>0, <1>1, <2>1, RowGoes
    <3> QED
      BY <1>0, <1>3, <2>1, <3>1
  <2> QED
    BY <2>2 DEF Walking, Behind
<1> QED
  BY <1>2, <1>3 DEF RowsChange

(* One call moves over the same rows. *)
LEMMA OneCallWalking ==
    ASSUME Typed, Walking, UNCHANGED <<process, rows>>, NEW t \in Threads, NEW d,
           call' = [call EXCEPT ![t] = d], Behind(d, rows.list, process.server)
    PROVE  Walking'
<1>1. call'[t] = d /\ \A u \in Threads : u # t => call'[u] = call[u]
  BY DEF Typed, CallsShaped
<1>2. \A u \in Threads : Behind(call'[u], rows.list, process.server)
  BY <1>1 DEF Walking
<1>3. \A u \in Threads : Behind(call'[u], rows'.list, process'.server)
  BY <1>2
<1> QED
  BY <1>3 DEF Walking, Behind

LEMMA TransportWalking ==
    ASSUME Typed, Walking, Transport PROVE Walking'
<1>1. CASE RowsChange
  BY <1>1, RowsChangeWalking
<1>2. CASE ~RowsChange
  <2>1. UNCHANGED <<process, rows>>
    BY <1>2 DEF Transport, Send, NotServed, Unauthorized, Refused, LoggedIn, Late, Ends,
       Expires, vars
  <2>2. ASSUME NEW t \in Threads PROVE Behind(call'[t], rows.list, process.server)
    <3>1. Behind(call[t], rows.list, process.server) /\ Carries(call[t], call'[t])
      BY TransportCarries DEF Walking
    <3> QED
      BY <3>1, BehindCarries
  <2>3. \A t \in Threads : Behind(call'[t], rows'.list, process'.server)
    BY <2>1, <2>2
  <2> QED
    BY SMTT(60), <2>3 DEF Walking, Behind
<1> QED
  BY <1>1, <1>2

LEMMA WalkedWalking ==
    ASSUME Typed, Walking, NEW t \in Threads, Walked(t) PROVE Walking'
<1> DEFINE o == call[t].off * Limit
           page == PageOf(rows.list, o)
<1>1. /\ Shaped(call[t], t) /\ call[t].step = "flight" /\ call[t].at = "walk"
      /\ Behind(call[t], rows.list, process.server) /\ rows.list \in Seq(Rows)
  BY DEF Walked, Typed, CallsShaped, RowsTyped, Walking
<1>2. o \in Nat
  <2>1. call[t].off \in Nat /\ Limit \in Nat
    BY <1>1, ClientConstants DEF Shaped, Calls
  <2> QED
    BY <2>1
<1>3. page \in Seq(Rows)
  <2> HIDE DEF o
  <2> QED
    BY <1>2, PageTyped
<1>4. call' = [call EXCEPT ![t] = Walk(call[t], page)] /\ UNCHANGED <<process, rows>>
  BY DEF Walked
<1>5. o = call[t].off * Limit /\ page = PageOf(rows.list, o)
  OBVIOUS
<1> HIDE DEF o, page
<1>6. Behind(Walk(call[t], page), rows.list, process.server)
  BY <1>1, <1>3, <1>5, WalkBehind
<1> QED
  BY <1>4, <1>6, OneCallWalking

(* The other calls are not searches; a search begins with all it must keep *)
(* before it.                                                              *)
LEMMA NotSearched ==
    ASSUME NEW d, d.kind # "search", NEW list, NEW server PROVE Behind(d, list, server)
  BY DEF Behind

LEMMA BeginsWalking ==
    ASSUME Typed, Walking, Begins PROVE Walking'
<1>1. PICK t \in Threads : GetOrCreate(t) \/ Execute(t) \/ PollBatch(t) \/ Search(t)
  BY DEF Begins
<1>2. call[t] = NoCall /\ UNCHANGED <<process, rows>>
  BY <1>1 DEF GetOrCreate, Execute, PollBatch, Search, Typed, CallsShaped, Shaped
<1>3. CASE GetOrCreate(t)
  <2>1. PICK n \in Names : call' = [call EXCEPT ![t] =
                Asks([@ EXCEPT !.kind = "named", !.name = n], "find")]
    BY <1>3 DEF GetOrCreate
  <2> DEFINE d == Asks([NoCall EXCEPT !.kind = "named", !.name = n], "find")
  <2>2. call' = [call EXCEPT ![t] = d] /\ d.kind # "search"
    BY <1>2, <2>1 DEF Asks, NoCall
  <2> HIDE DEF d
  <2> QED
    BY <1>2, <2>2, NotSearched, OneCallWalking
<1>4. CASE Execute(t)
  <2> DEFINE d == Asks([NoCall EXCEPT !.kind = "execute"], "create")
  <2>2. call' = [call EXCEPT ![t] = d] /\ d.kind # "search"
    BY <1>2, <1>4 DEF Execute, Asks, NoCall
  <2> HIDE DEF d
  <2> QED
    BY <1>2, <2>2, NotSearched, OneCallWalking
<1>5. CASE PollBatch(t)
  <2>1. PICK k \in Polls, i \in Running \cup {Unlisted}, j \in Running \cup {Unlisted} :
                call' = [call EXCEPT ![t] =
                           Asks([@ EXCEPT !.kind = k, !.want = <<i, j>>], "look")]
    BY <1>5 DEF PollBatch, Polls
  <2> DEFINE d == Asks([NoCall EXCEPT !.kind = k, !.want = <<i, j>>], "look")
  <2>2. call' = [call EXCEPT ![t] = d] /\ d.kind # "search"
    BY <1>2, <2>1 DEF Asks, NoCall, Polls, Paged
  <2> HIDE DEF d
  <2> QED
    BY <1>2, <2>2, NotSearched, OneCallWalking
<1>6. CASE Search(t)
  <2> DEFINE d == Asks([NoCall EXCEPT !.kind = "search", !.kept = ToSet(rows.list)], "walk")
  <2>1. call' = [call EXCEPT ![t] = d]
    BY <1>2, <1>6 DEF Search
  <2>2. d.off = 0 /\ d.kept = ToSet(rows.list) /\ d.answer = "none"
    BY DEF Asks, NoCall
  <2> HIDE DEF d
  <2>3. 0 * Limit = 0
    BY ClientConstants
  <2>4. \A p \in 1..Len(rows.list) : ~(p <= 0)
    OBVIOUS
  <2>5. Behind(d, rows.list, process.server)
    BY <2>2, <2>3, <2>4 DEF Behind
  <2> QED
    BY <1>2, <2>1, <2>5, OneCallWalking
<1> QED
  BY <1>1, <1>3, <1>4, <1>5, <1>6

(* Nor does an answer to another request move a search. *)
LEMMA OthersWalking ==
    ASSUME Typed, Walking, NEW t \in Threads, Found(t) \/ Created(t) \/ Looked(t)
    PROVE  Walking'
<1> DEFINE c == call[t]
<1>1. /\ c \in Calls /\ c.kind # "search" /\ UNCHANGED <<process, rows>>
  BY DEF Found, Created, Looked, Typed, CallsShaped, Shaped, Polls, Paged
<1> HIDE DEF c
<1>2. PICK d : call' = [call EXCEPT ![t] = d] /\ d.kind = c.kind
  <2>1. CASE Found(t)
    <3>1. call' = [call EXCEPT ![t] = IF Named(c.name) # {} THEN Returns(c, <<>>)
                                      ELSE Asks(c, "create")]
      BY <2>1 DEF Found, c
    <3>2. Returns(c, <<>>).kind = c.kind /\ Asks(c, "create").kind = c.kind
      BY <1>1 DEF Returns, Raises, Asks, Calls
    <3> QED
      BY <3>1, <3>2
  <2>2. CASE Looked(t)
    BY <2>2, LookedAnswers DEF Answered, c
  <2>3. CASE Created(t)
    <3>1. PICK j \in Jobs, s \in {"running", "ended"} : \E d :
              /\ call' = [call EXCEPT ![t] = d]
              /\ \/ d = Repeat(c, 1)
                 \/ d = Raises([c EXCEPT !.unheard = @ + 1], "unavailable")
                 \/ d = Returns([c EXCEPT !.want = <<j>>], <<>>)
                 \/ d = Asks([c EXCEPT !.want = <<j>>], "look")
      <4>1. PICK j \in Jobs, s \in {"running", "ended"} : \E d :
              /\ job[j].state = "none"
              /\ s = "running" => call[t].kind = "execute"
              /\ job' = [job EXCEPT ![j] = [state |-> s, by |-> t, name |-> call[t].name,
                                           beside |-> Creating]]
              /\ call' = [call EXCEPT ![t] = d]
              /\ \/ d = Repeat(call[t], 1)
                 \/ d = Raises([call[t] EXCEPT !.unheard = @ + 1], "unavailable")
                 \/ s = "ended" /\ d = Returns([call[t] EXCEPT !.want = <<j>>], <<>>)
                 \/ /\ s = "running" /\ call[t].kind = "execute"
                    /\ d = Asks([call[t] EXCEPT !.want = <<j>>], "look")
        BY <2>3, CreatedMoves
      <4>2. PICK d :
              /\ call' = [call EXCEPT ![t] = d]
              /\ \/ d = Repeat(c, 1)
                 \/ d = Raises([c EXCEPT !.unheard = @ + 1], "unavailable")
                 \/ d = Returns([c EXCEPT !.want = <<j>>], <<>>)
                 \/ d = Asks([c EXCEPT !.want = <<j>>], "look")
        BY <4>1 DEF c
      <4> QED
        BY <4>2
    <3>2. PICK d :
              /\ call' = [call EXCEPT ![t] = d]
              /\ \/ d = Repeat(c, 1)
                 \/ d = Raises([c EXCEPT !.unheard = @ + 1], "unavailable")
                 \/ d = Returns([c EXCEPT !.want = <<j>>], <<>>)
                 \/ d = Asks([c EXCEPT !.want = <<j>>], "look")
      BY <3>1
    <3>3. d.kind = c.kind
      BY <1>1, <3>2 DEF Repeat, Raises, Returns, Asks, Calls
    <3> QED
      BY <3>2, <3>3
  <2> QED
    BY <2>1, <2>2, <2>3
<1> QED
  BY <1>1, <1>2, NotSearched, OneCallWalking

LEMMA StepKeepsWalking == Typed /\ Walking /\ [Next]_vars => Walking'
<1> SUFFICES ASSUME Typed, Walking, [Next]_vars PROVE Walking'
  OBVIOUS
<1>1. \/ Transport \/ Begins
      \/ \E t \in Threads : Found(t) \/ Created(t) \/ Looked(t) \/ Walked(t)
  BY DEF Next, Step, Transport, Begins
<1> QED
  BY <1>1, TransportWalking, BeginsWalking, WalkedWalking, OthersWalking

LEMMA InitIsWalking == Init => Walking
  BY DEF Init, NoCall, Walking, Behind

(* A search that returns over a server that takes the offset for what it   *)
(* is, or gives itself away, lists every row it must.                      *)
THEOREM SearchesMissOnlyBehindAGap == Spec => []SearchMissesOnlyBehindAGap
<1>1. Spec => [](Typed /\ Walking)
  <2>1. Init => Typed /\ Walking
    BY InitIsTyped, InitIsWalking
  <2>2. (Typed /\ Walking) /\ [Next]_vars => (Typed /\ Walking)'
    BY StepIsTyped, StepKeepsWalking
  <2> QED
    BY <2>1, <2>2, PTL DEF Spec
<1> QED
  BY <1>1, WalkingIsSearch, PTL

-----------------------------------------------------------------------------
(* A request that administers was let in for an account that is, and stays,*)
(* an administrator's: roles are only ever added.                          *)
AdmittedByAdmin ==
    \A q \in Requests : At(q, "handler") /\ request[q].op \in AdminOps
        => account[request[q].by].role = "admin"

(* An administrator's account has been inserted.                           *)
AdminsKnown == \A e \in Emails : account[e].role = "admin" => account[e].known

-----------------------------------------------------------------------------
(* One row written keeps the table a table, and one identity per account,  *)
(* as long as the identity it gets is held by no other account.            *)
LEMMA PutTyped ==
    ASSUME AccountsTypeOK, NEW e \in Emails, NEW r \in Account, Put(e, r),
           r.identity \in Identities => HolderOf(r.identity) \subseteq {e}
    PROVE  /\ account' \in [Emails -> Account]
           /\ \A i \in Identities : \A x, y \in HolderOf(i)' : x = y
  BY AccountsAssumption DEF AccountsTypeOK, Put, HolderOf, Account, Holder

(* So does one that keeps its account's identity. *)
LEMMA SameHolderTyped ==
    ASSUME AccountsTypeOK, NEW e \in Emails, NEW r \in Account, Put(e, r),
           r.identity = account[e].identity, r.known = account[e].known
    PROVE  /\ account' \in [Emails -> Account]
           /\ \A i \in Identities : \A x, y \in HolderOf(i)' : x = y
  BY DEF AccountsTypeOK, Put, HolderOf, Account, Holder

(* The records the steps start from. *)
LEMMA IdleTyped == Idle \in Request
  BY AccountsAssumption DEF Idle, Request, Row, Steps, Holder

LEMMA UnknownTyped == Unknown \in Account
<1>1. 0 \in 0..MaxDeactivations
  BY AccountsAssumption
<1> QED
  BY <1>1 DEF Unknown, Account, Holder

LEMMA RowTyped == ASSUME AccountsTypeOK, NEW e \in Emails PROVE RowOf(e) \in Row
  BY DEF AccountsTypeOK, Account, RowOf, Row

(* Moving one request keeps the requests typed. *)
LEMMA GotoTyped ==
    ASSUME AccountsTypeOK, NEW q \in Requests, NEW step \in Steps, Goto(q, step)
    PROVE  request' \in [Requests -> Request]
  BY DEF AccountsTypeOK, Goto, Request

LEMMA DoneTyped ==
    ASSUME AccountsTypeOK, NEW q \in Requests, Done(q)
    PROVE  request' \in [Requests -> Request]
  BY IdleTyped DEF AccountsTypeOK, Done

LEMMA GoOnTyped ==
    ASSUME AccountsTypeOK, NEW q \in Requests, NEW i \in Holder, NEW step \in Steps,
           GoOnAs(q, i, step)
    PROVE  request' \in [Requests -> Request]
  <1>1. CASE HolderOf(i) = {}
    BY <1>1, GotoTyped DEF GoOnAs
  <1>2. CASE HolderOf(i) # {}
    <2>1. PICK e \in Emails :
              request' = [request EXCEPT ![q].at = "session", ![q].email = e]
      BY <1>2 DEF GoOnAs, HolderOf
    <2>2. [request[q] EXCEPT !.at = "session", !.email = e] \in Request
      BY DEF AccountsTypeOK, Request, Steps
    <2> QED
      BY <2>1, <2>2 DEF AccountsTypeOK
  <1> QED
    BY <1>1, <1>2

LEMMA InitTyped == AccountsInit => AccountsTypeOK
<1> SUFFICES ASSUME AccountsInit PROVE AccountsTypeOK
  OBVIOUS
<1>1. [Unknown EXCEPT !.known = TRUE, !.active = TRUE, !.password = TRUE, !.role = "admin"]
          \in Account
  BY UnknownTyped DEF Account, Roles
<1>2. Unused \in Session
  BY AccountsAssumption DEF Unused, Session
<1>3. \A e \in Emails : account[e].identity = NoIdentity
  BY DEF AccountsInit, Unknown
<1> QED
  BY AccountsAssumption, IdleTyped, UnknownTyped, <1>1, <1>2, <1>3 DEF AccountsInit, AccountsTypeOK, HolderOf

LEMMA StepTyped == AccountsTypeOK /\ [AccountsNext]_accountsVars => AccountsTypeOK'
<1> SUFFICES ASSUME AccountsTypeOK, [AccountsNext]_accountsVars PROVE AccountsTypeOK'
  OBVIOUS
<1> DEFINE Accounts == /\ account' \in [Emails -> Account]
                       /\ \A i \in Identities : \A x, y \in HolderOf(i)' : x = y
           Asked    == request' \in [Requests -> Request]
           Opened   == session' \in [Sessions -> Session]
           Past     == history' \in [crossed : BOOLEAN, unswept : SUBSET Emails]
<1>1. UNCHANGED account => Accounts
  BY DEF AccountsTypeOK, HolderOf
<1>2. Keep => Opened /\ Past
  BY DEF AccountsTypeOK, Keep
<1>3. Accounts /\ Asked /\ Opened /\ Past => AccountsTypeOK'
  BY DEF AccountsTypeOK
<1> HIDE DEF Accounts, Asked, Opened, Past
<1>4. ASSUME NEW q \in Requests, SignIn(q) PROVE AccountsTypeOK'
  <2>0. request[q] \in Request /\ request[q].email \in Emails /\ request[q].identity \in Holder
    BY DEF AccountsTypeOK, Request
  <2>1. ASSUME NEW e \in Emails, PasswordLogin(q, e) PROVE AccountsTypeOK'
    <3>1. [Idle EXCEPT !.at = "session", !.email = e] \in Request
      BY IdleTyped DEF Request, Steps
    <3> QED
      BY <1>1, <1>2, <1>3, <2>1, <3>1 DEF PasswordLogin, AccountsTypeOK, Asked
  <2>2. ASSUME NEW claim \in Claims, Callback(q, claim) PROVE AccountsTypeOK'
    <3> DEFINE asked == [Idle EXCEPT !.at = "by email", !.identity = claim[1], !.email = claim[2]]
    <3>1. claim[1] \in Identities /\ claim[2] \in Emails
      BY AccountsAssumption
    <3>2. asked \in Request
      BY <3>1, IdleTyped DEF Request, Steps, Holder
    <3>3. \A e \in Emails : [asked EXCEPT !.at = "session", !.email = e] \in Request
      BY <3>2 DEF Request, Steps
    <3>4. \E r \in Request : request' = [request EXCEPT ![q] = r]
      BY <2>2, <3>2, <3>3 DEF Callback, HolderOf
    <3>5. Asked
      BY <3>4 DEF AccountsTypeOK, Asked
    <3> QED
      BY <1>1, <1>2, <1>3, <2>2, <3>5 DEF Callback
  <2>3. CASE ByEmail(q)
    <3>1. PICK step \in {"link", "look again"} :
              request' = [request EXCEPT ![q].at = step, ![q].seen = RowOf(request[q].email)]
      BY <2>3 DEF ByEmail
    <3>2. [request[q] EXCEPT !.at = step, !.seen = RowOf(request[q].email)] \in Request
      BY <2>0, RowTyped DEF Request, Steps
    <3>3. Asked
      BY <3>1, <3>2 DEF AccountsTypeOK, Asked
    <3> QED
      BY <1>1, <1>2, <1>3, <2>3, <3>3 DEF ByEmail
  <2>4. CASE Link(q)
    <3> DEFINE e == request[q].email
               i == request[q].identity
    <3>1. Asked
      BY <2>4, GotoTyped DEF Link, Steps, Asked
    <3>2. CASE HolderOf(i) \ {e} # {}
      BY <1>1, <1>2, <1>3, <2>4, <3>1, <3>2 DEF Link
    <3>3. CASE HolderOf(i) \ {e} = {}
      <4>1. [account[e] EXCEPT !.identity = i] \in Account
        BY <2>0 DEF AccountsTypeOK, Account
      <4>2. Put(e, [account[e] EXCEPT !.identity = i])
        BY <2>4, <3>3 DEF Link
      <4>3. Accounts
        BY <2>0, <3>3, <4>1, <4>2, PutTyped DEF Accounts, Account, AccountsTypeOK
      <4> QED
        BY <1>2, <1>3, <2>4, <3>1, <4>3 DEF Link
    <3> QED
      BY <3>2, <3>3
  <2>5. CASE Reload(q)
    BY <1>1, <1>2, <1>3, <2>0, <2>5, GoOnTyped DEF Reload, Asked, Steps
  <2>6. CASE LookAgain(q)
    BY <1>1, <1>2, <1>3, <2>0, <2>6, GoOnTyped DEF LookAgain, Asked, Steps
  <2>7. CASE InsertIdentity(q)
    <3> DEFINE e == request[q].email
               i == request[q].identity
               r == [Unknown EXCEPT !.known = TRUE, !.active = TRUE, !.identity = i]
    <3>1. Asked
      BY <2>7, GotoTyped DEF InsertIdentity, Steps, Asked
    <3>2. r \in Account /\ r.identity = i
      BY <2>0, UnknownTyped DEF Account
    <3>3. Accounts
      <4>1. CASE account[e].known \/ HolderOf(i) # {}
        BY <1>1, <2>7, <4>1 DEF InsertIdentity
      <4>2. CASE ~ (account[e].known \/ HolderOf(i) # {})
        BY <2>0, <2>7, <3>2, <4>2, PutTyped DEF InsertIdentity, Accounts
      <4> QED
        BY <4>1, <4>2
    <3> QED
      BY <1>2, <1>3, <2>7, <3>1, <3>3 DEF InsertIdentity
  <2>8. CASE Reread(q)
    BY <1>1, <1>2, <1>3, <2>0, <2>8, GoOnTyped DEF Reread, Asked, Steps
  <2>9. ASSUME NEW s \in Sessions, CreateSession(q, s) PROVE AccountsTypeOK'
    <3>1. Asked
      BY <2>9, DoneTyped DEF CreateSession, Asked
    <3>2. account[request[q].email].deactivations \in 0..MaxDeactivations
      BY <2>0 DEF AccountsTypeOK, Account
    <3>3. Opened
      BY <2>0, <2>9, <3>2 DEF CreateSession, AccountsTypeOK, Session, Opened
    <3>4. Past
      BY <2>9 DEF CreateSession, AccountsTypeOK, Past
    <3> QED
      BY <1>1, <1>3, <2>9, <3>1, <3>3, <3>4 DEF CreateSession
  <2> QED
    BY <1>4, <2>1, <2>2, <2>3, <2>4, <2>5, <2>6, <2>7, <2>8, <2>9 DEF SignIn
<1>5. ASSUME NEW q \in Requests, Handle(q) PROVE AccountsTypeOK'
  <2> DEFINE e == request[q].email
  <2>0. e \in Emails /\ account[e] \in Account
    BY DEF AccountsTypeOK, Request
  <2>1. ASSUME NEW s \in Sessions, NEW op \in OwnOps \cup AdminOps, NEW x \in Emails,
               Admit(q, s, op, x)
        PROVE  AccountsTypeOK'
    <3>1. [Idle EXCEPT !.at = "handler", !.op = op, !.email = x, !.by = session[s].user] \in Request
      BY IdleTyped DEF AccountsTypeOK, Session, Request, Steps
    <3> QED
      BY <1>1, <1>2, <1>3, <2>1, <3>1 DEF Admit, AccountsTypeOK, Asked
  <2>2. CASE ChangePassword(q)
    <3>1. Accounts
      BY <2>0, <2>2, SameHolderTyped DEF ChangePassword, Accounts, Account
    <3> QED
      BY <1>2, <1>3, <2>2, <3>1, DoneTyped DEF ChangePassword, Asked
  <2>3. CASE SetUpProfile(q)
    <3>1. Accounts
      BY <2>0, <2>3, SameHolderTyped DEF SetUpProfile, Accounts, Account
    <3> QED
      BY <1>2, <1>3, <2>3, <3>1, DoneTyped DEF SetUpProfile, Asked
  <2>4. CASE CreateUser(q)
    <3>1. CASE account[e].known
      <4>1. [request[q] EXCEPT !.at = "refused", !.seen = RowOf(e)] \in Request
        BY <2>0, RowTyped DEF AccountsTypeOK, Request, Steps
      <4>2. Asked
        BY <2>4, <3>1, <4>1 DEF CreateUser, Refuse, AccountsTypeOK, Asked
      <4> QED
        BY <1>1, <1>2, <1>3, <2>4, <3>1, <4>2 DEF CreateUser
    <3>2. CASE ~ account[e].known
      <4> DEFINE r == [Unknown EXCEPT !.known = TRUE, !.active = TRUE, !.password = TRUE,
                                      !.mustChange = TRUE]
      <4>1. r \in Account /\ r.identity \notin Identities
        BY AccountsAssumption, UnknownTyped DEF Account, Unknown
      <4>2. Accounts
        BY <2>0, <2>4, <3>2, <4>1, PutTyped DEF CreateUser, Accounts
      <4> QED
        BY <1>2, <1>3, <2>4, <3>2, <4>2, DoneTyped DEF CreateUser, Asked
    <3> QED
      BY <3>1, <3>2
  <2>5. CASE ResetPassword(q)
    <3>1. Accounts
      BY <2>0, <2>5, SameHolderTyped DEF ResetPassword, Accounts, Account
    <3> QED
      BY <1>2, <1>3, <2>5, <3>1, DoneTyped DEF ResetPassword, Asked
  <2>6. CASE ReadExisting(q)
    <3>1. PICK step \in {"role", "provision"} :
              request' = [request EXCEPT ![q].seen = RowOf(e), ![q].at = step]
      BY <2>6 DEF ReadExisting
    <3>2. [request[q] EXCEPT !.seen = RowOf(e), !.at = step] \in Request
      BY <2>0, RowTyped DEF AccountsTypeOK, Request, Steps
    <3>3. Asked
      BY <3>1, <3>2 DEF AccountsTypeOK, Asked
    <3> QED
      BY <1>1, <1>2, <1>3, <2>6, <3>3 DEF ReadExisting
  <2>7. CASE PreProvision(q)
    <3> DEFINE r == [Unknown EXCEPT !.known = TRUE, !.active = TRUE]
    <3>1. r \in Account /\ r.identity \notin Identities
      BY AccountsAssumption, UnknownTyped DEF Account, Unknown
    <3>2. Accounts
      BY <1>1, <2>0, <2>7, <3>1, PutTyped DEF PreProvision, Accounts
    <3> QED
      BY <1>2, <1>3, <2>7, <3>2, GotoTyped DEF PreProvision, Asked, Steps
  <2>8. ASSUME NEW role \in Roles, AssignRole(q, role) PROVE AccountsTypeOK'
    <3>1. Accounts
      BY <2>0, <2>8, SameHolderTyped DEF AssignRole, Accounts, Account
    <3> QED
      BY <1>2, <1>3, <2>8, <3>1, DoneTyped DEF AssignRole, Asked
  <2>9. CASE Deactivate(q)
    <3>1. account[e].deactivations + 1 \in 0..MaxDeactivations
      BY <2>0, <2>9, AccountsAssumption DEF Deactivate, Account
    <3>2. [account[e] EXCEPT !.active = FALSE, !.deactivations = @ + 1] \in Account
      BY <2>0, <3>1 DEF Account
    <3>3. Accounts
      BY <2>0, <2>9, <3>2, SameHolderTyped DEF Deactivate, Accounts, Account
    <3>4. Past
      BY <2>9 DEF Deactivate, AccountsTypeOK, Past, Account, Request
    <3>5. Opened
      BY <2>9 DEF Deactivate, AccountsTypeOK, Opened
    <3> QED
      BY <1>3, <2>9, <3>3, <3>4, <3>5, GotoTyped DEF Deactivate, Asked, Steps
  <2>10. CASE InvalidateAll(q)
    <3>1. Ended \in Session
      BY AccountsAssumption DEF Ended, Unused, Session
    <3>2. Opened
      BY <2>10, <3>1 DEF InvalidateAll, AccountsTypeOK, Opened
    <3>3. Past
      BY <2>10 DEF InvalidateAll, AccountsTypeOK, Past
    <3> QED
      BY <1>1, <1>3, <2>10, <3>2, <3>3, DoneTyped DEF InvalidateAll, Asked
  <2>11. CASE Reactivate(q)
    <3>1. Accounts
      BY <2>0, <2>11, SameHolderTyped DEF Reactivate, Accounts, Account
    <3> QED
      BY <1>2, <1>3, <2>11, <3>1, DoneTyped DEF Reactivate, Asked
  <2> QED
    BY <1>5, <2>1, <2>2, <2>3, <2>4, <2>5, <2>6, <2>7, <2>8, <2>9, <2>10, <2>11 DEF Handle
<1>6. ASSUME NEW q \in Requests, RequestLost(q) PROVE AccountsTypeOK'
  <2>1. Asked
    BY <1>6, DoneTyped DEF RequestLost, Asked
  <2>2. Past
    BY <1>6 DEF RequestLost, AccountsTypeOK, Request, Past
  <2>3. Opened
    BY <1>6 DEF RequestLost, AccountsTypeOK, Opened
  <2> QED
    BY <1>1, <1>3, <1>6, <2>1, <2>2, <2>3 DEF RequestLost
<1>7. ASSUME NEW s \in Sessions, Expire(s) PROVE AccountsTypeOK'
  <2>1. Opened
    BY <1>7, AccountsAssumption DEF Expire, AccountsTypeOK, Session, Ended, Unused, Opened
  <2> QED
    BY <1>1, <1>3, <1>7, <2>1 DEF Expire, AccountsTypeOK, Asked, Past
<1>8. CASE UNCHANGED accountsVars
  BY <1>8 DEF accountsVars, AccountsTypeOK, HolderOf
<1> QED
  BY <1>4, <1>5, <1>6, <1>7, <1>8 DEF AccountsNext

(* Every reachable state is well typed, and no identity signs in to two    *)
(* accounts, in whatever order sign-ins, linking and provisioning come.    *)
THEOREM AccountsTypeCorrect == AccountsSpec => []AccountsTypeOK
<1> QED
  BY InitTyped, StepTyped, PTL DEF AccountsSpec

-----------------------------------------------------------------------------
(* What a step may do to the accounts: at most one row is written; an      *)
(* administrator's row stays one, and only a deactivation makes a row      *)
(* inactive or adds to its count.                                          *)
Writes(e, r) ==
    /\ account' = [account EXCEPT ![e] = r]
    /\ r.role = "admin" => r.known
    /\ account[e].role = "admin" => r.role = "admin"
    /\ \/ \E q \in Requests : Deactivate(q) /\ request[q].email = e
       \/ (IsAdmin(e) => r.active) /\ r.deactivations <= account[e].deactivations

LEMMA OneRowWritten ==
    ASSUME AccountsTypeOK, AdminsKnown, [AccountsNext]_accountsVars
    PROVE  UNCHANGED account \/ \E e \in Emails, r \in Account : Writes(e, r)
<1> USE DEF Put, IsAdmin
<1>0. \A q \in Requests : /\ request[q].email \in Emails /\ request[q].identity \in Holder
                          /\ account[request[q].email] \in Account
                          /\ account[request[q].email].deactivations \in Nat
  <2>1. \A e \in Emails : account[e] \in Account /\ account[e].deactivations \in 0..MaxDeactivations
    BY DEF AccountsTypeOK, Account
  <2>2. \A q \in Requests : request[q].email \in Emails /\ request[q].identity \in Holder
    BY DEF AccountsTypeOK, Request
  <2>3. \A e \in Emails : account[e].deactivations \in Nat
    BY SMTT(60), <2>1, AccountsAssumption
  <2> QED
    BY <2>1, <2>2, <2>3
<1>1. ASSUME NEW q \in Requests, SignIn(q)
      PROVE  UNCHANGED account \/ \E e \in Emails, r \in Account : Writes(e, r)
  <2>1. CASE Link(q)
    <3> DEFINE e == request[q].email
               r == [account[e] EXCEPT !.identity = request[q].identity]
    <3>1. r \in Account /\ r.role = account[e].role /\ r.known = account[e].known
          /\ r.active = account[e].active /\ r.deactivations = account[e].deactivations
      BY <1>0 DEF Account
    <3>2. UNCHANGED account \/ account' = [account EXCEPT ![e] = r]
      BY <2>1 DEF Link
    <3>4. Writes(e, r) \/ UNCHANGED account
      <4> HIDE DEF r
      <4> QED
        BY <1>0, <3>1, <3>2 DEF AdminsKnown, Writes
    <3> QED
      BY <1>0, <3>1, <3>4
  <2>2. CASE InsertIdentity(q)
    <3> DEFINE e == request[q].email
               r == [Unknown EXCEPT !.known = TRUE, !.active = TRUE, !.identity = request[q].identity]
    <3>1. r \in Account /\ r.known /\ r.active /\ r.deactivations = 0
      BY <1>0, UnknownTyped DEF Account, Unknown
    <3>2. UNCHANGED account \/ (account' = [account EXCEPT ![e] = r] /\ ~ account[e].known)
      BY <2>2 DEF InsertIdentity
    <3>4. Writes(e, r) \/ UNCHANGED account
      <4> HIDE DEF r
      <4> QED
        BY <1>0, <3>1, <3>2 DEF AdminsKnown, Writes
    <3> QED
      BY <1>0, <3>1, <3>4
  <2> QED
    BY <1>1, <2>1, <2>2 DEF SignIn, PasswordLogin, Callback, ByEmail, Reload, LookAgain, Reread,
       CreateSession
<1>2. ASSUME NEW q \in Requests, Handle(q)
      PROVE  UNCHANGED account \/ \E e \in Emails, r \in Account : Writes(e, r)
  <2> DEFINE e == request[q].email
  <2>1. CASE ChangePassword(q)
    <3> DEFINE r == [account[e] EXCEPT !.password = TRUE, !.mustChange = FALSE]
    <3>1. r \in Account /\ r.role = account[e].role /\ r.known = account[e].known
          /\ (account[e].active => r.active) /\ r.deactivations = account[e].deactivations
      BY <1>0 DEF Account
    <3>2. account' = [account EXCEPT ![e] = r]
      BY <2>1 DEF ChangePassword
    <3>4. Writes(e, r) \/ UNCHANGED account
      <4> HIDE DEF r
      <4> QED
        BY <1>0, <3>1, <3>2 DEF AdminsKnown, Writes
    <3> QED
      BY <1>0, <3>1, <3>4
  <2>2. CASE SetUpProfile(q)
    <3> DEFINE r == [account[e] EXCEPT !.password = TRUE]
    <3>1. r \in Account /\ r.role = account[e].role /\ r.known = account[e].known
          /\ (account[e].active => r.active) /\ r.deactivations = account[e].deactivations
      BY <1>0 DEF Account
    <3>2. account' = [account EXCEPT ![e] = r]
      BY <2>2 DEF SetUpProfile
    <3>4. Writes(e, r) \/ UNCHANGED account
      <4> HIDE DEF r
      <4> QED
        BY <1>0, <3>1, <3>2 DEF AdminsKnown, Writes
    <3> QED
      BY <1>0, <3>1, <3>4
  <2>3. CASE CreateUser(q)
    <3> DEFINE r == [Unknown EXCEPT !.known = TRUE, !.active = TRUE, !.password = TRUE,
                                    !.mustChange = TRUE]
    <3>1. r \in Account /\ r.known /\ r.active /\ r.deactivations = 0
      BY UnknownTyped DEF Account, Unknown
    <3>2. UNCHANGED account \/ (account' = [account EXCEPT ![e] = r] /\ ~ account[e].known)
      BY <2>3 DEF CreateUser
    <3>4. Writes(e, r) \/ UNCHANGED account
      <4> HIDE DEF r
      <4> QED
        BY <1>0, <3>1, <3>2 DEF AdminsKnown, Writes
    <3> QED
      BY <1>0, <3>1, <3>4
  <2>4. CASE ResetPassword(q)
    <3> DEFINE r == [account[e] EXCEPT !.password = TRUE, !.mustChange = TRUE]
    <3>1. r \in Account /\ r.role = account[e].role /\ r.known = account[e].known
          /\ (account[e].active => r.active) /\ r.deactivations = account[e].deactivations
      BY <1>0 DEF Account
    <3>2. account' = [account EXCEPT ![e] = r]
      BY <2>4 DEF ResetPassword
    <3>4. Writes(e, r) \/ UNCHANGED account
      <4> HIDE DEF r
      <4> QED
        BY <1>0, <3>1, <3>2 DEF AdminsKnown, Writes
    <3> QED
      BY <1>0, <3>1, <3>4
  <2>5. CASE PreProvision(q)
    <3> DEFINE r == [Unknown EXCEPT !.known = TRUE, !.active = TRUE]
    <3>1. r \in Account /\ r.known /\ r.active /\ r.deactivations = 0
      BY UnknownTyped DEF Account, Unknown
    <3>2. UNCHANGED account \/ (account' = [account EXCEPT ![e] = r] /\ ~ account[e].known)
      BY <2>5 DEF PreProvision
    <3>4. Writes(e, r) \/ UNCHANGED account
      <4> HIDE DEF r
      <4> QED
        BY <1>0, <3>1, <3>2 DEF AdminsKnown, Writes
    <3> QED
      BY <1>0, <3>1, <3>4
  <2>6. ASSUME NEW role \in Roles, AssignRole(q, role)
        PROVE  UNCHANGED account \/ \E r \in Account : Writes(e, r)
    <3> DEFINE r == [account[e] EXCEPT !.role = IF @ = "admin" THEN @ ELSE role]
    <3>1. r \in Account /\ r.known = account[e].known /\ r.active = account[e].active
          /\ r.deactivations = account[e].deactivations
      BY <1>0 DEF Account, Roles
    <3>2. account[e].role = "admin" => r.role = "admin"
      BY <1>0 DEF Account
    <3>3. account' = [account EXCEPT ![e] = r] /\ account[e].known
      BY <2>6 DEF AssignRole
    <3>4. Writes(e, r) \/ UNCHANGED account
      <4> HIDE DEF r
      <4> QED
        BY <1>0, <3>1, <3>2, <3>3 DEF AdminsKnown, Writes
    <3> QED
      BY <1>0, <3>1, <3>4
  <2>7. CASE Deactivate(q)
    <3> DEFINE r == [account[e] EXCEPT !.active = FALSE, !.deactivations = @ + 1]
    <3>1. account[e].deactivations + 1 \in 0..MaxDeactivations
      BY <1>0, <2>7, AccountsAssumption DEF Deactivate, Account
    <3>2. r \in Account /\ r.role = account[e].role /\ r.known = account[e].known
      BY <1>0, <3>1 DEF Account
    <3>3. account' = [account EXCEPT ![e] = r]
      BY <2>7 DEF Deactivate
    <3> QED
      BY <1>0, <2>7, <3>2, <3>3 DEF AdminsKnown, Writes
  <2>8. CASE Reactivate(q)
    <3> DEFINE r == [account[e] EXCEPT !.active = TRUE]
    <3>1. r \in Account /\ r.role = account[e].role /\ r.known = account[e].known
          /\ (account[e].active => r.active) /\ r.deactivations = account[e].deactivations
      BY <1>0 DEF Account
    <3>2. account' = [account EXCEPT ![e] = r]
      BY <2>8 DEF Reactivate
    <3>4. Writes(e, r) \/ UNCHANGED account
      <4> HIDE DEF r
      <4> QED
        BY <1>0, <3>1, <3>2 DEF AdminsKnown, Writes
    <3> QED
      BY <1>0, <3>1, <3>4
  <2> QED
    BY <1>0, <1>2, <2>1, <2>2, <2>3, <2>4, <2>5, <2>6, <2>7, <2>8
       DEF Handle, Admit, ReadExisting, InvalidateAll
<1> QED
  BY <1>1, <1>2 DEF AccountsNext, RequestLost, Expire, accountsVars

(* A step of one request leaves the others where they are.                 *)
LEMMA OthersWait ==
    ASSUME AccountsTypeOK, NEW q \in Requests, SignIn(q) \/ Handle(q) \/ RequestLost(q),
           NEW p \in Requests, p # q
    PROVE  request'[p] = request[p]
<1>1. CASE SignIn(q)
  <2>1. ASSUME NEW i \in Holder, NEW step \in Steps, GoOnAs(q, i, step)
        PROVE  request'[p] = request[p]
    BY <2>1 DEF GoOnAs, Goto, AccountsTypeOK
  <2>2. request[q].identity \in Holder
    BY DEF AccountsTypeOK, Request
  <2>3. Reload(q) \/ LookAgain(q) \/ Reread(q) => request'[p] = request[p]
    BY <2>1, <2>2 DEF Reload, LookAgain, Reread, Steps
  <2>4. ASSUME NEW claim \in Claims, Callback(q, claim) PROVE request'[p] = request[p]
    <3>1. \E r : request' = [request EXCEPT ![q] = r]
      BY ZenonT(60), <2>4 DEF Callback, HolderOf
    <3> QED
      BY <3>1 DEF AccountsTypeOK
  <2> QED
    BY <1>1, <2>3, <2>4 DEF SignIn, PasswordLogin, ByEmail, Link, InsertIdentity, CreateSession,
       Goto, Done, AccountsTypeOK
<1>2. CASE Handle(q)
  BY <1>2 DEF Handle, Admit, ChangePassword, SetUpProfile, CreateUser, ResetPassword, ReadExisting,
     PreProvision, AssignRole, Deactivate, InvalidateAll, Reactivate, Refuse, Goto, Done, AccountsTypeOK
<1>3. CASE RequestLost(q)
  BY <1>3 DEF RequestLost, Done, AccountsTypeOK
<1> QED
  BY <1>1, <1>2, <1>3

(* A sign-in reaches no handler and sweeps no session.                     *)
LEMMA SignInGoesOn ==
    ASSUME AccountsTypeOK, NEW q \in Requests, SignIn(q)
    PROVE  request'[q].at \notin {"handler", "sweep"}
<1>0. request \in [Requests -> Request]
  BY DEF AccountsTypeOK
<1>1. ASSUME NEW step, Goto(q, step) PROVE request'[q].at = step
  BY <1>0, <1>1 DEF Goto
<1>2. ASSUME NEW i, NEW step, GoOnAs(q, i, step) PROVE request'[q].at \in {"session", step}
  <2>1. CASE HolderOf(i) = {}
    BY <1>1, <1>2, <2>1 DEF GoOnAs
  <2>2. CASE HolderOf(i) # {}
    <3>1. PICK e : request' = [request EXCEPT ![q].at = "session", ![q].email = e]
      BY <1>2, <2>2 DEF GoOnAs
    <3> QED
      BY <1>0, <3>1 DEF Request
  <2> QED
    BY <2>1, <2>2
<1>3. CASE \E e \in Emails : PasswordLogin(q, e)
  BY <1>0, <1>3 DEF PasswordLogin, Idle
<1>4. ASSUME NEW claim \in Claims, Callback(q, claim) 
      PROVE  request'[q].at \notin {"handler", "sweep"}
  BY <1>0, <1>4 DEF Callback, Idle
<1>5. CASE ByEmail(q)
  <2>1. PICK step \in {"link", "look again"} :
            request' = [request EXCEPT ![q].at = step, ![q].seen = RowOf(request[q].email)]
    BY <1>5 DEF ByEmail
  <2> QED
    BY <1>0, <2>1 DEF Request
<1>6. CASE Link(q) \/ InsertIdentity(q)
  <2>1. Goto(q, "refused") \/ Goto(q, "reload") \/ Goto(q, "reread")
    BY <1>6 DEF Link, InsertIdentity
  <2> QED
    BY <1>1, <2>1
<1>7. CASE Reload(q) \/ LookAgain(q) \/ Reread(q)
  <2>1. \E step \in {"look again", "insert", "refused"} : GoOnAs(q, request[q].identity, step)
    BY <1>7 DEF Reload, LookAgain, Reread
  <2> QED
    BY <1>2, <2>1
<1>8. CASE \E s \in Sessions : CreateSession(q, s)
  <2>1. Done(q)
    BY <1>8 DEF CreateSession
  <2> QED
    BY <1>0, <2>1 DEF Done, Idle
<1> QED
  BY <1>3, <1>4, <1>5, <1>6, <1>7, <1>8 DEF SignIn

(* Only the session check hands out an administrative operation, to an     *)
(* administrator.                                                          *)
LEMMA AdmittedIsInductive ==
    ASSUME AccountsTypeOK, AdminsKnown, AdmittedByAdmin, [AccountsNext]_accountsVars
    PROVE  AdmittedByAdmin' /\ AdminsKnown'
<1>1. \A e \in Emails : /\ account[e].role = "admin" => account'[e].role = "admin"
                        /\ account'[e].role = "admin" => account'[e].known
  BY OneRowWritten DEF AccountsTypeOK, AdminsKnown, Writes
<1>2. \A q \in Requests : At(q, "handler")' /\ request'[q].op \in AdminOps =>
          /\ request'[q].by \in Emails
          /\ account[request'[q].by].role = "admin"
  <2> SUFFICES ASSUME NEW p \in Requests, At(p, "handler")', request'[p].op \in AdminOps
               PROVE  request'[p].by \in Emails /\ account[request'[p].by].role = "admin"
    OBVIOUS
  <2>1. CASE request'[p] = request[p]
    BY <2>1 DEF AdmittedByAdmin, AccountsTypeOK, Request, At
  <2>2. CASE request'[p] # request[p]
    <3>1. PICK s \in Sessions, op \in OwnOps \cup AdminOps, x \in Emails : Admit(p, s, op, x)
      <4>1. SignIn(p) \/ Handle(p) \/ RequestLost(p)
        BY <2>2, OthersWait DEF AccountsNext, Expire, accountsVars
      <4>2. ~ SignIn(p)
        BY SignInGoesOn DEF At
      <4>0. request \in [Requests -> Request] /\ request'[p].at = "handler"
        BY DEF AccountsTypeOK, At
      <4>5. ~ Done(p)
        <5> SUFFICES ASSUME Done(p) PROVE FALSE
          OBVIOUS
        <5>1. request'[p] = Idle
          BY <4>0 DEF Done
        <5>2. Idle.at = "idle"
          BY DEF Idle
        <5> QED
          BY <4>0, <5>1, <5>2
      <4>3. CASE Handle(p)
        <5>1. ~ Refuse(p) /\ \A step \in {"sweep", "role", "refused"} : ~ Goto(p, step)
          BY <4>0 DEF Refuse, Goto, Request
        <5>2. ~ ReadExisting(p)
          BY <4>0 DEF ReadExisting, Request
        <5>3. ~ ChangePassword(p) /\ ~ SetUpProfile(p) /\ ~ CreateUser(p) /\ ~ ResetPassword(p)
          BY <4>5, <5>1 DEF ChangePassword, SetUpProfile, CreateUser, ResetPassword
        <5>4. ~ PreProvision(p) /\ ~ Deactivate(p) /\ ~ InvalidateAll(p) /\ ~ Reactivate(p)
          BY <4>5, <5>1 DEF PreProvision, Deactivate, InvalidateAll, Reactivate
        <5>5. \A role \in Roles : ~ AssignRole(p, role)
          BY <4>5 DEF AssignRole
        <5> QED
          BY <4>3, <5>2, <5>3, <5>4, <5>5 DEF Handle
      <4>4. ~ RequestLost(p)
        BY <4>5 DEF RequestLost
      <4> QED
        BY <4>1, <4>2, <4>3, <4>4
    <3>2. request'[p] = [Idle EXCEPT !.at = "handler", !.op = op, !.email = x,
                                     !.by = session[s].user]
      BY <3>1 DEF Admit, AccountsTypeOK
    <3> QED
      BY <3>1, <3>2 DEF Admit, AccountsTypeOK, Session, Idle, Request
  <2> QED
    BY <2>1, <2>2
<1> QED
  BY <1>1, <1>2 DEF AdmittedByAdmin, AdminsKnown

(* There is an active administrator unless two deactivated each other      *)
(* (admin.py refuses only one's own account): the last to be deactivated   *)
(* was so by another, who is an administrator still and, had nobody        *)
(* deactivated them first, an active one.                                  *)
THEOREM ActiveAdminAlwaysRemains == AccountsSpec => []ActiveAdminRemains
<1> DEFINE Inv == AccountsTypeOK /\ AdminsKnown /\ AdmittedByAdmin /\ ActiveAdminRemains
<1>1. AccountsInit => AdminsKnown /\ AdmittedByAdmin /\ ActiveAdminRemains
  <2> SUFFICES ASSUME AccountsInit PROVE AdminsKnown /\ AdmittedByAdmin /\ ActiveAdminRemains
    OBVIOUS
  <2>1. IsAdmin(First) /\ First \in Emails
    BY AccountsAssumption DEF AccountsInit, Unknown, IsAdmin
  <2> QED
    BY <2>1 DEF AccountsInit, Unknown, Idle, At, AdminsKnown, AdmittedByAdmin, ActiveAdminRemains
<1>2. AccountsTypeOK /\ AdminsKnown /\ AdmittedByAdmin /\ ActiveAdminRemains /\ [AccountsNext]_accountsVars
        => ActiveAdminRemains'
  <2> SUFFICES ASSUME AccountsTypeOK, AdminsKnown, AdmittedByAdmin, ActiveAdminRemains, [AccountsNext]_accountsVars
               PROVE  ActiveAdminRemains'
    OBVIOUS
  <2>1. CASE \E q \in Requests : Deactivate(q)
    <3>1. PICK q \in Requests : Deactivate(q)
      BY <2>1
    <3> DEFINE me == request[q].by
    <3>2. me \in Emails /\ account[me].role = "admin" /\ me # request[q].email
      BY <3>1 DEF Deactivate, Handles, AdmittedByAdmin, AdminOps, AccountsTypeOK, Request
    <3>3. CASE account[me].active
      BY <3>1, <3>2, <3>3 DEF Deactivate, Put, AccountsTypeOK, ActiveAdminRemains, IsAdmin
    <3>4. CASE ~ account[me].active
      BY <3>1, <3>4 DEF Deactivate, AccountsTypeOK, ActiveAdminRemains
    <3> QED
      BY <3>3, <3>4
  <2>2. CASE ~ \E q \in Requests : Deactivate(q)
    <3>1. history'.crossed = history.crossed
      BY <2>2 DEF AccountsNext, SignIn, PasswordLogin, Callback, ByEmail, Link, Reload, LookAgain,
         InsertIdentity, Reread, CreateSession, Handle, Admit, ChangePassword, SetUpProfile,
         CreateUser, ResetPassword, ReadExisting, PreProvision, AssignRole, InvalidateAll,
         Reactivate, RequestLost, Expire, Keep, accountsVars, AccountsTypeOK
    <3>2. \A e \in Emails : IsAdmin(e) => IsAdmin(e)'
      BY <2>2, OneRowWritten DEF Writes, IsAdmin, AccountsTypeOK
    <3> QED
      BY <3>1, <3>2 DEF ActiveAdminRemains
  <2> QED
    BY <2>1, <2>2
<1>3. Inv /\ [AccountsNext]_accountsVars => Inv'
  BY <1>2, AdmittedIsInductive, StepTyped
<1> QED
  BY <1>1, <1>3, InitTyped, PTL DEF AccountsSpec

(* A step that writes neither sessions nor the history, of a request that  *)
(* is not about to sweep.                                                  *)
LEMMA QuietSteps ==
    ASSUME AccountsTypeOK, AccountsTypeOK', DeactivationEndsSessions, UNCHANGED <<session, history>>,
           NEW q \in Requests, ~ At(q, "sweep"),
           \A p \in Requests : p # q => request'[p] = request[p],
           \A e \in Emails : account'[e].deactivations <= account[e].deactivations
    PROVE  DeactivationEndsSessions'
<1> SUFFICES ASSUME NEW s \in Sessions, Live(s)',
                    session'[s].born < account'[session'[s].user].deactivations,
                    session'[s].user \notin history'.unswept
             PROVE  \E p \in Requests : At(p, "sweep")' /\ request'[p].email = session'[s].user
  BY DEF DeactivationEndsSessions
<1>1. session[s].user \in Emails /\ session[s].born \in Nat
  <2>1. session[s].user \in Emails /\ session[s].born \in 0..MaxDeactivations
    BY DEF AccountsTypeOK, Session
  <2> QED
    BY <2>1, AccountsAssumption
<1>2. \A e \in Emails : account[e].deactivations \in Nat /\ account'[e].deactivations \in Nat
  <2>1. \A e \in Emails : /\ account[e].deactivations \in 0..MaxDeactivations
                          /\ account'[e].deactivations \in 0..MaxDeactivations
    BY DEF AccountsTypeOK, Account
  <2> QED
    BY <2>1, AccountsAssumption
<1>3. PICK p \in Requests : At(p, "sweep") /\ request[p].email = session[s].user
  BY <1>1, <1>2 DEF DeactivationEndsSessions, Live
<1> QED
  BY <1>3 DEF At

(* The sessions a deactivation leaves live are swept by its own request,   *)
(* or that request was lost: nothing else has to look for them.            *)
THEOREM DeactivationSweepsSessions == AccountsSpec => []DeactivationEndsSessions
<1>1. AccountsInit => DeactivationEndsSessions
  BY DEF AccountsInit, DeactivationEndsSessions, Live, Unused
<1>2. AccountsTypeOK /\ AccountsTypeOK' /\ AdminsKnown /\ DeactivationEndsSessions /\ [AccountsNext]_accountsVars
        => DeactivationEndsSessions'
  <2> SUFFICES ASSUME AccountsTypeOK, AccountsTypeOK', AdminsKnown, DeactivationEndsSessions, [AccountsNext]_accountsVars
               PROVE  DeactivationEndsSessions'
    OBVIOUS
  <2>1. ASSUME NEW q \in Requests, Deactivate(q) PROVE DeactivationEndsSessions'
    <3> DEFINE e == request[q].email
    <3>1. /\ request' = [request EXCEPT ![q].at = "sweep"]
          /\ UNCHANGED session /\ history'.unswept = history.unswept
          /\ \A x \in Emails : x # e => account'[x] = account[x]
          /\ request[q].at = "handler"
      BY <2>1 DEF Deactivate, Goto, Put, Handles, At, AccountsTypeOK
    <3>2. request'[q].at = "sweep" /\ request'[q].email = e
      BY ZenonT(60), <3>1 DEF AccountsTypeOK, Request
    <3>3. \A p \in Requests : p # q => request'[p] = request[p]
      BY <3>1 DEF AccountsTypeOK
    <3>4. \A s \in Sessions : session[s].user \in Emails
      BY DEF AccountsTypeOK, Session
    <3> QED
      BY <3>1, <3>2, <3>3, <3>4 DEF DeactivationEndsSessions, Live, At
  <2>2. ASSUME NEW q \in Requests, InvalidateAll(q) PROVE DeactivationEndsSessions'
    <3> DEFINE e == request[q].email
    <3>1. UNCHANGED <<account, history>> /\ \A p \in Requests : p # q => request'[p] = request[p]
      BY <2>2 DEF InvalidateAll, Done, AccountsTypeOK
    <3>2. \A s \in Sessions : Live(s)' => session'[s] = session[s] /\ session[s].user # e
      BY <2>2 DEF InvalidateAll, Live, Ended, Unused, AccountsTypeOK
    <3> QED
      BY <3>1, <3>2 DEF DeactivationEndsSessions, Live, At
  <2>3. ASSUME NEW q \in Requests, RequestLost(q) PROVE DeactivationEndsSessions'
    <3>1. UNCHANGED <<account, session>> /\ \A p \in Requests : p # q => request'[p] = request[p]
      BY <2>3 DEF RequestLost, Done, AccountsTypeOK
    <3>2. /\ history.unswept \subseteq history'.unswept
          /\ At(q, "sweep") => request[q].email \in history'.unswept
      BY <2>3 DEF RequestLost, AccountsTypeOK
    <3> QED
      BY <3>1, <3>2 DEF DeactivationEndsSessions, Live, At
  <2>4. ASSUME NEW q \in Requests, NEW s \in Sessions, CreateSession(q, s)
        PROVE  DeactivationEndsSessions'
    <3>1. UNCHANGED <<account, history>> /\ \A p \in Requests : p # q => request'[p] = request[p]
      BY <2>4 DEF CreateSession, Done, AccountsTypeOK
    <3>2. /\ \A t \in Sessions : t # s => session'[t] = session[t]
          /\ session'[s].born = account[session'[s].user].deactivations
      BY <2>4 DEF CreateSession, AccountsTypeOK
    <3>3. request[q].at = "session"
      BY <2>4 DEF CreateSession, At
    <3>4. account[session'[s].user].deactivations \in Nat
      <4>1. session'[s].user \in Emails
        BY DEF AccountsTypeOK, Session
      <4>2. account[session'[s].user].deactivations \in 0..MaxDeactivations
        BY <4>1 DEF AccountsTypeOK, Account
      <4> QED
        BY <4>2, AccountsAssumption
    <3> QED
      BY <3>1, <3>2, <3>3, <3>4 DEF DeactivationEndsSessions, Live, At
  <2>5. ASSUME NEW s \in Sessions, Expire(s) PROVE DeactivationEndsSessions'
    <3>1. /\ UNCHANGED <<account, request, history>>
          /\ \A t \in Sessions : Live(t)' => session'[t] = session[t]
      BY <2>5 DEF Expire, Live, Ended, Unused, AccountsTypeOK
    <3> QED
      BY <3>1 DEF DeactivationEndsSessions, Live, At
  <2>6. CASE UNCHANGED accountsVars
    BY <2>6 DEF accountsVars, DeactivationEndsSessions, Live, At
  <2>7. CASE ~ \E q \in Requests : Deactivate(q)
    <3>1. \A e \in Emails : account'[e].deactivations <= account[e].deactivations
      <4>1. \A e \in Emails : account[e].deactivations \in Nat
        <5>1. \A e \in Emails : account[e].deactivations \in 0..MaxDeactivations
          BY DEF AccountsTypeOK, Account
        <5> QED
          BY <5>1, AccountsAssumption
      <4> QED
        BY <2>7, <4>1, OneRowWritten DEF Writes, AccountsTypeOK
    <3>2. ASSUME NEW q \in Requests, SignIn(q), \A s \in Sessions : ~ CreateSession(q, s)
          PROVE  DeactivationEndsSessions'
      <4>1. Keep /\ ~ At(q, "sweep")
        BY <3>2 DEF SignIn, PasswordLogin, Callback, ByEmail, Link, Reload, LookAgain,
           InsertIdentity, Reread, At
      <4> QED
        BY <3>1, <3>2, <4>1, OthersWait, QuietSteps DEF Keep
    <3>3. ASSUME NEW q \in Requests, Handle(q), ~ InvalidateAll(q)
          PROVE  DeactivationEndsSessions'
      <4>1. Keep /\ ~ At(q, "sweep")
        BY <2>7, <3>3 DEF Handle, Admit, ChangePassword, SetUpProfile, CreateUser, ResetPassword,
           ReadExisting, PreProvision, AssignRole, Reactivate, Handles, At
      <4> QED
        BY SMTT(60), <3>1, <3>3, <4>1, OthersWait, QuietSteps DEF Keep
    <3> QED
      BY <2>2, <2>3, <2>4, <2>5, <2>6, <3>2, <3>3 DEF AccountsNext
  <2> QED
    BY <2>1, <2>7
<1>3. AccountsInit => AdminsKnown /\ AdmittedByAdmin
  <2> SUFFICES ASSUME AccountsInit PROVE AdminsKnown /\ AdmittedByAdmin
    OBVIOUS
  <2>1. AdminsKnown
    BY DEF AccountsInit, Unknown, AdminsKnown
  <2>2. AdmittedByAdmin
    BY DEF AccountsInit, Idle, At, AdmittedByAdmin
  <2> QED
    BY <2>1, <2>2
<1> DEFINE Inv == AccountsTypeOK /\ AdminsKnown /\ AdmittedByAdmin /\ DeactivationEndsSessions
<1>4. Inv /\ [AccountsNext]_accountsVars => Inv'
  BY <1>2, AdmittedIsInductive, StepTyped
<1> QED
  BY <1>1, <1>3, <1>4, InitTyped, PTL DEF AccountsSpec

=============================================================================
