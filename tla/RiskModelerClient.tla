------------------------- MODULE RiskModelerClient -------------------------
(***************************************************************************)
(* The HTTP client of irp_integration and the calls built on it.  The      *)
(* threads of a process share one client, hence one token.  Client.request *)
(* sends one request: the transport repeats an attempt that was not        *)
(* answered, or answered 429 or 5xx, whatever the method; a 401 leads to   *)
(* one login and one more sending.  Above it: look for a name and create   *)
(* it when absent (tags, exposure sets), execute_workflow, the four ways a *)
(* batch of jobs is polled, and the walk over the pages of a search.       *)
(*                                                                         *)
(* Risk Modeler is external: it serves, refuses or does not get an         *)
(* attempt, and an answer may be lost after it served.  Response bodies,   *)
(* back-off times and the checks of arguments are left out.                *)
(***************************************************************************)
EXTENDS Integers, FiniteSets, Sequences, FiniteSetsExt, SequencesExt

CONSTANTS Threads,      \* threads that share the client, one call each
          Jobs,         \* what Risk Modeler may hold: workflows, tags, sets
          Running,      \* those of Jobs it runs from the start
          Unlisted,     \* a job id Risk Modeler knows nothing of
          Names,        \* names of tags and exposure sets
          Processes,    \* how a process authenticates, the calls each of its
                        \* threads may make, what a search would list for it
          Retries,      \* Retry(total=...): further attempts of one sending
          Page,         \* the limit of a page of jobs
          Limit,        \* the limit of a page of a search
          MaxPages,     \* the most pages a search asks for
          Rows,         \* rows a search may list
          MaxChanges,   \* bound: rows that come or go
          NoOne

Paged == {"workflows", "analyses", "riskdata"}
AllKinds == {"named", "execute", "each", "search"} \cup Paged

ASSUME ClientConstants ==
    /\ Jobs \subseteq Nat /\ Unlisted \in Nat \ Jobs /\ Running \subseteq Jobs
    /\ Processes \subseteq [mode : {"apikey", "bearer"}, does : [Threads -> SUBSET AllKinds],
                         lists : Seq(Rows),
                         server : {"records", "pages", "clamps", "stuck", "ignores"}]
    /\ Limit \in Nat \ {0} /\ MaxPages \in Nat \ {0} /\ MaxChanges \in Nat
    /\ Retries \in Nat /\ Page \in Nat \ {0}
    /\ NoOne \notin Threads \cup Names

VARIABLES process,   \* the process the client lives in
          token,     \* the session's Authorization header
          job,       \* what Risk Modeler holds
          rows,      \* what the search lists, in its order, and how often it changed
          call       \* the call of each thread

vars == <<process, token, job, rows, call>>

-----------------------------------------------------------------------------

NoJob == [state |-> "none", by |-> NoOne, name |-> NoOne, beside |-> {}]

NoCall == [kind |-> "none", step |-> "idle", at |-> "none", name |-> NoOne,
           want |-> <<>>, left |-> 0, again |-> FALSE, sent |-> "fresh",
           off |-> 0, seen |-> <<>>, kept |-> {}, late |-> FALSE, unheard |-> 0,
           answer |-> "none"]

(* Client.__init__ logs in when no API key is set. *)
Init ==
    /\ process \in Processes
    /\ token = "fresh"
    /\ job = [j \in Jobs |-> IF j \in Running THEN [NoJob EXCEPT !.state = "running"]
                             ELSE NoJob]
    /\ rows = [list |-> process.lists, changes |-> 0]
    /\ call = [t \in Threads |-> NoCall]

(* What a search for the ids of w lists: each once, those it knows, in an  *)
(* order that is always the same.                                          *)
Listed(w) == SetToSeq({j \in ToSet(w) \cap Jobs : job[j].state # "none"})

Named(n) == {j \in Jobs : job[j].state # "none" /\ job[j].name = n}

(* The calls that found nothing of their name and have not ended. *)
Creating == {t \in Threads : call[t].at = "create" /\ call[t].step # "done"}

(* The next request of the call. *)
Asks(c, what) == [c EXCEPT !.step = "ready", !.at = what, !.left = 0, !.again = FALSE,
                           !.sent = "fresh"]

(* The call raises: with a 4xx status, which the gateway calls permanent,  *)
(* with a 5xx or none, which it does not, or because the poll is late.     *)
Raises(c, why) == [c EXCEPT !.step = "done", !.answer = why, !.left = 0,
                            !.sent = "fresh", !.late = FALSE]

Returns(c, s) == [Raises(c, "returned") EXCEPT !.seen = s]

-----------------------------------------------------------------------------
(* The calls.                                                              *)

(* get_tag_ids_from_tag_names, get_or_create_exposure_set: search first. *)
GetOrCreate(t) ==
    /\ "named" \in process.does[t]
    /\ call[t].step = "idle"
    /\ \E n \in Names :
          call' = [call EXCEPT ![t] = Asks([@ EXCEPT !.kind = "named", !.name = n], "find")]
    /\ UNCHANGED <<process, token, job, rows>>

Execute(t) ==
    /\ "execute" \in process.does[t]
    /\ call[t].step = "idle"
    /\ call' = [call EXCEPT ![t] = Asks([@ EXCEPT !.kind = "execute"], "create")]
    /\ UNCHANGED <<process, token, job, rows>>

(* A batch poll over a list of ids the caller holds. *)
PollBatch(t) ==
    /\ call[t].step = "idle"
    /\ \E k \in process.does[t] \cap (Paged \cup {"each"}), a, b \in Running \cup {Unlisted} :
          call' = [call EXCEPT ![t] =
                     Asks([@ EXCEPT !.kind = k, !.want = <<a, b>>], "look")]
    /\ UNCHANGED <<process, token, job, rows>>

(* A search over every page.  kept: the rows there from the start, but for *)
(* those with a gone row before them.                                      *)
Search(t) ==
    /\ "search" \in process.does[t]
    /\ call[t].step = "idle"
    /\ call' = [call EXCEPT ![t] = Asks([@ EXCEPT !.kind = "search",
                                                 !.kept = ToSet(rows.list)], "walk")]
    /\ UNCHANGED <<process, token, job, rows>>

-----------------------------------------------------------------------------
(* Client.request.                                                         *)

(* Session.request prepares the headers once: every attempt of a sending   *)
(* carries the token read here.                                            *)
Send(t) ==
    /\ call[t].step \in {"ready", "resend"}
    /\ call' = [call EXCEPT ![t].step = "flight", ![t].left = Retries, ![t].sent = token]
    /\ UNCHANGED <<process, token, job, rows>>

\* Mutant: one attempt too many.
RepeatOnceMore(c, lost) ==
    IF c.left >= 0 THEN [c EXCEPT !.left = @ - 1, !.unheard = @ + lost]
    ELSE Raises([c EXCEPT !.unheard = @ + lost], "unavailable")

(* The transport's Retry: POST is among its methods. *)
Repeat(c, lost) ==
    IF c.left > 0 THEN [c EXCEPT !.left = @ - 1, !.unheard = @ + lost]
    ELSE Raises([c EXCEPT !.unheard = @ + lost], "unavailable")

NotServed(t) ==
    /\ call[t].step \in {"flight", "login"}
    /\ call' = [call EXCEPT ![t] = Repeat(@, 0)]
    /\ UNCHANGED <<process, token, job, rows>>

(* 401: one login and one more sending in bearer mode, else an error. *)
Unauthorized(t) ==
    /\ call[t].step = "flight"
    /\ call[t].sent = "stale"
    /\ call' = [call EXCEPT ![t] =
                  IF process.mode = "bearer" /\ ~@.again
                  THEN [@ EXCEPT !.step = "login", !.left = Retries, !.sent = "fresh"]
                  ELSE Raises(@, "refused")]
    /\ UNCHANGED <<process, token, job, rows>>

(* Any other 4xx, of the request or of the login. *)
Refused(t) ==
    /\ \/ call[t].step = "login"
       \/ call[t].step = "flight" /\ call[t].sent = "fresh"
    /\ call' = [call EXCEPT ![t] = Raises(@, "refused")]
    /\ UNCHANGED <<process, token, job, rows>>

\* Mutant: the login is not counted.
LoggedInAgain(t) ==
    /\ call[t].step = "login"
    /\ token' = "fresh"
    /\ call' = [call EXCEPT ![t].step = "resend", ![t].left = 0]
    /\ UNCHANGED <<process, job, rows>>

(* _login installs the new token for every thread of the client. *)
LoggedIn(t) ==
    /\ call[t].step = "login"
    /\ token' = "fresh"
    /\ call' = [call EXCEPT ![t].step = "resend", ![t].left = 0, ![t].again = TRUE]
    /\ UNCHANGED <<process, job, rows>>

-----------------------------------------------------------------------------
(* What is done with an answer.                                            *)

\* Mutant: what the search found is not used.
FoundUnused(t) ==
    /\ call[t].step = "flight" /\ call[t].at = "find" /\ call[t].sent = "fresh"
    /\ call' = [call EXCEPT ![t] = Asks(@, "create")]
    /\ UNCHANGED <<process, token, job, rows>>

Found(t) ==
    /\ call[t].step = "flight" /\ call[t].at = "find" /\ call[t].sent = "fresh"
    /\ call' = [call EXCEPT ![t] = IF Named(@.name) # {} THEN Returns(@, <<>>)
                                   ELSE Asks(@, "create")]
    /\ UNCHANGED <<process, token, job, rows>>

(* Risk Modeler serves a POST.  Its answer is lost and the transport sends *)
(* the same request again; or it names no location, which raises without a *)
(* status; or the call has what it asked for, the job still to be waited   *)
(* for when the answer was 201 or 202 to execute_workflow.                 *)
Created(t) ==
    /\ call[t].step = "flight" /\ call[t].at = "create" /\ call[t].sent = "fresh"
    /\ \E j \in Jobs, s \in {"running", "ended"} :
          /\ job[j].state = "none"
          /\ s = "running" => call[t].kind = "execute"
          /\ job' = [job EXCEPT ![j] = [state |-> s, by |-> t, name |-> call[t].name,
                                       beside |-> Creating]]
          /\ \/ call' = [call EXCEPT ![t] = Repeat(@, 1)]
             \/ call' = [call EXCEPT ![t] =
                           Raises([call[t] EXCEPT !.unheard = @ + 1], "unavailable")]
             \/ call' = [call EXCEPT ![t] =
                           IF s = "ended" THEN Returns([@ EXCEPT !.want = <<j>>], <<>>)
                           ELSE Asks([@ EXCEPT !.want = <<j>>], "look")]
    /\ UNCHANGED <<process, token, rows>>

(* The end of a round of polling: return, give up, or sleep and look again. *)
Round(c, over, s) ==
    IF over THEN Returns(c, s)
    ELSE IF c.late THEN Raises(c, "late")
    ELSE Asks([c EXCEPT !.off = 0, !.seen = <<>>], "look")

Status(js) == [i \in DOMAIN js |-> [id |-> js[i], state |-> job[js[i]].state]]

AllEnded(s) == \A i \in DOMAIN s : s[i].state # "running"

(* poll_workflow: one job by its own address. *)
LookedOnce(c) ==
    Round(c, job[c.want[1]].state = "ended", Status(c.want))

(* The k-th job of a data-version or geohaz batch is still in progress: it  *)
(* ends the round, and the flag left by the jobs before it decides.        *)
StillRunning(c, k) == Round(c, k > 1, <<>>)

(* The jobs of a geohaz or data-version batch, one request each.           *)
LookedEach(c) ==
    LET k == c.off + 1
        s == Append(c.seen, [id |-> c.want[k], state |-> "ended"])
    IN  IF Listed(<<c.want[k]>>) = <<>> THEN Raises(c, "refused")
        ELSE IF job[c.want[k]].state = "running" THEN StillRunning(c, k)
        ELSE IF k = Len(c.want) THEN Round(c, TRUE, s)
        ELSE Asks([c EXCEPT !.off = k, !.seen = s], "look")

\* Mutant: a page that is full is taken for the last.
FirstPage(c, s, new) ==
    \/ Len(s) >= Page
    \/ c.kind = "riskdata" /\ new = <<>>

(* The last page of a round, for each of the paged polls. *)
LastPage(c, s, new) ==
    \/ c.kind = "workflows" /\ Len(s) >= Len(Listed(c.want))
    \/ c.kind # "workflows" /\ Len(s) >= Len(c.want)
    \/ c.kind = "riskdata" /\ new = <<>>

(* The offset is kept at most the number of ids: every page from there on  *)
(* is empty.                                                               *)
LookedPage(c) ==
    LET l   == Listed(c.want)
        new == Status(SubSeq(l, c.off + 1, Min({c.off + Page, Len(l)})))
        s   == c.seen \o new
    IN  IF LastPage(c, s, new)
        THEN Round(c, AllEnded(s), IF c.kind = "workflows" THEN new ELSE s)
        ELSE Asks([c EXCEPT !.off = Min({@ + Page, Len(c.want)}), !.seen = s], "look")

Looked(t) ==
    /\ call[t].step = "flight" /\ call[t].at = "look" /\ call[t].sent = "fresh"
    /\ call' = [call EXCEPT ![t] = CASE @.kind = "execute" -> LookedOnce(@)
                                     [] @.kind = "each" -> LookedEach(@)
                                     [] OTHER -> LookedPage(@)]
    /\ UNCHANGED <<process, token, job, rows>>

(* One page of the search: rows from a record offset, as the walk takes it *)
(* to be; or of a page number; or of the last page when past the end; or   *)
(* the first page whatever the offset; or all the rows whatever was asked. *)
PageOf(list, offset) ==
    LET from == CASE process.server = "pages" -> offset * Limit
                  [] process.server = "clamps" /\ offset >= Len(list) /\ list # <<>>
                       -> ((Len(list) - 1) \div Limit) * Limit
                  [] process.server = "stuck" -> 0
                  [] OTHER -> offset
    IN  IF process.server = "ignores" THEN list
        ELSE SubSeq(list, from + 1, Min({from + Limit, Len(list)}))

(* The pages before the k-th of the walk were full. *)
Repeats(s, k, page) ==
    \E i \in 0..(k - 1) : SubSeq(s, i * Limit + 1, (i + 1) * Limit) = page

\* Mutant: neither a page seen before nor the ceiling raises.
WalkToCeiling(c, page) ==
    LET s == c.seen \o page IN
    IF Len(page) # Limit \/ c.off + 1 >= MaxPages THEN Returns(c, s)
    ELSE Asks([c EXCEPT !.off = @ + 1, !.seen = s], "walk")

(* paginate_search: a first page that is too long is everything; a short   *)
(* or empty page is the last; a page seen before, and the last one allowed *)
(* when still full, raise.                                                 *)
Walk(c, page) ==
    LET s == c.seen \o page IN
    IF c.off = 0 /\ Len(page) > Limit THEN Returns(c, s)
    ELSE IF c.off > 0 /\ page # <<>> /\ Repeats(c.seen, c.off, page)
         THEN Raises(c, "unavailable")
    ELSE IF Len(page) < Limit THEN Returns(c, s)
    ELSE IF c.off + 1 >= MaxPages THEN Raises(c, "unavailable")
    ELSE Asks([c EXCEPT !.off = @ + 1, !.seen = s], "walk")

Walked(t) ==
    /\ call[t].step = "flight" /\ call[t].at = "walk" /\ call[t].sent = "fresh"
    /\ call' = [call EXCEPT ![t] = Walk(@, PageOf(rows.list, @.off * Limit))]
    /\ UNCHANGED <<process, token, job, rows>>

-----------------------------------------------------------------------------
(* Time and Risk Modeler.                                                  *)

Late(t) ==
    /\ call[t].at = "look" /\ call[t].step # "done" /\ ~call[t].late
    /\ call' = [call EXCEPT ![t].late = TRUE]
    /\ UNCHANGED <<process, token, job, rows>>

Ends(j) ==
    /\ job[j].state = "running"
    /\ job' = [job EXCEPT ![j].state = "ended"]
    /\ UNCHANGED <<process, token, rows, call>>

(* Rows come, at the end or before the others, and go while a walk is on. *)
RowsChange ==
    /\ rows.changes < MaxChanges
    /\ \E t \in Threads : call[t].at = "walk" /\ call[t].step # "done"
    /\ \/ \E r \in Rows \ ToSet(rows.list) :
             /\ \/ rows' = [list |-> Append(rows.list, r), changes |-> rows.changes + 1]
                \/ rows' = [list |-> <<r>> \o rows.list, changes |-> rows.changes + 1]
             /\ UNCHANGED call
       \/ \E i \in DOMAIN rows.list :
             /\ rows' = [list |-> RemoveAt(rows.list, i), changes |-> rows.changes + 1]
             /\ call' = [t \in Threads |-> [call[t] EXCEPT
                           !.kept = @ \cap ToSet(SubSeq(rows.list, 1, i - 1))]]
    /\ UNCHANGED <<process, token, job>>

(* The token's hour is over, or the key is withdrawn. *)
Expires ==
    /\ \/ token = "fresh"
       \/ \E t \in Threads : call[t].sent = "fresh" /\ call[t].step = "flight"
    /\ token' = "stale"
    /\ call' = [t \in Threads |-> IF call[t].step = "flight"
                                   THEN [call[t] EXCEPT !.sent = "stale"] ELSE call[t]]
    /\ UNCHANGED <<process, job, rows>>

(* What the thread itself does, and the answers or failures of an attempt, *)
(* which come within the timeout of the request.                           *)
Step(t) ==
    \/ Send(t) \/ NotServed(t) \/ Unauthorized(t) \/ Refused(t) \/ LoggedIn(t)
    \/ Found(t) \/ Created(t) \/ Looked(t) \/ Walked(t)

Next ==
    \/ \E t \in Threads : \/ GetOrCreate(t) \/ Execute(t) \/ PollBatch(t) \/ Search(t)
                          \/ Step(t) \/ Late(t)
    \/ \E j \in Jobs : Ends(j)
    \/ RowsChange
    \/ Expires

Fairness == \A t \in Threads : WF_vars(Step(t)) /\ WF_vars(Late(t))

Spec == Init /\ [][Next]_vars /\ Fairness

-----------------------------------------------------------------------------

TypeOK ==
    /\ process \in Processes /\ token \in {"fresh", "stale"}
    /\ job \in [Jobs -> [state : {"none", "running", "ended"}, by : Threads \cup {NoOne},
                        name : Names \cup {NoOne}, beside : SUBSET Threads]]
    /\ \A t \in Threads : LET c == call[t] IN
          /\ c.kind \in process.does[t] \cup {"none"} /\ c.left \in 0..Retries
          /\ c.step \in {"idle", "ready", "resend", "flight", "login", "done"}
          /\ c.at \in {"none", "find", "create", "look", "walk"}
          /\ c.kept \subseteq Rows /\ c.off < Max({Limit * MaxPages, Len(c.want) + 1})
          /\ c.again => c.step \in {"resend", "flight", "done"} /\ process.mode = "bearer"
          /\ c.step \in {"resend", "login"} => process.mode = "bearer"
          /\ (c.answer = "none") = (c.step # "done")

Heard(c) == IF c.kind \in {"named", "execute"} /\ c.want # <<>> THEN 1 ELSE 0

(* What Risk Modeler holds for a call is what the call was told of and as  *)
(* many more as answers were lost: a call that raised and lost none left   *)
(* nothing behind.  Two things under one name stem from one call, or from  *)
(* two that both searched before either created.                           *)
CreatedTwiceOnlyByLossOrRace ==
    /\ \A t \in Threads :
          Cardinality({j \in Jobs : job[j].by = t}) = call[t].unheard + Heard(call[t])
    /\ \A i, j \in Jobs :
          i # j /\ job[i].name = job[j].name /\ job[i].name # NoOne
             => \/ job[i].by = job[j].by
                \/ job[i].by \in job[j].beside \/ job[j].by \in job[i].beside

(* A poll of one workflow, and a paged poll however the listing is cut     *)
(* into pages while jobs end, returns only when every job it asked for and *)
(* Risk Modeler knows has ended.                                           *)
ReturnedAfterAllEnded ==
    \A t \in Threads :
       call[t].answer = "returned" /\ call[t].kind \in Paged \cup {"execute"}
          => \A j \in ToSet(call[t].want) \cap Jobs : job[j].state # "running"

(* A search that returns lists every row that was there from the start and *)
(* had no row before it go away meanwhile, or raises; a server that takes  *)
(* the offset for a page number is the one the walk does not find out.     *)
SearchMissesOnlyBehindAGap ==
    \A t \in Threads :
       call[t].kind = "search" /\ call[t].answer = "returned" /\ process.server # "pages"
          => call[t].kept \subseteq ToSet(call[t].seen)

(* Every call returns or raises, whatever Risk Modeler and the token do    *)
(* meanwhile and whether or not a job ever ends: attempts, logins and      *)
(* rounds are bounded.  The one that may go on for ever is the poll of     *)
(* analysis jobs one of which is not listed: it never leaves its pages.    *)
EveryCallReturns ==
    \A t \in Threads :
       (/\ call[t].step # "idle"
        /\ ~(call[t].kind = "analyses" /\ Len(Listed(call[t].want)) < Len(call[t].want)))
          ~> call[t].step = "done"

=============================================================================
