------------------------------ MODULE PortalUsage ------------------------------
(***************************************************************************)
(* The usage page of the customer site: the account's calls of some days,  *)
(* filtered and shown a page at a time, with a summary of the days, an     *)
(* Excel export of the filtered calls and the details of one call. Every   *)
(* change of the filters asks for the list anew, without waiting for the   *)
(* answer under way and without numbering the requests.                    *)
(***************************************************************************)
EXTENDS Integers, Sequences, FiniteSets, Totals

CONSTANTS Ledger,        \* the account's calls at the server, newest first
          Periods,       \* PERIOD_OPTIONS: the buttons "n days"
          Sizes,         \* PAGE_SIZE_OPTIONS
          FirstSize,
          LastDay,       \* days are numbered; the page may be open overnight
          MaxUsageActs   \* clicks

CONSTANTS NoLog, NoQuery

Successes == {"success", "succeeded"}
Failures == {"failed", "canceled", "cancelled"}
UsageLog == [day : 1..LastDay, found : BOOLEAN,  \* whether the keyword "x" finds it
         status : Successes \union Failures \union {"processing", "queued"},
         seconds : Nat \union {-1}, stored : BOOLEAN, task : BOOLEAN,
         images : Nat, quantity : Nat, format : {"url", "b64_json", "base64"}]

ASSUME UsageAssumption ==
    /\ Ledger \in Seq(UsageLog) /\ Periods \subseteq Nat \ {0} /\ 1 \in Periods
    /\ Sizes \subseteq Nat \ {0} /\ FirstSize \in Sizes
    /\ LastDay \in Nat \ {0} /\ MaxUsageActs \in Nat

VARIABLES today, signedIn,
          asked,        \* page, size, keyword, status and days of the list
          draft,        \* the keyword typed, and the days of the picker
          period,       \* periodDays, 0 when the days were picked
          usageLoads,   \* the requests in flight, by what they ask for
          usageLoading, usageError,
          shownFor,     \* what the rows, the total and the summary were asked with
          summarised,   \* whether their summary is the server's
          balanceShown,
          exporting, detail, detailTab, clipboard,
          overtaken,    \* history: the last request left while another was in flight
          answered,     \* history: the last answer
          usageActs

shownPart == <<shownFor, summarised, answered>>
detailPart == <<detail, detailTab, clipboard>>
loadPart == <<usageLoads, usageLoading, usageError, balanceShown, overtaken>>
usageVars == <<today, signedIn, asked, draft, period, loadPart, shownPart, exporting,
               detailPart, usageActs>>

\* STATUS_OPTIONS
StatusFilters == {"", "success", "failed", "processing", "queued"}
Query == [page : Nat \ {0}, size : Sizes, word : {"", "x"}, status : StatusFilters,
          from : 1..LastDay, to : 1..LastDay]

\* The first and the last of the `days` days that end today.
PeriodRangeWide(days) == <<today - days, today>>
PeriodRange(days) == <<IF days > today THEN 1 ELSE today - days + 1, today>>

\* The server's list: the calls of the days that pass the filters, by their places
\* in the ledger.
InDays(q) == {i \in DOMAIN Ledger : q.from <= Ledger[i].day /\ Ledger[i].day <= q.to}
Passing(q) ==
    {i \in InDays(q) : LET c == Ledger[i] IN
        /\ q.word = "x" => c.found
        /\ CASE q.status = "" -> TRUE
             [] q.status = "success" -> c.status \in Successes
             [] q.status = "failed" -> c.status \in Failures
             [] OTHER -> c.status = q.status}
\* A page of the list: the calls that follow those of the pages before, newest first.
UsageRows ==
    IF shownFor = NoQuery THEN {}
    ELSE LET newer(i) == Cardinality({j \in Passing(shownFor) : j < i})
         IN  {i \in Passing(shownFor) :
                /\ (shownFor.page - 1) * shownFor.size <= newer(i)
                /\ newer(i) < shownFor.page * shownFor.size}
UsageTotal == IF shownFor = NoQuery THEN 0 ELSE Cardinality(Passing(shownFor))
UsagePages == IF UsageTotal = 0 THEN 1 ELSE (UsageTotal + asked.size - 1) \div asked.size

\* isCountedFailure, and the summary the page makes of its rows when the server
\* sends none; the images of a call are the ones that were made.
Succeeded(c) == c.status \in Successes
CountedFailure(c) == c.status \in Failures
Images(calls) == Total([i \in calls |-> Ledger[i].images], calls)
Summary(calls, total) ==
    [total |-> total,
     counted |-> Cardinality({i \in calls : Succeeded(Ledger[i]) \/ CountedFailure(Ledger[i])}),
     success |-> Cardinality({i \in calls : Succeeded(Ledger[i])}),
     failed |-> Cardinality({i \in calls : CountedFailure(Ledger[i])}),
     images |-> Images(calls)]
\* The cards: the days as a whole, whatever the filters, if the server sums them up.
Cards ==
    IF shownFor = NoQuery THEN Summary({}, 0)
    ELSE IF summarised THEN Summary(InDays(shownFor), Cardinality(InDays(shownFor)))
    ELSE Summary(UsageRows, UsageTotal)

\* statusMeta, durationMeta: how a row and the dialog present a call.
Tone(c) == CASE c.status \in Successes -> "success"
             [] c.status \in {"failed", "processing"} -> c.status
             [] OTHER -> "queued"
DurationTone(c) ==
    IF c.status \notin Successes \union {"failed"} \/ c.seconds < 0 THEN "--"
    ELSE IF c.seconds <= 65 THEN "active"
    ELSE IF c.seconds < 120 THEN "processing" ELSE "failed"
\* requestParameters and responseParameters: what was recorded, or what the call
\* was asked for and came to.
RequestOf(c) == IF c.stored THEN [kind |-> "recorded"]
                ELSE [kind |-> "asked", n |-> c.quantity, format |-> c.format]
ResponseOf(c) ==
    IF c.stored THEN [kind |-> "recorded"]
    ELSE IF c.status \in Failures THEN [kind |-> "error"]
    ELSE IF c.status \in Successes /\ c.task
         THEN [kind |-> "images", n |-> IF c.images > 0 THEN c.images ELSE c.quantity,
               inline |-> c.format # "url"]
    ELSE [kind |-> "not finished"]
\* The dialog of the call that is shown: one of two tabs, and what "copy" copies.
Parameters == IF detailTab = "request" THEN RequestOf(detail) ELSE ResponseOf(detail)

-----------------------------------------------------------------------------
\* loadUsage: the balance is the session's; without a session nothing is asked.
LoadUsage(q) ==
    IF signedIn
    THEN /\ usageLoads' = usageLoads \union {q}
         /\ usageLoading' = TRUE /\ usageError' = "" /\ balanceShown' = TRUE
         /\ overtaken' = (usageLoads # {})
    ELSE /\ usageError' = "session" /\ usageLoading' = FALSE
         /\ UNCHANGED <<usageLoads, balanceShown, overtaken>>
\* The effect asks for the list when something of the query is not what it was.
Ask(q, error) ==
    /\ asked' = q
    /\ IF q = asked THEN usageError' = error
                         /\ UNCHANGED <<usageLoads, usageLoading, balanceShown, overtaken>>
       ELSE LoadUsage(q)
UsageClick == usageActs < MaxUsageActs /\ usageActs' = usageActs + 1
\* The dialog covers the page.
Uncovered == detail = NoLog

\* The first request is made by the first effect.
UsageInit ==
    /\ today = 1 /\ signedIn = TRUE
    /\ asked = [page |-> 1, size |-> FirstSize, word |-> "", status |-> "",
                from |-> 1, to |-> 1]
    /\ draft = [word |-> "", from |-> 1, to |-> 1] /\ period = 1
    /\ usageLoads = {asked} /\ usageLoading = TRUE /\ usageError = ""
    /\ balanceShown = TRUE /\ overtaken = FALSE
    /\ shownFor = NoQuery /\ summarised = FALSE /\ answered = "none"
    /\ exporting = NoQuery /\ detail = NoLog /\ detailTab = "request"
    /\ clipboard = [kind |-> "empty"] /\ usageActs = 0

\* The buttons of the periods; the keyword typed and the filters stay.
SelectPeriod(days) ==
    /\ UsageClick /\ Uncovered
    /\ LET r == PeriodRange(days) IN
         /\ period' = days
         /\ draft' = [draft EXCEPT !.from = r[1], !.to = r[2]]
         /\ Ask([asked EXCEPT !.page = 1, !.from = r[1], !.to = r[2]], usageError)
    /\ UNCHANGED <<today, signedIn, shownPart, exporting, detailPart>>
\* TrendDateRangePicker offers complete ranges until today.
PickDays(from, to) ==
    /\ UsageClick /\ Uncovered
    /\ from <= to /\ to <= today
    /\ period' = 0
    /\ draft' = [draft EXCEPT !.from = from, !.to = to]
    /\ Ask([asked EXCEPT !.page = 1, !.from = from, !.to = to], usageError)
    /\ UNCHANGED <<today, signedIn, shownPart, exporting, detailPart>>
RefreshUsage ==
    /\ UsageClick /\ Uncovered /\ ~usageLoading
    /\ LoadUsage(asked)
    /\ UNCHANGED <<today, signedIn, asked, draft, period, shownPart, exporting, detailPart>>

TypeKeyword(w) ==
    /\ Uncovered /\ w # draft.word
    /\ draft' = [draft EXCEPT !.word = w]
    /\ UNCHANGED <<today, signedIn, asked, period, loadPart, shownPart, exporting,
                   detailPart, usageActs>>
\* The two selections of the filter form apply at once.
FilterStatus(s) ==
    /\ UsageClick /\ Uncovered /\ s # asked.status
    /\ Ask([asked EXCEPT !.page = 1, !.status = s], usageError)
    /\ UNCHANGED <<today, signedIn, draft, period, shownPart, exporting, detailPart>>
FilterSize(n) ==
    /\ UsageClick /\ Uncovered /\ n # asked.size
    /\ Ask([asked EXCEPT !.page = 1, !.size = n], usageError)
    /\ UNCHANGED <<today, signedIn, draft, period, shownPart, exporting, detailPart>>
\* applyFilters: the days are checked again; then the error goes away, also when
\* nothing was changed and nothing is asked for.
ApplyFilters ==
    /\ UsageClick /\ Uncovered
    /\ IF draft.from > draft.to \/ draft.to > today
       THEN usageError' = "days"
            /\ UNCHANGED <<asked, period, usageLoads, usageLoading, balanceShown, overtaken>>
       ELSE /\ period' = 0
            /\ Ask([asked EXCEPT !.page = 1, !.word = draft.word,
                                 !.from = draft.from, !.to = draft.to], "")
    /\ UNCHANGED <<today, signedIn, draft, shownPart, exporting, detailPart>>
\* The buttons under the table, which is there when it has rows.
TurnUsagePage(p) ==
    /\ UsageClick /\ Uncovered
    /\ UsageRows # {} /\ ~usageLoading /\ p # asked.page
    /\ Ask([asked EXCEPT !.page = p], usageError)
    /\ UNCHANGED <<today, signedIn, draft, period, shownPart, exporting, detailPart>>

\* Any answer becomes what is shown and ends the spinner, whatever is asked by now.
UsageAnswer(q) ==
    /\ q \in usageLoads /\ usageLoads' = usageLoads \ {q}
    /\ usageLoading' = FALSE
    /\ shownFor' = q /\ summarised' \in BOOLEAN /\ answered' = "ok"
    /\ UNCHANGED <<today, signedIn, asked, draft, period, usageError, balanceShown,
                   overtaken, exporting, detailPart, usageActs>>
UsageFails(q) ==
    /\ q \in usageLoads /\ usageLoads' = usageLoads \ {q}
    /\ usageLoading' = FALSE /\ usageError' = "load" /\ answered' = "failed"
    /\ UNCHANGED <<today, signedIn, asked, draft, period, balanceShown, overtaken,
                   shownFor, summarised, exporting, detailPart, usageActs>>

\* exportUsage: the calls of the filters that apply, not of the rows shown.
ExportUsage ==
    /\ UsageClick /\ Uncovered
    /\ exporting = NoQuery /\ ~usageLoading
    /\ exporting' = IF signedIn THEN asked ELSE NoQuery
    /\ UNCHANGED <<today, signedIn, asked, draft, period, loadPart, shownPart, detailPart>>
ExportDone ==
    /\ exporting # NoQuery /\ exporting' = NoQuery
    /\ UNCHANGED <<today, signedIn, asked, draft, period, loadPart, shownPart, detailPart,
                   usageActs>>

\* openDetail, by mouse or key; the dialog shows the row as it was then.
OpenDetail(i) ==
    /\ UsageClick /\ Uncovered
    /\ detail' = Ledger[i] /\ detailTab' = "request"
    /\ UNCHANGED <<today, signedIn, asked, draft, period, loadPart, shownPart, exporting,
                   clipboard>>
SwitchTab(t) ==
    /\ detail # NoLog /\ t # detailTab
    /\ detailTab' = t
    /\ UNCHANGED <<today, signedIn, asked, draft, period, loadPart, shownPart, exporting,
                   detail, clipboard, usageActs>>
CopyParameters ==
    /\ detail # NoLog
    /\ clipboard' = Parameters
    /\ UNCHANGED <<today, signedIn, asked, draft, period, loadPart, shownPart, exporting,
                   detail, detailTab, usageActs>>
CloseDetail ==
    /\ detail # NoLog /\ detail' = NoLog
    /\ UNCHANGED <<today, signedIn, asked, draft, period, loadPart, shownPart, exporting,
                   detailTab, clipboard, usageActs>>

\* Midnight passes; another tab signs out.
Midnight ==
    /\ today < LastDay /\ today' = today + 1
    /\ UNCHANGED <<signedIn, asked, draft, period, loadPart, shownPart, exporting,
                   detailPart, usageActs>>
SignOut ==
    /\ signedIn /\ signedIn' = FALSE
    /\ UNCHANGED <<today, asked, draft, period, loadPart, shownPart, exporting,
                   detailPart, usageActs>>

UsageNext ==
    \/ \E d \in Periods : SelectPeriod(d)
    \/ \E a, b \in 1..LastDay : PickDays(a, b)
    \/ RefreshUsage \/ ApplyFilters
    \/ \E w \in {"", "x"} : TypeKeyword(w)
    \/ \E s \in StatusFilters : FilterStatus(s)
    \/ \E n \in Sizes : FilterSize(n)
    \/ \E p \in 1..UsagePages : TurnUsagePage(p)
    \/ \E q \in usageLoads : UsageAnswer(q) \/ UsageFails(q)
    \/ ExportUsage \/ ExportDone
    \/ \E i \in UsageRows : OpenDetail(i)
    \/ \E t \in {"request", "response"} : SwitchTab(t)
    \/ CopyParameters \/ CloseDetail \/ Midnight \/ SignOut

-----------------------------------------------------------------------------
UsageTypeOK ==
    /\ asked \in Query /\ usageLoads \subseteq Query
    /\ shownFor \in Query \union {NoQuery} /\ exporting \in Query \union {NoQuery}
    /\ usageError \in {"", "session", "load"} /\ answered \in {"none", "ok", "failed"}
    /\ detail \in UsageLog \union {NoLog}
    /\ period \in Periods \union {0}

\* How a call is shown agrees with how it is counted: success is counted and offers
\* images, a failure offers an error, although a cancelled call is shown as queued;
\* a duration belongs to a finished call; and the cards, whoever summed them up, hold
\* no more finished calls than calls.
CallsAgree ==
    /\ \A i \in UsageRows : LET c == Ledger[i] IN
         /\ CountedFailure(c) => Tone(c) # "success" /\ ResponseOf(c).kind # "images"
         /\ Tone(c) = "success" => Succeeded(c)
         /\ DurationTone(c) # "--" => Succeeded(c) \/ CountedFailure(c)
    /\ Cards.counted = Cards.success + Cards.failed /\ Cards.counted <= Cards.total
\* The spinner stops when the last request is answered. The days of the picker are
\* those of the list, so that applyFilters never refuses them. And rows under filters
\* they were not asked with have one of two reasons: the last request left while
\* another was in flight, or the last answer was a failure.
UsageFreed ==
    /\ usageLoading => usageLoads # {}
    /\ draft.from = asked.from /\ draft.to = asked.to
    /\ usageLoads = {} /\ ~overtaken /\ answered = "ok" /\ signedIn => shownFor = asked
    /\ CallsAgree
=============================================================================
