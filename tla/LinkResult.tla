------------------------------ MODULE LinkResult ------------------------------
(***************************************************************************)
(* What a check of a donor page finds (parseDonorHtml), what of it a Link  *)
(* row keeps (saveResult), and the places that each derive a verdict from  *)
(* the row again: the table of links and its filters, the details dialog,  *)
(* the CSV export, the cells of the spreadsheet and the statistics.        *)
(*                                                                         *)
(* A page is the record of what the verdict depends on.  URLs are modelled *)
(* by where they lead: "own" is the URL of the page itself, "acceptor" and *)
(* "elsewhere" are other URLs, on the acceptor's host and on others,       *)
(* "relative" is the path of the page on the host of its base, and         *)
(* "mailto" stands for the schemes that resolveHref leaves out.            *)
(***************************************************************************)
EXTENDS Naturals, FiniteSets, Functions

CONSTANTS Links,   \* Link rows of one project
          Sources, \* Sources[l]: Link.source, "MANUAL" or "SHEETS"
          Hosts,   \* Hosts[l]: the host of l's donor URL, Null if it is malformed
          Sites,   \* Sites[l]: the pages l's donor URL may serve
          Invalid, \* rows of a spreadsheet in which normalizeRow finds an error
          TopProblemLimit, \* TOP_PROBLEM_LIMIT
          Null     \* null

NoFollowRels == {"nofollow", "sponsored", "ugc"}
Rels == NoFollowRels \cup {"noopener", "canonical"}
Targets == {"own", "acceptor", "elsewhere", "relative", "mailto"}
\* An attribute one of the six selectors matches, and the rel of its element.
Anchors == [to : Targets, rel : SUBSET Rels]
Pages == [code : 100..599,        \* the status the provider reports
          noindex : BOOLEAN,      \* in the robots meta tag of the first head
          widget : BOOLEAN,       \* in a head nested in the body
          header : BOOLEAN,       \* in X-Robots-Tag
          host : {"donor", "acceptor"},              \* of the final URL
          base : {"none", "acceptor", "elsewhere"},  \* <base>, if it leads to another host
          canonical : {"none"} \cup Targets,         \* that of the first head
          anchors : SUBSET Anchors]                  \* without that canonical link

\* What the selectors match: the canonical link is one of them, link[href].
Elements(p) ==
    p.anchors \cup (IF p.canonical = "none" THEN {}
                   ELSE {[to |-> p.canonical, rel |-> {"canonical"}]})

ASSUME LinkResultAssumption ==
    /\ IsFiniteSet(Links)
    /\ Sources \in [Links -> {"MANUAL", "SHEETS"}]
    /\ \A l \in Links : Sites[l] \subseteq Pages /\ l \in DOMAIN Hosts
    /\ Invalid \subseteq {l \in Links : Sources[l] = "SHEETS"}
    /\ TopProblemLimit \in Nat
    /\ Null \notin BOOLEAN /\ Null \notin 100..599
    /\ \A l \in Links : \A p \in Sites[l] : \A S \in SUBSET Elements(p) : Null # S
    /\ Null \notin Targets \cup {"dofollow", "nofollow"}

VARIABLES
    link,  \* link[l]: the columns of the row a verdict depends on
    served \* served[l]: the page of l's last finished check if it was saved as DONE (history)

vars == <<link, served>>

\* A row as it is created.
NewLink == [status |-> "PENDING", code |-> Null, indexable |-> Null, canonical |-> Null,
            matches |-> Null, found |-> Null, occurrences |-> Null, count |-> 0]

Init ==
    /\ link = [l \in Links |-> NewLink]
    /\ served = [l \in Links |-> {}]

------------------------------------------------------------------------------
(* The crawler's answer.                                                   *)

baseHost(p) == IF p.base = "none" THEN p.host ELSE p.base

\* resolveHref, then the host of what it gives.
Leads(to, p) == CASE to = "own" -> p.host [] to = "relative" -> baseHost(p) [] OTHER -> to

\* A bug: only anchors are looked at.
Occurrences_anchors(p) == {a \in p.anchors : Leads(a.to, p) = "acceptor"}

Occurrences(p) == {a \in Elements(p) : Leads(a.to, p) = "acceptor"}

\* The canonical URL, resolved, has the host and path of the page.
LeadsHere(p) == p.canonical = "own" \/ (p.canonical = "relative" /\ baseHost(p) = p.host)
canonicalOf(p) == IF p.canonical \in {"none", "mailto"} THEN Null ELSE p.canonical

\* A bug: the head of a widget inside the body counts.
parseDonorHtml_anyHead(p) ==
    [indexable |-> ~p.noindex /\ ~p.widget /\ ~p.header,
     canonical |-> canonicalOf(p),
     matches |-> canonicalOf(p) = Null \/ LeadsHere(p),
     occurrences |-> Occurrences(p)]

\* Meta tags are those of the first head; a page without a canonical URL matches.
parseDonorHtml(p) ==
    [indexable |-> ~p.noindex /\ ~p.header,
     canonical |-> canonicalOf(p),
     matches |-> canonicalOf(p) = Null \/ LeadsHere(p),
     occurrences |-> Occurrences(p)]

\* A bug: a check without an answer has status 0.
baseResult_zero ==
    [ok |-> FALSE, code |-> 0, indexable |-> Null, canonical |-> Null, matches |-> Null,
     found |-> Null, occurrences |-> Null, count |-> 0]

baseResult ==
    [ok |-> FALSE, code |-> Null, indexable |-> Null, canonical |-> Null, matches |-> Null,
     found |-> Null, occurrences |-> Null, count |-> 0]

\* Any status is a success: 404 is the verdict's business.
Analyzed(p) ==
    LET parsed == parseDonorHtml(p)
    IN [ok |-> TRUE, code |-> p.code, indexable |-> parsed.indexable,
        canonical |-> parsed.canonical, matches |-> parsed.matches,
        found |-> parsed.occurrences # {}, occurrences |-> parsed.occurrences,
        count |-> Cardinality(parsed.occurrences)]

------------------------------------------------------------------------------
(* The life of a row.                                                      *)

\* A bulk run's batch, whatever a recheck makes of the row meanwhile.
markManyStatus(l) ==
    /\ link[l].status # "QUEUED"
    /\ link' = [link EXCEPT ![l].status = "QUEUED"]
    /\ UNCHANGED served

markStatus(l) ==
    /\ link[l].status # "CHECKING"
    /\ link' = [link EXCEPT ![l].status = "CHECKING"]
    /\ UNCHANGED served

\* A bug: an empty list of occurrences does not replace that of an earlier check.
Saved_keepsOld(k, r) ==
    [status |-> IF r.ok THEN "DONE" ELSE "ERROR",
     code |-> r.code, indexable |-> r.indexable, canonical |-> r.canonical,
     matches |-> r.matches, found |-> r.found,
     occurrences |-> IF r.occurrences \in {Null, {}} THEN k.occurrences ELSE r.occurrences,
     count |-> r.count]

\* Prisma leaves alone what is undefined: the occurrences of an earlier check stay.
Saved(k, r) ==
    [status |-> IF r.ok THEN "DONE" ELSE "ERROR",
     code |-> r.code, indexable |-> r.indexable, canonical |-> r.canonical,
     matches |-> r.matches, found |-> r.found,
     occurrences |-> IF r.occurrences = Null THEN k.occurrences ELSE r.occurrences,
     count |-> r.count]

Save(l, r, pages) ==
    /\ link' = [link EXCEPT ![l] = Saved(@, r)]
    /\ served' = [served EXCEPT ![l] = pages]

\* What crawlAndAnalyze answered: a failure before there was a page, an error of the
\* parser beside what was scraped, or the analysis.  The call has marked the row CHECKING;
\* others may have written it since.
saveResult(l) ==
    /\ link[l].status # "PENDING"
    /\ \/ Save(l, baseResult, {})
       \/ \E p \in Sites[l] : \/ Save(l, [baseResult EXCEPT !.code = p.code], {})
                             \/ Save(l, Analyzed(p), {p})

\* A sheets run does not check such a row, whatever a recheck has made of it meanwhile.
saveInvalid(l) == l \in Invalid /\ Save(l, baseResult, {})

Next == \E l \in Links :
    markManyStatus(l) \/ markStatus(l) \/ saveResult(l) \/ saveInvalid(l)

Spec == Init /\ [][Next]_vars

------------------------------------------------------------------------------
(* The table of links.                                                     *)

IsOk(k) == k.code \in 200..299

\* A bug: a canonical URL that differs counts as a problem.
computeRowStatus_strict(k) ==
    IF k.status \in {"PENDING", "QUEUED"} THEN "PENDING"
    ELSE IF k.status \in {"CHECKING", "ERROR"} THEN k.status
    ELSE IF ~IsOk(k) \/ k.found # TRUE \/ k.indexable # TRUE \/ k.matches # TRUE
         THEN "PROBLEM" ELSE "GREEN"

computeRowStatus(k) ==
    IF k.status \in {"PENDING", "QUEUED"} THEN "PENDING"
    ELSE IF k.status \in {"CHECKING", "ERROR"} THEN k.status
    ELSE IF ~IsOk(k) \/ k.found # TRUE \/ k.indexable # TRUE THEN "PROBLEM"
    ELSE IF k.matches = TRUE THEN "GREEN" ELSE "YELLOW"

List(k) == IF k.occurrences = Null THEN {} ELSE k.occurrences
HasDofollow(k) == \E o \in List(k) : o.rel \cap NoFollowRels = {}

computeFollowKind(k) ==
    IF List(k) = {} THEN Null ELSE IF HasDofollow(k) THEN "dofollow" ELSE "nofollow"

rowStatusLabel(s) ==
    CASE s = "PENDING" -> "Pending" [] s = "CHECKING" -> "Checking"
      [] s \in {"GREEN", "YELLOW"} -> "Done"
      [] s = "PROBLEM" -> "Problem" [] s = "ERROR" -> "Error"

Answer(b) == IF b = Null THEN "" ELSE IF b THEN "yes" ELSE "no"

\* The cells of a row of the table.
TableCells(k) ==
    [status |-> computeRowStatus(k), follow |-> computeFollowKind(k), count |-> k.count,
     http |-> k.code, indexable |-> Answer(k.indexable),
     canonical |-> IF k.canonical = Null \/ k.matches = Null THEN "" ELSE Answer(k.matches)]

\* matchesStatus: the rows each filter of the table shows.
StatusFilter ==
    [done |-> {"GREEN", "YELLOW"}, problem |-> {"PROBLEM"}, error |-> {"ERROR"},
     pending |-> {"PENDING", "CHECKING"}]
Filtered(f) == {l \in Links : computeRowStatus(link[l]) \in StatusFilter[f]}

\* OccurrencesDialog: the fields, and the length of the table of occurrences.
Details(k) ==
    [http |-> k.code, indexable |-> Answer(k.indexable), canonical |-> Answer(k.matches),
     url |-> k.canonical, rows |-> Cardinality(List(k))]

linksToCsv(k) ==
    [status |-> rowStatusLabel(computeRowStatus(k)), found |-> Answer(k.found),
     occurrences |-> k.count, follow |-> computeFollowKind(k), http |-> k.code,
     indexable |-> Answer(k.indexable), canonical |-> Answer(k.matches)]

------------------------------------------------------------------------------
(* The cells of the spreadsheet.                                           *)

deriveFoundCell(k) ==
    IF k.found # TRUE THEN "no" ELSE IF HasDofollow(k) THEN "dofollow" ELSE "nofollow"

deriveCanonicalCell(k) ==
    IF k.canonical = Null THEN "not found" ELSE IF k.matches = TRUE THEN "match" ELSE "differs"

deriveLabel(k) ==
    IF k.status \in {"PENDING", "QUEUED"} THEN "Pending"
    ELSE IF k.status = "CHECKING" THEN "Checking"
    ELSE IF k.status = "ERROR" THEN "Error"
    ELSE IF ~IsOk(k) \/ k.found # TRUE \/ k.indexable # TRUE THEN "Problem"
    ELSE IF k.matches = TRUE THEN "Done" ELSE "Done (canonical mismatch)"

formatRow(k) ==
    [status |-> deriveLabel(k), http |-> k.code, found |-> deriveFoundCell(k),
     indexable |-> Answer(k.indexable), canonical |-> deriveCanonicalCell(k)]

\* The backgrounds: green is the default of a status that no case names.
buildDataRowCells(k) ==
    LET r == formatRow(k)
    IN [status |-> CASE r.status = "Done (canonical mismatch)" -> "yellow"
                     [] r.status \in {"Problem", "Error"} -> "red"
                     [] r.status \in {"Pending", "Checking"} -> "grey"
                     [] OTHER -> "green",
        http |-> IF r.http = Null THEN "neutral" ELSE IF IsOk(k) THEN "green" ELSE "red",
        found |-> IF r.found = "no" THEN "red" ELSE "green",
        indexable |-> CASE r.indexable = "yes" -> "green" [] r.indexable = "no" -> "red"
                        [] OTHER -> "none",
        canonical |-> CASE r.canonical = "differs" -> "yellow"
                        [] r.canonical = "not found" -> "blue" [] OTHER -> "green"]

------------------------------------------------------------------------------
(* StatsService.aggregate: a bucket of each group for a row, and how many  *)
(* rows are in it.                                                         *)

Sound(k) == IsOk(k) /\ k.found = TRUE /\ k.indexable = TRUE

TotalsBucket(k) ==
    IF k.status \in {"PENDING", "QUEUED", "CHECKING"} THEN "pending"
    ELSE IF k.status = "ERROR" THEN "error"
    ELSE IF Sound(k) THEN "done" ELSE "problem"

FoundBucket(k) ==
    IF k.found # TRUE THEN "none" ELSE IF HasDofollow(k) THEN "dofollow" ELSE "nofollow"

HttpBucket(k) ==
    CASE k.code = Null -> "none"
      [] k.code \in 200..299 -> "ok"
      [] k.code \in 300..399 -> "redirect"
      [] k.code = 404 -> "notFound"
      [] k.code \in 500..599 -> "serverError"
      [] OTHER -> "other"

CanonicalBucket(k) ==
    IF k.canonical = Null THEN IF k.status = "DONE" THEN "notFound" ELSE "unknown"
    ELSE IF k.matches = Null THEN "unknown" ELSE IF k.matches THEN "match" ELSE "mismatch"

isProblem(k) == k.status = "ERROR" \/ (k.status = "DONE" /\ ~Sound(k))

problemCount(S, h) == Cardinality({l \in S : Hosts[l] = h /\ isProblem(link[l])})

\* A bug: the list is cut before it is sorted.
topProblemDonors_unsorted(S) ==
    LET hosts == {Hosts[l] : l \in {k \in S : isProblem(link[k])}} \ {Null}
    IN {[h \in T |-> problemCount(S, h)] :
           T \in {T \in SUBSET hosts :
                    /\ Cardinality(T) <= TopProblemLimit
                    /\ Cardinality(T) = TopProblemLimit \/ T = hosts}}

\* The hosts with the most problem rows; which of equals are listed, the order of the rows
\* decides, so the list is one of these.  Rows without a host are in none.
topProblemDonors(S) ==
    LET hosts == {Hosts[l] : l \in {k \in S : isProblem(link[k])}} \ {Null}
    IN {[h \in T |-> problemCount(S, h)] :
           T \in {T \in SUBSET hosts :
                    /\ Cardinality(T) <= TopProblemLimit
                    /\ Cardinality(T) = TopProblemLimit \/ T = hosts
                    /\ \A h \in T, g \in hosts \ T : problemCount(S, h) >= problemCount(S, g)}}

aggregate(S) ==
    LET Rows(Bucket(_), b) == Cardinality({l \in S : Bucket(link[l]) = b})
    IN [total |-> Cardinality(S),
        totals |-> [b \in {"done", "problem", "error", "pending"} |-> Rows(TotalsBucket, b)],
        found |-> [b \in {"dofollow", "nofollow"} |-> Rows(FoundBucket, b)],
        http |-> [b \in {"ok", "redirect", "notFound", "serverError", "other"}
                    |-> Rows(HttpBucket, b)],
        canonical |-> [b \in {"match", "mismatch", "notFound", "unknown"}
                         |-> Rows(CanonicalBucket, b)],
        topProblemDonors |-> topProblemDonors(S)]

\* forProject: the rows of a scope.
InScope(scope) ==
    {l \in Links : CASE scope = "manual" -> Sources[l] = "MANUAL"
                     [] scope = "sheets" -> Sources[l] = "SHEETS"
                     [] scope = "all" -> TRUE}

\* StatsTab: the slices of the status pie, which leaves out what is empty.
StatusPie(stats) == {b \in DOMAIN stats.totals : stats.totals[b] > 0}

------------------------------------------------------------------------------
(* Properties.                                                             *)

LinkType ==
    [status : {"PENDING", "QUEUED", "CHECKING", "DONE", "ERROR"}, code : (100..599) \cup {Null},
     indexable : BOOLEAN \cup {Null}, canonical : Targets \cup {Null},
     matches : BOOLEAN \cup {Null}, found : BOOLEAN \cup {Null},
     occurrences : (SUBSET Anchors) \cup {Null}, count : 0..Cardinality(Anchors)]

\* The columns of the rows a verdict is derived from.
TypeOK ==
    /\ link \in [Links -> LinkType]
    /\ \A l \in Links : served[l] \subseteq Sites[l] /\ Cardinality(served[l]) <= 1

\* What a reader of the page would say of it: the base, the links that lead to the
\* acceptor, of whatever element, the status and the robots tags.
OnAcceptor(p) == p.base = "acceptor" \/ (p.base = "none" /\ p.host = "acceptor")
Linked(p) ==
    {a \in Elements(p) : \/ a.to = "acceptor"
                        \/ (a.to = "own" /\ p.host = "acceptor")
                        \/ (a.to = "relative" /\ OnAcceptor(p))}
Followed(p) == \E a \in Linked(p) : a.rel \cap NoFollowRels = {}
Healthy(p) == p.code \in 200..299 /\ Linked(p) # {} /\ ~p.noindex /\ ~p.header
PointsAway(p) ==
    \/ p.canonical \in {"acceptor", "elsewhere"}
    \/ p.canonical = "relative" /\ p.base \notin {"none", p.host}

\* The mapping rules of status.ts:9-22, from the page to the badge: a row that is DONE is
\* green, yellow or a problem by what its page says of itself, whatever the heads of
\* widgets inside it say (parser.ts:62-68) and whatever was saved for earlier pages; its
\* follow badge is that of the links the page has, its canonical link among them.
VerdictIsPage ==
    \A l \in Links : \A p \in served[l] : link[l].status = "DONE" =>
        /\ computeRowStatus(link[l]) = IF ~Healthy(p) THEN "PROBLEM"
                                       ELSE IF PointsAway(p) THEN "YELLOW" ELSE "GREEN"
        /\ computeFollowKind(link[l]) = IF Linked(p) = {} THEN Null
                                        ELSE IF Followed(p) THEN "dofollow" ELSE "nofollow"

\* The rule is written three times: status.ts:26, sheets-task.service.ts:433 and
\* stats.service.ts:102.  The label and the colour of the sheet, and the export, tell
\* apart what the badge of the table does.
SameVerdict(k) ==
    LET s == computeRowStatus(k)
        csv == linksToCsv(k)
    IN /\ buildDataRowCells(k).status =
             CASE s = "GREEN" -> "green" [] s = "YELLOW" -> "yellow"
               [] s \in {"PROBLEM", "ERROR"} -> "red" [] OTHER -> "grey"
       /\ (deriveLabel(k) = csv.status) <=> (s # "YELLOW")
       /\ s \in {"GREEN", "YELLOW"} => (csv.canonical = "yes" <=> s = "GREEN")
       /\ Cardinality({f \in DOMAIN StatusFilter : s \in StatusFilter[f]}) = 1

\* After a check that succeeded, and until the next has finished, the cell of the sheet,
\* the badge, the count and the list of occurrences speak of the same links.  After one
\* that failed the badge and the list are those of an earlier check.
SameLinks(k) ==
    /\ deriveFoundCell(k) = IF computeFollowKind(k) = Null THEN "no" ELSE computeFollowKind(k)
    /\ Details(k).rows = TableCells(k).count
    /\ (TableCells(k).canonical = "") <=> (deriveCanonicalCell(k) = "not found")

ViewsAgree ==
    \A l \in Links : SameVerdict(link[l]) /\ (served[l] # {} => SameLinks(link[l]))

\* The list of the worst hosts beside the table's filters for problems and errors: each
\* count is that of the host's rows there, and a host of such a row is left out only when
\* the list is full of hosts that have at least as many.
WorstListed(S, list) ==
    LET rows == S \cap (Filtered("problem") \cup Filtered("error"))
        of(h) == Cardinality({l \in rows : Hosts[l] = h})
    IN /\ \A h \in DOMAIN list : h # Null /\ list[h] = of(h) /\ of(h) > 0
       /\ \A l \in rows : Hosts[l] \in (DOMAIN list) \cup {Null}
             \/ /\ Cardinality(DOMAIN list) = TopProblemLimit
                /\ \A h \in DOMAIN list : list[h] >= of(Hosts[l])

\* The statistics of every scope count what the filters of the table show: each group
\* counts each of its rows once, the pie loses none, and the list of problem hosts is that
\* of the worst in the table, whose malformed URLs belong to no host.
StatsAgree ==
    \A scope \in {"all", "manual", "sheets"} :
        LET S == InScope(scope)
            stats == aggregate(S)
            Sum(f) == FoldFunction(+, 0, f)
        IN /\ \A f \in DOMAIN StatusFilter :
                 stats.totals[f] = Cardinality(Filtered(f) \cap S)
           /\ FoldFunctionOnSet(+, 0, stats.totals, StatusPie(stats)) = stats.total
           /\ Sum(stats.found) = Cardinality({l \in S : deriveFoundCell(link[l]) # "no"})
           /\ Sum(stats.http) = Cardinality({l \in S : link[l].code # Null})
           /\ Sum(stats.canonical) = stats.total
           /\ stats.canonical.notFound =
                 Cardinality({l \in S : link[l].status = "DONE" /\ TableCells(link[l]).canonical = ""})
           /\ \A list \in stats.topProblemDonors : WorstListed(S, list)
=============================================================================
