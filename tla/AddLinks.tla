------------------------------- MODULE AddLinks -------------------------------
(***************************************************************************)
(* AddLinksDialog: three ways to enter links (one acceptor and many donor  *)
(* URLs, pairs, a CSV file), the validation in the browser, the request,   *)
(* and the validation and createMany of the API.  A URL or an acceptor is  *)
(* the class of strings the two validations tell apart, after trimming.    *)
(* A request is small: Fastify's default limit of 1 MiB for a body, which  *)
(* main.ts leaves alone and which a batch of long URLs may pass, is not    *)
(* modelled.                                                               *)
(***************************************************************************)
EXTENDS Lists

CONSTANTS UrlTexts,    \* what may be typed in the first tab: an acceptor, and URLs
          PairTexts,   \* in the second: rows of a donor URL and an acceptor
          Files,       \* what the third may be given: the lines of a file, or Unreadable
          Unreadable,  \* a file that cannot be parsed
          Unparsable,  \* what is no host
          NoRows,      \* csvRows before a file was read
          MaxItems,    \* MAX_ITEMS, MAX_MANUAL_URLS_PER_TASK
          MaxEntries,  \* bound on what the user types and on the files chosen
          MaxBatches   \* bound on the requests

Tabs == {"one-many", "pairs", "csv"}
Donors == {"http", "ftp", "text", ""}
Acceptors == {"host", "www", "url", "subdomain", "long", "text", ""}
Lines == {<<d>> : d \in Donors} \cup (Donors \X Acceptors)  \* of a file
Validated == [donor : Donors, acceptor : Acceptors, valid : BOOLEAN]  \* ParsedRow

ASSUME DialogAssumption ==
    /\ UrlTexts \subseteq [acceptor : Acceptors, urls : Seq(Donors)]
    /\ PairTexts \subseteq Seq(Donors \X Acceptors)
    /\ Files \ {Unreadable} \subseteq Seq(Lines)
    /\ Unparsable \notin Acceptors /\ NoRows \notin Seq(Validated)
    /\ MaxItems \in Nat /\ MaxEntries \in Nat /\ MaxBatches \in Nat

VARIABLES
    open,    \* the dialog is on the screen
    form,    \* its fields, and which entry of the user each tab holds
    parses,  \* files being read
    submit,  \* the POST
    created, \* the batches in the database
    batches, \* how many requests there were
    entries, \* how many times the user typed or chose a file
    unsure   \* entries whose answer was lost (history)

dialogVars == <<open, form, parses, submit, created, batches, entries, unsure>>

Empty == [tab |-> "one-many", acceptor |-> "", urls |-> <<>>, pairs |-> <<>>, header |-> TRUE,
          rows |-> NoRows, entry |-> [t \in Tabs |-> 0]]
NoSubmit == [at |-> "idle", items |-> <<>>, entry |-> 0]

DialogInit ==
    /\ open = FALSE /\ form = Empty /\ parses = {} /\ submit = NoSubmit
    /\ created = <<>> /\ batches = 0 /\ entries = 0 /\ unsure = {}

------------------------------------------------------------------------------
(* What is a link.                                                         *)

isValidDonorUrl(d) == d = "http"

\* Lower case, without www., port and path; a subdomain is another host.
extractAcceptorHost(a) ==
    CASE a \in {"host", "www", "url", "long"} -> "host"
      [] a = "subdomain" -> "subdomain"
      [] OTHER -> Unparsable

\* A bug: any acceptor will do but none.
validateRow_anyAcceptor(d, a) ==
    [donor |-> d, acceptor |-> a, valid |-> isValidDonorUrl(d) /\ a # ""]

validateRow(d, a) ==
    [donor |-> d, acceptor |-> a,
     valid |-> isValidDonorUrl(d) /\ extractAcceptorHost(a) # Unparsable]

ValidateAll(s) == [k \in DOMAIN s |-> validateRow(s[k][1], s[k][2])]

\* The first line is skipped if it is a header; a line may have one column only.
parseLinksCsv(lines, hasHeader) ==
    LET rows == IF hasHeader /\ lines # <<>> THEN Tail(lines) ELSE lines
    IN ValidateAll([k \in DOMAIN rows |->
                       <<rows[k][1], IF Len(rows[k]) > 1 THEN rows[k][2] ELSE "">>])

rowsToPayload(rows) == Kept(rows, {r \in Validated : r.valid})

\* Blank lines and blank pairs do not count.
buildPayload(f) ==
    rowsToPayload(
        CASE f.tab = "one-many" ->
                 LET urls == Kept(f.urls, Donors \ {""})
                 IN ValidateAll([k \in DOMAIN urls |-> <<urls[k], f.acceptor>>])
          [] f.tab = "pairs" ->
                 ValidateAll(Kept(f.pairs, (Donors \X Acceptors) \ {<<"", "">>}))
          [] OTHER -> IF f.rows = NoRows THEN <<>> ELSE f.rows)

\* CreateManualLinksInput, then the hosts: one bad item refuses all of them.
Accepts(items) ==
    /\ Len(items) \in 1..MaxItems
    /\ \A k \in DOMAIN items :
          /\ isValidDonorUrl(items[k].donor)
          /\ items[k].acceptor \notin {"", "long"}
          /\ extractAcceptorHost(items[k].acceptor) # Unparsable

------------------------------------------------------------------------------
(* The dialog.                                                             *)

OpenDialog == ~open /\ open' = TRUE
              /\ UNCHANGED <<form, parses, submit, created, batches, entries, unsure>>

\* Cancel and the cross keep the fields, the request and the files being read.
CloseDialog == open /\ open' = FALSE
               /\ UNCHANGED <<form, parses, submit, created, batches, entries, unsure>>

Edit(f) == open /\ form' = f /\ f # form
           /\ UNCHANGED <<open, parses, submit, created, batches, unsure>>
ChooseTab(t) == Edit([form EXCEPT !.tab = t]) /\ UNCHANGED entries
ToggleHeader == /\ form.tab = "csv" /\ Edit([form EXCEPT !.header = ~@]) /\ UNCHANGED entries
Enter == entries < MaxEntries /\ entries' = entries + 1

TypeUrls(x) ==
    /\ form.tab = "one-many" /\ Enter
    /\ Edit([form EXCEPT !.acceptor = x.acceptor, !.urls = x.urls, !.entry["one-many"] = entries + 1])
TypePairs(x) ==
    /\ form.tab = "pairs" /\ Enter
    /\ Edit([form EXCEPT !.pairs = x, !.entry["pairs"] = entries + 1])

\* onCsvFile starts to read; the rows of an earlier file stay until it ends.
ChooseFile(lines) ==
    /\ open /\ form.tab = "csv" /\ Enter
    /\ parses' = parses \cup {[lines |-> lines, header |-> form.header, entry |-> entries + 1]}
    /\ UNCHANGED <<open, form, submit, created, batches, unsure>>

\* Whichever file ends last has its rows in the form, also one that was chosen before
\* another, or before the form was reset.
ParseEnds(p) ==
    /\ form' = [form EXCEPT !.entry["csv"] = p.entry,
                            !.rows = IF p.lines = Unreadable THEN NoRows
                                     ELSE parseLinksCsv(p.lines, p.header)]
    /\ parses' = parses \ {p}
    /\ UNCHANGED <<open, submit, created, batches, entries, unsure>>

\* onSubmit: the button waits for the answer before.
ClickAdd ==
    /\ open /\ submit.at = "idle" /\ batches < MaxBatches
    /\ LET items == buildPayload(form)
       IN /\ Len(items) \in 1..MaxItems
          /\ submit' = [at |-> "sent", items |-> items, entry |-> form.entry[form.tab]]
    /\ batches' = batches + 1
    /\ UNCHANGED <<open, form, parses, created, entries, unsure>>

\* createManualLinks, all or nothing.
Create ==
    /\ submit.at = "sent"
    /\ IF Accepts(submit.items)
       THEN /\ created' = Append(created,
                   [entry |-> submit.entry,
                    links |-> [k \in DOMAIN submit.items |->
                                  [donorUrl |-> submit.items[k].donor,
                                   host |-> extractAcceptorHost(submit.items[k].acceptor)]]])
            /\ submit' = [submit EXCEPT !.at = "created"]
       ELSE submit' = [submit EXCEPT !.at = "refused"] /\ UNCHANGED created
    /\ UNCHANGED <<open, form, parses, batches, entries, unsure>>

\* A bug: the rows of the file stay.
Reset_keepsRows(f) == [Empty EXCEPT !.tab = f.tab, !.header = f.header, !.rows = f.rows,
                                    !.entry["csv"] = f.entry["csv"]]

\* The tab and the header box stay.
Reset(f) == [Empty EXCEPT !.tab = f.tab, !.header = f.header]

\* onSuccess, whatever was typed since and whether the dialog was closed and opened since.
Added ==
    /\ submit.at = "created"
    /\ form' = Reset(form) /\ open' = FALSE /\ submit' = NoSubmit
    /\ UNCHANGED <<parses, created, batches, entries, unsure>>

\* onError.
Refused ==
    /\ submit.at = "refused"
    /\ submit' = NoSubmit
    /\ UNCHANGED <<open, form, parses, created, batches, entries, unsure>>

\* The request or its answer is lost.
RequestFails ==
    /\ submit.at \in {"sent", "created"}
    /\ unsure' = IF submit.at = "created" THEN unsure \cup {submit.entry} ELSE unsure
    /\ submit' = NoSubmit
    /\ UNCHANGED <<open, form, parses, created, batches, entries>>

DialogNext ==
    \/ OpenDialog \/ CloseDialog \/ ToggleHeader
    \/ \E t \in Tabs : ChooseTab(t)
    \/ \E x \in UrlTexts : TypeUrls(x)
    \/ \E x \in PairTexts : TypePairs(x)
    \/ \E lines \in Files : ChooseFile(lines)
    \/ \E p \in parses : ParseEnds(p)
    \/ ClickAdd \/ Create \/ Added \/ Refused \/ RequestFails

DialogSpec == DialogInit /\ [][DialogNext]_dialogVars

------------------------------------------------------------------------------

\* What a user entered once is created at most once, unless the answer was lost and the
\* user sent it again: the button waits for the answer, and the answer clears every tab.
NothingTwice ==
    \A i, j \in DOMAIN created :
        i # j /\ created[i].entry = created[j].entry => created[i].entry \in unsure

\* A row the dialog counts as valid is one the API takes: only an acceptor of more than
\* 2048 characters, which the browser does not measure, makes it refuse a batch.  What
\* is created has a URL to fetch and a host to look for.
ValidIsAccepted ==
    /\ submit.at = "refused" =>
          \E k \in DOMAIN submit.items : submit.items[k].acceptor = "long"
    /\ \A b \in DOMAIN created : \A k \in DOMAIN created[b].links :
          /\ created[b].links[k].donorUrl = "http"
          /\ created[b].links[k].host \in {"host", "subdomain"}

=============================================================================
