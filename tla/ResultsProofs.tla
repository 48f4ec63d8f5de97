----------------------------- MODULE ResultsProofs -----------------------------
(***************************************************************************)
(* Proofs about AddLinks, LinkResult and ResultSheet, for every choice of  *)
(* their constants: what is typed is created once, what the dialog counts  *)
(* as valid the API takes, every view of a row says what the page says,    *)
(* the statistics count what the table shows, and runs leave the sheet to  *)
(* its user.                                                               *)
(***************************************************************************)
EXTENDS AddLinks, LinkResult, ResultSheet, ListsProofs, FiniteSetTheorems

(***************************************************************************)
(* The dialog: the lists it builds.                                        *)
(***************************************************************************)

\* A row that is marked valid has a URL and an acceptor with a host.
Checked == {r \in Validated : r.valid => /\ r.donor = "http"
                                         /\ r.acceptor \in Acceptors \ {"text", ""}}
Payload == Checked \cap {r \in Validated : r.valid}

LEMMA ValidatedRow ==
    ASSUME NEW d \in Donors, NEW a \in Acceptors
    PROVE  validateRow(d, a) \in Checked
<1>1. validateRow(d, a) \in Validated
  BY DEF validateRow, Validated, isValidDonorUrl
<1>2. a \in {"text", ""} => extractAcceptorHost(a) = Unparsable
  BY DEF extractAcceptorHost
<1>3. QED
  BY <1>1, <1>2 DEF Checked, validateRow, isValidDonorUrl

LEMMA ValidatedList ==
    ASSUME NEW s \in Seq(Donors \X Acceptors)
    PROVE  ValidateAll(s) \in Seq(Checked) /\ (s = <<>> => ValidateAll(s) = <<>>)
<1>1. \A k \in 1..Len(s) : s[k][1] \in Donors /\ s[k][2] \in Acceptors
  OBVIOUS
<1>2. \A k \in 1..Len(s) : validateRow(s[k][1], s[k][2]) \in Checked
  BY <1>1, ValidatedRow
<1>3. DOMAIN s = 1..Len(s) /\ Len(s) \in Nat
  OBVIOUS
<1>4. ValidateAll(s) \in [1..Len(s) -> Checked]
  BY <1>2, <1>3 DEF ValidateAll
<1>5. ValidateAll(s) \in Seq(Checked)
  BY SMTT(30), <1>3, <1>4
<1>6. s = <<>> => ValidateAll(s) = <<>>
  BY <1>5 DEF ValidateAll
<1>7. QED
  BY <1>5, <1>6

LEMMA ListOfBoth == ASSUME NEW A, NEW B, NEW s \in Seq(A \cap B) PROVE s \in Seq(A)
OBVIOUS

LEMMA OneCell == ASSUME NEW d PROVE Len(<<d>>) = 1 /\ <<d>>[1] = d
OBVIOUS

LEMMA ParsedFile ==
    ASSUME NEW lines \in Seq(Lines), NEW hasHeader \in BOOLEAN
    PROVE  parseLinksCsv(lines, hasHeader) \in Seq(Checked)
<1> DEFINE rows == IF hasHeader /\ lines # <<>> THEN Tail(lines) ELSE lines
           cells == [k \in DOMAIN rows |->
                        <<rows[k][1], IF Len(rows[k]) > 1 THEN rows[k][2] ELSE "">>]
<1>1. rows \in Seq(Lines)
  OBVIOUS
<1>2. ASSUME NEW x \in Lines
      PROVE  <<x[1], IF Len(x) > 1 THEN x[2] ELSE "">> \in Donors \X Acceptors
  <2>1. CASE x \in {<<d>> : d \in Donors}
    <3>1. PICK d \in Donors : x = <<d>>
      BY <2>1
    <3>2. Len(<<d>>) = 1 /\ <<d>>[1] = d
      BY OneCell
    <3>3. QED
      <4>1. x[1] \in Donors /\ ~(Len(x) > 1) /\ "" \in Acceptors
        BY <3>1, <3>2 DEF Acceptors
      <4>2. QED
        BY <4>1
  <2>2. CASE x \in Donors \X Acceptors
    <3>1. x[1] \in Donors /\ x[2] \in Acceptors /\ "" \in Acceptors
      BY <2>2 DEF Acceptors
    <3>2. QED
      BY <3>1
  <2>3. QED
    BY <2>1, <2>2 DEF Lines
<1> HIDE DEF rows
<1>3. DOMAIN rows = 1..Len(rows) /\ Len(rows) \in Nat /\ \A k \in 1..Len(rows) : rows[k] \in Lines
  BY <1>1
<1>4. cells \in [1..Len(rows) -> Donors \X Acceptors]
  BY <1>2, <1>3
<1> HIDE DEF cells
<1>5. cells \in Seq(Donors \X Acceptors)
  BY <1>3, <1>4
<1>6. ValidateAll(cells) \in Seq(Checked)
  BY <1>5, ValidatedList
<1>7. QED
  BY <1>6 DEF rows, cells, parseLinksCsv

Fields == [tab : Tabs, acceptor : Acceptors, urls : Seq(Donors),
           pairs : Seq(Donors \X Acceptors), header : BOOLEAN,
           rows : Seq(Checked) \cup {NoRows}, entry : [Tabs -> Nat]]

\* A tab of which the user entered nothing is empty.
Blank(f) ==
    /\ f.entry["one-many"] = 0 => f.urls = <<>>
    /\ f.entry["pairs"] = 0 => f.pairs = <<>>
    /\ f.entry["csv"] = 0 => f.rows = NoRows

LEMMA RowsAreValidated == Checked \subseteq Validated
BY DEF Checked

\* What is sent has valid rows only, and none of an empty tab.
LEMMA PayloadOfFields ==
    ASSUME NEW f \in Fields, Blank(f)
    PROVE  /\ buildPayload(f) \in Seq(Payload)
           /\ f.entry[f.tab] = 0 => buildPayload(f) = <<>>
<1> DEFINE good == {r \in Validated : r.valid}
           rows == CASE f.tab = "one-many" ->
                            LET urls == Kept(f.urls, Donors \ {""})
                            IN ValidateAll([k \in DOMAIN urls |-> <<urls[k], f.acceptor>>])
                     [] f.tab = "pairs" ->
                            ValidateAll(Kept(f.pairs, (Donors \X Acceptors) \ {<<"", "">>}))
                     [] OTHER -> IF f.rows = NoRows THEN <<>> ELSE f.rows
<1>1. rows \in Seq(Checked) /\ (f.entry[f.tab] = 0 => rows = <<>>)
  <2>1. CASE f.tab = "one-many"
    <3> DEFINE urls == Kept(f.urls, Donors \ {""})
               cells == [k \in DOMAIN urls |-> <<urls[k], f.acceptor>>]
    <3>1. f.urls \in Seq(Donors)
      BY DEF Fields
    <3>2. urls \in Seq(Donors \cap (Donors \ {""}))
      BY <3>1, KeptType
    <3>3. f.entry[f.tab] = 0 => urls = <<>>
      BY <2>1, KeptEmpty DEF Blank
    <3> HIDE DEF urls
    <3>4. DOMAIN urls = 1..Len(urls) /\ Len(urls) \in Nat
          /\ \A k \in 1..Len(urls) : urls[k] \in Donors
      <4>1. urls \in Seq(Donors)
        BY <3>2, ListOfBoth
      <4>2. QED
        BY <4>1
    <3>5. cells \in [1..Len(urls) -> Donors \X Acceptors]
      <4> DEFINE a == f.acceptor
      <4>1. a \in Acceptors
        BY DEF Fields
      <4> HIDE DEF a
      <4>2. \A k \in DOMAIN urls : <<urls[k], a>> \in Donors \X Acceptors
        BY <3>4, <4>1
      <4>3. [k \in DOMAIN urls |-> <<urls[k], a>>] \in [1..Len(urls) -> Donors \X Acceptors]
        BY <3>4, <4>2
      <4>4. QED
        BY <4>3 DEF a
    <3>6. urls = <<>> => cells = <<>>
      <4>1. urls = <<>> => 1..Len(urls) = {}
        BY <3>4
      <4> HIDE DEF cells
      <4>2. QED
        BY <3>5, <4>1
    <3> HIDE DEF cells
    <3>7. cells \in Seq(Donors \X Acceptors)
      BY <3>4, <3>5
    <3>8. ValidateAll(cells) \in Seq(Checked) /\ (cells = <<>> => ValidateAll(cells) = <<>>)
      BY <3>7, ValidatedList
    <3>9. rows = ValidateAll(cells)
      BY <2>1 DEF urls, cells
    <3>10. QED
      BY <3>3, <3>6, <3>8, <3>9
  <2>2. CASE f.tab = "pairs"
    <3> DEFINE pairs == Kept(f.pairs, (Donors \X Acceptors) \ {<<"", "">>})
    <3>1. f.pairs \in Seq(Donors \X Acceptors)
      BY DEF Fields
    <3>2. pairs \in Seq((Donors \X Acceptors) \cap ((Donors \X Acceptors) \ {<<"", "">>}))
      BY <3>1, KeptType
    <3>3. f.entry[f.tab] = 0 => pairs = <<>>
      BY <2>2, KeptEmpty DEF Blank
    <3>4. rows = ValidateAll(pairs)
      BY <2>2
    <3> HIDE DEF pairs, rows
    <3>5. pairs \in Seq(Donors \X Acceptors)
      BY <3>2, ListOfBoth
    <3>6. QED
      BY <3>3, <3>4, <3>5, ValidatedList
  <2>3. CASE f.tab = "csv"
    <3>1. rows = IF f.rows = NoRows THEN <<>> ELSE f.rows
      BY <2>3
    <3> HIDE DEF rows
    <3>2. f.rows \in Seq(Checked) \/ f.rows = NoRows
      BY DEF Fields
    <3>3. <<>> \in Seq(Checked)
      OBVIOUS
    <3>4. f.entry[f.tab] = 0 => f.rows = NoRows
      BY <2>3 DEF Blank
    <3>5. QED
      BY <3>1, <3>2, <3>3, <3>4
  <2>4. QED
    BY <2>1, <2>2, <2>3 DEF Fields, Tabs
<1>2. buildPayload(f) = Kept(rows, good)
  BY DEF buildPayload, rowsToPayload
<1> HIDE DEF rows
<1>3. Kept(rows, good) \in Seq(Checked \cap good)
  BY <1>1, KeptType
<1>4. QED
  BY <1>1, <1>2, <1>3, KeptEmpty DEF Payload

(***************************************************************************)
(* The dialog: its inductive invariant.                                    *)
(***************************************************************************)

GoodLinks == [donorUrl : {"http"}, host : {"host", "subdomain"}]
Batches == [entry : Nat, links : Seq(GoodLinks)]

DialogType ==
    /\ form \in Fields
    /\ parses \subseteq [lines : Files, header : BOOLEAN, entry : Nat \ {0}]
    /\ submit \in [at : {"idle", "sent", "created", "refused"}, items : Seq(Payload), entry : Nat]
    /\ created \in Seq(Batches)
    /\ entries \in Nat

\* What was sent is not empty, and it is refused for an acceptor that is too long.
Sent ==
    submit.at # "idle" =>
        /\ submit.entry # 0
        /\ Len(submit.items) \in 1..MaxItems
        /\ submit.at = "refused" =>
              \E k \in DOMAIN submit.items : submit.items[k].acceptor = "long"

DialogInv == DialogType /\ Blank(form) /\ Sent

\* An entry is in one tab or in one file that is being read, and none is ahead of the count.
InOnePlace ==
    /\ \A t \in Tabs : form.entry[t] <= entries
    /\ \A p \in parses : p.entry \in 1..entries
    /\ submit.entry <= entries
    /\ \A i \in DOMAIN created : created[i].entry \in 1..entries
    /\ \A t, u \in Tabs : t # u /\ form.entry[t] # 0 => form.entry[t] # form.entry[u]
    /\ \A p \in parses : \A t \in Tabs : form.entry[t] # p.entry
    /\ \A p, q \in parses : p.entry = q.entry => p = q

\* What was created is in no tab any more, or the answer that empties them all is on its
\* way; it is in no file, and it is not what is being sent.
Gone(e) ==
    /\ \A t \in Tabs : form.entry[t] = e => submit.at = "created" /\ submit.entry = e
    /\ \A p \in parses : p.entry # e
    /\ submit.at = "sent" => submit.entry # e

Spent ==
    /\ \A i \in DOMAIN created : created[i].entry \notin unsure => Gone(created[i].entry)
    /\ submit.at # "idle" => \A p \in parses : p.entry # submit.entry

EntryInv == DialogInv /\ InOnePlace /\ Spent /\ NothingTwice

LEMMA BlankFields == Empty \in Fields /\ Blank(Empty)
BY DEF Empty, Fields, Blank, Tabs, Acceptors

LEMMA DialogStarts == DialogInit => EntryInv
<1> SUFFICES ASSUME DialogInit PROVE EntryInv
  OBVIOUS
<1>1. form = Empty /\ parses = {} /\ submit = NoSubmit /\ created = <<>> /\ entries = 0
  BY DEF DialogInit
<1>2. Empty \in Fields /\ Blank(Empty)
  BY BlankFields
<1>3. DialogInv
  BY <1>1, <1>2 DEF DialogInv, DialogType, Sent, NoSubmit
<1>4. \A t \in Tabs : form.entry[t] = 0
  BY <1>1 DEF Empty
<1>5. DOMAIN created = {}
  BY <1>1
<1>6. InOnePlace
  BY <1>1, <1>4, <1>5 DEF InOnePlace, NoSubmit
<1>7. Spent /\ NothingTwice
  BY <1>1, <1>5 DEF Spent, NothingTwice
<1>8. QED
  BY <1>3, <1>6, <1>7 DEF EntryInv

\* What an entry of the user makes of the fields.
LEMMA FieldsEdited ==
    ASSUME DialogInv, DialogAssumption
    PROVE  /\ \A t \in Tabs : [form EXCEPT !.tab = t] \in Fields /\ Blank([form EXCEPT !.tab = t])
           /\ [form EXCEPT !.header = ~@] \in Fields /\ Blank([form EXCEPT !.header = ~@])
           /\ Reset(form) \in Fields /\ Blank(Reset(form))
<1>1. form \in Fields /\ Blank(form)
  BY DEF DialogInv, DialogType
<1>2. ASSUME NEW t \in Tabs
      PROVE  [form EXCEPT !.tab = t] \in Fields /\ Blank([form EXCEPT !.tab = t])
  BY <1>1 DEF Fields, Blank
<1>3. [form EXCEPT !.header = ~@] \in Fields /\ Blank([form EXCEPT !.header = ~@])
  BY <1>1 DEF Fields, Blank
<1>4. Reset(form) \in Fields /\ Blank(Reset(form))
  <2>1. Empty \in Fields /\ Blank(Empty)
    BY BlankFields
  <2>2. form.tab \in Tabs /\ form.header \in BOOLEAN
    BY <1>1 DEF Fields
  <2>3. QED
    BY <2>1, <2>2 DEF Fields, Blank, Reset
<1>5. QED
  BY <1>2, <1>3, <1>4

LEMMA UrlsTyped ==
    ASSUME DialogInv, NEW x \in UrlTexts, TypeUrls(x)
    PROVE  form' \in Fields /\ Blank(form)'
<1>1. form \in Fields /\ Blank(form) /\ entries \in Nat
  BY DEF DialogInv, DialogType
<1>2. x.acceptor \in Acceptors /\ x.urls \in Seq(Donors)
  BY DialogAssumption DEF DialogAssumption
<1>3. form' = [form EXCEPT !.acceptor = x.acceptor, !.urls = x.urls,
                           !.entry["one-many"] = entries + 1]
  BY DEF TypeUrls, Edit
<1> DEFINE E == [form.entry EXCEPT !["one-many"] = entries + 1]
<1>4. E \in [Tabs -> Nat] /\ E["one-many"] # 0 /\ \A t \in Tabs \ {"one-many"} : E[t] = form.entry[t]
  BY <1>1 DEF Fields, Tabs
<1>5. form' = [form EXCEPT !.acceptor = x.acceptor, !.urls = x.urls, !.entry = E]
  BY <1>1, <1>3 DEF Fields
<1> HIDE DEF E
<1>6. form' \in Fields
  BY <1>1, <1>2, <1>4, <1>5 DEF Fields
<1>7. Blank(form)'
  <2>1. form'.entry = E
    BY <1>1, <1>5 DEF Fields
  <2>2. QED
    BY <1>1, <1>4, <1>5, <2>1 DEF Blank, Fields, Tabs
<1>8. QED
  BY <1>6, <1>7

LEMMA PairsTyped ==
    ASSUME DialogInv, NEW x \in PairTexts, TypePairs(x)
    PROVE  form' \in Fields /\ Blank(form)'
<1>1. form \in Fields /\ Blank(form) /\ entries \in Nat
  BY DEF DialogInv, DialogType
<1>2. x \in Seq(Donors \X Acceptors)
  BY DialogAssumption DEF DialogAssumption
<1>3. form' = [form EXCEPT !.pairs = x, !.entry["pairs"] = entries + 1]
  BY DEF TypePairs, Edit
<1> DEFINE E == [form.entry EXCEPT !["pairs"] = entries + 1]
<1>4. E \in [Tabs -> Nat] /\ E["pairs"] # 0 /\ \A t \in Tabs \ {"pairs"} : E[t] = form.entry[t]
  BY <1>1 DEF Fields, Tabs
<1>5. form' = [form EXCEPT !.pairs = x, !.entry = E]
  BY <1>1, <1>3 DEF Fields
<1> HIDE DEF E
<1>6. form' \in Fields
  BY <1>1, <1>2, <1>4, <1>5 DEF Fields
<1>7. Blank(form)'
  <2>1. form'.entry = E
    BY <1>1, <1>5 DEF Fields
  <2>2. QED
    BY <1>1, <1>4, <1>5, <2>1 DEF Blank, Fields, Tabs
<1>8. QED
  BY <1>6, <1>7

LEMMA RowsTyped ==
    ASSUME DialogInv, NEW p \in parses, ParseEnds(p)
    PROVE  form' \in Fields /\ Blank(form)'
<1>1. form \in Fields /\ Blank(form) /\ p \in [lines : Files, header : BOOLEAN, entry : Nat \ {0}]
  BY DEF DialogInv, DialogType
<1> DEFINE rows == IF p.lines = Unreadable THEN NoRows ELSE parseLinksCsv(p.lines, p.header)
<1>2. rows \in Seq(Checked) \cup {NoRows}
  <2>1. CASE p.lines = Unreadable
    BY <2>1
  <2>2. CASE p.lines # Unreadable
    <3>1. p.lines \in Seq(Lines) /\ p.header \in BOOLEAN
      BY <1>1, <2>2, DialogAssumption DEF DialogAssumption
    <3>2. parseLinksCsv(p.lines, p.header) \in Seq(Checked)
      BY <3>1, ParsedFile
    <3>3. QED
      BY <2>2, <3>2
  <2>3. QED
    BY <2>1, <2>2
<1>3. form' = [form EXCEPT !.entry["csv"] = p.entry, !.rows = rows]
  BY DEF ParseEnds
<1> HIDE DEF rows
<1> DEFINE E == [form.entry EXCEPT !["csv"] = p.entry]
<1>4. E \in [Tabs -> Nat] /\ E["csv"] # 0 /\ \A t \in Tabs \ {"csv"} : E[t] = form.entry[t]
  BY <1>1 DEF Fields, Tabs
<1>5. form' = [form EXCEPT !.rows = rows, !.entry = E]
  BY <1>1, <1>3 DEF Fields
<1> HIDE DEF E
<1>6. form' \in Fields
  BY <1>1, <1>2, <1>4, <1>5 DEF Fields
<1>7. Blank(form)'
  <2>1. form'.entry = E
    BY <1>1, <1>5 DEF Fields
  <2>2. QED
    BY <1>1, <1>4, <1>5, <2>1 DEF Blank, Fields, Tabs
<1>8. QED
  BY <1>6, <1>7

\* What leaves the request and the database alone needs the fields and the files only.
LEMMA DialogFrame ==
    ASSUME DialogInv, form' \in Fields, Blank(form)',
           parses' \subseteq [lines : Files, header : BOOLEAN, entry : Nat \ {0}],
           entries' \in Nat, UNCHANGED <<submit, created>>
    PROVE  DialogInv'
<1>1. DialogType'
  BY DEF DialogInv, DialogType
<1>2. Sent'
  BY DEF DialogInv, Sent
<1>3. QED
  BY <1>1, <1>2 DEF DialogInv

LEMMA DialogInductive ==
    ASSUME DialogInv, [DialogNext]_dialogVars
    PROVE  DialogInv'
<1>1. form \in Fields /\ Blank(form) /\ entries \in Nat
      /\ parses \subseteq [lines : Files, header : BOOLEAN, entry : Nat \ {0}]
  BY DEF DialogInv, DialogType
<1>2. CASE OpenDialog \/ CloseDialog \/ UNCHANGED dialogVars
  <2>1. UNCHANGED <<form, parses, submit, created, entries>>
    BY <1>2 DEF OpenDialog, CloseDialog, dialogVars
  <2>2. Blank(form)'
    BY <1>1, <2>1 DEF Blank
  <2>3. QED
    BY <1>1, <2>1, <2>2, DialogFrame
<1>3. CASE ToggleHeader
  <2>1. form' = [form EXCEPT !.header = ~@] /\ UNCHANGED <<parses, submit, created, entries>>
    BY <1>3 DEF ToggleHeader, Edit
  <2>2. form' \in Fields /\ Blank(form)'
    BY <2>1, FieldsEdited, DialogAssumption DEF Blank
  <2>3. QED
    BY <1>1, <2>1, <2>2, DialogFrame
<1>4. ASSUME NEW t \in Tabs, ChooseTab(t) PROVE DialogInv'
  <2>1. form' = [form EXCEPT !.tab = t] /\ UNCHANGED <<parses, submit, created, entries>>
    BY <1>4 DEF ChooseTab, Edit
  <2>2. form' \in Fields /\ Blank(form)'
    BY <2>1, FieldsEdited, DialogAssumption DEF Blank
  <2>3. QED
    BY <1>1, <2>1, <2>2, DialogFrame
<1>5. ASSUME NEW x \in UrlTexts, TypeUrls(x) PROVE DialogInv'
  <2>1. entries' = entries + 1 /\ UNCHANGED <<parses, submit, created>>
    BY <1>5 DEF TypeUrls, Enter, Edit
  <2>2. QED
    BY <1>1, <1>5, <2>1, UrlsTyped, DialogFrame
<1>6. ASSUME NEW x \in PairTexts, TypePairs(x) PROVE DialogInv'
  <2>1. entries' = entries + 1 /\ UNCHANGED <<parses, submit, created>>
    BY <1>6 DEF TypePairs, Enter, Edit
  <2>2. QED
    BY <1>1, <1>6, <2>1, PairsTyped, DialogFrame
<1>7. ASSUME NEW lines \in Files, ChooseFile(lines) PROVE DialogInv'
  <2>1. /\ parses' = parses \cup {[lines |-> lines, header |-> form.header, entry |-> entries + 1]}
        /\ entries' = entries + 1 /\ UNCHANGED <<form, submit, created>>
    BY <1>7 DEF ChooseFile, Enter
  <2>2. form.header \in BOOLEAN /\ entries + 1 \in Nat \ {0}
    BY <1>1 DEF Fields
  <2>3. parses' \subseteq [lines : Files, header : BOOLEAN, entry : Nat \ {0}]
    BY <1>1, <2>1, <2>2
  <2>4. Blank(form)'
    BY <1>1, <2>1 DEF Blank
  <2>5. QED
    BY <1>1, <2>1, <2>3, <2>4, DialogFrame
<1>8. ASSUME NEW p \in parses, ParseEnds(p) PROVE DialogInv'
  <2>1. parses' \subseteq parses /\ UNCHANGED <<submit, created, entries>>
    BY <1>8 DEF ParseEnds
  <2>2. QED
    BY <1>1, <1>8, <2>1, RowsTyped, DialogFrame
<1>9. CASE ClickAdd
  <2> DEFINE items == buildPayload(form)
  <2>1. /\ Len(items) \in 1..MaxItems
        /\ submit' = [at |-> "sent", items |-> items, entry |-> form.entry[form.tab]]
        /\ UNCHANGED <<form, parses, created, entries>>
    BY <1>9 DEF ClickAdd
  <2>2. items \in Seq(Payload) /\ (form.entry[form.tab] = 0 => items = <<>>)
    BY <1>1, PayloadOfFields
  <2> HIDE DEF items
  <2>3. items # <<>>
    BY <2>1, DialogAssumption DEF DialogAssumption
  <2>4. form.entry[form.tab] \in Nat \ {0}
    BY <1>1, <2>2, <2>3 DEF Fields
  <2>5. DialogType'
    BY <2>1, <2>2, <2>4 DEF DialogInv, DialogType
  <2>6. Sent'
    BY <2>1, <2>4 DEF Sent
  <2>7. Blank(form)'
    BY <1>1, <2>1 DEF Blank
  <2>8. QED
    BY <2>5, <2>6, <2>7 DEF DialogInv
<1>10. CASE Create
  <2>1. /\ submit.at = "sent" /\ submit.entry \in Nat \ {0} /\ Len(submit.items) \in 1..MaxItems
        /\ submit.items \in Seq(Payload) /\ UNCHANGED <<form, parses, entries>>
    BY <1>10 DEF Create, DialogInv, DialogType, Sent
  <2>2. ASSUME NEW k \in DOMAIN submit.items
        PROVE  /\ submit.items[k].donor = "http"
               /\ submit.items[k].acceptor \in Acceptors \ {"text", ""}
    <3>1. submit.items[k] \in Payload
      BY <2>1, <2>2
    <3>2. QED
      BY <3>1 DEF Payload, Checked
  <2>3. Blank(form)'
    BY <1>1, <2>1 DEF Blank
  <2>4. CASE Accepts(submit.items)
    <3> DEFINE links == [k \in DOMAIN submit.items |->
                            [donorUrl |-> submit.items[k].donor,
                             host |-> extractAcceptorHost(submit.items[k].acceptor)]]
    <3>1. /\ created' = Append(created, [entry |-> submit.entry, links |-> links])
          /\ submit' = [submit EXCEPT !.at = "created"]
      BY <1>10, <2>4 DEF Create
    <3>2. ASSUME NEW k \in DOMAIN submit.items
          PROVE  [donorUrl |-> submit.items[k].donor,
                  host |-> extractAcceptorHost(submit.items[k].acceptor)]
                     \in GoodLinks
      <4>1. extractAcceptorHost(submit.items[k].acceptor) \in {"host", "subdomain"}
        BY <2>2, <3>2 DEF extractAcceptorHost, Acceptors
      <4>2. QED
        BY <2>2, <3>2, <4>1 DEF GoodLinks
    <3>3. DOMAIN submit.items = 1..Len(submit.items) /\ Len(submit.items) \in Nat
      BY <2>1
    <3>4. links \in [1..Len(submit.items) -> GoodLinks]
      BY <3>2, <3>3
    <3> HIDE DEF links
    <3>5. links \in Seq(GoodLinks)
      BY <3>3, <3>4
    <3>6. [entry |-> submit.entry, links |-> links] \in Batches
      BY <2>1, <3>5 DEF Batches
    <3>7. created' \in Seq(Batches)
      BY <3>1, <3>6 DEF DialogInv, DialogType
    <3>8. DialogType'
      BY <2>1, <3>1, <3>7 DEF DialogInv, DialogType
    <3>9. Sent'
      BY <2>1, <3>1 DEF Sent, DialogInv, DialogType
    <3>10. QED
      BY <2>3, <3>8, <3>9 DEF DialogInv
  <2>5. CASE ~Accepts(submit.items)
    <3>1. submit' = [submit EXCEPT !.at = "refused"] /\ UNCHANGED created
      BY <1>10, <2>5 DEF Create
    <3>2. PICK k \in DOMAIN submit.items :
             ~ /\ isValidDonorUrl(submit.items[k].donor)
               /\ submit.items[k].acceptor \notin {"", "long"}
               /\ extractAcceptorHost(submit.items[k].acceptor) # Unparsable
      BY <2>1, <2>5 DEF Accepts
    <3>3. extractAcceptorHost(submit.items[k].acceptor) # Unparsable
      BY <2>2, DialogAssumption DEF extractAcceptorHost, Acceptors, DialogAssumption
    <3>4. submit.items[k].acceptor = "long"
      BY <2>2, <3>2, <3>3 DEF isValidDonorUrl
    <3>5. DialogType'
      BY <2>1, <3>1 DEF DialogInv, DialogType
    <3>6. submit'.items = submit.items /\ submit'.entry = submit.entry
      BY <3>1 DEF DialogInv, DialogType
    <3>7. Sent'
      BY <2>1, <3>4, <3>6 DEF Sent
    <3>8. QED
      BY <2>3, <3>5, <3>7 DEF DialogInv
  <2>6. QED
    BY <2>4, <2>5
<1>11. CASE Added \/ Refused \/ RequestFails
  <2>1. submit' = NoSubmit /\ UNCHANGED <<parses, created, entries>>
    BY <1>11 DEF Added, Refused, RequestFails
  <2>2. form' = form \/ form' = Reset(form)
    BY <1>11 DEF Added, Refused, RequestFails
  <2>3. form' \in Fields /\ Blank(form)'
    BY <1>1, <2>2, FieldsEdited, DialogAssumption DEF Blank
  <2>4. DialogType'
    BY <2>1, <2>3 DEF DialogInv, DialogType, NoSubmit
  <2>5. Sent'
    BY <2>1 DEF Sent, NoSubmit
  <2>6. QED
    BY <2>3, <2>4, <2>5 DEF DialogInv
<1>12. QED
  BY <1>2, <1>3, <1>4, <1>5, <1>6, <1>7, <1>8, <1>9, <1>10, <1>11 DEF DialogNext

\* The user enters something in a tab: its entry is new.
LEMMA EntryTyped ==
    ASSUME EntryInv, NEW tab \in Tabs, form'.entry = [form.entry EXCEPT ![tab] = entries + 1],
           entries' = entries + 1, UNCHANGED <<parses, submit, created, unsure>>
    PROVE  InOnePlace' /\ Spent' /\ NothingTwice'
<1>1. form.entry \in [Tabs -> Nat] /\ entries \in Nat /\ submit.entry \in Nat
      /\ \A p \in parses : p.entry \in Nat
  BY DEF EntryInv, DialogInv, DialogType, Fields
<1>2. form'.entry[tab] = entries + 1 /\ \A t \in Tabs \ {tab} : form'.entry[t] = form.entry[t]
  BY <1>1
<1>3. InOnePlace'
  BY <1>1, <1>2 DEF EntryInv, InOnePlace
<1>4. ASSUME NEW i \in DOMAIN created, created[i].entry \notin unsure
      PROVE  Gone(created[i].entry)'
  <2>1. Gone(created[i].entry) /\ created[i].entry \in 1..entries
    BY <1>4 DEF EntryInv, Spent, InOnePlace
  <2>2. QED
    BY <1>1, <1>2, <2>1 DEF Gone
<1>5. Spent'
  BY <1>4 DEF EntryInv, Spent
<1>6. QED
  BY <1>3, <1>5 DEF EntryInv, NothingTwice

LEMMA EntryInductive ==
    ASSUME EntryInv, [DialogNext]_dialogVars
    PROVE  EntryInv'
<1>1. /\ form.entry \in [Tabs -> Nat] /\ form.tab \in Tabs /\ entries \in Nat
      /\ submit.entry \in Nat /\ created \in Seq(Batches)
      /\ submit \in [at : {"idle", "sent", "created", "refused"}, items : Seq(Payload), entry : Nat]
      /\ \A p \in parses : p.entry \in Nat
      /\ DialogInv /\ InOnePlace /\ Spent /\ NothingTwice
  BY DEF EntryInv, DialogInv, DialogType, Fields
<1>2. DialogInv'
  BY <1>1, DialogInductive
<1> SUFFICES InOnePlace' /\ Spent' /\ NothingTwice'
  BY <1>2 DEF EntryInv
<1>3. CASE OpenDialog \/ CloseDialog \/ ToggleHeader \/ (\E t \in Tabs : ChooseTab(t))
           \/ UNCHANGED dialogVars
  <2>1. UNCHANGED <<parses, submit, created, entries, unsure>> /\ form'.entry = form.entry
    <3>1. form \in Fields
      BY <1>1 DEF DialogInv, DialogType
    <3>2. QED
      BY <1>3, <3>1 DEF OpenDialog, CloseDialog, ToggleHeader, ChooseTab, Edit, dialogVars, Fields
  <2>2. QED
    BY <1>1, <2>1 DEF InOnePlace, Spent, Gone, NothingTwice
<1>4. ASSUME NEW x \in UrlTexts, TypeUrls(x)
      PROVE  InOnePlace' /\ Spent' /\ NothingTwice'
  <2>1. form'.entry = [form.entry EXCEPT !["one-many"] = entries + 1]
    BY <1>1, <1>4 DEF TypeUrls, Edit, DialogInv, DialogType, Fields
  <2>2. entries' = entries + 1 /\ UNCHANGED <<parses, submit, created, unsure>>
    BY <1>4 DEF TypeUrls, Enter, Edit
  <2>3. "one-many" \in Tabs
    BY DEF Tabs
  <2>4. QED
    BY <2>1, <2>2, <2>3, EntryTyped
<1>5. ASSUME NEW x \in PairTexts, TypePairs(x)
      PROVE  InOnePlace' /\ Spent' /\ NothingTwice'
  <2>1. form'.entry = [form.entry EXCEPT !["pairs"] = entries + 1]
    BY <1>1, <1>5 DEF TypePairs, Edit, DialogInv, DialogType, Fields
  <2>2. entries' = entries + 1 /\ UNCHANGED <<parses, submit, created, unsure>>
    BY <1>5 DEF TypePairs, Enter, Edit
  <2>3. "pairs" \in Tabs
    BY DEF Tabs
  <2>4. QED
    BY <2>1, <2>2, <2>3, EntryTyped
<1>6. ASSUME NEW lines \in Files, ChooseFile(lines)
      PROVE  InOnePlace' /\ Spent' /\ NothingTwice'
  <2> DEFINE new == [lines |-> lines, header |-> form.header, entry |-> entries + 1]
  <2>1. /\ parses' = parses \cup {new} /\ entries' = entries + 1
        /\ UNCHANGED <<form, submit, created, unsure>>
    BY <1>6 DEF ChooseFile, Enter
  <2>2. new.entry = entries + 1
    OBVIOUS
  <2> HIDE DEF new
  <2>3. InOnePlace'
    BY <1>1, <2>1, <2>2 DEF InOnePlace
  <2>4. ASSUME NEW i \in DOMAIN created, created[i].entry \notin unsure
        PROVE  Gone(created[i].entry)'
    <3>1. Gone(created[i].entry) /\ created[i].entry \in 1..entries
      BY <1>1, <2>4 DEF Spent, InOnePlace
    <3>2. QED
      BY <1>1, <2>1, <2>2, <3>1 DEF Gone
  <2>5. Spent'
    BY <1>1, <2>1, <2>2, <2>4 DEF Spent, InOnePlace
  <2>6. QED
    BY <1>1, <2>1, <2>3, <2>5 DEF NothingTwice
<1>7. ASSUME NEW p \in parses, ParseEnds(p)
      PROVE  InOnePlace' /\ Spent' /\ NothingTwice'
  <2>1. /\ form'.entry = [form.entry EXCEPT !["csv"] = p.entry]
        /\ parses' = parses \ {p} /\ UNCHANGED <<submit, created, entries, unsure>>
    BY <1>1, <1>7 DEF ParseEnds, DialogInv, DialogType, Fields
  <2>2. form'.entry["csv"] = p.entry /\ \A t \in Tabs \ {"csv"} : form'.entry[t] = form.entry[t]
    BY <1>1, <2>1 DEF Tabs
  <2>3. InOnePlace'
    BY <1>1, <2>1, <2>2 DEF InOnePlace
  <2>4. ASSUME NEW i \in DOMAIN created, created[i].entry \notin unsure
        PROVE  Gone(created[i].entry)'
    <3>1. Gone(created[i].entry)
      BY <1>1, <2>4 DEF Spent
    <3>2. QED
      BY <1>1, <2>1, <2>2, <3>1 DEF Gone
  <2>5. Spent'
    BY <1>1, <2>1, <2>4 DEF Spent
  <2>6. QED
    BY <1>1, <2>1, <2>3, <2>5 DEF NothingTwice
<1>8. CASE ClickAdd
  <2>1. /\ submit.at = "idle" /\ submit'.at = "sent" /\ submit'.entry = form.entry[form.tab]
        /\ UNCHANGED <<form, parses, created, entries, unsure>>
    BY <1>8 DEF ClickAdd
  <2>2. InOnePlace'
    BY <1>1, <2>1 DEF InOnePlace
  <2>3. ASSUME NEW i \in DOMAIN created, created[i].entry \notin unsure
        PROVE  Gone(created[i].entry)'
    <3>1. Gone(created[i].entry)
      BY <1>1, <2>3 DEF Spent
    <3>2. QED
      BY <1>1, <2>1, <3>1 DEF Gone
  <2>4. Spent'
    BY <1>1, <2>1, <2>3 DEF Spent, InOnePlace
  <2>5. QED
    BY <1>1, <2>1, <2>2, <2>4 DEF NothingTwice
<1>9. CASE Create
  <2>1. /\ submit.at = "sent" /\ submit'.entry = submit.entry
        /\ submit'.at \in {"created", "refused"} /\ UNCHANGED <<form, parses, entries, unsure>>
    BY <1>1, <1>9 DEF Create
  <2>2. CASE ~Accepts(submit.items)
    <3>1. UNCHANGED created
      BY <1>9, <2>2 DEF Create
    <3>2. InOnePlace'
      BY <1>1, <2>1, <3>1 DEF InOnePlace
    <3>3. Spent'
      BY <1>1, <2>1, <3>1 DEF Spent, Gone
    <3>4. QED
      BY <1>1, <2>1, <3>1, <3>2, <3>3 DEF NothingTwice
  <2>3. CASE Accepts(submit.items)
    <3>1. PICK b : created' = Append(created, b) /\ b.entry = submit.entry
      BY <1>9, <2>3 DEF Create
    <3>2. submit'.at = "created"
      BY <1>1, <1>9, <2>3 DEF Create
    <3> DEFINE n == Len(created)
    <3>3. /\ n \in Nat /\ DOMAIN created = 1..n /\ DOMAIN created' = 1..(n + 1)
          /\ created'[n + 1].entry = submit.entry
          /\ \A i \in 1..n : created'[i] = created[i]
      BY <1>1, <3>1
    <3> HIDE DEF n
    <3>4. submit.entry \in 1..entries
      BY <1>1, <2>1 DEF DialogInv, Sent, InOnePlace
    <3>5. InOnePlace'
      <4>1. \A i \in DOMAIN created' : created'[i].entry \in 1..entries'
        BY <1>1, <2>1, <3>3, <3>4 DEF InOnePlace
      <4>2. QED
        BY <1>1, <2>1, <4>1 DEF InOnePlace
    <3>6. ASSUME NEW i \in 1..n, created[i].entry \notin unsure
          PROVE  Gone(created[i].entry) /\ created[i].entry # submit.entry
      BY <1>1, <2>1, <3>3, <3>6 DEF Spent, Gone
    <3>7. ASSUME NEW e \in Nat, Gone(e) \/ e = submit.entry
          PROVE  Gone(e)'
      BY <1>1, <2>1, <3>2, <3>7 DEF Gone, Spent
    <3>8. ASSUME NEW i \in DOMAIN created', created'[i].entry \notin unsure'
          PROVE  Gone(created[i].entry)'
      <4>1. PICK e \in Nat : e = created'[i].entry
        BY <1>1, <3>3 DEF InOnePlace
      <4>2. CASE i = n + 1
        <5>1. Gone(e)'
          BY <3>3, <3>7, <4>1, <4>2
        <5>2. QED
          BY <4>1, <5>1 DEF Gone
      <4>3. CASE i \in 1..n
        <5>1. created[i].entry = e /\ e \notin unsure
          BY <2>1, <3>3, <3>8, <4>1, <4>3
        <5>2. Gone(e)
          BY <3>6, <4>3, <5>1
        <5>3. Gone(e)'
          BY <3>7, <4>1, <5>2
        <5>4. QED
          BY <4>1, <5>3 DEF Gone
      <4>4. QED
        BY <3>3, <4>2, <4>3
    <3>9. Spent'
      <4>1. \A p \in parses' : p.entry # submit'.entry
        BY <1>1, <2>1 DEF Spent
      <4>2. QED
        BY <3>8, <4>1 DEF Spent
    <3>10. NothingTwice'
      <4>1. ASSUME NEW i \in 1..(n + 1), NEW j \in 1..(n + 1), i # j,
                   created'[i].entry = created'[j].entry
            PROVE  created'[i].entry \in unsure
        <5>1. CASE i \in 1..n /\ j \in 1..n
          BY <1>1, <3>3, <4>1, <5>1 DEF NothingTwice
        <5>2. CASE i = n + 1 /\ j \in 1..n
          BY <3>3, <3>6, <4>1, <5>2
        <5>3. CASE j = n + 1 /\ i \in 1..n
          BY <3>3, <3>6, <4>1, <5>3
        <5>4. QED
          BY <3>3, <4>1, <5>1, <5>2, <5>3
      <4>2. QED
        BY <2>1, <3>3, <4>1 DEF NothingTwice
    <3>11. QED
      BY <3>5, <3>9, <3>10
  <2>4. QED
    BY <2>2, <2>3
<1>10. CASE Added \/ Refused \/ RequestFails
  <2>1. /\ submit' = NoSubmit /\ UNCHANGED <<parses, created, entries>>
        /\ unsure \subseteq unsure'
    BY <1>10 DEF Added, Refused, RequestFails
  <2>2. form'.entry = form.entry \/ \A t \in Tabs : form'.entry[t] = 0
    <3>1. CASE Added
      BY <3>1 DEF Added, Reset, Empty
    <3>2. CASE Refused
      BY <3>2 DEF Refused
    <3>3. CASE RequestFails
      BY <3>3 DEF RequestFails
    <3>4. QED
      BY <1>10, <3>1, <3>2, <3>3
  <2>3. submit'.at = "idle" /\ submit'.entry = 0
    BY <2>1 DEF NoSubmit
  <2>4. InOnePlace'
    BY <1>1, <2>1, <2>2, <2>3 DEF InOnePlace
  <2>5. ASSUME NEW i \in DOMAIN created, created[i].entry \notin unsure'
        PROVE  Gone(created[i].entry)'
    <3>1. Gone(created[i].entry) /\ created[i].entry \in 1..entries
      BY <1>1, <2>1, <2>5 DEF Spent, InOnePlace
    <3>2. CASE Added
      <4>1. \A t \in Tabs : form'.entry[t] = 0
        BY <3>2 DEF Added, Reset, Empty
      <4>2. QED
        BY <1>1, <2>1, <2>3, <3>1, <4>1 DEF Gone
    <3>3. CASE Refused
      <4>1. submit.at = "refused" /\ form' = form
        BY <3>3 DEF Refused
      <4>2. QED
        BY <2>1, <2>3, <3>1, <4>1 DEF Gone
    <3>4. CASE RequestFails
      <4>1. form' = form /\ (submit.at = "created" => submit.entry # created[i].entry)
        BY <2>5, <3>4 DEF RequestFails
      <4>2. QED
        BY <2>1, <2>3, <3>1, <4>1 DEF Gone
    <3>5. QED
      BY <1>10, <3>2, <3>3, <3>4
  <2>6. Spent'
    BY <2>1, <2>3, <2>5 DEF Spent
  <2>7. QED
    BY <1>1, <2>1, <2>4, <2>6 DEF NothingTwice
<1>11. QED
  BY <1>3, <1>4, <1>5, <1>6, <1>7, <1>8, <1>9, <1>10 DEF DialogNext

LEMMA EntriesAreInvariant == DialogSpec => []EntryInv
<1>1. EntryInv /\ [DialogNext]_dialogVars => EntryInv'
  BY EntryInductive
<1>2. QED
  BY DialogStarts, <1>1, PTL DEF DialogSpec

\* What the user entered once is created at most once, unless the answer was lost: the
\* button waits for the answer (AddLinksDialog.tsx:76-88), the answer empties every tab
\* (:60-74), and a file that is still being read is of an entry that was not sent.
THEOREM EntriesAreCreatedOnce == DialogSpec => []NothingTwice
<1>1. EntryInv => NothingTwice
  BY DEF EntryInv
<1>2. QED
  BY EntriesAreInvariant, <1>1, PTL

\* What the dialog counts as valid the API takes, but for an acceptor that is too long,
\* and what is created has a URL to fetch and a host to look for: the two validations,
\* of the browser (parse-csv.ts) and of the API, agree on every list of every tab.
THEOREM ValidRowsAreTaken == DialogSpec => []ValidIsAccepted
<1>1. EntryInv => ValidIsAccepted
  <2> SUFFICES ASSUME EntryInv PROVE ValidIsAccepted
    OBVIOUS
  <2>1. submit.at = "refused" =>
           \E k \in DOMAIN submit.items : submit.items[k].acceptor = "long"
    BY DEF EntryInv, DialogInv, Sent
  <2>2. ASSUME NEW b \in DOMAIN created, NEW k \in DOMAIN created[b].links
        PROVE  /\ created[b].links[k].donorUrl = "http"
               /\ created[b].links[k].host \in {"host", "subdomain"}
    <3>1. created[b] \in Batches
      BY <2>2 DEF EntryInv, DialogInv, DialogType
    <3>2. created[b].links \in Seq(GoodLinks)
      BY <3>1 DEF Batches
    <3>3. created[b].links[k] \in GoodLinks
      BY <2>2, <3>2
    <3>4. QED
      BY <3>3 DEF GoodLinks
  <2>3. QED
    BY <2>1, <2>2 DEF ValidIsAccepted
<1>2. QED
  BY EntriesAreInvariant, <1>1, PTL

(***************************************************************************)
(* LinkResult: the columns of a row.                                       *)
(***************************************************************************)

LEMMA AnchorsFinite ==
    /\ IsFiniteSet(Anchors)
    /\ \A S \in SUBSET Anchors : IsFiniteSet(S) /\ Cardinality(S) \in 0..Cardinality(Anchors)
<1> DEFINE P == Targets \X SUBSET Rels
           f == [p \in P |-> [to |-> p[1], rel |-> p[2]]]
<1>1. IsFiniteSet(Rels)
  <2>1. IsFiniteSet({"nofollow"})
    BY FS_Singleton
  <2>2. IsFiniteSet({"nofollow"} \cup {"sponsored"})
    BY <2>1, FS_AddElement
  <2>3. IsFiniteSet({"nofollow"} \cup {"sponsored"} \cup {"ugc"})
    BY <2>2, FS_AddElement
  <2>4. IsFiniteSet({"nofollow"} \cup {"sponsored"} \cup {"ugc"} \cup {"noopener"})
    BY <2>3, FS_AddElement
  <2>5. IsFiniteSet({"nofollow"} \cup {"sponsored"} \cup {"ugc"} \cup {"noopener"} \cup {"canonical"})
    BY <2>4, FS_AddElement
  <2>6. Rels = {"nofollow"} \cup {"sponsored"} \cup {"ugc"} \cup {"noopener"} \cup {"canonical"}
    BY DEF Rels, NoFollowRels
  <2>7. QED
    BY <2>5, <2>6
<1>2. IsFiniteSet(Targets)
  <2>1. IsFiniteSet({"acceptor"})
    BY FS_Singleton
  <2>2. IsFiniteSet({"acceptor"} \cup {"elsewhere"})
    BY <2>1, FS_AddElement
  <2>3. IsFiniteSet({"acceptor"} \cup {"elsewhere"} \cup {"relative"})
    BY <2>2, FS_AddElement
  <2>4. IsFiniteSet({"acceptor"} \cup {"elsewhere"} \cup {"relative"} \cup {"mailto"})
    BY <2>3, FS_AddElement
  <2>5. IsFiniteSet({"acceptor"} \cup {"elsewhere"} \cup {"relative"} \cup {"mailto"} \cup {"own"})
    BY <2>4, FS_AddElement
  <2>6. Targets = {"acceptor"} \cup {"elsewhere"} \cup {"relative"} \cup {"mailto"} \cup {"own"}
    BY DEF Targets
  <2>7. QED
    BY <2>5, <2>6
<1>3. Anchors = [to : Targets, rel : SUBSET Rels]
  BY DEF Anchors
<1>4. IsFiniteSet(SUBSET Rels)
  BY <1>1, FS_SUBSET
<1>5. IsFiniteSet(P)
  BY <1>2, <1>4, FS_Product
<1>6. f \in Surjection(P, Anchors)
  <2>1. f \in [P -> Anchors]
    BY <1>3
  <2>2. ASSUME NEW a \in Anchors PROVE \E p \in P : f[p] = a
    <3>1. <<a.to, a.rel>> \in P /\ a = [to |-> a.to, rel |-> a.rel]
      BY <1>3, <2>2
    <3>2. f[<<a.to, a.rel>>] = a
      BY <3>1
    <3>3. QED
      BY <3>1, <3>2
  <2>3. QED
    BY <2>1, <2>2 DEF Surjection
<1>7. IsFiniteSet(Anchors)
  BY <1>5, <1>6, FS_Surjection
<1>8. ASSUME NEW S \in SUBSET Anchors
      PROVE  IsFiniteSet(S) /\ Cardinality(S) \in 0..Cardinality(Anchors)
  <2>1. IsFiniteSet(S) /\ Cardinality(S) <= Cardinality(Anchors)
    BY <1>7, FS_Subset
  <2>2. Cardinality(S) \in Nat /\ Cardinality(Anchors) \in Nat
    BY <1>7, <2>1, FS_CardinalityType
  <2>3. QED
    BY <2>1, <2>2
<1>9. QED
  BY <1>7, <1>8

(***************************************************************************)
(* The columns of a row beside the page they were saved for.               *)
(***************************************************************************)

\* The row has what the analysis of the page found; its status may have moved on.
Shows(k, p) ==
    /\ k.code = p.code
    /\ k.indexable = (~p.noindex /\ ~p.header)
    /\ k.canonical = canonicalOf(p)
    /\ k.matches = (canonicalOf(p) = Null \/ LeadsHere(p))
    /\ k.occurrences = Occurrences(p)
    /\ k.found = (Occurrences(p) # {})
    /\ k.count = Cardinality(Occurrences(p))

LinkInv ==
    /\ TypeOK
    /\ served \in [Links -> SUBSET Pages]
    /\ \A l \in Links : \A p \in served[l] : Shows(link[l], p)

LEMMA PageTyped ==
    ASSUME NEW l \in Links, NEW p \in Sites[l]
    PROVE  /\ p \in Pages /\ p.code \in 100..599 /\ p.noindex \in BOOLEAN /\ p.header \in BOOLEAN
           /\ p.canonical \in {"none"} \cup Targets /\ p.host \in {"donor", "acceptor"}
           /\ p.base \in {"none", "acceptor", "elsewhere"} /\ Elements(p) \subseteq Anchors
           /\ canonicalOf(p) \in Targets \cup {Null}
           /\ canonicalOf(p) = Null <=> p.canonical \in {"none", "mailto"}
           /\ Occurrences(p) \in SUBSET Anchors /\ Occurrences(p) # Null
           /\ IsFiniteSet(Occurrences(p))
           /\ Cardinality(Occurrences(p)) \in 0..Cardinality(Anchors)
<1>1. p \in Pages
  BY LinkResultAssumption DEF LinkResultAssumption
<1>2. /\ p.code \in 100..599 /\ p.noindex \in BOOLEAN /\ p.header \in BOOLEAN
      /\ p.canonical \in {"none"} \cup Targets /\ p.host \in {"donor", "acceptor"}
      /\ p.base \in {"none", "acceptor", "elsewhere"} /\ p.anchors \subseteq Anchors
  BY <1>1 DEF Pages
<1>3. Elements(p) \subseteq Anchors
  <2>1. ASSUME NEW t \in Targets PROVE [to |-> t, rel |-> {"canonical"}] \in Anchors
    BY DEF Anchors, Rels
  <2>2. QED
    BY <1>2, <2>1 DEF Elements
<1>4. Occurrences(p) \in SUBSET Anchors /\ Occurrences(p) \in SUBSET Elements(p)
  BY <1>3 DEF Occurrences
<1>5. Occurrences(p) # Null
  BY <1>4, LinkResultAssumption DEF LinkResultAssumption
<1>6. /\ canonicalOf(p) \in Targets \cup {Null}
      /\ canonicalOf(p) = Null <=> p.canonical \in {"none", "mailto"}
  BY <1>2, LinkResultAssumption DEF canonicalOf, LinkResultAssumption
<1>7. QED
  BY <1>1, <1>2, <1>3, <1>4, <1>5, <1>6, AnchorsFinite

LEMMA AnalyzedPage ==
    ASSUME NEW k \in LinkType, NEW l \in Links, NEW p \in Sites[l]
    PROVE  Saved(k, Analyzed(p)) \in LinkType /\ Shows(Saved(k, Analyzed(p)), p)
<1> DEFINE r == Analyzed(p)
           s == Saved(k, r)
<1>1. /\ r.ok = TRUE /\ r.code = p.code /\ r.indexable = (~p.noindex /\ ~p.header)
      /\ r.canonical = canonicalOf(p)
      /\ r.matches = (canonicalOf(p) = Null \/ LeadsHere(p))
      /\ r.occurrences = Occurrences(p) /\ r.found = (Occurrences(p) # {})
      /\ r.count = Cardinality(Occurrences(p))
  BY DEF Analyzed, parseDonorHtml
<1> HIDE DEF r
<1>2. /\ s = [status |-> s.status, code |-> s.code, indexable |-> s.indexable,
              canonical |-> s.canonical, matches |-> s.matches, found |-> s.found,
              occurrences |-> s.occurrences, count |-> s.count]
      /\ s.status \in {"DONE", "ERROR"} /\ s.code = r.code /\ s.indexable = r.indexable
      /\ s.canonical = r.canonical /\ s.matches = r.matches /\ s.found = r.found
      /\ s.occurrences = (IF r.occurrences = Null THEN k.occurrences ELSE r.occurrences)
      /\ s.count = r.count
  BY DEF Saved
<1> HIDE DEF s
<1>3. Shows(s, p)
  BY <1>1, <1>2, PageTyped DEF Shows
<1>4. s.matches \in BOOLEAN /\ s.found \in BOOLEAN /\ s.indexable \in BOOLEAN
  BY <1>1, <1>2
<1>5. /\ s.code \in 100..599 /\ s.canonical \in Targets \cup {Null}
      /\ s.occurrences \in SUBSET Anchors /\ s.count \in 0..Cardinality(Anchors)
  BY <1>1, <1>2, PageTyped
<1>6. s \in LinkType
  BY <1>2, <1>4, <1>5 DEF LinkType
<1>7. QED
  BY <1>3, <1>6 DEF s, r

\* Answers without an analysis, which leave the list of occurrences alone.
Failures(c) == {[baseResult EXCEPT !.code = c], baseResult}

LEMMA FailedPage ==
    ASSUME NEW k \in LinkType, NEW c \in 100..599, NEW r \in Failures(c)
    PROVE  Saved(k, r) \in LinkType /\ Saved(k, r).status # "DONE"
<1>1. /\ r.code \in (100..599) \cup {Null} /\ r.indexable = Null /\ r.canonical = Null
      /\ r.matches = Null /\ r.found = Null /\ r.occurrences = Null /\ r.count = 0
      /\ r.ok = FALSE
  BY DEF Failures, baseResult
<1>2. 0 \in 0..Cardinality(Anchors)
  BY AnchorsFinite
<1>3. k.occurrences \in (SUBSET Anchors) \cup {Null}
  BY DEF LinkType
<1>4. QED
  BY <1>1, <1>2, <1>3 DEF Saved, LinkType

\* A save keeps a row typed, and credits it with no page or with the one it shows.
Fits(l, k, pages) ==
    /\ k \in LinkType
    /\ pages = {} \/ \E p \in Sites[l] : pages = {p} /\ Shows(k, p)
    /\ k.status = "DONE" => pages # {}

LEMMA SaveFits ==
    ASSUME NEW l \in Links, link[l] \in LinkType, saveResult(l) \/ saveInvalid(l)
    PROVE  \E k, pages : /\ Fits(l, k, pages)
                         /\ link' = [link EXCEPT ![l] = k]
                         /\ served' = [served EXCEPT ![l] = pages]
<1>1. ASSUME NEW c \in 100..599, NEW r \in Failures(c), Save(l, r, {})
      PROVE  /\ Fits(l, Saved(link[l], r), {})
             /\ link' = [link EXCEPT ![l] = Saved(link[l], r)]
             /\ served' = [served EXCEPT ![l] = {}]
  BY <1>1, FailedPage DEF Fits, Save
<1>2. ASSUME NEW p \in Sites[l], Save(l, Analyzed(p), {p})
      PROVE  /\ Fits(l, Saved(link[l], Analyzed(p)), {p})
             /\ link' = [link EXCEPT ![l] = Saved(link[l], Analyzed(p))]
             /\ served' = [served EXCEPT ![l] = {p}]
  <2>1. Saved(link[l], Analyzed(p)) \in LinkType /\ Shows(Saved(link[l], Analyzed(p)), p)
    BY AnalyzedPage
  <2>2. QED
    BY <1>2, <2>1 DEF Fits, Save
<1>3. \/ Save(l, baseResult, {})
      \/ \E p \in Sites[l] : \/ Save(l, [baseResult EXCEPT !.code = p.code], {})
                            \/ Save(l, Analyzed(p), {p})
  BY DEF saveResult, saveInvalid
<1>4. \/ \E c \in 100..599 : \E r \in Failures(c) : Save(l, r, {})
      \/ \E p \in Sites[l] : Save(l, Analyzed(p), {p})
  <2>1. \A p \in Sites[l] : p.code \in 100..599
    BY PageTyped
  <2>2. 404 \in 100..599
    OBVIOUS
  <2>3. \A c : baseResult \in Failures(c) /\ [baseResult EXCEPT !.code = c] \in Failures(c)
    BY DEF Failures
  <2>4. QED
    BY <1>3, <2>1, <2>2, <2>3
<1>5. CASE \E c \in 100..599 : \E r \in Failures(c) : Save(l, r, {})
  BY <1>1, <1>5
<1>6. CASE \E p \in Sites[l] : Save(l, Analyzed(p), {p})
  BY <1>2, <1>6
<1>7. QED
  BY <1>4, <1>5, <1>6

LEMMA LinksStart == Init => LinkInv
<1> SUFFICES ASSUME Init PROVE LinkInv
  OBVIOUS
<1>1. 0 \in 0..Cardinality(Anchors)
  BY AnchorsFinite
<1>2. NewLink \in LinkType
  BY <1>1 DEF NewLink, LinkType
<1>3. \A l \in Links : link[l] = NewLink /\ served[l] = {}
  BY DEF Init
<1>4. Cardinality({}) = 0
  BY FS_EmptySet
<1>5. TypeOK
  BY <1>2, <1>3, <1>4 DEF TypeOK, Init
<1>6. QED
  BY <1>3, <1>5 DEF LinkInv, Init

LEMMA LinksInductive == LinkInv /\ [Next]_vars => LinkInv'
<1> SUFFICES ASSUME LinkInv, [Next]_vars PROVE LinkInv'
  OBVIOUS
<1>1. /\ link \in [Links -> LinkType] /\ served \in [Links -> SUBSET Pages]
      /\ \A l \in Links : served[l] \subseteq Sites[l] /\ Cardinality(served[l]) <= 1
      /\ \A l \in Links : \A p \in served[l] : Shows(link[l], p)
  BY DEF LinkInv, TypeOK
<1>2. CASE UNCHANGED vars
  BY <1>1, <1>2 DEF vars, LinkInv, TypeOK
<1>3. ASSUME NEW l \in Links, NEW s \in {"QUEUED", "CHECKING"},
             link' = [link EXCEPT ![l].status = s], UNCHANGED served
      PROVE  LinkInv'
  <2> DEFINE k == [link[l] EXCEPT !.status = s]
  <2>1. k \in LinkType
    BY <1>1, <1>3 DEF LinkType
  <2>2. \A p \in served[l] : Shows(k, p)
    BY <1>1 DEF Shows, LinkType
  <2>3. link' = [link EXCEPT ![l] = k]
    BY <1>1, <1>3
  <2> HIDE DEF k
  <2>4. link' \in [Links -> LinkType] /\ \A x \in Links : \A p \in served[x] : Shows(link'[x], p)
    BY <1>1, <2>1, <2>2, <2>3
  <2>5. QED
    BY <1>1, <1>3, <2>4 DEF LinkInv, TypeOK, Shows
<1>4. ASSUME NEW l \in Links, saveResult(l) \/ saveInvalid(l) PROVE LinkInv'
  <2>1. link[l] \in LinkType
    BY <1>1
  <2>2. PICK k, w : /\ Fits(l, k, w)
                    /\ link' = [link EXCEPT ![l] = k]
                    /\ served' = [served EXCEPT ![l] = w]
    BY <1>4, <2>1, SaveFits
  <2>3. k \in LinkType /\ \A q \in w : Shows(k, q)
    BY <2>2 DEF Fits
  <2>4. Cardinality(w) <= 1 /\ w \subseteq Sites[l] /\ w \subseteq Pages
    <3>1. Cardinality({}) = 0 /\ \A p : Cardinality({p}) = 1
      BY FS_EmptySet, FS_Singleton
    <3>2. w = {} \/ \E p \in Sites[l] : w = {p}
      BY <2>2 DEF Fits
    <3>3. \A p \in Sites[l] : p \in Pages
      BY PageTyped
    <3>4. CASE w = {}
      BY <3>1, <3>4
    <3>5. ASSUME NEW p \in Sites[l], w = {p}
          PROVE  Cardinality(w) <= 1 /\ w \subseteq Sites[l] /\ w \subseteq Pages
      <4>1. Cardinality(w) = 1
        BY <3>1, <3>5
      <4>2. QED
        BY <3>3, <3>5, <4>1
    <3>6. QED
      BY <3>2, <3>4, <3>5
  <2>5. link' \in [Links -> LinkType] /\ served' \in [Links -> SUBSET Pages]
    <3>1. served \in [Links -> SUBSET Pages] /\ w \in SUBSET Pages
      BY <1>1, <2>4
    <3>2. served' \in [Links -> SUBSET Pages]
      BY <2>2, <3>1
    <3>3. QED
      BY <1>1, <2>2, <2>3, <3>2
  <2>6. \A x \in Links : served'[x] \subseteq Sites[x] /\ Cardinality(served'[x]) <= 1
    BY <1>1, <2>2, <2>4
  <2>7. \A x \in Links : \A q \in served'[x] : Shows(link'[x], q)
    BY <1>1, <2>2, <2>3
  <2>8. QED
    BY <2>5, <2>6, <2>7 DEF LinkInv, TypeOK, Shows
<1>5. QED
  BY <1>2, <1>3, <1>4 DEF Next, markManyStatus, markStatus

LEMMA LinksAreInvariant == Spec => []LinkInv
BY LinksStart, LinksInductive, PTL DEF Spec

\* A row has a verdict's columns only, with the values the database allows, and is
\* credited with at most one page of those its donor serves (saveResult and the two
\* updates of a status, in any order).
THEOREM ColumnsTyped == Spec => []TypeOK
<1>1. LinkInv => TypeOK
  BY DEF LinkInv
<1>2. QED
  BY LinksAreInvariant, <1>1, PTL

\* The links a reader sees lead to the acceptor are those the parser resolves to it.
LEMMA LinkedIsOccurrences ==
    ASSUME NEW l \in Links, NEW p \in Sites[l]
    PROVE  Linked(p) = Occurrences(p)
<1>1. ASSUME NEW a \in Elements(p)
      PROVE  (Leads(a.to, p) = "acceptor")
                 <=> \/ a.to = "acceptor"
                     \/ (a.to = "own" /\ p.host = "acceptor")
                     \/ (a.to = "relative" /\ OnAcceptor(p))
  <2>1. /\ a.to \in Targets /\ p.base \in {"none", "acceptor", "elsewhere"}
        /\ p.host \in {"donor", "acceptor"}
    BY <1>1, PageTyped DEF Anchors
  <2>2. (baseHost(p) = "acceptor") <=> OnAcceptor(p)
    BY <2>1 DEF baseHost, OnAcceptor
  <2>3. Leads(a.to, p) = IF a.to = "own" THEN p.host
                         ELSE IF a.to = "relative" THEN baseHost(p) ELSE a.to
    BY <2>1 DEF Leads, Targets
  <2>4. QED
    BY <2>1, <2>2, <2>3 DEF Targets
<1>2. QED
  BY <1>1 DEF Linked, Occurrences

LEMMA VerdictOfPage ==
    ASSUME NEW l \in Links, NEW p \in Sites[l], NEW k \in LinkType, Shows(k, p), k.status = "DONE"
    PROVE  /\ computeRowStatus(k) = IF ~Healthy(p) THEN "PROBLEM"
                                    ELSE IF PointsAway(p) THEN "YELLOW" ELSE "GREEN"
           /\ computeFollowKind(k) = IF Linked(p) = {} THEN Null
                                     ELSE IF Followed(p) THEN "dofollow" ELSE "nofollow"
<1>1. Linked(p) = Occurrences(p) /\ List(k) = Linked(p)
  BY LinkedIsOccurrences, PageTyped DEF Shows, List
<1>2. Healthy(p) <=> (IsOk(k) /\ k.found = TRUE /\ k.indexable = TRUE)
  <2>1. p.noindex \in BOOLEAN /\ p.header \in BOOLEAN
    BY PageTyped
  <2>2. QED
    BY <1>1, <2>1 DEF Healthy, IsOk, Shows
<1>3. (k.matches = TRUE) <=> ~PointsAway(p)
  <2>1. /\ p.canonical \in {"none", "own", "acceptor", "elsewhere", "relative", "mailto"}
        /\ p.host \in {"donor", "acceptor"} /\ p.base \in {"none", "acceptor", "elsewhere"}
        /\ canonicalOf(p) = Null <=> p.canonical \in {"none", "mailto"}
    BY PageTyped DEF Targets
  <2>2. (canonicalOf(p) = Null \/ LeadsHere(p)) <=> ~PointsAway(p)
    BY <2>1 DEF LeadsHere, PointsAway, baseHost
  <2>3. k.matches = (canonicalOf(p) = Null \/ LeadsHere(p))
    BY DEF Shows
  <2>4. QED
    BY <2>2, <2>3
<1>4. computeRowStatus(k) = IF ~Healthy(p) THEN "PROBLEM"
                            ELSE IF PointsAway(p) THEN "YELLOW" ELSE "GREEN"
  BY <1>2, <1>3 DEF computeRowStatus
<1>5. computeFollowKind(k) = IF Linked(p) = {} THEN Null
                             ELSE IF Followed(p) THEN "dofollow" ELSE "nofollow"
  BY <1>1 DEF computeFollowKind, HasDofollow, Followed
<1>6. QED
  BY <1>4, <1>5

\* A row that is DONE is green, yellow or a problem by what its page says of itself, and
\* its follow badge is that of the links the page has: no earlier page's columns are left
\* (saveResult leaves the list of occurrences alone when there is no analysis).
THEOREM VerdictsArePages == Spec => []VerdictIsPage
<1>1. LinkInv => VerdictIsPage
  <2> SUFFICES ASSUME LinkInv, NEW l \in Links, NEW p \in served[l], link[l].status = "DONE"
               PROVE  /\ computeRowStatus(link[l]) =
                             IF ~Healthy(p) THEN "PROBLEM"
                             ELSE IF PointsAway(p) THEN "YELLOW" ELSE "GREEN"
                      /\ computeFollowKind(link[l]) =
                             IF Linked(p) = {} THEN Null
                             ELSE IF Followed(p) THEN "dofollow" ELSE "nofollow"
    BY DEF VerdictIsPage
  <2>1. link[l] \in LinkType /\ p \in Sites[l] /\ Shows(link[l], p)
    BY DEF LinkInv, TypeOK
  <2>2. QED
    BY <2>1, VerdictOfPage
<1>2. QED
  BY LinksAreInvariant, <1>1, PTL

(***************************************************************************)
(* The views of a row.                                                     *)
(***************************************************************************)

LEMMA OneFilter ==
    ASSUME NEW s \in {"PENDING", "CHECKING", "ERROR", "PROBLEM", "GREEN", "YELLOW"}
    PROVE  Cardinality({f \in DOMAIN StatusFilter : s \in StatusFilter[f]}) = 1
<1>1. DOMAIN StatusFilter = {"done", "problem", "error", "pending"}
  BY DEF StatusFilter
<1>2. /\ StatusFilter["done"] = {"GREEN", "YELLOW"} /\ StatusFilter["problem"] = {"PROBLEM"}
      /\ StatusFilter["error"] = {"ERROR"} /\ StatusFilter["pending"] = {"PENDING", "CHECKING"}
  BY DEF StatusFilter
<1> DEFINE F == {f \in DOMAIN StatusFilter : s \in StatusFilter[f]}
<1>3. \E f : F = {f}
  <2>1. CASE s \in {"GREEN", "YELLOW"}
    <3>1. F = {"done"}
      BY <1>1, <1>2, <2>1
    <3>2. QED
      BY <3>1
  <2>2. CASE s = "PROBLEM"
    <3>1. F = {"problem"}
      BY <1>1, <1>2, <2>2
    <3>2. QED
      BY <3>1
  <2>3. CASE s = "ERROR"
    <3>1. F = {"error"}
      BY <1>1, <1>2, <2>3
    <3>2. QED
      BY <3>1
  <2>4. CASE s \in {"PENDING", "CHECKING"}
    <3>1. F = {"pending"}
      BY <1>1, <1>2, <2>4
    <3>2. QED
      BY <3>1
  <2>5. QED
    BY <2>1, <2>2, <2>3, <2>4
<1> HIDE DEF F
<1>4. QED
  BY <1>3, FS_Singleton DEF F

LEMMA ViewsOfRow ==
    ASSUME NEW k \in LinkType
    PROVE  SameVerdict(k)
<1> DEFINE s == computeRowStatus(k)
<1>1. /\ k.status \in {"PENDING", "QUEUED", "CHECKING", "DONE", "ERROR"}
      /\ k.matches \in BOOLEAN \cup {Null} /\ Null \notin BOOLEAN
  BY LinkResultAssumption DEF LinkType, LinkResultAssumption
<1>2. s \in {"PENDING", "CHECKING", "ERROR", "PROBLEM", "GREEN", "YELLOW"}
  BY <1>1 DEF computeRowStatus
<1>3. deriveLabel(k) =
        CASE s = "PENDING" -> "Pending" [] s = "CHECKING" -> "Checking"
          [] s = "ERROR" -> "Error" [] s = "PROBLEM" -> "Problem"
          [] s = "GREEN" -> "Done" [] s = "YELLOW" -> "Done (canonical mismatch)"
  BY <1>1 DEF computeRowStatus, deriveLabel
<1>4. s = "GREEN" => k.matches = TRUE
  BY <1>1 DEF computeRowStatus
<1>5. s = "YELLOW" => k.matches # TRUE
  BY <1>1 DEF computeRowStatus
<1>6. linksToCsv(k).status = rowStatusLabel(s) /\ linksToCsv(k).canonical = Answer(k.matches)
  BY DEF linksToCsv
<1>7. Answer(k.matches) = "yes" <=> k.matches = TRUE
  BY <1>1 DEF Answer
<1>8. buildDataRowCells(k).status =
        CASE deriveLabel(k) = "Done (canonical mismatch)" -> "yellow"
          [] deriveLabel(k) \in {"Problem", "Error"} -> "red"
          [] deriveLabel(k) \in {"Pending", "Checking"} -> "grey"
          [] OTHER -> "green"
  BY DEF buildDataRowCells, formatRow
<1> HIDE DEF s
<1>9. buildDataRowCells(k).status =
        CASE s = "GREEN" -> "green" [] s = "YELLOW" -> "yellow"
          [] s \in {"PROBLEM", "ERROR"} -> "red" [] OTHER -> "grey"
  BY <1>2, <1>3, <1>8
<1>10. (deriveLabel(k) = linksToCsv(k).status) <=> (s # "YELLOW")
  BY <1>2, <1>3, <1>6 DEF rowStatusLabel
<1>11. s \in {"GREEN", "YELLOW"} => (linksToCsv(k).canonical = "yes" <=> s = "GREEN")
  BY <1>4, <1>5, <1>6, <1>7
<1>12. Cardinality({f \in DOMAIN StatusFilter : s \in StatusFilter[f]}) = 1
  BY <1>2, OneFilter
<1>13. QED
  BY <1>9, <1>10, <1>11, <1>12 DEF SameVerdict, s

LEMMA LinksOfRow ==
    ASSUME NEW l \in Links, NEW p \in Sites[l], NEW k \in LinkType, Shows(k, p)
    PROVE  SameLinks(k)
<1>1. /\ k.occurrences = Occurrences(p) /\ k.found = (Occurrences(p) # {})
      /\ k.count = Cardinality(Occurrences(p)) /\ Occurrences(p) # Null
      /\ k.canonical = canonicalOf(p)
      /\ k.matches = (canonicalOf(p) = Null \/ LeadsHere(p))
  BY PageTyped DEF Shows
<1>2. List(k) = Occurrences(p)
  BY <1>1 DEF List
<1>3. Null \notin BOOLEAN /\ Null \notin Targets \cup {"dofollow", "nofollow"}
  BY LinkResultAssumption DEF LinkResultAssumption
<1>4. deriveFoundCell(k) = IF computeFollowKind(k) = Null THEN "no" ELSE computeFollowKind(k)
  BY <1>1, <1>2, <1>3 DEF deriveFoundCell, computeFollowKind
<1>5. Details(k).rows = TableCells(k).count
  BY <1>1, <1>2 DEF Details, TableCells
<1>6. (TableCells(k).canonical = "") <=> (deriveCanonicalCell(k) = "not found")
  <2>1. k.matches \in BOOLEAN /\ k.matches # Null
    BY <1>1, <1>3
  <2>2. TableCells(k).canonical = IF k.canonical = Null THEN "" ELSE Answer(k.matches)
    BY <2>1 DEF TableCells
  <2>3. Answer(k.matches) # ""
    BY <2>1 DEF Answer
  <2>4. QED
    BY <2>2, <2>3 DEF deriveCanonicalCell
<1>7. QED
  BY <1>4, <1>5, <1>6 DEF SameLinks

\* The rule of the verdict is written for the table (status.ts:26) and again for the sheet
\* (sheets-task.service.ts:433): for every row the badge, the filter, the export and the
\* sheet tell apart the same, and while a row has a page's columns they speak of the same
\* links.
THEOREM ViewsAgreeOnRows == Spec => []ViewsAgree
<1>1. LinkInv => ViewsAgree
  <2> SUFFICES ASSUME LinkInv, NEW l \in Links
               PROVE  SameVerdict(link[l]) /\ (served[l] # {} => SameLinks(link[l]))
    BY DEF ViewsAgree
  <2>1. link[l] \in LinkType
    BY DEF LinkInv, TypeOK
  <2>2. ASSUME NEW p \in served[l] PROVE SameLinks(link[l])
    <3>1. p \in Sites[l] /\ Shows(link[l], p)
      BY DEF LinkInv, TypeOK
    <3>2. QED
      BY <2>1, <3>1, LinksOfRow
  <2>3. QED
    BY <2>1, <2>2, ViewsOfRow
<1>2. QED
  BY LinksAreInvariant, <1>1, PTL

(***************************************************************************)
(* The statistics.  A sum over the buckets of a group counts the rows whose *)
(* bucket is among them: the fold of Functions goes through the buckets in *)
(* an order of its own, and takes those of one bucket at a time.           *)
(***************************************************************************)

RowsIn(S, key, B) == {l \in S : key[l] \in B}

\* Split by the bucket b: its rows, and those of the other buckets of B.
LEMMA OneBucketLess ==
    ASSUME NEW S, IsFiniteSet(S), NEW key, NEW B, NEW b \in B
    PROVE  Cardinality(RowsIn(S, key, B)) =
               Cardinality(RowsIn(S, key, {b})) + Cardinality(RowsIn(S, key, B \ {b}))
<1> DEFINE P == RowsIn(S, key, {b})
           Q == RowsIn(S, key, B \ {b})
<1>1. P \subseteq S /\ Q \subseteq S /\ P \cap Q = {} /\ RowsIn(S, key, B) = P \cup Q
  BY DEF RowsIn
<1> HIDE DEF P, Q
<1>2. IsFiniteSet(P) /\ IsFiniteSet(Q)
  BY <1>1, FS_Subset
<1>3. Cardinality(P \cup Q) = Cardinality(P) + Cardinality(Q) - Cardinality(P \cap Q)
  BY <1>2, FS_Union
<1>4. Cardinality(P) \in Nat /\ Cardinality(Q) \in Nat /\ Cardinality(P \cap Q) = 0
  BY <1>1, <1>2, FS_CardinalityType, FS_EmptySet
<1>5. Cardinality(RowsIn(S, key, B)) = Cardinality(P) + Cardinality(Q)
  BY <1>1, <1>3, <1>4
<1>6. QED
  BY <1>5 DEF P, Q

\* f has the buckets B, and each the number of its rows.
Counts(f, S, key, B) == DOMAIN f = B /\ \A b \in B : f[b] = Cardinality(RowsIn(S, key, {b}))

SumOver(f, B) == FoldFunctionOnSet(+, 0, f, B)
SumOf(f) == FoldFunction(+, 0, f)

LEMMA BucketsCounted ==
    ASSUME NEW S, IsFiniteSet(S), NEW key, NEW B, IsFiniteSet(B), NEW f,
           \A b \in B : f[b] = Cardinality(RowsIn(S, key, {b}))
    PROVE  SumOver(f, B) = Cardinality(RowsIn(S, key, B))
<1> DEFINE E(g) == g = [s \in SUBSET B |->
                            IF s = {} THEN 0
                            ELSE f[CHOOSE x \in s : TRUE] + g[s \ {CHOOSE x \in s : TRUE}]]
           it == CHOOSE g : E(g)
           In(s) == Cardinality(RowsIn(S, key, s))
           h == [s \in SUBSET B |-> In(s)]
<1>1. SumOver(f, B) = it[B]
  BY DEF SumOver, FoldFunctionOnSet, MapThenFoldSet
<1>2. ASSUME NEW s \in SUBSET B, s # {}
      PROVE  /\ (CHOOSE x \in s : TRUE) \in s
             /\ s \ {CHOOSE x \in s : TRUE} \in SUBSET B
             /\ In(s) = f[CHOOSE x \in s : TRUE] + In(s \ {CHOOSE x \in s : TRUE})
  <2>1. (CHOOSE x \in s : TRUE) \in s
    BY <1>2
  <2> DEFINE c == CHOOSE x \in s : TRUE
  <2>2. c \in s
    BY <2>1
  <2> HIDE DEF c
  <2>3. In(s) = f[c] + In(s \ {c})
    <3>1. f[c] = Cardinality(RowsIn(S, key, {c}))
      BY <2>2
    <3> HIDE DEF h, it, E
    <3>2. Cardinality(RowsIn(S, key, s)) =
              Cardinality(RowsIn(S, key, {c})) + Cardinality(RowsIn(S, key, s \ {c}))
      BY <2>2, OneBucketLess
    <3>3. QED
      BY <3>1, <3>2
  <2>4. s \ {c} \in SUBSET B
    OBVIOUS
  <2>5. QED
    BY <2>2, <2>3, <2>4 DEF c
<1>3. In({}) = 0
  BY FS_EmptySet DEF RowsIn
<1> HIDE DEF In
<1>4. E(h)
  <2>1. ASSUME NEW s \in SUBSET B
        PROVE  h[s] = IF s = {} THEN 0
                      ELSE f[CHOOSE x \in s : TRUE] + h[s \ {CHOOSE x \in s : TRUE}]
    BY <1>2, <1>3
  <2>2. QED
    BY <2>1
<1>5. E(it)
  <2> HIDE DEF E, h
  <2>1. QED
    BY <1>4
<1>6. /\ it[{}] = 0
      /\ \A s \in SUBSET B : s # {} =>
             it[s] = f[CHOOSE x \in s : TRUE] + it[s \ {CHOOSE x \in s : TRUE}]
  <2> HIDE DEF it
  <2>1. \A s \in SUBSET B :
            it[s] = IF s = {} THEN 0
                    ELSE f[CHOOSE x \in s : TRUE] + it[s \ {CHOOSE x \in s : TRUE}]
    BY <1>5
  <2>2. QED
    BY <2>1
<1> HIDE DEF it, h, E
<1> DEFINE N == Cardinality(B)
           T == {n \in 0..N : \A s \in SUBSET B : Cardinality(s) = n => it[s] = In(s)}
<1>7. N \in Nat /\ \A s \in SUBSET B : IsFiniteSet(s) /\ Cardinality(s) \in Nat
  BY FS_CardinalityType, FS_Subset
<1>8. 0 \in T
  <2>1. \A s \in SUBSET B : Cardinality(s) = 0 => s = {}
    BY <1>7, FS_EmptySet
  <2>2. \A s \in SUBSET B : Cardinality(s) = 0 => it[s] = In(s)
    <3> HIDE DEF N
    <3>1. it[{}] = In({})
      BY <1>3, <1>6
    <3>2. QED
      BY <2>1, <3>1
  <2>3. 0 \in 0..N
    BY <1>7
  <2> HIDE DEF N
  <2>4. QED
    BY <2>2, <2>3
<1>9. ASSUME NEW n \in 1..N, n - 1 \in T PROVE n \in T
  <2>1. ASSUME NEW s \in SUBSET B, Cardinality(s) = n PROVE it[s] = In(s)
    <3> DEFINE c == CHOOSE x \in s : TRUE
    <3>1. s # {}
      BY <1>7, <2>1, FS_EmptySet
    <3>2. c \in s /\ s \ {c} \in SUBSET B /\ In(s) = f[c] + In(s \ {c})
      BY <1>2, <3>1
    <3>3. it[s] = f[c] + it[s \ {c}]
      BY <1>6, <3>1
    <3> HIDE DEF c
    <3>4. Cardinality(s \ {c}) = n - 1
      BY <1>7, <2>1, <3>2, FS_RemoveElement
    <3>5. it[s \ {c}] = In(s \ {c})
      BY <1>9, <3>2, <3>4
    <3>6. QED
      BY <3>2, <3>3, <3>5
  <2>2. n \in 0..N
    BY <1>7
  <2>3. QED
    BY <2>1, <2>2
<1>10. 0..N \subseteq T
  <2> HIDE DEF T, N
  <2>1. QED
    BY <1>7, <1>8, <1>9, IntervalByInduction
<1>11. N \in 0..N
  BY <1>7
<1>12. it[B] = In(B)
  BY <1>10, <1>11
<1>13. QED
  BY <1>1, <1>12 DEF In

LEMMA BucketsSummed ==
    ASSUME NEW S, IsFiniteSet(S), NEW key, NEW B, IsFiniteSet(B), NEW f, Counts(f, S, key, B)
    PROVE  SumOf(f) = Cardinality(RowsIn(S, key, B))
<1>1. SumOver(f, B) = Cardinality(RowsIn(S, key, B))
  BY BucketsCounted DEF Counts
<1>2. SumOf(f) = SumOver(f, DOMAIN f)
  BY DEF SumOf, SumOver, FoldFunction
<1>3. QED
  BY <1>1, <1>2 DEF Counts

\* Where aggregate puts a row, beside what the table and the sheet show of it.
LEMMA BucketsOfRow ==
    ASSUME NEW k \in LinkType
    PROVE  /\ TotalsBucket(k) \in {"done", "problem", "error", "pending"}
           /\ \A f \in {"done", "problem", "error", "pending"} :
                  TotalsBucket(k) = f <=> computeRowStatus(k) \in StatusFilter[f]
           /\ isProblem(k) <=> TotalsBucket(k) \in {"problem", "error"}
           /\ FoundBucket(k) \in {"dofollow", "nofollow"} <=> deriveFoundCell(k) # "no"
           /\ HttpBucket(k) \in {"ok", "redirect", "notFound", "serverError", "other"}
              <=> k.code # Null
           /\ CanonicalBucket(k) \in {"match", "mismatch", "notFound", "unknown"}
<1>1. /\ k.status \in {"PENDING", "QUEUED", "CHECKING", "DONE", "ERROR"}
      /\ k.matches \in BOOLEAN \cup {Null}
  BY DEF LinkType
<1>2. /\ StatusFilter["done"] = {"GREEN", "YELLOW"} /\ StatusFilter["problem"] = {"PROBLEM"}
      /\ StatusFilter["error"] = {"ERROR"} /\ StatusFilter["pending"] = {"PENDING", "CHECKING"}
  BY DEF StatusFilter
<1>3. TotalsBucket(k) = CASE k.status \in {"PENDING", "QUEUED", "CHECKING"} -> "pending"
                          [] k.status = "ERROR" -> "error"
                          [] k.status = "DONE" /\ Sound(k) -> "done"
                          [] k.status = "DONE" /\ ~Sound(k) -> "problem"
  BY <1>1 DEF TotalsBucket
<1>4. /\ k.status \in {"PENDING", "QUEUED"} => computeRowStatus(k) = "PENDING"
      /\ k.status \in {"CHECKING", "ERROR"} => computeRowStatus(k) = k.status
      /\ k.status = "DONE" /\ ~Sound(k) => computeRowStatus(k) = "PROBLEM"
      /\ k.status = "DONE" /\ Sound(k) => computeRowStatus(k) \in {"GREEN", "YELLOW"}
  BY <1>1 DEF computeRowStatus, Sound
<1>5. isProblem(k) <=> (k.status = "ERROR" \/ (k.status = "DONE" /\ ~Sound(k)))
  BY DEF isProblem
<1>6. FoundBucket(k) \in {"dofollow", "nofollow"} <=> deriveFoundCell(k) # "no"
  BY DEF FoundBucket, deriveFoundCell
<1>7. HttpBucket(k) \in {"ok", "redirect", "notFound", "serverError", "other"} <=> k.code # Null
  <2>1. CASE k.code = Null
    <3>1. HttpBucket(k) = "none"
      <4>1. Null \notin 200..299 /\ Null \notin 300..399 /\ Null # 404 /\ Null \notin 500..599
        BY LinkResultAssumption DEF LinkResultAssumption
      <4>2. QED
        BY <2>1, <4>1 DEF HttpBucket
    <3>2. QED
      BY <2>1, <3>1
  <2>2. CASE k.code # Null
    <3>1. k.code \in 100..599
      BY <2>2 DEF LinkType
    <3>2. HttpBucket(k) = CASE k.code \in 200..299 -> "ok" [] k.code \in 300..399 -> "redirect"
                            [] k.code = 404 -> "notFound"
                            [] k.code \in 500..599 -> "serverError" [] OTHER -> "other"
      BY <2>2, <3>1 DEF HttpBucket
    <3>3. QED
      BY <2>2, <3>1, <3>2
  <2>3. QED
    BY <2>1, <2>2
<1>8. CanonicalBucket(k) \in {"match", "mismatch", "notFound", "unknown"}
  BY <1>1 DEF CanonicalBucket
<1>9. /\ TotalsBucket(k) \in {"done", "problem", "error", "pending"}
      /\ \A f \in {"done", "problem", "error", "pending"} :
             TotalsBucket(k) = f <=> computeRowStatus(k) \in StatusFilter[f]
      /\ isProblem(k) <=> TotalsBucket(k) \in {"problem", "error"}
  <2>1. CASE k.status \in {"PENDING", "QUEUED", "CHECKING"}
    BY <1>2, <1>3, <1>4, <1>5, <2>1
  <2>2. CASE k.status = "ERROR"
    BY <1>2, <1>3, <1>4, <1>5, <2>2
  <2>3. CASE k.status = "DONE" /\ Sound(k)
    BY <1>2, <1>3, <1>4, <1>5, <2>3
  <2>4. CASE k.status = "DONE" /\ ~Sound(k)
    BY <1>2, <1>3, <1>4, <1>5, <2>4
  <2>5. QED
    BY <1>1, <2>1, <2>2, <2>3, <2>4
<1>10. QED
  BY <1>6, <1>7, <1>8, <1>9

\* A row that is DONE has a page's columns: whether the canonical URL matches is known.
DoneInv == \A l \in Links : link[l].status = "DONE" => served[l] # {}

LEMMA DoneStarts == Init => DoneInv
BY DEF Init, DoneInv, NewLink

LEMMA DoneInductive == LinkInv /\ DoneInv /\ [Next]_vars => DoneInv'
<1> SUFFICES ASSUME LinkInv, DoneInv, [Next]_vars PROVE DoneInv'
  OBVIOUS
<1>1. link \in [Links -> LinkType] /\ served \in [Links -> SUBSET Pages]
  BY DEF LinkInv, TypeOK
<1>2. CASE UNCHANGED vars
  BY <1>2 DEF vars, DoneInv
<1>3. ASSUME NEW l \in Links, NEW s \in {"QUEUED", "CHECKING"},
             link' = [link EXCEPT ![l].status = s], UNCHANGED served
      PROVE  DoneInv'
  <2>1. /\ link'[l].status = s
        /\ \A x \in Links \ {l} : link'[x] = link[x]
    BY <1>1, <1>3 DEF LinkType
  <2>2. QED
    BY <1>3, <2>1 DEF DoneInv
<1>4. ASSUME NEW l \in Links, saveResult(l) \/ saveInvalid(l) PROVE DoneInv'
  <2>1. PICK k, w : /\ Fits(l, k, w)
                    /\ link' = [link EXCEPT ![l] = k]
                    /\ served' = [served EXCEPT ![l] = w]
    BY <1>1, <1>4, SaveFits
  <2>2. /\ link'[l] = k /\ served'[l] = w
        /\ \A x \in Links \ {l} : link'[x] = link[x] /\ served'[x] = served[x]
    BY <1>1, <2>1
  <2>3. QED
    BY <2>1, <2>2 DEF DoneInv, Fits
<1>5. QED
  BY <1>2, <1>3, <1>4 DEF Next, markManyStatus, markStatus

LEMMA CanonicalOfRow ==
    ASSUME LinkInv, DoneInv, NEW l \in Links
    PROVE  CanonicalBucket(link[l]) = "notFound"
           <=> link[l].status = "DONE" /\ TableCells(link[l]).canonical = ""
<1> DEFINE k == link[l]
<1>1. Null \notin BOOLEAN
  BY LinkResultAssumption DEF LinkResultAssumption
<1>2. TableCells(k).canonical =
          IF k.canonical = Null \/ k.matches = Null THEN "" ELSE Answer(k.matches)
  BY DEF TableCells
<1>3. CASE k.status = "DONE"
  <2>1. PICK p : p \in served[l]
    BY <1>3 DEF DoneInv
  <2>2. p \in Sites[l] /\ Shows(k, p)
    BY <2>1 DEF LinkInv, TypeOK
  <2>3. k.matches \in BOOLEAN
    BY <2>2 DEF Shows
  <2>4. Answer(k.matches) # ""
    BY <1>1, <2>3 DEF Answer
  <2>5. QED
    BY <1>1, <1>2, <1>3, <2>3, <2>4 DEF CanonicalBucket
<1>4. CASE k.status # "DONE"
  BY <1>4 DEF CanonicalBucket
<1>5. QED
  BY <1>3, <1>4

LEMMA UpToFive == \A a, b, c, d, e : IsFiniteSet({a, b, c, d, e})
<1> TAKE a, b, c, d, e
<1>1. IsFiniteSet({a} \cup {b})
  BY FS_Singleton, FS_AddElement
<1>2. IsFiniteSet({a} \cup {b} \cup {c})
  BY <1>1, FS_AddElement
<1>3. IsFiniteSet({a} \cup {b} \cup {c} \cup {d})
  BY <1>2, FS_AddElement
<1>4. IsFiniteSet({a} \cup {b} \cup {c} \cup {d} \cup {e})
  BY <1>3, FS_AddElement
<1>5. {a, b, c, d, e} = {a} \cup {b} \cup {c} \cup {d} \cup {e}
  OBVIOUS
<1>6. QED
  BY <1>4, <1>5

\* The buckets of each group are few.
LEMMA FewBuckets ==
    /\ IsFiniteSet({"done", "problem", "error", "pending"})
    /\ IsFiniteSet({"dofollow", "nofollow"})
    /\ IsFiniteSet({"ok", "redirect", "notFound", "serverError", "other"})
    /\ IsFiniteSet({"match", "mismatch", "notFound", "unknown"})
<1>1. /\ {"done", "problem", "error", "pending"} = {"done", "problem", "error", "pending", "pending"}
      /\ {"dofollow", "nofollow"} = {"dofollow", "nofollow", "nofollow", "nofollow", "nofollow"}
      /\ {"match", "mismatch", "notFound", "unknown"} =
             {"match", "mismatch", "notFound", "unknown", "unknown"}
  OBVIOUS
<1>2. /\ IsFiniteSet({"done", "problem", "error", "pending", "pending"})
      /\ IsFiniteSet({"dofollow", "nofollow", "nofollow", "nofollow", "nofollow"})
      /\ IsFiniteSet({"match", "mismatch", "notFound", "unknown", "unknown"})
      /\ IsFiniteSet({"ok", "redirect", "notFound", "serverError", "other"})
  BY UpToFive
<1>3. QED
  BY <1>1, <1>2

TotalsKey(S) == [l \in S |-> TotalsBucket(link[l])]
FoundKey(S) == [l \in S |-> FoundBucket(link[l])]
HttpKey(S) == [l \in S |-> HttpBucket(link[l])]
CanonicalKey(S) == [l \in S |-> CanonicalBucket(link[l])]

\* Every count of aggregate, as the rows of S a bucket's key sends there.
LEMMA CountsOfRows ==
    ASSUME NEW S \in SUBSET Links
    PROVE  /\ IsFiniteSet(S)
           /\ aggregate(S).total = Cardinality(S)
           /\ Counts(aggregate(S).totals, S, TotalsKey(S), {"done", "problem", "error", "pending"})
           /\ Counts(aggregate(S).found, S, FoundKey(S), {"dofollow", "nofollow"})
           /\ Counts(aggregate(S).http, S, HttpKey(S),
                     {"ok", "redirect", "notFound", "serverError", "other"})
           /\ Counts(aggregate(S).canonical, S, CanonicalKey(S),
                     {"match", "mismatch", "notFound", "unknown"})
<1>1. IsFiniteSet(S)
  BY FS_Subset, LinkResultAssumption DEF LinkResultAssumption
<1>2. aggregate(S).total = Cardinality(S)
  BY DEF aggregate
<1>3. Counts(aggregate(S).totals, S, TotalsKey(S), {"done", "problem", "error", "pending"})
  <2>1. aggregate(S).totals = [b \in {"done", "problem", "error", "pending"} |->
                                 Cardinality({l \in S : TotalsBucket(link[l]) = b})]
    BY DEF aggregate
  <2>2. \A b : RowsIn(S, TotalsKey(S), {b}) = {l \in S : TotalsBucket(link[l]) = b}
    BY DEF RowsIn, TotalsKey
  <2>3. QED
    BY <2>1, <2>2 DEF Counts
<1>4. Counts(aggregate(S).found, S, FoundKey(S), {"dofollow", "nofollow"})
  <2>1. aggregate(S).found = [b \in {"dofollow", "nofollow"} |->
                                Cardinality({l \in S : FoundBucket(link[l]) = b})]
    BY DEF aggregate
  <2>2. \A b : RowsIn(S, FoundKey(S), {b}) = {l \in S : FoundBucket(link[l]) = b}
    BY DEF RowsIn, FoundKey
  <2>3. QED
    BY <2>1, <2>2 DEF Counts
<1>5. Counts(aggregate(S).http, S, HttpKey(S),
             {"ok", "redirect", "notFound", "serverError", "other"})
  <2>1. aggregate(S).http = [b \in {"ok", "redirect", "notFound", "serverError", "other"} |->
                               Cardinality({l \in S : HttpBucket(link[l]) = b})]
    BY DEF aggregate
  <2>2. \A b : RowsIn(S, HttpKey(S), {b}) = {l \in S : HttpBucket(link[l]) = b}
    BY DEF RowsIn, HttpKey
  <2>3. QED
    BY <2>1, <2>2 DEF Counts
<1>6. Counts(aggregate(S).canonical, S, CanonicalKey(S),
             {"match", "mismatch", "notFound", "unknown"})
  <2>1. aggregate(S).canonical = [b \in {"match", "mismatch", "notFound", "unknown"} |->
                                    Cardinality({l \in S : CanonicalBucket(link[l]) = b})]
    BY DEF aggregate
  <2>2. \A b : RowsIn(S, CanonicalKey(S), {b}) = {l \in S : CanonicalBucket(link[l]) = b}
    BY DEF RowsIn, CanonicalKey
  <2>3. QED
    BY <2>1, <2>2 DEF Counts
<1>7. QED
  BY <1>1, <1>2, <1>3, <1>4, <1>5, <1>6

\* The buckets of one group, and what the fold over them gives.
LEMMA TotalsOfScope ==
    ASSUME LinkInv, NEW S \in SUBSET Links
    PROVE  /\ \A f \in DOMAIN StatusFilter :
                  aggregate(S).totals[f] = Cardinality(Filtered(f) \cap S)
           /\ SumOver(aggregate(S).totals, StatusPie(aggregate(S))) = Cardinality(S)
<1> DEFINE key == TotalsKey(S)
           tot == aggregate(S).totals
           B == {"done", "problem", "error", "pending"}
           pie == StatusPie(aggregate(S))
<1>1. IsFiniteSet(S) /\ Counts(tot, S, key, B)
  BY CountsOfRows
<1>2. \A l \in S : link[l] \in LinkType /\ l \in Links
  BY DEF LinkInv, TypeOK
<1>3. \A l \in S : key[l] = TotalsBucket(link[l]) /\ key[l] \in B
  BY <1>2, BucketsOfRow DEF TotalsKey
<1>4. \A b \in B : RowsIn(S, key, {b}) = Filtered(b) \cap S
  <2> SUFFICES ASSUME NEW b \in B PROVE RowsIn(S, key, {b}) = Filtered(b) \cap S
    OBVIOUS
  <2>1. \A l \in S : key[l] = b <=> computeRowStatus(link[l]) \in StatusFilter[b]
    BY <1>2, <1>3, BucketsOfRow
  <2> HIDE DEF key
  <2>2. QED
    BY <2>1 DEF RowsIn, Filtered
<1>5. DOMAIN StatusFilter = B
  BY DEF StatusFilter
<1> HIDE DEF key, tot
<1>6. \A b \in B : tot[b] = Cardinality(Filtered(b) \cap S)
  BY <1>1, <1>4 DEF Counts
<1>7. pie = {b \in B : tot[b] > 0}
  BY <1>1 DEF StatusPie, Counts, tot
<1> HIDE DEF pie
<1>8. IsFiniteSet(pie)
  BY <1>7, FewBuckets, FS_Subset
<1>9. \A b \in pie : tot[b] = Cardinality(RowsIn(S, key, {b}))
  BY <1>1, <1>7 DEF Counts
<1>10. SumOver(tot, pie) = Cardinality(RowsIn(S, key, pie))
  BY <1>1, <1>8, <1>9, BucketsCounted
<1>11. RowsIn(S, key, pie) = S
  <2> SUFFICES ASSUME NEW l \in S PROVE key[l] \in pie
    BY DEF RowsIn
  <2> DEFINE P == RowsIn(S, key, {key[l]})
  <2>1. l \in P /\ P \in SUBSET S
    BY DEF RowsIn
  <2> HIDE DEF P
  <2>2. IsFiniteSet(P) /\ Cardinality(P) \in Nat /\ Cardinality(P) # 0
    BY <1>1, <2>1, FS_Subset, FS_CardinalityType, FS_EmptySet
  <2>3. key[l] \in B /\ tot[key[l]] = Cardinality(P)
    BY <1>1, <1>3 DEF Counts, P
  <2>4. QED
    BY <1>7, <2>2, <2>3
<1>12. QED
  BY <1>5, <1>6, <1>10, <1>11 DEF tot, pie

LEMMA GroupsOfScope ==
    ASSUME LinkInv, DoneInv, NEW S \in SUBSET Links
    PROVE  /\ SumOf(aggregate(S).found) =
                  Cardinality({l \in S : deriveFoundCell(link[l]) # "no"})
           /\ SumOf(aggregate(S).http) = Cardinality({l \in S : link[l].code # Null})
           /\ SumOf(aggregate(S).canonical) = Cardinality(S)
           /\ aggregate(S).canonical.notFound =
                  Cardinality({l \in S : /\ link[l].status = "DONE"
                                         /\ TableCells(link[l]).canonical = ""})
<1>1. IsFiniteSet(S) /\ \A l \in S : link[l] \in LinkType /\ l \in Links
  BY CountsOfRows DEF LinkInv, TypeOK
<1>2. SumOf(aggregate(S).found) =
          Cardinality({l \in S : deriveFoundCell(link[l]) # "no"})
  <2> DEFINE key == FoundKey(S)
             B == {"dofollow", "nofollow"}
  <2>1. RowsIn(S, key, B) = {l \in S : deriveFoundCell(link[l]) # "no"}
    BY <1>1, BucketsOfRow DEF RowsIn, FoundKey
  <2>2. Counts(aggregate(S).found, S, key, B)
    BY CountsOfRows
  <2>3. IsFiniteSet(B)
    BY FewBuckets
  <2> HIDE DEF key, B
  <2>4. QED
    BY <1>1, <2>1, <2>2, <2>3, BucketsSummed
<1>3. SumOf(aggregate(S).http) = Cardinality({l \in S : link[l].code # Null})
  <2> DEFINE key == HttpKey(S)
             B == {"ok", "redirect", "notFound", "serverError", "other"}
  <2>1. RowsIn(S, key, B) = {l \in S : link[l].code # Null}
    <3>1. \A l \in S : HttpBucket(link[l]) \in B <=> link[l].code # Null
      BY <1>1, BucketsOfRow
    <3> HIDE DEF B
    <3>2. QED
      BY <3>1 DEF RowsIn, HttpKey
  <2>2. Counts(aggregate(S).http, S, key, B)
    BY CountsOfRows
  <2>3. IsFiniteSet(B)
    BY FewBuckets
  <2> HIDE DEF key, B
  <2>4. QED
    BY <1>1, <2>1, <2>2, <2>3, BucketsSummed
<1>4. SumOf(aggregate(S).canonical) = Cardinality(S)
  <2> DEFINE key == CanonicalKey(S)
             B == {"match", "mismatch", "notFound", "unknown"}
  <2>1. RowsIn(S, key, B) = S
    <3>1. \A l \in S : CanonicalBucket(link[l]) \in B
      BY <1>1, BucketsOfRow
    <3> HIDE DEF B
    <3>2. QED
      BY <3>1 DEF RowsIn, CanonicalKey
  <2>2. Counts(aggregate(S).canonical, S, key, B)
    BY CountsOfRows
  <2>3. IsFiniteSet(B)
    BY FewBuckets
  <2> HIDE DEF key, B
  <2>4. QED
    BY <1>1, <2>1, <2>2, <2>3, BucketsSummed
<1>5. aggregate(S).canonical.notFound =
          Cardinality({l \in S : link[l].status = "DONE" /\ TableCells(link[l]).canonical = ""})
  <2> DEFINE key == CanonicalKey(S)
  <2>1. aggregate(S).canonical["notFound"] = Cardinality(RowsIn(S, key, {"notFound"}))
    BY CountsOfRows DEF Counts
  <2>2. \A l \in S : key[l] = "notFound" <=>
                     (link[l].status = "DONE" /\ TableCells(link[l]).canonical = "")
    BY <1>1, CanonicalOfRow DEF CanonicalKey
  <2> HIDE DEF key
  <2>3. RowsIn(S, key, {"notFound"}) =
            {l \in S : link[l].status = "DONE" /\ TableCells(link[l]).canonical = ""}
    BY <2>2 DEF RowsIn
  <2>4. QED
    BY <2>1, <2>3
<1>6. QED
  BY <1>2, <1>3, <1>4, <1>5

\* The problem rows of the statistics are those the filters for problems and errors show.
LEMMA WorstOfScope ==
    ASSUME LinkInv, NEW S \in SUBSET Links, NEW list \in aggregate(S).topProblemDonors
    PROVE  WorstListed(S, list)
<1> DEFINE rows == S \cap (Filtered("problem") \cup Filtered("error"))
           of(h) == Cardinality({l \in rows : Hosts[l] = h})
           hosts == {Hosts[l] : l \in {k \in S : isProblem(link[k])}} \ {Null}
<1>1. \A l \in S : l \in Links /\ link[l] \in LinkType
  BY DEF LinkInv, TypeOK
<1>2. rows = {l \in S : isProblem(link[l])}
  <2>1. ASSUME NEW l \in S
        PROVE  isProblem(link[l]) <=> (\/ computeRowStatus(link[l]) \in StatusFilter["problem"]
                                       \/ computeRowStatus(link[l]) \in StatusFilter["error"])
    BY <1>1, BucketsOfRow
  <2>2. QED
    BY <1>1, <2>1 DEF Filtered
<1>3. \A h : {l \in rows : Hosts[l] = h} = {l \in S : Hosts[l] = h /\ isProblem(link[l])}
  BY <1>2
<1> HIDE DEF rows
<1>4. \A h : of(h) = problemCount(S, h)
  BY <1>3 DEF problemCount
<1>5. PICK T \in SUBSET hosts :
         /\ list = [h \in T |-> problemCount(S, h)]
         /\ Cardinality(T) = TopProblemLimit \/ T = hosts
         /\ \A h \in T, g \in hosts \ T : problemCount(S, h) >= problemCount(S, g)
  BY DEF aggregate, topProblemDonors
<1>6. hosts = {Hosts[l] : l \in rows} \ {Null}
  BY <1>2
<1>7. IsFiniteSet(rows)
  BY FS_Subset, LinkResultAssumption DEF LinkResultAssumption, rows
<1> HIDE DEF hosts
<1>8. ASSUME NEW h \in hosts PROVE of(h) > 0
  <2> DEFINE P == {l \in rows : Hosts[l] = h}
  <2>1. P # {} /\ P \in SUBSET rows
    BY <1>6, <1>8
  <2> HIDE DEF P
  <2>2. Cardinality(P) \in Nat /\ Cardinality(P) # 0
    BY <1>7, <2>1, FS_Subset, FS_CardinalityType, FS_EmptySet
  <2>3. QED
    BY <2>2 DEF P
<1> HIDE DEF of
<1>9. DOMAIN list = T /\ \A h \in T : list[h] = of(h)
  BY <1>4, <1>5
<1>10. \A h \in DOMAIN list : h # Null /\ list[h] = of(h) /\ of(h) > 0
  BY <1>6, <1>8, <1>9
<1>11. ASSUME NEW l \in rows, Hosts[l] \notin (DOMAIN list) \cup {Null}
       PROVE  /\ Cardinality(DOMAIN list) = TopProblemLimit
              /\ \A h \in DOMAIN list : list[h] >= of(Hosts[l])
  <2>1. Hosts[l] \in hosts \ T
    BY <1>6, <1>9, <1>11
  <2>2. QED
    BY <1>4, <1>5, <1>9, <2>1
<1>12. QED
  BY <1>10, <1>11 DEF WorstListed, rows, of

\* StatsService.aggregate (stats.service.ts:41) beside the table: for every project, every
\* scope and whatever its checks have found, each filter of the table shows as many rows
\* as the pie counts, no row is in two slices or in none, and the problem list is that of
\* the hosts with the most rows under the filters for problems and errors.
THEOREM StatisticsCountRows == Spec => []StatsAgree
<1>1. LinkInv /\ DoneInv => StatsAgree
  <2> SUFFICES ASSUME LinkInv, DoneInv PROVE StatsAgree
    OBVIOUS
  <2>1. ASSUME NEW S \in SUBSET Links
        PROVE  /\ \A f \in DOMAIN StatusFilter :
                      aggregate(S).totals[f] = Cardinality(Filtered(f) \cap S)
               /\ SumOver(aggregate(S).totals, StatusPie(aggregate(S))) = aggregate(S).total
               /\ SumOf(aggregate(S).found) =
                      Cardinality({l \in S : deriveFoundCell(link[l]) # "no"})
               /\ SumOf(aggregate(S).http) = Cardinality({l \in S : link[l].code # Null})
               /\ SumOf(aggregate(S).canonical) = aggregate(S).total
               /\ aggregate(S).canonical.notFound =
                      Cardinality({l \in S : /\ link[l].status = "DONE"
                                             /\ TableCells(link[l]).canonical = ""})
               /\ \A list \in aggregate(S).topProblemDonors : WorstListed(S, list)
    <3>1. aggregate(S).total = Cardinality(S)
      BY CountsOfRows
    <3>2. QED
      BY <3>1, TotalsOfScope, GroupsOfScope, WorstOfScope
  <2>2. \A scope : InScope(scope) \in SUBSET Links
    BY DEF InScope
  <2>3. QED
    BY <2>1, <2>2, Zenon DEF StatsAgree, SumOver, SumOf
<1>2. Spec => [](LinkInv /\ DoneInv)
  BY LinksStart, LinksInductive, DoneStarts, DoneInductive, PTL DEF Spec
<1>3. QED
  BY <1>1, <1>2, PTL

(***************************************************************************)
(* ResultSheet: its inductive invariant.                                   *)
(***************************************************************************)

ValidForms == {f \in Forms : validate(f)}

SheetType ==
    /\ task # NoTask => task \in ValidForms
    /\ sheet \in [Rows -> [Columns -> {"", "input", "result", "heading"}]]
    /\ acts \in Nat /\ run.since \in 0..acts
    /\ run.at \in {"idle", "read", "written"}
    /\ run.at = "idle" => run = NoRun
    /\ run.at # "idle" =>
          run = [at |-> run.at, task |-> run.task, rows |-> run.rows, since |-> run.since]
          /\ run.task \in ValidForms /\ run.rows \subseteq Rows /\ run.rows # {}
    /\ again \subseteq Rows

\* The rows a run of task t would make links of now, and their results in their place:
\* beside each of them, and blank beside those between them.
ReadBy(t) ==
    {r \in Rows : r >= t.dataStartRow /\ \A s \in {t.donor, t.acceptor} :
                                            sheet[r][ColumnNumber(s)] # ""}
Placed(t, rows) ==
    \A r \in Rows : \A c \in ColumnNumber(t.result)..(ColumnNumber(t.result) + 5) :
        /\ r \in rows => sheet[r][c] = "result"
        /\ (\E q \in rows : q < r) /\ (\E q \in rows : r < q) /\ r \notin rows => sheet[r][c] = ""

\* While no user has done anything since a run began, its task is the saved one and it has
\* the rows the sheet has; when it has written, their results are in their place.
RunFollows ==
    run.at # "idle" /\ run.since = acts =>
        /\ task = run.task
        /\ Apart(task) => /\ run.rows = ReadBy(task)
                          /\ run.at = "written" => Placed(task, run.rows)

\* The same of the last run that finished; one under way has begun after it.
AgainFollows ==
    again # {} =>
        /\ run.at # "idle" => run.since = acts
        /\ Apart(task) => again = ReadBy(task) /\ Placed(task, again)

SheetInv == SheetType /\ RunFollows /\ AgainFollows

LEMMA Letters ==
    ASSUME NEW S, NEW s \in Seq(S)
    PROVE  Len(s) \in Nat /\ \A i \in 1..Len(s) : s[i] \in S
OBVIOUS

LEMMA SpellingType ==
    ASSUME NEW s \in InputColumns \cup ResultColumns
    PROVE  /\ s \in Seq(1..26) /\ Len(s) \in 1..3
           /\ \A i \in 1..Len(s) : s[i] \in 1..26
           /\ ColumnNumber(s) \in Nat
<1>1. s \in Seq(1..26) /\ Len(s) \in 1..3
  BY ResultSheetAssumption DEF ResultSheetAssumption
<1>2. \A i \in 1..Len(s) : s[i] \in 1..26
  BY <1>1, Letters
<1>3. ASSUME Len(s) = 1 PROVE ColumnNumber(s) \in Nat
  <2>1. s[1] \in 1..26
    BY <1>2, <1>3
  <2>2. ColumnNumber(s) = s[1] - 1
    BY <1>1, <1>3, <2>1 DEF ColumnNumber
  <2>3. QED
    BY <2>1, <2>2
<1>4. ASSUME Len(s) = 2 PROVE ColumnNumber(s) \in Nat
  <2>1. s[1] \in 1..26 /\ s[2] \in 1..26
    BY <1>2, <1>4
  <2>2. ColumnNumber(s) = 26 + (s[1] - 1) * 26 + (s[2] - 1)
    BY <1>1, <1>4, <2>1 DEF ColumnNumber
  <2>3. QED
    BY <2>1, <2>2
<1>5. ASSUME Len(s) = 3 PROVE ColumnNumber(s) \in Nat
  <2>1. s[1] \in 1..26 /\ s[2] \in 1..26 /\ s[3] \in 1..26
    BY <1>2, <1>5
  <2>2. ColumnNumber(s) = 26 + 26 * 26 + (s[1] - 1) * 26 * 26 + (s[2] - 1) * 26 + (s[3] - 1)
    BY <1>1, <1>5, <2>1 DEF ColumnNumber
  <2> DEFINE x == s[1] - 1
             y == s[2] - 1
             z == s[3] - 1
  <2>3. x \in Nat /\ y \in Nat /\ z \in Nat
    BY <2>1
  <2>4. ColumnNumber(s) = 26 + 26 * 26 + x * 26 * 26 + y * 26 + z
    BY <2>2
  <2> HIDE DEF x, y, z
  <2>5. QED
    BY <2>3, <2>4
<1>6. QED
  BY <1>1, <1>2, <1>3, <1>4, <1>5

\* The loop of colLetterToIndex, as the equations its rounds make.
LEMMA IndexLoop ==
    ASSUME NEW s \in Seq(1..26)
    PROVE  \E f : /\ colLetterToIndex(s) = f[Len(s)] - 1
                  /\ f[0] = 0
                  /\ \A i \in 1..Len(s) : f[i] = f[i - 1] * 26 + s[i]
<1> DEFINE L == Len(s)
           N == [p \in (1..L) \X Int |-> p[2] * 26 + s[p[1]]]
           n == CHOOSE f : f = [i \in 0..L |-> IF i = 0 THEN 0 ELSE f[i - 1] * 26 + s[i]]
<1>1. colLetterToIndex(s) = n[L] - 1
  BY DEF colLetterToIndex
<1>2. L \in Nat /\ \A i \in 1..L : s[i] \in Int
  <2>1. s \in Seq(Int)
    BY SMTT(30)
  <2>2. QED
    BY <2>1, Letters
<1> HIDE DEF L
<1>3. N \in [(1..L) \X Int -> Int] /\ 0 \in Int
  BY <1>2
<1>4. \A i \in 1..L, y \in Int : N[<<i, y>>] = y * 26 + s[i]
  OBVIOUS
<1> HIDE DEF N
<1>5. PICK g : IsRecursion(g, L, Int, 0, N)
  BY <1>2, <1>3, RecursionExists
<1>6. g = [i \in 0..L |-> IF i = 0 THEN 0 ELSE g[i - 1] * 26 + s[i]]
  <2>1. g \in [0..L -> Int] /\ g[0] = 0
    BY <1>5 DEF IsRecursion
  <2>2. ASSUME NEW i \in 1..L PROVE g[i] = g[i - 1] * 26 + s[i]
    <3>1. i - 1 \in 0..L /\ g[i - 1] \in Int
      BY <1>2, <2>1, <2>2
    <3>2. g[i] = N[<<i, g[i - 1]>>]
      BY <1>5, <2>2 DEF IsRecursion
    <3>3. QED
      BY <1>4, <2>2, <3>1, <3>2
  <2>3. \A i \in 0..L : i = 0 \/ i \in 1..L
    BY <1>2
  <2>4. QED
    BY <2>1, <2>2, <2>3
<1>7. n = [i \in 0..L |-> IF i = 0 THEN 0 ELSE n[i - 1] * 26 + s[i]]
  BY <1>6
<1> HIDE DEF n
<1>8. n[0] = 0 /\ \A i \in 1..L : n[i] = n[i - 1] * 26 + s[i]
  <2>1. 0 \in 0..L /\ \A i \in 1..L : i \in 0..L /\ i # 0
    BY <1>2
  <2>2. \A i \in 0..L : n[i] = IF i = 0 THEN 0 ELSE n[i - 1] * 26 + s[i]
    BY <1>7
  <2>3. QED
    BY <2>1, <2>2
<1>9. QED
  BY <1>1, <1>8 DEF L

\* The loop of columns.ts counts columns as Google does, on both sides of Z and of ZZ.
THEOREM ColumnsCountAlike ==
    ASSUME NEW s \in InputColumns \cup ResultColumns
    PROVE  colLetterToIndex(s) = ColumnNumber(s)
<1>1. PICK f : /\ colLetterToIndex(s) = f[Len(s)] - 1
               /\ f[0] = 0
               /\ \A i \in 1..Len(s) : f[i] = f[i - 1] * 26 + s[i]
  BY SpellingType, IndexLoop
<1>2. Len(s) \in 1..3 /\ \A i \in 1..Len(s) : s[i] \in Int
  <2>1. Len(s) \in 1..3 /\ \A i \in 1..Len(s) : s[i] \in 1..26
    BY SpellingType
  <2>2. QED
    BY SMTT(30), <2>1
<1>3. f[1] = s[1] /\ s[1] \in Int
  <2>1. f[1] = f[0] * 26 + s[1]
    BY <1>1, <1>2
  <2>2. QED
    BY <1>1, <1>2, <2>1
<1>4. CASE Len(s) = 1
  BY <1>1, <1>3, <1>4 DEF ColumnNumber
<1>5. CASE Len(s) = 2
  <2>1. s[2] \in Int /\ f[2] = f[1] * 26 + s[2]
    BY <1>1, <1>2, <1>5
  <2>2. ColumnNumber(s) = 26 + (s[1] - 1) * 26 + (s[2] - 1)
    BY <1>5 DEF ColumnNumber
  <2>3. QED
    BY <1>1, <1>3, <1>5, <2>1, <2>2
<1>6. CASE Len(s) = 3
  <2>1. s[2] \in Int /\ f[2] = f[1] * 26 + s[2]
    BY <1>1, <1>2, <1>6
  <2>2. s[3] \in Int /\ f[3] = f[2] * 26 + s[3]
    BY <1>1, <1>2, <1>6
  <2>3. ColumnNumber(s) = 26 + 26 * 26 + (s[1] - 1) * 26 * 26 + (s[2] - 1) * 26 + (s[3] - 1)
    BY <1>6 DEF ColumnNumber
  <2>4. QED
    BY <1>1, <1>3, <1>6, <2>1, <2>2, <2>3
<1>7. QED
  BY <1>2, <1>4, <1>5, <1>6

LEMMA FormTyped ==
    ASSUME NEW f \in ValidForms
    PROVE  /\ f.dataStartRow \in Rows /\ f.headerRow \in 0..LastRow
           /\ f.headerRow < f.dataStartRow /\ f.result \in ResultColumns
           /\ \A s \in {f.donor, f.acceptor} : s \in InputColumns /\ ColumnNumber(s) \in Columns
           /\ ColumnNumber(f.result) \in Nat
           /\ colLetterToIndex(f.result) = ColumnNumber(f.result)
           /\ \A c \in ColumnNumber(f.result)..(ColumnNumber(f.result) + 5) : c \in Columns
<1>1. /\ f.donor \in InputColumns /\ f.acceptor \in InputColumns /\ f.result \in ResultColumns
      /\ f.headerRow \in 0..LastRow /\ f.dataStartRow \in Rows
      /\ f.dataStartRow > f.headerRow
  BY DEF ValidForms, Forms, validate
<1>2. LastRow \in Nat /\ LastColumn \in Nat
  BY ResultSheetAssumption DEF ResultSheetAssumption
<1>3. \A s \in {f.donor, f.acceptor} : s \in InputColumns /\ ColumnNumber(s) \in Columns
  BY <1>1, ResultSheetAssumption DEF ResultSheetAssumption
<1>4. ColumnNumber(f.result) + 5 \in Columns
  BY <1>1, ResultSheetAssumption DEF ResultSheetAssumption
<1>5. ColumnNumber(f.result) \in Nat /\ colLetterToIndex(f.result) = ColumnNumber(f.result)
  BY <1>1, SpellingType, ColumnsCountAlike
<1>6. f.headerRow < f.dataStartRow
  BY <1>1, <1>2 DEF Rows
<1>7. \A c \in ColumnNumber(f.result)..(ColumnNumber(f.result) + 5) : c \in Columns
  BY <1>2, <1>4, <1>5 DEF Columns
<1>8. QED
  BY <1>1, <1>3, <1>5, <1>6, <1>7

\* A set of rows has a first and a last.
LEMMA Bounds ==
    ASSUME NEW S \in SUBSET Rows, S # {}
    PROVE  /\ \E r \in S : \A q \in S : r <= q
           /\ \E r \in S : \A q \in S : r >= q
<1>1. LastRow \in Nat /\ S \subseteq Nat
  BY ResultSheetAssumption DEF ResultSheetAssumption, Rows
<1>2. \E r \in S : \A q \in S : r <= q
  BY <1>1, LeastNumber
<1> DEFINE T == {LastRow - r : r \in S}
<1>3. T \subseteq Nat /\ T # {}
  <2>1. \A r \in S : LastRow - r \in Nat
    BY <1>1 DEF Rows
  <2>2. QED
    BY <2>1
<1>4. PICK t \in T : \A u \in T : t <= u
  <2> HIDE DEF T
  <2>1. QED
    BY <1>3, LeastNumber
<1>5. PICK r \in S : t = LastRow - r
  BY <1>4
<1>6. ASSUME NEW q \in S PROVE r >= q
  <2>1. t <= LastRow - q
    BY <1>4, <1>6
  <2>2. QED
    BY <1>1, <1>5, <2>1
<1>7. QED
  BY <1>2, <1>6

\* What WriteBlock writes: the six columns of the results, from the first row to the last.
LEMMA BlockWritten ==
    ASSUME SheetType, WriteBlock
    PROVE  /\ run.at = "read" /\ run.task \in ValidForms /\ run.rows \subseteq Rows
           /\ \E low \in run.rows, high \in run.rows :
                 /\ \A q \in run.rows : low <= q /\ q <= high
                 /\ sheet' = [r \in Rows |-> [c \in Columns |->
                       IF /\ r \in low..high
                          /\ c \in ColumnNumber(run.task.result)..(ColumnNumber(run.task.result) + 5)
                       THEN IF r \in run.rows THEN "result" ELSE ""
                       ELSE sheet[r][c]]]
<1> DEFINE minRow == CHOOSE r \in run.rows : \A q \in run.rows : r <= q
           maxRow == CHOOSE r \in run.rows : \A q \in run.rows : r >= q
           first == colLetterToIndex(run.task.result)
           block == Block(minRow, first, maxRow - minRow + 1)
<1>1. run.at = "read" /\ run.task \in ValidForms /\ run.rows \subseteq Rows /\ run.rows # {}
  BY DEF WriteBlock, SheetType
<1>2. /\ minRow \in run.rows /\ \A q \in run.rows : minRow <= q
      /\ maxRow \in run.rows /\ \A q \in run.rows : maxRow >= q
  BY <1>1, Bounds
<1>3. sheet' = [r \in Rows |-> [c \in Columns |->
                   IF <<r, c>> \in block THEN IF r \in run.rows THEN "result" ELSE ""
                   ELSE sheet[r][c]]]
  BY DEF WriteBlock
<1> HIDE DEF minRow, maxRow
<1>4. first = ColumnNumber(run.task.result)
  BY <1>1, FormTyped
<1>5. minRow \in Int /\ maxRow \in Int
  BY <1>1, <1>2 DEF Rows
<1>6. minRow + (maxRow - minRow + 1) - 1 = maxRow
  BY <1>5
<1>7. block = (minRow..maxRow) \X (first..(first + 5))
  BY <1>6 DEF Block
<1> HIDE DEF block, first
<1>8. \A r, c : <<r, c>> \in block <=> r \in minRow..maxRow /\ c \in first..(first + 5)
  BY <1>7
<1>9. sheet' = [r \in Rows |-> [c \in Columns |->
                   IF /\ r \in minRow..maxRow
                      /\ c \in ColumnNumber(run.task.result)..(ColumnNumber(run.task.result) + 5)
                   THEN IF r \in run.rows THEN "result" ELSE ""
                   ELSE sheet[r][c]]]
  BY <1>3, <1>4, <1>8
<1>10. \A q \in run.rows : minRow <= q /\ q <= maxRow
  BY <1>1, <1>2, <1>5 DEF Rows
<1>11. QED
  BY <1>1, <1>2, <1>9, <1>10

\* What WriteHeader writes: a row that the task does not read from.
LEMMA HeaderWritten ==
    ASSUME SheetType, WriteHeader
    PROVE  /\ run.at = "written" /\ run.task \in ValidForms
           /\ sheet' = [r \in Rows |-> [c \in Columns |->
                 IF /\ r = run.task.headerRow
                    /\ c \in ColumnNumber(run.task.result)..(ColumnNumber(run.task.result) + 5)
                 THEN "heading" ELSE sheet[r][c]]]
<1> DEFINE h == run.task.headerRow
           first == colLetterToIndex(run.task.result)
           block == Block(h, first, 1)
<1>1. run.at = "written" /\ run.task \in ValidForms
  BY DEF WriteHeader, SheetType
<1>2. first = ColumnNumber(run.task.result) /\ h \in 0..LastRow /\ LastRow \in Nat
  BY <1>1, FormTyped, ResultSheetAssumption DEF ResultSheetAssumption
<1>3. sheet' = IF h = 0 THEN sheet
               ELSE [r \in Rows |-> [c \in Columns |->
                        IF <<r, c>> \in block THEN "heading" ELSE sheet[r][c]]]
  BY DEF WriteHeader
<1> HIDE DEF h, first
<1>4. h..(h + 1 - 1) = {h}
  BY <1>2
<1>5. \A r, c : <<r, c>> \in block <=> r = h /\ c \in first..(first + 5)
  BY <1>4 DEF Block
<1> HIDE DEF block
<1>6. CASE h = 0
  <2>1. \A r \in Rows : r # h
    BY <1>2, <1>6 DEF Rows
  <2>2. sheet = [r \in Rows |-> [c \in Columns |-> sheet[r][c]]]
    BY DEF SheetType
  <2>3. QED
    BY <1>1, <1>2, <1>3, <1>6, <2>1, <2>2 DEF h
<1>7. CASE h # 0
  BY <1>1, <1>2, <1>3, <1>5, <1>7 DEF h
<1>8. QED
  BY <1>6, <1>7

\* A run leaves the columns alone that its task reads, if they are apart from its results.
LEMMA InputsKept ==
    ASSUME SheetType, WriteBlock \/ WriteHeader, Apart(run.task)
    PROVE  \A r \in Rows : \A s \in {run.task.donor, run.task.acceptor} :
               sheet'[r][ColumnNumber(s)] = sheet[r][ColumnNumber(s)]
<1>1. run.task \in ValidForms
  BY BlockWritten, HeaderWritten
<1>2. ASSUME NEW s \in {run.task.donor, run.task.acceptor}
      PROVE  /\ ColumnNumber(s) \in Columns
             /\ ColumnNumber(s) \notin
                    ColumnNumber(run.task.result)..(ColumnNumber(run.task.result) + 5)
  BY <1>1, <1>2, FormTyped DEF Apart
<1>3. CASE WriteBlock
  <2>1. PICK low \in run.rows, high \in run.rows :
           sheet' = [r \in Rows |-> [c \in Columns |->
                       IF /\ r \in low..high
                          /\ c \in ColumnNumber(run.task.result)..(ColumnNumber(run.task.result) + 5)
                       THEN IF r \in run.rows THEN "result" ELSE ""
                       ELSE sheet[r][c]]]
    BY <1>3, BlockWritten
  <2>2. QED
    BY <1>2, <2>1
<1>4. CASE WriteHeader
  BY <1>2, <1>4, HeaderWritten
<1>5. QED
  BY <1>3, <1>4

\* So the task reads the same rows afterwards.
LEMMA SameRowsRead ==
    ASSUME SheetType, NEW t, t = run.task, WriteBlock \/ WriteHeader, Apart(t)
    PROVE  ReadBy(t)' = ReadBy(t)
<1>1. \A r \in Rows : \A s \in {t.donor, t.acceptor} :
         sheet'[r][ColumnNumber(s)] = sheet[r][ColumnNumber(s)]
  BY InputsKept
<1>2. QED
  BY <1>1 DEF ReadBy

\* The rows that were read have their results, and those between them none.
LEMMA BlockPlaces ==
    ASSUME SheetType, NEW t, t = run.task, NEW rows, rows = run.rows, WriteBlock
    PROVE  Placed(t, rows)'
<1>1. PICK low \in rows, high \in rows :
         /\ \A q \in rows : low <= q /\ q <= high
         /\ sheet' = [r \in Rows |-> [c \in Columns |->
               IF /\ r \in low..high
                  /\ c \in ColumnNumber(t.result)..(ColumnNumber(t.result) + 5)
               THEN IF r \in rows THEN "result" ELSE ""
               ELSE sheet[r][c]]]
  <2>1. PICK low \in run.rows, high \in run.rows :
         /\ \A q \in run.rows : low <= q /\ q <= high
         /\ sheet' = [r \in Rows |-> [c \in Columns |->
               IF /\ r \in low..high
                  /\ c \in ColumnNumber(run.task.result)..(ColumnNumber(run.task.result) + 5)
               THEN IF r \in run.rows THEN "result" ELSE ""
               ELSE sheet[r][c]]]
    BY BlockWritten
  <2>2. QED
    BY <2>1
<1>2. rows \subseteq Rows /\ t \in ValidForms
  BY BlockWritten
<1>3. \A c \in ColumnNumber(t.result)..(ColumnNumber(t.result) + 5) : c \in Columns
  BY <1>2, FormTyped
<1>4. \A r \in Rows : r \in Int
  BY DEF Rows
<1>5. ASSUME NEW r \in Rows, NEW c \in ColumnNumber(t.result)..(ColumnNumber(t.result) + 5),
             r \in rows \/ ((\E q \in rows : q < r) /\ (\E q \in rows : r < q))
      PROVE  sheet'[r][c] = IF r \in rows THEN "result" ELSE ""
  <2>1. low \in Int /\ high \in Int /\ r \in Int
    BY <1>2, <1>4
  <2>2. low <= r /\ r <= high
    <3>1. CASE r \in rows
      BY <1>1, <3>1
    <3>2. ASSUME NEW p \in rows, NEW q \in rows, p < r, r < q PROVE low <= r /\ r <= high
      <4>1. p \in Int /\ q \in Int /\ low <= p /\ q <= high
        BY <1>1, <1>2, <1>4
      <4>2. QED
        BY <2>1, <3>2, <4>1
    <3>3. QED
      BY <1>5, <3>1, <3>2
  <2>3. r \in low..high
    BY <2>1, <2>2
  <2>4. QED
    BY <1>1, <1>3, <1>5, <2>3
<1>6. QED
  BY <1>5 DEF Placed

\* The heading is above every row a task reads.
LEMMA HeaderSpares ==
    ASSUME SheetType, NEW t, t = run.task, NEW rows, rows \subseteq ReadBy(t), WriteHeader,
           Placed(t, rows)
    PROVE  Placed(t, rows)'
<1>1. /\ t \in ValidForms
      /\ sheet' = [r \in Rows |-> [c \in Columns |->
            IF r = t.headerRow /\ c \in ColumnNumber(t.result)..(ColumnNumber(t.result) + 5)
            THEN "heading" ELSE sheet[r][c]]]
  BY HeaderWritten
<1>2. /\ \A c \in ColumnNumber(t.result)..(ColumnNumber(t.result) + 5) : c \in Columns
      /\ t.headerRow < t.dataStartRow /\ t.headerRow \in 0..LastRow /\ t.dataStartRow \in Rows
  BY <1>1, FormTyped
<1>3. \A r \in Rows : r \in Int
  BY DEF Rows
<1>4. ASSUME NEW q \in rows PROVE q \in Rows /\ t.headerRow < q
  <2>1. q \in Rows /\ q >= t.dataStartRow
    BY DEF ReadBy
  <2>2. q \in Int /\ t.dataStartRow \in Int /\ t.headerRow \in Int
    BY <1>2, <1>3, <2>1
  <2>3. QED
    BY <1>2, <2>1, <2>2
<1>5. ASSUME NEW r \in Rows, NEW c \in ColumnNumber(t.result)..(ColumnNumber(t.result) + 5),
             r \in rows \/ (\E q \in rows : q < r)
      PROVE  sheet'[r][c] = sheet[r][c]
  <2>1. r # t.headerRow
    BY <1>2, <1>3, <1>4, <1>5
  <2>2. QED
    BY <1>1, <1>2, <2>1
<1>6. ASSUME NEW r \in Rows, NEW c \in ColumnNumber(t.result)..(ColumnNumber(t.result) + 5)
      PROVE  /\ r \in rows => sheet'[r][c] = "result"
             /\ (\E q \in rows : q < r) /\ (\E q \in rows : r < q) /\ r \notin rows
                    => sheet'[r][c] = ""
  <2>1. /\ r \in rows => sheet[r][c] = "result"
        /\ (\E q \in rows : q < r) /\ (\E q \in rows : r < q) /\ r \notin rows
                    => sheet[r][c] = ""
    BY <1>6 DEF Placed
  <2>2. r \in rows \/ (\E q \in rows : q < r) => sheet'[r][c] = sheet[r][c]
    BY <1>5, <1>6
  <2>3. QED
    BY <2>1, <2>2
<1>7. QED
  BY <1>6 DEF Placed

LEMMA SheetStarts == SheetInit => SheetInv
<1> SUFFICES ASSUME SheetInit PROVE SheetInv
  OBVIOUS
<1>1. SheetType
  <2>1. /\ task = NoTask /\ run = NoRun /\ acts = 0 /\ again = {}
        /\ sheet = [r \in Rows |-> [c \in Columns |-> ""]]
    BY DEF SheetInit
  <2>2. NoRun.at = "idle" /\ NoRun.since = 0 /\ 0 \in 0..0
    BY DEF NoRun
  <2>3. sheet \in [Rows -> [Columns -> {"", "input", "result", "heading"}]]
    BY <2>1
  <2>4. QED
    BY <2>1, <2>2, <2>3 DEF SheetType
<1>2. RunFollows /\ AgainFollows
  BY DEF SheetInit, RunFollows, AgainFollows, NoRun
<1>3. QED
  BY <1>1, <1>2 DEF SheetInv

LEMMA OneMore ==
    ASSUME NEW a \in Nat, NEW b \in 0..a
    PROVE  a + 1 \in Nat /\ b \in 0..(a + 1) /\ b # a + 1
OBVIOUS

\* What a user does ends what is said of the run under way and of the last one.
LEMMA UsersAct ==
    ASSUME SheetInv, UserActs, UNCHANGED run,
           task' # NoTask => task' \in ValidForms,
           sheet' \in [Rows -> [Columns -> {"", "input", "result", "heading"}]]
    PROVE  SheetInv'
<1>1. acts \in Nat /\ acts' = acts + 1 /\ again' = {} /\ run.since \in 0..acts
  BY DEF UserActs, SheetInv, SheetType
<1>2. SheetType'
  <2>1. run'.since \in 0..acts' /\ acts' \in Nat
    BY <1>1, OneMore
  <2>2. again' \subseteq Rows /\ SheetType
    BY <1>1 DEF SheetInv
  <2>3. QED
    BY <2>1, <2>2 DEF SheetType
<1>3. run'.since # acts'
  BY <1>1, OneMore
<1>4. RunFollows' /\ AgainFollows'
  BY <1>1, <1>3 DEF RunFollows, AgainFollows
<1>5. QED
  BY <1>2, <1>4 DEF SheetInv

\* The ranges that are read by letters give the rows of ReadBy.
LEMMA RowsRead ==
    ASSUME task \in ValidForms
    PROVE  LinkRows(task) = ReadBy(task)
<1>1. task.dataStartRow \in Rows /\ LastRow \in Nat
  BY FormTyped, ResultSheetAssumption DEF ResultSheetAssumption
<1>2. \A r : r \in task.dataStartRow..LastRow <=> r \in Rows /\ r >= task.dataStartRow
  BY <1>1 DEF Rows
<1>3. ASSUME NEW s \in {task.donor, task.acceptor}, NEW r
      PROVE  r \in Filled(s, task.dataStartRow)
             <=> r \in Rows /\ r >= task.dataStartRow /\ sheet[r][ColumnNumber(s)] # ""
  <2> DEFINE cells == A1Range(s, task.dataStartRow)
  <2>1. \A q : q \in cells <=> \E x \in Rows : x >= task.dataStartRow /\ q = <<x, ColumnNumber(s)>>
    BY <1>2 DEF A1Range
  <2> HIDE DEF cells
  <2>2. ASSUME r \in Filled(s, task.dataStartRow)
        PROVE  r \in Rows /\ r >= task.dataStartRow /\ sheet[r][ColumnNumber(s)] # ""
    <3>1. PICK q \in cells : r = q[1] /\ sheet[q[1]][q[2]] # ""
      BY <2>2 DEF Filled, cells
    <3>2. PICK x \in Rows : x >= task.dataStartRow /\ q = <<x, ColumnNumber(s)>>
      BY <2>1
    <3>3. r = x /\ q[2] = ColumnNumber(s)
      BY <3>1, <3>2
    <3>4. QED
      BY <3>1, <3>2, <3>3
  <2>3. ASSUME r \in Rows, r >= task.dataStartRow, sheet[r][ColumnNumber(s)] # ""
        PROVE  r \in Filled(s, task.dataStartRow)
    <3> DEFINE q == <<r, ColumnNumber(s)>>
    <3>1. q \in cells /\ q[1] = r /\ q[2] = ColumnNumber(s)
      BY <2>1, <2>3
    <3> HIDE DEF q
    <3>2. QED
      BY <2>3, <3>1 DEF Filled, cells
  <2>4. QED
    BY <2>2, <2>3
<1>4. QED
  BY <1>3 DEF LinkRows, ReadBy

LEMMA NoRunTyped ==
    NoRun.at = "idle" /\ NoRun.since = 0 /\ \A n \in Nat : 0 \in 0..n
BY DEF NoRun

LEMMA SheetInductive ==
    ASSUME SheetInv, [SheetNext]_sheetVars
    PROVE  SheetInv'
<1>1. SheetType /\ RunFollows /\ AgainFollows
  BY DEF SheetInv
<1>2. CASE UNCHANGED sheetVars
  <2>1. UNCHANGED <<task, sheet, run, acts, again>>
    BY <1>2 DEF sheetVars
  <2>2. SheetType' /\ RunFollows'
    <3>1. SheetType'
      BY <1>1, <2>1 DEF SheetType
    <3>2. (Apart(task)' <=> Apart(task)) /\ ReadBy(task)' = ReadBy(task)
          /\ (Placed(task, run.rows)' <=> Placed(task, run.rows))
      BY <2>1 DEF ReadBy, Placed, Apart
    <3>3. RunFollows'
      BY <1>1, <2>1, <3>2 DEF RunFollows
    <3>4. QED
      BY <3>1, <3>3
  <2>3. AgainFollows'
    BY <1>1, <2>1 DEF AgainFollows, ReadBy, Placed, Apart
  <2>4. QED
    BY <2>2, <2>3 DEF SheetInv
<1>3. ASSUME NEW f \in Forms, SaveTask(f) PROVE SheetInv'
  <2>1. UserActs /\ UNCHANGED <<sheet, run>> /\ task' = f /\ f \in ValidForms
    BY <1>3 DEF SaveTask, ValidForms
  <2>2. QED
    BY <1>1, <2>1, UsersAct DEF SheetType
<1>4. ASSUME NEW r \in Rows, Fill(r) PROVE SheetInv'
  <2>1. UserActs /\ UNCHANGED <<task, run>>
    BY <1>4 DEF Fill
  <2>2. sheet' \in [Rows -> [Columns -> {"", "input", "result", "heading"}]]
    <3>1. PICK v \in {"", "input"}, S \in SUBSET {ColumnNumber(task.donor), ColumnNumber(task.acceptor)} :
             sheet' = [sheet EXCEPT ![r] = [c \in Columns |-> IF c \in S THEN v ELSE sheet[r][c]]]
      BY <1>4 DEF Fill
    <3>2. QED
      BY <1>1, <3>1 DEF SheetType
  <2>3. QED
    BY <1>1, <2>1, <2>2, UsersAct DEF SheetType
<1>5. CASE ReadSheet
  <2>1. task \in ValidForms /\ run.at = "idle" /\ UNCHANGED <<task, sheet, acts, again>>
    BY <1>1, <1>5 DEF ReadSheet, SheetType
  <2>2. /\ run' = [at |-> "read", task |-> task, rows |-> ReadBy(task), since |-> acts]
        /\ ReadBy(task) # {}
    BY <1>5, <2>1, RowsRead DEF ReadSheet
  <2>3. ReadBy(task) \subseteq Rows
    BY DEF ReadBy
  <2>4. SheetType'
    <3>1. acts \in Nat
      BY <1>1 DEF SheetType
    <3>2. /\ run'.at = "read" /\ run'.task = task /\ run'.rows = ReadBy(task) /\ run'.since = acts
          /\ run' = [at |-> run'.at, task |-> run'.task, rows |-> run'.rows, since |-> run'.since]
      BY <2>2
    <3>3. acts \in 0..acts
      BY <3>1
    <3>4. QED
      BY <1>1, <2>1, <2>2, <2>3, <3>2, <3>3 DEF SheetType
  <2>5. RunFollows'
    BY <2>1, <2>2 DEF RunFollows, ReadBy, Apart
  <2>6. AgainFollows'
    BY ZenonT(40), <1>1, <2>1, <2>2 DEF AgainFollows, ReadBy, Placed
  <2>7. QED
    BY <2>4, <2>5, <2>6 DEF SheetInv
<1>6. CASE WriteBlock
  <2>1. PICK t, rows : t = run.task /\ rows = run.rows
    OBVIOUS
  <2>2. /\ run.at = "read" /\ t \in ValidForms /\ rows \subseteq Rows
        /\ run' = [run EXCEPT !.at = "written"] /\ UNCHANGED <<task, acts, again>>
    BY <1>1, <1>6, <2>1, BlockWritten DEF WriteBlock
  <2>3. /\ run'.at = "written" /\ run'.task = t /\ run'.rows = rows /\ run'.since = run.since
        /\ run' = [at |-> run'.at, task |-> run'.task, rows |-> run'.rows, since |-> run'.since]
    BY <1>1, <2>1, <2>2 DEF SheetType
  <2>4. sheet' \in [Rows -> [Columns -> {"", "input", "result", "heading"}]]
    <3>1. PICK low \in run.rows, high \in run.rows :
             sheet' = [r \in Rows |-> [c \in Columns |->
                         IF /\ r \in low..high
                            /\ c \in ColumnNumber(run.task.result)
                                         ..(ColumnNumber(run.task.result) + 5)
                         THEN IF r \in run.rows THEN "result" ELSE ""
                         ELSE sheet[r][c]]]
      BY <1>1, <1>6, BlockWritten
    <3>2. QED
      BY <1>1, <3>1 DEF SheetType
  <2>5. SheetType'
    BY <1>1, <2>1, <2>2, <2>3, <2>4 DEF SheetType
  <2>6. Placed(t, rows)'
    BY <1>1, <1>6, <2>1, BlockPlaces
  <2>7. Apart(t) => ReadBy(t)' = ReadBy(t)
    BY <1>1, <1>6, <2>1, SameRowsRead
  <2>8. run.since = acts => t = task /\ (Apart(t) => rows = ReadBy(t))
    BY <1>1, <2>1, <2>2 DEF RunFollows
  <2>9. RunFollows'
    <3>1. SUFFICES ASSUME run'.since = acts'
                   PROVE  /\ task' = run'.task
                          /\ Apart(task)' => /\ run'.rows = ReadBy(task)'
                                             /\ Placed(task, run.rows)'
      BY DEF RunFollows
    <3>2. task' = t /\ run'.task = t /\ run'.rows = rows /\ run.since = acts
      BY <2>2, <2>3, <2>8, <3>1
    <3>3. Apart(t) => rows = ReadBy(t)'
      BY <2>7, <2>8, <3>2
    <3>4. QED
      BY <2>6, <3>2, <3>3 DEF Apart, ReadBy, Placed
  <2>10. AgainFollows'
    <3>1. SUFFICES ASSUME again # {}
                   PROVE  /\ run.since = acts
                          /\ Apart(task) => again = ReadBy(task)' /\ Placed(task, again)'
      BY <2>2, <2>3 DEF AgainFollows
    <3>2. run.since = acts /\ t = task
          /\ (Apart(task) => again = ReadBy(t) /\ rows = ReadBy(t))
      BY <1>1, <2>2, <2>8, <3>1 DEF AgainFollows
    <3>3. task' = t /\ again' = again
      BY <2>2, <3>2
    <3>4. Apart(t) => again = ReadBy(t)' /\ Placed(t, rows)' /\ rows = again
      BY <2>6, <2>7, <3>2
    <3>5. ReadBy(task)' = ReadBy(t)' /\ (rows = again => Placed(task, again)' = Placed(t, rows)')
      BY <3>3 DEF ReadBy, Placed
    <3>6. QED
      BY <3>2, <3>4, <3>5
  <2>11. QED
    BY <2>5, <2>9, <2>10 DEF SheetInv
<1>7. CASE WriteHeader
  <2>1. PICK t, rows, old : t = run.task /\ rows = run.rows /\ old = again
    OBVIOUS
  <2>2. /\ run.at = "written" /\ t \in ValidForms
        /\ run' = NoRun /\ UNCHANGED <<task, acts>>
        /\ again' = IF run.since = acts THEN rows ELSE {}
    BY <1>1, <1>7, <2>1, HeaderWritten DEF WriteHeader
  <2>3. rows \subseteq Rows /\ acts \in Nat
    BY <1>1, <2>1, <2>2 DEF SheetType
  <2>4. sheet' \in [Rows -> [Columns -> {"", "input", "result", "heading"}]]
    <3>1. sheet' = [r \in Rows |-> [c \in Columns |->
             IF /\ r = run.task.headerRow
                /\ c \in ColumnNumber(run.task.result)..(ColumnNumber(run.task.result) + 5)
             THEN "heading" ELSE sheet[r][c]]]
      BY <1>1, <1>7, HeaderWritten
    <3>2. QED
      BY <1>1, <3>1 DEF SheetType
  <2>5. SheetType'
    BY <1>1, <2>2, <2>3, <2>4, NoRunTyped DEF SheetType
  <2>6. RunFollows'
    BY <2>2 DEF RunFollows, NoRun
  <2>7. AgainFollows'
    <3>1. SUFFICES ASSUME run.since = acts
                   PROVE  Apart(task) => rows = ReadBy(task)' /\ Placed(task, rows)'
      BY <2>2 DEF AgainFollows, NoRun, Placed, ReadBy, Apart
    <3>2. task = t /\ (Apart(t) => rows = ReadBy(t) /\ Placed(t, rows))
      BY <1>1, <2>1, <2>2, <3>1 DEF RunFollows
    <3>3. task' = t
      BY <2>2, <3>2
    <3>4. ASSUME Apart(t) PROVE rows = ReadBy(t)' /\ Placed(t, rows)'
      <4>1. rows \subseteq ReadBy(t) /\ Placed(t, rows)
        BY <3>2, <3>4
      <4>2. Placed(t, rows)'
        BY <1>1, <1>7, <2>1, <4>1, HeaderSpares
      <4>3. ReadBy(t)' = ReadBy(t)
        BY <1>1, <1>7, <2>1, <3>4, SameRowsRead
      <4>4. QED
        BY <3>2, <3>4, <4>2, <4>3
    <3>5. ReadBy(task)' = ReadBy(t)' /\ Placed(task, rows)' = Placed(t, rows)'
      BY <3>3 DEF ReadBy, Placed
    <3>6. QED
      BY <3>2, <3>4, <3>5
  <2>8. QED
    BY <2>5, <2>6, <2>7 DEF SheetInv
<1>8. CASE RunFails
  <2>1. run' = NoRun /\ UNCHANGED <<task, sheet, acts, again>>
    BY <1>8 DEF RunFails
  <2>2. SheetType'
    BY <1>1, <2>1, NoRunTyped DEF SheetType
  <2>3. RunFollows' /\ AgainFollows'
    BY ZenonT(40), <1>1, <2>1 DEF RunFollows, AgainFollows, NoRun, ReadBy, Placed, Apart
  <2>4. QED
    BY <2>2, <2>3 DEF SheetInv
<1>9. QED
  BY <1>2, <1>3, <1>4, <1>5, <1>6, <1>7, <1>8 DEF SheetNext

\* The sheet survives its runs, for every choice of letters, rows and changes of the task:
\* a run does not write into columns it reads, unless the dialog was given columns that
\* overlap, and one that finished has its results beside the rows it read, which the next
\* run reads again (columns.ts:14-58, sheets-task.service.ts:284-323).
THEOREM RunsLeaveSheetIntact == SheetSpec => SheetIntact
<1>1. SheetInv /\ [SheetNext]_sheetVars => SheetInv'
  BY SheetInductive
<1>2. SheetInv /\ [SheetNext]_sheetVars => KeepsInputs
  <2> SUFFICES ASSUME SheetInv, [SheetNext]_sheetVars, run.at # "idle", Apart(run.task),
                      task' = task, acts' = acts
               PROVE  \A r \in Rows : \A s \in {run.task.donor, run.task.acceptor} :
                          sheet'[r][ColumnNumber(s)] = sheet[r][ColumnNumber(s)]
    BY DEF KeepsInputs
  <2>1. SheetType /\ acts \in Nat
    BY DEF SheetInv, SheetType
  <2>2. ~UserActs
    BY <2>1 DEF UserActs
  <2>3. sheet' = sheet \/ WriteBlock \/ WriteHeader
    BY <2>2 DEF SheetNext, SaveTask, Fill, ReadSheet, RunFails, sheetVars
  <2>4. QED
    BY <2>1, <2>3, InputsKept
<1>3. SheetInv => ResultsBesideRows
  <2> SUFFICES ASSUME SheetInv, again # {}, Apart(task), run.at \in {"idle", "read"}
               PROVE  Placed(task, again) /\ (run.at = "read" => run.rows = again)
    BY DEF ResultsBesideRows, Placed
  <2>1. QED
    BY DEF SheetInv, AgainFollows, RunFollows
<1>4. SheetInv' => ResultsBesideRows'
  BY <1>3, PTL
<1>5. SheetInv /\ [SheetNext]_sheetVars => [KeepsInputs /\ ResultsBesideRows']_sheetVars
  BY <1>1, <1>2, <1>4
<1>6. QED
  BY SheetStarts, <1>1, <1>5, PTL DEF SheetSpec, SheetIntact
=============================================================================
