------------------------------- MODULE MCResults -------------------------------
(* The constants of AddLinks, LinkResult and ResultSheet for TLC: links as *)
(* they come in, as they are shown, as they go out.  The three share no    *)
(* variable: a behaviour is one of the first, the second, or the third.    *)
EXTENDS AddLinks, LinkResult, ResultSheet, TLC

CONSTANTS l1, l2, l3

Marks == [noindex : BOOLEAN, widget : BOOLEAN, header : BOOLEAN]
Unmarked == [noindex |-> FALSE, widget |-> FALSE, header |-> FALSE]
Page(c, m, b, k, a) ==
    [code |-> c, noindex |-> m.noindex, widget |-> m.widget, header |-> m.header,
     host |-> b[1], base |-> b[2], canonical |-> k, anchors |-> a]
Nofollow(t) == [to |-> t, rel |-> {"ugc", "noopener"}]
Follow(t) == [to |-> t, rel |-> {"noopener"}]

\* The donor URL of l1 may serve each of 56 pages: every host, base, canonical link and
\* anchors, and a page with each mark or a status that is not a success; that of l2 two
\* whose status differs; that of l3 is malformed.
AnyAnchors == {{}, {Nofollow("acceptor")}, {Nofollow("acceptor"), Follow("relative")}}
AnyPage ==
    {Page(200, Unmarked, b, k, a) :
        b \in {<<"donor", "none">>, <<"donor", "acceptor">>, <<"acceptor", "none">>,
               <<"acceptor", "acceptor">>},
        k \in {"none", "own", "elsewhere", "relative"}, a \in AnyAnchors}
    \cup {Page(x[1], x[2], <<"donor", "none">>, k, {Follow("acceptor")}) :
            k \in {"none", "elsewhere"},
            x \in {<<404, Unmarked>>} \cup
                  {<<200, [Unmarked EXCEPT ![f] = TRUE]>> : f \in DOMAIN Unmarked}}
FewPages ==
    {Page(c[1], Unmarked, <<"donor", "none">>, c[2], {Follow("acceptor")}) :
        c \in {<<301, "acceptor">>, <<503, "mailto">>}}

MCSources == l1 :> "MANUAL" @@ l2 :> "SHEETS" @@ l3 :> "SHEETS"
MCHosts == l1 :> "h1" @@ l2 :> "h2" @@ l3 :> Null
MCSites == l1 :> AnyPage @@ l2 :> FewPages @@ l3 :> {}

\* Z and AA; W, whose block reaches AB, and AB.
MCInputColumns == {<<26>>, <<1, 1>>}
MCResultColumns == {<<23>>, <<1, 2>>}

MCUrlTexts == {[acceptor |-> a, urls |-> <<"http", "", "ftp">>] : a \in {"www", "long", "text"}}
MCPairTexts ==
    {<<<<"http", "url">>, <<"", "">>, <<"http", "subdomain">>>>, <<<<"text", "host">>>>}
MCFiles == {Unreadable} \cup
    {<<<<"text", "text">>, <<"http">>, <<"http", "host">>>>,
     <<<<"http", "host">>, <<"http", "host">>, <<"http", "host">>>>}

AnyInit == DialogInit /\ Init /\ SheetInit
AnyNext ==
    \/ DialogNext /\ Init /\ SheetInit /\ UNCHANGED <<vars, sheetVars>>
    \/ Next /\ DialogInit /\ SheetInit /\ UNCHANGED <<dialogVars, sheetVars>>
    \/ SheetNext /\ DialogInit /\ Init /\ UNCHANGED <<dialogVars, vars>>
AnySpec == AnyInit /\ [][AnyNext]_<<dialogVars, vars, sheetVars>>
=============================================================================
