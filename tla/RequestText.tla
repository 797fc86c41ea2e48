---------------------------- MODULE RequestText -----------------------------
(***************************************************************************)
(* What the web servers make of the text of a GET request: the split into  *)
(* path and parameters in handle_tcp_data (http_server.c) and              *)
(* ap_tcp_server_recv (picow_access_point.c), which are the same, and the  *)
(* text of the 'not found' page.                                           *)
(*                                                                         *)
(* The text starts behind "GET ".  Its characters are "/" (or any other of *)
(* no meaning), "?" and " ", called QUERY and BLANK.  Behind what was      *)
(* received the buffer holds what happens to be there: the station's is    *)
(* not initialised, the access point's keeps the end of an earlier request.*)
(***************************************************************************)
EXTENDS Naturals, Sequences

CONSTANTS
    Chars,          \* characters of a request, QUERY and BLANK among them
    MAX_TEXT,       \* characters that fit in the buffer
    Rubbish,        \* what the buffer may hold behind them, of Seq(Chars)
    BODY            \* length of NOT_FOUND_BODY without its "%s"

QUERY == "query"
BLANK == "space"

VARIABLES
    text,       \* the text the client sends
    pc,         \* "receiving" or "parsed"
    request,    \* the string request points to
    params,     \* [given, text]: the string params points to
    name,       \* the URL named in the 'not found' page
    body        \* that page of the access point: characters formatted, sent

vars == <<text, pc, request, params, name, body>>

NoParams == [given |-> FALSE, text |-> <<>>]

Init ==
    /\ text = <<>>
    /\ pc = "receiving"
    /\ request = <<>> /\ params = NoParams
    /\ name = <<>> /\ body = [written |-> 0, sent |-> 0]

Type(c) ==
    /\ pc = "receiving" /\ Len(text) < MAX_TEXT
    /\ text' = Append(text, c)
    /\ UNCHANGED <<pc, request, params, name, body>>

-----------------------------------------------------------------------------
(* Index of the first c in s, counted from 1; -1 in the code is the one    *)
(* after the end.                                                          *)
find_first_index(s, c) ==
    LET found == {i \in 1 .. Len(s) : s[i] = c}
    IN  IF found = {} THEN Len(s) + 1 ELSE CHOOSE i \in found : \A j \in found : i <= j

Before(s, c) == SubSeq(s, 1, find_first_index(s, c) - 1)
After(s, c) == SubSeq(s, find_first_index(s, c) + 1, Len(s))
Has(s, c) == find_first_index(s, c) <= Len(s)

(* params is set behind the first "?" of the whole buffer; then the "?"    *)
(* and the first " ", on whichever side of it, are overwritten by          *)
(* terminators.                                                            *)
(* Fault on purpose: the space is not overwritten.                         *)
SplitParamsFault(s) ==
    IF Has(s, QUERY) THEN [given |-> TRUE, text |-> After(s, QUERY)] ELSE NoParams
SplitParams(s) ==
    IF ~Has(s, QUERY) THEN NoParams
    ELSE [given |-> TRUE,
          text |-> IF Has(Before(s, QUERY), BLANK) THEN After(s, QUERY)
                   ELSE Before(After(s, QUERY), BLANK)]

SplitRequest(s) == IF Has(s, QUERY) THEN Before(Before(s, QUERY), BLANK) ELSE s

(* The path up to the space that ends it, nothing if there is none.        *)
NotFoundName(r) == IF Has(r, BLANK) THEN Before(r, BLANK) ELSE <<>>

(* snprintf is given the size of the format, "%s" and terminator included, *)
(* and returns the length the whole page would have had.                   *)
NotFoundBody(n) ==
    [written |-> IF Len(n) > 2 THEN BODY + 2 ELSE BODY + Len(n),
     sent |-> BODY + Len(n)]

handle_tcp_data(rubbish) ==
    /\ pc = "receiving"
    /\ LET s == text \o rubbish
       IN  /\ request' = SplitRequest(s)
           /\ params' = SplitParams(s)
           /\ name' = NotFoundName(SplitRequest(s))
           /\ body' = NotFoundBody(NotFoundName(SplitRequest(s)))
    /\ pc' = "parsed"
    /\ UNCHANGED text

(* The next request.                                                       *)
Again ==
    /\ pc = "parsed"
    /\ pc' = "receiving" /\ text' = <<>>
    /\ request' = <<>> /\ params' = NoParams
    /\ name' = <<>> /\ body' = [written |-> 0, sent |-> 0]

Next ==
    \/ \E c \in Chars : Type(c)
    \/ \E r \in Rubbish : handle_tcp_data(r)
    \/ Again

Spec == Init /\ [][Next]_vars

-----------------------------------------------------------------------------
(* Properties.  The URL is what precedes the first space; it was received  *)
(* completely if the space was.                                            *)
Parsed == pc = "parsed" /\ Has(text, BLANK)
Url == Before(text, BLANK)

(* Every variable has its type; a URL that is named has neither parameters *)
(* nor anything behind it.                                                 *)
TypeOK ==
    /\ text \in Seq(Chars) /\ Len(text) <= MAX_TEXT
    /\ pc \in {"receiving", "parsed"}
    /\ request \in Seq(Chars) /\ name \in Seq(Chars)
    /\ params.given \in BOOLEAN /\ params.text \in Seq(Chars)
    /\ ~Has(name, QUERY) /\ ~Has(name, BLANK)

(* Whatever the rest of the request and of the buffer holds, the first     *)
(* word of request, by which the page is looked up, is the path of the     *)
(* URL.                                                                    *)
PathRight == Parsed => Before(request, BLANK) = Before(Url, QUERY)

(* If the URL has parameters they are found, completely, and nothing else  *)
(* is taken for a part of them.                                            *)
ParamsFound ==
    Parsed /\ Has(Url, QUERY) =>
        params.given /\ params.text = After(Url, QUERY)

(* The 'not found' page never names another URL than the one asked for.    *)
NotFoundNeverWrong == Parsed => name \in {Before(Url, QUERY), <<>>}

(* The three together, for a URL that is received completely.              *)
UrlSplitRight == TypeOK /\ PathRight /\ ParamsFound /\ NotFoundNeverWrong

(* Known disagreements, refuted by TLC.                                    *)
(* "params - is the part of the url after the question mark"               *)
(* (http_server/url_collection.h:19).                                      *)
ParamsFromUrl == Parsed /\ params.given => Has(Url, QUERY)

(* "The requested URL "%s" was not found on this server"                   *)
(* (http_server.c:18).                                                     *)
NotFoundNamesUrl == Parsed => name = Before(Url, QUERY)

(* The access point's page (picow_access_point.c:37) is written as far as  *)
(* it is sent.                                                             *)
NotFoundBodyWhole == body.sent <= body.written

=============================================================================
