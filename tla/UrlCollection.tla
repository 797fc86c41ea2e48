--------------------------- MODULE UrlCollection ----------------------------
(***************************************************************************)
(* The two url_collection.cpp: pages are registered under URLs in a        *)
(* std::map and looked up for each request.                                *)
(*                                                                         *)
(* The map is keyed by the address of the URL's text, so its order is the  *)
(* one in which the linker placed the texts: any order.  The programs      *)
(* register their pages after the server was started, and lookups come     *)
(* from an interrupt: also between the steps of an insertion, where an     *)
(* entry whose links are being changed may be passed over, and where the   *)
(* new entry exists before its function is stored in it.                   *)
(*                                                                         *)
(* A text is a sequence of tokens such that one text is a prefix of        *)
(* another exactly if its tokens are.                                      *)
(***************************************************************************)
EXTENDS Naturals, Sequences, SequencesExt

CONSTANTS
    Program,    \* the pages, as texts, in the order of their registration
    Requests    \* the paths that are asked for

BLANK == "space"
SPACE == <<BLANK>>

NULL == 0
Pages == 1 .. Len(Program)

VARIABLES
    server,     \* "http" (http_server/) or "ap" (ap_website/)
    address,    \* the rank of each page's text in memory
    url_map,    \* per page: "absent", "empty" (no function yet) or "set"
    next,       \* the page that is registered next
    linking,    \* the insertion is changing the links of the map
    answer      \* for the last request: its path and the page it got

vars == <<server, address, url_map, next, linking, answer>>

NoAnswer == [path |-> <<>>, page |-> NULL, known |-> {}, quiet |-> TRUE]

Init ==
    /\ server \in {"http", "ap"}
    /\ address \in {f \in [Pages -> Pages] : IsInjective(f)}
    /\ url_map = [p \in Pages |-> "absent"]
    /\ next = 1
    /\ linking = FALSE
    /\ answer = NoAnswer

-----------------------------------------------------------------------------
(* register_url: url_map[url] makes an empty entry, then it is assigned.   *)
(* Fault on purpose: the last page is forgotten.                           *)
InsertFault ==
    /\ next < Len(Program) /\ url_map[next] = "absent" /\ ~linking
    /\ linking' = TRUE
    /\ UNCHANGED <<server, address, url_map, next, answer>>
Insert ==
    /\ next <= Len(Program) /\ url_map[next] = "absent" /\ ~linking
    /\ linking' = TRUE
    /\ UNCHANGED <<server, address, url_map, next, answer>>

Linked ==
    /\ linking
    /\ linking' = FALSE
    /\ url_map' = [url_map EXCEPT ![next] = "empty"]
    /\ UNCHANGED <<server, address, next, answer>>

Assign ==
    /\ next <= Len(Program) /\ url_map[next] = "empty"
    /\ url_map' = [url_map EXCEPT ![next] = "set"]
    /\ next' = next + 1
    /\ UNCHANGED <<server, address, linking, answer>>

register_url == Insert \/ Linked \/ Assign

-----------------------------------------------------------------------------
(* The first of the entries seen, in the order of the map, that matches; a *)
(* match without a function counts as none, and ends the search.           *)
First(matching) ==
    IF matching = {} THEN NULL
    ELSE LET first == CHOOSE p \in matching : \A q \in matching : address[p] <= address[q]
         IN  IF url_map[first] = "set" THEN first ELSE NULL

Starts(url, request) == IsPrefix(url, request)

find_handeler(request, seen) ==
    First({p \in seen : Starts(Program[p], request)})

FirstWord(request) ==
    IF \E i \in 1 .. Len(request) : request[i] = BLANK
    THEN SubSeq(request, 1, (CHOOSE i \in 1 .. Len(request) : request[i] = BLANK) - 1)
    ELSE request

find_exact(request, seen) ==
    First({p \in seen : Program[p] = FirstWord(request)})

(* Fault on purpose: the prefix is tried before the exact match.           *)
CreateFault(request, seen) ==
    IF find_handeler(request, seen) # NULL THEN find_handeler(request, seen)
    ELSE find_exact(request, seen)
create_html_page(request, seen) ==
    IF server = "http" /\ find_exact(request, seen) # NULL
    THEN find_exact(request, seen)
    ELSE find_handeler(request, seen)

Entries == {p \in Pages : url_map[p] # "absent"}

(* A request for a path, cut after it if it had parameters, or followed by *)
(* the rest of the request line.                                           *)
Request(path, tail) ==
    \E seen \in (IF linking THEN SUBSET Entries ELSE {Entries}) :
        /\ answer' = [path |-> path, page |-> create_html_page(path \o tail, seen),
                      known |-> {p \in Pages : url_map[p] = "set"},
                      quiet |-> Entries = {p \in Pages : url_map[p] = "set"} /\ ~linking]
        /\ UNCHANGED <<server, address, url_map, next, linking>>

Next ==
    \/ register_url
    \/ \E path \in Requests, tail \in {<<>>, SPACE} : Request(path, tail)

(* What goes on while the program runs between the interrupts.             *)
Spec == Init /\ [][Next]_vars /\ WF_vars(register_url)

-----------------------------------------------------------------------------
(* Properties.                                                             *)

(* Every variable has its type; the pages are registered in order.         *)
TypeOK ==
    /\ server \in {"http", "ap"}
    /\ address \in [Pages -> Pages]
    /\ url_map \in [Pages -> {"absent", "empty", "set"}]
    /\ next \in 1 .. Len(Program) + 1
    /\ \A p \in Pages : p < next <=> url_map[p] = "set"
    /\ linking \in BOOLEAN
    /\ answer.page \in Pages \cup {NULL}

(* A page is only ever generated, also in the middle of an insertion, if   *)
(* it is completely registered, under a URL with which the path begins.    *)
AnswerMatchesUrl ==
    answer.page # NULL =>
        answer.page \in answer.known /\ IsPrefix(Program[answer.page], answer.path)

(* The pages that were completely registered under the path itself.        *)
Own(a) == {p \in a.known : Program[p] = a.path}

(* Outside an insertion a request for a registered URL gets a page, and    *)
(* from the station's server the page that was registered under exactly    *)
(* that URL, wherever the linker placed the texts of the others.  (The     *)
(* access point's may be that of a prefix.)                                *)
OwnPageServed ==
    answer.quiet /\ Own(answer) # {} =>
        IF server = "http" THEN answer.page \in Own(answer) ELSE answer.page # NULL

(* Whatever requests come in between, in the end every page is there: from *)
(* then on a request for its URL is answered, and by the station's server  *)
(* with a page of that URL.                                                *)
EveryPageServed ==
    <>[](\A p \in Pages :
            LET q == create_html_page(Program[p] \o SPACE, Entries)
            IN  q # NULL /\ (server = "http" => Program[q] = Program[p]))

(* Known disagreements.  "request endpoint already registered with         *)
(* register_html_generator will not get passed to this function"           *)
(* (http_server.h:28): a lookup in the middle of an insertion may miss it. *)
RegisteredNotHandedOn == Own(answer) # {} => answer.page # NULL

(* "This will register a function to generate an html page when a request  *)
(* is made to the server" (picow_access_point.h:30): the access point may  *)
(* prefer the page of a prefix.                                            *)
RegisteredPageServed == answer.quiet /\ Own(answer) # {} => answer.page \in Own(answer)

=============================================================================
