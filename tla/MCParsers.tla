----------------------------- MODULE MCParsers ------------------------------
(* The four pieces of code that walk over bytes from outside: DnsServer    *)
(* with the sizes of the code and datagrams around every limit,            *)
(* RequestText, HtmlHelper and DhcpOptions.  A behaviour runs one of them. *)
EXTENDS DnsServer, Sequences

CONSTANTS RequestChars, MAX_TEXT, Rubbish, BODY
CONSTANTS TextChars, MAX_INPUT
CONSTANTS SIZE, ClientCodes, OptionLengths, Bytes, MAX_OPTIONS

(* A buffer has a size, and what it holds are characters.                  *)
ASSUME BufferAssumption == MAX_TEXT \in Nat /\ Rubbish \subseteq Seq(RequestChars)

(* A string ends at its NUL and has none before that.                      *)
ASSUME InputAssumption == MAX_INPUT \in Nat /\ "nul" \notin TextChars

(* Options have room in the area, the server's too; their codes and their  *)
(* lengths are bytes, and no option has the number of the end.             *)
ASSUME AreaAssumption ==
    /\ SIZE \in Nat /\ SIZE > 33
    /\ ClientCodes \subseteq (0 .. 254)
    /\ OptionLengths \subseteq (0 .. 255)
    /\ Bytes \subseteq (0 .. 255)

VARIABLES
    parser,                                                 \* the one that runs
    text, phase, request, params, name, body,               \* RequestText
    input, loop, i, output_length, dst,                     \* HtmlHelper
    msg, options, padded, ended, area, cmd, found, opt, written, stage  \* DhcpOptions

request_vars == <<text, phase, request, params, name, body>>
html_vars == <<input, loop, i, output_length, dst>>
option_vars == <<msg, options, padded, ended, area, cmd, found, opt, written, stage>>
mc_vars == <<parser, vars, request_vars, html_vars, option_vars>>

Text == INSTANCE RequestText WITH Chars <- RequestChars, pc <- phase
Html == INSTANCE HtmlHelper WITH Chars <- TextChars, pc <- loop
Opts == INSTANCE DhcpOptions WITH Lengths <- OptionLengths, pc <- stage

MCInit ==
    /\ parser \in {"dns", "request", "html", "options"}
    /\ Init /\ Text!Init /\ Html!Init /\ Opts!Init
    /\ parser # "html" => input = <<>>

Dns == parser = "dns" /\ Next /\ UNCHANGED <<parser, request_vars, html_vars, option_vars>>
Request == parser = "request" /\ Text!Next /\ UNCHANGED <<parser, vars, html_vars, option_vars>>
HtmlText == parser = "html" /\ Html!Next /\ UNCHANGED <<parser, vars, request_vars, option_vars>>
Options == parser = "options" /\ Opts!Next /\ UNCHANGED <<parser, vars, request_vars, html_vars>>

(* A step of the DNS callback, which runs to its end.                      *)
Callback ==
    /\ parser = "dns"
    /\ Answer \/ \E b \in Byte : WalkLabel(b)
    /\ UNCHANGED <<parser, request_vars, html_vars, option_vars>>

MCSpec == MCInit /\ [][Dns \/ Request \/ HtmlText \/ Options]_mc_vars /\ WF_mc_vars(Callback)

(* Whatever handle_tcp_data finds in the buffer behind a URL, the page is  *)
(* looked up by its path, its parameters are found and end with it, and    *)
(* 'not found' names no other URL.                                         *)
UrlSplitRight == Text!UrlSplitRight

(* replace_newlines_with_html replaces every newline, returns the strlen   *)
(* of the result and writes that many bytes and a NUL, never more.         *)
ReplacesNewlines == Html!ReplacesNewlines

(* opt_find finds the first option with the code, and nothing that only    *)
(* looks like one.                                                         *)
FindsFirst == Opts!FindsFirst

(* What opt_write_* wrote over the request is found where it was written.  *)
ReplyReadsBack == Opts!ReplyReadsBack

MCLengths == {0, 11, 12, 13, 16, 17, 40, 267, 271, 299, 300, 301, 512}
MCRubbish ==
    {<<>>, <<"query">>, <<"space">>, <<"query", "/", "space">>, <<"space", "query", "/">>}
=============================================================================
