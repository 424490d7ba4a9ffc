--------------------------------- MODULE MCWire ---------------------------------
(***************************************************************************)
(* The instance of Wire that TLC checks: a site www with a directory whose *)
(* name has to be encoded, and next to it what two mounts lead to, one     *)
(* below the other.                                                        *)
(***************************************************************************)
EXTENDS Wire

MCNames == {"www", "lib", "old", "index", "docs", "c", "c#", "a", "live", "client"}
MCBad == {"a\\"}
MCPieces == MCNames \cup {"", "c%23", ".", "%2e%2e", "..", "docs%2F", "a%5C", "%FF", "?a"}
MCReads == [p \in MCPieces |->
    CASE p = "c#" -> <<"c">>
      [] p = "c%23" -> <<"c#">>
      [] p = "%2e%2e" -> <<"..">>
      [] p = "docs%2F" -> <<"docs", "">>
      [] p = "a%5C" -> <<"a\\">>
      [] p = "?a" -> <<"">>
      [] p = "%FF" -> <<>>
      [] OTHER -> <<p>>]
MCCut == {"c#", "?a"}
MCUnread == {"%FF"}
MCRaw == [n \in MCNames |-> n]
MCEncoded == [n \in MCNames |-> IF n = "c#" THEN "c%23" ELSE n]
MCRoot == <<"www">>
MCMounts == <<[route |-> <<"lib">>, base |-> <<"old">>],
              [route |-> <<"lib", "a">>, base |-> <<"lib">>],
              [route |-> <<>>, base |-> <<"old">>],
              [route |-> <<"c#", "docs">>, base |-> <<"lib">>]>>

MCDirs == {<<"www">>, <<"www", "docs">>, <<"www", "c#">>, <<"www", "lib">>,
           <<"lib">>, <<"old">>}
MCPages == {<<"www", "index">>}
MCRestless == {<<"www", "index">>, <<"www", "c#", "a">>}
MCFiles == MCRestless \cup {<<"www", "lib", "a">>, <<"lib", "c#">>, <<"old", "a">>,
                            <<"www", "live", "a">>}

MCConfigs == {[spa |-> TRUE, listing |-> FALSE, live |-> TRUE],
              [spa |-> FALSE, listing |-> TRUE, live |-> FALSE]}

Ranges == {Range_("span", 0, 0), Range_("span", 1, 9), Range_("span", 2, 1),
           Range_("from", 0, 0), Range_("from", 2, 0), Range_("from", 3, 0),
           Range_("last", 0, 0), Range_("last", 2, 0), Range_("last", 9, 0),
           Range_("list", 0, 0), Range_("other", 0, 0)}

Targets == {<<p>> : p \in MCPieces}
           \cup {<<p, q>> : p \in {"docs", "lib", "..", "c%23"},
                            q \in MCPieces}
           \cup {<<"live", "client">>, <<"live", "a">>}
           \cup {<<"lib", p, q>> : p \in {"a", "%2e%2e"}, q \in MCPieces}

Plain(target) == Request("GET", target, NoRange, None, None)

MCAsked == {Plain(target) : target \in Targets}
           \cup {Request("GET", <<"c%23", "a">>, range, None, None) : range \in Ranges}
           \cup {Request("HEAD", <<"c%23", "a">>, range, None, None) :
                    range \in {NoRange, Range_("last", 2, 0)}}
           \cup {Request("HEAD", <<"">>, NoRange, None, None)}
           \cup {Request("POST", <<"docs">>, NoRange, None, None)}
           \cup {[Plain(<<"docs", "">>) EXCEPT !.close = TRUE]}

MCClientFrames == {[kind |-> "ping", length |-> 4], [kind |-> "ping", length |-> 126],
                   [kind |-> "text", length |-> 0], [kind |-> "text", length |-> 65537],
                   [kind |-> "close", length |-> 2]}
================================================================================
