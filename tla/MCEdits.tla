--------------------------------- MODULE MCEdits ---------------------------------
(***************************************************************************)
(* The instance of Edits that TLC checks.                                  *)
(***************************************************************************)
EXTENDS Edits

MCChars == {"nl", "e", "astral", "</body>", "</BODY>", "</html>"}
MCUnits == [c \in MCChars |-> IF c = "astral" THEN 2 ELSE 1]
MCOctets == [c \in MCChars |->
    CASE c = "e" -> 2 [] c = "astral" -> 4 [] OTHER -> 1]
MCBody == {"</body>", "</BODY>"}
MCStarts == {<<>>, <<"astral", "nl", "e">>, <<"</body>", "</BODY>", "</html>">>}
MCInserts == {<<>>, <<"astral", "nl">>, <<"e">>, <<"</body>">>, <<"</html>">>}
================================================================================
