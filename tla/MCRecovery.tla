----------------------------- MODULE MCRecovery -----------------------------
(* TLC instances of Recovery.                                              *)
EXTENDS Recovery

Keywords == SyncSet \cup {"fixed", "impl", "in", "else", "case", "default",
                          "self", "super"}
Symbols  == {"(", ")", "[", "]", "{", "}", ".", ",", ";", ":", "=", "-"}
AllTokens == {"id", "lit"} \cup Symbols \cup Keywords

(* Any first token; and the places that no short text gets to.             *)
Starts == {<<t>> : t \in AllTokens} \cup
  { <<"switch", "(", "id", ")", "{", "case">>,
    <<"switch", "(", "id", ")", "{", "default", ":">>,
    <<"class", "id", "impl", "id", "{", "fn", "id", "(", ")", "{">>,
    <<"class", "id", "{">>,
    <<"for", "(", ";">>, <<"foreach", "id", "in">>, <<"{", "if", "(", "lit", ")">>,
    <<"for", "(", "var">>, <<"id", "[">>, <<"fn", "id", "(">> }

(* The shortest texts that show what sync() does after a semicolon.        *)
Few == {"id", ";", ")"}
FewStarts == {<<t>> : t \in Few}
============================================================================
