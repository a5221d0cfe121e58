----------------------------- MODULE MCAgentLoop -----------------------------
(* An instance of AgentLoop for TLC. *)
EXTENDS AgentLoop

CONSTANTS
    MaxText   \* bound: longest text that is split, in bytes

\* A tool that needs no credential, and one that is not in the registry.
MCRegistered == {"send_telegram", "http_fetch"}
MCFirst == [prompt |-> "old", tools |-> {"send_telegram", "http_fetch", "web_search"}]
MCAgents == {MCFirst, [prompt |-> "new", tools |-> {"http_fetch"}]}

Texts == {t \in UNION {[1 .. n -> Byte] : n \in 0 .. MaxText} : WellFormed(t)}

MCCall(i, name, text) == [id |-> i, tool |-> name, text |-> text]

\* splitForTelegram against what it is for, for every text up to MaxText bytes.
ASSUME SplitIsFaithful ==
    \A text \in Texts :
        /\ Fit(Split(text))
        /\ Carries([i \in DOMAIN Split(text) |-> Marshal(Split(text)[i])], text)

\* Texts a model sends: blank; two lines that do not fit together, the second as
\* long as a part; a line that is cut, inside a character.
MCTexts == {<<Newline>>, <<"a", Newline, "a", "a">>, <<"a", "h", "t">>}

\* The answer; a message; two calls, one of which is malformed or was never
\* granted.
MCCalls ==
    {<<>>}
    \cup {<<MCCall(1, "send_telegram", t)>> : t \in MCTexts}
    \cup {<<MCCall(1, "http_fetch", <<>>), MCCall(2, "send_telegram", Invalid)>>,
          <<MCCall(1, "web_search", <<>>), MCCall(2, "http_fetch", <<>>)>>}

=============================================================================
