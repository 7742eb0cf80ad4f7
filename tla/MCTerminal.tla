----------------------------- MODULE MCTerminal -----------------------------
\* The prompt of the instance that TLC checks.
EXTENDS Terminal

MCPrompt == <<"$", ">">>
=============================================================================
