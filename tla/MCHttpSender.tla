---------------------------- MODULE MCHttpSender ----------------------------
EXTENDS HttpSender

\* Responses that the reader supports, with the length first or last, and one
\* of each kind that it refuses.
GoodLayouts == {<<"S", "L">>, <<"S", "L", "H">>}
BadLayouts == {<<"E", "L">>, <<"S", "T">>, <<"S">>, <<"S", "B", "L">>}
AllLayouts == GoodLayouts \cup BadLayouts
=============================================================================
