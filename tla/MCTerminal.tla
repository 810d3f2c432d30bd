----------------------------- MODULE MCTerminal -----------------------------
(* Two reports, a view of a report, a view of that view, a second view; the  *)
(* statements that make them and those that ask for them.  Names are in      *)
(* lower case, so that no keyword has a letter of theirs; one line names a   *)
(* view that ends as SELECT is spelled, for a place of it before SELECT's.   *)
(* Three lines have characters of two and of four bytes.                     *)
EXTENDS Terminal

Of(c, seg) == [head |-> c, label |-> <<>>, segment |-> seg, unique |-> FALSE]
co == <<"c", "o">>
cl == <<"c", "l">>
Report(n, cs) == [name |-> n, cols |-> cs, pk |-> co, src |-> <<>>]
MCReports == <<Report(<<"t", "a">>, <<Of(co, FALSE), Of(cl, TRUE)>>),
               Report(<<"t", "b">>, <<Of(cl, TRUE)>>)>>
MCLetters == [k \in Keywords \cup {"\\g", "\\G", "\\c", "\\h", "\\q"} |-> Len(k) - 1]
MCWide == [e2 |-> 1, e4 |-> 3]
MCDuring == {<<"d", "a">>, <<"d", "b">>}

S(words) == Joined(words)
Statements ==
  { S(<<co>>),
    <<" ", " ">>,
    S(<< <<"DESC">>, <<"t", "a">>, <<"c", "o", ";">> >>),
    S(<< <<"DESC">>, <<"FULL">>, <<"v">>, <<"x", ";">> >>),
    S(<< <<"SHOW">>, <<"TABLES">>, <<"WITH">>, <<"x", " ", ";">> >>),
    S(<< <<"SHOW">>, <<"FULL">>, <<"TABLES">>, <<"LIKE">>, <<"u", "%", ";">> >>),
    S(<< <<"SHOW">>, co, <<"x">>, <<>> >>),
    S(<< <<"CREATE">>, <<"VIEW">>, <<"x", "SELECT">>, <<"AS">>, <<"SELECT">>, co, <<>> >>),
    S(<< <<"WITH">>, <<"c", "l", ";">> >>),
    S(<< <<"CREATE">>, <<"VIEW">>, <<"v", "(", "x", ")">>, <<"AS">>, <<"SELECT">>, co, <<"FROM">>, <<"t", "a", ";">> >>),
    S(<< <<"DESC">>, <<"w">>, <<"y", ";">> >>),
    S(<< <<"CREATE">>, <<"VIEW">>, <<"v", "(", "c", "o", ",", "x", ")">>, <<"AS">>, <<"SELECT">>, <<"DISTINCT">>, <<"c", "l", ",">>, co, <<"FROM">>, <<"t", "a", ";">> >>),
    S(<< <<"CREATE">>, <<"VIEW">>, <<"w", "(", "y", ")">>, <<"AS">>, <<"SELECT">>, <<"x">>, <<"FROM">>, <<"v", ";">> >>),
    S(<< <<"CREATE">>, <<"VIEW">>, <<"u">>, <<"AS">>, <<"SELECT">>, <<"x">>, <<"FROM">>, <<"w", ";">> >>),
    S(<< <<"CREATE">>, <<"OR">>, <<"REPLACE">>, <<"VIEW">>, <<"v">>, <<"AS">>, <<"SELECT", " ">>, cl, <<"FROM">>, <<"t", "b", ";">> >>),
    S(<< <<"SELECT">>, co, <<"FROM">>, <<"t", "a">>, <<"WHERE">>, <<"c", "l", "=">>, <<"x">>, <<"AND">>, co, <<"DURING">>, <<"d", "a">>,
         <<"ORDER">>, <<"BY">>, <<"c", "o", "\\G">> >>),
    S(<< <<"CREATE">>, <<"VIEW">>, <<"e2">>, <<"AS">>, <<"SELECT">>, co, <<>> >>),
    S(<< <<"CREATE">>, <<"e4", "e4", "e4">>, <<"x">>, <<"SELECT">> >>),
    S(<< <<"SELECT">>, <<"e2", "c", "o">>, <<"FROM">>, <<"t", "a">>, <<"ORDER">>, <<"BY">>, <<"e2", "c", "o">> >>),
    <<"help", ";">>, <<"\\c">>, <<"quit", ";">> }
MCBreaks == { <<"SHOW", " ", "TABLES">>, co }
=============================================================================
